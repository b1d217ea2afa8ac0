------------------------------ MODULE MCScenario ------------------------------
(***************************************************************************)
(* An instance of SpotlightScenario in the units of MCSpotlight.           *)
(***************************************************************************)
EXTENDS SpotlightScenario, MCSpotlight

(* Roaming: 1 moves into and out of the range of the source 0 and of the
   station 2; 0 stops. *)
RoamingNode == 0 .. 2
RoamingGround == <<2>>
RoamingPos == {0, 1000, 4000, 9200}
RoamingTrack == [n \in RoamingNode |-> CASE n = 0 -> {1000}
                                         [] n = 1 -> {0, 9200}
                                         [] n = 2 -> {4000}]
RoamingDist == Line(RoamingPos)
RoamingCell == Metres(RoamingPos)
RoamingStart == [n \in RoamingNode |-> CASE n = 0 -> {0}
                                         [] n = 1 -> {10}
                                         [] n = 2 -> {130}]
RoamingStop == [n \in RoamingNode |-> IF n = 0 THEN 470 ELSE 0]

=============================================================================
