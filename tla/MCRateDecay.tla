----------------------------- MODULE MCRateDecay -----------------------------
(***************************************************************************)
(* Instances of RateDecayFlooding.  One tick is 1 ms and one unit of       *)
(* length 1 dm; nodes stand on a line.  SendInterval is 120 ms and         *)
(* ForwardingJitter 10 ms as in the scenarios, the decay factor 1.         *)
(* Air time is one tick.                                                   *)
(***************************************************************************)
EXTENDS RateDecayFlooding

Abs(x) == IF x < 0 THEN -x ELSE x

\* Points on the line, their distances and their encoding in whole metres.
Line(points) == [p \in points |-> [q \in points |-> Abs(p - q)]]
Metres(points) == [x \in points |-> 10 * (x \div 10)]

OneTick == {1}
Decay1 == <<1, 2, 3>>

(* Roaming: 0 is two hops from 2, which moves out of the range of 1 and back
   and hears some of the packets only; 1 stops. *)
RoamingNode == 0 .. 2
RoamingPos == {1000, 1005, 5000, 9000, 10100}
RoamingTrack == [n \in RoamingNode |-> CASE n = 0 -> {1005}
                                         [] n = 1 -> {5000}
                                         [] n = 2 -> {9000, 10100}]
RoamingDist == Line(RoamingPos)
RoamingCell == Metres(RoamingPos)
RoamingStart == [n \in RoamingNode |-> {50 * n}]
RoamingStop == [n \in RoamingNode |-> IF n = 1 THEN 380 ELSE 0]

=============================================================================
