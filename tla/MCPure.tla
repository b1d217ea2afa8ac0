-------------------------------- MODULE MCPure --------------------------------
(***************************************************************************)
(* Instances of PureFlooding.  One tick is 10 ms and one unit of length    *)
(* 1 dm; nodes stand on a line.  SendInterval is 120 ms, and the delay is  *)
(* drawn from [0, 100) ms, which Delays samples at its ends and in its     *)
(* middle.  Air time is one tick.                                          *)
(***************************************************************************)
EXTENDS PureFlooding

Abs(x) == IF x < 0 THEN -x ELSE x

\* Points on the line, their distances and their encoding in whole metres.
Line(points) == [p \in points |-> [q \in points |-> Abs(p - q)]]
Metres(points) == [x \in points |-> 10 * (x \div 10)]

OneTick == {1}
Sampled == {0, 4, 9}
AllTicks == 0 .. 9
Always == {TRUE}
Sometimes == {TRUE, FALSE}

(* Diamond: packets of 0 go over 1 or 2 to 3, and no farther to 4;
   the others do not send before the end. *)
DiamondNode == 0 .. 4
DiamondPos == {0, 4000, 8000, 12000}
DiamondTrack == [n \in DiamondNode |-> CASE n = 0 -> {0}
                                          [] n \in {1, 2} -> {4000}
                                          [] n = 3 -> {8000}
                                          [] n = 4 -> {12000}]
DiamondDist == Line(DiamondPos)
DiamondCell == Metres(DiamondPos)
DiamondStart == [n \in DiamondNode |-> IF n = 0 THEN {0} ELSE {12}]
DiamondStop == [n \in DiamondNode |-> 0]

(* Roaming: 1 moves between 0 and the others; 0 stops. *)
RoamingNode == 0 .. 2
RoamingPos == {1000, 1005, 4000, 8000, 9000}
RoamingTrack == [n \in RoamingNode |-> CASE n = 0 -> {1005}
                                         [] n = 1 -> {4000, 9000}
                                         [] n = 2 -> {8000}]
RoamingDist == Line(RoamingPos)
RoamingCell == Metres(RoamingPos)
RoamingStart == [n \in RoamingNode |-> {8 * n}]
RoamingStop == [n \in RoamingNode |-> IF n = 0 THEN 25 ELSE 0]

=============================================================================
