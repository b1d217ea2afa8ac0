----------------------------- MODULE MCContention -----------------------------
(***************************************************************************)
(* Instances of ContentionFlooding.  One tick is 1 ms and one unit of      *)
(* length 1 dm; nodes stand on a line.  SendInterval is 120 ms and         *)
(* ForwardingJitter 10 ms, as in the scenarios.  Air time is one tick.     *)
(***************************************************************************)
EXTENDS ContentionFlooding

Abs(x) == IF x < 0 THEN -x ELSE x

\* Points on the line, their distances and their encoding in whole metres.
Line(points) == [p \in points |-> [q \in points |-> Abs(p - q)]]
Metres(points) == [x \in points |-> 10 * (x \div 10)]

OneTick == {1}

(* Fan: 1 and 2 hear 0 and each other, and only 2 also 3.  0 and 3 send,
   the relays are silent until the end. *)
FanNode == 0 .. 3
FanPos == {0, 3000, 4500, 9300}
FanTrack == [n \in FanNode |-> CASE n = 0 -> {0}
                                  [] n = 1 -> {3000}
                                  [] n = 2 -> {4500}
                                  [] n = 3 -> {9300}]
FanDist == Line(FanPos)
FanCell == Metres(FanPos)
FanStart == [n \in FanNode |-> CASE n = 0 -> {0}
                                  [] n = 3 -> 0 .. 4
                                  [] OTHER -> 99 .. 100]
FanStop == [n \in FanNode |-> 0]

(* Roaming: 1 moves past 2, which 0 can reach only over it; 0 stops. *)
RoamingNode == 0 .. 2
RoamingPos == {1000, 1005, 4000, 8000, 9000}
RoamingTrack == [n \in RoamingNode |-> CASE n = 0 -> {1005}
                                         [] n = 1 -> {4000, 9000}
                                         [] n = 2 -> {8000}]
RoamingDist == Line(RoamingPos)
RoamingCell == Metres(RoamingPos)
RoamingStart == [n \in RoamingNode |-> {30 * n}]
RoamingStop == [n \in RoamingNode |-> IF n = 0 THEN 250 ELSE 0]

=============================================================================
