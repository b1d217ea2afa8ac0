----------------------------- MODULE MCSpotlight -----------------------------
(***************************************************************************)
(* Instances of SpotlightFlooding.  One tick is 1 ms and one unit of       *)
(* length 1 dm; nodes stand on a line.  The values of the scenarios are    *)
(* kept: SendInterval 120 ms, ForwardingJitter 10 ms, Threshold 150 m,     *)
(* MaxDistance 509 m, decay factor 2 or the attribute's default 1.  Air     *)
(* time is one tick.                                                       *)
(***************************************************************************)
EXTENDS SpotlightFlooding

Abs(x) == IF x < 0 THEN -x ELSE x

\* Points on the line, their distances and their encoding in whole metres.
Line(points) == [p \in points |-> [q \in points |-> Abs(p - q)]]
Metres(points) == [x \in points |-> 10 * (x \div 10)]

OneTick == {1}
Decay1 == <<1, 2, 3>>
Decay2 == <<1, 4, 9>>
NoGround == <<>>

(* Corridor: 0 sends control packets to the station 4.  Only 1 hears it and
   has a small gain; 2 and 3 hear 1 and race with large gains; only 3 reaches
   the station.  Point n + 1 is where node n stands in the plane, point 6 is
   what an encoded header keeps of point 3. *)
CorridorNode == 0 .. 4
CorridorGround == <<4>>
CorridorPos == 1 .. 6
CorridorTrack == [n \in CorridorNode |-> {n + 1}]
CorridorDist ==
    <<<<    0,  1000, 5192, 6000, 10500, 5185>>,
      << 1000,     0, 4466, 5000,  9500, 4459>>,
      << 5192,  4466,    0, 3860,  7287,    7>>,
      << 6000,  5000, 3860,    0,  4500, 3858>>,
      <<10500,  9500, 7287, 4500,     0, 7289>>,
      << 5185,  4459,    7, 3858,  7289,    0>>>>
CorridorCell == [x \in CorridorPos |-> IF x = 3 THEN 6 ELSE x]
CorridorStart == [n \in CorridorNode |-> CASE n = 0 -> {0}
                                           [] n = 1 -> {100}
                                           [] n = 2 -> {50}
                                           [] OTHER -> {10}]
CorridorStop == [n \in CorridorNode |-> 0]

(* Updates: 0 sends position updates past 1 to 2, which moves out of the
   range of 0 and back; frames get lost. *)
UpdatesNode == 0 .. 2
UpdatesPos == {0, 1000, 2000, 5500}
UpdatesTrack == [n \in UpdatesNode |-> IF n = 2 THEN {2000, 5500}
                                                 ELSE {1000 * n}]
UpdatesDist == Line(UpdatesPos)
UpdatesCell == Metres(UpdatesPos)
UpdatesStart == [n \in UpdatesNode |-> IF n = 0 THEN {0} ELSE {60 * n}]
UpdatesStop == [n \in UpdatesNode |-> 0]

(* Fork: 0 reaches 3 only over 1 and, once it has started, over 2. *)
ForkNode == 0 .. 3
ForkPos == {0, 4000, 8000}
ForkTrack == [n \in ForkNode |-> CASE n = 0 -> {0}
                                    [] n = 3 -> {8000}
                                    [] OTHER -> {4000}]
ForkDist == Line(ForkPos)
ForkCell == Metres(ForkPos)
ForkStart == [n \in ForkNode |-> IF n = 2 THEN {250} ELSE {30 * n}]
ForkStop == [n \in ForkNode |-> 0]

(* Beyond: 3 lies behind the station 4 of node 0; it hears packets of 0 from
   1, close to the station, and later also from 2, far from it. *)
BeyondNode == 0 .. 4
BeyondGround == <<4>>
BeyondPos == {0, 2000, 4500, 4900, 5490}
BeyondTrack == [n \in BeyondNode |-> CASE n = 0 -> {0}
                                        [] n = 1 -> {4500}
                                        [] n = 2 -> {2000}
                                        [] n = 3 -> {5490}
                                        [] n = 4 -> {4900}]
BeyondDist == Line(BeyondPos)
BeyondCell == Metres(BeyondPos)
BeyondStart == [n \in BeyondNode |-> CASE n = 0 -> {0}
                                        [] n = 1 -> {110}
                                        [] n = 2 -> {250}
                                        [] n = 3 -> {105}
                                        [] n = 4 -> {0}]
BeyondStop == [n \in BeyondNode |-> 0]

=============================================================================
