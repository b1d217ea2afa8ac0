------------------------- MODULE SpotlightRelayProofs -------------------------
(***************************************************************************)
(* What SpotlightFlooding relays.  It implements NodeDiscovery, its ground *)
(* stations are silent and no node counts itself: three consequences of    *)
(* one invariant about the packets in circulation.  And what its Forward   *)
(* callbacks transmit: once per packet and branch, and position updates at *)
(* a bounded rate.                                                         *)
(***************************************************************************)
EXTENDS SpotlightFloodingProofs

\* What holds of a frame or a stored packet that node m transmitted or will
\* transmit: it was made by its source, and m knows that source.
Genuine(h, m) ==
    /\ h.lastHop = m
    /\ h.seq < seqNo[h.src]
    /\ h.src \in Known[m]

\* The same after a step, of a packet from before or after it.
GenuineNext(h, m) ==
    /\ h.lastHop = m
    /\ h.seq < seqNo'[h.src]
    /\ h.src \in Known'[m]

\* Where the packets in circulation come from and go, and that a node has all
\* its own packets on its list.
CirculationInv ==
    /\ \A n \in Node : pos[n] \in Track[n]
    /\ \A f \in air :
           /\ Genuine(f.hdr, f.hdr.lastHop)
           /\ ~IsGround(f.hdr.lastHop)
           /\ f.node # f.hdr.lastHop
           /\ <<f.hdr.lastHop, f.node>> \in Link
    /\ \A n, s \in Node : buffer[n][s] # NoPacket => Genuine(buffer[n][s], n)
    /\ \A n \in Node, k \in Nat : k < seqNo[n] => <<n, k>> \in seen[n]

\* Knowledge, unfolded.
LEMMA KnownMember ==
    ASSUME NEW n \in Node
    PROVE  /\ \A s : s \in Known[n] <=>
                  /\ s \in Node
                  /\ lastReceived[n][s] # Absent \/ (s = n /\ seqNo[n] > 0)
           /\ \A s : s \in Known'[n] <=>
                  /\ s \in Node
                  /\ lastReceived'[n][s] # Absent \/ (s = n /\ seqNo'[n] > 0)
    BY DEF Known

\* A transmission reaches nodes that can hear the transmitter.
LEMMA TransmitReach ==
    ASSUME TypeOK, \A n \in Node : pos[n] \in Track[n],
           NEW n \in Node, NEW hdr, NEW via, NEW t \in Nat,
           Transmit(n, hdr, via, t)
    PROVE  \A f \in air' \ air :
               f.hdr = hdr /\ f.node # n /\ <<n, f.node>> \in Link
<1>1. CASE life[n] # "up"
    BY <1>1 DEF Transmit
<1>2. CASE life[n] = "up"
    <2>1. PICK who \in Hearers(n), d \in AirTime :
              air' = air \cup Frames(who, hdr, via, t + d)
        BY <1>2 DEF Transmit
    <2>2. \A m \in who : m \in Node \ {n} /\ Dist[pos[n]][pos[m]] <= RadioRange
        BY <2>1 DEF Hearers, InRange
    <2>3. \A m \in who : <<n, m>> \in Link
        BY <2>2 DEF Link
    <2> QED BY <2>1, <2>2, <2>3 DEF Frames
<1> QED BY <1>1, <1>2

\* The sequence numbers, the lists and the receptions only grow.
LEMMA GenuineStays ==
    ASSUME TypeOK, NEW h \in Header, NEW m \in Node, Genuine(h, m),
           \A s \in Node : seqNo'[s] \in Nat /\ seqNo'[s] >= seqNo[s],
           \A s \in Node : lastReceived[m][s] # Absent =>
                               lastReceived'[m][s] # Absent
    PROVE  GenuineNext(h, m)
<1>1. h.src \in Node /\ h.seq \in Nat
    BY DEF Header
<1>2. seqNo[h.src] \in Nat /\ seqNo[m] \in Nat
    BY <1>1 DEF TypeOK
<1>3. h.lastHop = m /\ h.seq < seqNo'[h.src]
    BY <1>1, <1>2 DEF Genuine
<1>4. h.src \in Known'[m]
    BY <1>1, <1>2, KnownMember DEF Genuine
<1> QED BY <1>3, <1>4 DEF GenuineNext

\* Nothing circulates before the applications start.
LEMMA CirculationInit == Init => CirculationInv
    BY DEF Init, NetworkInit, CirculationInv

\* Steps that change nothing the invariant is about, but the frames on the
\* air, of which some may go.
LEMMA CirculationKept ==
    ASSUME CirculationInv, \A n \in Node : pos'[n] \in Track[n],
           air' \subseteq air,
           UNCHANGED <<seqNo, seen, buffer, lastReceived>>
    PROVE  CirculationInv'
<1>1. Known' = Known /\ Link' = Link
    BY DEF Known, Link
<1>2. \A f \in air' : /\ GenuineNext(f.hdr, f.hdr.lastHop)
                      /\ f.node # f.hdr.lastHop
                      /\ ~IsGround(f.hdr.lastHop)
                      /\ <<f.hdr.lastHop, f.node>> \in Link'
    BY <1>1 DEF CirculationInv, Genuine, GenuineNext
<1>3. \A n, s \in Node :
          buffer'[n][s] # NoPacket => GenuineNext(buffer'[n][s], n)
    BY <1>1 DEF CirculationInv, Genuine, GenuineNext
<1> QED BY <1>2, <1>3 DEF CirculationInv, Genuine, GenuineNext

\* A new packet circulates with its sender on the list.
LEMMA CirculationSend ==
    ASSUME TypeInv, CirculationInv, NEW e \in timers, Send(e)
    PROVE  CirculationInv'
<1> DEFINE n == e.node
           hdr == NewHeader(n, e.at)
           via == [seq |-> hdr.seq, high |-> FALSE]
<1>1. n \in Node /\ e.at \in Nat
    BY DEF TypeInv, TypeOK, Timer
<1>2. /\ hdr \in Header /\ hdr.src = n /\ hdr.seq = seqNo[n]
      /\ hdr.lastHop = n
    BY <1>1, NewHeaderType DEF TypeInv
<1>3. /\ Transmit(n, hdr, via, e.at) /\ ~IsGround(n)
      /\ UNCHANGED <<pos, buffer, lastReceived>>
      /\ seqNo' = [seqNo EXCEPT ![n] = @ + 1]
      /\ seen' = [seen EXCEPT ![n] = @ \cup {Id(hdr)}]
    BY DEF Send
<1> HIDE DEF hdr, via
<1>4. \A f \in air' \ air :
          f.hdr = hdr /\ f.node # n /\ <<n, f.node>> \in Link
    BY <1>1, <1>3, TransmitReach DEF TypeInv, CirculationInv
<1>5. /\ seqNo \in [Node -> Nat]
      /\ seqNo'[n] = seqNo[n] + 1
      /\ \A s \in Node : seqNo'[s] \in Nat /\ seqNo'[s] >= seqNo[s]
      /\ \A s \in Node : s # n => seqNo'[s] = seqNo[s]
    BY <1>1, <1>3 DEF TypeInv, TypeOK
<1>6. GenuineNext(hdr, n)
    <2>1. hdr.seq < seqNo'[hdr.src] /\ seqNo'[n] > 0
        BY <1>1, <1>2, <1>5
    <2>2. hdr.src \in Known'[n]
        BY <1>1, <1>2, <2>1, KnownMember
    <2> QED BY <1>2, <2>1, <2>2 DEF GenuineNext
<1>7. ASSUME NEW f \in air'
      PROVE  /\ GenuineNext(f.hdr, f.hdr.lastHop)
             /\ ~IsGround(f.hdr.lastHop)
             /\ f.node # f.hdr.lastHop
             /\ <<f.hdr.lastHop, f.node>> \in Link'
    <2>1. Link' = Link
        BY DEF Link
    <2>2. CASE f \in air
        <3>1. f.hdr \in Header /\ f.hdr.lastHop \in Node
            BY <2>2 DEF TypeInv, TypeOK, Frame, Header
        <3>2. GenuineNext(f.hdr, f.hdr.lastHop)
            BY <1>3, <1>5, <2>2, <3>1, GenuineStays DEF TypeInv, CirculationInv
        <3> QED BY <2>1, <2>2, <3>2 DEF CirculationInv
    <2>3. CASE f \in air' \ air
        BY <1>2, <1>3, <1>4, <1>6, <2>1, <2>3
    <2> QED BY <2>2, <2>3
<1>8. ASSUME NEW m \in Node, NEW s \in Node, buffer'[m][s] # NoPacket
      PROVE  GenuineNext(buffer'[m][s], m)
    <2>1. buffer[m][s] \in Header /\ Genuine(buffer[m][s], m)
        BY <1>3, <1>8 DEF TypeInv, TypeOK, CirculationInv
    <2> QED BY <1>3, <1>5, <2>1, GenuineStays DEF TypeInv
<1>9. ASSUME NEW m \in Node, NEW k \in Nat, k < seqNo'[m]
      PROVE  <<m, k>> \in seen'[m]
    <2>1. seen \in [Node -> SUBSET PktId]
        BY DEF TypeInv, TypeOK
    <2>2. CASE k < seqNo[m]
        BY <1>3, <2>1, <2>2 DEF CirculationInv
    <2>3. CASE ~(k < seqNo[m])
        <3>1. m = n /\ k = seqNo[n]
            BY <1>1, <1>5, <1>9, <2>3
        <3> QED BY <1>2, <1>3, <2>1, <3>1 DEF Id
    <2> QED BY <2>2, <2>3
<1> QED BY <1>3, <1>7, <1>8, <1>9
        DEF CirculationInv, Genuine, GenuineNext

\* A forwarded packet is the one stored of its source.
LEMMA CirculationForward ==
    ASSUME TypeInv, CirculationInv, NEW c \in pending,
           ForwardHigh(c) \/ ForwardLow(c) \/ ForwardNothing(c)
    PROVE  CirculationInv'
<1>1. CASE ForwardNothing(c)
    BY <1>1, CirculationKept
    DEF ForwardNothing, appVars, CirculationInv
<1>2. CASE ForwardHigh(c) \/ ForwardLow(c)
    <2> DEFINE n == c.node
               packet == buffer[n][c.src]
               via == [seq |-> c.seq, high |-> c.high]
    <2>1. n \in Node /\ c.src \in Node /\ c.at \in Nat
        BY DEF TypeInv, TypeOK, Callback
    <2>2. packet \in Header /\ packet # NoPacket
        BY <2>1 DEF TypeInv, TypeOK, BufferInv
    <2>3. /\ ForwardPacket(c) /\ ~Suppressed(c)
          /\ UNCHANGED <<pos, seqNo, buffer, lastReceived>>
          /\ \/ seen' = seen
             \/ seen' = [seen EXCEPT ![n] = @ \cup {<<c.src, c.seq>>}]
        BY <1>2 DEF ForwardHigh, ForwardLow
    <2>4. Genuine(packet, n) /\ ~IsGround(n)
        BY <2>1, <2>2, <2>3 DEF CirculationInv, Suppressed
    <2>5. Transmit(n, packet, via, c.at)
        BY <2>3 DEF ForwardPacket
    <2> HIDE DEF packet, via
    <2>6. \A f \in air' \ air :
              f.hdr = packet /\ f.node # n /\ <<n, f.node>> \in Link
        BY <2>1, <2>5, TransmitReach DEF TypeInv, CirculationInv
    <2>7. Known' = Known /\ Link' = Link
        BY <2>3 DEF Known, Link
    <2>8. \A f \in air' : /\ Genuine(f.hdr, f.hdr.lastHop)
                          /\ ~IsGround(f.hdr.lastHop)
                          /\ f.node # f.hdr.lastHop
                          /\ <<f.hdr.lastHop, f.node>> \in Link
        BY <2>4, <2>6 DEF CirculationInv, Genuine
    <2>9. \A h, m : GenuineNext(h, m) <=> Genuine(h, m)
        BY <2>3, <2>7 DEF Genuine, GenuineNext
    <2>10. \A m \in Node, k \in Nat : k < seqNo[m] => <<m, k>> \in seen'[m]
        <3>1. \A m \in Node : seen[m] \subseteq seen'[m]
            BY <2>3 DEF TypeInv, TypeOK
        <3> QED BY <3>1 DEF CirculationInv
    <2> QED BY <2>3, <2>7, <2>8, <2>9, <2>10
            DEF CirculationInv, Genuine, GenuineNext
<1> QED BY <1>1, <1>2

\* A first sight stores a packet of a source that is known from now on.
LEMMA CirculationFirstSight ==
    ASSUME TypeInv, CirculationInv, NEW f \in air, FirstSight(f),
           \/ seen' = seen
           \/ seen' = [seen EXCEPT ![f.node] = @ \cup {Id(f.hdr)}]
    PROVE  CirculationInv'
<1> DEFINE n == f.node
           s == f.hdr.src
<1>1. /\ f \in Frame /\ n \in Node /\ s \in Node /\ f.hdr \in Header
      /\ f.hdr.ts \in Nat
    BY DEF TypeInv, TypeOK, Frame, Header
<1>2. /\ UNCHANGED <<pos, seqNo>> /\ air' \subseteq air
      /\ buffer' = [buffer EXCEPT ![n][s] = Relayed(f)]
      /\ lastReceived' = [lastReceived EXCEPT ![n][s] = f.hdr.ts]
    BY DEF FirstSight, Arrive, CountReception
<1>3. \A m, r \in Node :
          /\ lastReceived'[m][r] =
                 IF m = n /\ r = s THEN f.hdr.ts ELSE lastReceived[m][r]
          /\ buffer'[m][r] =
                 IF m = n /\ r = s THEN Relayed(f) ELSE buffer[m][r]
    BY <1>1, <1>2 DEF TypeInv, TypeOK
<1>4. \A m, r \in Node :
          lastReceived[m][r] # Absent => lastReceived'[m][r] # Absent
    BY <1>1, <1>3, SpotlightAssumption
<1>5. \A r \in Node : seqNo'[r] \in Nat /\ seqNo'[r] >= seqNo[r]
    BY <1>2 DEF TypeInv, TypeOK
<1>6. ASSUME NEW g \in air'
      PROVE  /\ GenuineNext(g.hdr, g.hdr.lastHop)
             /\ ~IsGround(g.hdr.lastHop)
             /\ g.node # g.hdr.lastHop
             /\ <<g.hdr.lastHop, g.node>> \in Link'
    <2>1. g.hdr \in Header /\ g.hdr.lastHop \in Node /\ g \in air
        BY <1>2 DEF TypeInv, TypeOK, Frame, Header
    <2>2. GenuineNext(g.hdr, g.hdr.lastHop)
        BY <1>4, <1>5, <2>1, GenuineStays DEF TypeInv, CirculationInv
    <2> QED BY <2>1, <2>2 DEF CirculationInv, Link
<1>7. ASSUME NEW m \in Node, NEW r \in Node, buffer'[m][r] # NoPacket
      PROVE  GenuineNext(buffer'[m][r], m)
    <2>1. CASE m = n /\ r = s
        <3>1. /\ Relayed(f).src = s /\ Relayed(f).seq = f.hdr.seq
              /\ Relayed(f).lastHop = n
            BY <1>1, RelayedType DEF TypeInv
        <3>2. f.hdr.seq < seqNo[s]
            BY DEF CirculationInv, Genuine
        <3>3. s \in Known'[n]
            BY <1>1, <1>3, SpotlightAssumption, KnownMember
        <3> HIDE DEF n, s
        <3> QED BY <1>1, <1>2, <1>3, <2>1, <3>1, <3>2, <3>3 DEF GenuineNext
    <2>2. CASE ~(m = n /\ r = s)
        <3>1. buffer'[m][r] = buffer[m][r]
            BY <1>3, <2>2
        <3>2. buffer[m][r] \in Header /\ Genuine(buffer[m][r], m)
            BY <1>7, <3>1 DEF TypeInv, TypeOK, CirculationInv
        <3>3. GenuineNext(buffer[m][r], m)
            BY <1>4, <1>5, <3>2, GenuineStays DEF TypeInv
        <3> QED BY <3>1, <3>3 DEF GenuineNext
    <2> QED BY <2>1, <2>2
<1>8. \A m \in Node, k \in Nat : k < seqNo'[m] => <<m, k>> \in seen'[m]
    <2>1. \A m \in Node : seen[m] \subseteq seen'[m]
        BY DEF TypeInv, TypeOK
    <2> QED BY <1>2, <2>1 DEF CirculationInv
<1> QED BY <1>2, <1>6, <1>7, <1>8
        DEF CirculationInv, Genuine, GenuineNext

\* Every step keeps the invariant.
LEMMA CirculationStep ==
    TypeInv /\ CirculationInv /\ [Next]_vars => CirculationInv'
<1> SUFFICES ASSUME TypeInv, CirculationInv, [Next]_vars
             PROVE  CirculationInv'
    OBVIOUS
<1>1. ASSUME NEW e \in timers,
             \/ StartApplication(e) \/ StopApplication(e) \/ ResetStats(e)
             \/ Send(e) \/ GroundSend(e)
      PROVE  CirculationInv'
    <2>1. CASE Send(e)
        BY <2>1, CirculationSend
    <2>2. CASE \/ StartApplication(e) \/ StopApplication(e) \/ ResetStats(e)
               \/ GroundSend(e)
        <3>1. UNCHANGED <<air, pos, seqNo, seen, buffer, lastReceived>>
            BY <2>2 DEF StartApplication, StopApplication, ResetStats,
                GroundSend, OpenSocket, CloseSocket, appVars
        <3> QED BY <3>1, CirculationKept DEF CirculationInv
    <2> QED BY <1>1, <2>1, <2>2
<1>2. ASSUME NEW f \in air,
             \/ HandleReadHigh(f) \/ HandleReadAway(f) \/ HandleReadNear(f)
             \/ HandleReadAgain(f) \/ Ignore(f)
      PROVE  CirculationInv'
    <2>1. CASE \/ HandleReadHigh(f) \/ HandleReadAway(f) \/ HandleReadNear(f)
        BY <2>1, CirculationFirstSight
        DEF HandleReadHigh, HandleReadAway, HandleReadNear
    <2>2. CASE HandleReadAgain(f) \/ Ignore(f)
        <3>1. /\ UNCHANGED <<pos, seqNo, seen, buffer, lastReceived>>
              /\ air' \subseteq air
            BY <2>2 DEF HandleReadAgain, Ignore, Arrive, Drop, appVars
        <3> QED BY <3>1, CirculationKept DEF CirculationInv
    <2> QED BY <1>2, <2>1, <2>2
<1>3. ASSUME NEW n \in Node, Move(n), UNCHANGED appVars
      PROVE  CirculationInv'
    <2>1. \A m \in Node : pos'[m] \in Track[m]
        BY <1>3 DEF Move, TypeInv, TypeOK, CirculationInv
    <2> QED BY <1>3, <2>1, CirculationKept DEF Move, appVars
<1>4. CASE UNCHANGED vars
    BY <1>4, CirculationKept DEF vars, networkVars, appVars, CirculationInv
<1> QED BY <1>1, <1>2, <1>3, <1>4, CirculationForward DEF Next, Roam

\* What circulates was sent and passed on by nodes that know its source, in
\* every state.
THEOREM CirculationInvariant == Spec => [](TypeInv /\ CirculationInv)
<1>1. TypeInv /\ CirculationInv /\ [Next]_vars => CirculationInv'
    BY CirculationStep
<1> QED BY <1>1, CirculationInit, TypeInvInvariant, PTL DEF Spec

-----------------------------------------------------------------------------
(* Consequences *)

\* Nothing on the air was transmitted by a ground station.
THEOREM GroundStationsAreSilent == Spec => []GroundStationsSilent
<1>1. CirculationInv => GroundStationsSilent
    BY DEF CirculationInv, GroundStationsSilent
<1> QED BY <1>1, CirculationInvariant, PTL

\* A first sight is of another node's packet: a node's own are on its list.
LEMMA FirstSightOfOther ==
    ASSUME TypeInv, CirculationInv, NEW f \in air,
           Id(f.hdr) \notin seen[f.node]
    PROVE  f.hdr.src # f.node
<1>1. f.hdr.src \in Node /\ f.hdr.seq \in Nat
    BY DEF TypeInv, TypeOK, Frame, Header
<1>2. f.hdr.seq < seqNo[f.hdr.src]
    BY DEF CirculationInv, Genuine
<1> QED BY <1>1, <1>2 DEF CirculationInv, Id

\* No node ever counts itself among the nodes it has heard of.
THEOREM NobodyCountsItself == Spec => []NeverCountsItself
<1>1. Init => NeverCountsItself
    BY DEF Init, NeverCountsItself
<1>2. (TypeInv /\ CirculationInv) /\ NeverCountsItself /\ [Next]_vars
          => NeverCountsItself'
    <2> SUFFICES ASSUME TypeInv, CirculationInv, NeverCountsItself,
                        [Next]_vars
                 PROVE  NeverCountsItself'
        OBVIOUS
    <2>1. seenNodes \in [Node -> SUBSET Node]
        BY DEF TypeInv, TypeOK
    <2>2. CASE seenNodes' = seenNodes
        BY <2>2 DEF NeverCountsItself
    <2>3. ASSUME NEW e \in timers, ResetStats(e)
          PROVE  NeverCountsItself'
        BY <2>1, <2>3 DEF ResetStats, NeverCountsItself
    <2>4. ASSUME NEW f \in air, FirstSight(f)
          PROVE  NeverCountsItself'
        <3>1. f.hdr.src # f.node
            BY <2>4, FirstSightOfOther DEF FirstSight
        <3>2. seenNodes' =
                  [seenNodes EXCEPT ![f.node] = @ \cup {f.hdr.src}]
            BY <2>4 DEF FirstSight, CountReception
        <3> QED BY <2>1, <3>1, <3>2 DEF NeverCountsItself
    <2> QED BY <2>2, <2>3, <2>4 DEF Next, Roam, vars, appVars, statVars,
            StartApplication, StopApplication, Send, GroundSend, ForwardHigh,
            ForwardLow, ForwardNothing, ForwardPacket, HandleReadHigh,
            HandleReadAway, HandleReadNear, HandleReadAgain, Ignore
<1> QED BY <1>1, <1>2, CirculationInvariant, PTL DEF Spec

-----------------------------------------------------------------------------
(* Refinement *)

\* A first transmission announces the node, a first reception discovers one,
\* and no other step changes what is known.
LEMMA DiscoveryStep ==
    TypeInv /\ CirculationInv /\ [Next]_vars => [Discovery!Next]_Known
<1> SUFFICES ASSUME TypeInv, CirculationInv, [Next]_vars
             PROVE  Discovery!Next \/ Known' = Known
    OBVIOUS
<1>1. CASE UNCHANGED <<seqNo, lastReceived>>
    BY <1>1 DEF Known
<1>2. ASSUME NEW e \in timers, Send(e)
      PROVE  Discovery!Next \/ Known' = Known
    <2> DEFINE n == e.node
    <2>1. /\ n \in Node /\ seqNo \in [Node -> Nat]
          /\ seqNo' = [seqNo EXCEPT ![n] = @ + 1]
          /\ lastReceived' = lastReceived
        BY <1>2 DEF Send, TypeInv, TypeOK, Timer
    <2>2. /\ seqNo'[n] > 0
          /\ \A m \in Node : m # n => seqNo'[m] = seqNo[m]
        BY <2>1
    <2> HIDE DEF n
    <2>3. Known' = [Known EXCEPT ![n] = @ \cup {n}]
        BY <2>1, <2>2 DEF Known
    <2>4. CASE n \in Known[n]
        BY <2>1, <2>3, <2>4 DEF Known
    <2>5. CASE n \notin Known[n]
        BY <2>1, <2>3, <2>5 DEF Discovery!Next, Discovery!Announce
    <2> QED BY <2>4, <2>5
<1>3. ASSUME NEW f \in air, FirstSight(f)
      PROVE  Discovery!Next \/ Known' = Known
    <2> DEFINE n == f.node
               s == f.hdr.src
               m == f.hdr.lastHop
    <2>1. /\ n \in Node /\ s \in Node /\ m \in Node /\ f.hdr.ts \in Nat
          /\ lastReceived \in [Node -> [Node -> Nat \cup {Absent}]]
        BY DEF TypeInv, TypeOK, Frame, Header
    <2>2. /\ seqNo' = seqNo
          /\ lastReceived' = [lastReceived EXCEPT ![n][s] = f.hdr.ts]
        BY <1>3 DEF FirstSight, CountReception
    <2>3. s \in Known[m] /\ <<m, n>> \in Link /\ m \in Node \ {n}
        BY <2>1 DEF CirculationInv, Genuine
    <2> DEFINE stamp == f.hdr.ts
    <2>4. stamp # Absent
        BY <2>1, SpotlightAssumption
    <2> HIDE DEF n, s, m, stamp
    <2>5. \A k, r \in Node : lastReceived'[k][r] =
              IF k = n /\ r = s THEN stamp ELSE lastReceived[k][r]
        BY <2>1, <2>2 DEF stamp
    <2>6. \A k \in Node : Known'[k] =
              IF k = n THEN Known[k] \cup {s} ELSE Known[k]
        BY <2>1, <2>2, <2>4, <2>5 DEF Known
    <2>7. Known' = [Known EXCEPT ![n] = @ \cup {s}]
        BY <2>1, <2>6 DEF Known
    <2>8. CASE s \in Known[n]
        <3>1. Known[n] \cup {s} = Known[n]
            BY <2>8
        <3>2. Known = [k \in Node |-> Known[k]]
            BY DEF Known
        <3> QED BY <2>7, <3>1, <3>2
    <2>9. CASE s \notin Known[n]
        BY <2>1, <2>3, <2>7, <2>9 DEF Discovery!Next, Discovery!Discover
    <2> QED BY <2>8, <2>9
<1> QED BY <1>1, <1>2, <1>3 DEF Next, Roam, vars, appVars,
        StartApplication, StopApplication, ResetStats, GroundSend, ForwardHigh,
        ForwardLow, ForwardNothing, HandleReadHigh, HandleReadAway,
        HandleReadNear, HandleReadAgain, Ignore

\* Spotlight flooding implements node discovery.
THEOREM ImplementsDiscovery == Spec => DiscoversNodes
<1>1. Init => Discovery!Init
    BY SpotlightAssumption DEF Init, Discovery!Init, Known
<1>2. TypeInv /\ CirculationInv /\ [Next]_vars => [Discovery!Next]_Known
    BY DiscoveryStep
<1> QED BY <1>1, <1>2, CirculationInvariant, PTL
        DEF Spec, DiscoversNodes, Discovery!Spec

-----------------------------------------------------------------------------
(* Transmissions *)

\* The callback or log row x is owed to the packet <<s, q>> at node n.
Owed(x, n, s, q) == x.node = n /\ x.src = s /\ x.seq = q

\* What HandleRead leaves pending.
LEMMA ReadPending ==
    ASSUME TypeInv, NEW f \in air,
           \/ HandleReadHigh(f) \/ HandleReadAway(f) \/ HandleReadNear(f)
           \/ HandleReadAgain(f) \/ Ignore(f)
    PROVE  \/ pending' = pending
           \/ /\ Advance(f) > 0 /\ Id(f.hdr) \notin seen[f.node]
              /\ High(f) \/ <<f.hdr.src, f.hdr.seq>> \in seen'[f.node]
              /\ \E delay \in Nat : pending' = pending \cup
                     {[node |-> f.node, src |-> f.hdr.src, seq |-> f.hdr.seq,
                       high |-> High(f), dest |-> f.hdr.dest,
                       at |-> f.at + delay]}
<1>1. f \in Frame /\ f.node \in Node /\ seen \in [Node -> SUBSET PktId]
    BY DEF TypeInv, TypeOK, Frame
<1>2. CASE HandleReadAgain(f) \/ Ignore(f)
    BY <1>2 DEF HandleReadAgain, Ignore, Drop
<1>3. CASE HandleReadHigh(f) \/ HandleReadAway(f) \/ HandleReadNear(f)
    <2>1. Id(f.hdr) \notin seen[f.node]
        BY <1>3 DEF HandleReadHigh, HandleReadAway, HandleReadNear, FirstSight
    <2>2. \E delay \in Nat : ScheduleForward(f, delay)
        <3>1. /\ SpotJitter \subseteq Nat
              /\ ContentionDelay(Advance(f)) + RateDelay(f) \in Nat
              /\ ContentionDelay(Gain(f)) \in Nat
            BY <1>1, FrameQuantities, ContentionDelayBound
            DEF TypeInv, SpotJitter
        <3> QED BY <1>3, <3>1
                DEF HandleReadHigh, HandleReadAway, HandleReadNear
    <2>3. Advance(f) > 0 => High(f) \/ Id(f.hdr) \in seen'[f.node]
        BY <1>1, <1>3 DEF HandleReadHigh, HandleReadAway, HandleReadNear
    <2> QED BY <2>1, <2>2, <2>3 DEF ScheduleForward, Id
<1> QED BY <1>2, <1>3

-----------------------------------------------------------------------------
(* Once *)

\* What makes ReleaseOnce inductive.  With a large gain it is the list that a
\* transmission enters the packet in; otherwise there never is a second
\* callback, because the first one was scheduled with the packet marked.
OnceInv ==
    /\ \A r \in fwdTrace :
           r.high => <<r.src, r.seq>> \in dup[r.node]
    /\ \A x \in fwdTrace \cup pending :
           ~x.high => <<x.src, x.seq>> \in seen[x.node]
    /\ \A c, d \in pending :
           ~c.high /\ ~d.high /\ Owed(c, d.node, d.src, d.seq) => c = d
    /\ \A c \in pending, r \in fwdTrace :
           ~(~c.high /\ ~r.high /\ Owed(c, r.node, r.src, r.seq))
    /\ ReleaseOnce

\* Every step keeps it.
LEMMA OnceStep == TypeInv /\ OnceInv /\ [Next]_vars => OnceInv'
<1> SUFFICES ASSUME TypeInv, OnceInv, [Next]_vars PROVE OnceInv'
    OBVIOUS
<1>1. /\ seen \in [Node -> SUBSET PktId]
      /\ dup \in [Node -> SUBSET PktId]
      /\ pending \subseteq Callback /\ fwdTrace \subseteq TraceRow
    BY DEF TypeInv, TypeOK
<1>2. ASSUME fwdTrace' = fwdTrace, pending' \subseteq pending, dup' = dup,
             \/ seen' = seen
             \/ \E n, k : seen' = [seen EXCEPT ![n] = @ \cup {k}]
      PROVE  OnceInv'
    <2>1. \A x \in fwdTrace \cup pending : x.node \in Node
        BY <1>1 DEF Callback, TraceRow
    <2>2. \A n \in Node : seen[n] \subseteq seen'[n]
        BY <1>1, <1>2
    <2> QED BY <1>2, <2>1, <2>2 DEF OnceInv, ReleaseOnce, Owed
<1>3. ASSUME NEW e \in timers,
             \/ StartApplication(e) \/ StopApplication(e) \/ ResetStats(e)
             \/ Send(e) \/ GroundSend(e)
      PROVE  OnceInv'
    BY <1>2, <1>3 DEF StartApplication, StopApplication, ResetStats, Send,
        GroundSend, OpenSocket, CloseSocket, appVars
<1>4. ASSUME NEW c \in pending, ForwardNothing(c) PROVE OnceInv'
    BY <1>2, <1>4 DEF ForwardNothing, Release, appVars
<1>5. ASSUME NEW c \in pending, ForwardHigh(c) \/ ForwardLow(c)
      PROVE  OnceInv'
    <2> DEFINE row == [node |-> c.node, src |-> c.src, seq |-> c.seq,
                       high |-> c.high, sent |-> buffer[c.node][c.src].seq,
                       at |-> c.at]
    <2>1. /\ fwdTrace' = fwdTrace \cup {row}
          /\ pending' = pending \ {c}
          /\ c \in Callback /\ c.node \in Node /\ <<c.src, c.seq>> \in PktId
        BY <1>1, <1>5 DEF ForwardHigh, ForwardLow, ForwardPacket, Release,
            Callback, PktId
    <2>2. /\ row.node = c.node /\ row.src = c.src /\ row.seq = c.seq
          /\ row.high = c.high
        OBVIOUS
    <2> HIDE DEF row
    <2>3. /\ \A n \in Node : seen[n] \subseteq seen'[n]
          /\ \A n \in Node : dup[n] \subseteq dup'[n]
          /\ c.high => <<c.src, c.seq>> \in dup'[c.node]
        BY <1>1, <1>5, <2>1 DEF ForwardHigh, ForwardLow
    <2>4. \A x \in fwdTrace \cup pending : x.node \in Node
        BY <1>1 DEF Callback, TraceRow
    <2>5. \A r \in fwdTrace' : r.high => <<r.src, r.seq>> \in dup'[r.node]
        BY <2>1, <2>2, <2>3, <2>4 DEF OnceInv
    <2>6. \A x \in fwdTrace' \cup pending' :
              ~x.high => <<x.src, x.seq>> \in seen'[x.node]
        BY <2>1, <2>2, <2>3, <2>4 DEF OnceInv
    <2>7. \A r \in fwdTrace :
              ~(r.high = row.high /\ Owed(r, row.node, row.src, row.seq))
        <3>1. CASE c.high
            <4>1. <<c.src, c.seq>> \notin dup[c.node]
                BY <1>5, <3>1 DEF ForwardHigh, ForwardLow, Suppressed
            <4> QED BY <2>2, <3>1, <4>1 DEF OnceInv, Owed
        <3>2. CASE ~c.high
            BY <2>2, <3>2 DEF OnceInv, Owed
        <3> QED BY <3>1, <3>2
    <2>8. ReleaseOnce'
        BY <2>1, <2>7 DEF OnceInv, ReleaseOnce, Owed
    <2>9. \A d \in pending', r \in fwdTrace' :
              ~(~d.high /\ ~r.high /\ Owed(d, r.node, r.src, r.seq))
        BY <2>1, <2>2 DEF OnceInv, Owed
    <2> QED BY <2>1, <2>5, <2>6, <2>8, <2>9 DEF OnceInv, Owed
<1>6. ASSUME NEW f \in air,
             \/ HandleReadHigh(f) \/ HandleReadAway(f) \/ HandleReadNear(f)
             \/ HandleReadAgain(f) \/ Ignore(f)
      PROVE  OnceInv'
    <2>1. /\ fwdTrace' = fwdTrace /\ dup' = dup
          /\ \/ seen' = seen
             \/ \E n, k : seen' = [seen EXCEPT ![n] = @ \cup {k}]
        BY <1>6 DEF HandleReadHigh, HandleReadAway, HandleReadNear,
            HandleReadAgain, Ignore, FirstSight, appVars
    <2>2. CASE pending' = pending
        BY <1>2, <2>1, <2>2
    <2>3. ASSUME Id(f.hdr) \notin seen[f.node],
                 High(f) \/ <<f.hdr.src, f.hdr.seq>> \in seen'[f.node],
                 NEW delay \in Nat,
                 pending' = pending \cup
                     {[node |-> f.node, src |-> f.hdr.src, seq |-> f.hdr.seq,
                       high |-> High(f), dest |-> f.hdr.dest,
                       at |-> f.at + delay]}
          PROVE  OnceInv'
        <3> DEFINE new ==
                [node |-> f.node, src |-> f.hdr.src, seq |-> f.hdr.seq,
                 high |-> High(f), dest |-> f.hdr.dest, at |-> f.at + delay]
        <3>1. /\ pending' = pending \cup {new}
              /\ <<new.src, new.seq>> \notin seen[new.node]
              /\ ~new.high => <<new.src, new.seq>> \in seen'[new.node]
            BY <2>3 DEF Id
        <3> HIDE DEF new
        <3>2. \A n \in Node : seen[n] \subseteq seen'[n]
            BY <1>1, <2>1
        <3>3. \A x \in fwdTrace \cup pending : x.node \in Node
            BY <1>1 DEF Callback, TraceRow
        <3>4. \A x \in fwdTrace \cup pending :
                  ~x.high => ~Owed(new, x.node, x.src, x.seq)
            BY <3>1 DEF OnceInv, Owed
        <3>5. \A x \in fwdTrace' \cup pending' :
                  ~x.high => <<x.src, x.seq>> \in seen'[x.node]
            BY <2>1, <3>1, <3>2, <3>3 DEF OnceInv
        <3>6. \A c, d \in pending' :
                  ~c.high /\ ~d.high /\ Owed(c, d.node, d.src, d.seq) => c = d
            BY <3>1, <3>4 DEF OnceInv, Owed
        <3>7. \A c \in pending', r \in fwdTrace' :
                  ~(~c.high /\ ~r.high /\ Owed(c, r.node, r.src, r.seq))
            BY <2>1, <3>1, <3>4 DEF OnceInv, Owed
        <3> QED BY <2>1, <3>5, <3>6, <3>7 DEF OnceInv, ReleaseOnce
    <2> QED BY <1>6, <2>2, <2>3, ReadPending
<1>7. ASSUME NEW n \in Node, Move(n), UNCHANGED appVars PROVE OnceInv'
    BY <1>2, <1>7 DEF Move, appVars
<1>8. CASE UNCHANGED vars
    BY <1>2, <1>8 DEF vars, networkVars, appVars
<1> QED BY <1>3, <1>4, <1>5, <1>6, <1>7, <1>8 DEF Next, Roam

\* A node transmits at most once for a packet in either branch of Forward.
THEOREM ReleasedOnce == Spec => []ReleaseOnce
<1>1. Init => OnceInv
    BY DEF Init, NetworkInit, OnceInv, ReleaseOnce
<1>2. OnceInv => ReleaseOnce
    BY DEF OnceInv
<1> QED BY <1>1, <1>2, OnceStep, TypeInvInvariant, PTL DEF Spec

-----------------------------------------------------------------------------
(* At a bounded rate *)

\* The callbacks and log rows of a position update of s at node n.
Slots(n, s) == {x \in pending \cup fwdTrace : x.node = n /\ x.src = s}

Apart(x, y) ==
    \/ x.at - y.at >= SendInterval - Jitter
    \/ y.at - x.at >= SendInterval - Jitter

\* What makes RelaySpacing inductive: already the callbacks are spaced, and
\* none is due later than lastForwarded and the longest contention delay.
SpacingInv ==
    \A n, s \in Node :
        DestOf(s) = 0 =>
            /\ \A x \in Slots(n, s) :
                   /\ lastForwarded[n][s] # Absent
                   /\ x.at <= lastForwarded[n][s] + Jitter
            /\ \A c, d \in pending :
                   {c, d} \subseteq Slots(n, s) /\ c # d => Apart(c, d)
            /\ \A c \in pending, r \in fwdTrace :
                   {c, r} \subseteq Slots(n, s) => Apart(c, r)
            /\ \A r, q \in fwdTrace :
                   {r, q} \subseteq Slots(n, s) /\ r # q => Apart(r, q)

\* The callback of a position update: a spacing after the one before it.
LEMMA ReadUpdate ==
    ASSUME TypeInv, NEW f \in air, DestOf(f.hdr.src) = 0,
           \/ HandleReadHigh(f) \/ HandleReadAway(f) \/ HandleReadNear(f)
           \/ HandleReadAgain(f) \/ Ignore(f)
    PROVE  \/ pending' = pending /\ lastForwarded' = lastForwarded
           \/ \E rate \in Nat, delay \in Nat, new \in Callback :
                  /\ lastForwarded' =
                         [lastForwarded EXCEPT ![f.node][f.hdr.src] =
                             f.at + rate]
                  /\ lastForwarded[f.node][f.hdr.src] # Absent =>
                         f.at + rate >=
                             lastForwarded[f.node][f.hdr.src] + SendInterval
                  /\ delay <= Jitter
                  /\ new.node = f.node /\ new.src = f.hdr.src
                  /\ new.at = f.at + rate + delay
                  /\ pending' = pending \/ pending' = pending \cup {new}
<1>1. /\ f \in Frame /\ f.node \in Node /\ f.at \in Nat
      /\ f.hdr.src \in Node /\ f.hdr.hops \in Nat /\ f.hdr.seq \in Nat
      /\ f.hdr.dest = 0 /\ f.hdr.dest \in Node
    BY DEF TypeInv, TypeOK, BufferInv, Frame, Header
<1>2. CASE HandleReadAgain(f) \/ Ignore(f)
    BY <1>2 DEF HandleReadAgain, Ignore, Drop, appVars
<1>3. ~HandleReadHigh(f) /\ ~HandleReadNear(f)
    BY <1>1 DEF HandleReadHigh, HandleReadNear, High
<1>4. CASE HandleReadAway(f)
    <2> DEFINE last == lastForwarded[f.node][f.hdr.src]
               rate == RateDelay(f)
               delay == ContentionDelay(Advance(f))
    <2>1. /\ last \in Nat \cup {Absent} /\ rate \in Nat /\ delay \in Nat
          /\ Advance(f) > 0 => delay <= Jitter
        BY <1>1, FrameQuantities, ContentionDelayBound DEF TypeInv, TypeOK
    <2>2. Spacing(f.hdr.hops) \in Nat /\ Spacing(f.hdr.hops) >= SendInterval
        BY <1>1, SpacingBound
    <2>3. last # Absent => f.at + rate >= last + SendInterval
        <3>1. SendInterval \in Nat
            BY TimeAssumption
        <3> QED BY <1>1, <2>1, <2>2, <3>1 DEF RateDelay
    <2>4. /\ ScheduleForward(f, delay + rate)
          /\ lastForwarded' =
                 [lastForwarded EXCEPT ![f.node][f.hdr.src] = f.at + rate]
        BY <1>4 DEF HandleReadAway
    <2> DEFINE new(d) ==
            [node |-> f.node, src |-> f.hdr.src, seq |-> f.hdr.seq,
             high |-> High(f), dest |-> f.hdr.dest, at |-> f.at + d]
    <2>5. High(f) \in BOOLEAN
        BY DEF High
    <2>6. \A d \in Nat : new(d) \in Callback
        BY <1>1, <2>5 DEF Callback
    <2> HIDE DEF rate, delay
    <2>7. CASE Advance(f) > 0
        <3>1. new(delay + rate) \in Callback
            BY <2>1, <2>6
        <3>2. /\ new(delay + rate).node = f.node
              /\ new(delay + rate).src = f.hdr.src
              /\ new(delay + rate).at = f.at + rate + delay
            BY <1>1, <2>1
        <3>3. pending' = pending \cup {new(delay + rate)}
            BY <2>4, <2>7 DEF ScheduleForward
        <3> HIDE DEF new
        <3> QED BY <2>1, <2>3, <2>4, <2>7, <3>1, <3>2, <3>3
    <2>8. CASE ~(Advance(f) > 0)
        <3>1. pending' = pending
            BY <2>4, <2>8 DEF ScheduleForward
        <3>2. new(rate) \in Callback /\ 0 \in Nat /\ 0 <= Jitter
            <4>1. new(rate) \in Callback
                BY <2>1, <2>6
            <4> QED BY <4>1, SpotlightAssumption
        <3>3. /\ new(rate).node = f.node /\ new(rate).src = f.hdr.src
              /\ new(rate).at = f.at + rate + 0
            BY <1>1, <2>1
        <3> HIDE DEF new
        <3> QED BY <2>1, <2>3, <2>4, <3>1, <3>2, <3>3
    <2> QED BY <2>7, <2>8
<1> QED BY <1>2, <1>3, <1>4

\* Every action keeps callbacks and transmissions apart.
LEMMA SpacingStep == TypeInv /\ SpacingInv /\ [Next]_vars => SpacingInv'
<1> SUFFICES ASSUME TypeInv, SpacingInv, [Next]_vars PROVE SpacingInv'
    OBVIOUS
<1>1. /\ pending \subseteq Callback /\ fwdTrace \subseteq TraceRow
      /\ lastForwarded \in [Node -> [Node -> Nat \cup {Absent}]]
      /\ SendInterval \in Nat /\ Jitter \in Nat /\ Absent \notin Nat
    BY TimeAssumption, SpotlightAssumption DEF TypeInv, TypeOK
<1>2. \A x \in pending \cup fwdTrace :
          x.node \in Node /\ x.src \in Node /\ x.at \in Nat
    BY <1>1 DEF Callback, TraceRow
<1>3. ASSUME fwdTrace' = fwdTrace, pending' \subseteq pending,
             lastForwarded' = lastForwarded
      PROVE  SpacingInv'
    BY <1>3 DEF SpacingInv, Slots, Apart
<1>4. ASSUME NEW e \in timers,
             \/ StartApplication(e) \/ StopApplication(e) \/ ResetStats(e)
             \/ Send(e) \/ GroundSend(e)
      PROVE  SpacingInv'
    BY <1>3, <1>4 DEF StartApplication, StopApplication, ResetStats, Send,
        GroundSend, OpenSocket, CloseSocket, appVars
<1>5. ASSUME NEW c \in pending, ForwardNothing(c) PROVE SpacingInv'
    BY <1>3, <1>5 DEF ForwardNothing, Release, appVars
<1>6. ASSUME NEW c \in pending, ForwardHigh(c) \/ ForwardLow(c)
      PROVE  SpacingInv'
    <2> DEFINE row == [node |-> c.node, src |-> c.src, seq |-> c.seq,
                       high |-> c.high, sent |-> buffer[c.node][c.src].seq,
                       at |-> c.at]
    <2>1. /\ fwdTrace' = fwdTrace \cup {row} /\ pending' = pending \ {c}
          /\ lastForwarded' = lastForwarded
        BY <1>6 DEF ForwardHigh, ForwardLow, ForwardPacket, Release
    <2>2. row.node = c.node /\ row.src = c.src /\ row.at = c.at
        OBVIOUS
    <2> HIDE DEF row
    <2> QED BY <1>1, <1>2, <2>1, <2>2 DEF SpacingInv, Slots, Apart
<1>7. ASSUME NEW f \in air,
             \/ HandleReadHigh(f) \/ HandleReadAway(f) \/ HandleReadNear(f)
             \/ HandleReadAgain(f) \/ Ignore(f)
      PROVE  SpacingInv'
    <2>1. /\ f \in Frame /\ f.node \in Node /\ f.hdr.src \in Node
          /\ f.at \in Nat
        BY DEF TypeInv, TypeOK, Frame, Header
    <2>2. fwdTrace' = fwdTrace
        BY <1>7 DEF HandleReadHigh, HandleReadAway, HandleReadNear,
            HandleReadAgain, Ignore, FirstSight, appVars
    <2>3. CASE DestOf(f.hdr.src) # 0
        <3>1. \A n, s \in Node : DestOf(s) = 0 =>
                  lastForwarded'[n][s] = lastForwarded[n][s]
            <4>1. \/ lastForwarded' = lastForwarded
                  \/ \E t : lastForwarded' = [lastForwarded EXCEPT
                                ![f.node][f.hdr.src] = t]
                BY <1>7 DEF HandleReadHigh, HandleReadAway, HandleReadNear,
                    HandleReadAgain, Ignore, appVars
            <4>2. CASE lastForwarded' = lastForwarded
                BY <4>2
            <4>3. ASSUME NEW t,
                         lastForwarded' = [lastForwarded EXCEPT
                             ![f.node][f.hdr.src] = t],
                         NEW n \in Node, NEW s \in Node, DestOf(s) = 0
                  PROVE  lastForwarded'[n][s] = lastForwarded[n][s]
                BY <1>1, <2>1, <2>3, <4>3
            <4> QED BY <4>1, <4>2, <4>3
        <3>2. \A c \in pending' \ pending : c.src = f.hdr.src
            <4>1. CASE pending' = pending
                BY <4>1
            <4>2. ASSUME NEW delay \in Nat,
                         pending' = pending \cup
                             {[node |-> f.node, src |-> f.hdr.src,
                               seq |-> f.hdr.seq, high |-> High(f),
                               dest |-> f.hdr.dest, at |-> f.at + delay]}
                  PROVE  \A c \in pending' \ pending : c.src = f.hdr.src
                BY <4>2
            <4> QED BY <1>7, <4>1, <4>2, ReadPending
        <3>3. \A n, s \in Node :
                  DestOf(s) = 0 => Slots(n, s)' \subseteq Slots(n, s)
            BY <2>2, <2>3, <3>2 DEF Slots
        <3>4. \A n, s \in Node, x \in pending' :
                  DestOf(s) = 0 /\ x \in Slots(n, s)' => x \in pending
            BY <2>3, <3>2 DEF Slots
        <3> QED BY <2>2, <3>1, <3>3, <3>4 DEF SpacingInv, Apart
    <2>4. CASE DestOf(f.hdr.src) = 0
        <3>1. CASE pending' = pending /\ lastForwarded' = lastForwarded
            BY <1>3, <2>2, <3>1
        <3>2. ASSUME NEW rate \in Nat, NEW delay \in Nat,
                     NEW new \in Callback,
                     lastForwarded' =
                         [lastForwarded EXCEPT ![f.node][f.hdr.src] =
                             f.at + rate],
                     lastForwarded[f.node][f.hdr.src] # Absent =>
                         f.at + rate >=
                             lastForwarded[f.node][f.hdr.src] + SendInterval,
                     delay <= Jitter,
                     new.node = f.node, new.src = f.hdr.src,
                     new.at = f.at + rate + delay,
                     pending' = pending \/ pending' = pending \cup {new}
              PROVE  SpacingInv'
            <4> DEFINE base == f.at + rate
            <4>1. base \in Nat /\ new.at = base + delay
                BY <2>1, <3>2
            <4> HIDE DEF base
            <4>2. \A n, s \in Node : lastForwarded'[n][s] =
                      IF n = f.node /\ s = f.hdr.src THEN base
                      ELSE lastForwarded[n][s]
                BY <1>1, <2>1, <3>2 DEF base
            <4>3. \A x \in Slots(f.node, f.hdr.src) :
                      /\ base + Jitter >= x.at
                      /\ new.at - x.at >= SendInterval - Jitter
                <5> TAKE x \in Slots(f.node, f.hdr.src)
                <5> DEFINE last == lastForwarded[f.node][f.hdr.src]
                <5>1. last # Absent /\ x.at <= last + Jitter
                    BY <2>1, <2>4 DEF SpacingInv
                <5>2. last \in Nat /\ x.at \in Nat
                    BY <1>1, <1>2, <2>1, <5>1 DEF Slots
                <5>3. base >= last + SendInterval
                    BY <3>2, <5>1 DEF base
                <5> HIDE DEF last
                <5> QED BY <1>1, <3>2, <4>1, <5>1, <5>2, <5>3
            <4>4. pending' \subseteq pending \cup {new}
                BY <3>2
            <4>5. ASSUME NEW n \in Node, NEW s \in Node, DestOf(s) = 0,
                         NEW x \in Slots(n, s)'
                  PROVE  /\ lastForwarded'[n][s] # Absent
                         /\ x.at <= lastForwarded'[n][s] + Jitter
                <5>1. CASE x \in Slots(n, s)
                    BY <1>1, <4>1, <4>2, <4>3, <4>5, <5>1 DEF SpacingInv
                <5>2. CASE x = new
                    BY <1>1, <3>2, <4>1, <4>2, <4>5, <5>2 DEF Slots
                <5> QED BY <2>2, <4>4, <4>5, <5>1, <5>2 DEF Slots
            <4>6. ASSUME NEW n \in Node, NEW s \in Node,
                         NEW x \in Slots(n, s), new.node = n, new.src = s
                  PROVE  Apart(new, x) /\ Apart(x, new)
                BY <3>2, <4>3, <4>6 DEF Apart
            <4> QED BY <2>2, <4>4, <4>5, <4>6 DEF SpacingInv, Slots, Apart
        <3> QED BY <1>7, <2>4, <3>1, <3>2, ReadUpdate
    <2> QED BY <2>3, <2>4
<1>8. ASSUME NEW n \in Node, Move(n), UNCHANGED appVars PROVE SpacingInv'
    BY <1>3, <1>8 DEF Move, appVars
<1>9. CASE UNCHANGED vars
    BY <1>3, <1>9 DEF vars, networkVars, appVars
<1> QED BY <1>4, <1>5, <1>6, <1>7, <1>8, <1>9 DEF Next, Roam

\* A node releases the position updates of a source no faster than the source
\* sends them, up to the contention delay.
THEOREM UpdatesSpaced == Spec => []RelaySpacing
<1>1. Init => SpacingInv
    BY DEF Init, NetworkInit, SpacingInv, Slots
<1>2. TypeInv /\ SpacingInv => RelaySpacing
    BY DEF TypeInv, TypeOK, TraceRow, SpacingInv, Slots, Apart, RelaySpacing
<1> QED BY <1>1, <1>2, SpacingStep, TypeInvInvariant, PTL DEF Spec

=============================================================================
