----------------------- MODULE SpotlightFloodingProofs -----------------------
(***************************************************************************)
(* Theorems about SpotlightFlooding, for every network, every placement    *)
(* and every value of the attributes.                                      *)
(***************************************************************************)
EXTENDS SpotlightFlooding, TLAPS


-----------------------------------------------------------------------------
(* The operators *)

\* The destination of a packet is a node, 0 if no station is meant.
LEMMA DestOfNode == ASSUME NEW n \in Node PROVE DestOf(n) \in Node
<1>1. n \in Nat /\ NodesPerContainer \in Nat \ {0}
    BY NodeAssumption, SpotlightAssumption
<1>2. (n \div NodesPerContainer) + 1 \in Nat \ {0}
    BY <1>1
<1> DEFINE k == (n \div NodesPerContainer) + 1
<1>3. CASE k <= 3 /\ k <= Len(GroundStations)
    <2>1. k \in 1 .. Len(GroundStations)
        BY <1>2, <1>3, SpotlightAssumption
    <2>2. GroundStations[k] \in Node
        BY <2>1, SpotlightAssumption
    <2> QED BY <2>2, <1>3 DEF DestOf
<1>4. CASE ~(k <= 3 /\ k <= Len(GroundStations))
    BY <1>4, NodeAssumption DEF DestOf
<1> QED BY <1>3, <1>4

\* A rate-decay spacing is at least the send interval.
LEMMA SpacingBound ==
    ASSUME NEW h \in Nat
    PROVE  Spacing(h) \in Nat /\ Spacing(h) >= SendInterval
<1> DEFINE k == IF h + 1 <= Len(Growth) THEN h + 1 ELSE Len(Growth)
<1>1. Len(Growth) \in Nat \ {0}
    BY SpotlightAssumption
<1>2. k \in 1 .. Len(Growth)
    BY <1>1
<1>3. Growth[k] \in Nat \ {0}
    BY <1>2, SpotlightAssumption
<1> DEFINE g == Growth[k]
<1> HIDE DEF g
<1>4. /\ g \in Nat \ {0} /\ SendInterval \in Nat \ {0}
      /\ Spacing(h) = SendInterval * g
    BY <1>3, TimeAssumption DEF Spacing, g
<1>5. SendInterval * g \in Nat /\ SendInterval * g >= SendInterval
    BY <1>4
<1> QED BY <1>4, <1>5

\* A contention delay is never negative, and for a node that makes progress
\* never longer than ForwardingJitter.
LEMMA ContentionDelayBound ==
    ASSUME NEW x \in Int
    PROVE  /\ ContentionDelay(x) \in Nat
           /\ x >= 0 => ContentionDelay(x) <= Jitter
<1>1. Jitter \in Nat /\ MaxDistance \in Nat \ {0}
    BY SpotlightAssumption
<1>2. CASE x >= MaxDistance
    BY <1>1, <1>2 DEF ContentionDelay
<1>3. CASE x < MaxDistance
    <2> DEFINE rest == MaxDistance - x
    <2>1. rest \in Nat
        BY <1>1, <1>3
    <2>2. Jitter * rest \in Nat
        BY <1>1, <2>1
    <2>3. (Jitter * rest) \div MaxDistance \in Nat
        BY <1>1, <2>2
    <2>4. ASSUME x >= 0 PROVE (Jitter * rest) \div MaxDistance <= Jitter
        <3>1. rest <= MaxDistance
            BY <1>1, <2>4
        <3>2. Jitter * rest <= Jitter * MaxDistance
            BY <1>1, <2>1, <3>1
        <3> QED BY <1>1, <2>2, <3>2
    <2>5. ContentionDelay(x) = (Jitter * rest) \div MaxDistance
        BY <1>1, <1>3 DEF ContentionDelay
    <2> QED BY <2>3, <2>4, <2>5
<1> QED BY <1>1, <1>2, <1>3

\* The packet a node creates is a packet, with that node as its source.
LEMMA NewHeaderType ==
    ASSUME TypeOK, NEW n \in Node, NEW t \in Nat
    PROVE  /\ NewHeader(n, t) \in Header
           /\ NewHeader(n, t).src = n
           /\ NewHeader(n, t).dest = DestOf(n)
           /\ NewHeader(n, t).seq = seqNo[n]
           /\ NewHeader(n, t).lastHop = n
<1>1. DestOf(n) \in Node
    BY DestOfNode
<1>2. NextControl(ctrl[n]).seq \in Nat
    BY SpotlightAssumption DEF TypeOK, NextControl
<1>3. pos[n] \in Pos /\ Cell[pos[n]] \in Pos /\ seqNo[n] \in Nat
    BY SpaceAssumption DEF TypeOK
<1> QED BY <1>1, <1>2, <1>3 DEF NewHeader, Wire, Header

\* A relayed packet keeps all that identifies it.
LEMMA RelayedType ==
    ASSUME TypeOK, NEW f \in Frame
    PROVE  /\ Relayed(f) \in Header
           /\ Relayed(f).src = f.hdr.src
           /\ Relayed(f).dest = f.hdr.dest
           /\ Relayed(f).seq = f.hdr.seq
           /\ Relayed(f).lastHop = f.node
<1>1. f.hdr \in Header /\ f.node \in Node
    BY DEF Frame
<1>2. /\ pos[f.node] \in Pos /\ Cell[pos[f.node]] \in Pos
      /\ Cell[f.hdr.start] \in Pos
    BY <1>1, SpaceAssumption DEF TypeOK, Header
<1>3. f.hdr.hops + 1 \in Nat
    BY <1>1 DEF Header
<1> QED BY <1>1, <1>2, <1>3 DEF Relayed, Wire, Header

\* A transmission adds frames of its packet only, to other nodes and later.
LEMMA TransmitFrames ==
    ASSUME TypeOK,
           NEW n \in Node, NEW hdr \in Header, NEW via \in Via, NEW t \in Nat,
           Transmit(n, hdr, via, t)
    PROVE  /\ air' \subseteq Frame
           /\ air \subseteq air'
           /\ \A f \in air' \ air :
                  f.hdr = hdr /\ f.via = via /\ f.node # n /\ f.at > t
<1>1. CASE life[n] # "up"
    BY <1>1 DEF Transmit, TypeOK
<1>2. CASE life[n] = "up"
    <2>1. PICK who \in Hearers(n), d \in AirTime :
              air' = air \cup Frames(who, hdr, via, t + d)
        BY <1>2 DEF Transmit
    <2>2. who \subseteq Node \ {n}
        BY <2>1 DEF Hearers, InRange
    <2>3. t + d \in Nat /\ t + d > t
        BY TimeAssumption
    <2>4. Frames(who, hdr, via, t + d) \subseteq Frame
        BY <2>2, <2>3 DEF Frames, Frame
    <2>5. \A f \in Frames(who, hdr, via, t + d) :
              f.hdr = hdr /\ f.via = via /\ f.node # n /\ f.at > t
        BY <2>2, <2>3 DEF Frames
    <2> QED BY <2>1, <2>4, <2>5 DEF TypeOK
<1> QED BY <1>1, <1>2

\* Advance and gain are numbers, and so are the delays made of them.
LEMMA FrameQuantities ==
    ASSUME TypeOK, NEW f \in Frame
    PROVE  Advance(f) \in Int /\ Gain(f) \in Int /\ RateDelay(f) \in Nat
<1>1. f.hdr \in Header /\ f.node \in Node /\ f.at \in Nat
    BY DEF Frame
<1>2. /\ f.hdr.start \in Pos /\ f.hdr.last \in Pos
      /\ f.hdr.dest \in Node /\ f.hdr.src \in Node /\ f.hdr.hops \in Nat
    BY <1>1 DEF Header
<1>3. pos[f.node] \in Pos /\ pos[f.hdr.dest] \in Pos
    BY <1>1, <1>2 DEF TypeOK
<1>4. \A p, q \in Pos : Dist[p][q] \in Nat
    BY SpaceAssumption
<1>5. Advance(f) \in Int /\ Gain(f) \in Int
    BY <1>2, <1>3, <1>4 DEF Advance, Gain
<1>6. RateDelay(f) \in Nat
    <2>1. lastForwarded[f.node][f.hdr.src] \in Nat \cup {Absent}
        BY <1>1, <1>2 DEF TypeOK
    <2>2. Spacing(f.hdr.hops) \in Nat
        BY <1>2, SpacingBound
    <2> QED BY <1>1, <2>1, <2>2 DEF RateDelay
<1> QED BY <1>5, <1>6

-----------------------------------------------------------------------------
(* Type correctness and the buffers *)

\* What makes BufferReady inductive: every circulating packet has the
\* destination of its source, and a source's buffer once filled stays filled
\* with a packet of that source.
BufferInv ==
    /\ \A f \in air : f.hdr.dest = DestOf(f.hdr.src)
    /\ \A c \in pending :
           c.dest = DestOf(c.src) /\ buffer[c.node][c.src] # NoPacket
    /\ \A n, s \in Node :
           buffer[n][s] # NoPacket =>
               buffer[n][s].src = s /\ buffer[n][s].dest = DestOf(s)

TypeInv == TypeOK /\ BufferInv

\* At the start nothing circulates.
LEMMA TypeInit == Init => TypeInv
<1> SUFFICES ASSUME Init PROVE TypeInv
    OBVIOUS
<1>1. timers \subseteq Timer
    <2>1. PICK start \in [Node -> UNION {StartTimes[n] : n \in Node}] :
              /\ \A n \in Node : start[n] \in StartTimes[n]
              /\ timers = Timetable(start)
        BY DEF Init, NetworkInit
    <2>2. \A n \in Node : start[n] \in Nat /\ StopTime[n] \in Nat
        BY <2>1, TimeAssumption
    <2> QED BY <2>1, <2>2, TimeAssumption DEF Timetable, Timer, TimerKind, At
<1>2. pos \in [Node -> Pos]
    BY DEF Init, NetworkInit
<1>3. ctrl \in [Node -> [count : 0 .. ControlBurst, seq : Nat]]
    BY SpotlightAssumption DEF Init
<1>4. TypeOK
    BY <1>1, <1>2, <1>3 DEF Init, NetworkInit, TypeOK
<1>5. BufferInv
    BY DEF Init, NetworkInit, BufferInv
<1> QED BY <1>4, <1>5 DEF TypeInv

\* The timers: starting, stopping, resetting and sending.
LEMMA TypeTimers ==
    ASSUME TypeInv, NEW e \in timers,
           \/ StartApplication(e) \/ StopApplication(e) \/ ResetStats(e)
           \/ Send(e) \/ GroundSend(e)
    PROVE  TypeInv'
<1> USE DEF TypeInv
<1>1. e \in Timer /\ e.node \in Node /\ e.at \in Nat
    BY DEF TypeOK, Timer
<1>2. At("send", e.node, e.at + SendInterval) \in Timer
    BY <1>1, TimeAssumption DEF At, Timer, TimerKind
<1>3. CASE StartApplication(e)
    BY <1>1, <1>2, <1>3 DEF StartApplication, OpenSocket, Expire, Execute,
        ScheduleTransmit, appVars, statVars, TypeOK, BufferInv
<1>4. CASE StopApplication(e)
    BY <1>1, <1>4 DEF StopApplication, CloseSocket, Expire, Execute, appVars,
        statVars, TypeOK, BufferInv
<1>5. CASE ResetStats(e)
    <2>1. TypeOK'
        BY <1>1, <1>5 DEF ResetStats, Expire, Execute, TypeOK
    <2>2. BufferInv'
        BY <1>5 DEF ResetStats, BufferInv
    <2> QED BY <2>1, <2>2
<1>6. CASE GroundSend(e)
    BY <1>1, <1>2, <1>6 DEF GroundSend, Expire, Execute, ScheduleTransmit,
        appVars, statVars, TypeOK, BufferInv
<1>7. CASE Send(e)
    <2> DEFINE n == e.node
               hdr == NewHeader(n, e.at)
               via == [seq |-> hdr.seq, high |-> FALSE]
    <2>1. /\ hdr \in Header /\ hdr.src = n /\ hdr.dest = DestOf(n)
          /\ hdr.seq = seqNo[n]
        BY <1>1, NewHeaderType
    <2>2. via \in Via /\ hdr.seq \in Nat
        BY <2>1 DEF Via, Header
    <2>3. Transmit(n, hdr, via, e.at)
        BY <1>7 DEF Send
    <2> HIDE DEF hdr, via
    <2>4. air' \subseteq Frame /\ \A f \in air' \ air : f.hdr = hdr
        BY <1>1, <2>1, <2>2, <2>3, TransmitFrames
    <2>5. timers' \subseteq Timer /\ now' \in Nat
        BY <1>1, <1>2, <1>7 DEF Send, Expire, Execute, ScheduleTransmit, TypeOK
    <2>6. seqNo' \in [Node -> Nat]
        BY <1>1, <1>7 DEF Send, TypeOK
    <2>7. ctrl' \in [Node -> [count : 0 .. ControlBurst, seq : Nat]]
        <3>1. ctrl[n] \in [count : 0 .. ControlBurst, seq : Nat]
            BY <1>1 DEF TypeOK
        <3>2. NextControl(ctrl[n]) \in [count : 0 .. ControlBurst, seq : Nat]
            BY <3>1, SpotlightAssumption DEF NextControl
        <3> QED BY <1>1, <1>7, <3>2 DEF Send, TypeOK
    <2>8. numSent' \in [Node -> Nat]
        BY <1>1, <1>7 DEF Send, TypeOK
    <2>9. seen' \in [Node -> SUBSET PktId]
        <3>1. Id(hdr) \in PktId
            BY <1>1, <2>1, <2>2 DEF Id, PktId
        <3> QED BY <1>7, <3>1 DEF Send, TypeOK, hdr
    <2>10. TypeOK'
        BY <1>7, <2>4, <2>5, <2>6, <2>7, <2>8, <2>9 DEF Send, TypeOK
    <2>11. BufferInv'
        BY <1>7, <2>1, <2>4 DEF Send, BufferInv
    <2> QED BY <2>10, <2>11
<1> QED BY <1>3, <1>4, <1>5, <1>6, <1>7

\* A Forward callback, which reads a buffer that is never empty.
LEMMA TypeForward ==
    ASSUME TypeInv, NEW c \in pending,
           ForwardHigh(c) \/ ForwardLow(c) \/ ForwardNothing(c)
    PROVE  TypeInv'
<1> USE DEF TypeInv
<1>1. /\ c \in Callback /\ c.node \in Node /\ c.src \in Node /\ c.seq \in Nat
      /\ c.high \in BOOLEAN /\ c.at \in Nat
    BY DEF TypeOK, Callback
<1>2. <<c.src, c.seq>> \in PktId
    BY <1>1 DEF PktId
<1> DEFINE packet == buffer[c.node][c.src]
           via == [seq |-> c.seq, high |-> c.high]
<1>3. /\ packet \in Header /\ packet.seq \in Nat /\ packet.src = c.src
      /\ packet.dest = DestOf(c.src) /\ via \in Via
    BY <1>1 DEF TypeOK, BufferInv, Via, Header
<1>4. ASSUME ForwardPacket(c)
      PROVE  /\ air' \subseteq Frame
             /\ \A f \in air' : f.hdr.dest = DestOf(f.hdr.src)
             /\ fwdTrace' \subseteq TraceRow
             /\ numFwd' \in [Node -> Nat]
    <2>1. Transmit(c.node, packet, via, c.at)
        BY <1>4 DEF ForwardPacket
    <2> HIDE DEF packet, via
    <2>2. air' \subseteq Frame /\ \A f \in air' \ air : f.hdr = packet
        BY <1>1, <1>3, <2>1, TransmitFrames
    <2>3. \A f \in air' : f.hdr.dest = DestOf(f.hdr.src)
        BY <1>3, <2>2 DEF BufferInv
    <2>4. fwdTrace' \subseteq TraceRow
        BY <1>1, <1>3, <1>4 DEF ForwardPacket, TypeOK, TraceRow, packet
    <2>5. numFwd' \in [Node -> Nat]
        BY <1>1, <1>4 DEF ForwardPacket, TypeOK
    <2> QED BY <2>2, <2>3, <2>4, <2>5
<1> HIDE DEF packet, via
<1>5. CASE ForwardHigh(c)
    <2>1. ForwardPacket(c)
        BY <1>5 DEF ForwardHigh
    <2>2. /\ dup' \in [Node -> SUBSET PktId]
          /\ seen' \in [Node -> SUBSET PktId]
          /\ twice' \in [Node -> SUBSET PktId]
        BY <1>1, <1>2, <1>5 DEF ForwardHigh, TypeOK
    <2>3. now' \in Nat /\ pending' \subseteq Callback
        BY <1>1, <1>5 DEF ForwardHigh, Release, Execute, TypeOK
    <2>4. TypeOK'
        BY <1>4, <1>5, <2>1, <2>2, <2>3
        DEF ForwardHigh, ForwardPacket, TypeOK
    <2>5. BufferInv'
        BY <1>4, <1>5, <2>1 DEF ForwardHigh, Release, BufferInv
    <2> QED BY <2>4, <2>5
<1>6. CASE ForwardLow(c)
    <2>1. ForwardPacket(c)
        BY <1>6 DEF ForwardLow
    <2>2. TypeOK'
        BY <1>1, <1>4, <1>6, <2>1
        DEF ForwardLow, ForwardPacket, Release, Execute, TypeOK
    <2>3. BufferInv'
        BY <1>4, <1>6, <2>1 DEF ForwardLow, Release, BufferInv
    <2> QED BY <2>2, <2>3
<1>7. CASE ForwardNothing(c)
    BY <1>1, <1>7 DEF ForwardNothing, Release, Execute, appVars, statVars,
        TypeOK, BufferInv
<1> QED BY <1>5, <1>6, <1>7

\* A first sight, whatever branch of HandleRead takes it.
LEMMA TypeFirstSight ==
    ASSUME TypeInv, NEW f \in air, FirstSight(f),
           NEW delay \in Nat, ScheduleForward(f, delay),
           seen' \in [Node -> SUBSET PktId],
           lastForwarded' \in [Node -> [Node -> Nat \cup {Absent}]]
    PROVE  TypeInv'
<1> USE DEF TypeInv
<1>1. /\ f \in Frame /\ f.node \in Node /\ f.hdr \in Header /\ f.at \in Nat
      /\ f.hdr.src \in Node /\ f.hdr.dest \in Node /\ f.hdr.seq \in Nat
      /\ f.hdr.ts \in Nat
    BY DEF TypeOK, Frame, Header
<1>2. /\ Relayed(f) \in Header /\ Relayed(f).src = f.hdr.src
      /\ Relayed(f).dest = f.hdr.dest
    BY <1>1, RelayedType
<1>3. Relayed(f) # NoPacket
    BY <1>2, NoPacketAssumption
<1>4. buffer' = [buffer EXCEPT ![f.node][f.hdr.src] = Relayed(f)]
    BY DEF FirstSight
<1>5. buffer' \in [Node -> [Node -> Header \cup {NoPacket}]]
    BY <1>1, <1>2, <1>4 DEF TypeOK
<1>6. \A n, s \in Node : buffer'[n][s] =
          IF n = f.node /\ s = f.hdr.src THEN Relayed(f) ELSE buffer[n][s]
    BY <1>1, <1>4 DEF TypeOK
<1> DEFINE new == [node |-> f.node, src |-> f.hdr.src, seq |-> f.hdr.seq,
                   high |-> High(f), dest |-> f.hdr.dest, at |-> f.at + delay]
<1>7. new \in Callback
    <2>1. High(f) \in BOOLEAN
        BY DEF High
    <2> QED BY <1>1, <2>1 DEF Callback
<1>8. pending' \subseteq pending \cup {new}
    BY DEF ScheduleForward
<1>9. /\ seenNodes' \in [Node -> SUBSET Node]
      /\ numInTime' \in [Node -> Nat]
      /\ numLate' \in [Node -> Nat]
      /\ numRcvd' \in [Node -> Nat]
      /\ lastReceived' \in [Node -> [Node -> Nat \cup {Absent}]]
    <2>1. seenNodes' \in [Node -> SUBSET Node] /\ numRcvd' \in [Node -> Nat]
        BY <1>1 DEF FirstSight, CountReception, TypeOK
    <2>2. numInTime' \in [Node -> Nat] /\ numLate' \in [Node -> Nat]
        <3>1. /\ \E k \in {0, 1} :
                     numLate' = [numLate EXCEPT ![f.node] = @ + k]
              /\ \E k \in {0, 1} :
                     numInTime' = [numInTime EXCEPT ![f.node] = @ + k]
            BY Zenon DEF FirstSight, CountReception
        <3> QED BY <1>1, <3>1 DEF TypeOK
    <2>3. lastReceived' \in [Node -> [Node -> Nat \cup {Absent}]]
        BY <1>1 DEF FirstSight, CountReception, TypeOK
    <2> QED BY <2>1, <2>2, <2>3
<1>10. TypeOK'
    <2>1. now' \in Nat /\ air' \subseteq Frame
        BY <1>1 DEF FirstSight, Arrive, Execute, TypeOK
    <2>2. pending' \subseteq Callback
        BY <1>7, <1>8 DEF TypeOK
    <2>3. /\ UNCHANGED <<timers, pos, life, seqNo, ctrl, twice, dup, fwdTrace>>
          /\ UNCHANGED <<numSent, numFwd>>
        BY DEF FirstSight, CountReception
    <2> QED BY <1>5, <1>9, <2>1, <2>2, <2>3 DEF TypeOK
<1>11. BufferInv'
    <2>1. \A g \in air' : g.hdr.dest = DestOf(g.hdr.src)
        BY DEF FirstSight, Arrive, BufferInv
    <2>2. f.hdr.dest = DestOf(f.hdr.src)
        BY DEF BufferInv
    <2>3. \A c \in pending' :
              c.dest = DestOf(c.src) /\ buffer'[c.node][c.src] # NoPacket
        <3> SUFFICES ASSUME NEW c \in pending'
                     PROVE  /\ c.dest = DestOf(c.src)
                            /\ buffer'[c.node][c.src] # NoPacket
            OBVIOUS
        <3>1. CASE c \in pending
            <4>1. c.node \in Node /\ c.src \in Node
                BY <3>1 DEF TypeOK, Callback
            <4> QED BY <1>3, <1>6, <3>1, <4>1 DEF BufferInv
        <3>2. CASE c = new
            BY <1>1, <1>3, <1>6, <2>2, <3>2
        <3> QED BY <1>8, <3>1, <3>2
    <2>4. \A n, s \in Node :
              buffer'[n][s] # NoPacket =>
                  buffer'[n][s].src = s /\ buffer'[n][s].dest = DestOf(s)
        BY <1>2, <1>6, <2>2 DEF BufferInv
    <2> QED BY <2>1, <2>3, <2>4 DEF BufferInv
<1> QED BY <1>10, <1>11

\* HandleRead.
LEMMA TypeRead ==
    ASSUME TypeInv, NEW f \in air,
           \/ HandleReadHigh(f) \/ HandleReadAway(f) \/ HandleReadNear(f)
           \/ HandleReadAgain(f) \/ Ignore(f)
    PROVE  TypeInv'
<1>1. /\ f \in Frame /\ f.node \in Node /\ f.hdr.src \in Node /\ f.at \in Nat
      /\ f.hdr.seq \in Nat
    BY DEF TypeInv, TypeOK, Frame, Header
<1>2. Id(f.hdr) \in PktId
    BY <1>1 DEF Id, PktId
<1>3. Advance(f) \in Int /\ Gain(f) \in Int /\ RateDelay(f) \in Nat
    BY <1>1, FrameQuantities DEF TypeInv
<1>4. /\ ContentionDelay(Advance(f)) \in Nat
      /\ ContentionDelay(Gain(f)) \in Nat
    BY <1>3, ContentionDelayBound
<1>5. CASE HandleReadHigh(f)
    <2>1. PICK delay \in SpotJitter : ScheduleForward(f, delay)
        BY <1>5 DEF HandleReadHigh
    <2>2. delay \in Nat
        BY DEF SpotJitter
    <2>3. FirstSight(f) /\ UNCHANGED <<seen, lastForwarded>>
        BY <1>5 DEF HandleReadHigh
    <2> QED BY <2>1, <2>2, <2>3, TypeFirstSight DEF TypeInv, TypeOK
<1>6. CASE HandleReadAway(f)
    <2> DEFINE delay == ContentionDelay(Advance(f)) + RateDelay(f)
    <2>1. delay \in Nat /\ f.at + RateDelay(f) \in Nat
        BY <1>1, <1>3, <1>4
    <2>2. FirstSight(f) /\ ScheduleForward(f, delay)
        BY <1>6 DEF HandleReadAway
    <2>3. seen' \in [Node -> SUBSET PktId]
        BY <1>2, <1>6 DEF HandleReadAway, TypeInv, TypeOK
    <2>4. lastForwarded' \in [Node -> [Node -> Nat \cup {Absent}]]
        BY <1>1, <1>6, <2>1 DEF HandleReadAway, TypeInv, TypeOK
    <2> HIDE DEF delay
    <2> QED BY <2>1, <2>2, <2>3, <2>4, TypeFirstSight
<1>7. CASE HandleReadNear(f)
    <2> DEFINE delay == ContentionDelay(Gain(f))
    <2>1. delay \in Nat /\ f.at + delay \in Nat
        BY <1>1, <1>4
    <2>2. FirstSight(f) /\ ScheduleForward(f, delay)
        BY <1>7 DEF HandleReadNear
    <2>3. \/ UNCHANGED <<seen, lastForwarded>>
          \/ /\ seen' = [seen EXCEPT ![f.node] = @ \cup {Id(f.hdr)}]
             /\ lastForwarded' =
                    [lastForwarded EXCEPT ![f.node][f.hdr.src] = f.at + delay]
        BY <1>7 DEF HandleReadNear
    <2> HIDE DEF delay
    <2>4. /\ seen' \in [Node -> SUBSET PktId]
          /\ lastForwarded' \in [Node -> [Node -> Nat \cup {Absent}]]
        <3>1. CASE UNCHANGED <<seen, lastForwarded>>
            BY <3>1 DEF TypeInv, TypeOK
        <3>2. CASE /\ seen' = [seen EXCEPT ![f.node] = @ \cup {Id(f.hdr)}]
                   /\ lastForwarded' = [lastForwarded EXCEPT
                          ![f.node][f.hdr.src] = f.at + delay]
            <4>1. seen' \in [Node -> SUBSET PktId]
                BY <1>2, <3>2 DEF TypeInv, TypeOK
            <4>2. lastForwarded' \in [Node -> [Node -> Nat \cup {Absent}]]
                BY <1>1, <2>1, <3>2 DEF TypeInv, TypeOK
            <4> QED BY <4>1, <4>2
        <3> QED BY <2>3, <3>1, <3>2
    <2> QED BY <2>1, <2>2, <2>4, TypeFirstSight
<1>8. CASE HandleReadAgain(f)
    <2>1. TypeOK'
        BY <1>1, <1>2, <1>8 DEF HandleReadAgain, Arrive, Execute, statVars,
            TypeInv, TypeOK
    <2>2. BufferInv'
        BY <1>8 DEF HandleReadAgain, Arrive, TypeInv, BufferInv
    <2> QED BY <2>1, <2>2 DEF TypeInv
<1>9. CASE Ignore(f)
    BY <1>1, <1>9 DEF Ignore, Drop, Execute, appVars, statVars, TypeInv,
        TypeOK, BufferInv
<1> QED BY <1>5, <1>6, <1>7, <1>8, <1>9

\* Moving a node, or nothing at all.
LEMMA TypeMove ==
    ASSUME TypeInv,
           (\E n \in Node : Move(n) /\ UNCHANGED appVars) \/ UNCHANGED vars
    PROVE  TypeInv'
<1>1. CASE UNCHANGED vars
    BY <1>1 DEF vars, networkVars, appVars, statVars, TypeInv, TypeOK, BufferInv
<1>2. ASSUME NEW n \in Node, Move(n), UNCHANGED appVars
      PROVE  TypeInv'
    <2>1. pos' \in [Node -> Pos]
        BY <1>2, SpaceAssumption DEF Move, TypeInv, TypeOK
    <2> QED BY <1>2, <2>1 DEF Move, appVars, statVars, TypeInv, TypeOK,
            BufferInv
<1> QED BY <1>1, <1>2

\* The two together are inductive.
THEOREM TypeInvInvariant == Spec => []TypeInv
<1>1. TypeInv /\ [Next]_vars => TypeInv'
    <2> SUFFICES ASSUME TypeInv, [Next]_vars PROVE TypeInv'
        OBVIOUS
    <2>1. CASE UNCHANGED vars
        BY <2>1, TypeMove
    <2>2. CASE Next
        BY <2>2, TypeTimers, TypeForward, TypeRead, TypeMove DEF Next, Roam
    <2> QED BY <2>1, <2>2
<1> QED BY <1>1, TypeInit, PTL DEF Spec

\* Every variable of the application and of the network keeps its type.
THEOREM TypeCorrect == Spec => []TypeOK
<1>1. TypeInv => TypeOK
    BY DEF TypeInv
<1> QED BY <1>1, TypeInvInvariant, PTL

\* A Forward callback never finds an empty entry in packetsToForward.
THEOREM BuffersReady == Spec => []BufferReady
<1>1. TypeInv => BufferReady
    BY DEF TypeInv, TypeOK, Callback, BufferInv, BufferReady
<1> QED BY <1>1, TypeInvInvariant, PTL

=============================================================================
