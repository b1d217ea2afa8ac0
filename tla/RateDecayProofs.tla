---------------------------- MODULE RateDecayProofs ----------------------------
(***************************************************************************)
(* Theorems about RateDecayFlooding, for every network, every placement    *)
(* and every value of the attributes: what is transmitted exists, the rate *)
(* at which a node relays a source decays, hops are bounded, and the       *)
(* application implements node discovery.                                  *)
(***************************************************************************)
EXTENDS RateDecayFlooding, FiniteSetTheorems, TLAPS

-----------------------------------------------------------------------------
(* The operators *)

\* A rate-decay spacing is a time.
LEMMA SpacingNat == ASSUME NEW h \in Nat PROVE Spacing(h) \in Nat
<1> DEFINE k == IF h + 1 <= Len(Growth) THEN h + 1 ELSE Len(Growth)
<1>1. Len(Growth) \in Nat \ {0}
    BY RateDecayAssumption
<1>2. k \in 1 .. Len(Growth)
    BY <1>1
<1>3. Growth[k] \in Nat /\ SendInterval \in Nat
    BY <1>2, RateDecayAssumption, TimeAssumption
<1> QED BY <1>3 DEF Spacing

\* The contention delay of a node that makes progress is at most the jitter.
LEMMA ContentionDelayBound ==
    ASSUME NEW x \in Nat
    PROVE  ContentionDelay(x) \in Nat /\ ContentionDelay(x) <= Jitter
<1>1. Jitter \in Nat /\ MaxDistance \in Nat \ {0}
    BY RateDecayAssumption
<1>2. CASE x >= MaxDistance
    BY <1>1, <1>2 DEF ContentionDelay
<1>3. CASE x < MaxDistance
    <2> DEFINE rest == MaxDistance - x
    <2>1. rest \in Nat /\ rest <= MaxDistance
        BY <1>1, <1>3
    <2>2. Jitter * rest \in Nat /\ Jitter * rest <= Jitter * MaxDistance
        BY <1>1, <2>1
    <2>3. /\ (Jitter * rest) \div MaxDistance \in Nat
          /\ (Jitter * rest) \div MaxDistance <= Jitter
        BY <1>1, <2>2
    <2>4. ContentionDelay(x) = (Jitter * rest) \div MaxDistance
        BY <1>1, <1>3 DEF ContentionDelay
    <2> QED BY <2>3, <2>4
<1> QED BY <1>1, <1>2, <1>3

\* The packet a node creates is a packet, with that node as its source.
LEMMA NewHeaderType ==
    ASSUME TypeOK, NEW n \in Node, NEW t \in Nat
    PROVE  /\ NewHeader(n, t) \in Header
           /\ NewHeader(n, t).src = n
           /\ NewHeader(n, t).seq = seqNo[n]
           /\ NewHeader(n, t).lastHop = n
           /\ NewHeader(n, t).hops = 0
<1>1. pos[n] \in Pos /\ Cell[pos[n]] \in Pos /\ seqNo[n] \in Nat
    BY SpaceAssumption DEF TypeOK
<1> QED BY <1>1 DEF NewHeader, Wire, Header

\* A relayed packet keeps all that identifies it and has made one more hop.
LEMMA RelayedType ==
    ASSUME TypeOK, NEW f \in Frame
    PROVE  /\ Relayed(f) \in Header
           /\ Relayed(f).src = f.hdr.src
           /\ Relayed(f).seq = f.hdr.seq
           /\ Relayed(f).lastHop = f.node
           /\ Relayed(f).hops = f.hdr.hops + 1
<1>1. f.hdr \in Header /\ f.node \in Node
    BY DEF Frame
<1>2. /\ pos[f.node] \in Pos /\ Cell[pos[f.node]] \in Pos
      /\ Cell[f.hdr.start] \in Pos /\ f.hdr.hops + 1 \in Nat
    BY <1>1, SpaceAssumption DEF TypeOK, Header
<1> QED BY <1>1, <1>2 DEF Relayed, Wire, Header

\* What a transmission puts on the air, and where.
LEMMA TransmitFrames ==
    ASSUME TypeOK, \A m \in Node : pos[m] \in Track[m],
           NEW n \in Node, NEW hdr \in Header,
           NEW via \in Nat, NEW t \in Nat,
           Transmit(n, hdr, via, t)
    PROVE  /\ air' \subseteq Frame
           /\ \A f \in air' \ air :
                  f.hdr = hdr /\ f.node # n /\ <<n, f.node>> \in Link
<1>1. CASE life[n] # "up"
    BY <1>1 DEF Transmit, TypeOK
<1>2. CASE life[n] = "up"
    <2>1. PICK who \in Hearers(n), d \in AirTime :
              air' = air \cup Frames(who, hdr, via, t + d)
        BY <1>2 DEF Transmit
    <2>2. \A m \in who : m \in Node \ {n} /\ Dist[pos[n]][pos[m]] <= RadioRange
        BY <2>1 DEF Hearers, InRange
    <2>3. \A m \in who : <<n, m>> \in Link
        BY <2>2 DEF Link
    <2>4. t + d \in Nat
        BY TimeAssumption
    <2>5. Frames(who, hdr, via, t + d) \subseteq Frame
        BY <2>2, <2>4 DEF Frames, Frame
    <2>6. \A f \in Frames(who, hdr, via, t + d) :
              f.hdr = hdr /\ f.node # n /\ <<n, f.node>> \in Link
        BY <2>2, <2>3 DEF Frames
    <2> QED BY <2>1, <2>5, <2>6 DEF TypeOK
<1> QED BY <1>1, <1>2

\* Advance and the delay of the rate decay are numbers.
LEMMA FrameQuantities ==
    ASSUME TypeOK, NEW f \in Frame
    PROVE  /\ Advance(f) \in Int
           /\ RateDelay(f) \in Nat
           /\ LET last == lastForwarded[f.node][f.hdr.src]
              IN  last # Absent =>
                      f.at + RateDelay(f) >= last + Spacing(f.hdr.hops)
<1>1. /\ f.node \in Node /\ f.at \in Nat /\ f.hdr.src \in Node
      /\ f.hdr.start \in Pos /\ f.hdr.last \in Pos /\ f.hdr.hops \in Nat
    BY DEF Frame, Header
<1>2. \A p, q \in Pos : Dist[p][q] \in Nat
    BY SpaceAssumption
<1>3. Advance(f) \in Int
    BY <1>1, <1>2 DEF Advance, TypeOK
<1>4. /\ lastForwarded[f.node][f.hdr.src] \in Nat \cup {Absent}
      /\ Spacing(f.hdr.hops) \in Nat
    BY <1>1, SpacingNat DEF TypeOK
<1> QED BY <1>1, <1>3, <1>4 DEF RateDelay

\* A reception is entered with its numbers.
LEMMA CountReceptionType ==
    ASSUME TypeOK, NEW f \in Frame, CountReception(f)
    PROVE  /\ lastReceived' =
                  [lastReceived EXCEPT ![f.node][f.hdr.src] = f.hdr.ts]
           /\ lastReceived' \in [Node -> [Node -> Nat \cup {Absent}]]
           /\ seenNodes' \in [Node -> SUBSET Node]
           /\ numRcvd' \in [Node -> Nat]
           /\ numInTime' \in [Node -> Nat] /\ numLate' \in [Node -> Nat]
           /\ numSent' = numSent /\ numFwd' = numFwd
<1>1. f.node \in Node /\ f.hdr.src \in Node /\ f.hdr.ts \in Nat
    BY DEF Frame, Header
<1>2. \E late, inTime \in {0, 1} :
          /\ numLate' = [numLate EXCEPT ![f.node] = @ + late]
          /\ numInTime' = [numInTime EXCEPT ![f.node] = @ + inTime]
    BY DEF CountReception
<1>3. numInTime' \in [Node -> Nat] /\ numLate' \in [Node -> Nat]
    BY <1>1, <1>2 DEF TypeOK
<1> QED BY <1>1, <1>3 DEF CountReception, TypeOK

-----------------------------------------------------------------------------
(* The invariant *)

\* A source's packet once stored stays stored: a callback finds a packet of
\* the source it was scheduled for.
BufferInv ==
    /\ \A c \in pending : buffer[c.node][c.src] # NoPacket
    /\ \A n, s \in Node :
           buffer[n][s] # NoPacket =>
               /\ buffer[n][s].src = s
               /\ buffer[n][s].lastHop = n
               /\ s \in Known[n]

\* Nodes stay on their tracks; who transmits a packet knows its source.
AirInv ==
    /\ \A n \in Node : pos[n] \in Track[n]
    /\ \A f \in air :
           /\ f.hdr.src \in Known[f.hdr.lastHop]
           /\ f.node # f.hdr.lastHop
           /\ <<f.hdr.lastHop, f.node>> \in Link

IInv == TypeOK /\ BufferInv /\ AirInv

\* Nothing circulates before the applications start.
LEMMA InitIInv == Init => IInv
<1> SUFFICES ASSUME Init PROVE IInv
    OBVIOUS
<1>1. timers \subseteq Timer
    <2>1. PICK start \in [Node -> UNION {StartTimes[n] : n \in Node}] :
              /\ \A n \in Node : start[n] \in StartTimes[n]
              /\ timers = Timetable(start)
        BY DEF Init, NetworkInit
    <2>2. \A n \in Node : start[n] \in Nat /\ StopTime[n] \in Nat
        BY <2>1, TimeAssumption
    <2> QED BY <2>1, <2>2, TimeAssumption DEF Timetable, Timer, TimerKind, At
<1>2. pos \in [Node -> Pos]
    BY DEF Init, NetworkInit
<1>3. TypeOK
    BY <1>1, <1>2 DEF Init, NetworkInit, TypeOK
<1> QED BY <1>3 DEF Init, NetworkInit, IInv, BufferInv, AirInv

\* Steps that leave the protocol's memory alone.
LEMMA KeptIInv ==
    ASSUME IInv, TypeOK', \A n \in Node : pos'[n] \in Track[n],
           air' \subseteq air, pending' \subseteq pending,
           UNCHANGED <<seqNo, buffer, lastReceived>>
    PROVE  IInv'
<1>1. Known' = Known
    BY DEF Known
<1> QED BY <1>1 DEF IInv, BufferInv, AirInv, Link

\* What is known stays known.
LEMMA KnownGrows ==
    ASSUME TypeOK, TypeOK',
           \A m \in Node : seqNo'[m] >= seqNo[m],
           \A m, r \in Node :
               lastReceived[m][r] # Absent => lastReceived'[m][r] # Absent
    PROVE  \A m \in Node : Known[m] \subseteq Known'[m]
<1>1. \A m \in Node : seqNo[m] > 0 => seqNo'[m] > 0
    BY DEF TypeOK
<1> QED BY <1>1 DEF Known

\* A new packet circulates with its sender on the list.
LEMMA SendIInv ==
    ASSUME IInv, NEW e \in timers, Send(e)
    PROVE  IInv'
<1> DEFINE n == e.node
           hdr == NewHeader(n, e.at)
<1>1. n \in Node /\ e.at \in Nat /\ e \in Timer
    BY DEF IInv, TypeOK, Timer
<1>2. /\ hdr \in Header /\ hdr.src = n /\ hdr.lastHop = n
      /\ hdr.seq = seqNo[n] /\ seqNo[n] \in Nat
    BY <1>1, NewHeaderType DEF IInv, TypeOK
<1>3. /\ Transmit(n, hdr, hdr.seq, e.at) /\ now' = e.at
      /\ timers' = (timers \ {e}) \cup {At("send", n, e.at + SendInterval)}
      /\ seqNo' = [seqNo EXCEPT ![n] = @ + 1]
      /\ numSent' = [numSent EXCEPT ![n] = @ + 1]
      /\ seen' = [seen EXCEPT ![n] = @ \cup {Id(hdr)}]
      /\ UNCHANGED <<pending, pos, life, twice, lastForwarded, buffer,
                     lastReceived, seenNodes, numInTime, numLate, numRcvd,
                     numFwd, fwdTrace>>
    BY DEF Send, Expire, Execute, ScheduleTransmit
<1>4. At("send", n, e.at + SendInterval) \in Timer
    BY <1>1, TimeAssumption DEF At, Timer, TimerKind
<1>5. Id(hdr) \in PktId
    BY <1>1, <1>2 DEF Id, PktId
<1> HIDE DEF hdr, n
<1>6. /\ air' \subseteq Frame
      /\ \A f \in air' \ air :
             f.hdr = hdr /\ f.node # n /\ <<n, f.node>> \in Link
    BY <1>1, <1>2, <1>3, TransmitFrames DEF IInv, AirInv
<1>7. TypeOK'
    BY <1>1, <1>3, <1>4, <1>5, <1>6 DEF IInv, TypeOK
<1>8. seqNo'[n] > 0 /\ \A m \in Node : seqNo'[m] >= seqNo[m]
    BY <1>1, <1>2, <1>3 DEF IInv, TypeOK
<1>9. /\ \A m \in Node : Known[m] \subseteq Known'[m]
      /\ n \in Known'[n]
    <2>1. \A m \in Node : Known[m] \subseteq Known'[m]
        BY <1>3, <1>7, <1>8, KnownGrows DEF IInv
    <2> QED BY <1>1, <1>8, <2>1 DEF Known
<1>10. \A f \in air : f.hdr.lastHop \in Node
    BY DEF IInv, TypeOK, Frame, Header
<1>11. AirInv'
    <2>1. ASSUME NEW f \in air'
          PROVE  /\ f.hdr.src \in Known'[f.hdr.lastHop]
                 /\ f.node # f.hdr.lastHop
                 /\ <<f.hdr.lastHop, f.node>> \in Link
        <3>1. CASE f \in air
            BY <1>9, <1>10, <3>1 DEF IInv, AirInv
        <3>2. CASE f \notin air
            BY <1>2, <1>6, <1>9, <2>1, <3>2
        <3> QED BY <3>1, <3>2
    <2> QED BY <1>3, <2>1 DEF IInv, AirInv, Link
<1>12. BufferInv'
    BY <1>3, <1>9 DEF IInv, BufferInv
<1> QED BY <1>7, <1>11, <1>12 DEF IInv

\* Whatever packet a callback finds, it is one of its source.
LEMMA ForwardIInv ==
    ASSUME IInv, NEW c \in pending, Forward(c)
    PROVE  IInv'
<1> DEFINE packet == buffer[c.node][c.src]
<1>1. /\ c.node \in Node /\ c.src \in Node /\ c.at \in Nat /\ c.seq \in Nat
      /\ c.hops \in Nat
    BY DEF IInv, TypeOK, Callback
<1>2. /\ packet \in Header /\ packet.src = c.src /\ packet.lastHop = c.node
      /\ c.src \in Known[c.node] /\ packet.seq \in Nat
    <2>1. packet # NoPacket
        BY DEF IInv, BufferInv
    <2>2. packet \in Header
        BY <1>1, <2>1 DEF IInv, TypeOK
    <2> QED BY <1>1, <2>1, <2>2 DEF IInv, BufferInv, Header
<1>3. /\ Transmit(c.node, packet, c.seq, c.at) /\ now' = c.at
      /\ fwdTrace' = fwdTrace \cup
             {[node |-> c.node, src |-> c.src, seq |-> c.seq,
               hops |-> c.hops, sent |-> packet.seq, at |-> c.at]}
      /\ pending' = pending \ {c}
      /\ numFwd' = [numFwd EXCEPT ![c.node] = @ + 1]
      /\ UNCHANGED <<timers, pos, life, seqNo, seen, twice, lastForwarded,
                     buffer, lastReceived, seenNodes, numInTime, numLate,
                     numSent, numRcvd>>
    BY DEF Forward, Release, Execute
<1> HIDE DEF packet
<1>4. /\ air' \subseteq Frame
      /\ \A f \in air' \ air :
             f.hdr = packet /\ f.node # c.node /\ <<c.node, f.node>> \in Link
    BY <1>1, <1>2, <1>3, TransmitFrames DEF IInv, AirInv
<1>5. TypeOK'
    BY <1>1, <1>2, <1>3, <1>4 DEF IInv, TypeOK, TraceRow
<1>6. Known' = Known
    BY <1>3 DEF Known
<1>7. BufferInv'
    BY <1>3, <1>6 DEF IInv, BufferInv
<1>8. AirInv'
    BY <1>2, <1>3, <1>4, <1>6 DEF IInv, AirInv, Link
<1> QED BY <1>5, <1>7, <1>8 DEF IInv

\* A packet heard for the first time.
LEMMA ReadIInv ==
    ASSUME IInv, NEW f \in air, HandleReadNew(f)
    PROVE  IInv'
<1> DEFINE n == f.node
           s == f.hdr.src
           rate == RateDelay(f)
           new == [node |-> n, src |-> s, seq |-> f.hdr.seq,
                   hops |-> f.hdr.hops,
                   at |-> f.at + ContentionDelay(Advance(f)) + rate]
<1>1. /\ f \in Frame /\ n \in Node /\ f.hdr \in Header /\ f.at \in Nat
      /\ s \in Node /\ f.hdr.seq \in Nat /\ f.hdr.hops \in Nat
      /\ f.hdr.ts \in Nat
    BY DEF IInv, TypeOK, Frame, Header
<1>2. /\ air' = air \ {f} /\ now' = f.at
      /\ seen' = [seen EXCEPT ![n] = @ \cup {Id(f.hdr)}]
      /\ CountReception(f)
      /\ buffer' = [buffer EXCEPT ![n][s] = Relayed(f)]
      /\ pending' = IF Advance(f) > 0 THEN pending \cup {new} ELSE pending
      /\ lastForwarded' = [lastForwarded EXCEPT ![n][s] = f.at + rate]
      /\ UNCHANGED <<timers, pos, life, seqNo, twice, fwdTrace>>
    BY DEF HandleReadNew, Arrive, Execute
<1>3. /\ Relayed(f) \in Header /\ Relayed(f).src = s
      /\ Relayed(f).lastHop = n /\ Relayed(f) # NoPacket
    BY <1>1, RelayedType, NoPacketAssumption DEF IInv
<1>4. f.at + rate \in Nat /\ Advance(f) \in Int
    BY <1>1, FrameQuantities DEF IInv
<1>5. Advance(f) > 0 => new \in Callback
    <2>1. ASSUME Advance(f) > 0
          PROVE  f.at + ContentionDelay(Advance(f)) + rate \in Nat
        <3>1. ContentionDelay(Advance(f)) \in Nat /\ rate \in Nat
            BY <1>1, <1>4, <2>1, ContentionDelayBound, FrameQuantities DEF IInv
        <3> QED BY <1>1, <3>1
    <2> QED BY <1>1, <2>1 DEF Callback
<1>6. new.node = n /\ new.src = s
    OBVIOUS
<1>7. Id(f.hdr) \in PktId
    BY <1>1 DEF Id, PktId
<1>8. /\ lastReceived' = [lastReceived EXCEPT ![n][s] = f.hdr.ts]
      /\ lastReceived' \in [Node -> [Node -> Nat \cup {Absent}]]
      /\ seenNodes' \in [Node -> SUBSET Node]
      /\ numRcvd' \in [Node -> Nat]
      /\ numInTime' \in [Node -> Nat] /\ numLate' \in [Node -> Nat]
      /\ numSent' = numSent /\ numFwd' = numFwd
    BY <1>1, <1>2, CountReceptionType DEF IInv
<1> HIDE DEF n, s, rate, new
<1>9. pending' \subseteq Callback
    BY <1>2, <1>5 DEF IInv, TypeOK
<1>10. buffer' \in [Node -> [Node -> Header \cup {NoPacket}]]
    BY <1>1, <1>2, <1>3 DEF IInv, TypeOK
<1>11. lastForwarded' \in [Node -> [Node -> Nat \cup {Absent}]]
    BY <1>1, <1>2, <1>4 DEF IInv, TypeOK
<1>12. TypeOK'
    BY <1>1, <1>2, <1>7, <1>8, <1>9, <1>10, <1>11 DEF IInv, TypeOK
<1>13. /\ f.hdr.ts # Absent
       /\ lastReceived \in [Node -> [Node -> Nat \cup {Absent}]]
       /\ buffer \in [Node -> [Node -> Header \cup {NoPacket}]]
       /\ seqNo \in [Node -> Nat]
    BY <1>1, RateDecayAssumption DEF IInv, TypeOK
<1>14. \A m, r \in Node :
           lastReceived[m][r] # Absent => lastReceived'[m][r] # Absent
    BY <1>1, <1>8, <1>13
<1>15. /\ \A m \in Node : Known[m] \subseteq Known'[m]
       /\ s \in Known'[n]
    <2>1. \A m \in Node : Known[m] \subseteq Known'[m]
        BY <1>2, <1>12, <1>13, <1>14, KnownGrows DEF IInv
    <2>2. lastReceived'[n][s] # Absent
        BY <1>1, <1>8, <1>13
    <2> QED BY <1>1, <2>1, <2>2 DEF Known
<1>16. \A m, r \in Node :
           buffer'[m][r] = IF m = n /\ r = s THEN Relayed(f) ELSE buffer[m][r]
    BY <1>1, <1>2, <1>13
<1>17. BufferInv'
    <2>1. ASSUME NEW c \in pending'
          PROVE  buffer'[c.node][c.src] # NoPacket
        <3>1. CASE c \in pending
            <4>1. c.node \in Node /\ c.src \in Node
                BY <3>1 DEF IInv, TypeOK, Callback
            <4> QED BY <1>3, <1>16, <3>1, <4>1 DEF IInv, BufferInv
        <3>2. CASE c = new
            BY <1>1, <1>3, <1>6, <1>16, <3>2
        <3> QED BY <1>2, <3>1, <3>2
    <2>2. ASSUME NEW m \in Node, NEW r \in Node, buffer'[m][r] # NoPacket
          PROVE  /\ buffer'[m][r].src = r
                 /\ buffer'[m][r].lastHop = m
                 /\ r \in Known'[m]
        <3>1. CASE m = n /\ r = s
            BY <1>3, <1>15, <1>16, <3>1
        <3>2. CASE ~(m = n /\ r = s)
            BY <1>15, <1>16, <2>2, <3>2 DEF IInv, BufferInv
        <3> QED BY <3>1, <3>2
    <2> QED BY <2>1, <2>2 DEF BufferInv
<1>18. AirInv'
    <2>1. \A g \in air : g.hdr.lastHop \in Node
        BY DEF IInv, TypeOK, Frame, Header
    <2> QED BY <1>2, <1>15, <2>1 DEF IInv, AirInv, Link
<1> QED BY <1>12, <1>17, <1>18 DEF IInv

\* The other steps.
LEMMA OtherIInv ==
    ASSUME IInv,
           \/ \E e \in timers : \/ StartApplication(e) \/ StopApplication(e)
                                \/ ResetStats(e)
           \/ \E c \in pending : ForwardNothing(c)
           \/ \E f \in air : HandleReadAgain(f) \/ Ignore(f)
           \/ \E n \in Node : Move(n) /\ UNCHANGED appVars
           \/ UNCHANGED vars
    PROVE  IInv'
<1>1. ASSUME NEW e \in timers,
             \/ StartApplication(e) \/ StopApplication(e) \/ ResetStats(e)
      PROVE  IInv'
    <2>1. e \in Timer /\ e.node \in Node /\ e.at \in Nat
        BY DEF IInv, TypeOK, Timer
    <2>2. At("send", e.node, e.at + SendInterval) \in Timer
        BY <2>1, TimeAssumption DEF At, Timer, TimerKind
    <2>3. TypeOK'
        <3>1. CASE StartApplication(e)
            BY <2>1, <2>2, <3>1 DEF StartApplication, OpenSocket, Expire,
                Execute, ScheduleTransmit, appVars, statVars, IInv, TypeOK
        <3>2. CASE StopApplication(e)
            BY <2>1, <3>2 DEF StopApplication, CloseSocket, Expire, Execute,
                appVars, statVars, IInv, TypeOK
        <3>3. CASE ResetStats(e)
            BY <2>1, <3>3 DEF ResetStats, Expire, Execute, IInv, TypeOK
        <3> QED BY <1>1, <3>1, <3>2, <3>3
    <2>4. UNCHANGED <<air, pending, pos, seqNo, buffer, lastReceived>>
        BY <1>1 DEF StartApplication, StopApplication, ResetStats, OpenSocket,
            CloseSocket, appVars
    <2> QED BY <2>3, <2>4, KeptIInv DEF IInv, AirInv
<1>2. ASSUME NEW c \in pending, ForwardNothing(c)
      PROVE  IInv'
    <2>1. TypeOK'
        BY <1>2 DEF ForwardNothing, Release, Execute, appVars, statVars, IInv,
            TypeOK, Callback
    <2> QED BY <1>2, <2>1, KeptIInv DEF ForwardNothing, Release, appVars,
            IInv, AirInv
<1>3. ASSUME NEW f \in air, HandleReadAgain(f) \/ Ignore(f)
      PROVE  IInv'
    <2>1. TypeOK'
        <3>1. /\ f \in Frame /\ f.node \in Node /\ f.at \in Nat
              /\ Id(f.hdr) \in PktId
            BY DEF IInv, TypeOK, Frame, Header, Id, PktId
        <3>2. \/ twice' = twice
              \/ twice' = [twice EXCEPT ![f.node] = @ \cup {Id(f.hdr)}]
            BY <1>3 DEF HandleReadAgain, Ignore, appVars
        <3>3. twice' \in [Node -> SUBSET PktId]
            <4>1. twice \in [Node -> SUBSET PktId]
                BY DEF IInv, TypeOK
            <4> DEFINE id == Id(f.hdr)
            <4> HIDE DEF id
            <4>2. [twice EXCEPT ![f.node] = @ \cup {id}]
                      \in [Node -> SUBSET PktId]
                BY <3>1, <4>1 DEF id
            <4> QED BY <3>2, <4>1, <4>2 DEF id
        <3>4. /\ air' \subseteq air /\ now' = f.at
              /\ UNCHANGED <<timers, pending, pos, life, seqNo, seen,
                             lastForwarded, buffer, lastReceived, statVars,
                             fwdTrace>>
            BY <1>3 DEF HandleReadAgain, Ignore, Arrive, Drop, Execute,
                appVars
        <3> QED BY <3>1, <3>3, <3>4 DEF IInv, TypeOK, statVars
    <2>2. /\ air' \subseteq air
          /\ UNCHANGED <<pending, pos, seqNo, buffer, lastReceived>>
        BY <1>3 DEF HandleReadAgain, Ignore, Arrive, Drop, appVars
    <2> QED BY <2>1, <2>2, KeptIInv DEF IInv, AirInv
<1>4. ASSUME NEW n \in Node, Move(n), UNCHANGED appVars
      PROVE  IInv'
    <2>1. \A m \in Node : pos'[m] \in Track[m]
        BY <1>4 DEF Move, IInv, TypeOK, AirInv
    <2>2. pos' \in [Node -> Pos]
        BY <1>4, SpaceAssumption DEF Move, IInv, TypeOK
    <2>3. TypeOK'
        BY <1>4, <2>2 DEF Move, appVars, statVars, IInv, TypeOK
    <2> QED BY <1>4, <2>1, <2>3, KeptIInv DEF Move, appVars
<1>5. CASE UNCHANGED vars
    BY <1>5, KeptIInv DEF vars, networkVars, appVars, statVars, IInv, AirInv,
       TypeOK
<1> QED BY <1>1, <1>2, <1>3, <1>4, <1>5

\* Every action preserves the invariant.
LEMMA StepIInv == IInv /\ [Next]_vars => IInv'
<1> SUFFICES ASSUME IInv, [Next]_vars PROVE IInv'
    OBVIOUS
<1>1. ASSUME NEW e \in timers, Send(e) PROVE IInv'
    BY <1>1, SendIInv
<1>2. ASSUME NEW c \in pending, Forward(c) PROVE IInv'
    BY <1>2, ForwardIInv
<1>3. ASSUME NEW f \in air, HandleReadNew(f) PROVE IInv'
    BY <1>3, ReadIInv
<1> QED BY <1>1, <1>2, <1>3, OtherIInv DEF Next

\* The invariant holds in every state.
LEMMA DecayInvariant == Spec => []IInv
<1> QED BY InitIInv, StepIInv, PTL DEF Spec

\* Every variable of the application and of the network keeps its type.
THEOREM RateDecayTypeCorrect == Spec => []TypeOK
<1>1. IInv => TypeOK
    BY DEF IInv
<1> QED BY <1>1, DecayInvariant, PTL

-----------------------------------------------------------------------------
(* The decay of the rate *)

\* The callbacks and log rows of source s at node n.
Slots(n, s) == {x \in pending \cup fwdTrace : x.node = n /\ x.src = s}

Apart(x, y) == HeldBack(x, y) \/ HeldBack(y, x)

\* What makes RateDecays inductive: already the callbacks are spaced, and
\* none is due later than lastForwarded and the longest contention delay.
SpacingInv ==
    \A n, s \in Node :
        /\ \A x \in Slots(n, s) :
               /\ lastForwarded[n][s] # Absent
               /\ x.at <= lastForwarded[n][s] + Jitter
        /\ \A c, d \in pending :
               {c, d} \subseteq Slots(n, s) /\ c # d => Apart(c, d)
        /\ \A c \in pending, r \in fwdTrace :
               {c, r} \subseteq Slots(n, s) => Apart(c, r)
        /\ \A r, q \in fwdTrace :
               {r, q} \subseteq Slots(n, s) /\ r # q => Apart(r, q)

\* Every action keeps callbacks and transmissions apart.
LEMMA SpacingStep == IInv /\ SpacingInv /\ [Next]_vars => SpacingInv'
<1> SUFFICES ASSUME IInv, SpacingInv, [Next]_vars PROVE SpacingInv'
    OBVIOUS
<1>1. /\ pending \subseteq Callback /\ fwdTrace \subseteq TraceRow
      /\ lastForwarded \in [Node -> [Node -> Nat \cup {Absent}]]
      /\ Jitter \in Nat /\ Absent \notin Nat
    BY RateDecayAssumption DEF IInv, TypeOK
<1>2. \A x \in pending \cup fwdTrace :
          x.node \in Node /\ x.src \in Node /\ x.at \in Nat /\ x.hops \in Nat
    BY <1>1 DEF Callback, TraceRow
<1>3. ASSUME fwdTrace' = fwdTrace, pending' \subseteq pending,
             lastForwarded' = lastForwarded
      PROVE  SpacingInv'
    BY <1>3 DEF SpacingInv, Slots, Apart, HeldBack
<1>4. ASSUME NEW c \in pending, Forward(c) PROVE SpacingInv'
    <2> DEFINE row == [node |-> c.node, src |-> c.src, seq |-> c.seq,
                       hops |-> c.hops, sent |-> buffer[c.node][c.src].seq,
                       at |-> c.at]
    <2>1. /\ fwdTrace' = fwdTrace \cup {row} /\ pending' = pending \ {c}
          /\ lastForwarded' = lastForwarded
        BY <1>4 DEF Forward, Release
    <2>2. /\ row.node = c.node /\ row.src = c.src /\ row.at = c.at
          /\ row.hops = c.hops
        OBVIOUS
    <2> HIDE DEF row
    <2> QED BY <1>1, <1>2, <2>1, <2>2 DEF SpacingInv, Slots, Apart, HeldBack
<1>5. ASSUME NEW f \in air, HandleReadNew(f) PROVE SpacingInv'
    <2> DEFINE n == f.node
               s == f.hdr.src
               last == lastForwarded[n][s]
               base == f.at + RateDelay(f)
               delay == ContentionDelay(Advance(f))
               new == [node |-> n, src |-> s, seq |-> f.hdr.seq,
                       hops |-> f.hdr.hops,
                       at |-> f.at + delay + RateDelay(f)]
    <2>1. /\ f \in Frame /\ n \in Node /\ s \in Node /\ f.at \in Nat
          /\ f.hdr.hops \in Nat
        BY DEF IInv, TypeOK, Frame, Header
    <2>2. /\ base \in Nat /\ Advance(f) \in Int /\ RateDelay(f) \in Nat
          /\ last # Absent => base >= last + Spacing(f.hdr.hops)
        BY <2>1, FrameQuantities DEF IInv
    <2>3. Advance(f) > 0 => delay \in Nat /\ delay <= Jitter
        BY <2>2, ContentionDelayBound
    <2>4. /\ fwdTrace' = fwdTrace
          /\ lastForwarded' = [lastForwarded EXCEPT ![n][s] = base]
          /\ pending' = IF Advance(f) > 0 THEN pending \cup {new} ELSE pending
        BY <1>5 DEF HandleReadNew
    <2>5. /\ new.node = n /\ new.src = s /\ new.hops = f.hdr.hops
          /\ Advance(f) > 0 => new.at = base + delay
        BY <2>1, <2>2, <2>3
    <2>6. Spacing(f.hdr.hops) \in Nat /\ last \in Nat \cup {Absent}
        BY <1>1, <2>1, SpacingNat
    <2> DEFINE gap == Spacing(f.hdr.hops)
    <2>7. \A m, r \in Node :
              lastForwarded'[m][r] =
                  IF m = n /\ r = s THEN base ELSE lastForwarded[m][r]
        BY <1>1, <2>1, <2>4
    <2>8. ASSUME NEW x \in Slots(n, s)
          PROVE  /\ base + Jitter >= x.at
                 /\ Advance(f) > 0 => HeldBack(x, new)
        <3>1. last # Absent /\ x.at <= last + Jitter
            BY <2>1 DEF SpacingInv
        <3>2. last \in Nat /\ x.at \in Nat
            BY <1>2, <2>6, <3>1 DEF Slots
        <3>3. HeldBack(x, new) <=> new.at - x.at >= gap - Jitter
            BY <2>5 DEF HeldBack
        <3>4. base >= last + gap /\ gap \in Nat
            BY <2>2, <2>6, <3>1
        <3> HIDE DEF last, base, new, gap, delay
        <3>5. base + Jitter >= x.at
            BY <1>1, <2>2, <3>1, <3>2, <3>4
        <3>6. ASSUME Advance(f) > 0 PROVE new.at - x.at >= gap - Jitter
            BY <1>1, <2>2, <2>3, <2>5, <3>1, <3>2, <3>4, <3>6
        <3> QED BY <3>3, <3>5, <3>6
    <2>9. pending' \subseteq pending \cup {new}
        BY <2>4
    <2>10. Advance(f) > 0 => new.at <= base + Jitter
        BY <1>1, <2>2, <2>3, <2>5
    <2>11. new \in pending' \ pending => Advance(f) > 0
        BY <2>4
    <2> HIDE DEF n, s, last, base, new, delay, gap
    <2>12. ASSUME NEW m \in Node, NEW r \in Node, NEW x \in Slots(m, r)'
           PROVE  /\ lastForwarded'[m][r] # Absent
                  /\ x.at <= lastForwarded'[m][r] + Jitter
        <3>1. x \in pending' \cup fwdTrace' /\ x.node = m /\ x.src = r
            BY <2>12 DEF Slots
        <3>2. CASE x \in pending \cup fwdTrace
            <4>1. x \in Slots(m, r)
                BY <3>1, <3>2 DEF Slots
            <4>2. CASE m = n /\ r = s
                BY <1>1, <2>2, <2>7, <2>8, <4>1, <4>2
            <4>3. CASE ~(m = n /\ r = s)
                BY <2>7, <4>1, <4>3 DEF SpacingInv
            <4> QED BY <4>2, <4>3
        <3>3. CASE x \notin pending \cup fwdTrace
            <4>1. x = new /\ m = n /\ r = s /\ Advance(f) > 0
                BY <2>4, <2>5, <2>9, <2>11, <3>1, <3>3
            <4> QED BY <1>1, <2>2, <2>7, <2>10, <4>1
        <3> QED BY <3>2, <3>3
    <2>13. ASSUME NEW m \in Node, NEW r \in Node,
                  NEW x \in Slots(m, r), new \in pending' \ pending,
                  new.node = m, new.src = r
           PROVE  Apart(new, x) /\ Apart(x, new)
        BY <2>5, <2>8, <2>11, <2>13 DEF Apart
    <2> QED BY <2>4, <2>9, <2>12, <2>13 DEF SpacingInv, Slots, Apart, HeldBack
<1> QED BY <1>3, <1>4, <1>5 DEF Next, vars, networkVars, appVars,
        StartApplication, StopApplication, ResetStats, Send, OpenSocket,
        CloseSocket, ForwardNothing, Release, HandleReadAgain, Ignore, Drop,
        Move

\* However bunched the packets of a source arrive, a node transmits for them
\* at the rate that the hops demand.
THEOREM RateDoesDecay == Spec => []RateDecays
<1>1. Init => SpacingInv
    BY DEF Init, NetworkInit, SpacingInv, Slots
<1>2. IInv /\ SpacingInv => RateDecays
    BY DEF IInv, TypeOK, TraceRow, SpacingInv, Slots, Apart, RateDecays
<1> QED BY <1>1, <1>2, SpacingStep, DecayInvariant, PTL DEF Spec

-----------------------------------------------------------------------------
(* Hops *)

\* The nodes that have a packet on their list.
SeenBy(id) == {m \in Node : id \in seen[m]}

\* And those that have it after the step.
SeenNext(id) == {m \in Node : id \in seen'[m]}

\* Every hop of a packet is another node that has it on its list.
HopInv ==
    /\ \A f \in air : f.hdr.hops < Cardinality(SeenBy(Id(f.hdr)))
    /\ \A n, s \in Node :
           buffer[n][s] # NoPacket =>
               buffer[n][s].hops < Cardinality(SeenBy(Id(buffer[n][s])))

\* A list that grows by a node makes room for another hop.
LEMMA SeenGrows ==
    ASSUME IsFiniteSet(Node), NEW n \in Node, NEW id,
           seen \in [Node -> SUBSET PktId],
           seen' = [seen EXCEPT ![n] = @ \cup {id}]
    PROVE  /\ \A k : /\ Cardinality(SeenBy(k)) \in Nat
                     /\ Cardinality(SeenNext(k)) \in Nat
                     /\ Cardinality(SeenBy(k)) <= Cardinality(SeenNext(k))
           /\ id \notin seen[n] =>
                  Cardinality(SeenNext(id)) = Cardinality(SeenBy(id)) + 1
<1>1. \A k : IsFiniteSet(SeenBy(k)) /\ IsFiniteSet(SeenNext(k))
    <2>1. \A k : SeenBy(k) \subseteq Node /\ SeenNext(k) \subseteq Node
        BY DEF SeenBy, SeenNext
    <2> QED BY <2>1, FS_Subset
<1>2. \A k : SeenBy(k) \subseteq SeenNext(k)
    BY DEF SeenBy, SeenNext
<1>3. ASSUME id \notin seen[n]
      PROVE  Cardinality(SeenNext(id)) = Cardinality(SeenBy(id)) + 1
    <2>1. SeenNext(id) = SeenBy(id) \cup {n}
        BY DEF SeenBy, SeenNext
    <2>2. n \notin SeenBy(id)
        BY <1>3 DEF SeenBy, SeenNext
    <2> QED BY <1>1, <2>1, <2>2, FS_AddElement
<1>4. ASSUME NEW k
      PROVE  /\ Cardinality(SeenBy(k)) \in Nat
             /\ Cardinality(SeenNext(k)) \in Nat
             /\ Cardinality(SeenBy(k)) <= Cardinality(SeenNext(k))
    BY <1>1, <1>2, FS_Subset, FS_CardinalityType
<1> QED BY <1>3, <1>4

\* Every action keeps the hops of a copy below the nodes that have it.
LEMMA HopStep ==
    ASSUME IsFiniteSet(Node), IInv, HopInv, [Next]_vars
    PROVE  HopInv'
<1>1. /\ seen \in [Node -> SUBSET PktId] /\ air \subseteq Frame
      /\ buffer \in [Node -> [Node -> Header \cup {NoPacket}]]
    BY DEF IInv, TypeOK
<1>2. ASSUME seen' = seen, buffer' = buffer,
             \A g \in air' :
                 \/ g \in air
                 \/ \E m, r \in Node :
                        buffer[m][r] # NoPacket /\ g.hdr = buffer[m][r]
      PROVE  HopInv'
    BY <1>2 DEF HopInv, SeenBy, SeenNext, Id
<1>3. ASSUME NEW e \in timers, Send(e) PROVE HopInv'
    <2> DEFINE n == e.node
               hdr == NewHeader(n, e.at)
    <2>1. n \in Node /\ e.at \in Nat
        BY DEF IInv, TypeOK, Timer
    <2>2. /\ Transmit(n, hdr, hdr.seq, e.at) /\ buffer' = buffer
          /\ seen' = [seen EXCEPT ![n] = @ \cup {Id(hdr)}]
        BY <1>3 DEF Send
    <2>3. hdr \in Header /\ hdr.hops = 0 /\ hdr.seq \in Nat
        BY <2>1, NewHeaderType DEF IInv, Header
    <2> HIDE DEF hdr, n
    <2>4. \A g \in air' \ air : g.hdr = hdr
        BY <2>1, <2>2, <2>3, TransmitFrames DEF IInv, AirInv
    <2>5. \A k : /\ Cardinality(SeenBy(k)) \in Nat
                 /\ Cardinality(SeenNext(k)) \in Nat
                 /\ Cardinality(SeenBy(k)) <= Cardinality(SeenNext(k))
        BY <1>1, <2>1, <2>2, SeenGrows
    <2>6. 0 < Cardinality(SeenNext(Id(hdr)))
        <3>1. n \in SeenNext(Id(hdr))
            BY <1>1, <2>1, <2>2 DEF SeenBy, SeenNext
        <3>2. IsFiniteSet(SeenNext(Id(hdr)))
            <4>1. SeenNext(Id(hdr)) \subseteq Node
                BY DEF SeenBy, SeenNext
            <4> QED BY <4>1, FS_Subset
        <3>3. Cardinality(SeenNext(Id(hdr))) # 0
            BY <3>1, <3>2, FS_EmptySet
        <3> QED BY <2>5, <3>3
    <2>7. ASSUME NEW g \in air'
          PROVE  g.hdr.hops < Cardinality(SeenNext(Id(g.hdr)))
        <3>1. CASE g \in air
            <4>1. /\ g.hdr.hops \in Nat
                  /\ g.hdr.hops < Cardinality(SeenBy(Id(g.hdr)))
                BY <1>1, <3>1 DEF HopInv, Frame, Header
            <4> QED BY <2>5, <4>1
        <3>2. CASE g \notin air
            BY <2>3, <2>4, <2>6, <2>7, <3>2
        <3> QED BY <3>1, <3>2
    <2>8. ASSUME NEW m \in Node, NEW r \in Node, buffer[m][r] # NoPacket
          PROVE  buffer[m][r].hops < Cardinality(SeenNext(Id(buffer[m][r])))
        <3>1. /\ buffer[m][r].hops \in Nat
              /\ buffer[m][r].hops < Cardinality(SeenBy(Id(buffer[m][r])))
            BY <1>1, <2>8 DEF HopInv, Header
        <3> QED BY <2>5, <3>1
    <2> QED BY <2>2, <2>7, <2>8 DEF HopInv, SeenBy, SeenNext, Id
<1>4. ASSUME NEW c \in pending, Forward(c) PROVE HopInv'
    <2> DEFINE packet == buffer[c.node][c.src]
    <2>1. /\ c.node \in Node /\ c.src \in Node /\ c.at \in Nat
          /\ c.seq \in Nat /\ packet # NoPacket
        BY DEF IInv, TypeOK, Callback, BufferInv
    <2>2. packet \in Header
        BY <1>1, <2>1
    <2>3. Transmit(c.node, packet, c.seq, c.at)
        BY <1>4 DEF Forward
    <2> HIDE DEF packet
    <2>4. \A g \in air' \ air : g.hdr = packet
        BY <2>1, <2>2, <2>3, TransmitFrames DEF IInv, AirInv
    <2> QED BY <1>2, <1>4, <2>1, <2>4 DEF Forward, packet
<1>5. ASSUME NEW f \in air, HandleReadNew(f) PROVE HopInv'
    <2> DEFINE n == f.node
               s == f.hdr.src
               id == Id(f.hdr)
    <2>1. /\ f \in Frame /\ n \in Node /\ s \in Node /\ f.hdr.hops \in Nat
          /\ f.hdr.hops < Cardinality(SeenBy(id))
        BY <1>1 DEF Frame, Header, HopInv
    <2>2. /\ air' = air \ {f} /\ id \notin seen[n]
          /\ seen' = [seen EXCEPT ![n] = @ \cup {id}]
          /\ buffer' = [buffer EXCEPT ![n][s] = Relayed(f)]
        BY <1>5 DEF HandleReadNew, Arrive
    <2>3. Relayed(f).hops = f.hdr.hops + 1 /\ Id(Relayed(f)) = id
        BY <2>1, RelayedType DEF IInv, Id
    <2> HIDE DEF n, s, id
    <2>4. /\ \A k : /\ Cardinality(SeenBy(k)) \in Nat
                    /\ Cardinality(SeenNext(k)) \in Nat
                    /\ Cardinality(SeenBy(k)) <= Cardinality(SeenNext(k))
          /\ Cardinality(SeenNext(id)) = Cardinality(SeenBy(id)) + 1
        BY <1>1, <2>1, <2>2, SeenGrows
    <2>5. Relayed(f).hops < Cardinality(SeenNext(id))
        BY <2>1, <2>3, <2>4
    <2>6. ASSUME NEW g \in air
          PROVE  g.hdr.hops < Cardinality(SeenNext(Id(g.hdr)))
        <3>1. /\ g.hdr.hops \in Nat
              /\ g.hdr.hops < Cardinality(SeenBy(Id(g.hdr)))
            BY <1>1 DEF HopInv, Frame, Header
        <3> QED BY <2>4, <3>1
    <2>7. ASSUME NEW m \in Node, NEW r \in Node, buffer'[m][r] # NoPacket
          PROVE  buffer'[m][r].hops < Cardinality(SeenNext(Id(buffer'[m][r])))
        <3>1. CASE m = n /\ r = s
            <4>1. buffer'[m][r] = Relayed(f)
                BY <1>1, <2>1, <2>2, <3>1
            <4>2. Id(buffer'[m][r]) = id
                BY <2>3, <4>1
            <4> QED BY <2>5, <4>1, <4>2
        <3>2. CASE ~(m = n /\ r = s)
            <4>1. buffer'[m][r] = buffer[m][r]
                BY <1>1, <2>1, <2>2, <3>2
            <4>2. /\ buffer[m][r].hops \in Nat
                  /\ buffer[m][r].hops < Cardinality(SeenBy(Id(buffer[m][r])))
                BY <1>1, <2>7, <4>1 DEF HopInv, Header
            <4> QED BY <2>4, <4>1, <4>2
        <3> QED BY <3>1, <3>2
    <2> QED BY <2>2, <2>6, <2>7 DEF HopInv, SeenBy, SeenNext, Id
<1> QED BY <1>2, <1>3, <1>4, <1>5 DEF Next, vars, networkVars, appVars,
        StartApplication, StopApplication, ResetStats, OpenSocket,
        CloseSocket, ForwardNothing, HandleReadAgain, Ignore, Arrive, Drop,
        Move

\* A copy has made fewer hops than the network has nodes.
THEOREM HopsAreBounded ==
    ASSUME IsFiniteSet(Node)
    PROVE  Spec => []HopsBounded
<1>1. Init => HopInv
    BY DEF Init, NetworkInit, HopInv
<1>2. IInv /\ HopInv /\ [Next]_vars => HopInv'
    BY HopStep
<1>3. IInv /\ HopInv => HopsBounded
    <2> SUFFICES ASSUME IInv, HopInv,
                        NEW h \in {f.hdr : f \in air} \cup
                            {buffer[k[1]][k[2]] :
                                k \in {j \in Node \X Node :
                                          buffer[j[1]][j[2]] # NoPacket}}
                 PROVE  h.hops < Cardinality(Node)
        BY DEF HopsBounded
    <2>1. h \in Header /\ h.hops < Cardinality(SeenBy(Id(h)))
        <3>1. CASE \E f \in air : h = f.hdr
            BY <3>1 DEF IInv, TypeOK, Frame, HopInv
        <3>2. CASE \E n, s \in Node :
                       buffer[n][s] # NoPacket /\ h = buffer[n][s]
            BY <3>2 DEF IInv, TypeOK, HopInv
        <3> QED BY <3>1, <3>2
    <2>2. SeenBy(Id(h)) \subseteq Node
        BY DEF SeenBy
    <2>3. /\ Cardinality(SeenBy(Id(h))) <= Cardinality(Node)
          /\ Cardinality(SeenBy(Id(h))) \in Nat /\ Cardinality(Node) \in Nat
        BY <2>2, FS_Subset, FS_CardinalityType
    <2>4. h.hops \in Nat
        BY <2>1 DEF Header
    <2> QED BY <2>1, <2>3, <2>4
<1> QED BY <1>1, <1>2, <1>3, DecayInvariant, PTL DEF Spec

-----------------------------------------------------------------------------
(* Refinement *)

\* The first packet sent announces its source, a first reception discovers
\* one, and no other step changes what is known.
LEMMA DiscoveryStep == IInv /\ [Next]_vars => [Discovery!Next]_Known
<1> SUFFICES ASSUME IInv, [Next]_vars
             PROVE  Discovery!Next \/ Known' = Known
    OBVIOUS
<1>1. CASE UNCHANGED <<seqNo, lastReceived>>
    BY <1>1 DEF Known
<1>2. ASSUME NEW n \in Node, NEW s \in Node,
             Known' = [Known EXCEPT ![n] = @ \cup {s}], s \in Known[n]
      PROVE  Known' = Known
    <2>1. Known[n] \cup {s} = Known[n]
        BY <1>2
    <2>2. Known = [m \in Node |-> Known[m]]
        BY DEF Known
    <2> QED BY <1>2, <2>1, <2>2
<1>3. ASSUME NEW e \in timers, Send(e)
      PROVE  Discovery!Next \/ Known' = Known
    <2> DEFINE n == e.node
    <2>1. n \in Node /\ seqNo[n] \in Nat /\ seqNo \in [Node -> Nat]
        BY DEF IInv, TypeOK, Timer
    <2>2. seqNo' = [seqNo EXCEPT ![n] = @ + 1] /\ lastReceived' = lastReceived
        BY <1>3 DEF Send
    <2> HIDE DEF n
    <2>3. /\ seqNo'[n] > 0
          /\ \A m \in Node \ {n} : seqNo'[m] = seqNo[m]
        BY <2>1, <2>2
    <2>4. \A m \in Node :
              Known'[m] = IF m = n THEN Known[m] \cup {n} ELSE Known[m]
        BY <2>1, <2>2, <2>3 DEF Known
    <2>5. Known' = [Known EXCEPT ![n] = @ \cup {n}]
        BY <2>4 DEF Known
    <2> QED BY <1>2, <2>1, <2>5 DEF Discovery!Next, Discovery!Announce
<1>4. ASSUME NEW f \in air, HandleReadNew(f)
      PROVE  Discovery!Next \/ Known' = Known
    <2> DEFINE n == f.node
               s == f.hdr.src
               m == f.hdr.lastHop
    <2>1. /\ f \in Frame /\ n \in Node /\ s \in Node /\ m \in Node
          /\ f.hdr.ts \in Nat
        BY DEF IInv, TypeOK, Frame, Header
    <2>2. /\ seqNo' = seqNo
          /\ lastReceived' = [lastReceived EXCEPT ![n][s] = f.hdr.ts]
        BY <1>4, <2>1, CountReceptionType DEF HandleReadNew, IInv
    <2>3. s \in Known[m] /\ n # m /\ <<m, n>> \in Link
        BY DEF IInv, AirInv
    <2>4. /\ f.hdr.ts # Absent
          /\ lastReceived \in [Node -> [Node -> Nat \cup {Absent}]]
        BY <2>1, RateDecayAssumption DEF IInv, TypeOK
    <2> DEFINE ts == f.hdr.ts
    <2> HIDE DEF n, s, m, ts
    <2>5. \A k, r \in Node :
              lastReceived'[k][r] # Absent <=>
                  lastReceived[k][r] # Absent \/ (k = n /\ r = s)
        BY <2>1, <2>2, <2>4
    <2>6. \A k \in Node :
              Known'[k] = IF k = n THEN Known[k] \cup {s} ELSE Known[k]
        BY <2>1, <2>2, <2>5 DEF Known
    <2>7. Known' = [Known EXCEPT ![n] = @ \cup {s}]
        BY <2>6 DEF Known
    <2> QED BY <1>2, <2>1, <2>3, <2>7 DEF Discovery!Next, Discovery!Discover
<1> QED BY <1>1, <1>3, <1>4 DEF Next, vars, appVars, StartApplication,
        StopApplication, ResetStats, Forward, ForwardNothing,
        HandleReadAgain, Ignore

\* Rate-decay flooding implements node discovery.
THEOREM RateDecayImplementsDiscovery == Spec => DiscoversNodes
<1>1. Init => Discovery!Init
    BY DEF Init, Discovery!Init, Known
<1>2. IInv /\ [Next]_vars => [Discovery!Next]_Known
    BY DiscoveryStep
<1> QED BY <1>1, <1>2, DecayInvariant, PTL
        DEF Spec, DiscoversNodes, Discovery!Spec

=============================================================================
