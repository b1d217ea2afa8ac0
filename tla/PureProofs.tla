------------------------------ MODULE PureProofs ------------------------------
(***************************************************************************)
(* Theorems about PureFlooding, for every network, every placement and     *)
(* every value of the attributes: nothing is counted twice, the statistics *)
(* add up across a reset, and the application implements node discovery.   *)
(***************************************************************************)
EXTENDS PureFlooding, FiniteSetTheorems, WellFoundedInduction, TLAPS

-----------------------------------------------------------------------------
(* The operators *)

\* The packet a node creates is a packet, with that node as its source.
LEMMA NewHeaderType ==
    ASSUME TypeOK, NEW n \in Node, NEW t \in Nat
    PROVE  /\ NewHeader(n, t) \in Header
           /\ Id(NewHeader(n, t)) = <<n, seqNo[n]>>
           /\ NewHeader(n, t).lastHop = n
<1>1. pos[n] \in Pos /\ Cell[pos[n]] \in Pos /\ seqNo[n] \in Nat
    BY SpaceAssumption DEF TypeOK
<1> QED BY <1>1 DEF NewHeader, Encoded, Header, Id

\* A relayed packet keeps all that identifies it.
LEMMA RelayedType ==
    ASSUME NEW f \in Frame
    PROVE  /\ Relayed(f) \in Header
           /\ Id(Relayed(f)) = Id(f.hdr)
           /\ Relayed(f).lastHop = f.node
<1>1. f.hdr \in Header /\ f.node \in Node
    BY DEF Frame
<1>2. Cell[f.hdr.start] \in Pos /\ f.hdr.hops + 1 \in Nat
    BY <1>1, SpaceAssumption DEF Header
<1> QED BY <1>1, <1>2 DEF Relayed, Encoded, Header, Id

\* What a transmission puts on the air, and where.
LEMMA TransmitFrames ==
    ASSUME TypeOK, \A m \in Node : pos[m] \in Track[m],
           NEW n \in Node, NEW hdr \in Header,
           NEW via \in {"send", "forward"}, NEW t \in Nat,
           Transmit(n, hdr, via, t)
    PROVE  /\ air' \subseteq Frame
           /\ \A f \in air' \ air :
                  f.hdr = hdr /\ f.node # n /\ <<n, f.node>> \in Link
<1>1. CASE life[n] # "up"
    BY <1>1 DEF Transmit, TypeOK
<1>2. CASE life[n] = "up"
    <2>1. PICK who \in Hearers(n), d \in AirTime :
              air' = air \cup Frames(who, hdr, via, t + d)
        BY <1>2 DEF Transmit
    <2>2. \A m \in who : m \in Node \ {n} /\ Dist[pos[n]][pos[m]] <= RadioRange
        BY <2>1 DEF Hearers, InRange
    <2>3. \A m \in who : <<n, m>> \in Link
        BY <2>2 DEF Link
    <2>4. t + d \in Nat
        BY TimeAssumption
    <2>5. Frames(who, hdr, via, t + d) \subseteq Frame
        BY <2>2, <2>4 DEF Frames, Frame
    <2>6. \A f \in Frames(who, hdr, via, t + d) :
              f.hdr = hdr /\ f.node # n /\ <<n, f.node>> \in Link
        BY <2>2, <2>3 DEF Frames
    <2> QED BY <2>1, <2>5, <2>6 DEF TypeOK
<1> QED BY <1>1, <1>2

\* A reception is entered with its numbers.
LEMMA CountReceptionType ==
    ASSUME TypeOK, NEW f \in Frame, CountReception(f)
    PROVE  /\ lastReceived' =
                  [lastReceived EXCEPT ![f.node][f.hdr.src] = f.hdr.ts]
           /\ lastReceived' \in [Node -> [Node -> Nat \cup {Absent}]]
           /\ seenNodes' = [seenNodes EXCEPT ![f.node] = @ \cup {f.hdr.src}]
           /\ seenNodes' \in [Node -> SUBSET Node]
           /\ numRcvd' = [numRcvd EXCEPT ![f.node] = @ + 1]
           /\ numRcvd' \in [Node -> Nat]
           /\ numInTime' \in [Node -> Nat] /\ numLate' \in [Node -> Nat]
           /\ numInTime'[f.node] + numLate'[f.node]
                  <= numInTime[f.node] + numLate[f.node] + 1
           /\ \A n \in Node \ {f.node} :
                  numInTime'[n] = numInTime[n] /\ numLate'[n] = numLate[n]
           /\ numSent' = numSent /\ numFwd' = numFwd
<1> DEFINE n == f.node
           s == f.hdr.src
           last == lastReceived[n][s]
           sampled == last # Absent /\ Dist[f.hdr.start][pos[n]] <= AoiRange
           old == sampled /\ f.at - last > AoiThreshold
           late == IF old THEN 1 ELSE 0
           inTime == IF sampled /\ ~old THEN 1 ELSE 0
<1>1. n \in Node /\ s \in Node /\ f.hdr.ts \in Nat
    BY DEF Frame, Header
<1>2. /\ lastReceived' = [lastReceived EXCEPT ![n][s] = f.hdr.ts]
      /\ seenNodes' = [seenNodes EXCEPT ![n] = @ \cup {s}]
      /\ numRcvd' = [numRcvd EXCEPT ![n] = @ + 1]
      /\ numLate' = [numLate EXCEPT ![n] = @ + late]
      /\ numInTime' = [numInTime EXCEPT ![n] = @ + inTime]
      /\ numSent' = numSent /\ numFwd' = numFwd
    BY DEF CountReception
<1>3. late \in {0, 1} /\ inTime \in {0, 1} /\ late + inTime <= 1
    OBVIOUS
<1> HIDE DEF n, s, late, inTime
<1>4. /\ lastReceived' \in [Node -> [Node -> Nat \cup {Absent}]]
      /\ seenNodes' \in [Node -> SUBSET Node]
      /\ numRcvd' \in [Node -> Nat]
    BY <1>1, <1>2 DEF TypeOK
<1>5. /\ numLate'[n] = numLate[n] + late /\ numInTime'[n] = numInTime[n] + inTime
      /\ numLate[n] \in Nat /\ numInTime[n] \in Nat
      /\ numLate' \in [Node -> Nat] /\ numInTime' \in [Node -> Nat]
      /\ \A m \in Node \ {n} :
             numInTime'[m] = numInTime[m] /\ numLate'[m] = numLate[m]
    BY <1>1, <1>2, <1>3 DEF TypeOK
<1>6. numInTime'[n] + numLate'[n] <= numInTime[n] + numLate[n] + 1
    BY <1>3, <1>5
<1> QED BY <1>2, <1>4, <1>5, <1>6 DEF n, s

-----------------------------------------------------------------------------
(* The invariant *)

\* Nodes stay on their tracks, and a node has all its own packets on its list.
OwnSeen ==
    /\ \A n \in Node : pos[n] \in Track[n]
    /\ \A n \in Node, k \in Nat : k < seqNo[n] => <<n, k>> \in seen[n]

\* The packets on a list were made by their sources, which are known.
ListGenuine ==
    \A n \in Node : \A id \in seen[n] :
        /\ id[2] < seqNo[id[1]]
        /\ id[1] # n => lastReceived[n][id[1]] # Absent

\* Who transmits a packet has it on its list.
PacketsGenuine ==
    /\ \A f \in air :
           /\ Id(f.hdr) \in seen[f.hdr.lastHop]
           /\ f.node # f.hdr.lastHop
           /\ <<f.hdr.lastHop, f.node>> \in Link
    /\ \A c \in pending :
           Id(c.hdr) \in seen[c.node] /\ c.hdr.lastHop = c.node

IInv ==
    /\ TypeOK
    /\ OwnSeen
    /\ ListGenuine
    /\ PacketsGenuine

\* Nothing circulates before the applications start.
LEMMA InitIInv == Init => IInv
<1> SUFFICES ASSUME Init PROVE IInv
    OBVIOUS
<1>1. timers \subseteq Timer
    <2>1. PICK start \in [Node -> UNION {StartTimes[n] : n \in Node}] :
              /\ \A n \in Node : start[n] \in StartTimes[n]
              /\ timers = Timetable(start)
        BY DEF Init, NetworkInit
    <2>2. \A n \in Node : start[n] \in Nat /\ StopTime[n] \in Nat
        BY <2>1, TimeAssumption
    <2> QED BY <2>1, <2>2, TimeAssumption DEF Timetable, Timer, TimerKind, At
<1>2. pos \in [Node -> Pos]
    BY DEF Init, NetworkInit
<1>3. TypeOK
    BY <1>1, <1>2 DEF Init, NetworkInit, TypeOK
<1> QED BY <1>3 DEF Init, NetworkInit, IInv, OwnSeen, ListGenuine,
        PacketsGenuine

\* Steps that leave the protocol's memory alone.
LEMMA KeptIInv ==
    ASSUME IInv, TypeOK', \A n \in Node : pos'[n] \in Track[n],
           air' \subseteq air, pending' \subseteq pending,
           UNCHANGED <<seqNo, seen, lastReceived>>
    PROVE  IInv'
<1>1. OwnSeen' /\ ListGenuine'
    BY DEF IInv, OwnSeen, ListGenuine
<1>2. PacketsGenuine'
    BY DEF IInv, PacketsGenuine, Id, Link
<1> QED BY <1>1, <1>2 DEF IInv

\* A new packet circulates with its sender on the list.
LEMMA SendIInv ==
    ASSUME IInv, NEW e \in timers, Send(e)
    PROVE  IInv'
<1> DEFINE n == e.node
           hdr == NewHeader(n, e.at)
<1>1. n \in Node /\ e.at \in Nat /\ e \in Timer
    BY DEF IInv, TypeOK, Timer
<1>2. hdr \in Header /\ Id(hdr) = <<n, seqNo[n]>> /\ hdr.lastHop = n
    BY <1>1, NewHeaderType DEF IInv
<1>3. /\ Transmit(n, hdr, "send", e.at) /\ now' = e.at
      /\ timers' = (timers \ {e}) \cup {At("send", n, e.at + SendInterval)}
      /\ seqNo' = [seqNo EXCEPT ![n] = @ + 1]
      /\ numSent' = [numSent EXCEPT ![n] = @ + 1]
      /\ seen' = [seen EXCEPT ![n] = @ \cup {Id(hdr)}]
      /\ UNCHANGED <<pending, pos, life, lastReceived, seenNodes, numInTime,
                     numLate, numRcvd, numFwd, fwdTrace>>
    BY DEF Send, Expire, Execute, ScheduleTransmit
<1>4. At("send", n, e.at + SendInterval) \in Timer
    BY <1>1, TimeAssumption DEF At, Timer, TimerKind
<1> HIDE DEF hdr, n
<1>5. /\ air' \subseteq Frame
      /\ \A f \in air' \ air :
             f.hdr = hdr /\ f.node # n /\ <<n, f.node>> \in Link
    BY <1>1, <1>2, <1>3, TransmitFrames DEF IInv, OwnSeen
<1>6. /\ seqNo \in [Node -> Nat] /\ seqNo' \in [Node -> Nat]
      /\ seen \in [Node -> SUBSET PktId] /\ Id(hdr) \in PktId
      /\ seqNo'[n] = seqNo[n] + 1
      /\ \A m \in Node : seqNo'[m] >= seqNo[m] /\ seen[m] \subseteq seen'[m]
      /\ \A m \in Node : m # n => seqNo'[m] = seqNo[m] /\ seen'[m] = seen[m]
      /\ seen'[n] = seen[n] \cup {<<n, seqNo[n]>>}
    BY <1>1, <1>2, <1>3 DEF IInv, TypeOK, PktId
<1>7. TypeOK'
    BY <1>1, <1>3, <1>4, <1>5, <1>6 DEF IInv, TypeOK
<1>8. OwnSeen'
    <2>1. ASSUME NEW m \in Node, NEW k \in Nat, k < seqNo'[m]
          PROVE  <<m, k>> \in seen'[m]
        <3>1. CASE k < seqNo[m]
            BY <1>6, <3>1 DEF IInv, OwnSeen
        <3>2. CASE ~(k < seqNo[m])
            <4>1. m = n /\ k = seqNo[n]
                BY <1>1, <1>6, <2>1, <3>2
            <4> QED BY <1>6, <4>1
        <3> QED BY <3>1, <3>2
    <2> QED BY <1>3, <2>1 DEF IInv, OwnSeen
<1>9. ListGenuine'
    <2> SUFFICES ASSUME NEW m \in Node, NEW id \in seen'[m]
                 PROVE  /\ id[2] < seqNo'[id[1]]
                        /\ id[1] # m => lastReceived[m][id[1]] # Absent
        BY <1>3 DEF ListGenuine
    <2>1. CASE id \in seen[m]
        <3>1. id \in PktId
            BY <1>6, <2>1
        <3>2. id[1] \in Node /\ id[2] \in Nat
            BY <3>1 DEF PktId
        <3>3. id[2] < seqNo[id[1]] /\ seqNo[id[1]] <= seqNo'[id[1]]
            BY <1>6, <2>1, <3>2 DEF IInv, ListGenuine
        <3>4. seqNo[id[1]] \in Nat /\ seqNo'[id[1]] \in Nat
            BY <1>6, <3>2
        <3>5. id[2] < seqNo'[id[1]]
            BY <3>2, <3>3, <3>4
        <3> QED BY <2>1, <3>5 DEF IInv, ListGenuine
    <2>2. CASE id \notin seen[m]
        <3>1. m = n /\ id = <<n, seqNo[n]>>
            BY <1>6, <2>2
        <3>2. seqNo[n] < seqNo'[n]
            BY <1>1, <1>6
        <3> QED BY <3>1, <3>2
    <2> QED BY <2>1, <2>2
<1>10. PacketsGenuine'
    <2>1. ASSUME NEW f \in air'
          PROVE  /\ Id(f.hdr) \in seen'[f.hdr.lastHop]
                 /\ f.node # f.hdr.lastHop
                 /\ <<f.hdr.lastHop, f.node>> \in Link
        <3>1. CASE f \in air
            <4>1. f.hdr.lastHop \in Node
                BY <3>1 DEF IInv, TypeOK, Frame, Header
            <4>2. Id(f.hdr) \in seen[f.hdr.lastHop]
                BY <3>1 DEF IInv, PacketsGenuine
            <4> QED BY <1>6, <3>1, <4>1, <4>2 DEF IInv, PacketsGenuine
        <3>2. CASE f \notin air
            <4>1. f.hdr = hdr /\ f.node # n /\ <<n, f.node>> \in Link
                BY <1>5, <2>1, <3>2
            <4>2. Id(hdr) \in seen'[n]
                BY <1>2, <1>6
            <4> QED BY <1>2, <4>1, <4>2
        <3> QED BY <3>1, <3>2
    <2>2. ASSUME NEW c \in pending
          PROVE  Id(c.hdr) \in seen'[c.node] /\ c.hdr.lastHop = c.node
        <3>1. c.node \in Node
            BY DEF IInv, TypeOK, Callback
        <3>2. Id(c.hdr) \in seen[c.node] /\ c.hdr.lastHop = c.node
            BY DEF IInv, PacketsGenuine
        <3> QED BY <1>6, <3>1, <3>2
    <2> QED BY <1>3, <2>1, <2>2 DEF PacketsGenuine, Id, Link
<1> QED BY <1>7, <1>8, <1>9, <1>10 DEF IInv

\* A forwarded packet is one that circulated already.
LEMMA ForwardIInv ==
    ASSUME IInv, NEW c \in pending, Forward(c)
    PROVE  IInv'
<1>1. /\ c.node \in Node /\ c.at \in Nat /\ c.hdr \in Header
      /\ c.hdr.src \in Node /\ c.hdr.seq \in Nat
    BY DEF IInv, TypeOK, Callback, Header
<1>2. /\ Transmit(c.node, c.hdr, "forward", c.at) /\ now' = c.at
      /\ fwdTrace' = fwdTrace \cup
             {[node |-> c.node, src |-> c.hdr.src, seq |-> c.hdr.seq,
               at |-> c.at]}
      /\ pending' = pending \ {c}
      /\ numFwd' = [numFwd EXCEPT ![c.node] = @ + 1]
      /\ UNCHANGED <<timers, pos, life, seqNo, seen, lastReceived, seenNodes,
                     numInTime, numLate, numSent, numRcvd>>
    BY DEF Forward, Release, Execute
<1>3. Id(c.hdr) \in seen[c.node] /\ c.hdr.lastHop = c.node
    BY DEF IInv, PacketsGenuine
<1>4. /\ air' \subseteq Frame
      /\ \A f \in air' \ air :
             f.hdr = c.hdr /\ f.node # c.node /\ <<c.node, f.node>> \in Link
    BY <1>1, <1>2, TransmitFrames DEF IInv, OwnSeen
<1>5. TypeOK'
    BY <1>1, <1>2, <1>4 DEF IInv, TypeOK, TraceRow
<1>6. OwnSeen' /\ ListGenuine'
    BY <1>2 DEF IInv, OwnSeen, ListGenuine
<1>7. PacketsGenuine'
    BY <1>2, <1>3, <1>4 DEF IInv, PacketsGenuine, Id, Link
<1> QED BY <1>5, <1>6, <1>7 DEF IInv

\* A reception puts the packet on the list and may schedule a callback.
LEMMA ReadIInv ==
    ASSUME IInv, NEW f \in air, HandleReadNew(f)
    PROVE  IInv' /\ f.hdr.src # f.node
<1> DEFINE n == f.node
           s == f.hdr.src
<1>1. /\ f \in Frame /\ n \in Node /\ f.hdr \in Header /\ f.at \in Nat
      /\ s \in Node /\ f.hdr.seq \in Nat /\ f.hdr.lastHop \in Node
      /\ f.hdr.ts \in Nat
    BY DEF IInv, TypeOK, Frame, Header
<1>2. /\ air' = air \ {f} /\ now' = f.at /\ Id(f.hdr) \notin seen[n]
      /\ seen' = [seen EXCEPT ![n] = @ \cup {Id(f.hdr)}]
      /\ CountReception(f)
      /\ UNCHANGED <<timers, pos, life, seqNo, fwdTrace>>
    BY DEF HandleReadNew, Arrive, Execute
<1>3. \A c \in pending' \ pending :
          /\ c \in Callback /\ c.node = n
          /\ Id(c.hdr) = Id(f.hdr) /\ c.hdr.lastHop = n
    <2>1. CASE MayTravel(f)
        <3>1. PICK d \in Delays :
                  pending' = pending \cup
                      {[node |-> n, hdr |-> Relayed(f), at |-> f.at + d]}
            BY <2>1 DEF HandleReadNew
        <3>2. f.at + d \in Nat
            BY <1>1, PureAssumption
        <3> QED BY <1>1, <3>1, <3>2, RelayedType DEF Callback
    <2>2. CASE ~MayTravel(f)
        BY <2>2 DEF HandleReadNew
    <2> QED BY <2>1, <2>2
<1>4. Id(f.hdr) = <<s, f.hdr.seq>> /\ Id(f.hdr) \in PktId
    BY <1>1 DEF Id, PktId
<1>5. pending \subseteq pending' /\ pending' \subseteq Callback
    BY <1>3 DEF HandleReadNew, IInv, TypeOK
<1>6. f.hdr.seq < seqNo[s]
    <2>1. Id(f.hdr) \in seen[f.hdr.lastHop]
        BY DEF IInv, PacketsGenuine
    <2>2. Id(f.hdr)[2] < seqNo[Id(f.hdr)[1]]
        BY <1>1, <2>1 DEF IInv, ListGenuine
    <2> QED BY <1>4, <2>2
<1>7. s # n
    BY <1>1, <1>2, <1>4, <1>6 DEF IInv, OwnSeen
<1>8. /\ lastReceived' = [lastReceived EXCEPT ![n][s] = f.hdr.ts]
      /\ lastReceived' \in [Node -> [Node -> Nat \cup {Absent}]]
    BY <1>1, <1>2, CountReceptionType DEF IInv
<1>9. TypeOK'
    <2>1. /\ lastReceived' \in [Node -> [Node -> Nat \cup {Absent}]]
          /\ seenNodes' \in [Node -> SUBSET Node]
          /\ numRcvd' \in [Node -> Nat]
          /\ numInTime' \in [Node -> Nat] /\ numLate' \in [Node -> Nat]
          /\ numSent' = numSent /\ numFwd' = numFwd
        BY <1>1, <1>2, CountReceptionType DEF IInv
    <2> QED BY <1>1, <1>2, <1>4, <1>5, <2>1 DEF IInv, TypeOK
<1> HIDE DEF n, s
<1>10. /\ seen \in [Node -> SUBSET PktId]
       /\ \A m \in Node : seen[m] \subseteq seen'[m]
       /\ \A m \in Node : m # n => seen'[m] = seen[m]
       /\ seen'[n] = seen[n] \cup {Id(f.hdr)}
    BY <1>1, <1>2, <1>4 DEF IInv, TypeOK
<1>11. OwnSeen'
    <2>1. ASSUME NEW m \in Node, NEW k \in Nat, k < seqNo[m]
          PROVE  <<m, k>> \in seen'[m]
        <3>1. <<m, k>> \in seen[m]
            BY <2>1 DEF IInv, OwnSeen
        <3> QED BY <1>10, <3>1
    <2> QED BY <1>2, <2>1 DEF IInv, OwnSeen
<1>12. \A m, r \in Node :
           lastReceived[m][r] # Absent => lastReceived'[m][r] # Absent
    BY <1>1, <1>8, PureAssumption DEF IInv, TypeOK
<1>13. ListGenuine'
    <2> SUFFICES ASSUME NEW m \in Node, NEW id \in seen'[m]
                 PROVE  /\ id[2] < seqNo[id[1]]
                        /\ id[1] # m => lastReceived'[m][id[1]] # Absent
        BY <1>2 DEF ListGenuine
    <2>1. CASE id \in seen[m]
        <3>1. id[1] \in Node
            BY <1>10, <2>1 DEF PktId
        <3> QED BY <1>12, <2>1, <3>1 DEF IInv, ListGenuine
    <2>2. CASE id \notin seen[m]
        <3>1. m = n /\ id = <<s, f.hdr.seq>>
            BY <1>4, <1>10, <2>2
        <3>2. lastReceived'[n][s] = f.hdr.ts
            BY <1>1, <1>8 DEF IInv, TypeOK
        <3> QED BY <1>1, <1>6, <3>1, <3>2, PureAssumption
    <2> QED BY <2>1, <2>2
<1>14. PacketsGenuine'
    <2>1. ASSUME NEW g \in air'
          PROVE  Id(g.hdr) \in seen'[g.hdr.lastHop]
        <3>1. g \in air /\ g.hdr.lastHop \in Node
            BY <1>2 DEF IInv, TypeOK, Frame, Header
        <3>2. Id(g.hdr) \in seen[g.hdr.lastHop]
            BY <3>1 DEF IInv, PacketsGenuine
        <3> QED BY <1>10, <3>1, <3>2
    <2>2. ASSUME NEW c \in pending'
          PROVE  Id(c.hdr) \in seen'[c.node] /\ c.hdr.lastHop = c.node
        <3>1. CASE c \in pending
            <4>1. /\ c.node \in Node /\ Id(c.hdr) \in seen[c.node]
                  /\ c.hdr.lastHop = c.node
                BY <3>1 DEF IInv, TypeOK, Callback, PacketsGenuine
            <4> QED BY <1>10, <4>1
        <3>2. CASE c \notin pending
            BY <1>3, <1>10, <3>2
        <3> QED BY <3>1, <3>2
    <2> QED BY <1>2, <2>1, <2>2 DEF IInv, PacketsGenuine, Id, Link
<1> QED BY <1>7, <1>9, <1>11, <1>13, <1>14 DEF IInv, n, s

\* The other steps.
LEMMA OtherIInv ==
    ASSUME IInv,
           \/ \E e \in timers : \/ StartApplication(e) \/ StopApplication(e)
                                \/ ResetStats(e)
           \/ \E c \in pending : ForwardNothing(c)
           \/ \E f \in air : HandleReadAgain(f) \/ Ignore(f)
           \/ \E n \in Node : Move(n) /\ UNCHANGED appVars
           \/ UNCHANGED vars
    PROVE  IInv'
<1>1. ASSUME NEW e \in timers,
             \/ StartApplication(e) \/ StopApplication(e) \/ ResetStats(e)
      PROVE  IInv'
    <2>1. e \in Timer /\ e.node \in Node /\ e.at \in Nat
        BY DEF IInv, TypeOK, Timer
    <2>2. At("send", e.node, e.at + SendInterval) \in Timer
        BY <2>1, TimeAssumption DEF At, Timer, TimerKind
    <2>3. TypeOK'
        <3>1. CASE StartApplication(e)
            BY <2>1, <2>2, <3>1 DEF StartApplication, OpenSocket, Expire,
                Execute, ScheduleTransmit, appVars, statVars, IInv, TypeOK
        <3>2. CASE StopApplication(e)
            BY <2>1, <3>2 DEF StopApplication, CloseSocket, Expire, Execute,
                appVars, statVars, IInv, TypeOK
        <3>3. CASE ResetStats(e)
            BY <2>1, <3>3 DEF ResetStats, Expire, Execute, IInv, TypeOK
        <3> QED BY <1>1, <3>1, <3>2, <3>3
    <2>4. UNCHANGED <<air, pending, pos, seqNo, seen, lastReceived>>
        BY <1>1 DEF StartApplication, StopApplication, ResetStats, OpenSocket,
            CloseSocket, appVars
    <2> QED BY <2>3, <2>4, KeptIInv DEF IInv, OwnSeen
<1>2. ASSUME NEW c \in pending, ForwardNothing(c)
      PROVE  IInv'
    <2>1. TypeOK'
        BY <1>2 DEF ForwardNothing, Release, Execute, appVars, statVars, IInv,
            TypeOK, Callback
    <2> QED BY <1>2, <2>1, KeptIInv DEF ForwardNothing, Release, appVars,
            IInv, OwnSeen
<1>3. ASSUME NEW f \in air, HandleReadAgain(f) \/ Ignore(f)
      PROVE  IInv'
    <2>1. TypeOK'
        BY <1>3 DEF HandleReadAgain, Ignore, Arrive, Drop, Execute, appVars,
            statVars, IInv, TypeOK, Frame
    <2>2. /\ air' \subseteq air
          /\ UNCHANGED <<pending, pos, seqNo, seen, lastReceived>>
        BY <1>3 DEF HandleReadAgain, Ignore, Arrive, Drop, appVars
    <2> QED BY <2>1, <2>2, KeptIInv DEF IInv, OwnSeen
<1>4. ASSUME NEW n \in Node, Move(n), UNCHANGED appVars
      PROVE  IInv'
    <2>1. \A m \in Node : pos'[m] \in Track[m]
        BY <1>4 DEF Move, IInv, TypeOK, OwnSeen
    <2>2. pos' \in [Node -> Pos]
        BY <1>4, SpaceAssumption DEF Move, IInv, TypeOK
    <2>3. TypeOK'
        BY <1>4, <2>2 DEF Move, appVars, statVars, IInv, TypeOK
    <2> QED BY <1>4, <2>1, <2>3, KeptIInv DEF Move, appVars
<1>5. CASE UNCHANGED vars
    BY <1>5, KeptIInv DEF vars, networkVars, appVars, statVars, IInv, OwnSeen,
       TypeOK
<1> QED BY <1>1, <1>2, <1>3, <1>4, <1>5

\* Every action preserves the invariant.
LEMMA StepIInv == IInv /\ [Next]_vars => IInv'
<1> SUFFICES ASSUME IInv, [Next]_vars PROVE IInv'
    OBVIOUS
<1>1. ASSUME NEW e \in timers, Send(e) PROVE IInv'
    BY <1>1, SendIInv
<1>2. ASSUME NEW c \in pending, Forward(c) PROVE IInv'
    BY <1>2, ForwardIInv
<1>3. ASSUME NEW f \in air, HandleReadNew(f) PROVE IInv'
    BY <1>3, ReadIInv
<1> QED BY <1>1, <1>2, <1>3, OtherIInv DEF Next

\* The invariant holds in every state.
LEMMA PureInvariant == Spec => []IInv
<1> QED BY InitIInv, StepIInv, PTL DEF Spec

\* Every variable of the application and of the network keeps its type.
THEOREM PureTypeCorrect == Spec => []TypeOK
<1>1. IInv => TypeOK
    BY DEF IInv
<1> QED BY <1>1, PureInvariant, PTL

-----------------------------------------------------------------------------
(* The statistics *)

\* What a reception counted for the first time changes, and what nothing else
\* changes but a reset.
LEMMA StatisticsStep ==
    ASSUME IInv, [Next]_vars
    PROVE  \/ UNCHANGED <<seenNodes, numInTime, numLate, numRcvd>>
           \/ \E n \in Node :
                  /\ seenNodes' = [seenNodes EXCEPT ![n] = {}]
                  /\ numInTime' = [numInTime EXCEPT ![n] = 0]
                  /\ numLate' = [numLate EXCEPT ![n] = 0]
                  /\ numRcvd' = [numRcvd EXCEPT ![n] = 0]
           \/ \E f \in air : HandleReadNew(f) /\ CountReception(f)
<1>1. CASE UNCHANGED vars
    BY <1>1 DEF vars, appVars, statVars
<1>2. ASSUME NEW e \in timers, ResetStats(e)
      PROVE  \E n \in Node :
                 /\ seenNodes' = [seenNodes EXCEPT ![n] = {}]
                 /\ numInTime' = [numInTime EXCEPT ![n] = 0]
                 /\ numLate' = [numLate EXCEPT ![n] = 0]
                 /\ numRcvd' = [numRcvd EXCEPT ![n] = 0]
    <2>1. e.node \in Node
        BY DEF IInv, TypeOK, Timer
    <2> QED BY <1>2, <2>1 DEF ResetStats
<1>3. ASSUME NEW f \in air, HandleReadNew(f)
      PROVE  CountReception(f)
    BY <1>3 DEF HandleReadNew
<1> QED BY <1>1, <1>2, <1>3 DEF Next, StartApplication, StopApplication, Send,
        Forward, ForwardNothing, HandleReadAgain, Ignore, appVars, statVars

\* Each node seen has been received, and each sample was taken at a reception.
StatInv ==
    \A n \in Node :
        /\ IsFiniteSet(seenNodes[n])
        /\ Cardinality(seenNodes[n]) <= numRcvd[n]
        /\ numInTime[n] + numLate[n] <= numRcvd[n]

\* Every action keeps the counters consistent with each other.
LEMMA StatInvStep == IInv /\ StatInv /\ [Next]_vars => StatInv'
<1> SUFFICES ASSUME IInv, StatInv, [Next]_vars,
                    NEW n \in Node
             PROVE  /\ IsFiniteSet(seenNodes'[n])
                    /\ Cardinality(seenNodes'[n]) <= numRcvd'[n]
                    /\ numInTime'[n] + numLate'[n] <= numRcvd'[n]
    BY DEF StatInv
<1>1. /\ seenNodes \in [Node -> SUBSET Node]
      /\ numInTime \in [Node -> Nat] /\ numLate \in [Node -> Nat]
      /\ numRcvd \in [Node -> Nat]
    BY DEF IInv, TypeOK
<1>2. CASE UNCHANGED <<seenNodes, numInTime, numLate, numRcvd>>
    BY <1>2 DEF StatInv
<1>3. ASSUME NEW m \in Node,
             seenNodes' = [seenNodes EXCEPT ![m] = {}],
             numInTime' = [numInTime EXCEPT ![m] = 0],
             numLate' = [numLate EXCEPT ![m] = 0],
             numRcvd' = [numRcvd EXCEPT ![m] = 0]
      PROVE  /\ IsFiniteSet(seenNodes'[n])
             /\ Cardinality(seenNodes'[n]) <= numRcvd'[n]
             /\ numInTime'[n] + numLate'[n] <= numRcvd'[n]
    <2>1. CASE m = n
        <3>1. /\ seenNodes'[n] = {} /\ numInTime'[n] = 0 /\ numLate'[n] = 0
              /\ numRcvd'[n] = 0
            BY <1>1, <1>3, <2>1
        <3> QED BY <3>1, FS_EmptySet
    <2>2. CASE m # n
        BY <1>1, <1>3, <2>2 DEF StatInv
    <2> QED BY <2>1, <2>2
<1>4. ASSUME NEW f \in air, CountReception(f)
      PROVE  /\ IsFiniteSet(seenNodes'[n])
             /\ Cardinality(seenNodes'[n]) <= numRcvd'[n]
             /\ numInTime'[n] + numLate'[n] <= numRcvd'[n]
    <2>1. f \in Frame /\ f.node \in Node
        BY DEF IInv, TypeOK, Frame
    <2>2. /\ seenNodes' = [seenNodes EXCEPT ![f.node] = @ \cup {f.hdr.src}]
          /\ numRcvd' = [numRcvd EXCEPT ![f.node] = @ + 1]
          /\ numInTime' \in [Node -> Nat] /\ numLate' \in [Node -> Nat]
          /\ numInTime'[f.node] + numLate'[f.node]
                 <= numInTime[f.node] + numLate[f.node] + 1
          /\ \A m \in Node \ {f.node} :
                 numInTime'[m] = numInTime[m] /\ numLate'[m] = numLate[m]
        BY <1>4, <2>1, CountReceptionType DEF IInv
    <2>3. CASE n = f.node
        <3>1. /\ seenNodes'[n] = seenNodes[n] \cup {f.hdr.src}
              /\ numRcvd'[n] = numRcvd[n] + 1 /\ numRcvd[n] \in Nat
            BY <1>1, <2>2, <2>3
        <3>2. /\ IsFiniteSet(seenNodes[n])
              /\ Cardinality(seenNodes[n]) <= numRcvd[n]
              /\ numInTime[n] + numLate[n] <= numRcvd[n]
            BY DEF StatInv
        <3>3. /\ IsFiniteSet(seenNodes'[n])
              /\ Cardinality(seenNodes'[n]) <= Cardinality(seenNodes[n]) + 1
              /\ Cardinality(seenNodes[n]) \in Nat
              /\ Cardinality(seenNodes'[n]) \in Nat
            <4>1. /\ IsFiniteSet(seenNodes[n] \cup {f.hdr.src})
                  /\ \/ Cardinality(seenNodes[n] \cup {f.hdr.src})
                             = Cardinality(seenNodes[n])
                     \/ Cardinality(seenNodes[n] \cup {f.hdr.src})
                             = Cardinality(seenNodes[n]) + 1
                BY <3>2, FS_AddElement, Zenon
            <4>2. /\ Cardinality(seenNodes[n]) \in Nat
                  /\ Cardinality(seenNodes[n] \cup {f.hdr.src}) \in Nat
                BY <3>2, <4>1, FS_CardinalityType, Zenon
            <4>3. seenNodes'[n] = seenNodes[n] \cup {f.hdr.src}
                BY <3>1
            <4> DEFINE Old == Cardinality(seenNodes[n])
                       More == Cardinality(seenNodes[n] \cup {f.hdr.src})
            <4>4. More <= Old + 1
                <5>1. Old \in Nat /\ (More = Old \/ More = Old + 1)
                    BY <4>1, <4>2
                <5> HIDE DEF Old, More
                <5> QED BY <5>1
            <4> QED BY <4>1, <4>2, <4>3, <4>4
        <3>4. Cardinality(seenNodes'[n]) <= numRcvd'[n]
            BY <3>1, <3>2, <3>3
        <3>5. numInTime'[n] + numLate'[n] <= numRcvd'[n]
            <4>1. /\ numInTime'[n] \in Nat /\ numLate'[n] \in Nat
                  /\ numInTime[n] \in Nat /\ numLate[n] \in Nat
                BY <1>1, <2>2
            <4> QED BY <2>2, <2>3, <3>1, <3>2, <4>1
        <3> QED BY <3>3, <3>4, <3>5
    <2>4. CASE n # f.node
        BY <1>1, <2>2, <2>4 DEF StatInv
    <2> QED BY <2>3, <2>4
<1> QED BY <1>2, <1>3, <1>4, StatisticsStep

\* The statistics go with receptions, also across the reset in mid-run.
THEOREM StatisticsDoAddUp == Spec => []StatisticsAddUp
<1>1. Init => StatInv
    <2> SUFFICES ASSUME Init, NEW n \in Node
                 PROVE  /\ IsFiniteSet(seenNodes[n])
                        /\ Cardinality(seenNodes[n]) <= numRcvd[n]
                        /\ numInTime[n] + numLate[n] <= numRcvd[n]
        BY DEF StatInv
    <2>1. /\ seenNodes[n] = {} /\ numRcvd[n] = 0 /\ numInTime[n] = 0
          /\ numLate[n] = 0
        BY DEF Init
    <2> QED BY <2>1, FS_EmptySet
<1>2. IInv /\ StatInv /\ [Next]_vars => StatInv'
    BY StatInvStep
<1>3. StatInv => StatisticsAddUp
    BY DEF StatInv, StatisticsAddUp
<1> QED BY <1>1, <1>2, <1>3, PureInvariant, PTL DEF Spec

-----------------------------------------------------------------------------
(* Counting *)

\* The packets of others on the list of n.
Received(n) == {id \in seen[n] : id[1] # n}

\* A packet is counted when it is entered in the list, and only then.
CountInv ==
    \A n \in Node :
        /\ IsFiniteSet(PacketsOfOthers(n))
        /\ IsFiniteSet(Received(n))
        /\ numRcvd[n] <= Cardinality(Received(n))

\* The packets of others, one by one.
LEMMA PacketsMember ==
    ASSUME NEW n \in Node, seqNo \in [Node -> Nat]
    PROVE  \A p : p \in PacketsOfOthers(n) <=>
               \E s \in Node \ {n}, k \in Nat : p = <<s, k>> /\ k < seqNo[s]
<1>1. \A p : p \in PacketsOfOthers(n) <=>
          \E s \in Node \ {n} : p \in {s} \X (0 .. seqNo[s] - 1)
    BY DEF PacketsOfOthers
<1>2. ASSUME NEW p, NEW s \in Node \ {n}
      PROVE  p \in {s} \X (0 .. seqNo[s] - 1) <=>
                 \E k \in Nat : p = <<s, k>> /\ k < seqNo[s]
    <2>1. seqNo[s] \in Nat
        OBVIOUS
    <2>2. \A k : k \in 0 .. seqNo[s] - 1 <=> k \in Nat /\ k < seqNo[s]
        BY <2>1
    <2> QED BY <2>2
<1> QED BY <1>1, <1>2

\* Every action keeps the receptions counted within the list.
LEMMA CountInvStep == IInv /\ CountInv /\ [Next]_vars => CountInv'
<1> SUFFICES ASSUME IInv, CountInv, [Next]_vars, NEW n \in Node
             PROVE  /\ IsFiniteSet(PacketsOfOthers(n)')
                    /\ IsFiniteSet(Received(n)')
                    /\ numRcvd'[n] <= Cardinality(Received(n)')
    BY DEF CountInv
<1>1. /\ seqNo \in [Node -> Nat] /\ numRcvd \in [Node -> Nat]
      /\ seen \in [Node -> SUBSET PktId]
    BY DEF IInv, TypeOK
<1>2. /\ IsFiniteSet(PacketsOfOthers(n)) /\ IsFiniteSet(Received(n))
      /\ numRcvd[n] <= Cardinality(Received(n))
      /\ Cardinality(Received(n)) \in Nat
    BY FS_CardinalityType DEF CountInv
<1>3. ASSUME UNCHANGED <<seqNo, seen>>, numRcvd'[n] \in {numRcvd[n], 0}
      PROVE  /\ IsFiniteSet(PacketsOfOthers(n)')
             /\ IsFiniteSet(Received(n)')
             /\ numRcvd'[n] <= Cardinality(Received(n)')
    <2>1. PacketsOfOthers(n)' = PacketsOfOthers(n) /\ Received(n)' = Received(n)
        BY <1>3 DEF PacketsOfOthers, Received
    <2> QED BY <1>2, <1>3, <2>1
<1>4. ASSUME NEW e \in timers, Send(e)
      PROVE  /\ IsFiniteSet(PacketsOfOthers(n)')
             /\ IsFiniteSet(Received(n)')
             /\ numRcvd'[n] <= Cardinality(Received(n)')
    <2> DEFINE m == e.node
               k == seqNo[m]
    <2>1. m \in Node /\ e.at \in Nat
        BY DEF IInv, TypeOK, Timer
    <2>2. /\ seqNo' = [seqNo EXCEPT ![m] = @ + 1] /\ k \in Nat
          /\ seen' = [seen EXCEPT ![m] = @ \cup {<<m, k>>}]
          /\ numRcvd' = numRcvd
        BY <1>1, <1>4, <2>1, NewHeaderType DEF Send, IInv
    <2> HIDE DEF m, k
    <2>3. Received(n)' = Received(n)
        BY <1>1, <2>1, <2>2 DEF Received
    <2>4. /\ seqNo' \in [Node -> Nat] /\ seqNo'[m] = k + 1 /\ seqNo[m] = k
          /\ \A s \in Node \ {m} : seqNo'[s] = seqNo[s]
        BY <1>1, <2>1, <2>2 DEF k
    <2>5. \A p : p \in PacketsOfOthers(n)' <=>
              \E s \in Node \ {n}, j \in Nat : p = <<s, j>> /\ j < seqNo'[s]
        <3>1. \A p : p \in PacketsOfOthers(n)' <=>
                  \E s \in Node \ {n} : p \in {s} \X (0 .. seqNo'[s] - 1)
            BY DEF PacketsOfOthers
        <3>2. ASSUME NEW p, NEW s \in Node \ {n}
              PROVE  p \in {s} \X (0 .. seqNo'[s] - 1) <=>
                         \E j \in Nat : p = <<s, j>> /\ j < seqNo'[s]
            <4>1. seqNo'[s] \in Nat
                BY <2>4
            <4>2. \A j : j \in 0 .. seqNo'[s] - 1 <=> j \in Nat /\ j < seqNo'[s]
                BY <4>1
            <4> QED BY <4>2
        <3> QED BY <3>1, <3>2
    <2>6. PacketsOfOthers(n)' \subseteq PacketsOfOthers(n) \cup {<<m, k>>}
        <3> SUFFICES ASSUME NEW p \in PacketsOfOthers(n)', p # <<m, k>>
                     PROVE  p \in PacketsOfOthers(n)
            OBVIOUS
        <3>1. PICK s \in Node \ {n}, j \in Nat : p = <<s, j>> /\ j < seqNo'[s]
            BY <2>5
        <3>2. j < seqNo[s]
            <4>1. CASE s = m
                BY <2>2, <2>4, <3>1, <4>1
            <4>2. CASE s # m
                BY <2>4, <3>1, <4>2
            <4> QED BY <4>1, <4>2
        <3> QED BY <1>1, <3>1, <3>2, PacketsMember
    <2>7. IsFiniteSet(PacketsOfOthers(n)')
        BY <1>2, <2>6, FS_AddElement, FS_Subset
    <2> QED BY <1>2, <2>2, <2>3, <2>7
<1>5. ASSUME NEW f \in air, HandleReadNew(f)
      PROVE  /\ IsFiniteSet(PacketsOfOthers(n)')
             /\ IsFiniteSet(Received(n)')
             /\ numRcvd'[n] <= Cardinality(Received(n)')
    <2> DEFINE m == f.node
               s == f.hdr.src
               id == Id(f.hdr)
    <2>1. f \in Frame /\ m \in Node /\ s # m /\ id[1] = s
        BY <1>5, ReadIInv DEF IInv, TypeOK, Frame, Id
    <2>2. /\ seqNo' = seqNo /\ id \notin seen[m]
          /\ seen' = [seen EXCEPT ![m] = @ \cup {id}]
          /\ numRcvd' = [numRcvd EXCEPT ![m] = @ + 1]
        BY <1>5, <2>1, CountReceptionType DEF HandleReadNew, IInv
    <2>3. PacketsOfOthers(n)' = PacketsOfOthers(n)
        BY <2>2 DEF PacketsOfOthers
    <2> HIDE DEF m, s, id
    <2>4. CASE n = m
        <3>1. Received(n)' = Received(n) \cup {id} /\ id \notin Received(n)
            BY <1>1, <2>1, <2>2, <2>4 DEF Received
        <3>2. /\ IsFiniteSet(Received(n)')
              /\ Cardinality(Received(n)') = Cardinality(Received(n)) + 1
            BY <1>2, <3>1, FS_AddElement
        <3>3. numRcvd'[n] = numRcvd[n] + 1 /\ numRcvd[n] \in Nat
            BY <1>1, <2>2, <2>4
        <3> QED BY <1>2, <2>3, <3>2, <3>3
    <2>5. CASE n # m
        <3>1. Received(n)' = Received(n) /\ numRcvd'[n] = numRcvd[n]
            BY <1>1, <2>2, <2>5 DEF Received
        <3> QED BY <1>2, <2>3, <3>1
    <2> QED BY <2>4, <2>5
<1>6. ASSUME NEW e \in timers, ResetStats(e)
      PROVE  UNCHANGED <<seqNo, seen>> /\ numRcvd'[n] \in {numRcvd[n], 0}
    BY <1>1, <1>6 DEF ResetStats
<1> QED BY <1>3, <1>4, <1>5, <1>6 DEF Next, vars, StartApplication,
        StopApplication, Forward, ForwardNothing, HandleReadAgain, Ignore,
        appVars, statVars

\* A node counts a packet as received at most once, and none of its own.
THEOREM NothingIsCountedTwice == Spec => []NothingCountedTwice
<1>1. Init => CountInv
    <2> SUFFICES ASSUME Init, NEW n \in Node
                 PROVE  /\ IsFiniteSet(PacketsOfOthers(n))
                        /\ IsFiniteSet(Received(n))
                        /\ numRcvd[n] <= Cardinality(Received(n))
        BY DEF CountInv
    <2>1. Received(n) = {} /\ numRcvd[n] = 0 /\ seqNo \in [Node -> Nat]
        BY DEF Init, Received
    <2>2. \A s \in Node : seqNo[s] = 0
        BY DEF Init
    <2>3. \A p : p \notin PacketsOfOthers(n)
        BY <2>1, <2>2, PacketsMember
    <2>4. PacketsOfOthers(n) = {}
        BY <2>3
    <2> QED BY <2>1, <2>4, FS_EmptySet
<1>2. IInv /\ CountInv /\ [Next]_vars => CountInv'
    BY CountInvStep
<1>3. IInv /\ CountInv => NothingCountedTwice
    <2> SUFFICES ASSUME IInv, CountInv, NEW n \in Node
                 PROVE  numRcvd[n] <= Cardinality(PacketsOfOthers(n))
        BY DEF NothingCountedTwice
    <2>1. Received(n) \subseteq PacketsOfOthers(n)
        <3> SUFFICES ASSUME NEW id \in Received(n)
                     PROVE  id \in PacketsOfOthers(n)
            OBVIOUS
        <3>1. id \in PktId /\ id \in seen[n] /\ id[1] # n
            BY DEF Received, IInv, TypeOK
        <3>2. id = <<id[1], id[2]>> /\ id[1] \in Node /\ id[2] \in Nat
            BY <3>1 DEF PktId
        <3>3. id[2] < seqNo[id[1]]
            BY <3>1 DEF IInv, ListGenuine
        <3> QED BY <3>1, <3>2, <3>3, PacketsMember DEF IInv, TypeOK
    <2>2. /\ IsFiniteSet(PacketsOfOthers(n)) /\ IsFiniteSet(Received(n))
          /\ numRcvd[n] <= Cardinality(Received(n))
        BY DEF CountInv
    <2>3. /\ Cardinality(Received(n)) <= Cardinality(PacketsOfOthers(n))
          /\ Cardinality(Received(n)) \in Nat
          /\ Cardinality(PacketsOfOthers(n)) \in Nat
          /\ numRcvd[n] \in Nat
        BY <2>1, <2>2, FS_Subset, FS_CardinalityType DEF IInv, TypeOK
    <2> QED BY <2>2, <2>3
<1> QED BY <1>1, <1>2, <1>3, PureInvariant, PTL DEF Spec

-----------------------------------------------------------------------------
(* The hop limit *)

\* A set of numbers that contains 0 and with every number the next one
\* contains all: induction, over a set.
LEMMA Induction ==
    ASSUME NEW S \in SUBSET Nat, 0 \in S, \A k \in S : k + 1 \in S
    PROVE  S = Nat
<1> SUFFICES ASSUME Nat \ S # {} PROVE FALSE
    OBVIOUS
<1> DEFINE R == {p \in Nat \X Nat : p[1] < p[2]}
           T == Nat \ S
<1>1. IsWellFoundedOn(R, Nat)
    <2>1. R = OpToRel(<, Nat)
        BY DEF OpToRel
    <2> QED BY <2>1, NatLessThanWellFounded
<1>2. \E k \in T : \A m \in T : ~ (<<m, k>> \in R)
    BY <1>1, WFMin
<1>3. PICK k \in T : \A m \in T : ~ (<<m, k>> \in R)
    BY <1>2
<1>4. \A m \in T : ~ (m < k)
    BY <1>3
<1> QED BY <1>4

\* The walks of k steps along links or in place.
Walk(k) ==
    {p \in [0 .. k -> Node] :
        \A i \in 0 .. k - 1 : p[i] = p[i + 1] \/ <<p[i], p[i + 1]>> \in Link}

\* Such a walk leads from a to b.
Leads(k, a, b) == \E p \in Walk(k) : p[0] = a /\ p[k] = b

\* The ends of such walks satisfy the equation that defines Hops.
LEMMA WalkEnds ==
    ASSUME NEW k \in Nat, NEW a \in Node, NEW b \in Node
    PROVE  /\ Leads(0, a, b) <=> a = b
           /\ Leads(k + 1, a, b) <=>
                  \/ Leads(k, a, b)
                  \/ \E m \in Node : Leads(k, a, m) /\ <<m, b>> \in Link
<1>1. Leads(0, a, b) <=> a = b
    <2>1. ASSUME a = b
          PROVE  Leads(0, a, b)
        <3>1. [i \in 0 .. 0 |-> a] \in Walk(0)
            BY DEF Walk
        <3> QED BY <2>1, <3>1 DEF Leads
    <2> QED BY <2>1 DEF Leads
<1>2. ASSUME Leads(k + 1, a, b)
      PROVE  \E m \in Node : Leads(k, a, m) /\ (m = b \/ <<m, b>> \in Link)
    <2>1. PICK p \in Walk(k + 1) : p[0] = a /\ p[k + 1] = b
        BY <1>2 DEF Leads
    <2> DEFINE q == [i \in 0 .. k |-> p[i]]
    <2>2. q \in Walk(k) /\ q[0] = a /\ q[k] = p[k] /\ p[k] \in Node
        BY <2>1 DEF Walk
    <2>3. p[k] = b \/ <<p[k], b>> \in Link
        BY <2>1 DEF Walk
    <2> QED BY <2>2, <2>3 DEF Leads
<1>3. ASSUME NEW m \in Node, Leads(k, a, m), m = b \/ <<m, b>> \in Link
      PROVE  Leads(k + 1, a, b)
    <2>1. PICK q \in Walk(k) : q[0] = a /\ q[k] = m
        BY <1>3 DEF Leads
    <2> DEFINE p == [i \in 0 .. k + 1 |-> IF i = k + 1 THEN b ELSE q[i]]
    <2>2. p[0] = a /\ p[k + 1] = b
        BY <2>1
    <2>3. p \in [0 .. k + 1 -> Node]
        BY <2>1 DEF Walk
    <2>4. ASSUME NEW i \in 0 .. k
          PROVE  p[i] = p[i + 1] \/ <<p[i], p[i + 1]>> \in Link
        <3>1. CASE i = k
            BY <1>3, <2>1, <3>1
        <3>2. CASE i # k
            BY <2>1, <3>2 DEF Walk
        <3> QED BY <3>1, <3>2
    <2> HIDE DEF p
    <2>5. (k + 1) - 1 = k
        OBVIOUS
    <2>6. p \in Walk(k + 1)
        BY <2>3, <2>4, <2>5 DEF Walk
    <2> QED BY <2>2, <2>6 DEF Leads
<1> QED BY <1>1, <1>2, <1>3, Zenon

\* Hops is what its recursive definition says.
LEMMA HopsDef ==
    /\ Hops[0] = {<<n, n>> : n \in Node}
    /\ \A k \in Nat :
           Hops[k + 1] = Hops[k] \cup
               {j \in Node \X Node : \E m \in Node : /\ <<j[1], m>> \in Hops[k]
                                                   /\ <<m, j[2]>> \in Link}
<1> DEFINE Ends == [k \in Nat |->
                       {j \in Node \X Node : Leads(k, j[1], j[2])}]
           Body(H, k) ==
               IF k = 0 THEN {<<n, n>> : n \in Node}
               ELSE H[k - 1] \cup
                    {j \in Node \X Node :
                        \E m \in Node : /\ <<j[1], m>> \in H[k - 1]
                                        /\ <<m, j[2]>> \in Link}
<1>1. ASSUME NEW k \in Nat
      PROVE  Ends[k] = Body(Ends, k)
    <2>1. CASE k = 0
        <3>1. \A j \in Node \X Node : j \in Ends[0] <=> j[1] = j[2]
            BY WalkEnds
        <3>2. \A j : j \in {<<n, n>> : n \in Node} <=>
                         j \in Node \X Node /\ j[1] = j[2]
            OBVIOUS
        <3>3. Ends[0] \subseteq Node \X Node
            OBVIOUS
        <3> QED BY <2>1, <3>1, <3>2, <3>3
    <2>2. CASE k # 0
        <3>1. PICK l \in Nat : k = l + 1
            <4>1. k - 1 \in Nat /\ k = (k - 1) + 1
                BY <2>2
            <4> QED BY <4>1
        <3>2. \A a, b \in Node :
                  /\ <<a, b>> \in Ends[l] <=> Leads(l, a, b)
                  /\ <<a, b>> \in Ends[l + 1] <=> Leads(l + 1, a, b)
            OBVIOUS
        <3> HIDE DEF Ends
        <3>3. \A a, b \in Node :
                  <<a, b>> \in Ends[l + 1] <=>
                      \/ <<a, b>> \in Ends[l]
                      \/ \E m \in Node : <<a, m>> \in Ends[l] /\ <<m, b>> \in Link
            BY <3>2, WalkEnds
        <3>4. Ends[l] \subseteq Node \X Node /\ Ends[l + 1] \subseteq Node \X Node
            BY DEF Ends
        <3>5. Ends[l + 1] = Ends[l] \cup
                  {j \in Node \X Node : \E m \in Node :
                       <<j[1], m>> \in Ends[l] /\ <<m, j[2]>> \in Link}
            BY <3>3, <3>4
        <3>6. k - 1 = l /\ k # 0
            BY <3>1
        <3> QED BY <3>1, <3>5, <3>6
    <2> QED BY <2>1, <2>2
<1>2. Ends = [k \in Nat |-> Body(Ends, k)]
    <2>1. Ends = [k \in Nat |-> Ends[k]]
        OBVIOUS
    <2> HIDE DEF Ends, Body
    <2> QED BY <1>1, <2>1
<1>3. Hops = [k \in Nat |-> Body(Hops, k)]
    <2> HIDE DEF Ends
    <2>1. \E H : H = [k \in Nat |-> Body(H, k)]
        BY <1>2, Zenon
    <2> QED BY <2>1, Zenon DEF Hops
<1>4. \A k \in Nat : k + 1 \in Nat /\ k + 1 # 0 /\ (k + 1) - 1 = k
    OBVIOUS
<1> HIDE DEF Ends
<1>5. \A k \in Nat : Hops[k] = Body(Hops, k)
    <2> HIDE DEF Body
    <2> QED BY <1>3
<1>6. Hops[0] = {<<n, n>> : n \in Node}
    BY <1>5
<1>7. ASSUME NEW k \in Nat
      PROVE  Hops[k + 1] = Hops[k] \cup
                 {j \in Node \X Node : \E m \in Node : /\ <<j[1], m>> \in Hops[k]
                                                     /\ <<m, j[2]>> \in Link}
    <2>1. Hops[k + 1] = Body(Hops, k + 1)
        BY <1>4, <1>5
    <2> QED BY <1>4, <2>1
<1> QED BY <1>6, <1>7

\* Who is within some hops is within more.
LEMMA HopsMonotonic ==
    ASSUME NEW k \in Nat, NEW m \in Nat, k <= m
    PROVE  Hops[k] \subseteq Hops[m]
<1> DEFINE S == {d \in Nat : Hops[k] \subseteq Hops[k + d]}
<1>1. 0 \in S
    OBVIOUS
<1>2. ASSUME NEW d \in S PROVE d + 1 \in S
    <2>1. Hops[k + d] \subseteq Hops[(k + d) + 1]
        BY HopsDef
    <2>2. (k + d) + 1 = k + (d + 1)
        OBVIOUS
    <2> QED BY <2>1, <2>2
<1>3. S = Nat
    <2> HIDE DEF S
    <2> QED BY <1>1, <1>2, Induction DEF S
<1>4. m - k \in S /\ k + (m - k) = m
    BY <1>3
<1> QED BY <1>4

\* A copy on the air has made fewer hops than the limit and is one hop farther
\* from its source when it arrives; a node's own copy has counted the hop to it.
TravelInv ==
    /\ WithinHopLimit
    /\ \A f \in air :
           /\ f.hdr.hops + 1 <= HopLimit
           /\ <<f.hdr.src, f.node>> \in Hops[f.hdr.hops + 1]
    /\ \A c \in pending :
           /\ c.hdr.hops + 1 <= HopLimit
           /\ <<c.hdr.src, c.node>> \in Hops[c.hdr.hops]

\* The limit allows a first hop.
LEMMA HopLimitType == HopLimit \in Nat /\ 1 <= HopLimit /\ TTL <= HopLimit
BY PureAssumption DEF HopLimit

\* One hop more along a link.
LEMMA OneHop ==
    ASSUME NEW k \in Nat, NEW s \in Node, NEW m \in Node, NEW n \in Node,
           <<s, m>> \in Hops[k], <<m, n>> \in Link
    PROVE  <<s, n>> \in Hops[k + 1]
<1>1. <<s, n>> \in {j \in Node \X Node :
                       \E q \in Node : /\ <<j[1], q>> \in Hops[k]
                                       /\ <<q, j[2]>> \in Link}
    OBVIOUS
<1> QED BY <1>1, HopsDef

\* Every action preserves that packets have travelled as their hops say.
LEMMA TravelStep == IInv /\ TravelInv /\ [Next]_vars => TravelInv'
<1> SUFFICES ASSUME IInv, TravelInv, [Next]_vars
             PROVE  TravelInv'
    OBVIOUS
<1>1. ASSUME air' \subseteq air, pending' \subseteq pending,
             lastReceived' = lastReceived
      PROVE  TravelInv'
    BY <1>1 DEF TravelInv, WithinHopLimit
<1>2. ASSUME NEW e \in timers, Send(e)
      PROVE  TravelInv'
    <2> DEFINE n == e.node
               hdr == NewHeader(n, e.at)
    <2>1. n \in Node /\ e.at \in Nat
        BY DEF IInv, TypeOK, Timer
    <2>2. hdr \in Header /\ hdr.src = n /\ hdr.hops = 0
        <3>1. pos[n] \in Pos /\ Cell[pos[n]] \in Pos
            BY <2>1, SpaceAssumption DEF IInv, TypeOK
        <3> QED BY <2>1, <3>1, NewHeaderType DEF IInv, NewHeader, Encoded
    <2>3. /\ Transmit(n, hdr, "send", e.at)
          /\ UNCHANGED <<pending, lastReceived>>
        BY <1>2 DEF Send
    <2> HIDE DEF n, hdr
    <2>4. /\ air' \subseteq Frame
          /\ \A f \in air' \ air :
                 f.hdr = hdr /\ f.node # n /\ <<n, f.node>> \in Link
        BY <2>1, <2>2, <2>3, TransmitFrames DEF IInv, OwnSeen
    <2>5. <<n, n>> \in Hops[0]
        BY <2>1, HopsDef
    <2>6. ASSUME NEW f \in air' \ air
          PROVE  /\ f.hdr.hops + 1 <= HopLimit
                 /\ <<f.hdr.src, f.node>> \in Hops[f.hdr.hops + 1]
        <3>1. f.node \in Node
            BY <2>4 DEF Frame
        <3>2. <<n, f.node>> \in Hops[0 + 1]
            BY <2>1, <2>4, <2>5, <3>1, OneHop
        <3> QED BY <2>2, <2>4, <3>2, HopLimitType
    <2> QED BY <2>3, <2>6 DEF TravelInv, WithinHopLimit
<1>3. ASSUME NEW c \in pending, Forward(c)
      PROVE  TravelInv'
    <2>1. /\ c.node \in Node /\ c.at \in Nat /\ c.hdr \in Header
          /\ c.hdr.src \in Node /\ c.hdr.hops \in Nat
        BY DEF IInv, TypeOK, Callback, Header
    <2>2. /\ Transmit(c.node, c.hdr, "forward", c.at)
          /\ pending' = pending \ {c} /\ lastReceived' = lastReceived
        BY <1>3 DEF Forward, Release
    <2>3. /\ air' \subseteq Frame
          /\ \A f \in air' \ air :
                 f.hdr = c.hdr /\ f.node # c.node /\ <<c.node, f.node>> \in Link
        BY <2>1, <2>2, TransmitFrames DEF IInv, OwnSeen
    <2>4. /\ c.hdr.hops + 1 <= HopLimit
          /\ <<c.hdr.src, c.node>> \in Hops[c.hdr.hops]
        BY DEF TravelInv
    <2>5. ASSUME NEW f \in air' \ air
          PROVE  /\ f.hdr.hops + 1 <= HopLimit
                 /\ <<f.hdr.src, f.node>> \in Hops[f.hdr.hops + 1]
        <3>1. f.node \in Node
            BY <2>3 DEF Frame
        <3> QED BY <2>1, <2>3, <2>4, <3>1, OneHop
    <2> QED BY <2>2, <2>5 DEF TravelInv, WithinHopLimit
<1>4. ASSUME NEW f \in air, HandleReadNew(f)
      PROVE  TravelInv'
    <2>1. /\ f \in Frame /\ f.node \in Node /\ f.hdr \in Header
          /\ f.hdr.src \in Node /\ f.hdr.hops \in Nat /\ f.hdr.ts \in Nat
        BY DEF IInv, TypeOK, Frame, Header
    <2>2. /\ f.hdr.hops + 1 <= HopLimit
          /\ <<f.hdr.src, f.node>> \in Hops[f.hdr.hops + 1]
        BY DEF TravelInv
    <2>3. /\ air' \subseteq air
          /\ lastReceived' =
                 [lastReceived EXCEPT ![f.node][f.hdr.src] = f.hdr.ts]
        BY <1>4, <2>1, CountReceptionType DEF HandleReadNew, Arrive, IInv
    <2>4. WithinHopLimit'
        <3>1. <<f.hdr.src, f.node>> \in Hops[HopLimit]
            BY <2>1, <2>2, HopsMonotonic, HopLimitType
        <3>2. \A n, s \in Node :
                  lastReceived'[n][s] # Absent =>
                      lastReceived[n][s] # Absent \/ (n = f.node /\ s = f.hdr.src)
            BY <2>1, <2>3 DEF IInv, TypeOK
        <3> QED BY <3>1, <3>2 DEF TravelInv, WithinHopLimit, Hops, HopLimit, Link
    <2>5. ASSUME NEW c \in pending' \ pending
          PROVE  /\ c.hdr.hops + 1 <= HopLimit
                 /\ <<c.hdr.src, c.node>> \in Hops[c.hdr.hops]
        <3>1. MayTravel(f)
            BY <1>4, <2>5 DEF HandleReadNew
        <3>2. c.hdr = Relayed(f) /\ c.node = f.node
            BY <1>4, <2>5, <3>1 DEF HandleReadNew
        <3>3. Relayed(f).hops = f.hdr.hops + 1 /\ Relayed(f).src = f.hdr.src
            BY <2>1, SpaceAssumption DEF Relayed, Encoded, Header
        <3>4. f.hdr.hops + 1 + 1 <= HopLimit
            BY <2>1, <3>1, <3>3, HopLimitType, PureAssumption DEF MayTravel
        <3> QED BY <2>2, <3>2, <3>3, <3>4
    <2> QED BY <2>3, <2>4, <2>5 DEF TravelInv
<1> QED BY <1>1, <1>2, <1>3, <1>4 DEF Next, vars, networkVars, appVars,
        StartApplication, StopApplication, ResetStats, ForwardNothing,
        HandleReadAgain, Ignore, OpenSocket, CloseSocket, Release, Arrive,
        Drop, Move

\* A node only hears of a source that is within as many hops as the attribute
\* TTL says.
THEOREM HopLimitHolds == Spec => []WithinHopLimit
<1>1. Init => TravelInv
    <2> SUFFICES ASSUME Init PROVE TravelInv
        OBVIOUS
    <2>1. \A n, s \in Node : lastReceived[n][s] = Absent
        BY DEF Init
    <2> QED BY <2>1 DEF Init, NetworkInit, TravelInv, WithinHopLimit
<1>2. IInv /\ TravelInv /\ [Next]_vars => TravelInv'
    BY TravelStep
<1>3. TravelInv => WithinHopLimit
    BY DEF TravelInv
<1> QED BY <1>1, <1>2, <1>3, PureInvariant, PTL DEF Spec

-----------------------------------------------------------------------------
(* Refinement *)

\* The first packet sent announces its source, a first reception discovers
\* one, and no other step changes what is known.
LEMMA DiscoveryStep == IInv /\ [Next]_vars => [Discovery!Next]_Known
<1> SUFFICES ASSUME IInv, [Next]_vars
             PROVE  Discovery!Next \/ Known' = Known
    OBVIOUS
<1>1. CASE UNCHANGED <<seqNo, lastReceived>>
    BY <1>1 DEF Known
<1>2. ASSUME NEW n \in Node, NEW s \in Node,
             Known' = [Known EXCEPT ![n] = @ \cup {s}], s \in Known[n]
      PROVE  Known' = Known
    <2>1. Known[n] \cup {s} = Known[n]
        BY <1>2
    <2>2. Known = [m \in Node |-> Known[m]]
        BY DEF Known
    <2> QED BY <1>2, <2>1, <2>2
<1>3. ASSUME NEW e \in timers, Send(e)
      PROVE  Discovery!Next \/ Known' = Known
    <2> DEFINE n == e.node
    <2>1. n \in Node /\ seqNo[n] \in Nat /\ seqNo \in [Node -> Nat]
        BY DEF IInv, TypeOK, Timer
    <2>2. seqNo' = [seqNo EXCEPT ![n] = @ + 1] /\ lastReceived' = lastReceived
        BY <1>3 DEF Send
    <2> HIDE DEF n
    <2>3. /\ seqNo'[n] > 0
          /\ \A m \in Node \ {n} : seqNo'[m] = seqNo[m]
        BY <2>1, <2>2
    <2>4. \A m \in Node :
              Known'[m] = IF m = n THEN Known[m] \cup {n} ELSE Known[m]
        BY <2>1, <2>2, <2>3 DEF Known
    <2>5. Known' = [Known EXCEPT ![n] = @ \cup {n}]
        BY <2>4 DEF Known
    <2> QED BY <1>2, <2>1, <2>5 DEF Discovery!Next, Discovery!Announce
<1>4. ASSUME NEW f \in air, HandleReadNew(f)
      PROVE  Discovery!Next \/ Known' = Known
    <2> DEFINE n == f.node
               s == f.hdr.src
               m == f.hdr.lastHop
    <2>1. /\ f \in Frame /\ n \in Node /\ s \in Node /\ m \in Node
          /\ f.hdr.ts \in Nat /\ f.hdr.seq \in Nat
        BY DEF IInv, TypeOK, Frame, Header
    <2>2. /\ seqNo' = seqNo
          /\ lastReceived' = [lastReceived EXCEPT ![n][s] = f.hdr.ts]
        BY <1>4, <2>1, CountReceptionType DEF HandleReadNew, IInv
    <2>3. Id(f.hdr) \in seen[m] /\ n # m /\ <<m, n>> \in Link
        BY DEF IInv, PacketsGenuine
    <2>4. Id(f.hdr)[1] = s /\ Id(f.hdr)[2] \in Nat
        BY <2>1 DEF Id
    <2>5. /\ Id(f.hdr)[2] < seqNo[s] /\ seqNo[s] \in Nat
          /\ s # m => lastReceived[m][s] # Absent
        BY <2>1, <2>3, <2>4 DEF IInv, ListGenuine, TypeOK
    <2>6. f.hdr.ts # Absent
        BY <2>1, PureAssumption
    <2>7. lastReceived \in [Node -> [Node -> Nat \cup {Absent}]]
        BY DEF IInv, TypeOK
    <2> DEFINE ts == f.hdr.ts
    <2> HIDE DEF n, s, m, ts
    <2>8. s \in Known[m]
        <3>1. seqNo[s] > 0
            BY <2>4, <2>5
        <3> QED BY <2>1, <2>5, <3>1 DEF Known
    <2>9. \A k, r \in Node :
              lastReceived'[k][r] # Absent <=>
                  lastReceived[k][r] # Absent \/ (k = n /\ r = s)
        BY <2>1, <2>2, <2>6, <2>7
    <2>10. \A k \in Node :
              Known'[k] = IF k = n THEN Known[k] \cup {s} ELSE Known[k]
        BY <2>1, <2>2, <2>9 DEF Known
    <2>11. Known' = [Known EXCEPT ![n] = @ \cup {s}]
        BY <2>10 DEF Known
    <2> QED BY <1>2, <2>1, <2>3, <2>8, <2>11
            DEF Discovery!Next, Discovery!Discover
<1> QED BY <1>1, <1>3, <1>4 DEF Next, vars, appVars, StartApplication,
        StopApplication, ResetStats, Forward, ForwardNothing,
        HandleReadAgain, Ignore

\* Pure flooding implements node discovery.
THEOREM PureImplementsDiscovery == Spec => DiscoversNodes
<1>1. Init => Discovery!Init
    BY DEF Init, Discovery!Init, Known
<1>2. IInv /\ [Next]_vars => [Discovery!Next]_Known
    BY DiscoveryStep
<1> QED BY <1>1, <1>2, PureInvariant, PTL
        DEF Spec, DiscoversNodes, Discovery!Spec

=============================================================================
