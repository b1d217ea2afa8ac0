-------------------------- MODULE RateDecayFlooding --------------------------
(***************************************************************************)
(* RateDecayFloodingApp: position updates only, with contention delay,     *)
(* suppression of packets heard twice, and a rate at which a node relays a *)
(* source that decays with the hops the source is away.                    *)
(***************************************************************************)
EXTENDS FloodingNetwork, Sequences

CONSTANTS
    MaxDistance,  \* the attribute MaxDistance
    Jitter,       \* the attribute ForwardingJitter
    Growth,       \* Growth[h + 1] = pow(h + 1, m_decayFactor) after h hops
    AoiThreshold, \* m_aoiThreshold
    AoiRange,     \* the 509.003 m within which the age is sampled
    Absent,       \* no entry in a map of times
    NoPacket      \* no entry in packetsToForward

ASSUME RateDecayAssumption ==
    /\ MaxDistance \in Nat \ {0}
    /\ Jitter \in Nat
    /\ Growth \in Seq(Nat \ {0})
    /\ Growth # <<>>
    /\ AoiThreshold \in Nat
    /\ AoiRange \in Nat
    /\ Absent \notin Nat

VARIABLES
    seqNo,         \* seqNo[n]
    seen,          \* seen[n]: seenSeqNos
    twice,         \* twice[n]: twiceSeenSeqNos
    lastForwarded, \* lastForwarded[n][s]
    buffer,        \* buffer[n][s]: packetsToForward, one packet per source
    lastReceived,  \* lastReceived[n][s]
    seenNodes,     \* seenNodes[n]
    numInTime,     \* numInTime[n]: numUpdatesReceivedInTime
    numLate,       \* numLate[n]: numUpdatesReceivedLate
    numSent,       \* numSent[n]
    numRcvd,       \* numRcvd[n]: numReceived
    numFwd,        \* numFwd[n]: numForwarded
    fwdTrace       \* the calls of m_fwdTrace, as the scenario logs them

statVars == <<seenNodes, numInTime, numLate, numSent, numRcvd, numFwd>>
appVars == <<seqNo, seen, twice, lastForwarded, buffer, lastReceived,
             statVars, fwdTrace>>
vars == <<networkVars, appVars>>

-----------------------------------------------------------------------------
(* Packets, callbacks and logs *)

PktId == Node \X Nat

\* The fields of the header that this application uses.
Header == [src : Node, seq : Nat, hops : Nat, lastHop : Node,
           start : Pos, last : Pos, ts : Nat]

ASSUME NoPacketAssumption == NoPacket \notin Header

\* Mutant: the id is made of the hop the packet came from.
IdByLastHop(h) == <<h.lastHop, h.seq>>

\* pkt_id
Id(h) == <<h.src, h.seq>>

\* via: the sequence number of the packet whose Send or callback it was.
Frame == [node : Node, hdr : Header, via : Nat, at : Nat]

\* The arguments of a scheduled Forward(src, pkt_id).  Not an argument: hops,
\* which the delay was computed from.
Callback == [node : Node, src : Node, seq : Nat, hops : Nat, at : Nat]

\* One line of the forwarding log: node transmitted packet <<src, sent>> when
\* its callback for packet <<src, seq>> ran.
TraceRow == [node : Node, src : Node, seq : Nat, hops : Nat, sent : Nat,
             at : Nat]

-----------------------------------------------------------------------------
(* Quantities *)

\* How much farther from the origin of frame f its receiver is than the hop
\* before.
Advance(f) ==
    Dist[f.hdr.start][pos[f.node]] - Dist[f.hdr.start][f.hdr.last]

\* m_forwardingJitter scaled by 1 - x / m_maxDistance, at least 0.
ContentionDelay(x) ==
    IF x >= MaxDistance THEN 0
    ELSE (Jitter * (MaxDistance - x)) \div MaxDistance

\* m_sendInterval * pow(numHops + 1, m_decayFactor); beyond the table, its
\* last entry.
Spacing(hops) ==
    SendInterval *
        Growth[IF hops + 1 <= Len(Growth) THEN hops + 1 ELSE Len(Growth)]

\* Mutant: the interval without the decay over hops.
RateDelayUndecayed(f) ==
    LET last == lastForwarded[f.node][f.hdr.src]
    IN  IF last = Absent \/ last + SendInterval < f.at THEN 0
        ELSE last + SendInterval - f.at

\* How long the rate decay holds back the packet of frame f.
RateDelay(f) ==
    LET last == lastForwarded[f.node][f.hdr.src]
    IN  IF last = Absent THEN 0
        ELSE LET wait == last + Spacing(f.hdr.hops) - f.at
             IN  IF wait < 0 THEN 0 ELSE wait

-----------------------------------------------------------------------------
Init ==
    /\ NetworkInit
    /\ seqNo = [n \in Node |-> 0]
    /\ seen = [n \in Node |-> {}]
    /\ twice = [n \in Node |-> {}]
    /\ lastForwarded = [n \in Node |-> [s \in Node |-> Absent]]
    /\ buffer = [n \in Node |-> [s \in Node |-> NoPacket]]
    /\ lastReceived = [n \in Node |-> [s \in Node |-> Absent]]
    /\ seenNodes = [n \in Node |-> {}]
    /\ numInTime = [n \in Node |-> 0]
    /\ numLate = [n \in Node |-> 0]
    /\ numSent = [n \in Node |-> 0]
    /\ numRcvd = [n \in Node |-> 0]
    /\ numFwd = [n \in Node |-> 0]
    /\ fwdTrace = {}

StartApplication(e) == OpenSocket(e) /\ UNCHANGED appVars

StopApplication(e) == CloseSocket(e) /\ UNCHANGED appVars

\* The statistics start anew; what the protocol remembers stays.
ResetStats(e) ==
    /\ Expire(e, "reset")
    /\ timers' = timers \ {e}
    /\ seenNodes' = [seenNodes EXCEPT ![e.node] = {}]
    /\ numInTime' = [numInTime EXCEPT ![e.node] = 0]
    /\ numLate' = [numLate EXCEPT ![e.node] = 0]
    /\ numSent' = [numSent EXCEPT ![e.node] = 0]
    /\ numRcvd' = [numRcvd EXCEPT ![e.node] = 0]
    /\ numFwd' = [numFwd EXCEPT ![e.node] = 0]
    /\ UNCHANGED <<air, pending, pos, life, seqNo, seen, twice,
                   lastForwarded, buffer, lastReceived, fwdTrace>>

\* The packet that node n creates at tick t.
NewHeader(n, t) ==
    Wire([src |-> n, seq |-> seqNo[n], hops |-> 0, lastHop |-> n,
          start |-> pos[n], last |-> pos[n], ts |-> t])

Send(e) ==
    LET n == e.node
        hdr == NewHeader(n, e.at)
    IN  /\ Expire(e, "send")
        /\ seqNo' = [seqNo EXCEPT ![n] = @ + 1]
        /\ numSent' = [numSent EXCEPT ![n] = @ + 1]
        /\ Transmit(n, hdr, hdr.seq, e.at)
        /\ ScheduleTransmit(e)
        /\ seen' = [seen EXCEPT ![n] = @ \cup {Id(hdr)}]
        /\ UNCHANGED <<pending, pos, life, twice, lastForwarded, buffer,
                       lastReceived, seenNodes, numInTime, numLate, numRcvd,
                       numFwd, fwdTrace>>

-----------------------------------------------------------------------------
(* Forward *)

Suppressed(c) == <<c.src, c.seq>> \in twice[c.node]

\* Whatever packet of the source packetsToForward holds now goes out.
Forward(c) ==
    LET packet == buffer[c.node][c.src]
    IN  /\ Release(c)
        /\ ~Suppressed(c)
        /\ Transmit(c.node, packet, c.seq, c.at)
        /\ fwdTrace' = fwdTrace \cup
               {[node |-> c.node, src |-> c.src, seq |-> c.seq,
                 hops |-> c.hops, sent |-> packet.seq, at |-> c.at]}
        /\ numFwd' = [numFwd EXCEPT ![c.node] = @ + 1]
        /\ UNCHANGED <<timers, pos, life, seqNo, seen, twice, lastForwarded,
                       buffer, lastReceived, seenNodes, numInTime, numLate,
                       numSent, numRcvd>>

ForwardNothing(c) ==
    /\ Release(c)
    /\ Suppressed(c)
    /\ UNCHANGED <<timers, air, pos, life>>
    /\ UNCHANGED appVars

-----------------------------------------------------------------------------
(* HandleRead *)

\* Mutant: hops are counted down, as a time to live is.
RelayedCountdown(f) ==
    Wire([f.hdr EXCEPT !.hops = @ - 1, !.lastHop = f.node,
                       !.last = pos[f.node]])

\* The packet of frame f as its receiver will forward it.
Relayed(f) ==
    Wire([f.hdr EXCEPT !.hops = @ + 1, !.lastHop = f.node,
                       !.last = pos[f.node]])

\* Mutant: the reception is entered under the hop the packet came from.
CountReceptionOfLastHop(f) ==
    /\ lastReceived' =
           [lastReceived EXCEPT ![f.node][f.hdr.lastHop] = f.hdr.ts]
    /\ seenNodes' = [seenNodes EXCEPT ![f.node] = @ \cup {f.hdr.lastHop}]
    /\ numRcvd' = [numRcvd EXCEPT ![f.node] = @ + 1]
    /\ UNCHANGED <<numInTime, numLate, numSent, numFwd>>

\* A first sight is counted; the age of the source's previous packet is
\* sampled if there was one and the receiver is near the source.
CountReception(f) ==
    LET n == f.node
        s == f.hdr.src
        last == lastReceived[n][s]
        sampled == last # Absent /\ Dist[f.hdr.start][pos[n]] <= AoiRange
        old == sampled /\ f.at - last > AoiThreshold
    IN  /\ seenNodes' = [seenNodes EXCEPT ![n] = @ \cup {s}]
        /\ numRcvd' = [numRcvd EXCEPT ![n] = @ + 1]
        /\ numLate' = [numLate EXCEPT ![n] = @ + IF old THEN 1 ELSE 0]
        /\ numInTime' = [numInTime EXCEPT ![n] =
                            @ + IF sampled /\ ~old THEN 1 ELSE 0]
        /\ lastReceived' = [lastReceived EXCEPT ![n][s] = f.hdr.ts]
        /\ UNCHANGED <<numSent, numFwd>>

\* A packet seen for the first time is stored, counted and marked; its
\* callback is scheduled only at a receiver farther from the origin than the
\* hop before, but the rate decay takes its turn in any case.
HandleReadNew(f) ==
    LET n == f.node
        s == f.hdr.src
        rate == RateDelay(f)
    IN  /\ Arrive(f)
        /\ Id(f.hdr) \notin seen[n]
        /\ CountReception(f)
        /\ buffer' = [buffer EXCEPT ![n][s] = Relayed(f)]
        /\ pending' = IF Advance(f) > 0
                      THEN pending \cup
                          {[node |-> n, src |-> s, seq |-> f.hdr.seq,
                            hops |-> f.hdr.hops,
                            at |-> f.at + ContentionDelay(Advance(f)) + rate]}
                      ELSE pending
        /\ seen' = [seen EXCEPT ![n] = @ \cup {Id(f.hdr)}]
        /\ lastForwarded' = [lastForwarded EXCEPT ![n][s] = f.at + rate]
        /\ UNCHANGED <<timers, pos, life, seqNo, twice, fwdTrace>>

\* A packet seen before: noted as heard twice.
HandleReadAgain(f) ==
    /\ Arrive(f)
    /\ Id(f.hdr) \in seen[f.node]
    /\ twice' = [twice EXCEPT ![f.node] = @ \cup {Id(f.hdr)}]
    /\ UNCHANGED <<timers, pending, pos, life, seqNo, seen, lastForwarded,
                   buffer, lastReceived, statVars, fwdTrace>>

\* A frame that finds no socket.
Ignore(f) == Drop(f) /\ UNCHANGED appVars

-----------------------------------------------------------------------------
Next ==
    \/ \E e \in timers :
           \/ StartApplication(e)
           \/ StopApplication(e)
           \/ ResetStats(e)
           \/ Send(e)
    \/ \E c \in pending : Forward(c) \/ ForwardNothing(c)
    \/ \E f \in air :
           \/ HandleReadNew(f)
           \/ HandleReadAgain(f)
           \/ Ignore(f)
    \/ \E n \in Node : Move(n) /\ UNCHANGED appVars

Spec == Init /\ [][Next]_vars

-----------------------------------------------------------------------------
(* Properties *)

TypeOK ==
    /\ now \in Nat
    /\ timers \subseteq Timer
    /\ air \subseteq Frame
    /\ pending \subseteq Callback
    /\ pos \in [Node -> Pos]
    /\ life \in [Node -> {"idle", "up", "closed"}]
    /\ seqNo \in [Node -> Nat]
    /\ seen \in [Node -> SUBSET PktId]
    /\ twice \in [Node -> SUBSET PktId]
    /\ lastForwarded \in [Node -> [Node -> Nat \cup {Absent}]]
    /\ buffer \in [Node -> [Node -> Header \cup {NoPacket}]]
    /\ lastReceived \in [Node -> [Node -> Nat \cup {Absent}]]
    /\ seenNodes \in [Node -> SUBSET Node]
    /\ numInTime \in [Node -> Nat]
    /\ numLate \in [Node -> Nat]
    /\ numSent \in [Node -> Nat]
    /\ numRcvd \in [Node -> Nat]
    /\ numFwd \in [Node -> Nat]
    /\ fwdTrace \subseteq TraceRow

\* Row r2 keeps the distance from row r1 that its own hop count demands.
HeldBack(r1, r2) == r2.at - r1.at >= Spacing(r2.hops) - Jitter

\* The rate decay: of two transmissions that a node owes to packets of one
\* source, the later one comes after the earlier by the interval that the
\* hops of its packet demand, up to the contention delay, however bunched the
\* packets arrived and whichever of them were suppressed in between.
RateDecays ==
    \A r1, r2 \in fwdTrace :
        r1.node = r2.node /\ r1.src = r2.src /\ r1 # r2 =>
            HeldBack(r1, r2) \/ HeldBack(r2, r1)

\* No packet comes to a node twice on its way: whatever the positions, and
\* although a callback may send a packet that was stored without an advance,
\* a copy has made fewer hops than there are nodes.
HopsBounded ==
    \A h \in {f.hdr : f \in air} \cup
             {buffer[k[1]][k[2]] :
                 k \in {j \in Node \X Node : buffer[j[1]][j[2]] # NoPacket}} :
        h.hops < Cardinality(Node)

\* n can hear m from some of their points.
Link == {k \in Node \X Node :
            \E p \in Track[k[1]], q \in Track[k[2]] : Dist[p][q] <= RadioRange}

\* Whom a node knows of: itself once it has sent, and the sources received.
Known ==
    [n \in Node |-> {s \in Node : lastReceived[n][s] # Absent} \cup
                    (IF seqNo[n] > 0 THEN {n} ELSE {})]

Discovery == INSTANCE NodeDiscovery WITH known <- Known

\* Rate-decay flooding implements node discovery: a node is only entered in
\* lastReceived after it has sent, one reception at a time, at a node that
\* can hear one that knows it, and nobody is forgotten.
DiscoversNodes == Discovery!Spec

=============================================================================
