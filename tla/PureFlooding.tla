----------------------------- MODULE PureFlooding -----------------------------
(***************************************************************************)
(* PureFloodingApp: every node forwards every packet it hears for the      *)
(* first time after a random delay, with a given probability and as long   *)
(* as the packet has made fewer hops than the limit.                       *)
(***************************************************************************)
EXTENDS FloodingNetwork

CONSTANTS
    TTL,          \* the attribute TTL, m_ttl
    Delays,       \* the ticks jitter->GetValue() can amount to
    Draws,        \* the outcomes of GetValue() <= m_forwardingProbability
    AoiThreshold, \* m_aoiThreshold
    AoiRange,     \* the 509.003 m within which the age is sampled
    Absent        \* no entry in lastReceived

ASSUME PureAssumption ==
    /\ TTL \in Nat
    /\ Delays \subseteq Nat
    /\ Draws \subseteq BOOLEAN
    /\ AoiThreshold \in Nat
    /\ AoiRange \in Nat
    /\ Absent \notin Nat

VARIABLES
    seqNo,        \* seqNo[n]
    seen,         \* seen[n]: seenSeqNos
    lastReceived, \* lastReceived[n][s]
    seenNodes,    \* seenNodes[n]
    numInTime,    \* numInTime[n]: numUpdatesReceivedInTime
    numLate,      \* numLate[n]: numUpdatesReceivedLate
    numSent,      \* numSent[n]
    numRcvd,      \* numRcvd[n]: numReceived
    numFwd,       \* numFwd[n]: numForwarded
    fwdTrace      \* the calls of m_fwdTrace

statVars == <<seenNodes, numInTime, numLate, numSent, numRcvd, numFwd>>
appVars == <<seqNo, seen, lastReceived, statVars, fwdTrace>>
vars == <<networkVars, appVars>>

-----------------------------------------------------------------------------
(* Packets, callbacks and logs *)

PktId == Node \X Nat

\* PureFloodingHeader
Header == [src : Node, seq : Nat, hops : Nat, lastHop : Node, start : Pos,
           ts : Nat]

\* What an encoded PureFloodingHeader keeps: the starting point is written in
\* whole metres.
Encoded(hdr) == [hdr EXCEPT !.start = Cell[@]]

\* pkt_id
Id(h) == <<h.src, h.seq>>

Frame == [node : Node, hdr : Header, via : {"send", "forward"}, at : Nat]

\* A scheduled Forward(packet).
Callback == [node : Node, hdr : Header, at : Nat]

\* One line of the log: node forwarded packet <<src, seq>>.
TraceRow == [node : Node, src : Node, seq : Nat, at : Nat]

-----------------------------------------------------------------------------
Init ==
    /\ NetworkInit
    /\ seqNo = [n \in Node |-> 0]
    /\ seen = [n \in Node |-> {}]
    /\ lastReceived = [n \in Node |-> [s \in Node |-> Absent]]
    /\ seenNodes = [n \in Node |-> {}]
    /\ numInTime = [n \in Node |-> 0]
    /\ numLate = [n \in Node |-> 0]
    /\ numSent = [n \in Node |-> 0]
    /\ numRcvd = [n \in Node |-> 0]
    /\ numFwd = [n \in Node |-> 0]
    /\ fwdTrace = {}

StartApplication(e) == OpenSocket(e) /\ UNCHANGED appVars

StopApplication(e) == CloseSocket(e) /\ UNCHANGED appVars

\* Mutant: the nodes seen survive the reset.
ResetStatsPartly(e) ==
    /\ Expire(e, "reset")
    /\ timers' = timers \ {e}
    /\ numInTime' = [numInTime EXCEPT ![e.node] = 0]
    /\ numLate' = [numLate EXCEPT ![e.node] = 0]
    /\ numSent' = [numSent EXCEPT ![e.node] = 0]
    /\ numRcvd' = [numRcvd EXCEPT ![e.node] = 0]
    /\ numFwd' = [numFwd EXCEPT ![e.node] = 0]
    /\ UNCHANGED <<air, pending, pos, life, seqNo, seen, lastReceived,
                   seenNodes, fwdTrace>>

\* The statistics start anew; what the protocol remembers stays.
ResetStats(e) ==
    /\ Expire(e, "reset")
    /\ timers' = timers \ {e}
    /\ seenNodes' = [seenNodes EXCEPT ![e.node] = {}]
    /\ numInTime' = [numInTime EXCEPT ![e.node] = 0]
    /\ numLate' = [numLate EXCEPT ![e.node] = 0]
    /\ numSent' = [numSent EXCEPT ![e.node] = 0]
    /\ numRcvd' = [numRcvd EXCEPT ![e.node] = 0]
    /\ numFwd' = [numFwd EXCEPT ![e.node] = 0]
    /\ UNCHANGED <<air, pending, pos, life, seqNo, seen, lastReceived,
                   fwdTrace>>

\* The packet that node n creates at tick t.
NewHeader(n, t) ==
    Encoded([src |-> n, seq |-> seqNo[n], hops |-> 0, lastHop |-> n,
             start |-> pos[n], ts |-> t])

Send(e) ==
    LET n == e.node
        hdr == NewHeader(n, e.at)
    IN  /\ Expire(e, "send")
        /\ seqNo' = [seqNo EXCEPT ![n] = @ + 1]
        /\ numSent' = [numSent EXCEPT ![n] = @ + 1]
        /\ Transmit(n, hdr, "send", e.at)
        /\ ScheduleTransmit(e)
        /\ seen' = [seen EXCEPT ![n] = @ \cup {Id(hdr)}]
        /\ UNCHANGED <<pending, pos, life, lastReceived, seenNodes, numInTime,
                       numLate, numRcvd, numFwd, fwdTrace>>

\* The draw is for forwarding.
Forward(c) ==
    /\ Release(c)
    /\ TRUE \in Draws
    /\ Transmit(c.node, c.hdr, "forward", c.at)
    /\ fwdTrace' = fwdTrace \cup
           {[node |-> c.node, src |-> c.hdr.src, seq |-> c.hdr.seq,
             at |-> c.at]}
    /\ numFwd' = [numFwd EXCEPT ![c.node] = @ + 1]
    /\ UNCHANGED <<timers, pos, life, seqNo, seen, lastReceived, seenNodes,
                   numInTime, numLate, numSent, numRcvd>>

\* The draw is against forwarding.
ForwardNothing(c) ==
    /\ Release(c)
    /\ FALSE \in Draws
    /\ UNCHANGED <<timers, air, pos, life>>
    /\ UNCHANGED appVars

-----------------------------------------------------------------------------
(* HandleRead *)

\* Mutant: hops are counted down, as a time to live is.
RelayedCountdown(f) == Encoded([f.hdr EXCEPT !.hops = @ - 1, !.lastHop = f.node])

\* The packet of frame f as its receiver will forward it.
Relayed(f) == Encoded([f.hdr EXCEPT !.hops = @ + 1, !.lastHop = f.node])

\* Mutant: the reception is entered under the hop the packet came from.
CountReceptionOfLastHop(f) ==
    /\ lastReceived' =
           [lastReceived EXCEPT ![f.node][f.hdr.lastHop] = f.hdr.ts]
    /\ seenNodes' = [seenNodes EXCEPT ![f.node] = @ \cup {f.hdr.lastHop}]
    /\ numRcvd' = [numRcvd EXCEPT ![f.node] = @ + 1]
    /\ UNCHANGED <<numInTime, numLate, numSent, numFwd>>

\* A first sight is counted; the age of the source's previous packet is
\* sampled if there was one and the receiver is near the source.
CountReception(f) ==
    LET n == f.node
        s == f.hdr.src
        last == lastReceived[n][s]
        sampled == last # Absent /\ Dist[f.hdr.start][pos[n]] <= AoiRange
        old == sampled /\ f.at - last > AoiThreshold
    IN  /\ seenNodes' = [seenNodes EXCEPT ![n] = @ \cup {s}]
        /\ numRcvd' = [numRcvd EXCEPT ![n] = @ + 1]
        /\ numLate' = [numLate EXCEPT ![n] = @ + IF old THEN 1 ELSE 0]
        /\ numInTime' = [numInTime EXCEPT ![n] =
                            @ + IF sampled /\ ~old THEN 1 ELSE 0]
        /\ lastReceived' = [lastReceived EXCEPT ![n][s] = f.hdr.ts]
        /\ UNCHANGED <<numSent, numFwd>>

\* Mutant: the receiver's own transmission is counted as well.
MayTravelOneLess(f) == f.hdr.hops + 2 < TTL

\* Mutant: the limit is compared with the hops made so far.
MayTravelOneMore(f) == f.hdr.hops < TTL

\* The hop count, raised by one for the receiver, is below the limit.
MayTravel(f) == Relayed(f).hops < TTL

\* Mutant: a packet that may not travel on is not entered in the list.
HandleReadNewMarkedLate(f) ==
    /\ Arrive(f)
    /\ Id(f.hdr) \notin seen[f.node]
    /\ CountReception(f)
    /\ IF MayTravel(f)
       THEN /\ \E d \in Delays :
                   pending' = pending \cup
                       {[node |-> f.node, hdr |-> Relayed(f), at |-> f.at + d]}
            /\ seen' = [seen EXCEPT ![f.node] = @ \cup {Id(f.hdr)}]
       ELSE UNCHANGED <<pending, seen>>
    /\ UNCHANGED <<timers, pos, life, seqNo, fwdTrace>>

\* A packet heard for the first time.
HandleReadNew(f) ==
    /\ Arrive(f)
    /\ Id(f.hdr) \notin seen[f.node]
    /\ CountReception(f)
    /\ IF MayTravel(f)
       THEN \E d \in Delays :
                pending' = pending \cup
                    {[node |-> f.node, hdr |-> Relayed(f), at |-> f.at + d]}
       ELSE UNCHANGED pending
    /\ seen' = [seen EXCEPT ![f.node] = @ \cup {Id(f.hdr)}]
    /\ UNCHANGED <<timers, pos, life, seqNo, fwdTrace>>

\* A packet heard before, or sent by the node itself.
HandleReadAgain(f) ==
    /\ Arrive(f)
    /\ Id(f.hdr) \in seen[f.node]
    /\ UNCHANGED <<timers, pending, pos, life, appVars>>

\* A frame that finds no socket.
Ignore(f) == Drop(f) /\ UNCHANGED appVars

Next ==
    \/ \E e \in timers :
           \/ StartApplication(e)
           \/ StopApplication(e)
           \/ ResetStats(e)
           \/ Send(e)
    \/ \E c \in pending : Forward(c) \/ ForwardNothing(c)
    \/ \E f \in air :
           \/ HandleReadNew(f)
           \/ HandleReadAgain(f)
           \/ Ignore(f)
    \/ \E n \in Node : Move(n) /\ UNCHANGED appVars

Spec == Init /\ [][Next]_vars

\* Simulator::Run processes events for as long as there is one.
FairSpec == Spec /\ WF_vars(Next)

-----------------------------------------------------------------------------
(* Properties *)

TypeOK ==
    /\ now \in Nat
    /\ timers \subseteq Timer
    /\ air \subseteq Frame
    /\ pending \subseteq Callback
    /\ pos \in [Node -> Pos]
    /\ life \in [Node -> {"idle", "up", "closed"}]
    /\ seqNo \in [Node -> Nat]
    /\ seen \in [Node -> SUBSET PktId]
    /\ lastReceived \in [Node -> [Node -> Nat \cup {Absent}]]
    /\ seenNodes \in [Node -> SUBSET Node]
    /\ numInTime \in [Node -> Nat]
    /\ numLate \in [Node -> Nat]
    /\ numSent \in [Node -> Nat]
    /\ numRcvd \in [Node -> Nat]
    /\ numFwd \in [Node -> Nat]
    /\ fwdTrace \subseteq TraceRow

\* n can hear m from some of their points.
Link == {k \in Node \X Node :
            \E p \in Track[k[1]], q \in Track[k[2]] : Dist[p][q] <= RadioRange}

\* The pairs <<m, n>> with at most k hops from m to n.
Hops[k \in Nat] ==
    IF k = 0 THEN {<<n, n>> : n \in Node}
    ELSE Hops[k - 1] \cup
         {j \in Node \X Node : \E m \in Node : /\ <<j[1], m>> \in Hops[k - 1]
                                             /\ <<m, j[2]>> \in Link}

\* The hops that the limit allows: there is always a first one.
HopLimit == IF TTL = 0 THEN 1 ELSE TTL

\* "Max Hop count of a packet": whichever copies are counted, delayed and
\* forwarded on the way, a node only hears of a source that is within as
\* many hops as the attribute TTL says.
WithinHopLimit ==
    \A n, s \in Node :
        lastReceived[n][s] # Absent => <<s, n>> \in Hops[HopLimit]

\* The packets that nodes other than n have sent.
PacketsOfOthers(n) ==
    UNION {{s} \X (0 .. seqNo[s] - 1) : s \in Node \ {n}}

\* A node counts a packet as received at most once, over whichever relays
\* and with whatever hop counts its copies come, and none of its own: the
\* delivery ratio is at most 1.
NothingCountedTwice ==
    \A n \in Node : numRcvd[n] <= Cardinality(PacketsOfOthers(n))

\* The statistics go with receptions, also across the reset in mid-run: every
\* node counted as seen has been received, and so has every sample.
StatisticsAddUp ==
    \A n \in Node :
        /\ Cardinality(seenNodes[n]) <= numRcvd[n]
        /\ numInTime[n] + numLate[n] <= numRcvd[n]

\* Whom a node knows of: itself once it has sent, and the sources received.
Known ==
    [n \in Node |-> {s \in Node : lastReceived[n][s] # Absent} \cup
                    (IF seqNo[n] > 0 THEN {n} ELSE {})]

Discovery == INSTANCE NodeDiscovery WITH known <- Known

\* Pure flooding implements node discovery: a node is only entered in
\* lastReceived after it has sent, one reception at a time, at a node that
\* can hear one that knows it, and nobody is forgotten.
DiscoversNodes == Discovery!Spec

\* Once a source has sent, every node within the limit hears of it.  Claimed
\* where no frame is lost, every draw is for forwarding and no path bypasses
\* a shorter one: where one does, a copy that has made more hops can come
\* first, and the later one is not forwarded.
FloodReaches ==
    \A s, n \in Node :
        <<s, n>> \in Hops[HopLimit] => (seqNo[s] > 0 ~> s \in Known[n])

=============================================================================
