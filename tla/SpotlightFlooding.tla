-------------------------- MODULE SpotlightFlooding --------------------------
(***************************************************************************)
(* SLFFloodingApp: spotlight flooding.  A node broadcasts a packet every   *)
(* SendInterval.  Packets of nodes that have a ground station are control  *)
(* packets: a relay that brings one closer to its station by at least      *)
(* Threshold forwards it at once ("high"), every other relay handles it,   *)
(* and every position update (dest = 0), with contention delay, rate decay *)
(* and suppression of packets heard twice.                                 *)
(***************************************************************************)
EXTENDS FloodingNetwork, Sequences

CONSTANTS
    GroundStations,    \* m_groundStationIds
    NodesPerContainer, \* the attribute nodesPerContainer
    Threshold,         \* the attribute Threshold
    MaxDistance,       \* the attribute MaxDistance
    Jitter,            \* the attribute ForwardingJitter
    Growth,            \* Growth[h + 1] = pow(h + 1, m_decayFactor) after h hops
    AoiThreshold,      \* m_aoiThreshold
    AoiRange,          \* the 509.003 m within which the age is sampled
    ControlBurst,      \* the 8 packets that share a control sequence number
    Absent,            \* no entry in a map of times
    NoPacket           \* no entry in packetsToForward

ASSUME SpotlightAssumption ==
    /\ GroundStations \in Seq(Node)
    /\ NodesPerContainer \in Nat \ {0}
    /\ Threshold \in Nat
    /\ MaxDistance \in Nat \ {0}
    /\ Jitter \in Nat
    /\ Growth \in Seq(Nat \ {0})
    /\ Growth # <<>>
    /\ AoiThreshold \in Nat
    /\ AoiRange \in Nat
    /\ ControlBurst \in Nat \ {0}
    /\ Absent \notin Nat

VARIABLES
    seqNo,         \* seqNo[n]
    ctrl,          \* ctrl[n]: controlPacketCounter and controlSeqNo
    seen,          \* seen[n]: seenSeqNos
    twice,         \* twice[n]: twiceSeenSeqNos
    dup,           \* dup[n]: duplicateSeenSeqNos
    lastForwarded, \* lastForwarded[n][s]
    buffer,        \* buffer[n][s]: packetsToForward, one packet per source
    lastReceived,  \* lastReceived[n][s]
    seenNodes,     \* seenNodes[n]
    numInTime,     \* numInTime[n]: numUpdatesReceivedInTime
    numLate,       \* numLate[n]: numUpdatesReceivedLate
    numSent,       \* numSent[n]
    numRcvd,       \* numRcvd[n]: numReceived
    numFwd,        \* numFwd[n]: numForwarded
    fwdTrace       \* the calls of m_fwdTrace, as the scenario logs them

statVars == <<seenNodes, numInTime, numLate, numSent, numRcvd, numFwd>>
appVars == <<seqNo, ctrl, seen, twice, dup, lastForwarded, buffer,
             lastReceived, statVars, fwdTrace>>
vars == <<networkVars, appVars>>

-----------------------------------------------------------------------------
(* Packets, callbacks and logs *)

PktId == Node \X Nat

Header == [src : Node, dest : Node, seq : Nat, cseq : Nat, hops : Nat,
           lastHop : Node, start : Pos, last : Pos, ts : Nat]

ASSUME NoPacketAssumption == NoPacket \notin Header

\* Mutant: the id is made of the hop the packet came from.
IdByLastHop(h) == <<h.lastHop, h.seq>>

\* pkt_id
Id(h) == <<h.src, h.seq>>

\* Which call transmitted: Send of the packet, or its Forward callback.
Via == [seq : Nat, high : BOOLEAN]

Frame == [node : Node, hdr : Header, via : Via, at : Nat]

\* The arguments of a scheduled Forward(src, pkt_id, a, dest); of a, only
\* whether a >= m_threshold matters there.
Callback == [node : Node, src : Node, seq : Nat, high : BOOLEAN,
             dest : Node, at : Nat]

\* One line of the forwarding log: node transmitted packet <<src, sent>> when
\* its callback for packet <<src, seq>> ran.
TraceRow == [node : Node, src : Node, seq : Nat, high : BOOLEAN, sent : Nat,
             at : Nat]

-----------------------------------------------------------------------------
(* Quantities *)

IsGround(n) == \E k \in 1..Len(GroundStations) : GroundStations[k] = n

\* The station of the container that node n belongs to; 0, also a node id,
\* stands for none.
DestOf(n) ==
    LET k == (n \div NodesPerContainer) + 1
    IN  IF k <= 3 /\ k <= Len(GroundStations) THEN GroundStations[k] ELSE 0

\* How much farther from the origin of frame f its receiver is than the hop
\* before.
Advance(f) ==
    Dist[f.hdr.start][pos[f.node]] - Dist[f.hdr.start][f.hdr.last]

\* How much closer to the destination the receiver is than the hop before
\* (with dest = 0, to node 0).
Gain(f) ==
    Dist[f.hdr.last][pos[f.hdr.dest]] - Dist[pos[f.node]][pos[f.hdr.dest]]

High(f) == Gain(f) >= Threshold /\ f.hdr.dest # 0

\* m_forwardingJitter scaled by 1 - x / m_maxDistance, at least 0.
ContentionDelay(x) ==
    IF x >= MaxDistance THEN 0
    ELSE (Jitter * (MaxDistance - x)) \div MaxDistance

\* m_forwardingJitter times a uniform variable of [0, 0.27].
SpotJitter == 0 .. ((27 * Jitter) \div 100)

\* Mutant: the factor without the interval.
SpacingWithoutInterval(hops) ==
    Growth[IF hops + 1 <= Len(Growth) THEN hops + 1 ELSE Len(Growth)]

\* m_sendInterval * pow(numHops + 1, m_decayFactor); beyond the table, its
\* last entry.
Spacing(hops) ==
    SendInterval *
        Growth[IF hops + 1 <= Len(Growth) THEN hops + 1 ELSE Len(Growth)]

\* Mutant: a hold that is already over is not cut off at zero.
RateDelayUnclamped(f) ==
    LET last == lastForwarded[f.node][f.hdr.src]
    IN  IF last = Absent THEN 0 ELSE last + Spacing(f.hdr.hops) - f.at

\* How long the rate decay holds back the packet of frame f.
RateDelay(f) ==
    LET last == lastForwarded[f.node][f.hdr.src]
    IN  IF last = Absent THEN 0
        ELSE LET wait == last + Spacing(f.hdr.hops) - f.at
             IN  IF wait < 0 THEN 0 ELSE wait

-----------------------------------------------------------------------------
Init ==
    /\ NetworkInit
    /\ seqNo = [n \in Node |-> 0]
    /\ ctrl = [n \in Node |-> [count |-> 0, seq |-> 0]]
    /\ seen = [n \in Node |-> {}]
    /\ twice = [n \in Node |-> {}]
    /\ dup = [n \in Node |-> {}]
    /\ lastForwarded = [n \in Node |-> [s \in Node |-> Absent]]
    /\ buffer = [n \in Node |-> [s \in Node |-> NoPacket]]
    /\ lastReceived = [n \in Node |-> [s \in Node |-> Absent]]
    /\ seenNodes = [n \in Node |-> {}]
    /\ numInTime = [n \in Node |-> 0]
    /\ numLate = [n \in Node |-> 0]
    /\ numSent = [n \in Node |-> 0]
    /\ numRcvd = [n \in Node |-> 0]
    /\ numFwd = [n \in Node |-> 0]
    /\ fwdTrace = {}

StartApplication(e) == OpenSocket(e) /\ UNCHANGED appVars

StopApplication(e) == CloseSocket(e) /\ UNCHANGED appVars

\* Mutant: the samples of the age survive the reset.
ResetStatsPartly(e) ==
    /\ Expire(e, "reset")
    /\ timers' = timers \ {e}
    /\ seenNodes' = [seenNodes EXCEPT ![e.node] = {}]
    /\ numSent' = [numSent EXCEPT ![e.node] = 0]
    /\ numRcvd' = [numRcvd EXCEPT ![e.node] = 0]
    /\ numFwd' = [numFwd EXCEPT ![e.node] = 0]
    /\ UNCHANGED <<air, pending, pos, life, seqNo, ctrl, seen, twice, dup,
                   lastForwarded, buffer, lastReceived, numInTime, numLate,
                   fwdTrace>>

\* The statistics start anew; what the protocol remembers stays.
ResetStats(e) ==
    /\ Expire(e, "reset")
    /\ timers' = timers \ {e}
    /\ seenNodes' = [seenNodes EXCEPT ![e.node] = {}]
    /\ numInTime' = [numInTime EXCEPT ![e.node] = 0]
    /\ numLate' = [numLate EXCEPT ![e.node] = 0]
    /\ numSent' = [numSent EXCEPT ![e.node] = 0]
    /\ numRcvd' = [numRcvd EXCEPT ![e.node] = 0]
    /\ numFwd' = [numFwd EXCEPT ![e.node] = 0]
    /\ UNCHANGED <<air, pending, pos, life, seqNo, ctrl, seen, twice, dup,
                   lastForwarded, buffer, lastReceived, fwdTrace>>

-----------------------------------------------------------------------------
(* Send *)

\* Mutant: one packet too few for each control sequence number.
NextControlEarly(c) ==
    IF c.count + 1 >= ControlBurst THEN [count |-> 1, seq |-> c.seq + 1]
    ELSE [count |-> c.count + 1, seq |-> c.seq]

\* controlPacketCounter and controlSeqNo after one more packet.
NextControl(c) ==
    IF c.count + 1 > ControlBurst THEN [count |-> 1, seq |-> c.seq + 1]
    ELSE [count |-> c.count + 1, seq |-> c.seq]

\* The packet that node n creates at tick t.
NewHeader(n, t) ==
    Wire([src |-> n, dest |-> DestOf(n), seq |-> seqNo[n],
          cseq |-> NextControl(ctrl[n]).seq, hops |-> 0, lastHop |-> n,
          start |-> pos[n], last |-> pos[n], ts |-> t])

Send(e) ==
    LET n == e.node
        hdr == NewHeader(n, e.at)
    IN  /\ Expire(e, "send")
        /\ ~IsGround(n)
        /\ seqNo' = [seqNo EXCEPT ![n] = @ + 1]
        /\ ctrl' = [ctrl EXCEPT ![n] = NextControl(@)]
        /\ numSent' = [numSent EXCEPT ![n] = @ + 1]
        /\ Transmit(n, hdr, [seq |-> hdr.seq, high |-> FALSE], e.at)
        /\ ScheduleTransmit(e)
        /\ seen' = [seen EXCEPT ![n] = @ \cup {Id(hdr)}]
        /\ UNCHANGED <<pending, pos, life, twice, dup, lastForwarded, buffer,
                       lastReceived, seenNodes, numInTime, numLate, numRcvd,
                       numFwd, fwdTrace>>

\* A ground station only schedules its next Send.
GroundSend(e) ==
    /\ Expire(e, "send")
    /\ IsGround(e.node)
    /\ ScheduleTransmit(e)
    /\ UNCHANGED <<air, pending, pos, life>>
    /\ UNCHANGED appVars

-----------------------------------------------------------------------------
(* Forward *)

\* The transmission, its log line and its counter, whatever packet of the
\* source packetsToForward holds now.
ForwardPacket(c) ==
    LET packet == buffer[c.node][c.src]
    IN  /\ Transmit(c.node, packet, [seq |-> c.seq, high |-> c.high], c.at)
        /\ fwdTrace' = fwdTrace \cup
               {[node |-> c.node, src |-> c.src, seq |-> c.seq,
                 high |-> c.high, sent |-> packet.seq, at |-> c.at]}
        /\ numFwd' = [numFwd EXCEPT ![c.node] = @ + 1]
        /\ UNCHANGED <<seenNodes, numInTime, numLate, numSent, numRcvd>>

\* Mutant: a ground station forwards like any other node.
SuppressedByPacketOnly(c) ==
    \/ c.high /\ <<c.src, c.seq>> \in dup[c.node]
    \/ ~c.high /\ <<c.src, c.seq>> \in twice[c.node]

\* Mutant: Forward looks at seenSeqNos, which HandleRead has just extended.
SuppressedOnceSeen(c) ==
    \/ IsGround(c.node)
    \/ c.high /\ <<c.src, c.seq>> \in dup[c.node]
    \/ ~c.high /\ <<c.src, c.seq>> \in seen[c.node]

\* Mutant: the packet with a large gain is not looked up.
SuppressedLowOnly(c) ==
    \/ IsGround(c.node)
    \/ ~c.high /\ <<c.src, c.seq>> \in twice[c.node]

\* Forward returns without sending: at a ground station, for a packet with a
\* large gain that has gone out, for any other that has been heard twice.
Suppressed(c) ==
    \/ IsGround(c.node)
    \/ c.high /\ <<c.src, c.seq>> \in dup[c.node]
    \/ ~c.high /\ <<c.src, c.seq>> \in twice[c.node]

\* Mutant: only duplicateSeenSeqNos is extended.
ForwardHighUnmarked(c) ==
    /\ Release(c)
    /\ c.high /\ ~Suppressed(c)
    /\ ForwardPacket(c)
    /\ dup' = [dup EXCEPT ![c.node] = @ \cup {<<c.src, c.seq>>}]
    /\ UNCHANGED <<timers, pos, life, seqNo, ctrl, seen, twice,
                   lastForwarded, buffer, lastReceived>>

\* A control packet with a large gain goes out and is entered in all lists.
ForwardHigh(c) ==
    LET n == c.node
        id == <<c.src, c.seq>>
    IN  /\ Release(c)
        /\ c.high /\ ~Suppressed(c)
        /\ ForwardPacket(c)
        /\ dup' = [dup EXCEPT ![n] = @ \cup {id}]
        /\ seen' = [seen EXCEPT ![n] = @ \cup {id}]
        /\ twice' = [twice EXCEPT ![n] = @ \cup {id}]
        /\ UNCHANGED <<timers, pos, life, seqNo, ctrl, lastForwarded, buffer,
                       lastReceived>>

\* Every other packet goes out and is entered nowhere.
ForwardLow(c) ==
    /\ Release(c)
    /\ ~c.high /\ ~Suppressed(c)
    /\ ForwardPacket(c)
    /\ UNCHANGED <<timers, pos, life, seqNo, ctrl, seen, twice, dup,
                   lastForwarded, buffer, lastReceived>>

ForwardNothing(c) ==
    /\ Release(c)
    /\ Suppressed(c)
    /\ UNCHANGED <<timers, air, pos, life>>
    /\ UNCHANGED appVars

-----------------------------------------------------------------------------
(* HandleRead *)

\* Mutant: the relay enters its position as the starting point.
RelayedFromHere(f) ==
    Wire([f.hdr EXCEPT !.hops = @ + 1, !.lastHop = f.node,
                       !.start = pos[f.node], !.last = pos[f.node]])

\* Mutant: hops are counted down, as a time to live is.
RelayedCountdown(f) ==
    Wire([f.hdr EXCEPT !.hops = @ - 1, !.lastHop = f.node,
                       !.last = pos[f.node]])

\* The packet of frame f as its receiver will forward it.
Relayed(f) ==
    Wire([f.hdr EXCEPT !.hops = @ + 1, !.lastHop = f.node,
                       !.last = pos[f.node]])

\* Mutant: the reception is entered under the hop the packet came from.
CountReceptionOfLastHop(f) ==
    /\ lastReceived' =
           [lastReceived EXCEPT ![f.node][f.hdr.lastHop] = f.hdr.ts]
    /\ seenNodes' = [seenNodes EXCEPT ![f.node] = @ \cup {f.hdr.lastHop}]
    /\ numRcvd' = [numRcvd EXCEPT ![f.node] = @ + 1]
    /\ UNCHANGED <<numInTime, numLate, numSent, numFwd>>

\* A first sight is counted; the age of the source's previous packet is
\* sampled if there was one and the receiver is near the source.
CountReception(f) ==
    LET n == f.node
        s == f.hdr.src
        last == lastReceived[n][s]
        sampled == last # Absent /\ Dist[f.hdr.start][pos[n]] <= AoiRange
        old == sampled /\ f.at - last > AoiThreshold
    IN  /\ seenNodes' = [seenNodes EXCEPT ![n] = @ \cup {s}]
        /\ numRcvd' = [numRcvd EXCEPT ![n] = @ + 1]
        /\ numLate' = [numLate EXCEPT ![n] = @ + IF old THEN 1 ELSE 0]
        /\ numInTime' = [numInTime EXCEPT ![n] =
                            @ + IF sampled /\ ~old THEN 1 ELSE 0]
        /\ lastReceived' = [lastReceived EXCEPT ![n][s] = f.hdr.ts]
        /\ UNCHANGED <<numSent, numFwd>>

\* The Forward callback of frame f's packet, due after delay, is scheduled
\* only at a receiver farther from the origin than the hop before.
ScheduleForward(f, delay) ==
    pending' = IF Advance(f) > 0
               THEN pending \cup
                   {[node |-> f.node, src |-> f.hdr.src, seq |-> f.hdr.seq,
                     high |-> High(f), dest |-> f.hdr.dest,
                     at |-> f.at + delay]}
               ELSE pending

\* Mutant: the packet is stored under the hop it came from.
FirstSightByLastHop(f) ==
    /\ Arrive(f)
    /\ Id(f.hdr) \notin seen[f.node]
    /\ CountReception(f)
    /\ buffer' = [buffer EXCEPT ![f.node][f.hdr.lastHop] = Relayed(f)]
    /\ UNCHANGED <<timers, pos, life, seqNo, ctrl, twice, dup, fwdTrace>>

\* Common to every first sight of the packet of frame f.
FirstSight(f) ==
    /\ Arrive(f)
    /\ Id(f.hdr) \notin seen[f.node]
    /\ CountReception(f)
    /\ buffer' = [buffer EXCEPT ![f.node][f.hdr.src] = Relayed(f)]
    /\ UNCHANGED <<timers, pos, life, seqNo, ctrl, twice, dup, fwdTrace>>

\* A control packet with a large gain: forwarded after a short random delay.
\* It is marked as seen by Forward, not here.
HandleReadHigh(f) ==
    /\ High(f)
    /\ FirstSight(f)
    /\ \E delay \in SpotJitter : ScheduleForward(f, delay)
    /\ UNCHANGED <<seen, lastForwarded>>

\* A position update, or a control packet moving away from its station:
\* contention delay on top of the rate decay.
HandleReadAway(f) ==
    LET n == f.node
        rate == RateDelay(f)
    IN  /\ f.hdr.dest = 0 \/ Gain(f) < 0
        /\ FirstSight(f)
        /\ ScheduleForward(f, ContentionDelay(Advance(f)) + rate)
        /\ seen' = [seen EXCEPT ![n] = @ \cup {Id(f.hdr)}]
        /\ lastForwarded' = [lastForwarded EXCEPT ![n][f.hdr.src] = f.at + rate]

\* A control packet with a small gain: contention delay by the gain alone,
\* and nothing is noted of it where it is not forwarded.
HandleReadNear(f) ==
    LET n == f.node
        delay == ContentionDelay(Gain(f))
    IN  /\ f.hdr.dest # 0 /\ Gain(f) \in 0 .. Threshold - 1
        /\ FirstSight(f)
        /\ ScheduleForward(f, delay)
        /\ IF Advance(f) > 0
           THEN /\ seen' = [seen EXCEPT ![n] = @ \cup {Id(f.hdr)}]
                /\ lastForwarded' =
                       [lastForwarded EXCEPT ![n][f.hdr.src] = f.at + delay]
           ELSE UNCHANGED <<seen, lastForwarded>>

\* A packet seen before: noted as heard twice, except with a large gain.
HandleReadAgain(f) ==
    /\ Arrive(f)
    /\ Id(f.hdr) \in seen[f.node]
    /\ twice' = IF High(f) THEN twice
                ELSE [twice EXCEPT ![f.node] = @ \cup {Id(f.hdr)}]
    /\ UNCHANGED <<timers, pending, pos, life, seqNo, ctrl, seen, dup,
                   lastForwarded, buffer, lastReceived, statVars, fwdTrace>>

\* A frame that finds no socket.
Ignore(f) == Drop(f) /\ UNCHANGED appVars

\* The node moves, which the application does not notice.
Roam(n) == Move(n) /\ UNCHANGED appVars

-----------------------------------------------------------------------------
Next ==
    \/ \E e \in timers :
           \/ StartApplication(e)
           \/ StopApplication(e)
           \/ ResetStats(e)
           \/ Send(e)
           \/ GroundSend(e)
    \/ \E c \in pending :
           \/ ForwardHigh(c)
           \/ ForwardLow(c)
           \/ ForwardNothing(c)
    \/ \E f \in air :
           \/ HandleReadHigh(f)
           \/ HandleReadAway(f)
           \/ HandleReadNear(f)
           \/ HandleReadAgain(f)
           \/ Ignore(f)
    \/ \E n \in Node : Roam(n)

Spec == Init /\ [][Next]_vars

\* Simulator::Run processes events for as long as there is one.
FairSpec == Spec /\ WF_vars(Next)

-----------------------------------------------------------------------------
(* Properties *)

TypeOK ==
    /\ now \in Nat
    /\ timers \subseteq Timer
    /\ air \subseteq Frame
    /\ pending \subseteq Callback
    /\ pos \in [Node -> Pos]
    /\ life \in [Node -> {"idle", "up", "closed"}]
    /\ seqNo \in [Node -> Nat]
    /\ ctrl \in [Node -> [count : 0 .. ControlBurst, seq : Nat]]
    /\ seen \in [Node -> SUBSET PktId]
    /\ twice \in [Node -> SUBSET PktId]
    /\ dup \in [Node -> SUBSET PktId]
    /\ lastForwarded \in [Node -> [Node -> Nat \cup {Absent}]]
    /\ buffer \in [Node -> [Node -> Header \cup {NoPacket}]]
    /\ lastReceived \in [Node -> [Node -> Nat \cup {Absent}]]
    /\ seenNodes \in [Node -> SUBSET Node]
    /\ numInTime \in [Node -> Nat]
    /\ numLate \in [Node -> Nat]
    /\ numSent \in [Node -> Nat]
    /\ numRcvd \in [Node -> Nat]
    /\ numFwd \in [Node -> Nat]
    /\ fwdTrace \subseteq TraceRow

\* No handler schedules into the past, which ProcessOneEvent asserts of the
\* event it removes: a rate-decay hold that is over counts as zero.
NeverInThePast == \A e \in Agenda : e.at >= now

\* When a Forward callback runs, packetsToForward[src] holds a packet of that
\* source with the callback's destination: operator[] never makes up an empty
\* entry, whatever was received in between.
BufferReady ==
    \A c \in pending :
        LET packet == buffer[c.node][c.src]
        IN  /\ packet # NoPacket
            /\ packet.src = c.src
            /\ packet.dest = c.dest

\* A node never counts itself among the nodes it has heard of, although its
\* packets come back to it from every relay; so the scenario's P_D, a sum of
\* seenNodes over N * (N - 1), is at most 1.
NeverCountsItself == \A n \in Node : n \notin seenNodes[n]

\* Each callback that Forward lets through transmits once: although control
\* packets with a large gain are scheduled anew at every copy heard, no two
\* transmissions of a node are owed to the same packet in the same branch.
ReleaseOnce ==
    \A r1, r2 \in fwdTrace :
        /\ r1.node = r2.node
        /\ <<r1.src, r1.seq>> = <<r2.src, r2.seq>>
        /\ r1.high = r2.high
        => r1 = r2

\* A node releases two position updates of one source at least a send
\* interval apart, up to the contention delay, however bunched they arrive.
RelaySpacing ==
    \A r1, r2 \in fwdTrace :
        /\ r1.node = r2.node
        /\ r1.src = r2.src
        /\ DestOf(r1.src) = 0
        /\ r1 # r2
        => \/ r1.at - r2.at >= SendInterval - Jitter
           \/ r2.at - r1.at >= SendInterval - Jitter

\* The copies of packets on the air and in the nodes' buffers.
Copies ==
    {f.hdr : f \in air} \cup
    {buffer[k[1]][k[2]] :
        k \in {j \in Node \X Node : buffer[j[1]][j[2]] # NoPacket}}

\* However it travelled, every copy of a packet has the origin's time stamp,
\* starting point, destination and control number: what advance and the age
\* of information are computed from.
CopiesAgree ==
    \A g, h \in Copies :
        Id(g) = Id(h) =>
            /\ g.ts = h.ts
            /\ g.start = h.start
            /\ g.dest = h.dest
            /\ g.cseq = h.cseq

\* A ground station is a sink: whatever it receives, schedules and counts,
\* nothing on the air was transmitted by it.
GroundStationsSilent == \A f \in air : ~IsGround(f.hdr.lastHop)

\* The packets of a source are numbered in bursts: packet k carries control
\* number k / 8, wherever a copy of it is.
ControlNumbering == \A h \in Copies : h.cseq = h.seq \div ControlBurst

\* Each sample of the age goes with a counted reception, also across the
\* reset in mid-run: P_EX is a share of the receptions.
SamplesWithinReceptions ==
    \A n \in Node : numInTime[n] + numLate[n] <= numRcvd[n]

\* What went out with a large gain is suppressed in the other branch too, and
\* what is suppressed is never again a first sight.
SuppressionNested ==
    \A n \in Node : dup[n] \subseteq twice[n] /\ twice[n] \subseteq seen[n]

\* Once a source with a ground station has sent, its station hears of it.
\* Claimed where relays connect them, each farther from the source and closer
\* to the station, and no frame is lost.
ControlDelivered ==
    \A s \in Node :
        DestOf(s) # 0 =>
            (seqNo[s] > 0 ~> lastReceived[DestOf(s)][s] # Absent)

\* n can hear m from some of their points.
Link == {k \in Node \X Node :
            \E p \in Track[k[1]], q \in Track[k[2]] : Dist[p][q] <= RadioRange}

\* Whom a node knows of: itself once it has sent, and the sources received.
Known ==
    [n \in Node |-> {s \in Node : lastReceived[n][s] # Absent} \cup
                    (IF seqNo[n] > 0 THEN {n} ELSE {})]

Discovery == INSTANCE NodeDiscovery WITH known <- Known

\* Spotlight flooding implements node discovery: however packets are stored,
\* replaced and re-sent under other packets' callbacks, a node is only ever
\* entered in lastReceived after it has sent, one reception at a time, at a
\* node that can hear one that knows it; and nobody is forgotten.
DiscoversNodes == Discovery!Spec

\* The comments in Forward say of either low branch "If the packet is not
\* seen in twice seen, forward it": what goes out there has not been heard
\* twice.
TwiceSeenNotForwarded ==
    [][\A r \in fwdTrace' \ fwdTrace :
           ~r.high => <<r.src, r.sent>> \notin twice[r.node]]_vars

\* The comment on the marking in Forward's high branch: "Inorder to allow
\* every node to forward the packet one time".
ForwardOneTime ==
    \A r1, r2 \in fwdTrace :
        /\ r1.high
        /\ r1.node = r2.node
        /\ <<r1.src, r1.sent>> = <<r2.src, r2.sent>>
        => r1 = r2

=============================================================================
