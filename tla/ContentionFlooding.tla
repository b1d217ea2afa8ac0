-------------------------- MODULE ContentionFlooding --------------------------
(***************************************************************************)
(* ContentionBasedFloodingApp: every node that hears a packet for the      *)
(* first time waits before it forwards it, the shorter the farther it      *)
(* brings the packet, and gives up if it hears the packet again meanwhile. *)
(***************************************************************************)
EXTENDS FloodingNetwork

CONSTANTS
    MaxDistance, \* the attribute MaxDistance
    Jitter       \* the attribute ForwardingJitter

ASSUME ContentionAssumption ==
    /\ MaxDistance \in Nat \ {0}
    /\ Jitter \in Nat
    /\ ResetTime = 0 \* this application has no ResetStats

VARIABLES
    seqNo,   \* seqNo[n]
    seen,    \* seen[n]: seenSeqNos
    twice,   \* twice[n]: twiceSeenSeqNos
    fwdTrace \* the calls of m_fwdTrace

appVars == <<seqNo, seen, twice, fwdTrace>>
vars == <<networkVars, appVars>>

-----------------------------------------------------------------------------
(* Packets, callbacks and logs *)

PktId == Node \X Nat

\* The fields of ContentionBasedFloodingHeader that this application uses.
Header == [src : Node, seq : Nat, hops : Nat, lastHop : Node,
           start : Pos, last : Pos]

\* Mutant: the id is made of the hop the packet came from.
IdByLastHop(h) == <<h.lastHop, h.seq>>

\* pkt_id
Id(h) == <<h.src, h.seq>>

Frame == [node : Node, hdr : Header, via : {"send", "forward"}, at : Nat]

\* A scheduled Forward(packet, pkt_id), and when the packet was heard.
Callback == [node : Node, hdr : Header, heard : Nat, at : Nat]

\* One line of the log: node forwarded packet <<src, seq>>, first heard at
\* the tick heard.
TraceRow == [node : Node, src : Node, seq : Nat, heard : Nat, at : Nat]

-----------------------------------------------------------------------------
\* How much farther from the origin of frame f its receiver is than the hop
\* before.
Advance(f) ==
    Dist[f.hdr.start][pos[f.node]] - Dist[f.hdr.start][f.hdr.last]

\* Mutant: the nearest relay goes first.
ContentionDelayNearestFirst(x) ==
    IF x > MaxDistance THEN Jitter ELSE (Jitter * x) \div MaxDistance

\* m_forwardingJitter scaled by 1 - x / m_maxDistance; a negative scale
\* counts as 1.  Without an advance the delay exceeds the jitter.
ContentionDelay(x) ==
    IF x > MaxDistance THEN Jitter
    ELSE (Jitter * (MaxDistance - x)) \div MaxDistance

-----------------------------------------------------------------------------
Init ==
    /\ NetworkInit
    /\ seqNo = [n \in Node |-> 0]
    /\ seen = [n \in Node |-> {}]
    /\ twice = [n \in Node |-> {}]
    /\ fwdTrace = {}

StartApplication(e) == OpenSocket(e) /\ UNCHANGED appVars

StopApplication(e) == CloseSocket(e) /\ UNCHANGED appVars

\* The packet that node n creates.
NewHeader(n) ==
    Wire([src |-> n, seq |-> seqNo[n], hops |-> 0, lastHop |-> n,
          start |-> pos[n], last |-> pos[n]])

Send(e) ==
    LET n == e.node
        hdr == NewHeader(n)
    IN  /\ Expire(e, "send")
        /\ seqNo' = [seqNo EXCEPT ![n] = @ + 1]
        /\ Transmit(n, hdr, "send", e.at)
        /\ ScheduleTransmit(e)
        /\ seen' = [seen EXCEPT ![n] = @ \cup {Id(hdr)}]
        /\ UNCHANGED <<pending, pos, life, twice, fwdTrace>>

\* Mutant: the id is looked up under the node that forwards.
SuppressedByOwnId(c) == <<c.node, c.hdr.seq>> \in twice[c.node]

Suppressed(c) == Id(c.hdr) \in twice[c.node]

\* The packet that the callback carries goes out, and is logged also where
\* the socket has been closed.
Forward(c) ==
    /\ Release(c)
    /\ ~Suppressed(c)
    /\ Transmit(c.node, c.hdr, "forward", c.at)
    /\ fwdTrace' = fwdTrace \cup
           {[node |-> c.node, src |-> c.hdr.src, seq |-> c.hdr.seq,
             heard |-> c.heard, at |-> c.at]}
    /\ UNCHANGED <<timers, pos, life, seqNo, seen, twice>>

ForwardNothing(c) ==
    /\ Release(c)
    /\ Suppressed(c)
    /\ UNCHANGED <<timers, air, pos, life>>
    /\ UNCHANGED appVars

\* Mutant: hops are counted down, as a time to live is.
RelayedCountdown(f) ==
    Wire([f.hdr EXCEPT !.hops = @ - 1, !.lastHop = f.node,
                       !.last = pos[f.node]])

\* The packet of frame f as its receiver will forward it.
Relayed(f) ==
    Wire([f.hdr EXCEPT !.hops = @ + 1, !.lastHop = f.node,
                       !.last = pos[f.node]])

\* The callback of frame f's packet, whether it advances or not.
ScheduleForward(f) ==
    pending' = pending \cup
        {[node |-> f.node, hdr |-> Relayed(f), heard |-> f.at,
          at |-> f.at + ContentionDelay(Advance(f))]}

\* Mutant: a packet heard is only noted when it is heard again.
HandleReadNewUnmarked(f) ==
    /\ Arrive(f)
    /\ Id(f.hdr) \notin seen[f.node]
    /\ ScheduleForward(f)
    /\ UNCHANGED <<timers, pos, life, appVars>>

\* A packet heard for the first time.
HandleReadNew(f) ==
    /\ Arrive(f)
    /\ Id(f.hdr) \notin seen[f.node]
    /\ ScheduleForward(f)
    /\ seen' = [seen EXCEPT ![f.node] = @ \cup {Id(f.hdr)}]
    /\ UNCHANGED <<timers, pos, life, seqNo, twice, fwdTrace>>

\* A packet heard before, or sent by the node itself.
HandleReadAgain(f) ==
    /\ Arrive(f)
    /\ Id(f.hdr) \in seen[f.node]
    /\ twice' = [twice EXCEPT ![f.node] = @ \cup {Id(f.hdr)}]
    /\ UNCHANGED <<timers, pending, pos, life, seqNo, seen, fwdTrace>>

\* A frame that finds no socket.
Ignore(f) == Drop(f) /\ UNCHANGED appVars

Next ==
    \/ \E e \in timers :
           \/ StartApplication(e)
           \/ StopApplication(e)
           \/ Send(e)
    \/ \E c \in pending : Forward(c) \/ ForwardNothing(c)
    \/ \E f \in air :
           \/ HandleReadNew(f)
           \/ HandleReadAgain(f)
           \/ Ignore(f)
    \/ \E n \in Node : Move(n) /\ UNCHANGED appVars

Spec == Init /\ [][Next]_vars

\* Simulator::Run processes events for as long as there is one.
FairSpec == Spec /\ WF_vars(Next)

-----------------------------------------------------------------------------
(* Properties *)

TypeOK ==
    /\ now \in Nat
    /\ timers \subseteq Timer
    /\ air \subseteq Frame
    /\ pending \subseteq Callback
    /\ pos \in [Node -> Pos]
    /\ life \in [Node -> {"idle", "up", "closed"}]
    /\ seqNo \in [Node -> Nat]
    /\ seen \in [Node -> SUBSET PktId]
    /\ twice \in [Node -> SUBSET PktId]
    /\ fwdTrace \subseteq TraceRow

\* However often it hears a packet, a node forwards it at most once, and
\* never one of its own.
ForwardsOnce ==
    /\ \A r \in fwdTrace : r.node # r.src
    /\ \A r1, r2 \in fwdTrace :
           r1.node = r2.node /\ r1.src = r2.src /\ r1.seq = r2.seq => r1 = r2

\* The nodes that hear each other wherever they are.
AlwaysInRange(m, n) ==
    \A p \in Track[m], q \in Track[n] : Dist[p][q] <= RadioRange

\* The contention: where no frame is lost, a relay that had the packet when
\* another one within its range forwarded it does not forward it after that
\* copy has arrived.
RelaysYield ==
    \A r1, r2 \in fwdTrace :
        /\ ~Lossy
        /\ r1.node # r2.node
        /\ AlwaysInRange(r1.node, r2.node)
        /\ r1.src = r2.src /\ r1.seq = r2.seq
        /\ life[r1.node] = "up" /\ life[r2.node] = "up"
        /\ r2.heard <= r1.at
        => \E d \in AirTime : r2.at <= r1.at + d

\* n can hear m from some of their points.
Link == {k \in Node \X Node :
            \E p \in Track[k[1]], q \in Track[k[2]] : Dist[p][q] <= RadioRange}

\* Whom a node knows of: the sources of the packets on its list.
Known == [n \in Node |-> {s \in Node : \E id \in seen[n] : id[1] = s}]

Discovery == INSTANCE NodeDiscovery WITH known <- Known

\* Contention-based flooding implements node discovery: what a node has
\* heard of has sent, and came to it over nodes that had heard of it.
DiscoversNodes == Discovery!Spec

\* Once a source has sent, every other node hears of it.  Claimed where no
\* frame is lost and the relay that brings a packet farthest reaches every
\* node that a relay it silences would have reached.
FloodReaches ==
    \A s, n \in Node : seqNo[s] > 0 ~> s \in Known[n]

=============================================================================
