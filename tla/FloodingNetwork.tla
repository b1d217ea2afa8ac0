--------------------------- MODULE FloodingNetwork ---------------------------
(***************************************************************************)
(* What the flooding applications stand on: the discrete-event scheduler,  *)
(* the broadcast radio channel, the nodes' positions and the life cycle of *)
(* an application.  Each application's module EXTENDS this one and adds    *)
(* its own state and handlers.                                             *)
(*                                                                         *)
(* The scheduler's event list (DefaultSimulatorImpl::m_events) is kept in  *)
(* three parts by what an event does: timers (start, send, stop, reset),   *)
(* air (a frame arriving at a node) and pending (a Forward callback that   *)
(* HandleRead has scheduled).  Time is counted in ticks and jumps from one *)
(* event to the next.                                                      *)
(***************************************************************************)
EXTENDS Integers, FiniteSets

CONSTANTS
    Node,         \* node ids: the indices of NodeList
    Pos,          \* the points of the area
    Track,        \* Track[n]: the points node n's mobility model can take it to
    Dist,         \* CalculateDistance, tabulated
    Cell,         \* the point that remains of a point in an encoded header
    RadioRange,   \* how far a frame is received
    AirTime,      \* the ticks from Socket::Send to the receivers' HandleRead
    Lossy,        \* whether a frame may miss nodes that are in range
    SendInterval, \* the attribute SendInterval
    StartTimes,   \* StartTimes[n]: the start times drawn for node n
    StopTime,     \* StopTime[n]: Application::m_stopTime, 0 for never
    ResetTime,    \* when the scenario calls ResetStats on all, 0 for never
    SimTime       \* the argument of Simulator::Stop

ASSUME NodeAssumption ==
    /\ Node \subseteq Nat
    /\ 0 \in Node

ASSUME SpaceAssumption ==
    /\ Dist \in [Pos -> [Pos -> Nat]]
    /\ Cell \in [Pos -> Pos]
    /\ Track \in [Node -> SUBSET Pos]
    /\ RadioRange \in Nat
    /\ Lossy \in BOOLEAN

ASSUME TimeAssumption ==
    /\ AirTime \subseteq Nat \ {0}
    /\ SendInterval \in Nat \ {0}
    /\ StartTimes \in [Node -> SUBSET Nat]
    /\ StopTime \in [Node -> Nat]
    /\ ResetTime \in Nat
    /\ SimTime \in Nat

VARIABLES
    now,      \* DefaultSimulatorImpl::m_currentTs
    timers,   \* scheduled StartApplication, Send, StopApplication, ResetStats
    air,      \* frames on their way to one receiver each
    pending,  \* scheduled Forward callbacks
    pos,      \* pos[n]: MobilityModel::GetPosition of node n
    life      \* life[n]: "idle" without a socket, "up", "closed" once stopped

networkVars == <<now, timers, air, pending, pos, life>>

-----------------------------------------------------------------------------
(* The scheduler *)

TimerKind == {"start", "send", "stop", "reset"}

Timer == [kind : TimerKind, node : Node, at : Nat]

At(kind, n, t) == [kind |-> kind, node |-> n, at |-> t]

\* The events that have not run: m_events.
Agenda == timers \cup air \cup pending

\* ProcessOneEvent runs the earliest event, as long as it lies before the
\* stop event.  Events of the same tick run in any order: a tick is coarser
\* than the simulator's nanosecond.
Execute(e) ==
    /\ e.at < SimTime
    /\ \A f \in Agenda : e.at <= f.at
    /\ now' = e.at

\* Simulator::Run has returned.
Finished == \A e \in Agenda : e.at >= SimTime

-----------------------------------------------------------------------------
(* The radio channel *)

\* YansWifiChannel::Send hands a frame to every other node's receiver; those
\* within range decode it.
InRange(n) == {m \in Node \ {n} : Dist[pos[n]][pos[m]] <= RadioRange}

\* The sets of nodes a frame of n may reach: with loss, any of those in range.
Hearers(n) == {who \in SUBSET InRange(n) : Lossy \/ who = InRange(n)}

\* The arrivals of one transmission.  via tells which Send or Forward it is,
\* so that two transmissions of equal packets in one tick remain two.
Frames(who, hdr, via, t) ==
    {[node |-> m, hdr |-> hdr, via |-> via, at |-> t] : m \in who}

\* Socket::Send by node n at tick t: a socket closed by StopApplication
\* refuses the packet, and the caller does not look at the result.
Transmit(n, hdr, via, t) ==
    \/ /\ life[n] = "up"
       /\ \E who \in Hearers(n), d \in AirTime :
              air' = air \cup Frames(who, hdr, via, t + d)
    \/ /\ life[n] # "up"
       /\ UNCHANGED air

\* What an encoded header keeps: coordinates are written as whole metres.
Wire(hdr) ==
    [hdr EXCEPT !.start = Cell[hdr.start], !.last = Cell[hdr.last]]

-----------------------------------------------------------------------------
(* The life of an application *)

\* What main and Application::DoInitialize schedule at the beginning: the start of
\* each application, and its reset and stop if they are asked for.
Timetable(start) ==
    {At("start", n, start[n]) : n \in Node}
    \cup {At("reset", n, ResetTime) : n \in {m \in Node : ResetTime # 0}}
    \cup {At("stop", n, StopTime[n]) : n \in {m \in Node : StopTime[m] # 0}}

NetworkInit ==
    /\ now = 0
    /\ air = {}
    /\ pending = {}
    /\ life = [n \in Node |-> "idle"]
    /\ pos \in {p \in [Node -> Pos] : \A n \in Node : p[n] \in Track[n]}
    /\ \E start \in {s \in [Node -> UNION {StartTimes[n] : n \in Node}] :
                        \A n \in Node : s[n] \in StartTimes[n]} :
           timers = Timetable(start)

\* The timer e of the given kind runs.
Expire(e, kind) ==
    /\ e \in timers
    /\ e.kind = kind
    /\ Execute(e)

\* ScheduleTransmit(m_sendInterval), by the timer e that is running.
ScheduleTransmit(e) ==
    timers' = (timers \ {e}) \cup {At("send", e.node, e.at + SendInterval)}

\* StartApplication opens the socket and schedules the first Send.
OpenSocket(e) ==
    /\ Expire(e, "start")
    /\ life' = [life EXCEPT ![e.node] = "up"]
    /\ ScheduleTransmit(e)
    /\ UNCHANGED <<air, pending, pos>>

\* StopApplication closes the socket and cancels nothing: the next Send and
\* the pending Forwards still run.  Without a socket it does nothing.
CloseSocket(e) ==
    /\ Expire(e, "stop")
    /\ timers' = timers \ {e}
    /\ life' = IF life[e.node] = "up"
               THEN [life EXCEPT ![e.node] = "closed"]
               ELSE life
    /\ UNCHANGED <<air, pending, pos>>

\* A frame reaches node n with its receive callback set: HandleRead runs.
Arrive(f) ==
    /\ f \in air
    /\ Execute(f)
    /\ life[f.node] = "up"
    /\ air' = air \ {f}

\* A frame reaches a node that has no socket yet, or has closed it.
Drop(f) ==
    /\ f \in air
    /\ Execute(f)
    /\ life[f.node] # "up"
    /\ air' = air \ {f}
    /\ UNCHANGED <<timers, pending, pos, life>>

\* A scheduled Forward callback runs.
Release(c) ==
    /\ c \in pending
    /\ Execute(c)
    /\ pending' = pending \ {c}

\* The mobility model takes node n to another point of its track.
Move(n) ==
    /\ \E p \in Track[n] \ {pos[n]} : pos' = [pos EXCEPT ![n] = p]
    /\ UNCHANGED <<now, timers, air, pending, life>>

=============================================================================
