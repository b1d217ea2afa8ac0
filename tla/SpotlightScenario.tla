-------------------------- MODULE SpotlightScenario --------------------------
(***************************************************************************)
(* spot-light-flooding-first.cc around the application: its trace sinks    *)
(* OnPacketSent and OnPacketReceive keep the control numbers that the      *)
(* delivery ratio of GetKPIs is made of.                                   *)
(***************************************************************************)
EXTENDS SpotlightFlooding

CONSTANTS
    Reporter, \* the node whose sent control numbers count, 0
    Sink      \* the node whose received control numbers count, 4

VARIABLES
    sentControl, \* uniqueSentControlSeqNos
    rcvdControl  \* uniqueReceivedControlSeqNos

sinkVars == <<sentControl, rcvdControl>>
scenarioVars == <<vars, sinkVars>>

-----------------------------------------------------------------------------
\* Mutant: the control number is kept with the hop the packet came from.
ControlIdByLastHop(h) == <<h.lastHop, h.cseq>>

\* controlSeqNo, the string made of the source and its control number.
ControlId(h) == <<h.src, h.cseq>>

\* The sink of Tx.  It is called before Socket::Send, so it also counts what
\* a closed socket refuses.
OnPacketSent(n, h) ==
    /\ sentControl' = IF n = Reporter /\ h.dest = Sink
                      THEN sentControl \cup {ControlId(h)}
                      ELSE sentControl
    /\ UNCHANGED rcvdControl

\* The sink of Rx, called at every first sight.
OnPacketReceive(n, h) ==
    /\ rcvdControl' = IF n = Sink /\ h.dest = Sink
                      THEN rcvdControl \cup {ControlId(h)}
                      ELSE rcvdControl
    /\ UNCHANGED sentControl

\* Steps that call neither sink.
Untraced ==
    \/ \E e \in timers :
           \/ StartApplication(e)
           \/ StopApplication(e)
           \/ ResetStats(e)
           \/ GroundSend(e)
    \/ \E c \in pending :
           \/ ForwardHigh(c)
           \/ ForwardLow(c)
           \/ ForwardNothing(c)
    \/ \E f \in air :
           \/ HandleReadAgain(f)
           \/ Ignore(f)
    \/ \E n \in Node : Roam(n)

ScenarioInit ==
    /\ Init
    /\ sentControl = {}
    /\ rcvdControl = {}

ScenarioNext ==
    \/ \E e \in timers :
           Send(e) /\ OnPacketSent(e.node, NewHeader(e.node, e.at))
    \/ \E f \in air :
           /\ \/ HandleReadHigh(f)
              \/ HandleReadAway(f)
              \/ HandleReadNear(f)
           /\ OnPacketReceive(f.node, f.hdr)
    \/ Untraced /\ UNCHANGED sinkVars

ScenarioSpec == ScenarioInit /\ [][ScenarioNext]_scenarioVars

-----------------------------------------------------------------------------
(* Properties *)

\* The delivery ratio never exceeds 1 while one node's packets are destined
\* for the sink: every control number received there has been sent by the
\* reporting node, although the sent numbers are kept when a packet is handed
\* to the socket, the received ones at any of the packet's many copies, and
\* the reset in mid-run leaves both alone.
DeliveryRatioAtMostOne ==
    NodesPerContainer = 1 => rcvdControl \subseteq sentControl

=============================================================================
