---------------------------- MODULE NodeDiscovery ----------------------------
(***************************************************************************)
(* What flooding is for, without packets, radio or time: a node announces  *)
(* itself, and the knowledge of it passes from node to node over the links *)
(* of the network.  A node is never known to a node that no chain of       *)
(* knowing neighbours connects to it, and knowledge is never lost.  The    *)
(* flooding applications implement this; their statistic of seen nodes     *)
(* counts what is known here.                                              *)
(***************************************************************************)
CONSTANTS
    Node,  \* node ids
    Link   \* the pairs <<m, n>> such that n can hear m

VARIABLE
    known  \* known[n]: the nodes that n knows of

Init == known = [n \in Node |-> {}]

\* Node n sends for the first time.
Announce(n) ==
    /\ n \notin known[n]
    /\ known' = [known EXCEPT ![n] = @ \cup {n}]

\* Node n learns of s from a neighbour that knows s.
Discover(n, s) ==
    /\ s \notin known[n]
    /\ \E m \in Node \ {n} : <<m, n>> \in Link /\ s \in known[m]
    /\ known' = [known EXCEPT ![n] = @ \cup {s}]

Next ==
    \/ \E n \in Node : Announce(n)
    \/ \E n, s \in Node : Discover(n, s)

Spec == Init /\ [][Next]_known

=============================================================================
