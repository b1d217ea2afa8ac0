------------------------ MODULE SpotlightSafetyProofs ------------------------
(***************************************************************************)
(* More theorems about SpotlightFlooding: no event in the past, suppressed *)
(* packets stay suppressed, the copies of a packet agree and carry the     *)
(* control number of their burst, samples go with receptions, and the      *)
(* scenario's delivery ratio is at most one.                               *)
(***************************************************************************)
EXTENDS SpotlightScenario, SpotlightFloodingProofs

-----------------------------------------------------------------------------
(* Time *)

\* The next event is never earlier than the last one, and no handler
\* schedules anything before the tick it runs at.
LEMMA TimeStep == TypeInv /\ NeverInThePast /\ [Next]_vars => NeverInThePast'
<1> SUFFICES ASSUME TypeInv, NeverInThePast, [Next]_vars
             PROVE  NeverInThePast'
    OBVIOUS
<1>1. \A e \in Agenda : e.at \in Nat
    BY DEF TypeInv, TypeOK, Agenda, Timer, Frame, Callback
<1> DEFINE Later(e) == /\ now' = e.at
                       /\ \A g \in Agenda : e.at <= g.at
                       /\ \A g \in Agenda' \ Agenda : e.at <= g.at
<1>2. ASSUME NEW e \in Agenda, Later(e) PROVE NeverInThePast'
    BY <1>2 DEF NeverInThePast
<1>3. ASSUME NEW e \in timers,
             \/ StartApplication(e) \/ StopApplication(e) \/ ResetStats(e)
             \/ Send(e) \/ GroundSend(e)
      PROVE  Later(e)
    <2>1. Execute(e) /\ pending' = pending /\ e \in Timer
        BY <1>3 DEF StartApplication, StopApplication, ResetStats, Send,
            GroundSend, OpenSocket, CloseSocket, Expire, TypeInv, TypeOK
    <2>2. \/ timers' \subseteq timers
          \/ timers' \subseteq timers \cup
                 {At("send", e.node, e.at + SendInterval)}
        BY <1>3 DEF StartApplication, StopApplication, ResetStats, Send,
            GroundSend, OpenSocket, CloseSocket, ScheduleTransmit
    <2>3. \A g \in timers' \ timers : e.at <= g.at
        <3>1. e.at \in Nat /\ SendInterval \in Nat
            BY <2>1, TimeAssumption DEF Timer
        <3> QED BY <2>2, <3>1 DEF At
    <2>4. \A g \in air' \ air : e.at <= g.at
        <3>1. CASE Send(e)
            <4> DEFINE hdr == NewHeader(e.node, e.at)
                       via == [seq |-> hdr.seq, high |-> FALSE]
            <4>1. e.node \in Node /\ e.at \in Nat
                BY <2>1 DEF Timer
            <4>2. hdr \in Header /\ via \in Via
                BY <4>1, NewHeaderType DEF TypeInv, Header, Via
            <4>3. Transmit(e.node, hdr, via, e.at)
                BY <3>1 DEF Send
            <4> HIDE DEF hdr, via
            <4>4. air' \subseteq Frame /\ \A g \in air' \ air : g.at > e.at
                BY <4>1, <4>2, <4>3, TransmitFrames DEF TypeInv
            <4> QED BY <4>1, <4>4 DEF Frame
        <3>2. CASE ~Send(e)
            BY <1>3, <3>2 DEF StartApplication, StopApplication, ResetStats,
                GroundSend, OpenSocket, CloseSocket
        <3> QED BY <3>1, <3>2
    <2> QED BY <2>1, <2>3, <2>4 DEF Execute, Agenda
<1>4. ASSUME NEW c \in pending,
             ForwardHigh(c) \/ ForwardLow(c) \/ ForwardNothing(c)
      PROVE  Later(c)
    <2>1. /\ Execute(c) /\ pending' \subseteq pending /\ timers' = timers
          /\ c \in Callback
        BY <1>4 DEF ForwardHigh, ForwardLow, ForwardNothing, Release, TypeInv,
            TypeOK
    <2>2. \A g \in air' \ air : c.at <= g.at
        <3>1. CASE ForwardNothing(c)
            BY <3>1 DEF ForwardNothing
        <3>2. CASE ForwardPacket(c)
            <4> DEFINE packet == buffer[c.node][c.src]
                       via == [seq |-> c.seq, high |-> c.high]
            <4>1. c.node \in Node /\ c.at \in Nat
                BY <2>1 DEF Callback
            <4>2. packet \in Header /\ via \in Via
                BY <2>1 DEF TypeInv, TypeOK, BufferInv, Callback, Via
            <4>3. Transmit(c.node, packet, via, c.at)
                BY <3>2 DEF ForwardPacket
            <4> HIDE DEF packet, via
            <4>4. air' \subseteq Frame /\ \A g \in air' \ air : g.at > c.at
                BY <4>1, <4>2, <4>3, TransmitFrames DEF TypeInv
            <4> QED BY <4>1, <4>4 DEF Frame
        <3> QED BY <1>4, <3>1, <3>2 DEF ForwardHigh, ForwardLow
    <2> QED BY <2>1, <2>2 DEF Execute, Agenda
<1>5. ASSUME NEW f \in air,
             \/ HandleReadHigh(f) \/ HandleReadAway(f) \/ HandleReadNear(f)
             \/ HandleReadAgain(f) \/ Ignore(f)
      PROVE  Later(f)
    <2>1. /\ Execute(f) /\ air' \subseteq air /\ timers' = timers
          /\ f \in Frame
        BY <1>5 DEF HandleReadHigh, HandleReadAway, HandleReadNear,
            HandleReadAgain, Ignore, FirstSight, Arrive, Drop, TypeInv, TypeOK
    <2>2. \A c \in pending' \ pending : f.at <= c.at
        <3>1. CASE HandleReadAgain(f) \/ Ignore(f)
            BY <3>1 DEF HandleReadAgain, Ignore, Drop
        <3>2. ASSUME NEW delay \in Nat, ScheduleForward(f, delay)
              PROVE  \A c \in pending' \ pending : f.at <= c.at
            BY <2>1, <3>2 DEF ScheduleForward, Frame
        <3>3. /\ SpotJitter \subseteq Nat
              /\ ContentionDelay(Advance(f)) + RateDelay(f) \in Nat
              /\ ContentionDelay(Gain(f)) \in Nat
            BY <2>1, FrameQuantities, ContentionDelayBound
            DEF TypeInv, SpotJitter
        <3> QED BY <1>5, <3>1, <3>2, <3>3
                DEF HandleReadHigh, HandleReadAway, HandleReadNear
    <2> QED BY <2>1, <2>2 DEF Execute, Agenda
<1>6. CASE UNCHANGED vars
    BY <1>6 DEF vars, networkVars, NeverInThePast, Agenda
<1>7. ASSUME NEW n \in Node, Move(n) PROVE NeverInThePast'
    BY <1>7 DEF Move, NeverInThePast, Agenda
<1> HIDE DEF Later
<1> QED BY <1>2, <1>3, <1>4, <1>5, <1>6, <1>7 DEF Next, Roam, Agenda

\* No handler ever schedules an event into the past.
THEOREM NoPastEvents == Spec => []NeverInThePast
<1>1. Init => NeverInThePast
    <2> SUFFICES ASSUME Init PROVE NeverInThePast
        OBVIOUS
    <2>1. \A e \in Agenda : e.at \in Nat
        BY TypeInit DEF TypeInv, TypeOK, Agenda, Timer, Frame, Callback
    <2> QED BY <2>1 DEF Init, NetworkInit, NeverInThePast
<1> QED BY <1>1, TimeStep, TypeInvInvariant, PTL DEF Spec

-----------------------------------------------------------------------------
(* The three lists *)

\* An id is only entered in twiceSeenSeqNos when it is or becomes seen, and in
\* duplicateSeenSeqNos only together with both.
LEMMA ListStep ==
    TypeInv /\ SuppressionNested /\ [Next]_vars => SuppressionNested'
<1> SUFFICES ASSUME TypeInv, SuppressionNested, [Next]_vars
             PROVE  SuppressionNested'
    OBVIOUS
<1> USE DEF SuppressionNested
<1>1. /\ seen \in [Node -> SUBSET PktId]
      /\ twice \in [Node -> SUBSET PktId]
      /\ dup \in [Node -> SUBSET PktId]
    BY DEF TypeInv, TypeOK
<1>2. ASSUME dup' = dup, twice' = twice,
             \/ seen' = seen
             \/ \E n, k : seen' = [seen EXCEPT ![n] = @ \cup {k}]
      PROVE  SuppressionNested'
    BY <1>1, <1>2
<1>3. ASSUME NEW e \in timers,
             \/ StartApplication(e) \/ StopApplication(e) \/ ResetStats(e)
             \/ Send(e) \/ GroundSend(e)
      PROVE  SuppressionNested'
    BY <1>2, <1>3 DEF StartApplication, StopApplication, ResetStats, Send,
        GroundSend, appVars
<1>4. ASSUME NEW c \in pending,
             ForwardHigh(c) \/ ForwardLow(c) \/ ForwardNothing(c)
      PROVE  SuppressionNested'
    <2>1. CASE ForwardHigh(c)
        BY <1>1, <2>1 DEF ForwardHigh
    <2> QED BY <1>2, <1>4, <2>1 DEF ForwardLow, ForwardNothing, appVars
<1>5. ASSUME NEW f \in air,
             \/ HandleReadHigh(f) \/ HandleReadAway(f) \/ HandleReadNear(f)
             \/ HandleReadAgain(f) \/ Ignore(f)
      PROVE  SuppressionNested'
    <2>1. CASE HandleReadAgain(f)
        BY <1>1, <2>1 DEF HandleReadAgain
    <2> QED BY <1>2, <1>5, <2>1 DEF HandleReadHigh, HandleReadAway,
            HandleReadNear, FirstSight, Ignore, appVars
<1>6. CASE UNCHANGED vars
    BY <1>2, <1>6 DEF vars, appVars
<1>7. ASSUME NEW n \in Node, UNCHANGED appVars PROVE SuppressionNested'
    BY <1>2, <1>7 DEF appVars
<1> QED BY <1>3, <1>4, <1>5, <1>6, <1>7 DEF Next, Roam

\* What a node has suppressed in one branch is suppressed in the other, and
\* never a first sight again.
THEOREM SuppressionStays == Spec => []SuppressionNested
<1>1. Init => SuppressionNested
    BY DEF Init, SuppressionNested
<1> QED BY <1>1, ListStep, TypeInvInvariant, PTL DEF Spec

-----------------------------------------------------------------------------
(* Copies *)

\* Copies of given frames and buffers.
CopiesIn(A, B) ==
    {f.hdr : f \in A} \cup
    {B[k[1]][k[2]] : k \in {j \in Node \X Node : B[j[1]][j[2]] # NoPacket}}

\* The members of Copies, for the air and the buffers of either state.
LEMMA CopiesMember ==
    ASSUME NEW A, NEW B, NEW c
    PROVE  c \in CopiesIn(A, B)
           <=> \/ \E f \in A : c = f.hdr
               \/ \E m, s \in Node : B[m][s] # NoPacket /\ c = B[m][s]
<1> DEFINE Filled == {j \in Node \X Node : B[j[1]][j[2]] # NoPacket}
<1>1. ASSUME NEW k \in Filled, c = B[k[1]][k[2]]
      PROVE  \E m, s \in Node : B[m][s] # NoPacket /\ c = B[m][s]
    <2>1. k[1] \in Node /\ k[2] \in Node /\ B[k[1]][k[2]] # NoPacket
        OBVIOUS
    <2> QED BY <1>1, <2>1
<1>2. ASSUME NEW m \in Node, NEW s \in Node, B[m][s] # NoPacket, c = B[m][s]
      PROVE  \E k \in Filled : c = B[k[1]][k[2]]
    <2>1. <<m, s>> \in Filled
        BY <1>2
    <2>2. c = B[<<m, s>>[1]][<<m, s>>[2]]
        BY <1>2
    <2> HIDE DEF Filled
    <2> QED BY <2>1, <2>2
<1> HIDE DEF Filled
<1>3. c \in {B[k[1]][k[2]] : k \in Filled} <=>
          \E k \in Filled : c = B[k[1]][k[2]]
    OBVIOUS
<1> QED BY <1>1, <1>2, <1>3 DEF Filled, CopiesIn

\* A step circulates no packet but one just created or one just relayed.
LEMMA CopiesStep ==
    ASSUME TypeInv, [Next]_vars
    PROVE  \/ Copies' \subseteq Copies /\ UNCHANGED <<seqNo, ctrl>>
           \/ \E f \in air : /\ Copies' \subseteq Copies \cup {Relayed(f)}
                             /\ UNCHANGED <<seqNo, ctrl>>
           \/ \E n \in Node, t \in Nat :
                  /\ Copies' \subseteq Copies \cup {NewHeader(n, t)}
                  /\ seqNo' = [seqNo EXCEPT ![n] = @ + 1]
                  /\ ctrl' = [ctrl EXCEPT ![n] = NextControl(@)]
<1>1. \A c : c \in Copies <=>
          \/ \E f \in air : c = f.hdr
          \/ \E m, s \in Node : buffer[m][s] # NoPacket /\ c = buffer[m][s]
    <2>1. Copies = CopiesIn(air, buffer)
        BY DEF Copies, CopiesIn
    <2> QED BY <2>1, CopiesMember
<1>2. \A c : c \in Copies' <=>
          \/ \E f \in air' : c = f.hdr
          \/ \E m, s \in Node : buffer'[m][s] # NoPacket /\ c = buffer'[m][s]
    <2>1. Copies' = CopiesIn(air', buffer')
        BY DEF Copies, CopiesIn
    <2> QED BY <2>1, CopiesMember
<1>3. ASSUME air' \subseteq air, buffer' = buffer
      PROVE  Copies' \subseteq Copies
    BY <1>1, <1>2, <1>3
<1>4. ASSUME NEW e \in timers, Send(e)
      PROVE  \E n \in Node, t \in Nat :
                 /\ Copies' \subseteq Copies \cup {NewHeader(n, t)}
                 /\ seqNo' = [seqNo EXCEPT ![n] = @ + 1]
                 /\ ctrl' = [ctrl EXCEPT ![n] = NextControl(@)]
    <2> DEFINE hdr == NewHeader(e.node, e.at)
               via == [seq |-> hdr.seq, high |-> FALSE]
    <2>1. e.node \in Node /\ e.at \in Nat
        BY DEF TypeInv, TypeOK, Timer
    <2>2. hdr \in Header /\ via \in Via
        BY <2>1, NewHeaderType DEF TypeInv, Header, Via
    <2>3. /\ Transmit(e.node, hdr, via, e.at) /\ buffer' = buffer
          /\ seqNo' = [seqNo EXCEPT ![e.node] = @ + 1]
          /\ ctrl' = [ctrl EXCEPT ![e.node] = NextControl(@)]
        BY <1>4 DEF Send
    <2> HIDE DEF hdr, via
    <2>4. \A f \in air' \ air : f.hdr = hdr
        BY <2>1, <2>2, <2>3, TransmitFrames DEF TypeInv
    <2>5. Copies' \subseteq Copies \cup {hdr}
        BY <1>1, <1>2, <2>3, <2>4
    <2> QED BY <2>1, <2>3, <2>5 DEF hdr
<1>5. ASSUME NEW c \in pending, ForwardHigh(c) \/ ForwardLow(c)
      PROVE  Copies' \subseteq Copies /\ UNCHANGED <<seqNo, ctrl>>
    <2> DEFINE packet == buffer[c.node][c.src]
               via == [seq |-> c.seq, high |-> c.high]
    <2>1. /\ c.node \in Node /\ c.src \in Node /\ c.at \in Nat
          /\ packet \in Header /\ packet # NoPacket /\ via \in Via
        BY DEF TypeInv, TypeOK, BufferInv, Callback, Via
    <2>2. /\ Transmit(c.node, packet, via, c.at) /\ buffer' = buffer
          /\ UNCHANGED <<seqNo, ctrl>>
        BY <1>5 DEF ForwardHigh, ForwardLow, ForwardPacket
    <2>3. packet \in Copies
        BY <1>1, <2>1
    <2> HIDE DEF packet, via
    <2>4. \A f \in air' \ air : f.hdr = packet
        BY <2>1, <2>2, TransmitFrames DEF TypeInv
    <2> QED BY <1>1, <1>2, <2>2, <2>3, <2>4
<1>6. ASSUME NEW f \in air, FirstSight(f)
      PROVE  /\ Copies' \subseteq Copies \cup {Relayed(f)}
             /\ UNCHANGED <<seqNo, ctrl>>
    <2>1. /\ air' \subseteq air /\ UNCHANGED <<seqNo, ctrl>>
          /\ buffer' = [buffer EXCEPT ![f.node][f.hdr.src] = Relayed(f)]
        BY <1>6 DEF FirstSight, Arrive
    <2>2. f.node \in Node /\ f.hdr.src \in Node
        BY DEF TypeInv, TypeOK, Frame, Header
    <2>3. \A m, s \in Node :
              buffer'[m][s] = buffer[m][s] \/ buffer'[m][s] = Relayed(f)
        BY <2>1, <2>2 DEF TypeInv, TypeOK
    <2> QED BY <1>1, <1>2, <2>1, <2>3
<1> QED BY <1>3, <1>4, <1>5, <1>6 DEF Next, Roam, vars, networkVars, appVars,
        StartApplication, StopApplication, ResetStats, GroundSend, OpenSocket,
        CloseSocket, ForwardNothing, HandleReadHigh, HandleReadAway,
        HandleReadNear, HandleReadAgain, Ignore, Arrive, Drop, Move

\* What the copies of a packet have in common, and that their source made it.
CopyInv ==
    /\ CopiesAgree
    /\ \A h \in Copies :
           h \in Header /\ h.seq < seqNo[h.src] /\ Cell[h.start] = h.start

\* A relayed packet is one more copy of the packet received.
LEMMA RelayedAgrees ==
    ASSUME TypeInv, NEW f \in air, Cell[f.hdr.start] = f.hdr.start
    PROVE  LET h == Relayed(f)
           IN  /\ h \in Header /\ Id(h) = Id(f.hdr) /\ h.src = f.hdr.src
               /\ h.seq = f.hdr.seq /\ h.ts = f.hdr.ts
               /\ h.start = f.hdr.start /\ h.dest = f.hdr.dest
               /\ h.cseq = f.hdr.cseq
<1>1. f \in Frame /\ f.hdr \in Header
    BY DEF TypeInv, TypeOK, Frame
<1>2. Relayed(f) \in Header
    BY <1>1, RelayedType DEF TypeInv
<1> QED BY <1>1, <1>2 DEF Relayed, Wire, Header, Id

\* A new packet has a number of its own.
LEMMA CopyStep ==
    ASSUME \A p \in Pos : Cell[Cell[p]] = Cell[p],
           TypeInv, CopyInv, [Next]_vars
    PROVE  CopyInv'
<1>1. /\ seqNo \in [Node -> Nat] /\ seqNo' \in [Node -> Nat]
      /\ \A m \in Node : seqNo'[m] >= seqNo[m]
    <2>1. seqNo \in [Node -> Nat]
        BY DEF TypeInv, TypeOK
    <2> QED BY <2>1, CopiesStep
<1>2. \A h \in Copies : h.src \in Node /\ h.seq \in Nat /\ h.seq < seqNo'[h.src]
    BY <1>1 DEF CopyInv, Header
<1>3. CASE Copies' \subseteq Copies
    BY <1>2, <1>3 DEF CopyInv, CopiesAgree, Id
<1>4. ASSUME NEW f \in air, Copies' \subseteq Copies \cup {Relayed(f)}
      PROVE  CopyInv'
    <2>1. f.hdr \in Copies
        BY DEF Copies
    <2>2. f.hdr \in Header /\ Cell[f.hdr.start] = f.hdr.start
        BY <2>1 DEF CopyInv
    <2> DEFINE new == Relayed(f)
    <2>3. /\ new \in Header /\ Id(new) = Id(f.hdr) /\ new.src = f.hdr.src
          /\ new.seq = f.hdr.seq /\ new.ts = f.hdr.ts
          /\ new.start = f.hdr.start /\ new.dest = f.hdr.dest
          /\ new.cseq = f.hdr.cseq
        BY <2>2, RelayedAgrees
    <2> HIDE DEF new
    <2>4. \A h \in Copies' : h \in Copies \/ h = new
        BY <1>4 DEF new
    <2>5. ASSUME NEW h \in Copies'
          PROVE  h \in Header /\ h.seq < seqNo'[h.src] /\ Cell[h.start] = h.start
        BY <1>2, <2>1, <2>2, <2>3, <2>4 DEF CopyInv
    <2>6. ASSUME NEW g \in Copies', NEW h \in Copies', Id(g) = Id(h)
          PROVE  g.ts = h.ts /\ g.start = h.start /\ g.dest = h.dest
                 /\ g.cseq = h.cseq
        <3> DEFINE Old(x) == IF x = new THEN f.hdr ELSE x
        <3>1. \A x \in Copies' :
                  /\ Old(x) \in Copies /\ Id(Old(x)) = Id(x)
                  /\ Old(x).ts = x.ts /\ Old(x).start = x.start
                  /\ Old(x).dest = x.dest /\ Old(x).cseq = x.cseq
            BY <2>1, <2>3, <2>4
        <3> HIDE DEF Old
        <3> QED BY <2>6, <3>1 DEF CopyInv, CopiesAgree
    <2> QED BY <2>5, <2>6 DEF CopyInv, CopiesAgree, Id
<1>5. ASSUME NEW n \in Node, NEW t \in Nat,
             Copies' \subseteq Copies \cup {NewHeader(n, t)},
             seqNo' = [seqNo EXCEPT ![n] = @ + 1]
      PROVE  CopyInv'
    <2> DEFINE new == NewHeader(n, t)
    <2>1. new \in Header /\ new.src = n /\ new.seq = seqNo[n]
        BY NewHeaderType DEF TypeInv
    <2>2. Cell[new.start] = new.start
        <3>1. pos[n] \in Pos
            BY DEF TypeInv, TypeOK
        <3>2. new.start = Cell[pos[n]]
            BY DEF NewHeader, Wire
        <3> QED BY <3>1, <3>2
    <2> HIDE DEF new
    <2>3. \A h \in Copies' : h \in Copies \/ h = new
        BY <1>5 DEF new
    <2>4. new.seq < seqNo'[n]
        BY <1>1, <1>5, <2>1
    <2>5. \A h \in Copies : Id(h) # Id(new)
        BY <1>1, <2>1 DEF CopyInv, Id, Header
    <2>6. ASSUME NEW h \in Copies'
          PROVE  h \in Header /\ h.seq < seqNo'[h.src] /\ Cell[h.start] = h.start
        BY <1>2, <2>1, <2>2, <2>3, <2>4 DEF CopyInv
    <2>7. ASSUME NEW g \in Copies', NEW h \in Copies', Id(g) = Id(h)
          PROVE  g.ts = h.ts /\ g.start = h.start /\ g.dest = h.dest
                 /\ g.cseq = h.cseq
        BY <2>3, <2>5, <2>7 DEF CopyInv, CopiesAgree
    <2> QED BY <2>6, <2>7 DEF CopyInv, CopiesAgree, Id
<1> QED BY <1>3, <1>4, <1>5, CopiesStep

\* The copies of a packet agree wherever they have been, if whole metres are
\* read back as they were written.
THEOREM CopiesDoAgree ==
    ASSUME \A p \in Pos : Cell[Cell[p]] = Cell[p]
    PROVE  Spec => []CopiesAgree
<1>1. Init => CopyInv
    BY DEF Init, NetworkInit, CopyInv, CopiesAgree, Copies
<1>2. TypeInv /\ CopyInv /\ [Next]_vars => CopyInv'
    BY CopyStep
<1>3. CopyInv => CopiesAgree
    BY DEF CopyInv
<1> QED BY <1>1, <1>2, <1>3, TypeInvInvariant, PTL DEF Spec

-----------------------------------------------------------------------------
(* Control numbers *)

\* The counter and the number of control packets add up to the packets sent.
BurstInv ==
    /\ \A n \in Node :
           seqNo[n] = ctrl[n].seq * ControlBurst + ctrl[n].count
    /\ ControlNumbering

\* Division of a number by the burst it is made of.
LEMMA BurstDivision ==
    ASSUME NEW q \in Nat, NEW r \in Nat, NEW b \in Nat \ {0}, r < b
    PROVE  (q * b + r) \div b = q
<1>1. q * b \in Nat
    OBVIOUS
<1> QED BY <1>1, Z3

\* The next packet's control number is its number by bursts.
LEMMA NextControlNumber ==
    ASSUME NEW c \in [count : 0 .. ControlBurst, seq : Nat], NEW k \in Nat,
           k = c.seq * ControlBurst + c.count
    PROVE  /\ NextControl(c).seq = k \div ControlBurst
           /\ k + 1 = NextControl(c).seq * ControlBurst + NextControl(c).count
<1>1. /\ ControlBurst \in Nat \ {0} /\ c.count \in 0 .. ControlBurst
      /\ c.seq \in Nat
    BY SpotlightAssumption
<1>2. CASE c.count = ControlBurst
    <2>1. NextControl(c) = [count |-> 1, seq |-> c.seq + 1]
        BY <1>1, <1>2 DEF NextControl
    <2>2. k = (c.seq + 1) * ControlBurst + 0
        BY <1>1, <1>2
    <2>3. k \div ControlBurst = c.seq + 1
        BY <1>1, <2>2, BurstDivision
    <2> QED BY <1>1, <2>1, <2>2, <2>3
<1>3. CASE c.count < ControlBurst
    <2>1. NextControl(c) = [count |-> c.count + 1, seq |-> c.seq]
        BY <1>1, <1>3 DEF NextControl
    <2>2. k \div ControlBurst = c.seq
        <3>1. c.count \in Nat
            BY <1>1
        <3>2. (c.seq * ControlBurst + c.count) \div ControlBurst = c.seq
            BY <1>1, <1>3, <3>1, BurstDivision
        <3> QED BY <3>2
    <2> QED BY <1>1, <2>1, <2>2
<1> QED BY <1>1, <1>2, <1>3

\* Every action keeps control numbers in step with completed bursts.
LEMMA BurstStep ==
    ASSUME TypeInv, BurstInv, [Next]_vars
    PROVE  BurstInv'
<1>1. CASE Copies' \subseteq Copies /\ UNCHANGED <<seqNo, ctrl>>
    BY <1>1 DEF BurstInv, ControlNumbering
<1>2. ASSUME NEW f \in air, Copies' \subseteq Copies \cup {Relayed(f)},
             UNCHANGED <<seqNo, ctrl>>
      PROVE  BurstInv'
    <2>1. f.hdr \in Copies
        BY DEF Copies
    <2>2. Relayed(f).cseq = f.hdr.cseq /\ Relayed(f).seq = f.hdr.seq
        BY DEF Relayed, Wire, TypeInv, TypeOK, Frame, Header
    <2>3. Relayed(f).cseq = Relayed(f).seq \div ControlBurst
        BY <2>1, <2>2 DEF BurstInv, ControlNumbering
    <2> QED BY <1>2, <2>3 DEF BurstInv, ControlNumbering
<1>3. ASSUME NEW n \in Node, NEW t \in Nat,
             Copies' \subseteq Copies \cup {NewHeader(n, t)},
             seqNo' = [seqNo EXCEPT ![n] = @ + 1],
             ctrl' = [ctrl EXCEPT ![n] = NextControl(@)]
      PROVE  BurstInv'
    <2>1. /\ seqNo \in [Node -> Nat]
          /\ ctrl \in [Node -> [count : 0 .. ControlBurst, seq : Nat]]
        BY DEF TypeInv, TypeOK
    <2>2. /\ NextControl(ctrl[n]).seq = seqNo[n] \div ControlBurst
          /\ seqNo[n] + 1 = NextControl(ctrl[n]).seq * ControlBurst
                                + NextControl(ctrl[n]).count
        BY <2>1, NextControlNumber DEF BurstInv
    <2>3. /\ NewHeader(n, t).cseq = NextControl(ctrl[n]).seq
          /\ NewHeader(n, t).seq = seqNo[n]
        BY DEF NewHeader, Wire
    <2>4. ControlNumbering'
        BY <1>3, <2>2, <2>3 DEF BurstInv, ControlNumbering
    <2>5. ASSUME NEW m \in Node
          PROVE  seqNo'[m] = ctrl'[m].seq * ControlBurst + ctrl'[m].count
        <3>1. CASE m = n
            BY <1>3, <2>1, <2>2, <3>1
        <3>2. CASE m # n
            BY <1>3, <2>1, <3>2 DEF BurstInv
        <3> QED BY <3>1, <3>2
    <2> QED BY <2>4, <2>5 DEF BurstInv
<1> QED BY <1>1, <1>2, <1>3, CopiesStep

\* Wherever a copy is, its control number is its number by bursts.
THEOREM ControlNumbersHold == Spec => []ControlNumbering
<1>1. Init => BurstInv
    <2> SUFFICES ASSUME Init PROVE BurstInv
        OBVIOUS
    <2>1. Copies = {}
        BY DEF Init, NetworkInit, Copies
    <2>2. ControlBurst \in Nat
        BY SpotlightAssumption
    <2> QED BY <2>1, <2>2 DEF Init, BurstInv, ControlNumbering
<1>2. BurstInv => ControlNumbering
    BY DEF BurstInv
<1> QED BY <1>1, <1>2, BurstStep, TypeInvInvariant, PTL DEF Spec

-----------------------------------------------------------------------------
(* Samples *)

\* Every action, a reset included, keeps samples within receptions.
LEMMA SamplesStep ==
    ASSUME TypeInv, SamplesWithinReceptions, [Next]_vars
    PROVE  SamplesWithinReceptions'
<1>1. CASE UNCHANGED <<numInTime, numLate, numRcvd>>
    BY <1>1 DEF SamplesWithinReceptions
<1>2. ASSUME NEW e \in timers, ResetStats(e) PROVE SamplesWithinReceptions'
    <2>1. e.node \in Node
        BY DEF TypeInv, TypeOK, Timer
    <2> QED BY <1>2, <2>1
            DEF ResetStats, SamplesWithinReceptions, TypeInv, TypeOK
<1>3. ASSUME NEW f \in air, FirstSight(f) PROVE SamplesWithinReceptions'
    <2> DEFINE n == f.node
               last == lastReceived[n][f.hdr.src]
               sampled == last # Absent /\ Dist[f.hdr.start][pos[n]] <= AoiRange
               old == sampled /\ f.at - last > AoiThreshold
               late == IF old THEN 1 ELSE 0
               inTime == IF sampled /\ ~old THEN 1 ELSE 0
    <2>1. /\ n \in Node /\ numRcvd \in [Node -> Nat]
          /\ numInTime \in [Node -> Nat] /\ numLate \in [Node -> Nat]
        BY DEF TypeInv, TypeOK, Frame
    <2>2. /\ numRcvd' = [numRcvd EXCEPT ![n] = @ + 1]
          /\ numLate' = [numLate EXCEPT ![n] = @ + late]
          /\ numInTime' = [numInTime EXCEPT ![n] = @ + inTime]
        BY <1>3 DEF FirstSight, CountReception
    <2>3. late \in {0, 1} /\ inTime \in {0, 1} /\ late + inTime <= 1
        OBVIOUS
    <2> HIDE DEF n, late, inTime
    <2>4. ASSUME NEW m \in Node
          PROVE  numInTime'[m] + numLate'[m] <= numRcvd'[m]
        <3>1. CASE m = n
            <4>1. /\ numInTime'[m] = numInTime[m] + inTime
                  /\ numLate'[m] = numLate[m] + late
                  /\ numRcvd'[m] = numRcvd[m] + 1
                BY <2>1, <2>2, <3>1
            <4>2. numInTime[m] + numLate[m] <= numRcvd[m]
                BY DEF SamplesWithinReceptions
            <4>3. /\ numInTime[m] \in Nat /\ numLate[m] \in Nat
                  /\ numRcvd[m] \in Nat
                BY <2>1
            <4> QED BY <2>3, <4>1, <4>2, <4>3
        <3>2. CASE m # n
            BY <2>1, <2>2, <3>2 DEF SamplesWithinReceptions
        <3> QED BY <3>1, <3>2
    <2> QED BY <2>4 DEF SamplesWithinReceptions
<1> QED BY <1>1, <1>2, <1>3 DEF Next, Roam, vars, networkVars, appVars, statVars,
        StartApplication, StopApplication, Send, GroundSend, ForwardHigh,
        ForwardLow, ForwardPacket, ForwardNothing, HandleReadHigh,
        HandleReadAway, HandleReadNear, HandleReadAgain, Ignore

\* P_EX is a share of the receptions, also across the reset in mid-run.
THEOREM SamplesAreReceptions == Spec => []SamplesWithinReceptions
<1>1. Init => SamplesWithinReceptions
    BY DEF Init, SamplesWithinReceptions
<1> QED BY <1>1, SamplesStep, TypeInvInvariant, PTL DEF Spec

-----------------------------------------------------------------------------
(* The delivery ratio *)

\* A step of the scenario is a step of the application.
LEMMA ScenarioStep == [ScenarioNext]_scenarioVars => [Next]_vars
<1>1. ScenarioNext => Next
    BY DEF ScenarioNext, Untraced, Next
<1> QED BY <1>1 DEF scenarioVars

\* The control numbers that circulate towards the sink have been sent.
SinkInv ==
    NodesPerContainer = 1 =>
        /\ \A h \in Copies : h.dest = Sink => ControlId(h) \in sentControl
        /\ rcvdControl \subseteq sentControl

\* Only the steps with a Send circulate another control number.
LEMMA NoNewControl ==
    ASSUME TypeInv, [Next]_vars, UNCHANGED seqNo,
           NEW h \in Copies'
    PROVE  \E g \in Copies : g.dest = h.dest /\ ControlId(g) = ControlId(h)
<1>1. CASE Copies' \subseteq Copies
    BY <1>1
<1>2. CASE \E f \in air : Copies' \subseteq Copies \cup {Relayed(f)}
    <2>1. PICK f \in air : Copies' \subseteq Copies \cup {Relayed(f)}
        BY <1>2
    <2>2. f.hdr \in Copies /\ f.hdr \in Header
        BY DEF Copies, TypeInv, TypeOK, Frame
    <2>3. /\ Relayed(f).dest = f.hdr.dest
          /\ ControlId(Relayed(f)) = ControlId(f.hdr)
        BY <2>2 DEF Relayed, Wire, Header, ControlId
    <2> QED BY <2>1, <2>2, <2>3
<1>3. ~ \E n \in Node : seqNo' = [seqNo EXCEPT ![n] = @ + 1]
    BY DEF TypeInv, TypeOK
<1> QED BY <1>1, <1>2, <1>3, CopiesStep

\* With one node per container, only the reporting node's packets are
\* destined for the sink.
LEMMA OneSource ==
    ASSUME Reporter = 0, Sink # 0,
           \A i \in 1 .. Len(GroundStations) :
               GroundStations[i] = Sink => i = 1,
           NodesPerContainer = 1, NEW n \in Node, DestOf(n) = Sink
    PROVE  n = Reporter
<1>1. n \in Nat /\ n \div 1 = n
    BY NodeAssumption
<1>2. Len(GroundStations) \in Nat
    BY SpotlightAssumption
<1>3. n + 1 \in 1 .. Len(GroundStations) /\ GroundStations[n + 1] = Sink
    BY <1>1, <1>2 DEF DestOf
<1> QED BY <1>1, <1>3

\* Every action keeps copies for the sink within the numbers sent.
LEMMA SinkStep ==
    ASSUME Reporter = 0, Sink # 0,
           \A i \in 1 .. Len(GroundStations) :
               GroundStations[i] = Sink => i = 1,
           TypeInv, SinkInv, [ScenarioNext]_scenarioVars
    PROVE  SinkInv'
<1> SUFFICES ASSUME NodesPerContainer = 1
             PROVE  /\ \A h \in Copies' :
                           h.dest = Sink => ControlId(h) \in sentControl'
                    /\ rcvdControl' \subseteq sentControl'
    BY DEF SinkInv, ControlId
<1>1. [Next]_vars
    BY ScenarioStep
<1>2. /\ \A h \in Copies : h.dest = Sink => ControlId(h) \in sentControl
      /\ rcvdControl \subseteq sentControl
    BY DEF SinkInv
<1>3. ASSUME UNCHANGED <<seqNo, sentControl>>
      PROVE  \A h \in Copies' : h.dest = Sink => ControlId(h) \in sentControl'
    BY <1>1, <1>2, <1>3, NoNewControl
<1>4. ASSUME NEW e \in timers, Send(e),
             OnPacketSent(e.node, NewHeader(e.node, e.at))
      PROVE  SinkInv'
    <2> DEFINE n == e.node
    <2>1. n \in Node /\ e.at \in Nat /\ seqNo \in [Node -> Nat]
        BY DEF TypeInv, TypeOK, Timer
    <2>2. /\ seqNo' = [seqNo EXCEPT ![n] = @ + 1]
          /\ sentControl \subseteq sentControl' /\ rcvdControl' = rcvdControl
        BY <1>4 DEF Send, OnPacketSent
    <2>3. \A t \in Nat : /\ NewHeader(n, t).dest = DestOf(n)
                         /\ NewHeader(n, t).src = n
                         /\ NewHeader(n, t).cseq = NextControl(ctrl[n]).seq
        BY DEF NewHeader, Wire
    <2>4. DestOf(n) = Sink => <<n, NextControl(ctrl[n]).seq>> \in sentControl'
        BY <1>4, <2>1, <2>3, OneSource DEF OnPacketSent, ControlId
    <2>5. ASSUME NEW h \in Copies', h.dest = Sink
          PROVE  ControlId(h) \in sentControl'
        <3>1. CASE seqNo' = seqNo
            BY <1>1, <1>2, <2>2, <2>5, <3>1, NoNewControl
        <3>2. CASE seqNo' # seqNo
            <4>1. PICK m \in Node, t \in Nat :
                      /\ Copies' \subseteq Copies \cup {NewHeader(m, t)}
                      /\ seqNo' = [seqNo EXCEPT ![m] = @ + 1]
                BY <1>1, <3>2, CopiesStep
            <4>2. m = n
                BY <2>1, <2>2, <4>1
            <4>3. CASE h = NewHeader(n, t)
                BY <2>3, <2>4, <2>5, <4>3 DEF ControlId
            <4> QED BY <1>2, <2>2, <2>5, <4>1, <4>2, <4>3
        <3> QED BY <3>1, <3>2
    <2> QED BY <1>2, <2>2, <2>5 DEF SinkInv, ControlId
<1>5. ASSUME NEW f \in air,
             HandleReadHigh(f) \/ HandleReadAway(f) \/ HandleReadNear(f),
             OnPacketReceive(f.node, f.hdr)
      PROVE  SinkInv'
    <2>1. UNCHANGED <<seqNo, sentControl>>
        BY <1>5 DEF HandleReadHigh, HandleReadAway, HandleReadNear, FirstSight,
            OnPacketReceive
    <2>2. f.hdr \in Copies
        BY DEF Copies
    <2>3. rcvdControl' \subseteq sentControl'
        BY <1>2, <1>5, <2>1, <2>2 DEF OnPacketReceive
    <2> QED BY <1>3, <2>1, <2>3 DEF SinkInv, ControlId
<1>6. ASSUME Untraced, UNCHANGED sinkVars
      PROVE  SinkInv'
    <2>1. UNCHANGED <<seqNo, sentControl, rcvdControl>>
        BY <1>6 DEF Untraced, sinkVars, appVars, StartApplication,
            StopApplication, ResetStats, GroundSend, ForwardHigh, ForwardLow,
            ForwardNothing, HandleReadAgain, Ignore, Roam
    <2> QED BY <1>2, <1>3, <2>1 DEF SinkInv, ControlId
<1>7. CASE UNCHANGED scenarioVars
    <2>1. UNCHANGED <<seqNo, sentControl, rcvdControl>>
        BY <1>7 DEF scenarioVars, sinkVars, vars, appVars
    <2> QED BY <1>2, <1>3, <2>1 DEF SinkInv, ControlId
<1>8. SinkInv'
    <2>1. CASE \E e \in timers :
                  Send(e) /\ OnPacketSent(e.node, NewHeader(e.node, e.at))
        <3>1. PICK e \in timers :
                  Send(e) /\ OnPacketSent(e.node, NewHeader(e.node, e.at))
            BY <2>1, Zenon
        <3> QED BY <1>4, <3>1, Zenon
    <2>2. CASE \E f \in air :
                  /\ \/ HandleReadHigh(f)
                     \/ HandleReadAway(f)
                     \/ HandleReadNear(f)
                  /\ OnPacketReceive(f.node, f.hdr)
        <3>1. PICK f \in air :
                  /\ \/ HandleReadHigh(f)
                     \/ HandleReadAway(f)
                     \/ HandleReadNear(f)
                  /\ OnPacketReceive(f.node, f.hdr)
            BY <2>2, Zenon
        <3> QED BY <1>5, <3>1, Zenon
    <2>3. CASE Untraced /\ UNCHANGED sinkVars
        BY <1>6, <2>3
    <2>4. CASE ScenarioNext
        BY <2>1, <2>2, <2>3, <2>4, SMT DEF ScenarioNext
    <2> QED BY <1>7, <2>4 DEF SinkInv, ControlId
<1> QED BY <1>8 DEF SinkInv, ControlId

\* With one node per container no control number is received at the sink that
\* the reporting node has not sent, if the sink is the first ground station
\* and no other.
THEOREM DeliveryRatioHolds ==
    ASSUME Reporter = 0, Sink # 0,
           \A i \in 1 .. Len(GroundStations) :
               GroundStations[i] = Sink => i = 1
    PROVE  ScenarioSpec => []DeliveryRatioAtMostOne
<1>1. ScenarioInit => Init /\ SinkInv
    <2> SUFFICES ASSUME ScenarioInit PROVE SinkInv
        BY DEF ScenarioInit
    <2>1. Copies = {}
        BY DEF ScenarioInit, Init, NetworkInit, Copies
    <2> QED BY <2>1 DEF ScenarioInit, SinkInv
<1>2. TypeInv /\ SinkInv /\ [ScenarioNext]_scenarioVars => SinkInv'
    BY SinkStep
<1>3. SinkInv => DeliveryRatioAtMostOne
    BY DEF SinkInv, DeliveryRatioAtMostOne
<1>4. [ScenarioNext]_scenarioVars => [Next]_vars
    BY ScenarioStep
<1> QED BY <1>1, <1>2, <1>3, <1>4, TypeInvInvariant, PTL
        DEF Spec, ScenarioSpec

=============================================================================
