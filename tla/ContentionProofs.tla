--------------------------- MODULE ContentionProofs ---------------------------
(***************************************************************************)
(* Theorems about ContentionFlooding, for every network, every placement   *)
(* and every value of the attributes: a node forwards a packet at most     *)
(* once, relays yield to a relay in their range, and the application       *)
(* implements node discovery.                                              *)
(***************************************************************************)
EXTENDS ContentionFlooding, TLAPS

-----------------------------------------------------------------------------
(* The operators *)

\* A contention delay is a number.
LEMMA ContentionDelayNat ==
    ASSUME NEW x \in Int
    PROVE  ContentionDelay(x) \in Nat
<1>1. Jitter \in Nat /\ MaxDistance \in Nat \ {0}
    BY ContentionAssumption
<1>2. CASE x > MaxDistance
    BY <1>1, <1>2 DEF ContentionDelay
<1>3. CASE ~(x > MaxDistance)
    <2> DEFINE rest == MaxDistance - x
    <2>1. rest \in Nat
        BY <1>1, <1>3
    <2>2. Jitter * rest \in Nat
        BY <1>1, <2>1
    <2>3. (Jitter * rest) \div MaxDistance \in Nat
        BY <1>1, <2>2
    <2> QED BY <1>3, <2>3 DEF ContentionDelay
<1> QED BY <1>2, <1>3

\* An advance towards the origin is a number, perhaps a negative one.
LEMMA AdvanceInt ==
    ASSUME TypeOK, NEW f \in Frame
    PROVE  Advance(f) \in Int
<1>1. f.hdr.start \in Pos /\ f.hdr.last \in Pos /\ pos[f.node] \in Pos
    BY DEF Frame, Header, TypeOK
<1>2. \A p, q \in Pos : Dist[p][q] \in Nat
    BY SpaceAssumption
<1> QED BY <1>1, <1>2 DEF Advance

\* The packet a node creates is a packet, with that node as its source.
LEMMA NewHeaderType ==
    ASSUME TypeOK, NEW n \in Node
    PROVE  /\ NewHeader(n) \in Header
           /\ NewHeader(n).src = n
           /\ NewHeader(n).seq = seqNo[n]
           /\ NewHeader(n).lastHop = n
<1>1. pos[n] \in Pos /\ Cell[pos[n]] \in Pos /\ seqNo[n] \in Nat
    BY SpaceAssumption DEF TypeOK
<1> QED BY <1>1 DEF NewHeader, Wire, Header

\* A relayed packet keeps all that identifies it.
LEMMA RelayedType ==
    ASSUME TypeOK, NEW f \in Frame
    PROVE  /\ Relayed(f) \in Header
           /\ Relayed(f).src = f.hdr.src
           /\ Relayed(f).seq = f.hdr.seq
           /\ Relayed(f).lastHop = f.node
<1>1. f.hdr \in Header /\ f.node \in Node
    BY DEF Frame
<1>2. /\ pos[f.node] \in Pos /\ Cell[pos[f.node]] \in Pos
      /\ Cell[f.hdr.start] \in Pos
    BY <1>1, SpaceAssumption DEF TypeOK, Header
<1>3. f.hdr.hops + 1 \in Nat
    BY <1>1 DEF Header
<1> QED BY <1>1, <1>2, <1>3 DEF Relayed, Wire, Header

\* The callback of a frame is one for its packet, at its receiver.
LEMMA CallbackType ==
    ASSUME TypeOK, NEW f \in Frame, ScheduleForward(f)
    PROVE  \E c \in Callback :
               /\ pending' = pending \cup {c}
               /\ c.node = f.node /\ c.hdr = Relayed(f)
               /\ c.heard = f.at /\ c.at >= f.at
<1> DEFINE c == [node |-> f.node, hdr |-> Relayed(f), heard |-> f.at,
                 at |-> f.at + ContentionDelay(Advance(f))]
<1>1. f.node \in Node /\ f.at \in Nat
    BY DEF Frame
<1>2. ContentionDelay(Advance(f)) \in Nat
    BY AdvanceInt, ContentionDelayNat
<1>3. Relayed(f) \in Header
    BY RelayedType
<1>4. c \in Callback /\ c.at >= f.at
    BY <1>1, <1>2, <1>3 DEF Callback
<1>5. pending' = pending \cup {c}
    BY DEF ScheduleForward
<1> QED BY <1>4, <1>5

\* What a transmission puts on the air, and where.
LEMMA TransmitFrames ==
    ASSUME TypeOK, \A m \in Node : pos[m] \in Track[m],
           NEW n \in Node, NEW hdr \in Header,
           NEW via \in {"send", "forward"}, NEW t \in Nat,
           Transmit(n, hdr, via, t)
    PROVE  /\ air' \subseteq Frame
           /\ air \subseteq air'
           /\ \A f \in air' \ air :
                  /\ f.hdr = hdr /\ f.node # n /\ f.at > t
                  /\ <<n, f.node>> \in Link
           /\ life[n] = "up" /\ ~Lossy =>
                  \A m \in Node \ {n} :
                      AlwaysInRange(n, m) =>
                          \E d \in AirTime : \E f \in air' :
                              f.node = m /\ f.hdr = hdr /\ f.at = t + d
<1>1. CASE life[n] # "up"
    BY <1>1 DEF Transmit, TypeOK
<1>2. CASE life[n] = "up"
    <2>1. PICK who \in Hearers(n), d \in AirTime :
              air' = air \cup Frames(who, hdr, via, t + d)
        BY <1>2 DEF Transmit
    <2>2. \A m \in who : m \in Node \ {n} /\ Dist[pos[n]][pos[m]] <= RadioRange
        BY <2>1 DEF Hearers, InRange
    <2>3. \A m \in who : <<n, m>> \in Link
        BY <2>2 DEF Link
    <2>4. t + d \in Nat /\ t + d > t
        BY TimeAssumption
    <2>5. Frames(who, hdr, via, t + d) \subseteq Frame
        BY <2>2, <2>4 DEF Frames, Frame
    <2>6. \A f \in Frames(who, hdr, via, t + d) :
              /\ f.hdr = hdr /\ f.node # n /\ f.at > t
              /\ <<n, f.node>> \in Link
        BY <2>2, <2>3, <2>4 DEF Frames
    <2>7. ASSUME ~Lossy, NEW m \in Node \ {n}, AlwaysInRange(n, m)
          PROVE  \E f \in air' : f.node = m /\ f.hdr = hdr /\ f.at = t + d
        <3>1. who = InRange(n)
            BY <2>1, <2>7 DEF Hearers
        <3>2. m \in who
            BY <2>7, <3>1 DEF AlwaysInRange, InRange
        <3> DEFINE g == [node |-> m, hdr |-> hdr, via |-> via, at |-> t + d]
        <3>3. g \in air'
            BY <2>1, <3>2 DEF Frames
        <3> QED BY <3>3
    <2> QED BY <2>1, <2>5, <2>6, <2>7 DEF TypeOK
<1> QED BY <1>1, <1>2

-----------------------------------------------------------------------------
(* The invariant *)

\* Nodes stay on their tracks, and a node has all its own packets on its list.
OwnSeen ==
    /\ \A n \in Node : pos[n] \in Track[n]
    /\ \A n \in Node, k \in Nat : k < seqNo[n] => <<n, k>> \in seen[n]

\* A packet on the air was made by its source, and whoever transmitted it has
\* it on its list.
FramesGenuine ==
    \A f \in air :
        /\ f.hdr.seq < seqNo[f.hdr.src]
        /\ Id(f.hdr) \in seen[f.hdr.lastHop]
        /\ f.node # f.hdr.lastHop
        /\ <<f.hdr.lastHop, f.node>> \in Link

\* A callback is for a packet of another node that is on the list.
CallbacksGenuine ==
    \A c \in pending :
        /\ c.hdr.seq < seqNo[c.hdr.src]
        /\ Id(c.hdr) \in seen[c.node]
        /\ c.hdr.lastHop = c.node
        /\ c.hdr.src # c.node

\* So is a row of the log.
RowsGenuine ==
    \A r \in fwdTrace : r.node # r.src /\ <<r.src, r.seq>> \in seen[r.node]

\* A node has one callback or one row for a packet.
OneDuty ==
    /\ \A c1, c2 \in pending :
           c1.node = c2.node /\ Id(c1.hdr) = Id(c2.hdr) => c1 = c2
    /\ \A c \in pending, r \in fwdTrace :
           ~(c.node = r.node /\ Id(c.hdr) = <<r.src, r.seq>>)
    /\ \A r1, r2 \in fwdTrace :
           r1.node = r2.node /\ r1.src = r2.src /\ r1.seq = r2.seq => r1 = r2

IInv ==
    /\ TypeOK
    /\ OwnSeen
    /\ FramesGenuine
    /\ CallbacksGenuine
    /\ RowsGenuine
    /\ OneDuty

\* Nothing circulates before the applications start.
LEMMA InitIInv == Init => IInv
<1> SUFFICES ASSUME Init PROVE IInv
    OBVIOUS
<1>1. timers \subseteq Timer
    <2>1. PICK start \in [Node -> UNION {StartTimes[n] : n \in Node}] :
              /\ \A n \in Node : start[n] \in StartTimes[n]
              /\ timers = Timetable(start)
        BY DEF Init, NetworkInit
    <2>2. \A n \in Node : start[n] \in Nat /\ StopTime[n] \in Nat
        BY <2>1, TimeAssumption
    <2> QED BY <2>1, <2>2, TimeAssumption DEF Timetable, Timer, TimerKind, At
<1>2. pos \in [Node -> Pos]
    BY DEF Init, NetworkInit
<1>3. TypeOK
    BY <1>1, <1>2 DEF Init, NetworkInit, TypeOK
<1> QED BY <1>3 DEF Init, NetworkInit, IInv, OwnSeen, FramesGenuine,
        CallbacksGenuine, RowsGenuine, OneDuty

\* Steps that leave the protocol's memory and the log alone.
LEMMA KeptIInv ==
    ASSUME IInv, TypeOK', \A n \in Node : pos'[n] \in Track[n],
           air' \subseteq air, pending' \subseteq pending,
           UNCHANGED <<seqNo, seen, fwdTrace>>
    PROVE  IInv'
<1>1. OwnSeen' /\ RowsGenuine'
    BY DEF IInv, OwnSeen, RowsGenuine
<1>2. FramesGenuine'
    BY DEF IInv, FramesGenuine, Id, Link
<1>3. CallbacksGenuine'
    BY DEF IInv, CallbacksGenuine, Id
<1>4. OneDuty'
    BY DEF IInv, OneDuty, Id
<1> QED BY <1>1, <1>2, <1>3, <1>4 DEF IInv

\* A new packet circulates with its sender on the list.
LEMMA SendIInv ==
    ASSUME IInv, NEW e \in timers, Send(e)
    PROVE  IInv'
<1> DEFINE n == e.node
           hdr == NewHeader(n)
<1>1. n \in Node /\ e.at \in Nat /\ e \in Timer
    BY DEF IInv, TypeOK, Timer
<1>2. hdr \in Header /\ hdr.src = n /\ hdr.seq = seqNo[n] /\ hdr.lastHop = n
    BY <1>1, NewHeaderType DEF IInv
<1>3. /\ Transmit(n, hdr, "send", e.at) /\ now' = e.at
      /\ timers' = (timers \ {e}) \cup {At("send", n, e.at + SendInterval)}
      /\ seqNo' = [seqNo EXCEPT ![n] = @ + 1]
      /\ seen' = [seen EXCEPT ![n] = @ \cup {Id(hdr)}]
      /\ UNCHANGED <<pending, pos, life, twice, fwdTrace>>
    BY DEF Send, Expire, Execute, ScheduleTransmit
<1>4. At("send", n, e.at + SendInterval) \in Timer
    BY <1>1, TimeAssumption DEF At, Timer, TimerKind
<1>5. Id(hdr) = <<n, seqNo[n]>> /\ Id(hdr) \in PktId
    BY <1>1, <1>2 DEF Id, PktId, Header
<1> HIDE DEF hdr, n
<1>6. /\ air' \subseteq Frame
      /\ \A f \in air' \ air :
             f.hdr = hdr /\ f.node # n /\ <<n, f.node>> \in Link
    BY <1>1, <1>2, <1>3, TransmitFrames DEF IInv, OwnSeen
<1>7. /\ seqNo \in [Node -> Nat] /\ seqNo' \in [Node -> Nat]
      /\ seen \in [Node -> SUBSET PktId]
      /\ seqNo'[n] = seqNo[n] + 1
      /\ \A m \in Node : seqNo'[m] >= seqNo[m] /\ seen[m] \subseteq seen'[m]
      /\ \A m \in Node : m # n => seqNo'[m] = seqNo[m]
      /\ Id(hdr) \in seen'[n]
    BY <1>1, <1>3 DEF IInv, TypeOK
<1>8. TypeOK'
    BY <1>1, <1>3, <1>4, <1>5, <1>6, <1>7 DEF IInv, TypeOK
<1>9. OwnSeen'
    <2>1. ASSUME NEW m \in Node, NEW k \in Nat, k < seqNo'[m]
          PROVE  <<m, k>> \in seen'[m]
        <3>1. CASE k < seqNo[m]
            BY <1>7, <3>1 DEF IInv, OwnSeen
        <3>2. CASE ~(k < seqNo[m])
            <4>1. m = n /\ k = seqNo[n]
                BY <1>1, <1>7, <2>1, <3>2
            <4> QED BY <1>5, <1>7, <4>1
        <3> QED BY <3>1, <3>2
    <2> QED BY <1>3, <2>1 DEF IInv, OwnSeen
<1>10. FramesGenuine'
    <2> SUFFICES ASSUME NEW f \in air'
                 PROVE  /\ f.hdr.seq < seqNo'[f.hdr.src]
                        /\ Id(f.hdr) \in seen'[f.hdr.lastHop]
                        /\ f.node # f.hdr.lastHop
                        /\ <<f.hdr.lastHop, f.node>> \in Link
        BY DEF FramesGenuine, Id, Link
    <2>1. CASE f \in air
        <3>1. /\ f.hdr.src \in Node /\ f.hdr.lastHop \in Node
              /\ f.hdr.seq \in Nat
            BY <2>1 DEF IInv, TypeOK, Frame, Header
        <3>2. f.hdr.seq < seqNo'[f.hdr.src]
            <4>1. f.hdr.seq < seqNo[f.hdr.src]
                BY <2>1 DEF IInv, FramesGenuine
            <4>2. /\ seqNo[f.hdr.src] \in Nat /\ seqNo'[f.hdr.src] \in Nat
                  /\ seqNo'[f.hdr.src] >= seqNo[f.hdr.src]
                BY <1>7, <3>1
            <4> QED BY <3>1, <4>1, <4>2
        <3>3. /\ Id(f.hdr) \in seen[f.hdr.lastHop] /\ f.node # f.hdr.lastHop
              /\ <<f.hdr.lastHop, f.node>> \in Link
            BY <2>1 DEF IInv, FramesGenuine
        <3>4. Id(f.hdr) \in seen'[f.hdr.lastHop]
            BY <1>7, <3>1, <3>3
        <3> QED BY <3>2, <3>3, <3>4
    <2>2. CASE f \in air' \ air
        <3>1. f.hdr = hdr /\ f.node # n /\ <<n, f.node>> \in Link
            BY <1>6, <2>2
        <3>2. hdr.seq < seqNo'[n]
            BY <1>1, <1>2, <1>7
        <3> QED BY <1>2, <1>7, <3>1, <3>2
    <2> QED BY <2>1, <2>2
<1>11. CallbacksGenuine'
    <2> SUFFICES ASSUME NEW c \in pending
                 PROVE  /\ c.hdr.seq < seqNo'[c.hdr.src]
                        /\ Id(c.hdr) \in seen'[c.node]
        BY <1>3 DEF IInv, CallbacksGenuine, Id
    <2>1. c.hdr.src \in Node /\ c.node \in Node /\ c.hdr.seq \in Nat
        BY DEF IInv, TypeOK, Callback, Header
    <2>2. c.hdr.seq < seqNo[c.hdr.src] /\ Id(c.hdr) \in seen[c.node]
        BY DEF IInv, CallbacksGenuine
    <2> QED BY <1>7, <2>1, <2>2
<1>12. RowsGenuine'
    BY <1>3, <1>7 DEF IInv, TypeOK, TraceRow, RowsGenuine
<1>13. OneDuty'
    BY <1>3 DEF IInv, OneDuty, Id
<1> QED BY <1>8, <1>9, <1>10, <1>11, <1>12, <1>13 DEF IInv

\* A forwarded packet is one that circulated already.
LEMMA ForwardIInv ==
    ASSUME IInv, NEW c \in pending, Forward(c)
    PROVE  IInv'
<1> DEFINE n == c.node
           row == [node |-> c.node, src |-> c.hdr.src, seq |-> c.hdr.seq,
                   heard |-> c.heard, at |-> c.at]
<1>1. /\ n \in Node /\ c.at \in Nat /\ c.hdr \in Header
      /\ c.hdr.src \in Node /\ c.hdr.seq \in Nat /\ row \in TraceRow
    BY DEF IInv, TypeOK, Callback, Header, TraceRow
<1>2. /\ Transmit(n, c.hdr, "forward", c.at) /\ now' = c.at
      /\ fwdTrace' = fwdTrace \cup {row}
      /\ pending' = pending \ {c}
      /\ UNCHANGED <<timers, pos, life, seqNo, seen, twice>>
    BY DEF Forward, Release, Execute
<1>3. /\ c.hdr.seq < seqNo[c.hdr.src] /\ Id(c.hdr) \in seen[n]
      /\ c.hdr.lastHop = n /\ c.hdr.src # n
      /\ Id(c.hdr) = <<row.src, row.seq>> /\ row.node = n
    BY DEF IInv, CallbacksGenuine, Id
<1>4. /\ air' \subseteq Frame
      /\ \A f \in air' \ air :
             f.hdr = c.hdr /\ f.node # n /\ <<n, f.node>> \in Link
    BY <1>1, <1>2, TransmitFrames DEF IInv, OwnSeen
<1>5. row.src = c.hdr.src /\ row.seq = c.hdr.seq
    OBVIOUS
<1> HIDE DEF n, row
<1>6. TypeOK'
    BY <1>1, <1>2, <1>4 DEF IInv, TypeOK
<1>7. OwnSeen'
    BY <1>2 DEF IInv, OwnSeen
<1>8. FramesGenuine'
    BY <1>2, <1>3, <1>4 DEF IInv, FramesGenuine, Id, Link
<1>9. CallbacksGenuine'
    BY <1>2 DEF IInv, CallbacksGenuine, Id
<1>10. RowsGenuine'
    BY <1>2, <1>3, <1>5 DEF IInv, RowsGenuine
<1>11. OneDuty'
    <2>1. \A c1, c2 \in pending' :
              c1.node = c2.node /\ Id(c1.hdr) = Id(c2.hdr) => c1 = c2
        BY <1>2 DEF IInv, OneDuty
    <2>2. ASSUME NEW d \in pending', NEW r \in fwdTrace'
          PROVE  ~(d.node = r.node /\ Id(d.hdr) = <<r.src, r.seq>>)
        <3>1. CASE r \in fwdTrace
            BY <1>2, <3>1 DEF IInv, OneDuty
        <3>2. CASE r = row
            <4>1. d \in pending /\ d # c
                BY <1>2
            <4> QED BY <1>3, <3>2, <4>1 DEF IInv, OneDuty, n
        <3> QED BY <1>2, <3>1, <3>2
    <2>3. \A r1, r2 \in fwdTrace' :
              r1.node = r2.node /\ r1.src = r2.src /\ r1.seq = r2.seq
                  => r1 = r2
        <3>1. \A r \in fwdTrace :
                  ~(n = r.node /\ Id(c.hdr) = <<r.src, r.seq>>)
            BY DEF IInv, OneDuty, n
        <3> QED BY <1>2, <1>3, <3>1 DEF IInv, OneDuty
    <2> QED BY <2>1, <2>2, <2>3 DEF OneDuty, Id
<1> QED BY <1>6, <1>7, <1>8, <1>9, <1>10, <1>11 DEF IInv

\* A reception puts the packet on the list and may schedule a callback.
LEMMA ReadIInv ==
    ASSUME IInv, NEW f \in air, HandleReadNew(f)
    PROVE  IInv'
<1> DEFINE n == f.node
<1>1. /\ f \in Frame /\ n \in Node /\ f.hdr \in Header /\ f.at \in Nat
      /\ f.hdr.src \in Node /\ f.hdr.seq \in Nat /\ f.hdr.lastHop \in Node
    BY DEF IInv, TypeOK, Frame, Header
<1>2. /\ air' = air \ {f} /\ now' = f.at /\ Id(f.hdr) \notin seen[n]
      /\ seen' = [seen EXCEPT ![n] = @ \cup {Id(f.hdr)}]
      /\ UNCHANGED <<timers, pos, life, seqNo, twice, fwdTrace>>
    BY DEF HandleReadNew, Arrive, Execute
<1>3. PICK c \in Callback :
          /\ pending' = pending \cup {c}
          /\ c.node = n /\ c.hdr = Relayed(f)
    BY <1>1, CallbackType DEF IInv, HandleReadNew
<1>4. /\ c.hdr.src = f.hdr.src /\ c.hdr.seq = f.hdr.seq /\ c.hdr.lastHop = n
      /\ Id(c.hdr) = Id(f.hdr)
    BY <1>1, <1>3, RelayedType DEF IInv, Id
<1>5. f.hdr.src # n
    <2>1. f.hdr.seq < seqNo[f.hdr.src]
        BY DEF IInv, FramesGenuine
    <2> QED BY <1>1, <1>2, <2>1 DEF IInv, OwnSeen, Id
<1> HIDE DEF n
<1>6. /\ seen \in [Node -> SUBSET PktId] /\ Id(f.hdr) \in PktId
      /\ \A m \in Node : seen[m] \subseteq seen'[m]
      /\ Id(f.hdr) \in seen'[n]
    BY <1>1, <1>2 DEF IInv, TypeOK, Id, PktId
<1>7. TypeOK'
    BY <1>1, <1>2, <1>3, <1>6 DEF IInv, TypeOK
<1>8. OwnSeen'
    BY <1>2, <1>6 DEF IInv, OwnSeen
<1>9. FramesGenuine'
    <2> SUFFICES ASSUME NEW g \in air'
                 PROVE  Id(g.hdr) \in seen'[g.hdr.lastHop]
        BY <1>2 DEF IInv, FramesGenuine, Id, Link
    <2>1. g \in air /\ g.hdr.lastHop \in Node
        BY <1>2 DEF IInv, TypeOK, Frame, Header
    <2> QED BY <1>6, <2>1 DEF IInv, FramesGenuine
<1>10. CallbacksGenuine'
    <2> SUFFICES ASSUME NEW d \in pending'
                 PROVE  /\ d.hdr.seq < seqNo[d.hdr.src]
                        /\ Id(d.hdr) \in seen'[d.node]
                        /\ d.hdr.lastHop = d.node
                        /\ d.hdr.src # d.node
        BY <1>2 DEF CallbacksGenuine, Id
    <2>1. CASE d \in pending
        <3>1. d.node \in Node
            BY <2>1 DEF IInv, TypeOK, Callback
        <3> QED BY <1>6, <2>1, <3>1 DEF IInv, CallbacksGenuine
    <2>2. CASE d = c
        <3>1. f.hdr.seq < seqNo[f.hdr.src]
            BY DEF IInv, FramesGenuine
        <3> QED BY <1>3, <1>4, <1>5, <1>6, <2>2, <3>1
    <2> QED BY <1>3, <2>1, <2>2
<1>11. RowsGenuine'
    BY <1>2, <1>6 DEF IInv, TypeOK, TraceRow, RowsGenuine
<1>12. OneDuty'
    <2>1. \A d \in pending : ~(d.node = n /\ Id(d.hdr) = Id(c.hdr))
        BY <1>2, <1>4 DEF IInv, CallbacksGenuine
    <2>2. \A r \in fwdTrace : ~(r.node = n /\ Id(c.hdr) = <<r.src, r.seq>>)
        BY <1>2, <1>4 DEF IInv, RowsGenuine
    <2>3. \A c1, c2 \in pending' :
              c1.node = c2.node /\ Id(c1.hdr) = Id(c2.hdr) => c1 = c2
        BY <1>3, <2>1 DEF IInv, OneDuty
    <2>4. \A d \in pending', r \in fwdTrace' :
              ~(d.node = r.node /\ Id(d.hdr) = <<r.src, r.seq>>)
        BY <1>2, <1>3, <2>2 DEF IInv, OneDuty
    <2> QED BY <1>2, <2>3, <2>4 DEF IInv, OneDuty, Id
<1> QED BY <1>7, <1>8, <1>9, <1>10, <1>11, <1>12 DEF IInv

\* The other steps.
LEMMA OtherIInv ==
    ASSUME IInv,
           \/ \E e \in timers : StartApplication(e) \/ StopApplication(e)
           \/ \E c \in pending : ForwardNothing(c)
           \/ \E f \in air : HandleReadAgain(f) \/ Ignore(f)
           \/ \E n \in Node : Move(n) /\ UNCHANGED appVars
           \/ UNCHANGED vars
    PROVE  IInv'
<1>1. ASSUME NEW e \in timers, StartApplication(e) \/ StopApplication(e)
      PROVE  IInv'
    <2>1. e \in Timer /\ e.node \in Node /\ e.at \in Nat
        BY DEF IInv, TypeOK, Timer
    <2>2. At("send", e.node, e.at + SendInterval) \in Timer
        BY <2>1, TimeAssumption DEF At, Timer, TimerKind
    <2>3. TypeOK'
        BY <1>1, <2>1, <2>2 DEF StartApplication, StopApplication, OpenSocket,
            CloseSocket, Expire, Execute, ScheduleTransmit, appVars, IInv,
            TypeOK
    <2> QED BY <1>1, <2>3, KeptIInv DEF StartApplication, StopApplication,
            OpenSocket, CloseSocket, appVars, IInv, OwnSeen
<1>2. ASSUME NEW c \in pending, ForwardNothing(c)
      PROVE  IInv'
    <2>1. TypeOK'
        BY <1>2 DEF ForwardNothing, Release, Execute, appVars, IInv, TypeOK,
            Callback
    <2> QED BY <1>2, <2>1, KeptIInv DEF ForwardNothing, Release, appVars,
            IInv, OwnSeen
<1>3. ASSUME NEW f \in air, HandleReadAgain(f)
      PROVE  IInv'
    <2>1. f.hdr.src \in Node /\ f.hdr.seq \in Nat /\ f.at \in Nat
        BY DEF IInv, TypeOK, Frame, Header
    <2>2. Id(f.hdr) \in PktId
        BY <2>1 DEF Id, PktId
    <2>3. TypeOK'
        BY <1>3, <2>1, <2>2 DEF HandleReadAgain, Arrive, Execute, IInv, TypeOK
    <2> QED BY <1>3, <2>3, KeptIInv DEF HandleReadAgain, Arrive, IInv, OwnSeen
<1>4. ASSUME NEW f \in air, Ignore(f)
      PROVE  IInv'
    <2>1. TypeOK'
        BY <1>4 DEF Ignore, Drop, Execute, appVars, IInv, TypeOK, Frame
    <2> QED BY <1>4, <2>1, KeptIInv DEF Ignore, Drop, appVars, IInv, OwnSeen
<1>5. ASSUME NEW n \in Node, Move(n), UNCHANGED appVars
      PROVE  IInv'
    <2>1. \A m \in Node : pos'[m] \in Track[m]
        BY <1>5 DEF Move, IInv, TypeOK, OwnSeen
    <2>2. pos' \in [Node -> Pos]
        BY <1>5, SpaceAssumption DEF Move, IInv, TypeOK
    <2>3. TypeOK'
        BY <1>5, <2>2 DEF Move, appVars, IInv, TypeOK
    <2> QED BY <1>5, <2>1, <2>3, KeptIInv DEF Move, appVars
<1>6. CASE UNCHANGED vars
    BY <1>6, KeptIInv DEF vars, networkVars, appVars, IInv, OwnSeen, TypeOK
<1> QED BY <1>1, <1>2, <1>3, <1>4, <1>5, <1>6

\* Every action preserves the invariant.
LEMMA StepIInv == IInv /\ [Next]_vars => IInv'
<1> SUFFICES ASSUME IInv, [Next]_vars PROVE IInv'
    OBVIOUS
<1>1. ASSUME NEW e \in timers, Send(e) PROVE IInv'
    BY <1>1, SendIInv
<1>2. ASSUME NEW c \in pending, Forward(c) PROVE IInv'
    BY <1>2, ForwardIInv
<1>3. ASSUME NEW f \in air, HandleReadNew(f) PROVE IInv'
    BY <1>3, ReadIInv
<1> QED BY <1>1, <1>2, <1>3, OtherIInv DEF Next

\* The invariant holds in every state.
LEMMA ContentionInvariant == Spec => []IInv
<1> QED BY InitIInv, StepIInv, PTL DEF Spec

-----------------------------------------------------------------------------
\* Every variable of the application and of the network keeps its type.
THEOREM ContentionTypeCorrect == Spec => []TypeOK
<1>1. IInv => TypeOK
    BY DEF IInv
<1> QED BY <1>1, ContentionInvariant, PTL

\* A node forwards a packet at most once, and never its own: whatever the
\* order in which copies arrive, callbacks run and the socket is closed.
THEOREM ForwardedOnce == Spec => []ForwardsOnce
<1>1. IInv => ForwardsOnce
    BY DEF IInv, RowsGenuine, OneDuty, ForwardsOnce
<1> QED BY <1>1, ContentionInvariant, PTL

-----------------------------------------------------------------------------
(* Refinement *)

\* A packet sent announces its source, a first sight discovers one, and no
\* other step changes what is known.
LEMMA DiscoveryStep == IInv /\ [Next]_vars => [Discovery!Next]_Known
<1> SUFFICES ASSUME IInv, [Next]_vars
             PROVE  Discovery!Next \/ Known' = Known
    OBVIOUS
<1>1. CASE UNCHANGED seen
    BY <1>1 DEF Known
<1> DEFINE Noted(n, id) == seen' = [seen EXCEPT ![n] = @ \cup {id}]
<1>2. ASSUME NEW n \in Node, NEW s \in Node, NEW k, Noted(n, <<s, k>>)
      PROVE  /\ Known' = [Known EXCEPT ![n] = @ \cup {s}]
             /\ s \in Known[n] => Known' = Known
    <2>1. seen \in [Node -> SUBSET PktId]
        BY DEF IInv, TypeOK
    <2>2. \A m \in Node :
              seen'[m] = IF m = n THEN seen[m] \cup {<<s, k>>} ELSE seen[m]
        BY <1>2, <2>1
    <2>3. \A m \in Node :
              Known'[m] = IF m = n THEN Known[m] \cup {s} ELSE Known[m]
        <3> SUFFICES ASSUME NEW m \in Node
                     PROVE  Known'[m] = IF m = n THEN Known[m] \cup {s}
                                        ELSE Known[m]
            OBVIOUS
        <3>1. /\ Known'[m] = {r \in Node : \E id \in seen'[m] : id[1] = r}
              /\ Known[m] = {r \in Node : \E id \in seen[m] : id[1] = r}
            BY DEF Known
        <3>2. CASE m = n
            <4>1. seen'[n] = seen[n] \cup {<<s, k>>}
                BY <2>2
            <4>2. \A r \in Node : (\E id \in seen'[n] : id[1] = r) <=>
                                   (\E id \in seen[n] : id[1] = r) \/ r = s
                <5>1. <<s, k>>[1] = s
                    OBVIOUS
                <5> DEFINE new == <<s, k>>
                <5> HIDE DEF new
                <5>2. \A id : id \in seen'[n] <=> id \in seen[n] \/ id = new
                    BY <4>1 DEF new
                <5> QED BY <5>1, <5>2 DEF new
            <4> QED BY <1>2, <3>1, <3>2, <4>2
        <3>3. CASE m # n
            BY <2>2, <3>1, <3>3
        <3> QED BY <3>2, <3>3
    <2>4. Known' = [Known EXCEPT ![n] = @ \cup {s}]
        BY <2>3 DEF Known
    <2>5. ASSUME s \in Known[n] PROVE Known' = Known
        <3>1. Known[n] \cup {s} = Known[n]
            BY <2>5
        <3>2. Known = [m \in Node |-> Known[m]]
            BY DEF Known
        <3> QED BY <2>4, <3>1, <3>2
    <2> QED BY <2>4, <2>5
<1>3. ASSUME NEW e \in timers, Send(e)
      PROVE  Discovery!Next \/ Known' = Known
    <2>1. e.node \in Node
        BY DEF IInv, TypeOK, Timer
    <2>2. Noted(e.node, <<e.node, seqNo[e.node]>>)
        BY <1>3, <2>1, NewHeaderType DEF Send, Id, IInv
    <2> HIDE DEF Noted
    <2>3. /\ Known' = [Known EXCEPT ![e.node] = @ \cup {e.node}]
          /\ e.node \in Known[e.node] => Known' = Known
        BY <1>2, <2>1, <2>2
    <2> QED BY <2>1, <2>3 DEF Discovery!Next, Discovery!Announce
<1>4. ASSUME NEW f \in air, HandleReadNew(f)
      PROVE  Discovery!Next \/ Known' = Known
    <2> DEFINE n == f.node
               s == f.hdr.src
               m == f.hdr.lastHop
    <2>1. n \in Node /\ s \in Node /\ m \in Node
        BY DEF IInv, TypeOK, Frame, Header
    <2>2. Noted(n, <<s, f.hdr.seq>>)
        BY <1>4 DEF HandleReadNew, Id
    <2>3. <<s, f.hdr.seq>> \in seen[m] /\ n # m /\ <<m, n>> \in Link
        BY DEF IInv, FramesGenuine, Id
    <2> HIDE DEF n, s, m
    <2>4. s \in Known[m]
        BY <2>1, <2>3 DEF Known
    <2> HIDE DEF Noted
    <2>5. /\ Known' = [Known EXCEPT ![n] = @ \cup {s}]
          /\ s \in Known[n] => Known' = Known
        BY <1>2, <2>1, <2>2
    <2> QED BY <2>1, <2>3, <2>4, <2>5 DEF Discovery!Next, Discovery!Discover
<1> QED BY <1>1, <1>3, <1>4 DEF Next, vars, appVars, StartApplication,
        StopApplication, Forward, ForwardNothing, HandleReadAgain, Ignore

\* Contention-based flooding implements node discovery.
THEOREM ContentionImplementsDiscovery == Spec => DiscoversNodes
<1>1. Init => Discovery!Init
    BY DEF Init, Discovery!Init, Known
<1>2. IInv /\ [Next]_vars => [Discovery!Next]_Known
    BY DiscoveryStep
<1> QED BY <1>1, <1>2, ContentionInvariant, PTL
        DEF Spec, DiscoversNodes, Discovery!Spec

-----------------------------------------------------------------------------
(* Yielding *)

\* Nothing is scheduled in the past, and what is logged has happened.
TimeInv ==
    /\ \A e \in Agenda : now <= e.at
    /\ \A r \in fwdTrace : r.at <= now

\* An application starts once, and a node that relays has started.
LifeInv ==
    /\ \A e \in timers : e.kind = "start" => life[e.node] = "idle"
    /\ \A e1, e2 \in timers :
           e1.kind = "start" /\ e2.kind = "start" /\ e1.node = e2.node
               => e1 = e2
    /\ \A c \in pending : life[c.node] # "idle"
    /\ \A r \in fwdTrace : life[r.node] # "idle"

\* Node m is to hear the transmission that row r logs.
Due(r, m) ==
    /\ ~Lossy
    /\ m # r.node
    /\ AlwaysInRange(r.node, m)
    /\ life[r.node] = "up"
    /\ life[m] # "closed"

\* The copy is still on its way.
OnItsWay(r, m) ==
    \E d \in AirTime, f \in air :
        f.node = m /\ Id(f.hdr) = <<r.src, r.seq>> /\ f.at = r.at + d

\* The copy has come as a further one, and m does not forward any more.
Yielded(r, m) ==
    /\ <<r.src, r.seq>> \in twice[m]
    /\ \E d \in AirTime :
           \A s \in fwdTrace :
               s.node = m /\ s.src = r.src /\ s.seq = r.seq => s.at <= r.at + d

\* m had not heard the packet when it was forwarded.
TooLate(r, m) ==
    /\ now > r.at
    /\ \A c \in pending :
           c.node = m /\ Id(c.hdr) = <<r.src, r.seq>> => c.heard > r.at
    /\ \A s \in fwdTrace :
           s.node = m /\ s.src = r.src /\ s.seq = r.seq => s.heard > r.at

YieldInv ==
    \A r \in fwdTrace, m \in Node :
        Due(r, m) => OnItsWay(r, m) \/ Yielded(r, m) \/ TooLate(r, m)

\* Nothing has been transmitted yet.
LEMMA InitYield == Init => TimeInv /\ LifeInv /\ YieldInv
<1> SUFFICES ASSUME Init PROVE TimeInv /\ LifeInv /\ YieldInv
    OBVIOUS
<1>1. PICK start \in [Node -> UNION {StartTimes[n] : n \in Node}] :
          /\ \A n \in Node : start[n] \in StartTimes[n]
          /\ timers = Timetable(start)
    BY DEF Init, NetworkInit
<1>2. \A n \in Node : start[n] \in Nat /\ StopTime[n] \in Nat
    BY <1>1, TimeAssumption
<1>3. \A e \in timers : e.at \in Nat /\ e.node \in Node
    BY <1>1, <1>2, TimeAssumption DEF Timetable, At
<1>4. \A e \in timers : e.kind = "start" => e = At("start", e.node, start[e.node])
    BY <1>1 DEF Timetable, At
<1>5. TimeInv
    BY <1>3 DEF Init, NetworkInit, TimeInv, Agenda
<1>6. LifeInv
    BY <1>3, <1>4 DEF Init, NetworkInit, LifeInv
<1>7. YieldInv
    BY DEF Init, YieldInv
<1> QED BY <1>5, <1>6, <1>7

\* Every action keeps events and log rows on their side of the clock.
LEMMA TimeStep == IInv /\ TimeInv /\ [Next]_vars => TimeInv'
<1> SUFFICES ASSUME IInv, TimeInv, [Next]_vars PROVE TimeInv'
    OBVIOUS
<1>1. /\ \A e \in Agenda : e.at \in Nat
      /\ \A r \in fwdTrace : r.at \in Nat
      /\ now \in Nat
    BY DEF IInv, TypeOK, Agenda, Timer, Frame, Callback, TraceRow
<1>2. ASSUME NEW e \in Agenda, now' = e.at,
             \A g \in Agenda : e.at <= g.at,
             \A g \in Agenda' \ Agenda : e.at <= g.at,
             \A r \in fwdTrace' \ fwdTrace : r.at = e.at
      PROVE  TimeInv'
    <2>1. \A g \in Agenda' : now' <= g.at
        BY <1>2
    <2>2. \A r \in fwdTrace' : r.at <= now'
        BY <1>1, <1>2 DEF TimeInv
    <2> QED BY <2>1, <2>2 DEF TimeInv
<1>3. ASSUME NEW e \in timers, StartApplication(e) \/ StopApplication(e)
      PROVE  TimeInv'
    <2>1. /\ Execute(e) /\ e.at \in Nat /\ e \in Agenda
          /\ UNCHANGED <<air, pending, fwdTrace>>
          /\ timers' \subseteq timers \cup
                 {At("send", e.node, e.at + SendInterval)}
        BY <1>1, <1>3 DEF StartApplication, StopApplication, OpenSocket,
            CloseSocket, Expire, ScheduleTransmit, appVars, Agenda
    <2>2. \A g \in Agenda' \ Agenda : e.at <= g.at
        BY <2>1, TimeAssumption DEF Agenda, At
    <2> QED BY <1>2, <2>1, <2>2 DEF Execute
<1>4. ASSUME NEW e \in timers, Send(e)
      PROVE  TimeInv'
    <2>1. /\ Execute(e) /\ e.at \in Nat /\ e \in Agenda /\ e.node \in Node
          /\ UNCHANGED <<pending, fwdTrace>>
          /\ timers' \subseteq timers \cup
                 {At("send", e.node, e.at + SendInterval)}
          /\ Transmit(e.node, NewHeader(e.node), "send", e.at)
        BY <1>1, <1>4 DEF Send, Expire, ScheduleTransmit, Agenda, IInv,
            TypeOK, Timer
    <2>2. \A f \in air' \ air : f.at > e.at
        BY <2>1, NewHeaderType, TransmitFrames DEF IInv, OwnSeen
    <2>3. air' \subseteq Frame
        BY <2>1, NewHeaderType, TransmitFrames DEF IInv, OwnSeen
    <2>4. \A g \in Agenda' \ Agenda : e.at <= g.at
        BY <2>1, <2>2, <2>3, TimeAssumption DEF Agenda, At, Frame
    <2> QED BY <1>2, <2>1, <2>4 DEF Execute
<1>5. ASSUME NEW c \in pending, Forward(c) \/ ForwardNothing(c)
      PROVE  TimeInv'
    <2>1. /\ Execute(c) /\ c \in Agenda /\ c.at \in Nat /\ c.node \in Node
          /\ c.hdr \in Header
          /\ timers' = timers /\ pending' \subseteq pending
        BY <1>1, <1>5 DEF Forward, ForwardNothing, Release, Agenda, IInv,
            TypeOK, Callback
    <2>2. \A f \in air' \ air : f \in Frame /\ f.at > c.at
        <3>1. CASE Forward(c)
            BY <2>1, <3>1, TransmitFrames DEF Forward, IInv, OwnSeen
        <3>2. CASE ForwardNothing(c)
            BY <3>2 DEF ForwardNothing
        <3> QED BY <1>5, <3>1, <3>2
    <2>3. \A g \in Agenda' \ Agenda : c.at <= g.at
        BY <2>1, <2>2 DEF Agenda, Frame
    <2>4. \A r \in fwdTrace' \ fwdTrace : r.at = c.at
        BY <1>5 DEF Forward, ForwardNothing, appVars
    <2> QED BY <1>2, <2>1, <2>3, <2>4 DEF Execute
<1>6. ASSUME NEW f \in air,
             HandleReadNew(f) \/ HandleReadAgain(f) \/ Ignore(f)
      PROVE  TimeInv'
    <2>1. /\ Execute(f) /\ f \in Agenda /\ f.at \in Nat /\ f \in Frame
          /\ timers' = timers /\ air' \subseteq air /\ fwdTrace' = fwdTrace
        BY <1>1, <1>6 DEF HandleReadNew, HandleReadAgain, Ignore, Arrive,
            Drop, appVars, Agenda, IInv, TypeOK
    <2>2. \A c \in pending' \ pending : c.at >= f.at /\ c \in Callback
        <3>1. CASE HandleReadNew(f)
            BY <2>1, <3>1, CallbackType DEF HandleReadNew, IInv
        <3>2. CASE HandleReadAgain(f) \/ Ignore(f)
            BY <3>2 DEF HandleReadAgain, Ignore, Drop
        <3> QED BY <1>6, <3>1, <3>2
    <2>3. \A g \in Agenda' \ Agenda : f.at <= g.at
        BY <2>1, <2>2 DEF Agenda, Callback
    <2> QED BY <1>2, <2>1, <2>3 DEF Execute
<1>7. CASE \/ \E n \in Node : Move(n) /\ UNCHANGED appVars
           \/ UNCHANGED vars
    BY <1>7 DEF Move, vars, networkVars, appVars, TimeInv, Agenda
<1> QED BY <1>3, <1>4, <1>5, <1>6, <1>7 DEF Next

\* The clock does not go back.
LEMMA ClockStep == IInv /\ TimeInv /\ [Next]_vars => now' \in Nat /\ now <= now'
<1> SUFFICES ASSUME IInv, TimeInv, [Next]_vars
             PROVE  now' \in Nat /\ now <= now'
    OBVIOUS
<1>1. now \in Nat /\ \A e \in Agenda : e.at \in Nat /\ now <= e.at
    BY DEF IInv, TypeOK, Agenda, Timer, Frame, Callback, TimeInv
<1>2. (\E e \in Agenda : now' = e.at) \/ now' = now
    BY DEF Next, vars, networkVars, StartApplication, StopApplication, Send,
       OpenSocket, CloseSocket, Forward, ForwardNothing, HandleReadNew,
       HandleReadAgain, Ignore, Expire, Release, Arrive, Drop, Move, Execute,
       Agenda
<1> QED BY <1>1, <1>2

\* An application starts once, and transmits nothing before.
LEMMA LifeStep == IInv /\ LifeInv /\ [Next]_vars => LifeInv'
<1> SUFFICES ASSUME IInv, LifeInv, [Next]_vars PROVE LifeInv'
    OBVIOUS
<1>1. /\ life \in [Node -> {"idle", "up", "closed"}]
      /\ \A e \in timers : e.node \in Node
      /\ \A c \in pending : c.node \in Node
      /\ \A f \in air : f.node \in Node
      /\ \A r \in fwdTrace : r.node \in Node
    BY DEF IInv, TypeOK, Timer, Callback, Frame, TraceRow
<1>2. ASSUME \A e \in timers' : e.kind = "start" => e \in timers,
             life' = life,
             \A c \in pending' : c \in pending \/ life[c.node] # "idle",
             \A r \in fwdTrace' : r \in fwdTrace \/ life[r.node] # "idle"
      PROVE  LifeInv'
    BY <1>2 DEF LifeInv
<1>3. ASSUME NEW e \in timers, StartApplication(e)
      PROVE  LifeInv'
    <2>1. /\ timers' = (timers \ {e})
                  \cup {At("send", e.node, e.at + SendInterval)}
          /\ life' = [life EXCEPT ![e.node] = "up"]
          /\ UNCHANGED <<pending, fwdTrace>> /\ e.kind = "start"
        BY <1>3 DEF StartApplication, OpenSocket, Expire, ScheduleTransmit,
            appVars
    <2>2. \A g \in timers' : g.kind = "start" => g \in timers /\ g # e
        BY <2>1 DEF At
    <2>3. \A g \in timers' : g.kind = "start" => g.node # e.node
        BY <2>1, <2>2 DEF LifeInv
    <2> QED BY <1>1, <2>1, <2>2, <2>3 DEF LifeInv
<1>4. ASSUME NEW e \in timers, StopApplication(e)
      PROVE  LifeInv'
    <2>1. /\ timers' \subseteq timers
          /\ \/ life' = life
             \/ life[e.node] = "up" /\ life' = [life EXCEPT ![e.node] = "closed"]
          /\ UNCHANGED <<pending, fwdTrace>>
        BY <1>4 DEF StopApplication, CloseSocket, appVars
    <2> QED BY <1>1, <2>1 DEF LifeInv
<1>5. ASSUME NEW e \in timers, Send(e)
      PROVE  LifeInv'
    <2>1. \A g \in timers' : g.kind = "start" => g \in timers
        BY <1>5 DEF Send, ScheduleTransmit, At
    <2> QED BY <1>2, <1>5, <2>1 DEF Send
<1>6. ASSUME NEW c \in pending, Forward(c) \/ ForwardNothing(c)
      PROVE  LifeInv'
    <2>1. \A r \in fwdTrace' : r \in fwdTrace \/ r.node = c.node
        BY <1>6 DEF Forward, ForwardNothing, appVars
    <2>2. life[c.node] # "idle"
        BY DEF LifeInv
    <2> QED BY <1>2, <1>6, <2>1, <2>2 DEF Forward, ForwardNothing, Release
<1>7. ASSUME NEW f \in air,
             HandleReadNew(f) \/ HandleReadAgain(f) \/ Ignore(f)
      PROVE  LifeInv'
    <2>1. /\ timers' = timers /\ life' = life /\ fwdTrace' = fwdTrace
        BY <1>7 DEF HandleReadNew, HandleReadAgain, Ignore, Drop, appVars
    <2>2. \A c \in pending' : c \in pending \/ life[c.node] # "idle"
        <3>1. CASE HandleReadNew(f)
            BY <3>1 DEF HandleReadNew, ScheduleForward, Arrive
        <3>2. CASE HandleReadAgain(f) \/ Ignore(f)
            BY <3>2 DEF HandleReadAgain, Ignore, Drop
        <3> QED BY <1>7, <3>1, <3>2
    <2> QED BY <1>2, <2>1, <2>2
<1>8. CASE \/ \E n \in Node : Move(n) /\ UNCHANGED appVars
           \/ UNCHANGED vars
    BY <1>8, <1>2 DEF Move, vars, networkVars, appVars
<1> QED BY <1>3, <1>4, <1>5, <1>6, <1>7, <1>8 DEF Next

\* Steps that take nothing from the air and add no duty.
LEMMA YieldKept ==
    ASSUME IInv, YieldInv, now' \in Nat, now <= now',
           \A r \in fwdTrace, m \in Node : Due(r, m)' => Due(r, m),
           air \subseteq air', pending' \subseteq pending,
           UNCHANGED <<twice, fwdTrace>>
    PROVE  YieldInv'
<1> SUFFICES ASSUME NEW r \in fwdTrace, NEW m \in Node, Due(r, m)
             PROVE  OnItsWay(r, m)' \/ Yielded(r, m)' \/ TooLate(r, m)'
    BY DEF YieldInv
<1>1. r.at \in Nat /\ now \in Nat
    BY DEF IInv, TypeOK, TraceRow
<1>2. CASE OnItsWay(r, m)
    BY <1>2 DEF OnItsWay, Id
<1>3. CASE Yielded(r, m)
    BY <1>3 DEF Yielded
<1>4. CASE TooLate(r, m)
    BY <1>1, <1>4 DEF TooLate, Id
<1> QED BY <1>2, <1>3, <1>4 DEF YieldInv

\* A forwarded packet is on its way to all that are due to hear it, and its
\* forwarder had not yielded to anybody.
LEMMA YieldForward ==
    ASSUME IInv, TimeInv, YieldInv, now' \in Nat, now <= now',
           NEW c \in pending, Forward(c)
    PROVE  YieldInv'
<1> DEFINE row == [node |-> c.node, src |-> c.hdr.src, seq |-> c.hdr.seq,
                   heard |-> c.heard, at |-> c.at]
<1>1. /\ c.node \in Node /\ c.at \in Nat /\ c.hdr \in Header
      /\ c.heard \in Nat
    BY DEF IInv, TypeOK, Callback
<1>2. /\ Transmit(c.node, c.hdr, "forward", c.at) /\ ~Suppressed(c)
      /\ fwdTrace' = fwdTrace \cup {row}
      /\ pending' = pending \ {c}
      /\ UNCHANGED <<life, twice>>
    BY DEF Forward, Release
<1>3. /\ row.node = c.node /\ row.src = c.hdr.src /\ row.seq = c.hdr.seq
      /\ row.heard = c.heard /\ row.at = c.at
    OBVIOUS
<1> HIDE DEF row
<1>4. /\ air \subseteq air'
      /\ life[c.node] = "up" /\ ~Lossy =>
             \A m \in Node \ {c.node} :
                 AlwaysInRange(c.node, m) =>
                     \E d \in AirTime : \E f \in air' :
                         f.node = m /\ f.hdr = c.hdr /\ f.at = c.at + d
    BY <1>1, <1>2, TransmitFrames DEF IInv, OwnSeen
<1> SUFFICES ASSUME NEW r \in fwdTrace', NEW m \in Node, Due(r, m)
             PROVE  OnItsWay(r, m)' \/ Yielded(r, m)' \/ TooLate(r, m)'
    BY <1>2 DEF YieldInv, Due, AlwaysInRange
<1>5. CASE r = row
    BY <1>2, <1>3, <1>4, <1>5 DEF Due, OnItsWay, Id
<1>6. ASSUME r \in fwdTrace PROVE  OnItsWay(r, m)' \/ Yielded(r, m)' \/ TooLate(r, m)'
    <2>1. CASE OnItsWay(r, m)
        BY <1>4, <2>1 DEF OnItsWay, Id
    <2>2. CASE Yielded(r, m)
        <3>1. ~(row.node = m /\ row.src = r.src /\ row.seq = r.seq)
            BY <1>2, <1>3, <2>2 DEF Yielded, Suppressed, Id
        <3> QED BY <1>2, <2>2, <3>1 DEF Yielded
    <2>3. CASE TooLate(r, m)
        <3>1. r.at \in Nat /\ now \in Nat
            BY <1>6 DEF IInv, TypeOK, TraceRow
        <3>2. row.node = m /\ row.src = r.src /\ row.seq = r.seq
                  => row.heard > r.at
            BY <1>3, <2>3 DEF TooLate, Id
        <3> QED BY <1>2, <2>3, <3>1, <3>2 DEF TooLate, Id
    <2> QED BY <1>6, <2>1, <2>2, <2>3 DEF YieldInv
<1> QED BY <1>2, <1>5, <1>6

\* A copy that arrives at a node that has the packet makes it yield; at one
\* that has not, it comes too late.
LEMMA YieldRead ==
    ASSUME IInv, TimeInv, LifeInv, YieldInv, now' \in Nat, now <= now',
           NEW f \in air, HandleReadNew(f) \/ HandleReadAgain(f) \/ Ignore(f)
    PROVE  YieldInv'
<1>1. /\ f \in Frame /\ f.node \in Node /\ f.at \in Nat
    BY DEF IInv, TypeOK, Frame
<1>2. /\ air' = air \ {f} /\ now' = f.at /\ UNCHANGED <<life, fwdTrace>>
      /\ now <= f.at
    BY DEF HandleReadNew, HandleReadAgain, Ignore, Arrive, Drop, Execute,
        appVars, TimeInv, Agenda
<1>3. \A n \in Node : twice[n] \subseteq twice'[n]
    BY DEF HandleReadNew, HandleReadAgain, Ignore, appVars, IInv, TypeOK
<1>4. \A c \in pending' \ pending : c.heard = f.at
    <2>1. CASE HandleReadNew(f)
        BY <2>1 DEF HandleReadNew, ScheduleForward
    <2>2. CASE HandleReadAgain(f) \/ Ignore(f)
        BY <2>2 DEF HandleReadAgain, Ignore, Drop
    <2> QED BY <2>1, <2>2
<1> SUFFICES ASSUME NEW r \in fwdTrace, NEW m \in Node, Due(r, m)
             PROVE  OnItsWay(r, m)' \/ Yielded(r, m)' \/ TooLate(r, m)'
    BY <1>2 DEF YieldInv, Due, AlwaysInRange
<1>5. r.at \in Nat /\ now \in Nat
    BY DEF IInv, TypeOK, TraceRow
<1>6. CASE Yielded(r, m)
    BY <1>2, <1>3, <1>6 DEF Yielded
<1>7. CASE TooLate(r, m)
    <2>1. now' > r.at /\ f.at > r.at
        BY <1>1, <1>2, <1>5, <1>7 DEF TooLate
    <2> QED BY <1>2, <1>4, <1>7, <2>1 DEF TooLate, Id
<1>8. CASE OnItsWay(r, m)
    <2>1. PICK d \in AirTime, g \in air :
              /\ g.node = m /\ Id(g.hdr) = <<r.src, r.seq>>
              /\ g.at = r.at + d
        BY <1>8 DEF OnItsWay
    <2>2. CASE g # f
        BY <1>2, <2>1, <2>2 DEF OnItsWay, Id
    <2>3. CASE g = f
        <3>1. f.at > r.at
            BY <1>5, <2>1, <2>3, TimeAssumption
        <3>2. CASE HandleReadAgain(f)
            <4>1. <<r.src, r.seq>> \in twice'[m]
                BY <2>1, <2>3, <3>2 DEF HandleReadAgain, IInv, TypeOK
            <4>2. \A s \in fwdTrace : s.at <= r.at + d
                BY <1>1, <1>2, <1>5, <2>1, <2>3 DEF TimeInv, IInv, TypeOK,
                    TraceRow
            <4> QED BY <1>2, <4>1, <4>2 DEF Yielded
        <3>3. ASSUME \A c \in pending :
                         ~(c.node = m /\ Id(c.hdr) = <<r.src, r.seq>>),
                     \A s \in fwdTrace :
                         ~(s.node = m /\ s.src = r.src /\ s.seq = r.seq)
              PROVE  TooLate(r, m)'
            BY <1>2, <1>4, <3>1, <3>3 DEF TooLate, Id
        <3>4. CASE HandleReadNew(f)
            <4>1. <<r.src, r.seq>> \notin seen[m]
                BY <2>1, <2>3, <3>4 DEF HandleReadNew
            <4> QED BY <3>3, <4>1 DEF IInv, CallbacksGenuine, RowsGenuine
        <3>5. CASE Ignore(f)
            <4>1. life[m] = "idle"
                BY <2>1, <2>3, <3>5 DEF Ignore, Drop, Due, IInv, TypeOK
            <4> QED BY <3>3, <4>1 DEF LifeInv
        <3> QED BY <3>2, <3>4, <3>5
    <2> QED BY <2>2, <2>3
<1> QED BY <1>6, <1>7, <1>8 DEF YieldInv

\* Every action preserves that relays yield, given times and life cycles.
LEMMA YieldStep ==
    IInv /\ TimeInv /\ LifeInv /\ YieldInv /\ [Next]_vars => YieldInv'
<1> SUFFICES ASSUME IInv, TimeInv, LifeInv, YieldInv, [Next]_vars
             PROVE  YieldInv'
    OBVIOUS
<1>1. now' \in Nat /\ now <= now'
    BY ClockStep
<1>2. life \in [Node -> {"idle", "up", "closed"}]
    BY DEF IInv, TypeOK
<1>3. ASSUME life' = life
      PROVE  \A r \in fwdTrace, m \in Node : Due(r, m)' => Due(r, m)
    BY <1>3 DEF Due, AlwaysInRange
<1>4. ASSUME NEW e \in timers, StartApplication(e)
      PROVE  YieldInv'
    <2>1. /\ life[e.node] = "idle" /\ life' = [life EXCEPT ![e.node] = "up"]
          /\ UNCHANGED <<air, pending, twice, fwdTrace>>
        BY <1>4 DEF StartApplication, OpenSocket, Expire, appVars, LifeInv
    <2>2. ASSUME NEW r \in fwdTrace, NEW m \in Node, Due(r, m)'
          PROVE  Due(r, m)
        <3>1. r.node \in Node /\ life[r.node] # "idle"
            BY DEF IInv, TypeOK, TraceRow, LifeInv
        <3> QED BY <1>2, <2>1, <2>2, <3>1 DEF Due, AlwaysInRange
    <2> QED BY <1>1, <2>1, <2>2, YieldKept
<1>5. ASSUME NEW e \in timers, StopApplication(e)
      PROVE  YieldInv'
    <2>1. /\ \/ life' = life
             \/ life[e.node] = "up" /\ life' = [life EXCEPT ![e.node] = "closed"]
          /\ UNCHANGED <<air, pending, twice, fwdTrace>>
        BY <1>5 DEF StopApplication, CloseSocket, appVars
    <2>2. ASSUME NEW r \in fwdTrace, NEW m \in Node, Due(r, m)'
          PROVE  Due(r, m)
        <3>1. r.node \in Node
            BY DEF IInv, TypeOK, TraceRow
        <3> QED BY <1>2, <2>1, <2>2, <3>1 DEF Due, AlwaysInRange
    <2> QED BY <1>1, <2>1, <2>2, YieldKept
<1>6. ASSUME NEW e \in timers, Send(e)
      PROVE  YieldInv'
    <2>1. air \subseteq air'
        <3>1. e.node \in Node /\ e.at \in Nat
            BY DEF IInv, TypeOK, Timer
        <3>2. Transmit(e.node, NewHeader(e.node), "send", e.at)
            BY <1>6 DEF Send
        <3> QED BY <3>1, <3>2, NewHeaderType, TransmitFrames DEF IInv, OwnSeen
    <2> QED BY <1>1, <1>3, <1>6, <2>1, YieldKept DEF Send
<1>7. ASSUME NEW c \in pending, ForwardNothing(c)
      PROVE  YieldInv'
    BY <1>1, <1>3, <1>7, YieldKept DEF ForwardNothing, Release, appVars
<1>8. CASE \/ \E n \in Node : Move(n) /\ UNCHANGED appVars
           \/ UNCHANGED vars
    BY <1>1, <1>3, <1>8, YieldKept DEF Move, vars, networkVars, appVars
<1> QED BY <1>1, <1>4, <1>5, <1>6, <1>7, <1>8, YieldForward, YieldRead
        DEF Next

\* Times, life cycles and yielding hold in every state.
LEMMA YieldInvariant == Spec => [](IInv /\ TimeInv /\ LifeInv /\ YieldInv)
<1>1. Init => IInv /\ TimeInv /\ LifeInv /\ YieldInv
    BY InitIInv, InitYield
<1>2. IInv /\ TimeInv /\ LifeInv /\ YieldInv /\ [Next]_vars
          => (IInv /\ TimeInv /\ LifeInv /\ YieldInv)'
    BY StepIInv, TimeStep, LifeStep, YieldStep
<1> QED BY <1>1, <1>2, PTL DEF Spec

\* A relay that had the packet when another one in its range forwarded it
\* does not forward it after that copy has arrived.
THEOREM RelaysHaveYielded == Spec => []RelaysYield
<1>1. IInv /\ TimeInv /\ LifeInv /\ YieldInv => RelaysYield
    <2> SUFFICES ASSUME IInv, TimeInv, YieldInv,
                        NEW r1 \in fwdTrace, NEW r2 \in fwdTrace, ~Lossy,
                        r1.node # r2.node, AlwaysInRange(r1.node, r2.node),
                        r1.src = r2.src, r1.seq = r2.seq,
                        life[r1.node] = "up", life[r2.node] = "up",
                        r2.heard <= r1.at
                 PROVE  \E d \in AirTime : r2.at <= r1.at + d
        BY DEF RelaysYield
    <2>1. /\ r2.node \in Node /\ r1.at \in Nat /\ r2.at \in Nat
          /\ r2.heard \in Nat /\ now \in Nat
        BY DEF IInv, TypeOK, TraceRow
    <2>2. Due(r1, r2.node)
        BY DEF Due
    <2>3. CASE OnItsWay(r1, r2.node)
        <3>1. PICK d \in AirTime, f \in air : f.at = r1.at + d
            BY <2>3 DEF OnItsWay
        <3>2. now <= r1.at + d /\ r2.at <= now
            BY <3>1 DEF TimeInv, Agenda
        <3> QED BY <2>1, <3>1, <3>2, TimeAssumption
    <2>4. CASE Yielded(r1, r2.node)
        BY <2>4 DEF Yielded
    <2>5. CASE TooLate(r1, r2.node)
        BY <2>1, <2>5 DEF TooLate
    <2> QED BY <2>1, <2>2, <2>3, <2>4, <2>5 DEF YieldInv
<1> QED BY <1>1, YieldInvariant, PTL

=============================================================================
