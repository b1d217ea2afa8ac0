------------------------------- MODULE AgeProofs -------------------------------
(***************************************************************************)
(* Theorems about AgeOfInformation, for every log that a simulation of any *)
(* length can write.                                                       *)
(***************************************************************************)
EXTENDS AgeOfInformation, SequenceTheorems, FiniteSetTheorems,
        WellFoundedInduction, TLAPS

-----------------------------------------------------------------------------
(* Numbers *)

\* A set of numbers has a least one.
LEMMA Least ==
    ASSUME NEW T \in SUBSET Nat, T # {}
    PROVE  \E k \in T : \A m \in T : k <= m
<1> DEFINE R == {p \in Nat \X Nat : p[1] < p[2]}
<1>1. IsWellFoundedOn(R, Nat)
    <2>1. R = OpToRel(<, Nat)
        BY DEF OpToRel
    <2> QED BY <2>1, NatLessThanWellFounded
<1>2. \E k \in T : \A m \in T : ~ (<<m, k>> \in R)
    BY <1>1, WFMin
<1>3. PICK k \in T : \A m \in T : ~ (<<m, k>> \in R)
    BY <1>2
<1>4. \A m \in T : ~ (m < k)
    BY <1>3
<1> QED BY <1>4

\* A set of numbers that contains 0 and with every number the next one
\* contains all: induction, over a set.
LEMMA Induction ==
    ASSUME NEW S \in SUBSET Nat, 0 \in S, \A k \in S : k + 1 \in S
    PROVE  S = Nat
<1> SUFFICES ASSUME Nat \ S # {} PROVE FALSE
    OBVIOUS
<1>1. PICK k \in Nat \ S : \A m \in Nat \ S : k <= m
    BY Least
<1> QED BY <1>1

\* A bounded set of numbers has a greatest one.
LEMMA Greatest ==
    ASSUME NEW n \in Nat, NEW T \in SUBSET (0 .. n), T # {}
    PROVE  /\ Max(T) \in T
           /\ \A k \in T : k <= Max(T)
<1> DEFINE D == {n - k : k \in T}
<1>1. D \in SUBSET Nat /\ D # {}
    <2>1. PICK k \in T : TRUE
        OBVIOUS
    <2>2. n - k \in D
        BY <2>1
    <2> QED BY <2>2
<1>2. PICK d \in D : \A e \in D : d <= e
    BY <1>1, Least
<1>3. n - d \in T /\ \A k \in T : k <= n - d
    BY <1>2
<1>4. \E k \in T : \A m \in T : k >= m
    BY <1>3
<1> QED BY <1>4, Zenon DEF Max

\* What is greatest is the maximum.
LEMMA GreatestIs ==
    ASSUME NEW n \in Nat, NEW T \in SUBSET (0 .. n), NEW m \in T,
           \A k \in T : k <= m
    PROVE  Max(T) = m
<1> DEFINE x == Max(T)
<1>1. x \in T /\ \A k \in T : k <= x
    BY Greatest
<1> HIDE DEF x
<1>2. x \in Nat /\ m \in Nat /\ m <= x /\ x <= m
    BY <1>1
<1>3. x = m
    BY <1>2
<1> QED BY <1>3 DEF x

-----------------------------------------------------------------------------
(* The fold *)

\* What AoiTs folds: the series after the rows of a log.
Built(log) == FoldLeft(Extend, <<>>, log)

\* g is the function by which FoldLeft is defined, for the first n rows.
IsFold(g, log, n) ==
    g = [T \in SUBSET (1 .. n) |->
            IF T = {} THEN <<>>
            ELSE Extend(g[T \ {Max(T)}], log[Max(T)])]

\* Such a function exists, so that the one FoldLeft chooses is one.
LEMMA FoldExists ==
    ASSUME NEW log, NEW n \in Nat
    PROVE  \E g : IsFold(g, log, n)
<1> DEFINE S == {k \in Nat : \E g : IsFold(g, log, k)}
<1>1. 0 \in S
    <2> DEFINE g == [T \in SUBSET (1 .. 0) |-> <<>>]
    <2>1. \A T \in SUBSET (1 .. 0) : T = {}
        OBVIOUS
    <2>2. IsFold(g, log, 0)
        BY <2>1 DEF IsFold
    <2> QED BY <2>2
<1>2. ASSUME NEW k \in S PROVE k + 1 \in S
    <2>1. PICK g : IsFold(g, log, k)
        OBVIOUS
    <2> DEFINE h == [T \in SUBSET (1 .. k + 1) |->
                        IF k + 1 \in T
                        THEN Extend(g[T \ {k + 1}], log[k + 1]) ELSE g[T]]
    <2>2. ASSUME NEW T \in SUBSET (1 .. k + 1)
          PROVE  h[T] = IF T = {} THEN <<>>
                        ELSE Extend(h[T \ {Max(T)}], log[Max(T)])
        <3>1. CASE k + 1 \in T
            <4>1. Max(T) = k + 1
                BY <3>1, GreatestIs
            <4>2. T \ {k + 1} \in SUBSET (1 .. k + 1) /\ k + 1 \notin T \ {k + 1}
                OBVIOUS
            <4>3. h[T \ {k + 1}] = g[T \ {k + 1}]
                BY <4>2
            <4>4. h[T] = Extend(g[T \ {k + 1}], log[k + 1])
                BY <3>1
            <4> HIDE DEF h
            <4> QED BY <3>1, <4>1, <4>3, <4>4
        <3>2. CASE k + 1 \notin T
            <4>1. T \in SUBSET (1 .. k)
                BY <3>2
            <4>2. g[T] = IF T = {} THEN <<>>
                         ELSE Extend(g[T \ {Max(T)}], log[Max(T)])
                BY <2>1, <4>1 DEF IsFold
            <4>3. T \ {Max(T)} \in SUBSET (1 .. k + 1)
                  /\ k + 1 \notin T \ {Max(T)}
                BY <3>2, Zenon
            <4>4. h[T] = g[T] /\ h[T \ {Max(T)}] = g[T \ {Max(T)}]
                BY <3>2, <4>3
            <4> HIDE DEF h
            <4> QED BY <4>2, <4>4
        <3> QED BY <3>1, <3>2
    <2>3. IsFold(h, log, k + 1)
        <3>1. h = [T \in SUBSET (1 .. k + 1) |-> h[T]]
            OBVIOUS
        <3> HIDE DEF h
        <3> QED BY <2>2, <3>1 DEF IsFold
    <2> QED BY <2>3
<1>3. S = Nat
    <2> HIDE DEF S
    <2> QED BY <1>1, <1>2, Induction DEF S
<1> QED BY <1>3

\* It folds row by row.
LEMMA FoldSteps ==
    ASSUME NEW log, NEW n \in Nat, NEW g, IsFold(g, log, n)
    PROVE  /\ g[1 .. 0] = <<>>
           /\ \A k \in 0 .. n - 1 :
                  g[1 .. k + 1] = Extend(g[1 .. k], log[k + 1])
<1>1. g[1 .. 0] = <<>>
    <2>1. 1 .. 0 = {}
        OBVIOUS
    <2> QED BY <2>1 DEF IsFold
<1>2. ASSUME NEW k \in 0 .. n - 1
      PROVE  g[1 .. k + 1] = Extend(g[1 .. k], log[k + 1])
    <2>1. 1 .. k + 1 \in SUBSET (1 .. n) /\ 1 .. k + 1 # {}
        OBVIOUS
    <2>2. Max(1 .. k + 1) = k + 1
        <3>1. 1 .. k + 1 \in SUBSET (0 .. n) /\ k + 1 \in 1 .. k + 1
            OBVIOUS
        <3>2. \A m \in 1 .. k + 1 : m <= k + 1
            OBVIOUS
        <3> QED BY <3>1, <3>2, GreatestIs
    <2>3. (1 .. k + 1) \ {k + 1} = 1 .. k
        OBVIOUS
    <2>4. g[1 .. k + 1] = Extend(g[(1 .. k + 1) \ {Max(1 .. k + 1)}],
                                 log[Max(1 .. k + 1)])
        BY <2>1 DEF IsFold
    <2> QED BY <2>2, <2>3, <2>4
<1> QED BY <1>1, <1>2

\* What the fold has made of the first rows does not depend on later ones.
LEMMA FoldPrefix ==
    ASSUME NEW r, NEW s, NEW n \in Nat, NEW m \in Nat,
           NEW g, IsFold(g, r, n), NEW h, IsFold(h, s, m),
           n <= m, \A k \in 1 .. n : r[k] = s[k]
    PROVE  g[1 .. n] = h[1 .. n]
<1> DEFINE S == {k \in Nat : k <= n => g[1 .. k] = h[1 .. k]}
<1>1. 0 \in S
    BY FoldSteps
<1>2. ASSUME NEW k \in S PROVE k + 1 \in S
    <2> SUFFICES ASSUME k + 1 <= n PROVE g[1 .. k + 1] = h[1 .. k + 1]
        OBVIOUS
    <2>1. k \in 0 .. n - 1 /\ k \in 0 .. m - 1 /\ k + 1 \in 1 .. n
        OBVIOUS
    <2>2. g[1 .. k] = h[1 .. k]
        BY <2>1
    <2>3. r[k + 1] = s[k + 1]
        BY <2>1
    <2>4. g[1 .. k + 1] = Extend(g[1 .. k], r[k + 1])
        BY <2>1, FoldSteps
    <2>5. h[1 .. k + 1] = Extend(h[1 .. k], s[k + 1])
        BY <2>1, FoldSteps
    <2> QED BY <2>2, <2>3, <2>4, <2>5
<1>3. S = Nat
    <2> HIDE DEF S
    <2> QED BY <1>1, <1>2, Induction DEF S
<1> QED BY <1>3

\* The series after a log is what such a function makes of all its rows.
LEMMA BuiltIsFold ==
    ASSUME NEW log, NEW n \in Nat, DOMAIN log = 1 .. n
    PROVE  \E g : IsFold(g, log, n) /\ Built(log) = g[1 .. n]
<1> DEFINE G == CHOOSE g : IsFold(g, log, n)
<1>1. IsFold(G, log, n)
    BY FoldExists, Zenon
<1>2. Built(log) = G[1 .. n]
    BY Zenon DEF Built, FoldLeft, MapThenFoldSet, IsFold
<1> QED BY <1>1, <1>2

\* A log without rows has no series; a further row extends it.
LEMMA BuiltDef ==
    /\ Built(<<>>) = <<>>
    /\ \A R : \A log \in Seq(R), e \in R :
           Built(Append(log, e)) = Extend(Built(log), e)
<1>1. Built(<<>>) = <<>>
    <2>1. DOMAIN <<>> = 1 .. 0
        OBVIOUS
    <2>2. PICK g : IsFold(g, <<>>, 0) /\ Built(<<>>) = g[1 .. 0]
        BY <2>1, BuiltIsFold
    <2> QED BY <2>2, FoldSteps
<1>2. ASSUME NEW R, NEW log \in Seq(R), NEW e \in R
      PROVE  Built(Append(log, e)) = Extend(Built(log), e)
    <2> DEFINE n == Len(log)
               more == Append(log, e)
    <2>1. /\ n \in Nat /\ DOMAIN log = 1 .. n /\ DOMAIN more = 1 .. n + 1
          /\ more[n + 1] = e /\ \A k \in 1 .. n : log[k] = more[k]
        OBVIOUS
    <2> HIDE DEF n, more
    <2>2. PICK g : IsFold(g, log, n) /\ Built(log) = g[1 .. n]
        BY <2>1, BuiltIsFold
    <2>3. PICK h : IsFold(h, more, n + 1) /\ Built(more) = h[1 .. n + 1]
        BY <2>1, BuiltIsFold
    <2>4. g[1 .. n] = h[1 .. n]
        BY <2>1, <2>2, <2>3, FoldPrefix
    <2>5. h[1 .. n + 1] = Extend(h[1 .. n], more[n + 1])
        BY <2>1, <2>3, FoldSteps
    <2> QED BY <2>1, <2>2, <2>3, <2>4, <2>5 DEF more
<1> QED BY <1>1, <1>2

-----------------------------------------------------------------------------
(* The log *)

Row == [t : Nat, age : Nat]

\* What the fields of a row are.
LEMMA RowType == \A r \in Row : r.t \in Nat /\ r.age \in Nat
BY DEF Row

\* Rows are written in the order of time, for packets that had been generated
\* by then.
LogInv ==
    /\ now \in 0 .. TMax
    /\ rcvd \in Seq(Row)
    /\ \A i \in 1 .. Len(rcvd) :
           /\ rcvd[i].t <= now
           /\ rcvd[i].t < TMax
           /\ rcvd[i].age \in 1 .. rcvd[i].t
    /\ \A i, j \in 1 .. Len(rcvd) : i < j => rcvd[i].t < rcvd[j].t

\* What a row of the log is.
LEMMA RowAt ==
    ASSUME LogInv, NEW i \in 1 .. Len(rcvd)
    PROVE  /\ rcvd[i] \in Row
           /\ rcvd[i].t \in Nat /\ rcvd[i].age \in Nat
           /\ rcvd[i].t - rcvd[i].age \in 0 .. TMax
           /\ rcvd[i].t <= now /\ rcvd[i].t < TMax /\ rcvd[i].age >= 1
           /\ TMax \in Nat /\ now \in Nat
<1>1. rcvd[i] \in Row /\ TMax \in Nat /\ now \in Nat
    BY AgeAssumption DEF LogInv
<1>2. /\ rcvd[i].t <= now /\ rcvd[i].t < TMax
      /\ rcvd[i].age \in 1 .. rcvd[i].t
    BY DEF LogInv
<1>3. rcvd[i].t \in Nat /\ rcvd[i].age \in Nat
    BY <1>1 DEF Row
<1> QED BY <1>1, <1>2, <1>3

\* Receptions keep the log in order.
LEMMA LogStep == LogInv /\ [Next]_vars => LogInv'
<1> SUFFICES ASSUME LogInv, [Next]_vars PROVE LogInv'
    OBVIOUS
<1>1. ASSUME NEW delay \in 1 .. MaxDelay, Receive(delay) PROVE LogInv'
    <2> DEFINE row == [t |-> now, age |-> delay]
               n == Len(rcvd)
    <2>1. /\ rcvd \in Seq(Row) /\ n \in Nat /\ row \in Row /\ now \in Nat
          /\ delay \in 1 .. now
        BY <1>1, AgeAssumption DEF LogInv, Receive, Row
    <2>2. rcvd' = Append(rcvd, row) /\ now' = now /\ now < TMax
        BY <1>1 DEF Receive
    <2>3. rcvd # <<>> => rcvd[n].t < now
        BY <1>1 DEF Receive, Last
    <2>4. /\ rcvd' \in Seq(Row) /\ Len(rcvd') = n + 1
          /\ rcvd'[n + 1] = row /\ \A i \in 1 .. n : rcvd'[i] = rcvd[i]
        BY <2>1, <2>2
    <2>5. \A i \in 1 .. n : rcvd[i].t < now
        <3> SUFFICES ASSUME NEW i \in 1 .. n PROVE rcvd[i].t < now
            OBVIOUS
        <3>1. rcvd # <<>> /\ n \in 1 .. n /\ rcvd[i] \in Row /\ rcvd[n] \in Row
            BY <2>1
        <3>2. i = n \/ rcvd[i].t < rcvd[n].t
            BY <3>1 DEF LogInv
        <3> QED BY <2>1, <2>3, <3>1, <3>2 DEF Row
    <2> QED BY <2>1, <2>2, <2>4, <2>5 DEF LogInv
<1>2. ASSUME NEW d \in Distances, Sample(d) PROVE LogInv'
    BY <1>2 DEF LogInv, Sample
<1>3. CASE Tick
    <2>1. now' = now + 1 /\ now < TMax /\ rcvd' = rcvd /\ TMax \in Nat
        BY <1>3, AgeAssumption DEF Tick
    <2>2. now' \in 0 .. TMax
        BY <2>1 DEF LogInv
    <2>3. \A i \in 1 .. Len(rcvd) : rcvd[i].t \in Nat
        BY RowAt
    <2> QED BY <2>1, <2>2, <2>3 DEF LogInv
<1>4. CASE UNCHANGED vars
    BY <1>4 DEF LogInv, vars
<1> QED BY <1>1, <1>2, <1>3, <1>4 DEF Next

\* When the packets received by time t were generated.
Generated(t) ==
    {rcvd[i].t - rcvd[i].age : i \in {k \in 1 .. Len(rcvd) : rcvd[k].t <= t}}

\* From the first reception on there is a freshest packet.
LEMMA GeneratedType ==
    ASSUME LogInv, NEW t \in Nat, rcvd # <<>>, First <= t
    PROVE  /\ Generated(t) \in SUBSET (0 .. TMax) /\ Generated(t) # {}
           /\ TMax \in Nat
           /\ Freshest(t) = Max(Generated(t))
           /\ Freshest(t) \in Generated(t)
           /\ \A g \in Generated(t) : g <= Freshest(t)
<1>1. \A i \in 1 .. Len(rcvd) : rcvd[i].t - rcvd[i].age \in 0 .. TMax
    BY RowAt
<1>2. rcvd[1].t - rcvd[1].age \in Generated(t)
    BY DEF Generated, First, LogInv
<1>3. Freshest(t) = Max(Generated(t))
    BY DEF Freshest, Generated
<1>4. Generated(t) \in SUBSET (0 .. TMax) /\ Generated(t) # {} /\ TMax \in Nat
    BY <1>1, <1>2, AgeAssumption DEF Generated
<1> QED BY <1>3, <1>4, Greatest

-----------------------------------------------------------------------------
(* The shape of the series *)

\* The age rises with time from entry i of series s to the next one.
Rise(s, i) ==
    /\ s[i].t < s[i + 1].t
    /\ s[i + 1].age = s[i].age + s[i + 1].t - s[i].t

\* The age drops at once from entry i to the next one, after a rise.
Drop(s, i) ==
    /\ i > 1
    /\ s[i - 1].t < s[i].t
    /\ s[i + 1].t = s[i].t
    /\ s[i + 1].age < s[i].age

\* A series does nothing but rise and drop.
Shaped(s) ==
    /\ s \in Seq(Row)
    /\ s # <<>>
    /\ \A i, j \in 1 .. Len(s) : i < j => s[i].t <= s[j].t
    /\ \A i \in 1 .. Len(s) - 1 : Rise(s, i) \/ Drop(s, i)

\* Until the entry after entry i, its age is that of the freshest packet.
IsFresh(s, i) ==
    \A t \in Nat : s[i].t <= t /\ (i < Len(s) => t < s[i + 1].t) =>
        Freshest(t) = s[i].t - s[i].age

SeriesInv ==
    rcvd # <<>> =>
        /\ Shaped(Built(rcvd))
        /\ Built(rcvd)[1].t = First
        /\ Last(Built(rcvd)).t = Last(rcvd).t
        /\ \A i \in 1 .. Len(Built(rcvd)) :
               IsFresh(Built(rcvd), i) /\ Built(rcvd)[i].age >= 1

\* What Extend appends.
LEMMA ExtendEntries ==
    ASSUME NEW s \in Seq(Row), s # <<>>, NEW e \in Row, Last(s).t < e.t,
           NEW n, n = Len(s), NEW grown, grown = s[n].age + e.t - s[n].t
    PROVE  /\ Extend(s, e) \in Seq(Row)
           /\ Len(Extend(s, e)) = IF e.age < grown THEN n + 2 ELSE n + 1
           /\ \A i \in 1 .. n : Extend(s, e)[i] = s[i]
           /\ Extend(s, e)[n + 1] = [t |-> e.t, age |-> grown]
           /\ e.age < grown => Extend(s, e)[n + 2] = e
           /\ n \in Nat \ {0} /\ s[n].t < e.t /\ grown \in Nat
           /\ s[n].age < grown
<1> DEFINE rise == [t |-> e.t, age |-> grown]
           risen == Append(s, rise)
<1>1. /\ n \in Nat \ {0} /\ s[n] \in Row /\ s[n].t < e.t
      /\ s[n].t \in Nat /\ s[n].age \in Nat /\ e.t \in Nat /\ e.age \in Nat
    <2>1. n \in Nat \ {0}
        OBVIOUS
    <2>2. s[n] \in Row
        BY <2>1
    <2> QED BY <2>1, <2>2, RowType DEF Last
<1>2. grown \in Nat /\ rise \in Row /\ s[n].age < grown
    BY <1>1 DEF Row
<1>3. Extend(s, e) = risen \o (IF e.age < grown THEN <<e>> ELSE <<>>)
    BY DEF Extend, Last
<1>4. /\ risen \in Seq(Row) /\ Len(risen) = n + 1 /\ risen[n + 1] = rise
      /\ \A i \in 1 .. n : risen[i] = s[i]
    BY <1>1, <1>2
<1> HIDE DEF risen, rise
<1>5. CASE e.age < grown
    <2>1. Extend(s, e) = risen \o <<e>>
        BY <1>3, <1>5
    <2>2. /\ risen \o <<e>> \in Seq(Row) /\ Len(risen \o <<e>>) = n + 2
          /\ (risen \o <<e>>)[n + 2] = e
          /\ \A i \in 1 .. n + 1 : (risen \o <<e>>)[i] = risen[i]
        BY <1>1, <1>4
    <2> QED BY <1>1, <1>2, <1>4, <1>5, <2>1, <2>2 DEF rise
<1>6. CASE ~ (e.age < grown)
    <2>1. Extend(s, e) = risen \o <<>>
        BY <1>3, <1>6
    <2>2. Extend(s, e) = risen
        BY <1>4, <2>1
    <2> QED BY <1>1, <1>2, <1>4, <1>6, <2>2 DEF rise
<1> QED BY <1>5, <1>6

\* Extended by a later entry, a series still only rises and drops.
LEMMA ExtendShaped ==
    ASSUME NEW s, Shaped(s), NEW e \in Row, Last(s).t < e.t
    PROVE  Shaped(Extend(s, e)) /\ Last(Extend(s, e)).t = e.t
<1> DEFINE n == Len(s)
           grown == s[n].age + e.t - s[n].t
           x == Extend(s, e)
<1>1. s \in Seq(Row) /\ s # <<>>
    BY DEF Shaped
<1>2. /\ x \in Seq(Row)
      /\ Len(x) = IF e.age < grown THEN n + 2 ELSE n + 1
      /\ \A i \in 1 .. n : x[i] = s[i]
      /\ x[n + 1] = [t |-> e.t, age |-> grown]
      /\ e.age < grown => x[n + 2] = e
      /\ n \in Nat \ {0} /\ s[n].t < e.t
    BY <1>1, ExtendEntries
<1>3. /\ \A i, j \in 1 .. n : i < j => s[i].t <= s[j].t
      /\ \A i \in 1 .. n - 1 : Rise(s, i) \/ Drop(s, i)
      /\ \A i \in 1 .. n : s[i].t \in Nat
      /\ e.t \in Nat
    <2>1. \A i \in 1 .. n : s[i] \in Row
        BY <1>1
    <2> QED BY <2>1, RowType DEF Shaped
<1> HIDE DEF x, grown, n
<1>4. /\ x[n + 1].t = e.t /\ x[n + 1].age = grown
      /\ Len(x) \in Nat /\ x # <<>> /\ n + 1 <= Len(x) /\ Len(x) <= n + 2
      /\ \A i \in n + 1 .. Len(x) : x[i].t = e.t
    <2>1. Len(x) \in {n + 1, n + 2}
        BY <1>2
    <2>2. Len(x) = n + 2 => x[n + 2] = e
        BY <1>2
    <2>3. \A i \in n + 1 .. Len(x) : i = n + 1 \/ (i = n + 2 /\ Len(x) = n + 2)
        BY <1>2, <2>1
    <2> QED BY <1>2, <2>1, <2>2, <2>3
<1>5. \A i, j \in 1 .. Len(x) : i < j => x[i].t <= x[j].t
    <2> SUFFICES ASSUME NEW i \in 1 .. Len(x), NEW j \in 1 .. Len(x), i < j
                 PROVE  x[i].t <= x[j].t
        OBVIOUS
    <2>1. \A k \in 1 .. n : s[k].t < e.t
        <3> SUFFICES ASSUME NEW k \in 1 .. n PROVE s[k].t < e.t
            OBVIOUS
        <3>1. k = n \/ s[k].t <= s[n].t
            BY <1>2, <1>3
        <3>2. s[n].t \in Nat /\ s[k].t \in Nat
            BY <1>2, <1>3
        <3> QED BY <1>2, <1>3, <3>1, <3>2
    <2>2. CASE j \in 1 .. n
        <3>1. i \in 1 .. n
            BY <1>2, <2>2
        <3> QED BY <1>2, <1>3, <2>2, <3>1
    <2>3. CASE i \in 1 .. n /\ j \notin 1 .. n
        <3>1. x[j].t = e.t /\ x[i] = s[i] /\ s[i].t < e.t
            BY <1>2, <1>4, <2>1, <2>3
        <3> QED BY <1>3, <2>3, <3>1
    <2>4. CASE i \notin 1 .. n /\ j \notin 1 .. n
        <3>1. x[j].t = e.t /\ x[i].t = e.t
            BY <1>2, <1>4, <2>4
        <3> QED BY <1>3, <3>1
    <2> QED BY <1>2, <2>2, <2>3, <2>4
<1>6. ASSUME NEW i \in 1 .. Len(x) - 1
      PROVE  Rise(x, i) \/ Drop(x, i)
    <2>1. CASE i \in 1 .. n - 1
        <3>1. x[i] = s[i] /\ x[i + 1] = s[i + 1] /\ (i > 1 => x[i - 1] = s[i - 1])
            BY <1>2, <2>1
        <3> QED BY <1>3, <2>1, <3>1 DEF Rise, Drop
    <2>2. CASE i = n
        <3>1. x[n] = s[n]
            BY <1>2
        <3> QED BY <1>2, <1>4, <2>2, <3>1 DEF Rise, grown
    <2>3. CASE i = n + 1
        <3>1. Len(x) = n + 2 /\ e.age < grown /\ x[n + 2] = e
            BY <1>2, <1>4, <2>3
        <3>2. i - 1 = n /\ x[n] = s[n] /\ i > 1 /\ i + 1 = n + 2
            BY <1>2, <2>3
        <3> QED BY <1>2, <1>4, <2>3, <3>1, <3>2 DEF Drop
    <2> QED BY <1>2, <1>4, <2>1, <2>2, <2>3
<1>7. Last(x).t = e.t
    BY <1>2, <1>4 DEF Last
<1> QED BY <1>2, <1>4, <1>5, <1>6, <1>7 DEF Shaped, x

\* A further reception changes what is freshest only from then on.
LEMMA FreshestKept ==
    ASSUME LogInv, rcvd # <<>>, NEW row \in Row, rcvd' = Append(rcvd, row),
           row.t - row.age \in 0 .. TMax, First < row.t,
           NEW t \in Nat, First <= t
    PROVE  Freshest(t)' = IF row.t <= t /\ Freshest(t) < row.t - row.age
                          THEN row.t - row.age ELSE Freshest(t)
<1> DEFINE fresh == Freshest(t)
           made == row.t - row.age
           old == Generated(t)
           new == IF row.t <= t THEN {made} ELSE {}
<1>1. /\ old \in SUBSET (0 .. TMax) /\ TMax \in Nat
      /\ fresh \in old /\ \A g \in old : g <= fresh
    BY GeneratedType
<1>2. Freshest(t)' = Max(Generated(t)')
    BY DEF Freshest, Generated
<1>3. Generated(t)' = old \cup new
    <2>1. /\ rcvd \in Seq(Row) /\ Len(rcvd) \in Nat
          /\ Len(rcvd') = Len(rcvd) + 1 /\ rcvd'[Len(rcvd) + 1] = row
          /\ \A i \in 1 .. Len(rcvd) : rcvd'[i] = rcvd[i]
        BY DEF LogInv
    <2> DEFINE n == Len(rcvd)
               q == rcvd'
    <2>2. Generated(t)' = {q[i].t - q[i].age : i \in {k \in 1 .. n + 1 : q[k].t <= t}}
        BY <2>1 DEF Generated
    <2>3. old = {rcvd[i].t - rcvd[i].age : i \in {k \in 1 .. n : rcvd[k].t <= t}}
        BY DEF Generated
    <2>4. n \in Nat /\ q[n + 1] = row /\ \A i \in 1 .. n : q[i] = rcvd[i]
        BY <2>1
    <2>5. 1 .. n + 1 = (1 .. n) \cup {n + 1}
        BY <2>4
    <2> HIDE DEF n, q, old
    <2> QED BY <2>2, <2>3, <2>4, <2>5
<1> HIDE DEF fresh, made, old
<1>4. made \in 0 .. TMax
    BY DEF made
<1>5. CASE row.t <= t /\ fresh < made
    <2>1. old \cup new \in SUBSET (0 .. TMax) /\ made \in old \cup new
        BY <1>1, <1>4, <1>5
    <2>2. \A g \in old \cup new : g <= made
        BY <1>1, <1>4, <1>5
    <2>3. Max(old \cup new) = made
        BY <1>1, <2>1, <2>2, GreatestIs
    <2> QED BY <1>2, <1>3, <1>5, <2>3 DEF made, fresh
<1>6. CASE ~ (row.t <= t /\ fresh < made)
    <2>1. old \cup new \in SUBSET (0 .. TMax) /\ fresh \in old \cup new
        BY <1>1, <1>4, <1>6
    <2>2. \A g \in old \cup new : g <= fresh
        BY <1>1, <1>4, <1>6
    <2>3. Max(old \cup new) = fresh
        BY <1>1, <2>1, <2>2, GreatestIs
    <2> QED BY <1>2, <1>3, <1>6, <2>3 DEF made, fresh
<1> QED BY <1>5, <1>6

\* The first reception starts the series.
LEMMA SeriesFirst ==
    ASSUME LogInv, rcvd = <<>>, NEW row \in Row, rcvd' = Append(rcvd, row),
           row.t - row.age \in 0 .. TMax, row.age >= 1
    PROVE  SeriesInv'
<1>1. rcvd' = <<row>> /\ rcvd'[1] = row /\ Len(rcvd') = 1
    OBVIOUS
<1>2. Built(rcvd') = <<row>>
    <2>1. Built(Append(<<>>, row)) = Extend(Built(<<>>), row)
        <3>1. <<>> \in Seq(Row)
            OBVIOUS
        <3> QED BY <3>1, BuiltDef, Zenon
    <2>2. Extend(<<>>, row) = <<row>>
        BY DEF Extend
    <2> QED BY <2>1, <2>2, BuiltDef
<1>3. /\ row.t \in Nat /\ row.age \in Nat /\ <<row>> \in Seq(Row)
      /\ Len(<<row>>) = 1 /\ <<row>>[1] = row /\ <<row>> # <<>>
    BY RowType
<1>4. Shaped(<<row>>)
    BY <1>3 DEF Shaped
<1>5. First' = row.t /\ Last(<<row>>) = row /\ Last(rcvd') = row
    BY <1>1, <1>3 DEF First, Last
<1>6. ASSUME NEW t \in Nat, row.t <= t
      PROVE  Freshest(t)' = row.t - row.age
    <2>1. Freshest(t)' = Max({rcvd'[i].t - rcvd'[i].age :
                                 i \in {k \in 1 .. Len(rcvd') : rcvd'[k].t <= t}})
        BY DEF Freshest
    <2>2. {k \in 1 .. Len(rcvd') : rcvd'[k].t <= t} = {1}
        BY <1>1, <1>6
    <2>3. Freshest(t)' = Max({row.t - row.age})
        BY <1>1, <2>1, <2>2
    <2>4. Max({row.t - row.age}) = row.t - row.age
        <3> DEFINE made == row.t - row.age
        <3>1. TMax \in Nat /\ made \in 0 .. TMax
            BY AgeAssumption
        <3> HIDE DEF made
        <3>2. {made} \in SUBSET (0 .. TMax) /\ \A g \in {made} : g <= made
            BY <3>1
        <3>3. Max({made}) = made
            BY <3>1, <3>2, GreatestIs
        <3> QED BY <3>3 DEF made
    <2> QED BY <2>3, <2>4
<1>7. IsFresh(<<row>>, 1)'
    BY <1>3, <1>6 DEF IsFresh
<1> QED BY <1>2, <1>3, <1>4, <1>5, <1>7 DEF SeriesInv

\* Each further reception, stale or fresh, extends it rightly.
LEMMA SeriesMore ==
    ASSUME LogInv, SeriesInv, rcvd # <<>>,
           NEW row \in Row, rcvd' = Append(rcvd, row), Last(rcvd).t < row.t,
           row.t - row.age \in 0 .. TMax, row.age >= 1
    PROVE  SeriesInv'
<1>0. PICK s, n, grown, x : /\ s = Built(rcvd) /\ n = Len(s)
                            /\ grown = s[n].age + row.t - s[n].t
                            /\ x = Extend(s, row)
    OBVIOUS
<1>1. Built(rcvd') = x
    BY <1>0, BuiltDef DEF LogInv
<1>2. /\ Shaped(s) /\ s[1].t = First /\ Last(s).t = Last(rcvd).t
      /\ \A i \in 1 .. n : IsFresh(s, i) /\ s[i].age >= 1
      /\ s \in Seq(Row) /\ s # <<>>
    BY <1>0 DEF SeriesInv, Shaped
<1>3. Shaped(x) /\ Last(x).t = row.t
    BY <1>0, <1>2, ExtendShaped
<1>4. /\ x \in Seq(Row)
      /\ Len(x) = IF row.age < grown THEN n + 2 ELSE n + 1
      /\ \A i \in 1 .. n : x[i] = s[i]
      /\ x[n + 1] = [t |-> row.t, age |-> grown]
      /\ row.age < grown => x[n + 2] = row
      /\ n \in Nat \ {0} /\ s[n].t < row.t /\ grown \in Nat
      /\ s[n].age < grown
    <2> DEFINE y == Extend(s, row)
    <2>1. s \in Seq(Row) /\ s # <<>> /\ Last(s).t < row.t
        BY <1>2
    <2>2. n = Len(s) /\ grown = s[n].age + row.t - s[n].t
        BY <1>0
    <2>3. /\ y \in Seq(Row)
          /\ Len(y) = IF row.age < grown THEN n + 2 ELSE n + 1
          /\ \A i \in 1 .. n : y[i] = s[i]
          /\ y[n + 1] = [t |-> row.t, age |-> grown]
          /\ row.age < grown => y[n + 2] = row
          /\ n \in Nat \ {0} /\ s[n].t < row.t /\ grown \in Nat
          /\ s[n].age < grown
        BY <2>1, <2>2, ExtendEntries, SMTT(40)
    <2>4. x = y
        BY <1>0
    <2> HIDE DEF y
    <2> QED BY <2>3, <2>4
<1>5. /\ \A i \in 1 .. n : s[i].t \in Nat /\ s[i].age \in Nat /\ First <= s[i].t
      /\ row.t \in Nat /\ row.age \in Nat /\ First \in Nat
      /\ \A i \in 1 .. n : s[i].t < row.t
    <2>1. \A i \in 1 .. n : s[i].t \in Nat /\ s[i].age \in Nat
        <3>1. \A i \in 1 .. n : s[i] \in Row
            BY <1>0, <1>2
        <3> QED BY <3>1, RowType
    <2>2. \A i \in 1 .. n : (i = 1 \/ s[1].t <= s[i].t) /\ (i = n \/ s[i].t <= s[n].t)
        <3>1. 1 \in 1 .. n /\ n \in 1 .. n
            BY <1>4
        <3>2. \A i, j \in 1 .. n : i < j => s[i].t <= s[j].t
            BY <1>0, <1>2 DEF Shaped
        <3>3. \A i \in 1 .. n : (i = 1 \/ 1 < i) /\ (i = n \/ i < n)
            BY <1>4
        <3> QED BY <3>1, <3>2, <3>3
    <2>3. 1 \in 1 .. n /\ n \in 1 .. n /\ row.t \in Nat /\ row.age \in Nat
        BY <1>4, RowType
    <2>4. \A i \in 1 .. n : s[1].t <= s[i].t /\ s[i].t < row.t
        <3>1. s[n].t < row.t
            BY <1>4
        <3> SUFFICES ASSUME NEW i \in 1 .. n
                     PROVE  s[1].t <= s[i].t /\ s[i].t < row.t
            OBVIOUS
        <3>2. s[i].t \in Nat /\ s[n].t \in Nat /\ s[1].t \in Nat
            BY <2>1, <2>3
        <3> QED BY <2>2, <2>3, <3>1, <3>2
    <2> QED BY <1>2, <2>1, <2>3, <2>4
<1>6. /\ rcvd'[1] = rcvd[1] /\ First' = First
      /\ Last(rcvd') = row
    BY DEF LogInv, First, Last
<1>7. ASSUME NEW t \in Nat, First <= t
      PROVE  Freshest(t)' = IF row.t <= t /\ Freshest(t) < row.t - row.age
                            THEN row.t - row.age ELSE Freshest(t)
    <2>1. First < row.t
        BY <1>4, <1>5, SMTT(40)
    <2> QED BY <1>7, <2>1, FreshestKept
<1>12. /\ Len(x) \in Nat /\ n + 1 <= Len(x) /\ n < Len(x)
       /\ row.age < grown => Len(x) = n + 2
       /\ ~ (row.age < grown) => Len(x) = n + 1
    BY <1>4
<1>13. /\ s[n].t \in Nat /\ s[n].age \in Nat
       /\ row.t \in Nat /\ row.age \in Nat /\ grown \in Nat
       /\ s[n].t - s[n].age = row.t - grown
       /\ row.age < grown <=> s[n].t - s[n].age < row.t - row.age
    <2>1. n \in 1 .. n
        BY <1>4
    <2>2. /\ s[n].t \in Nat /\ s[n].age \in Nat
          /\ row.t \in Nat /\ row.age \in Nat /\ grown \in Nat
        BY <1>4, <1>5, <2>1
    <2>3. PICK p, q, u, v : p = s[n].t /\ q = s[n].age /\ u = row.t /\ v = row.age
        OBVIOUS
    <2>4. grown = q + u - p
        BY <1>0, <2>3
    <2>5. p \in Nat /\ q \in Nat /\ u \in Nat /\ v \in Nat /\ grown \in Nat
        BY <2>2, <2>3
    <2>6. /\ p - q = u - grown
          /\ v < grown <=> p - q < u - v
        BY <2>4, <2>5
    <2> QED BY <2>3, <2>5, <2>6
<1>8. \A i \in 1 .. Len(x) : i \in 1 .. n - 1 \/ i = n \/ i = n + 1
                                 \/ (i = n + 2 /\ row.age < grown)
    BY <1>4
<1>9. \A i \in 1 .. Len(x) : x[i].age >= 1
    <2>1. s[n].age >= 1 /\ s[n].age \in Nat /\ \A i \in 1 .. n : s[i].age >= 1
        BY <1>2, <1>4, <1>5, SMTT(40)
    <2>2. grown >= 1
        BY <1>4, <2>1
    <2>3. \A i \in 1 .. n : x[i].age >= 1
        BY <1>4, <2>1
    <2> QED BY <1>4, <1>8, <2>2, <2>3
<1>10. ASSUME NEW i \in 1 .. Len(x)
       PROVE  IsFresh(x, i)'
    <2> SUFFICES ASSUME NEW t \in Nat, x[i].t <= t,
                        i < Len(x) => t < x[i + 1].t
                 PROVE  Freshest(t)' = x[i].t - x[i].age
        BY DEF IsFresh
    <2>1. ASSUME s[n].t <= t
          PROVE  Freshest(t) = s[n].t - s[n].age /\ First <= t
        <3>1. n \in 1 .. n /\ ~ (n < n)
            BY <1>4
        <3>2. Freshest(t) = s[n].t - s[n].age
            BY <1>0, <1>2, <2>1, <3>1 DEF IsFresh
        <3> QED BY <1>5, <2>1, <3>1, <3>2
    <2>2. CASE i \in 1 .. n - 1
        <3>1. i \in 1 .. n /\ i + 1 \in 1 .. n /\ i < Len(x)
            BY <1>4, <1>12, <2>2
        <3>2. x[i] = s[i] /\ x[i + 1] = s[i + 1]
            BY <1>4, <3>1
        <3>3. s[i].t <= t /\ t < s[i + 1].t
            BY <3>1, <3>2
        <3>4. Freshest(t) = s[i].t - s[i].age
            BY <1>2, <3>1, <3>3 DEF IsFresh
        <3>5. First <= t /\ t < row.t
            BY <1>5, <3>1, <3>3, SMTT(40)
        <3> QED BY <1>5, <1>7, <3>2, <3>4, <3>5
    <2>3. CASE i = n
        <3>1. n < Len(x) /\ x[n] = s[n] /\ x[n + 1].t = row.t
            BY <1>4, <1>12
        <3>2. s[n].t <= t /\ t < row.t
            BY <2>3, <3>1
        <3> QED BY <1>5, <1>7, <2>1, <2>3, <3>1, <3>2
    <2>4. CASE i = n + 1 /\ row.age < grown
        <3>1. x[n + 1].t = row.t /\ x[n + 2].t = row.t /\ n + 1 < Len(x)
            BY <1>4, <1>12, <2>4
        <3>2. (n + 1) + 1 = n + 2
            BY <1>4
        <3> QED BY <1>5, <2>4, <3>1, <3>2
    <2>5. CASE i = n + 1 /\ ~ (row.age < grown)
        <3>1. x[i].t = row.t /\ x[i].age = grown
            BY <1>4, <2>5
        <3>2. s[n].t <= t
            <4>1. row.t <= t
                BY <3>1
            <4>2. s[n].t < row.t
                BY <1>4
            <4> QED BY <1>13, <4>1, <4>2
        <3>3. ~ (s[n].t - s[n].age < row.t - row.age)
            BY <1>13, <2>5
        <3>4. s[n].t - s[n].age = row.t - grown
            BY <1>13
        <3> QED BY <1>7, <2>1, <3>1, <3>2, <3>3, <3>4
    <2>6. CASE i = n + 2 /\ row.age < grown
        <3>1. x[i].t = row.t /\ x[i].age = row.age
            BY <1>4, <2>6
        <3>2. s[n].t <= t
            <4>1. row.t <= t
                BY <3>1
            <4>2. s[n].t < row.t
                BY <1>4
            <4> QED BY <1>13, <4>1, <4>2
        <3>3. s[n].t - s[n].age < row.t - row.age
            BY <1>13, <2>6
        <3> QED BY <1>7, <2>1, <3>1, <3>2, <3>3
    <2> QED BY <1>8, <2>2, <2>3, <2>4, <2>5, <2>6
<1>11. x[1].t = First' /\ Last(x).t = Last(rcvd').t
    <2>1. x[1] = s[1]
        BY <1>4
    <2> QED BY <1>2, <1>3, <1>6, <2>1
<1> QED BY <1>1, <1>3, <1>9, <1>10, <1>11 DEF SeriesInv

\* So every step of the simulation keeps the series right.
LEMMA SeriesStep == LogInv /\ SeriesInv /\ [Next]_vars => SeriesInv'
<1> SUFFICES ASSUME LogInv, SeriesInv, [Next]_vars PROVE SeriesInv'
    OBVIOUS
<1>1. ASSUME NEW delay \in 1 .. MaxDelay, Receive(delay) PROVE SeriesInv'
    <2>1. PICK row : row = [t |-> now, age |-> delay]
        OBVIOUS
    <2>2. now \in 0 .. TMax /\ TMax \in Nat /\ MaxDelay \in Nat
        BY AgeAssumption DEF LogInv
    <2>3. delay <= now
        BY <1>1 DEF Receive
    <2>4. /\ row \in Row /\ row.t - row.age \in 0 .. TMax /\ row.age >= 1
          /\ row.t = now
        BY <2>1, <2>2, <2>3 DEF Row
    <2>5. rcvd' = Append(rcvd, row) /\ (rcvd # <<>> => Last(rcvd).t < row.t)
        BY <1>1, <2>1, <2>4 DEF Receive
    <2>6. CASE rcvd = <<>>
        BY <2>4, <2>5, <2>6, SeriesFirst
    <2>7. CASE rcvd # <<>>
        BY <2>4, <2>5, <2>7, SeriesMore
    <2> QED BY <2>6, <2>7
<1>2. ASSUME rcvd' = rcvd PROVE SeriesInv'
    BY <1>2 DEF SeriesInv, IsFresh, Freshest, First
<1>3. ASSUME NEW d \in Distances, Sample(d) PROVE SeriesInv'
    BY <1>2, <1>3 DEF Sample
<1>4. CASE Tick
    BY <1>2, <1>4 DEF Tick
<1>5. CASE UNCHANGED vars
    BY <1>2, <1>5 DEF vars
<1> QED BY <1>1, <1>3, <1>4, <1>5 DEF Next

\* For every log that a simulation can write, rows are in the order of time and
\* the series made of them rises and drops as the age does.
THEOREM AgeInvariant == Spec => [](LogInv /\ SeriesInv)
<1>1. Init => LogInv /\ SeriesInv
    BY AgeAssumption DEF Init, LogInv, SeriesInv
<1>2. LogInv /\ SeriesInv /\ [Next]_vars => (LogInv /\ SeriesInv)'
    BY LogStep, SeriesStep
<1> QED BY <1>1, <1>2, PTL DEF Spec

-----------------------------------------------------------------------------
(* The series that get_aoi_ts returns *)

\* It is closed at T_MAX by a drop to 0.
Closed(ts) ==
    /\ Shaped(ts)
    /\ Len(ts) > 2
    /\ ts[1].t = First
    /\ ts[Len(ts)] = [t |-> TMax, age |-> 0]
    /\ ts[Len(ts) - 1].t = TMax
    /\ \A i \in 1 .. Len(ts) - 2 : ts[i].t < TMax /\ IsFresh(ts, i)

\* The entry at T_MAX closes the series.
LEMMA SeriesClosed ==
    ASSUME LogInv, SeriesInv, rcvd # <<>>
    PROVE  Closed(AoiTs(rcvd))
<1>0. PICK s, n, e, x, grown : /\ s = Built(rcvd) /\ n = Len(s)
                               /\ e = [t |-> TMax, age |-> 0]
                               /\ x = AoiTs(rcvd)
                               /\ grown = s[n].age + e.t - s[n].t
    OBVIOUS
<1>1. /\ TMax \in Nat /\ rcvd \in Seq(Row) /\ e \in Row /\ e.t = TMax /\ e.age = 0
    BY <1>0, AgeAssumption DEF LogInv, Row
<1>2. x = Extend(s, e)
    <2>1. Built(Append(rcvd, e)) = Extend(Built(rcvd), e)
        BY <1>1, BuiltDef, Zenon
    <2>2. AoiTs(rcvd) = Built(Append(rcvd, e))
        BY <1>0, Zenon DEF AoiTs, Built
    <2> QED BY <1>0, <2>1, <2>2, Zenon
<1>3. Last(rcvd).t < TMax /\ Last(rcvd).t \in Nat
    <2>1. Len(rcvd) \in 1 .. Len(rcvd)
        BY <1>1
    <2> QED BY <2>1, RowAt DEF Last
<1>4. /\ Shaped(s) /\ s[1].t = First /\ Last(s).t = Last(rcvd).t
      /\ \A i \in 1 .. n : IsFresh(s, i) /\ s[i].age >= 1
      /\ s \in Seq(Row) /\ s # <<>>
    BY <1>0 DEF SeriesInv, Shaped
<1>5. Last(s).t < e.t
    BY <1>1, <1>3, <1>4
<1>6. Shaped(x)
    BY <1>1, <1>2, <1>4, <1>5, ExtendShaped, Zenon
<1>7. /\ x \in Seq(Row)
      /\ Len(x) = IF e.age < grown THEN n + 2 ELSE n + 1
      /\ \A i \in 1 .. n : x[i] = s[i]
      /\ x[n + 1] = [t |-> e.t, age |-> grown]
      /\ e.age < grown => x[n + 2] = e
      /\ n \in Nat \ {0} /\ s[n].t < e.t /\ grown \in Nat
      /\ s[n].age < grown
    <2> DEFINE y == Extend(s, e)
    <2>1. /\ y \in Seq(Row)
          /\ Len(y) = IF e.age < grown THEN n + 2 ELSE n + 1
          /\ \A i \in 1 .. n : y[i] = s[i]
          /\ y[n + 1] = [t |-> e.t, age |-> grown]
          /\ e.age < grown => y[n + 2] = e
          /\ n \in Nat \ {0} /\ s[n].t < e.t /\ grown \in Nat
          /\ s[n].age < grown
        BY <1>0, <1>1, <1>4, <1>5, ExtendEntries, SMTT(40)
    <2> HIDE DEF y
    <2>2. x = y
        BY <1>2 DEF y
    <2> QED BY <2>1, <2>2
<1>8. e.age < grown
    <2>1. n \in 1 .. n
        BY <1>7
    <2>2. s[n].age >= 1 /\ s[n] \in Row
        BY <1>4, <1>0, <2>1
    <2> QED BY <1>1, <1>7, <2>2, RowType
<1>9. Len(x) = n + 2 /\ Len(x) - 1 = n + 1 /\ Len(x) - 2 = n
    BY <1>7, <1>8
<1>10. /\ x[Len(x)] = [t |-> TMax, age |-> 0]
       /\ x[Len(x) - 1].t = TMax
       /\ Len(x) > 2 /\ x[1].t = First
    BY <1>0, <1>1, <1>4, <1>7, <1>8, <1>9
<1>11. ASSUME NEW i \in 1 .. n
       PROVE  x[i].t < TMax /\ IsFresh(x, i)
    <2>1. /\ i \in Nat /\ n \in 1 .. n /\ i < n + 2 /\ x[i] = s[i]
          /\ i < n => i + 1 \in 1 .. n
          /\ i < n \/ i = n
        BY <1>7
    <2>2. s[i] \in Row /\ s[n] \in Row
        BY <1>0, <1>4, <2>1
    <2>3. i < n => s[i].t <= s[n].t
        BY <1>0, <1>4, <2>1 DEF Shaped
    <2>4. s[i].t < TMax
        BY <1>1, <1>7, <2>1, <2>2, <2>3, RowType
    <2>5. IsFresh(x, i)
        <3> SUFFICES ASSUME NEW t \in Nat, x[i].t <= t,
                            i < Len(x) => t < x[i + 1].t
                     PROVE  Freshest(t) = x[i].t - x[i].age
            BY DEF IsFresh
        <3>1. i < n => t < s[i + 1].t
            BY <1>7, <1>9, <2>1
        <3> QED BY <1>0, <1>4, <2>1, <3>1 DEF IsFresh
    <2> QED BY <2>1, <2>4, <2>5
<1>12. Closed(x)
    BY <1>6, <1>9, <1>10, <1>11 DEF Closed
<1> QED BY <1>0, <1>12

\* What is needed of a closed series with n entries.
LEMMA ClosedEntries ==
    ASSUME LogInv, rcvd # <<>>, NEW ts, Closed(ts), NEW n, n = Len(ts)
    PROVE  /\ n \in Nat /\ n > 2
           /\ TMax \in Nat /\ First \in Nat /\ ts[1].t = First
           /\ ts[n - 1].t = TMax /\ ts[n].t = TMax /\ ts[n].age = 0
           /\ \A i \in 1 .. n : ts[i].t \in Nat /\ ts[i].age \in Nat
           /\ \A i, j \in 1 .. n : i <= j => ts[i].t <= ts[j].t
           /\ \A i \in 1 .. n - 1 : Rise(ts, i) \/ Drop(ts, i)
           /\ \A i \in 1 .. n - 2 : ts[i].t < TMax
<1>1. ts \in Seq(Row) /\ n \in Nat /\ n > 2 /\ TMax \in Nat
    BY AgeAssumption DEF Closed, Shaped
<1>2. \A i \in 1 .. n : ts[i].t \in Nat /\ ts[i].age \in Nat
    <2>1. \A i \in 1 .. n : ts[i] \in Row
        BY <1>1
    <2> QED BY <2>1, RowType
<1>3. ASSUME NEW i \in 1 .. n, NEW j \in 1 .. n, i <= j
      PROVE  ts[i].t <= ts[j].t
    <2>1. i = j \/ i < j
        BY <1>1, <1>3
    <2>2. ts[i].t \in Nat /\ ts[j].t \in Nat
        BY <1>2
    <2>3. i < j => ts[i].t <= ts[j].t
        BY DEF Closed, Shaped
    <2> QED BY <2>1, <2>2, <2>3
<1>4. 1 \in 1 .. n
    BY <1>1
<1> QED BY <1>1, <1>2, <1>3, <1>4 DEF Closed, Shaped

\* From an entry until the next the age is what the series says.
LEMMA AgeAt ==
    ASSUME LogInv, rcvd # <<>>, NEW ts, Closed(ts),
           NEW i \in 1 .. Len(ts) - 2, NEW t \in Nat,
           ts[i].t <= t, t < ts[i + 1].t
    PROVE  /\ Freshest(t) = ts[i].t - ts[i].age
           /\ Age(t) = ts[i].age + t - ts[i].t
           /\ First <= t /\ t < TMax
<1>1. PICK n : n = Len(ts)
    OBVIOUS
<1>2. /\ n \in Nat /\ n > 2 /\ TMax \in Nat /\ First \in Nat
      /\ \A k \in 1 .. n : ts[k].t \in Nat /\ ts[k].age \in Nat
      /\ \A k, j \in 1 .. n : k <= j => ts[k].t <= ts[j].t
      /\ ts[1].t = First /\ ts[n - 1].t = TMax
    BY <1>1, ClosedEntries
<1>3. /\ i \in 1 .. n /\ i + 1 \in 1 .. n /\ 1 \in 1 .. n /\ n - 1 \in 1 .. n
      /\ 1 <= i /\ i + 1 <= n - 1 /\ i < n
    BY <1>1, <1>2
<1>4. ts[1].t <= ts[i].t /\ ts[i + 1].t <= ts[n - 1].t
    BY <1>2, <1>3
<1>5. ts[i].t \in Nat /\ ts[i].age \in Nat /\ ts[i + 1].t \in Nat
    BY <1>2, <1>3
<1>6. Freshest(t) = ts[i].t - ts[i].age
    BY DEF Closed, IsFresh
<1>7. Age(t) = ts[i].age + t - ts[i].t
    BY <1>5, <1>6 DEF Age
<1> QED BY <1>2, <1>4, <1>5, <1>6, <1>7, SMTT(40)

\* Every instant lies between two entries.
LEMMA EntryBefore ==
    ASSUME LogInv, rcvd # <<>>, NEW ts, Closed(ts),
           NEW t \in First .. TMax - 1
    PROVE  /\ t \in Nat
           /\ \E i \in 1 .. Len(ts) - 2 :
                  /\ i = Max({k \in 1 .. Len(ts) : ts[k].t <= t})
                  /\ ts[i].t <= t /\ t < ts[i + 1].t
                  /\ Rise(ts, i)
<1>1. PICK n, K : n = Len(ts) /\ K = {k \in 1 .. n : ts[k].t <= t}
    OBVIOUS
<1>2. /\ n \in Nat /\ n > 2 /\ TMax \in Nat /\ First \in Nat
      /\ \A k \in 1 .. n : ts[k].t \in Nat /\ ts[k].age \in Nat
      /\ ts[1].t = First /\ ts[n - 1].t = TMax /\ ts[n].t = TMax
      /\ \A k \in 1 .. n - 1 : Rise(ts, k) \/ Drop(ts, k)
    BY <1>1, ClosedEntries
<1>3. t \in Nat /\ First <= t /\ t < TMax
    BY <1>2
<1>4. K \in SUBSET (0 .. n) /\ K # {}
    <2>1. 1 \in K
        BY <1>1, <1>2, <1>3
    <2> QED BY <1>1, <2>1
<1>5. PICK i : i = Max(K)
    OBVIOUS
<1>6. i \in K /\ \A k \in K : k <= i
    BY <1>2, <1>4, <1>5, Greatest
<1>7. i \in 1 .. n - 2
    <2>1. n - 1 \notin K /\ n \notin K
        BY <1>1, <1>2, <1>3
    <2>2. i \in 1 .. n /\ i # n /\ i # n - 1
        BY <1>1, <1>6, <2>1
    <2> QED BY <1>2, <2>2
<1>8. ts[i].t <= t /\ t < ts[i + 1].t
    <2>1. i + 1 \in 1 .. n /\ i + 1 \notin K
        BY <1>2, <1>6, <1>7
    <2> QED BY <1>1, <1>2, <1>3, <1>6, <2>1
<1>9. Rise(ts, i)
    <2>1. i \in 1 .. n - 1 /\ i \in 1 .. n /\ i + 1 \in 1 .. n
        BY <1>2, <1>7
    <2>2. ts[i].t \in Nat /\ ts[i + 1].t \in Nat
        BY <1>2, <2>1
    <2>3. ts[i + 1].t # ts[i].t
        BY <1>3, <1>8, <2>2
    <2> QED BY <1>2, <2>1, <2>3 DEF Drop
<1> QED BY <1>1, <1>3, <1>5, <1>7, <1>8, <1>9

\* At every instant from the first reception to T_MAX the series has the age
\* of the freshest packet received, for every log: the loop of get_aoi_ts is
\* right whatever came late, twice or out of order.
THEOREM SeriesAgrees == Spec => []SeriesIsAge
<1>1. LogInv /\ SeriesInv => SeriesIsAge
    <2> SUFFICES ASSUME LogInv, SeriesInv, rcvd # <<>>,
                        NEW t \in First .. TMax - 1,
                        NEW ts, ts = AoiTs(rcvd)
                 PROVE  LET e == ts[Max({i \in 1 .. Len(ts) : ts[i].t <= t})]
                        IN  e.age + t - e.t = Age(t)
        BY DEF SeriesIsAge
    <2>1. Closed(ts)
        BY SeriesClosed
    <2>2. t \in Nat
        BY <2>1, EntryBefore
    <2>3. PICK i \in 1 .. Len(ts) - 2 :
              /\ i = Max({k \in 1 .. Len(ts) : ts[k].t <= t})
              /\ ts[i].t <= t /\ t < ts[i + 1].t
        BY <2>1, EntryBefore
    <2>4. Age(t) = ts[i].age + t - ts[i].t
        BY <2>1, <2>2, <2>3, AgeAt
    <2> QED BY <2>3, <2>4
<1> QED BY <1>1, AgeInvariant, PTL

-----------------------------------------------------------------------------
(* Peaks and histogram *)

\* A peak is followed by a drop, and a drop follows a peak.
LEMMA PeakDrops ==
    ASSUME LogInv, rcvd # <<>>, NEW ts, Closed(ts)
    PROVE  InnerPeaks(ts) = {i \in 2 .. Len(ts) - 1 : Drop(ts, i)}
<1>1. PICK n : n = Len(ts)
    OBVIOUS
<1>2. /\ n \in Nat /\ n > 2
      /\ \A k \in 1 .. n : ts[k].t \in Nat /\ ts[k].age \in Nat
      /\ \A k \in 1 .. n - 1 : Rise(ts, k) \/ Drop(ts, k)
    BY <1>1, ClosedEntries
<1> SUFFICES ASSUME NEW i \in 2 .. n - 1
             PROVE  (ts[i].age > ts[i - 1].age /\ ts[i].age > ts[i + 1].age)
                        <=> Drop(ts, i)
    BY <1>1 DEF InnerPeaks
<1>3. /\ i \in 1 .. n /\ i - 1 \in 1 .. n /\ i + 1 \in 1 .. n /\ i > 1
      /\ i \in 1 .. n - 1 /\ i - 1 \in 1 .. n - 1 /\ (i - 1) + 1 = i
    BY <1>2
<1>4. /\ ts[i].t \in Nat /\ ts[i - 1].t \in Nat /\ ts[i + 1].t \in Nat
      /\ ts[i].age \in Nat /\ ts[i - 1].age \in Nat /\ ts[i + 1].age \in Nat
    BY <1>2, <1>3
<1>5. Rise(ts, i) => ts[i + 1].age > ts[i].age
    BY <1>4 DEF Rise
<1>6. /\ Rise(ts, i - 1) => /\ ts[i].age > ts[i - 1].age
                            /\ ts[i - 1].t < ts[i].t
      /\ Drop(ts, i - 1) => /\ ts[i].age < ts[i - 1].age
                            /\ ts[i - 1].t = ts[i].t
    BY <1>3, <1>4 DEF Rise, Drop
<1>7. Rise(ts, i) \/ Drop(ts, i)
    BY <1>2, <1>3
<1>8. Rise(ts, i - 1) \/ Drop(ts, i - 1)
    BY <1>2, <1>3
<1>9. Drop(ts, i) => ts[i - 1].t < ts[i].t /\ ts[i + 1].age < ts[i].age
    BY DEF Drop
<1> QED BY <1>4, <1>5, <1>6, <1>7, <1>8, <1>9

\* Just before a drop the age is one less than its peak.
LEMMA AgeBeforeDrop ==
    ASSUME LogInv, rcvd # <<>>, NEW ts, Closed(ts),
           NEW i \in 2 .. Len(ts) - 1, Drop(ts, i)
    PROVE  /\ ts[i].t \in First + 1 .. TMax
           /\ ts[i].age = Age(ts[i].t - 1) + 1
           /\ Freshest(ts[i].t - 1) = ts[i].t - ts[i].age
<1>1. PICK n : n = Len(ts)
    OBVIOUS
<1>2. /\ n \in Nat /\ n > 2 /\ TMax \in Nat /\ First \in Nat
      /\ \A k \in 1 .. n : ts[k].t \in Nat /\ ts[k].age \in Nat
      /\ \A k, j \in 1 .. n : k <= j => ts[k].t <= ts[j].t
      /\ \A k \in 1 .. n - 1 : Rise(ts, k) \/ Drop(ts, k)
      /\ ts[n].t = TMax
    BY <1>1, ClosedEntries
<1>3. PICK k : k = i - 1
    OBVIOUS
<1>4. /\ k \in 1 .. n - 2 /\ i = k + 1 /\ k \in 1 .. n - 1
      /\ k \in 1 .. n /\ i \in 1 .. n /\ n \in 1 .. n /\ k <= n /\ i <= n
    BY <1>1, <1>2, <1>3
<1>5. ts[k].t \in Nat /\ ts[i].t \in Nat /\ ts[k].age \in Nat /\ ts[i].age \in Nat
    BY <1>2, <1>4
<1>6. ts[k].t < ts[i].t
    BY <1>3 DEF Drop
<1>7. ts[i].age = ts[k].age + ts[i].t - ts[k].t
    <2>1. ~ Drop(ts, k)
        BY <1>4, <1>5, <1>6 DEF Drop
    <2> QED BY <1>2, <1>4, <2>1 DEF Rise
<1>8. PICK t : t = ts[i].t - 1
    OBVIOUS
<1>9. t \in Nat /\ ts[k].t <= t /\ t < ts[k + 1].t
    BY <1>4, <1>5, <1>6, <1>8, SMTT(40)
<1>10. /\ Freshest(t) = ts[k].t - ts[k].age
       /\ Age(t) = ts[k].age + t - ts[k].t
       /\ First <= t
    BY <1>1, <1>4, <1>9, AgeAt
<1>11. Age(t) + 1 = ts[i].age /\ Freshest(t) = ts[i].t - ts[i].age
    <2>1. PICK p, q, u, v : /\ p = ts[k].t /\ q = ts[k].age
                            /\ u = ts[i].t /\ v = ts[i].age
        OBVIOUS
    <2>2. p \in Nat /\ q \in Nat /\ u \in Nat /\ v \in Nat /\ t \in Nat
        BY <1>5, <1>9, <2>1
    <2>3. v = q + u - p /\ t = u - 1
        BY <1>7, <1>8, <2>1
    <2>4. Age(t) = q + t - p /\ Freshest(t) = p - q
        BY <1>10, <2>1
    <2>5. Age(t) + 1 = v /\ Freshest(t) = u - v
        BY <2>2, <2>3, <2>4
    <2> QED BY <2>1, <2>5
<1>12. ts[i].t \in First + 1 .. TMax
    <2>1. ts[i].t <= ts[n].t
        BY <1>2, <1>4
    <2> QED BY <1>2, <1>5, <1>8, <1>9, <1>10, <2>1
<1> QED BY <1>8, <1>11, <1>12

\* The drops before T_MAX are where a fresher packet arrives.
LEMMA DropIsFresher ==
    ASSUME LogInv, rcvd # <<>>, NEW ts, Closed(ts),
           NEW i \in 2 .. Len(ts) - 1, Drop(ts, i), ts[i].t < TMax
    PROVE  Freshest(ts[i].t) > Freshest(ts[i].t - 1)
<1>1. PICK n : n = Len(ts)
    OBVIOUS
<1>2. /\ n \in Nat /\ n > 2 /\ TMax \in Nat
      /\ \A k \in 1 .. n : ts[k].t \in Nat /\ ts[k].age \in Nat
      /\ \A k \in 1 .. n - 1 : Rise(ts, k) \/ Drop(ts, k)
      /\ ts[n].t = TMax /\ ts[n - 1].t = TMax
    BY <1>1, ClosedEntries
<1>3. PICK j : j = i + 1
    OBVIOUS
<1>4. ts[j].t = ts[i].t /\ ts[j].age < ts[i].age
    BY <1>3 DEF Drop
<1>5. /\ i \in 1 .. n /\ j \in 1 .. n /\ i \in Nat /\ i > 1
      /\ j - 1 = i
    BY <1>1, <1>2, <1>3
<1>6. /\ ts[i].t \in Nat /\ ts[j].t \in Nat /\ ts[i].age \in Nat
      /\ ts[j].age \in Nat
    BY <1>2, <1>5
<1>7. j \in 1 .. n - 2 /\ j \in 1 .. n - 1 /\ j + 1 \in 1 .. n
    <2>1. j # n /\ j # n - 1
        BY <1>2, <1>4, <1>6
    <2> QED BY <1>2, <1>5, <2>1
<1>8. ts[j].t < ts[j + 1].t
    <2>1. ~ Drop(ts, j)
        BY <1>4, <1>5, <1>6 DEF Drop
    <2> QED BY <1>2, <1>7, <2>1 DEF Rise
<1>9. Freshest(ts[i].t) = ts[j].t - ts[j].age
    BY <1>1, <1>4, <1>6, <1>7, <1>8, AgeAt, SMTT(40)
<1>10. Freshest(ts[i].t - 1) = ts[i].t - ts[i].age
    BY AgeBeforeDrop
<1> QED BY <1>4, <1>6, <1>9, <1>10

\* Where a fresher packet arrives, and at T_MAX, the series drops.
LEMMA FresherIsDrop ==
    ASSUME LogInv, rcvd # <<>>, NEW ts, Closed(ts),
           NEW t \in First + 1 .. TMax,
           t < TMax => Freshest(t) > Freshest(t - 1)
    PROVE  \E i \in 2 .. Len(ts) - 1 : Drop(ts, i) /\ ts[i].t = t
<1>1. PICK n : n = Len(ts)
    OBVIOUS
<1>2. /\ n \in Nat /\ n > 2 /\ TMax \in Nat /\ First \in Nat
      /\ \A k \in 1 .. n : ts[k].t \in Nat /\ ts[k].age \in Nat
      /\ \A k, j \in 1 .. n : k <= j => ts[k].t <= ts[j].t
      /\ \A k \in 1 .. n - 1 : Rise(ts, k) \/ Drop(ts, k)
      /\ \A k \in 1 .. n - 2 : ts[k].t < TMax
      /\ ts[n].t = TMax /\ ts[n - 1].t = TMax
    BY <1>1, ClosedEntries
<1>3. PICK u : u = t - 1
    OBVIOUS
<1>4. u \in First .. TMax - 1 /\ t \in Nat /\ t = u + 1 /\ u \in Nat
    BY <1>2, <1>3
<1>5. PICK k \in 1 .. n - 2 :
          ts[k].t <= u /\ u < ts[k + 1].t /\ Rise(ts, k)
    BY <1>1, <1>4, EntryBefore
<1>6. PICK i : i = k + 1
    OBVIOUS
<1>7. /\ k \in 1 .. n /\ i \in 1 .. n /\ i \in 2 .. n - 1 /\ i \in 1 .. n - 1
      /\ i + 1 \in 1 .. n /\ i - 1 = k
    BY <1>2, <1>6
<1>8. /\ ts[k].t \in Nat /\ ts[i].t \in Nat /\ ts[k].age \in Nat
      /\ ts[i].age \in Nat /\ ts[i + 1].t \in Nat
    BY <1>2, <1>7
<1>9. Freshest(u) = ts[k].t - ts[k].age
    BY <1>1, <1>4, <1>5, AgeAt
<1>10. ts[i].age = ts[k].age + ts[i].t - ts[k].t /\ ts[k].t < ts[i].t
    BY <1>5, <1>6 DEF Rise
<1>11. ts[i].t = t
    <2>1. t <= ts[i].t
        BY <1>4, <1>5, <1>6, <1>8
    <2>2. CASE t < ts[i].t
        <3>1. ts[k].t <= t
            BY <1>4, <1>5, <1>8
        <3>2. Freshest(t) = ts[k].t - ts[k].age
            BY <1>1, <1>4, <1>6, <2>2, <3>1, AgeAt
        <3>3. ts[i].t <= TMax
            <4>1. n \in 1 .. n /\ i <= n
                BY <1>2, <1>7
            <4> QED BY <1>2, <1>7, <4>1
        <3>4. t < TMax
            BY <1>2, <1>4, <1>8, <2>2, <3>3
        <3>5. Freshest(t) > Freshest(u)
            BY <1>3, <3>4
        <3>6. Freshest(t) \in Int /\ Freshest(t) = Freshest(u)
            BY <1>8, <1>9, <3>2
        <3> QED BY <3>5, <3>6
    <2> QED BY <1>4, <1>8, <2>1, <2>2
<1>12. Drop(ts, i)
    <2>1. CASE i = n - 1
        <3>1. ts[i + 1].t = ts[i].t
            BY <1>2, <2>1
        <3>2. ~ Rise(ts, i)
            BY <1>8, <3>1 DEF Rise
        <3> QED BY <1>2, <1>7, <3>2
    <2>2. CASE i # n - 1
        <3>1. i \in 1 .. n - 2
            BY <1>2, <1>7, <2>2
        <3>2. t < TMax
            BY <1>2, <1>11, <3>1
        <3>3. Freshest(t) > Freshest(u)
            BY <1>3, <3>2
        <3>4. SUFFICES ASSUME Rise(ts, i) PROVE FALSE
            BY <1>2, <1>7
        <3>5. ts[i].t <= t /\ t < ts[i + 1].t
            BY <1>4, <1>11, <3>4 DEF Rise
        <3>6. Freshest(t) = ts[i].t - ts[i].age
            BY <1>1, <1>4, <3>1, <3>5, AgeAt
        <3>7. Freshest(t) = Freshest(u) /\ Freshest(t) \in Int
            BY <1>8, <1>9, <1>10, <3>6
        <3> QED BY <3>3, <3>7
    <2> QED BY <2>1, <2>2
<1> QED BY <1>1, <1>7, <1>11, <1>12

\* The inner peaks are the ages just before a fresher packet arrives, and the
\* age at T_MAX: no fresher packet is missed and no peak invented.
THEOREM PeaksAgree == Spec => []PeaksPrecedeDrops
<1>1. LogInv /\ SeriesInv => PeaksPrecedeDrops
    <2> SUFFICES ASSUME LogInv, SeriesInv, rcvd # <<>>,
                        NEW ts, ts = AoiTs(rcvd),
                        NEW fresher,
                        fresher = {x \in First + 1 .. TMax - 1 :
                                      Freshest(x) > Freshest(x - 1)}
                 PROVE  {<<ts[i].t, ts[i].age>> : i \in InnerPeaks(ts)} =
                            {<<t, Age(t - 1) + 1>> : t \in fresher \cup {TMax}}
        BY DEF PeaksPrecedeDrops
    <2>1. Closed(ts)
        BY SeriesClosed
    <2>2. First \in Nat /\ TMax \in Nat /\ First < TMax
        <3>1. 1 \in 1 .. Len(ts) - 2
            <4>1. Len(ts) \in Nat /\ Len(ts) > 2
                BY <2>1, ClosedEntries
            <4> QED BY <4>1
        <3> QED BY <2>1, <3>1, ClosedEntries
    <2>3. ASSUME NEW i \in InnerPeaks(ts)
          PROVE  \E t \in fresher \cup {TMax} :
                     <<ts[i].t, ts[i].age>> = <<t, Age(t - 1) + 1>>
        <3>1. i \in 2 .. Len(ts) - 1 /\ Drop(ts, i)
            BY <2>1, <2>3, PeakDrops
        <3>2. ts[i].t \in First + 1 .. TMax /\ ts[i].age = Age(ts[i].t - 1) + 1
            BY <2>1, <3>1, AgeBeforeDrop
        <3>3. ts[i].t < TMax => Freshest(ts[i].t) > Freshest(ts[i].t - 1)
            BY <2>1, <3>1, DropIsFresher
        <3>4. ts[i].t \in fresher \cup {TMax}
            BY <2>2, <3>2, <3>3
        <3> QED BY <3>2, <3>4
    <2>4. ASSUME NEW t \in fresher \cup {TMax}
          PROVE  \E i \in InnerPeaks(ts) :
                     <<t, Age(t - 1) + 1>> = <<ts[i].t, ts[i].age>>
        <3>1. /\ t \in First + 1 .. TMax
              /\ t < TMax => Freshest(t) > Freshest(t - 1)
            BY <2>2
        <3>2. PICK i \in 2 .. Len(ts) - 1 : Drop(ts, i) /\ ts[i].t = t
            BY <2>1, <3>1, FresherIsDrop
        <3>3. ts[i].age = Age(ts[i].t - 1) + 1
            BY <2>1, <3>2, AgeBeforeDrop
        <3>4. i \in InnerPeaks(ts)
            BY <2>1, <3>2, PeakDrops
        <3> QED BY <3>2, <3>3, <3>4
    <2> QED BY <2>3, <2>4
<1> QED BY <1>1, AgeInvariant, PTL

\* Each rise that a bin counts has one instant at which the age is the bin's
\* end, and every such instant is in one rise.
LEMMA DwellBijection ==
    ASSUME LogInv, rcvd # <<>>, NEW ts, Closed(ts), NEW b \in Int,
           NEW A, A = {i \in 1 .. Len(ts) - 2 :
                          ts[i].age <= b /\ b < ts[i + 1].age},
           NEW T, T = {t \in First .. TMax - 1 : Age(t) = b}
    PROVE  ExistsBijection(A, T)
<1>1. PICK n : n = Len(ts)
    OBVIOUS
<1>2. /\ n \in Nat /\ n > 2 /\ TMax \in Nat /\ First \in Nat
      /\ \A k \in 1 .. n : ts[k].t \in Nat /\ ts[k].age \in Nat
      /\ \A k, j \in 1 .. n : k <= j => ts[k].t <= ts[j].t
      /\ \A k \in 1 .. n - 1 : Rise(ts, k) \/ Drop(ts, k)
    BY <1>1, ClosedEntries
<1>3. PICK f : f = [i \in A |-> ts[i].t + b - ts[i].age]
    OBVIOUS
<1>4. ASSUME NEW i \in A
      PROVE  /\ i \in 1 .. n - 2 /\ i \in 1 .. n /\ i + 1 \in 1 .. n
             /\ ts[i].t <= f[i] /\ f[i] < ts[i + 1].t /\ f[i] \in Nat
             /\ Age(f[i]) = b /\ f[i] \in First .. TMax - 1
    <2>1. /\ i \in 1 .. n - 2 /\ i \in 1 .. n /\ i + 1 \in 1 .. n
          /\ i \in 1 .. n - 1
          /\ ts[i].age <= b /\ b < ts[i + 1].age
        BY <1>1, <1>2
    <2>2. PICK p, q, u, v : /\ p = ts[i].t /\ q = ts[i].age
                            /\ u = ts[i + 1].t /\ v = ts[i + 1].age
        OBVIOUS
    <2>3. p \in Nat /\ q \in Nat /\ u \in Nat /\ v \in Nat
        BY <1>2, <2>1, <2>2
    <2>4. v = q + u - p
        <3>1. ~ Drop(ts, i)
            <4>1. ~ (v < q)
                BY <2>1, <2>2, <2>3
            <4> QED BY <2>2, <4>1 DEF Drop
        <3> QED BY <1>2, <2>1, <2>2, <3>1 DEF Rise
    <2>5. PICK t : t = p + b - q
        OBVIOUS
    <2>6. f[i] = t
        BY <1>3, <2>2, <2>5
    <2>7. t \in Nat /\ p <= t /\ t < u /\ q + t - p = b
        <3>1. q <= b /\ b < v
            BY <2>1, <2>2
        <3> QED BY <2>3, <2>4, <2>5, <3>1
    <2>8. Age(t) = q + t - p /\ First <= t /\ t < TMax
        BY <1>1, <2>1, <2>2, <2>7, AgeAt
    <2> QED BY <1>2, <2>1, <2>2, <2>6, <2>7, <2>8
<1>5. f \in [A -> T]
    BY <1>3, <1>4
<1>6. ASSUME NEW i \in A, NEW j \in A, f[i] = f[j] PROVE i = j
    <2>1. ASSUME NEW k \in A, NEW m \in A, k < m PROVE f[k] < f[m]
        <3>1. k + 1 \in 1 .. n /\ m \in 1 .. n /\ k + 1 <= m
            BY <1>4, <2>1, SMTT(40)
        <3>2. ts[k + 1].t <= ts[m].t
            BY <1>2, <3>1
        <3>3. f[k] < ts[k + 1].t /\ ts[m].t <= f[m] /\ f[k] \in Nat /\ f[m] \in Nat
            BY <1>4
        <3>4. ts[k + 1].t \in Nat /\ ts[m].t \in Nat
            BY <1>2, <3>1
        <3>5. \A p, q, u, v \in Nat : p < q /\ q <= u /\ u <= v => p < v
            OBVIOUS
        <3> QED BY <3>2, <3>3, <3>4, <3>5
    <2>2. i \in Nat /\ j \in Nat /\ f[i] \in Nat /\ f[j] \in Nat
        BY <1>2, <1>4, SMTT(40)
    <2>3. ~ (i < j)
        BY <1>6, <2>1, <2>2
    <2>4. ~ (j < i)
        BY <1>6, <2>1, <2>2
    <2> QED BY <2>2, <2>3, <2>4
<1>7. ASSUME NEW t \in T PROVE \E i \in A : f[i] = t
    <2>1. t \in First .. TMax - 1 /\ Age(t) = b /\ t \in Nat
        BY <1>2
    <2>2. PICK i \in 1 .. n - 2 :
              ts[i].t <= t /\ t < ts[i + 1].t /\ Rise(ts, i)
        BY <1>1, <2>1, EntryBefore
    <2>3. PICK p, q, u, v : /\ p = ts[i].t /\ q = ts[i].age
                            /\ u = ts[i + 1].t /\ v = ts[i + 1].age
        OBVIOUS
    <2>4. i \in 1 .. n /\ i + 1 \in 1 .. n
        BY <1>2
    <2>5. p \in Nat /\ q \in Nat /\ u \in Nat /\ v \in Nat
        BY <1>2, <2>3, <2>4
    <2>6. v = q + u - p /\ p <= t /\ t < u
        BY <2>2, <2>3 DEF Rise
    <2>7. b = q + t - p
        BY <1>1, <2>1, <2>2, <2>3, AgeAt
    <2>8. q <= b /\ b < v /\ p + b - q = t
        BY <2>1, <2>5, <2>6, <2>7
    <2>9. i \in A
        BY <1>1, <2>3, <2>8
    <2> QED BY <1>3, <2>3, <2>8, <2>9
<1>8. f \in Bijection(A, T)
    BY <1>5, <1>6, <1>7
       DEF Bijection, Injection, Surjection, IsInjective
<1> QED BY <1>8 DEF ExistsBijection

\* The bins of the histogram count the instants at which the age is what they
\* end with: no drop of the series is counted, and no rise twice.
THEOREM HistogramAgrees == Spec => []HistogramCountsDwell
<1>1. LogInv /\ SeriesInv => HistogramCountsDwell
    <2> SUFFICES ASSUME LogInv, SeriesInv, rcvd # <<>>, NEW b \in BinEnds
                 PROVE  Bins(AoiTs(rcvd))[b] =
                            Cardinality({t \in First .. TMax - 1 : Age(t) = b})
        BY DEF HistogramCountsDwell
    <2>1. PICK ts, A, T :
              /\ ts = AoiTs(rcvd)
              /\ A = {i \in 1 .. Len(ts) - 2 :
                         ts[i].age <= b /\ b < ts[i + 1].age}
              /\ T = {t \in First .. TMax - 1 : Age(t) = b}
        OBVIOUS
    <2>2. Closed(ts)
        BY <2>1, SeriesClosed
    <2>3. b \in Int
        <3>1. PICK k \in 1 .. (TMax - 1) \div TRes : b = k * TRes
            BY DEF BinEnds
        <3>2. k \in Int /\ TRes \in Int
            BY AgeAssumption
        <3> QED BY <3>1, <3>2
    <2>4. ExistsBijection(A, T)
        BY <2>1, <2>2, <2>3, DwellBijection
    <2>5. IsFiniteSet(A)
        <3>1. Len(ts) \in Nat /\ Len(ts) > 2
            BY <2>2, ClosedEntries
        <3>2. IsFiniteSet(1 .. Len(ts) - 2)
            BY <3>1, FS_Interval
        <3> QED BY <2>1, <3>2, FS_Subset
    <2>6. Cardinality(T) = Cardinality(A)
        BY <2>4, <2>5, FS_Bijection
    <2>7. Bins(ts)[b] = Cardinality(A)
        BY <2>1 DEF Bins
    <2> QED BY <2>1, <2>6, <2>7
<1> QED BY <1>1, AgeInvariant, PTL

-----------------------------------------------------------------------------
(* Sums *)

Picked(T) == CHOOSE x \in T : TRUE

\* g is the function by which MapThenSumSet is defined, for the summands f.
IsSum(g, f, S) ==
    g = [T \in SUBSET S |->
            IF T = {} THEN 0 ELSE f[Picked(T)] + g[T \ {Picked(T)}]]

\* Of a set that is not empty an element is picked.
LEMMA PickedIn == \A T : T # {} => Picked(T) \in T
BY Zenon DEF Picked

\* Subsets by their size.
UpTo(S, k) == {T \in SUBSET S : Cardinality(T) <= k}

\* One element less is one size less.
LEMMA UpToSteps ==
    ASSUME NEW S, IsFiniteSet(S), NEW k \in Nat
    PROVE  /\ UpTo(S, 0) = {{}}
           /\ UpTo(S, k) \subseteq UpTo(S, k + 1)
           /\ UpTo(S, Cardinality(S)) = SUBSET S
           /\ \A T \in UpTo(S, k + 1) : \A x \in T : T \ {x} \in UpTo(S, k)
<1>1. \A T \in SUBSET S : IsFiniteSet(T) /\ Cardinality(T) <= Cardinality(S)
    BY FS_Subset
<1>2. \A T \in SUBSET S : Cardinality(T) \in Nat
    BY <1>1, FS_CardinalityType
<1>3. UpTo(S, 0) = {{}}
    <2>1. Cardinality({}) = 0
        BY FS_EmptySet
    <2>2. \A T \in SUBSET S : Cardinality(T) <= 0 => T = {}
        <3> SUFFICES ASSUME NEW T \in SUBSET S, Cardinality(T) <= 0
                     PROVE  T = {}
            OBVIOUS
        <3>1. Cardinality(T) = 0
            BY <1>2
        <3> QED BY <1>1, <3>1, FS_EmptySet
    <2> QED BY <2>1, <2>2 DEF UpTo
<1>4. UpTo(S, k) \subseteq UpTo(S, k + 1)
    BY <1>2 DEF UpTo
<1>5. UpTo(S, Cardinality(S)) = SUBSET S
    BY <1>1 DEF UpTo
<1>6. ASSUME NEW T \in UpTo(S, k + 1), NEW x \in T
      PROVE  T \ {x} \in UpTo(S, k)
    <2>1. T \in SUBSET S /\ Cardinality(T) <= k + 1
        BY DEF UpTo
    <2>2. Cardinality(T \ {x}) = Cardinality(T) - 1
        BY <1>1, <2>1, FS_RemoveElement
    <2>3. Cardinality(T) \in Nat
        BY <1>2, <2>1
    <2>4. Cardinality(T \ {x}) <= k
        BY <2>1, <2>2, <2>3
    <2> QED BY <2>1, <2>4 DEF UpTo
<1> QED BY <1>3, <1>4, <1>5, <1>6

\* Such a function exists, so that the one MapThenSumSet chooses is one.
LEMMA SumExists ==
    ASSUME NEW S, IsFiniteSet(S), NEW f
    PROVE  \E g : IsSum(g, f, S)
<1> DEFINE Summed(g, k) ==
               g = [T \in UpTo(S, k) |->
                       IF T = {} THEN 0 ELSE f[Picked(T)] + g[T \ {Picked(T)}]]
           W == {k \in Nat : \E g : Summed(g, k)}
<1>1. 0 \in W
    <2> DEFINE g == [T \in UpTo(S, 0) |-> 0]
    <2>1. \A T \in UpTo(S, 0) : T = {}
        BY UpToSteps
    <2>2. Summed(g, 0)
        BY <2>1
    <2> QED BY <2>2
<1>2. ASSUME NEW k \in W PROVE k + 1 \in W
    <2>1. PICK g : Summed(g, k)
        OBVIOUS
    <2>2. PICK h : h = [T \in UpTo(S, k + 1) |->
                           IF T = {} THEN 0
                           ELSE f[Picked(T)] + g[T \ {Picked(T)}]]
        OBVIOUS
    <2>3. \A T \in UpTo(S, k) : T \in UpTo(S, k + 1)
        BY UpToSteps
    <2>4. \A T \in UpTo(S, k) : h[T] = g[T]
        BY <2>1, <2>2, <2>3
    <2>5. \A T \in UpTo(S, k + 1) : T # {} => T \ {Picked(T)} \in UpTo(S, k)
        BY UpToSteps, PickedIn
    <2>6. Summed(h, k + 1)
        BY <2>2, <2>4, <2>5
    <2> QED BY <2>6
<1>3. W = Nat
    <2> HIDE DEF W
    <2> QED BY <1>1, <1>2, Induction DEF W
<1>4. Cardinality(S) \in Nat /\ UpTo(S, Cardinality(S)) = SUBSET S
    BY FS_CardinalityType, UpToSteps
<1>5. PICK g : Summed(g, Cardinality(S))
    BY <1>3, <1>4
<1>6. IsSum(g, f, S)
    BY <1>4, <1>5 DEF IsSum
<1> QED BY <1>6

\* Whichever summand is taken first, the sum is the same.
Splits(g, f, S) ==
    \A T \in SUBSET S :
        /\ g[T] \in Int
        /\ \A x \in T : g[T] = f[x] + g[T \ {x}]

\* The order of the summands does not matter.
LEMMA SumSplit ==
    ASSUME NEW S, IsFiniteSet(S), NEW f \in [S -> Int], NEW g, IsSum(g, f, S)
    PROVE  Splits(g, f, S)
<1> DEFINE Good(T) == /\ g[T] \in Int
                      /\ \A x \in T : g[T] = f[x] + g[T \ {x}]
           W == {k \in Nat : \A T \in UpTo(S, k) : Good(T)}
<1>0. /\ g[{}] = 0
      /\ \A T \in SUBSET S :
             T # {} => g[T] = f[Picked(T)] + g[T \ {Picked(T)}]
    BY DEF IsSum
<1>1. 0 \in W
    <2>1. UpTo(S, 0) = {{}}
        BY UpToSteps
    <2>2. ASSUME NEW T \in UpTo(S, 0) PROVE Good(T)
        <3>1. T = {}
            BY <2>1
        <3> QED BY <1>0, <3>1
    <2> QED BY <2>2
<1>2. ASSUME NEW k \in W PROVE k + 1 \in W
    <2> SUFFICES ASSUME NEW T \in UpTo(S, k + 1) PROVE Good(T)
        OBVIOUS
    <2>1. T \in SUBSET S /\ \A x \in T : T \ {x} \in UpTo(S, k)
        BY UpToSteps DEF UpTo
    <2>2. \A x \in T : Good(T \ {x})
        BY <2>1
    <2>3. CASE T = {}
        BY <1>0, <2>3
    <2>4. CASE T # {}
        <3>1. PICK p : p = Picked(T) /\ p \in T
            BY <2>4, PickedIn
        <3>2. /\ g[T] = f[p] + g[T \ {p}]
              /\ f[p] \in Int /\ g[T \ {p}] \in Int /\ g[T] \in Int
            <4>1. g[T] = f[p] + g[T \ {p}]
                BY <1>0, <2>1, <2>4, <3>1
            <4>2. f[p] \in Int
                BY <2>1, <3>1
            <4>3. g[T \ {p}] \in Int
                BY <2>2, <3>1
            <4> QED BY <4>1, <4>2, <4>3
        <3>3. ASSUME NEW x \in T, x # p PROVE g[T] = f[x] + g[T \ {x}]
            <4>1. PICK c, d, e : /\ c = g[T \ {p}] /\ d = g[T \ {x}]
                                 /\ e = g[(T \ {p}) \ {x}]
                OBVIOUS
            <4>2. (T \ {p}) \ {x} = (T \ {x}) \ {p}
                OBVIOUS
            <4>3. x \in T \ {p} /\ p \in T \ {x}
                BY <3>1, <3>3
            <4>4. c = f[x] + e
                BY <2>2, <3>1, <4>1, <4>3
            <4>5. d = f[p] + e
                BY <2>2, <3>3, <4>1, <4>2, <4>3
            <4>6. f[x] \in Int /\ c \in Int /\ d \in Int
                BY <2>1, <2>2, <3>1, <4>1
            <4>7. e \in Int
                <5>1. T \ {p} \in UpTo(S, k) /\ UpTo(S, k) \subseteq UpTo(S, k + 1)
                    BY <2>1, <3>1, UpToSteps
                <5>2. (T \ {p}) \ {x} \in UpTo(S, k)
                    BY <4>3, <5>1, UpToSteps
                <5> QED BY <4>1, <5>2
            <4> QED BY <3>2, <4>1, <4>4, <4>5, <4>6, <4>7
        <3> QED BY <3>1, <3>2, <3>3
    <2> QED BY <2>3, <2>4
<1>3. W = Nat
    <2> HIDE DEF W
    <2> QED BY <1>1, <1>2, Induction DEF W
<1>4. Cardinality(S) \in Nat /\ UpTo(S, Cardinality(S)) = SUBSET S
    BY FS_CardinalityType, UpToSteps
<1> QED BY <1>3, <1>4 DEF Splits

\* g adds up f from a to b, summand by summand.
Accumulates(g, f, a, b) ==
    /\ g[{}] = 0
    /\ \A k \in a .. b : /\ g[a .. k - 1] \in Int
                         /\ g[a .. k] = g[a .. k - 1] + f[k]

\* A sum over an interval can be taken from its start.
LEMMA SumSteps ==
    ASSUME NEW a \in Int, NEW b \in Int, NEW f \in [a .. b -> Int],
           NEW g, IsSum(g, f, a .. b)
    PROVE  Accumulates(g, f, a, b)
<1>1. IsFiniteSet(a .. b)
    BY FS_Interval
<1>2. \A T \in SUBSET (a .. b) : /\ g[T] \in Int
                                 /\ \A x \in T : g[T] = f[x] + g[T \ {x}]
    <2> DEFINE S == a .. b
    <2>1. IsFiniteSet(S) /\ f \in [S -> Int] /\ IsSum(g, f, S)
        BY <1>1
    <2> HIDE DEF S
    <2>2. Splits(g, f, S)
        BY <2>1, SumSplit
    <2> QED BY <2>2 DEF S, Splits
<1>3. g[{}] = 0
    BY DEF IsSum
<1>4. ASSUME NEW k \in a .. b
      PROVE  g[a .. k - 1] \in Int /\ g[a .. k] = g[a .. k - 1] + f[k]
    <2>1. /\ a .. k - 1 \in SUBSET (a .. b) /\ a .. k \in SUBSET (a .. b)
          /\ k \in a .. k /\ (a .. k) \ {k} = a .. k - 1
        OBVIOUS
    <2>2. g[a .. k] = f[k] + g[(a .. k) \ {k}]
        BY <1>2, <2>1
    <2>3. g[a .. k - 1] \in Int /\ f[k] \in Int
        BY <1>2, <2>1
    <2>4. PICK c, d : c = g[a .. k - 1] /\ d = f[k]
        OBVIOUS
    <2>5. g[a .. k] = d + c
        BY <2>1, <2>2, <2>4
    <2>6. c \in Int /\ d \in Int
        BY <2>3, <2>4
    <2> QED BY <2>4, <2>5, <2>6
<1> QED BY <1>3, <1>4 DEF Accumulates

-----------------------------------------------------------------------------
(* The average *)

\* Twice the area of the strip of the series after entry i.
Strip(ts, i) == (ts[i].age + ts[i + 1].age) * (ts[i + 1].t - ts[i].t)

Strips(ts, n) == [i \in 1 .. n - 1 |-> Strip(ts, i)]

\* Twice the age at the middle of each tick.
Ages == [t \in First .. TMax - 1 |-> 2 * Age(t) + 1]

\* The area of a series is the sum of its strips.
LEMMA AreaIsSum ==
    ASSUME NEW ts, NEW n \in Nat, n = Len(ts)
    PROVE  \E g : IsSum(g, Strips(ts, n), 1 .. n - 1)
                      /\ TwiceArea(ts) = g[1 .. n - 1]
<1> DEFINE S == 1 .. n - 1
           P(g) == g = [T \in SUBSET S |->
                           IF T = {} THEN 0
                           ELSE (ts[Picked(T)].age + ts[Picked(T) + 1].age)
                                    * (ts[Picked(T) + 1].t - ts[Picked(T)].t)
                                    + g[T \ {Picked(T)}]]
           G == CHOOSE g : P(g)
<1>1. IsFiniteSet(S)
    BY FS_Interval
<1>2. \A T \in SUBSET S : T # {} =>
          Strips(ts, n)[Picked(T)] =
              (ts[Picked(T)].age + ts[Picked(T) + 1].age)
                  * (ts[Picked(T) + 1].t - ts[Picked(T)].t)
    BY PickedIn DEF Strips, Strip
<1>3. \A g : P(g) <=> IsSum(g, Strips(ts, n), S)
    <2> HIDE DEF S
    <2> QED BY <1>2 DEF IsSum
<1>4. \E g : P(g)
    <2>1. \E g : IsSum(g, Strips(ts, n), S)
        BY <1>1, SumExists, Zenon
    <2> QED BY <1>3, <2>1, Zenon
<1>5. P(G)
    BY <1>4, Zenon
<1>6. TwiceArea(ts) = G[S]
    BY Zenon DEF TwiceArea, MapThenSumSet, MapThenFoldSet, Picked
<1>7. IsSum(G, Strips(ts, n), S)
    BY <1>3, <1>5, Zenon
<1> QED BY <1>6, <1>7, Zenon

\* The mean of the age is a sum over the ticks.
LEMMA MeanIsSum ==
    ASSUME TMax \in Nat, First \in Nat
    PROVE  \E h : /\ IsSum(h, Ages, First .. TMax - 1)
                  /\ MapThenSumSet(LAMBDA t : 2 * Age(t) + 1, First .. TMax - 1)
                         = h[First .. TMax - 1]
<1> DEFINE S == First .. TMax - 1
           P(g) == g = [T \in SUBSET S |->
                           IF T = {} THEN 0
                           ELSE (2 * Age(Picked(T)) + 1) + g[T \ {Picked(T)}]]
           G == CHOOSE g : P(g)
<1>1. IsFiniteSet(S)
    BY FS_Interval
<1>2. \A T \in SUBSET S : T # {} => Ages[Picked(T)] = 2 * Age(Picked(T)) + 1
    BY PickedIn DEF Ages
<1>3. \A g : P(g) <=> IsSum(g, Ages, S)
    <2> HIDE DEF S
    <2> QED BY <1>2 DEF IsSum
<1>4. \E g : P(g)
    <2>1. \E g : IsSum(g, Ages, S)
        BY <1>1, SumExists, Zenon
    <2> QED BY <1>3, <2>1, Zenon
<1>5. P(G)
    BY <1>4, Zenon
<1>6. MapThenSumSet(LAMBDA t : 2 * Age(t) + 1, First .. TMax - 1) = G[S]
    BY Zenon DEF MapThenSumSet, MapThenFoldSet, Picked
<1>7. IsSum(G, Ages, S)
    BY <1>3, <1>5, Zenon
<1> QED BY <1>6, <1>7, Zenon

\* A triangle grows by one tick.
LEMMA Triangle ==
    ASSUME NEW q \in Nat, NEW d \in Nat
    PROVE  (2 * q + d) * d + (2 * (q + d) + 1) = (2 * q + (d + 1)) * (d + 1)
OBVIOUS

\* A strip has the area of the ages during it.
LEMMA StripIsSum ==
    ASSUME LogInv, rcvd # <<>>, NEW ts, Closed(ts),
           NEW i \in 1 .. Len(ts) - 2,
           NEW h, IsSum(h, Ages, First .. TMax - 1)
    PROVE  h[First .. ts[i + 1].t - 1] =
               h[First .. ts[i].t - 1] + Strip(ts, i)
<1>1. PICK n : n = Len(ts)
    OBVIOUS
<1>2. /\ n \in Nat /\ n > 2 /\ TMax \in Nat /\ First \in Nat
      /\ \A k \in 1 .. n : ts[k].t \in Nat /\ ts[k].age \in Nat
      /\ \A k, j \in 1 .. n : k <= j => ts[k].t <= ts[j].t
      /\ \A k \in 1 .. n - 1 : Rise(ts, k) \/ Drop(ts, k)
      /\ \A k \in 1 .. n - 2 : ts[k].t < TMax
      /\ ts[1].t = First
    BY <1>1, ClosedEntries
<1>3. /\ i \in 1 .. n /\ i + 1 \in 1 .. n /\ i \in 1 .. n - 1 /\ 1 \in 1 .. n
      /\ i \in 1 .. n - 2 /\ 1 <= i
    BY <1>1, <1>2
<1>4. PICK p, q, u, v : /\ p = ts[i].t /\ q = ts[i].age
                        /\ u = ts[i + 1].t /\ v = ts[i + 1].age
    OBVIOUS
<1>5. /\ p \in Nat /\ q \in Nat /\ u \in Nat /\ v \in Nat
      /\ First <= p /\ p < TMax
    BY <1>2, <1>3, <1>4
<1>6. Strip(ts, i) = (q + v) * (u - p)
    BY <1>4 DEF Strip
<1>7. ASSUME NEW t \in Nat, p <= t, t < u
      PROVE  t \in First .. TMax - 1 /\ Ages[t] = 2 * (q + t - p) + 1
    <2>1. Age(t) = q + t - p /\ First <= t /\ t < TMax
        BY <1>1, <1>3, <1>4, <1>7, AgeAt
    <2>2. t \in First .. TMax - 1
        BY <1>2, <1>7, <2>1
    <2> QED BY <2>1, <2>2 DEF Ages
<1>8. /\ h[{}] = 0
      /\ \A t \in First .. TMax - 1 :
             /\ h[First .. t - 1] \in Int
             /\ h[First .. t] = h[First .. t - 1] + Ages[t]
    <2>1. \A t \in First .. TMax - 1 : Ages[t] \in Int
        <3> SUFFICES ASSUME NEW t \in First .. TMax - 1 PROVE Ages[t] \in Int
            OBVIOUS
        <3>1. t \in Nat
            BY EntryBefore
        <3>2. PICK k \in 1 .. Len(ts) - 2 : ts[k].t <= t /\ t < ts[k + 1].t
            BY EntryBefore
        <3>3. Age(t) = ts[k].age + t - ts[k].t
            BY <3>1, <3>2, AgeAt
        <3>4. ts[k].age \in Nat /\ ts[k].t \in Nat
            BY <1>1, <1>2
        <3> QED BY <3>1, <3>3, <3>4 DEF Ages
    <2>2. Ages \in [First .. TMax - 1 -> Int]
        BY <2>1 DEF Ages
    <2>3. First \in Int /\ TMax - 1 \in Int
        BY <1>2
    <2>4. Accumulates(h, Ages, First, TMax - 1)
        BY <2>2, <2>3, SumSteps
    <2> QED BY <2>4 DEF Accumulates
<1>9. PICK base : base = h[First .. p - 1] /\ base \in Int
    <2>1. p \in First .. TMax - 1
        BY <1>2, <1>5
    <2> QED BY <1>8, <2>1
<1> DEFINE W == {d \in Nat : d <= u - p =>
                    h[First .. (p + d) - 1] = base + (2 * q + d) * d}
<1>10. 0 \in W
    <2>1. (p + 0) - 1 = p - 1 /\ (2 * q + 0) * 0 = 0 /\ base + 0 = base
        BY <1>5, <1>9
    <2> QED BY <1>9, <2>1
<1>11. ASSUME NEW d \in W PROVE d + 1 \in W
    <2> SUFFICES ASSUME d + 1 <= u - p
                 PROVE  h[First .. (p + (d + 1)) - 1] =
                            base + (2 * q + (d + 1)) * (d + 1)
        OBVIOUS
    <2>1. PICK t : t = p + d
        OBVIOUS
    <2>2. /\ t \in Nat /\ p <= t /\ t < u /\ d <= u - p /\ d \in Nat
          /\ q + t - p = q + d /\ (p + (d + 1)) - 1 = t
        BY <1>5, <2>1
    <2>3. h[First .. t - 1] = base + (2 * q + d) * d
        BY <2>1, <2>2
    <2>4. Ages[t] = 2 * (q + d) + 1 /\ t \in First .. TMax - 1
        BY <1>7, <2>2
    <2>5. h[First .. t] = h[First .. t - 1] + Ages[t]
        BY <1>8, <2>4
    <2>6. PICK m, r : m = (2 * q + d) * d /\ r = 2 * (q + d) + 1
        OBVIOUS
    <2>7. m \in Nat /\ r \in Nat
        BY <1>5, <2>2, <2>6
    <2>8. m + r = (2 * q + (d + 1)) * (d + 1)
        BY <1>5, <2>2, <2>6, Triangle
    <2>9. h[First .. t] = base + (m + r)
        <3>1. h[First .. t] = (base + m) + r
            BY <2>3, <2>4, <2>5, <2>6
        <3> QED BY <1>9, <2>7, <3>1
    <2> QED BY <2>2, <2>8, <2>9
<1>12. W = Nat
    <2> HIDE DEF W
    <2> QED BY <1>10, <1>11, Induction DEF W
<1>13. CASE Rise(ts, i)
    <2>1. p < u /\ v = q + u - p
        BY <1>4, <1>13 DEF Rise
    <2>2. PICK d : d = u - p
        OBVIOUS
    <2>3. d \in Nat /\ d <= u - p /\ p + d = u /\ q + v = 2 * q + d
        BY <1>5, <2>1, <2>2
    <2>4. h[First .. (p + d) - 1] = base + (2 * q + d) * d
        BY <1>12, <2>3
    <2>5. h[First .. u - 1] = base + (q + v) * (u - p)
        BY <2>2, <2>3, <2>4
    <2> QED BY <1>4, <1>6, <1>9, <2>5
<1>14. CASE Drop(ts, i)
    <2>1. u = p
        BY <1>4, <1>14 DEF Drop
    <2>2. (q + v) * (u - p) = 0
        BY <1>5, <2>1
    <2>3. base = base + 0
        BY <1>9
    <2> QED BY <1>4, <1>6, <1>9, <2>1, <2>2, <2>3
<1> QED BY <1>2, <1>3, <1>13, <1>14

\* The area of a closed series is the sum of the ages.
LEMMA AreaIsAges ==
    ASSUME LogInv, rcvd # <<>>, NEW ts, Closed(ts),
           NEW n, n = Len(ts),
           NEW g, IsSum(g, Strips(ts, n), 1 .. n - 1),
           NEW h, IsSum(h, Ages, First .. TMax - 1)
    PROVE  g[1 .. n - 1] = h[First .. TMax - 1]
<1>1. /\ n \in Nat /\ n > 2 /\ TMax \in Nat /\ First \in Nat
      /\ \A k \in 1 .. n : ts[k].t \in Nat /\ ts[k].age \in Nat
      /\ ts[1].t = First /\ ts[n - 1].t = TMax /\ ts[n].t = TMax
    BY ClosedEntries
<1>2. /\ g[{}] = 0
      /\ \A k \in 1 .. n - 1 : /\ g[1 .. k - 1] \in Int
                               /\ g[1 .. k] = g[1 .. k - 1] + Strip(ts, k)
    <2>1. ASSUME NEW k \in 1 .. n - 1 PROVE Strip(ts, k) \in Int
        <3>1. k \in 1 .. n /\ k + 1 \in 1 .. n
            BY <1>1
        <3>2. /\ ts[k].t \in Nat /\ ts[k].age \in Nat
              /\ ts[k + 1].t \in Nat /\ ts[k + 1].age \in Nat
            BY <1>1, <3>1
        <3> QED BY <3>2 DEF Strip
    <2>2. Strips(ts, n) \in [1 .. n - 1 -> Int]
        BY <2>1 DEF Strips
    <2>3. 1 \in Int /\ n - 1 \in Int
        BY <1>1
    <2>4. Accumulates(g, Strips(ts, n), 1, n - 1)
        BY <2>2, <2>3, SumSteps
    <2>5. \A k \in 1 .. n - 1 : Strips(ts, n)[k] = Strip(ts, k)
        BY DEF Strips
    <2> QED BY <2>4, <2>5 DEF Accumulates
<1> DEFINE W == {k \in Nat : k + 1 <= n - 1 =>
                    g[1 .. k] = h[First .. ts[k + 1].t - 1]}
<1>3. 0 \in W
    <2>1. 1 .. 0 = {} /\ First .. First - 1 = {}
        BY <1>1
    <2>2. h[{}] = 0
        BY DEF IsSum
    <2>3. ts[0 + 1].t = First
        BY <1>1
    <2> QED BY <1>2, <2>1, <2>2, <2>3
<1>4. ASSUME NEW k \in W PROVE k + 1 \in W
    <2> SUFFICES ASSUME (k + 1) + 1 <= n - 1
                 PROVE  g[1 .. k + 1] = h[First .. ts[(k + 1) + 1].t - 1]
        OBVIOUS
    <2>1. /\ k + 1 <= n - 1 /\ k + 1 \in 1 .. n - 1 /\ k + 1 \in 1 .. n - 2
          /\ (k + 1) - 1 = k
        BY <1>1
    <2>2. g[1 .. k] = h[First .. ts[k + 1].t - 1]
        BY <2>1
    <2>3. g[1 .. k + 1] = g[1 .. k] + Strip(ts, k + 1)
        BY <1>2, <2>1
    <2>4. h[First .. ts[(k + 1) + 1].t - 1] =
              h[First .. ts[k + 1].t - 1] + Strip(ts, k + 1)
        BY <2>1, StripIsSum
    <2> QED BY <2>2, <2>3, <2>4
<1>5. W = Nat
    <2> HIDE DEF W
    <2> QED BY <1>3, <1>4, Induction DEF W
<1>6. g[1 .. n - 2] = h[First .. TMax - 1]
    <2>1. n - 2 \in Nat /\ (n - 2) + 1 = n - 1
        BY <1>1
    <2>2. n - 2 \in W
        BY <1>5, <2>1
    <2> QED BY <1>1, <2>1, <2>2
<1>7. g[1 .. n - 1] = g[1 .. n - 2] + Strip(ts, n - 1) /\ g[1 .. n - 2] \in Int
    <2>1. n - 1 \in 1 .. n - 1 /\ (n - 1) - 1 = n - 2
        BY <1>1
    <2> QED BY <1>2, <2>1
<1>8. Strip(ts, n - 1) = 0
    <2>1. (n - 1) + 1 = n /\ n \in 1 .. n /\ n - 1 \in 1 .. n
        BY <1>1
    <2>2. PICK a, b : a = ts[n - 1].age /\ b = ts[n].age
        OBVIOUS
    <2>3. a \in Nat /\ b \in Nat
        BY <1>1, <2>1, <2>2
    <2>4. Strip(ts, n - 1) = (a + b) * (TMax - TMax)
        BY <1>1, <2>1, <2>2 DEF Strip
    <2> QED BY <1>1, <2>3, <2>4
<1> QED BY <1>6, <1>7, <1>8

\* The average that is printed is the mean of the age from the first reception
\* to T_MAX: np.trapz over the rises and drops adds up to the age tick by tick.
THEOREM AverageAgrees == Spec => []AverageIsMeanAge
<1>1. LogInv /\ SeriesInv => AverageIsMeanAge
    <2> SUFFICES ASSUME LogInv, SeriesInv, rcvd # <<>>,
                        NEW ts, ts = AoiTs(rcvd)
                 PROVE  /\ TotalTime(ts) = TMax - First
                        /\ TwiceArea(ts) =
                               MapThenSumSet(LAMBDA t : 2 * Age(t) + 1,
                                             First .. TMax - 1)
        BY DEF AverageIsMeanAge
    <2>1. Closed(ts)
        BY SeriesClosed
    <2>2. PICK n : n = Len(ts)
        OBVIOUS
    <2>3. /\ n \in Nat /\ TMax \in Nat /\ First \in Nat
          /\ ts[1].t = First /\ ts[n].t = TMax
        BY <2>1, <2>2, ClosedEntries
    <2>4. TotalTime(ts) = TMax - First
        BY <2>2, <2>3 DEF TotalTime, Last
    <2>5. PICK g : IsSum(g, Strips(ts, n), 1 .. n - 1)
                       /\ TwiceArea(ts) = g[1 .. n - 1]
        BY <2>2, <2>3, AreaIsSum
    <2>6. PICK h : /\ IsSum(h, Ages, First .. TMax - 1)
                   /\ MapThenSumSet(LAMBDA t : 2 * Age(t) + 1,
                                    First .. TMax - 1)
                          = h[First .. TMax - 1]
        BY <2>3, MeanIsSum, Zenon
    <2>7. g[1 .. n - 1] = h[First .. TMax - 1]
        BY <2>1, <2>2, <2>5, <2>6, AreaIsAges
    <2> QED BY <2>4, <2>5, <2>6, <2>7, Zenon
<1> QED BY <1>1, AgeInvariant, PTL

-----------------------------------------------------------------------------
(* Order *)

\* place lists the elements of I in the order R.
Lists(place, I, R) ==
    /\ place \in [1 .. Cardinality(I) -> I]
    /\ \A i \in I : \E k \in 1 .. Cardinality(I) : place[k] = i
    /\ \A k, m \in 1 .. Cardinality(I) : k < m => <<place[k], place[m]>> \in R
    /\ \A k \in 1 .. Cardinality(I) :
           Cardinality({j \in I : <<j, place[k]>> \in R}) = k - 1

\* R orders I.
Orders(R, I) ==
    /\ \A i, j, k \in I :
           <<i, j>> \in R /\ <<j, k>> \in R => <<i, k>> \in R
    /\ \A i \in I : <<i, i>> \notin R
    /\ \A i, j \in I : i = j \/ <<i, j>> \in R \/ <<j, i>> \in R

\* How many elements of I come before each.
Ranks(I, R) == [i \in I |-> Cardinality({j \in I : <<j, i>> \in R})]

\* No two elements of an ordered set have as many before them, so that every
\* number below the size of the set is that of one.
LEMMA InOrderLists ==
    ASSUME NEW I, IsFiniteSet(I), NEW R, Orders(R, I)
    PROVE  Lists(InOrder(Ranks(I, R)), I, R)
<1> DEFINE n == Cardinality(I)
           rank == Ranks(I, R)
           Before(i) == {j \in I : <<j, i>> \in R}
           place == InOrder(rank)
<1>1. n \in Nat
    BY FS_CardinalityType
<1>2. \A i \in I : rank[i] = Cardinality(Before(i))
    BY DEF Ranks
<1>3. \A i \in I : /\ IsFiniteSet(Before(i)) /\ Before(i) \in SUBSET I
                   /\ Cardinality(Before(i)) \in Nat
    <2> SUFFICES ASSUME NEW i \in I
                 PROVE  /\ IsFiniteSet(Before(i)) /\ Before(i) \in SUBSET I
                        /\ Cardinality(Before(i)) \in Nat
        OBVIOUS
    <2>1. Before(i) \in SUBSET I
        OBVIOUS
    <2>2. IsFiniteSet(Before(i))
        BY <2>1, FS_Subset
    <2> QED BY <2>1, <2>2, FS_CardinalityType
<1>4. ASSUME NEW i \in I, NEW j \in I, <<i, j>> \in R
      PROVE  rank[i] < rank[j]
    <2>1. Before(i) \in SUBSET Before(j) /\ i \in Before(j) /\ i \notin Before(i)
        BY <1>4 DEF Orders
    <2>2. Cardinality(Before(i)) <= Cardinality(Before(j))
        BY <1>3, <2>1, FS_Subset
    <2>3. Cardinality(Before(i)) # Cardinality(Before(j))
        BY <1>3, <2>1, FS_Subset
    <2>4. \A x, y \in Nat : x <= y /\ x # y => x < y
        OBVIOUS
    <2>5. Cardinality(Before(i)) < Cardinality(Before(j))
        BY <1>3, <2>2, <2>3, <2>4
    <2> HIDE DEF Before, rank
    <2> QED BY <1>2, <2>5
<1>5. ASSUME NEW i \in I PROVE rank[i] \in 0 .. n - 1
    <2>1. i \in I /\ i \notin Before(i)
        BY DEF Orders
    <2>2. Cardinality(Before(i)) <= n /\ Cardinality(Before(i)) # n
        BY <1>3, <2>1, FS_Subset
    <2> QED BY <1>1, <1>2, <1>3, <2>2
<1>6. \A k \in 1 .. n : \E i \in I : rank[i] = k - 1
    <2>1. rank \in [I -> 0 .. n - 1]
        BY <1>5 DEF Ranks
    <2>2. rank \in Injection(I, 0 .. n - 1)
        <3>1. \A i, j \in I : rank[i] = rank[j] => i = j
            <4> SUFFICES ASSUME NEW i \in I, NEW j \in I, rank[i] = rank[j]
                         PROVE  i = j
                OBVIOUS
            <4>1. rank[i] \in Nat /\ rank[j] \in Nat
                BY <1>2, <1>3
            <4>2. ~ (rank[i] < rank[j]) /\ ~ (rank[j] < rank[i])
                BY <4>1
            <4>3. ~ (<<i, j>> \in R) /\ ~ (<<j, i>> \in R)
                BY <1>4, <4>2
            <4> QED BY <4>3 DEF Orders
        <3> QED BY <2>1, <3>1 DEF Injection, IsInjective
    <2>3. IsFiniteSet(0 .. n - 1) /\ Cardinality(0 .. n - 1) = n
        BY <1>1, FS_Interval
    <2>4. rank \in Surjection(I, 0 .. n - 1)
        BY <2>2, <2>3, FS_Injection
    <2>5. \A k \in 1 .. n : k - 1 \in 0 .. n - 1
        BY <1>1
    <2> QED BY <2>4, <2>5 DEF Surjection
<1>7. DOMAIN rank = I
    BY DEF Ranks
<1>8. place = [k \in 1 .. n |-> CHOOSE i \in I : rank[i] = k - 1]
    BY <1>7 DEF InOrder
<1> HIDE DEF place, rank, n
<1>9. \A k \in 1 .. n : place[k] \in I /\ rank[place[k]] = k - 1
    BY <1>6, <1>8
<1>10. ASSUME NEW i \in I PROVE \E k \in 1 .. n : place[k] = i
    <2>1. rank[i] + 1 \in 1 .. n /\ (rank[i] + 1) - 1 = rank[i]
        BY <1>1, <1>5
    <2>2. PICK j \in I : j = place[rank[i] + 1] /\ rank[j] = rank[i]
        BY <1>9, <2>1
    <2>3. rank[i] \in Int
        BY <1>1, <1>5
    <2>4. ~ (<<i, j>> \in R) /\ ~ (<<j, i>> \in R)
        BY <1>4, <2>2, <2>3
    <2>5. i = j
        BY <2>4 DEF Orders
    <2> QED BY <2>1, <2>2, <2>5
<1>11. ASSUME NEW k \in 1 .. n, NEW m \in 1 .. n, k < m
       PROVE  <<place[k], place[m]>> \in R
    <2>1. place[k] \in I /\ place[m] \in I
        BY <1>9
    <2>2. ~ (rank[place[m]] < rank[place[k]]) /\ rank[place[m]] # rank[place[k]]
        BY <1>1, <1>9, <1>11
    <2> QED BY <1>4, <2>1, <2>2 DEF Orders
<1>12. \A k \in 1 .. n : Cardinality(Before(place[k])) = k - 1
    BY <1>2, <1>9
<1>13. place \in [1 .. n -> I]
    BY <1>8, <1>9
<1> QED BY <1>10, <1>11, <1>12, <1>13 DEF Lists, place, rank, n

\* The first m places of s.
Taken(s, place, m) == [k \in 1 .. m |-> s[place[k]]]

\* By index.
Less(n) == {p \in (1 .. n) \X (1 .. n) : p[1] < p[2]}

\* The entries selected keep their order.
LEMMA SelectedIs ==
    ASSUME NEW s, NEW n \in Nat, NEW I \in SUBSET (1 .. n)
    PROVE  /\ Cardinality(I) \in Nat
           /\ \E place : /\ Lists(place, I, Less(n))
                         /\ Selected(s, I) = Taken(s, place, Cardinality(I))
<1>1. IsFiniteSet(I)
    <2>1. IsFiniteSet(1 .. n)
        BY FS_Interval
    <2> QED BY <2>1, FS_Subset
<1>2. Orders(Less(n), I)
    BY DEF Orders, Less
<1>3. Ranks(I, Less(n)) = [i \in I |-> Cardinality({j \in I : j < i})]
    <2>1. \A i \in I : {j \in I : <<j, i>> \in Less(n)} = {j \in I : j < i}
        BY DEF Less
    <2> QED BY <2>1 DEF Ranks
<1> DEFINE place == InOrder(Ranks(I, Less(n)))
<1>4. Lists(place, I, Less(n))
    BY <1>1, <1>2, InOrderLists
<1>5. Selected(s, I) = Taken(s, place, Cardinality(I))
    BY <1>3 DEF Selected, Taken
<1>6. Cardinality(I) \in Nat
    BY <1>1, FS_CardinalityType
<1> HIDE DEF place
<1> QED BY <1>4, <1>5, <1>6

\* By time, then by index.
Sooner(s, n) ==
    {p \in (1 .. n) \X (1 .. n) :
        \/ s[p[1]].t < s[p[2]].t
        \/ s[p[1]].t = s[p[2]].t /\ p[1] < p[2]}

\* Sorting rearranges the entries.
LEMMA SortedIs ==
    ASSUME NEW s, NEW n \in Nat, n = Len(s), \A i \in 1 .. n : s[i].t \in Int
    PROVE  \E place : /\ Lists(place, 1 .. n, Sooner(s, n))
                      /\ SortedByTime(s) = Taken(s, place, n)
<1>1. IsFiniteSet(1 .. n)
    BY FS_Interval
<1>2. Orders(Sooner(s, n), 1 .. n)
    <2>1. \A i, j \in 1 .. n :
              <<i, j>> \in Sooner(s, n) <=>
                  s[i].t < s[j].t \/ (s[i].t = s[j].t /\ i < j)
        BY DEF Sooner
    <2> QED BY <2>1, SMTT(40) DEF Orders
<1>3. Ranks(1 .. n, Sooner(s, n)) =
          [i \in 1 .. n |->
              Cardinality({j \in 1 .. n :
                              s[j].t < s[i].t \/ (s[j].t = s[i].t /\ j < i)})]
    <2>1. \A i \in 1 .. n :
              {j \in 1 .. n : <<j, i>> \in Sooner(s, n)} =
                  {j \in 1 .. n :
                      s[j].t < s[i].t \/ (s[j].t = s[i].t /\ j < i)}
        BY DEF Sooner
    <2> QED BY <2>1 DEF Ranks
<1> DEFINE place == InOrder(Ranks(1 .. n, Sooner(s, n)))
<1>4. Lists(place, 1 .. n, Sooner(s, n))
    BY <1>1, <1>2, InOrderLists
<1>5. SortedByTime(s) = Taken(s, place, n)
    BY <1>3 DEF SortedByTime, Taken
<1> HIDE DEF place
<1> QED BY <1>4, <1>5

\* How many elements of I are below i.
Under(I, i) == Cardinality({j \in I : j < i})

\* The elements below i are counted up from none, one at a time, to all.
LEMMA UnderSteps ==
    ASSUME NEW n \in Nat, NEW I \in SUBSET (1 .. n)
    PROVE  /\ Cardinality(I) \in Nat
           /\ \A i \in Nat :
                  /\ Under(I, i) \in Nat
                  /\ Under(I, i) <= Cardinality(I)
                  /\ Under(I, i + 1) = IF i \in I THEN Under(I, i) + 1
                                       ELSE Under(I, i)
           /\ Under(I, 1) = 0
           /\ Under(I, n + 1) = Cardinality(I)
           /\ \A i, j \in Nat : i <= j => Under(I, i) <= Under(I, j)
<1> DEFINE B(i) == {j \in I : j < i}
<1>0. \A j \in I : /\ ~ (j < 1) /\ j < n + 1
                   /\ \A i \in Nat : j < i + 1 <=> j < i \/ j = i
                   /\ \A i \in Nat : j = i => ~ (j < i)
                   /\ \A i, k \in Nat : i <= k /\ j < i => j < k
    <2> SUFFICES ASSUME NEW j \in 1 .. n
                 PROVE  /\ ~ (j < 1) /\ j < n + 1
                        /\ \A i \in Nat : j < i + 1 <=> j < i \/ j = i
                        /\ \A i \in Nat : j = i => ~ (j < i)
                        /\ \A i, k \in Nat : i <= k /\ j < i => j < k
        OBVIOUS
    <2> QED OBVIOUS
<1>1. IsFiniteSet(I)
    <2>1. IsFiniteSet(1 .. n)
        BY FS_Interval
    <2> QED BY <2>1, FS_Subset
<1>2. Cardinality(I) \in Nat
    BY <1>1, FS_CardinalityType
<1>3. \A i \in Nat : /\ IsFiniteSet(B(i)) /\ Cardinality(B(i)) \in Nat
                     /\ Cardinality(B(i)) <= Cardinality(I)
    <2> SUFFICES ASSUME NEW i \in Nat
                 PROVE  /\ IsFiniteSet(B(i)) /\ Cardinality(B(i)) \in Nat
                        /\ Cardinality(B(i)) <= Cardinality(I)
        OBVIOUS
    <2>1. B(i) \in SUBSET I
        OBVIOUS
    <2>2. IsFiniteSet(B(i)) /\ Cardinality(B(i)) <= Cardinality(I)
        BY <1>1, <2>1, FS_Subset
    <2> QED BY <2>2, FS_CardinalityType
<1>4. ASSUME NEW i \in Nat
      PROVE  Cardinality(B(i + 1)) = IF i \in I THEN Cardinality(B(i)) + 1
                                     ELSE Cardinality(B(i))
    <2>1. CASE i \in I
        <3>1. B(i + 1) = B(i) \cup {i} /\ i \notin B(i)
            <4>1. i \notin B(i)
                BY <1>0, Zenon
            <4>2. \A j \in I : j < i + 1 <=> j < i \/ j = i
                BY <1>0, Zenon
            <4>3. B(i + 1) = B(i) \cup {i}
                BY <2>1, <4>2, Zenon
            <4> QED BY <4>1, <4>3
        <3>2. Cardinality(B(i) \cup {i}) = Cardinality(B(i)) + 1
            BY <1>3, <3>1, FS_AddElement
        <3> QED BY <2>1, <3>1, <3>2
    <2>2. CASE i \notin I
        <3>1. B(i + 1) = B(i)
            BY <1>0, <2>2, ZenonT(40)
        <3> QED BY <2>2, <3>1
    <2> QED BY <2>1, <2>2
<1>5. Cardinality(B(1)) = 0
    <2>1. B(1) = {}
        BY <1>0, Zenon
    <2> QED BY <2>1, FS_EmptySet
<1>6. B(n + 1) = I
    BY <1>0
<1>7. ASSUME NEW i \in Nat, NEW j \in Nat, i <= j
      PROVE  Cardinality(B(i)) <= Cardinality(B(j))
    <2>1. B(i) \in SUBSET B(j)
        BY <1>0, <1>7, Zenon
    <2> QED BY <1>3, <2>1, FS_Subset
<1>8. \A i : Under(I, i) = Cardinality(B(i))
    BY DEF Under
<1> HIDE DEF B
<1> QED BY <1>2, <1>3, <1>4, <1>5, <1>6, <1>7, <1>8

\* As many elements come before a place as are listed earlier.
LEMMA UnderPlace ==
    ASSUME NEW n \in Nat, NEW I \in SUBSET (1 .. n),
           NEW place, Lists(place, I, Less(n)),
           NEW k \in 1 .. Cardinality(I), NEW i \in Nat
    PROVE  /\ place[k] \in I /\ place[k] \in 1 .. n
           /\ Under(I, place[k]) = k - 1
           /\ place[k] < i <=> k <= Under(I, i)
<1>1. Cardinality(I) \in Nat /\ k \in Nat /\ k >= 1
    BY UnderSteps
<1>2. place[k] \in I /\ place[k] \in 1 .. n /\ place[k] \in Nat
    <2>1. place \in [1 .. Cardinality(I) -> I]
        BY Zenon DEF Lists
    <2>2. \A S : place \in [S -> I] => \A x \in S : place[x] \in I
        OBVIOUS
    <2>3. place[k] \in I
        BY <2>1, <2>2, Zenon
    <2>4. \A j \in I : j \in 1 .. n /\ j \in Nat
        OBVIOUS
    <2> QED BY <2>3, <2>4, Zenon
<1>3. Under(I, place[k]) = k - 1
    <2>1. {j \in I : <<j, place[k]>> \in Less(n)} = {j \in I : j < place[k]}
        BY <1>2 DEF Less
    <2> QED BY <2>1 DEF Under, Lists
<1>4. PICK p : p = place[k]
    OBVIOUS
<1>5. /\ Under(I, p) = k - 1 /\ Under(I, p + 1) = k
      /\ Under(I, i) \in Nat
      /\ p + 1 <= i => Under(I, p + 1) <= Under(I, i)
      /\ i <= p => Under(I, i) <= Under(I, p)
    <2>1. /\ Under(I, p + 1) = IF p \in I THEN Under(I, p) + 1 ELSE Under(I, p)
          /\ Under(I, i) \in Nat
          /\ p + 1 <= i => Under(I, p + 1) <= Under(I, i)
          /\ i <= p => Under(I, i) <= Under(I, p)
        BY <1>2, <1>4, UnderSteps
    <2>2. Under(I, p + 1) = Under(I, p) + 1
        BY <1>2, <1>4, <2>1
    <2> QED BY <1>1, <1>3, <1>4, <2>1, <2>2
<1>6. p < i <=> k <= Under(I, i)
    <2>1. p \in Nat
        BY <1>2, <1>4
    <2>2. CASE p < i
        BY <1>1, <1>5, <2>1, <2>2
    <2>3. CASE ~ (p < i)
        <3>1. Under(I, i) <= k - 1
            BY <1>5, <2>1, <2>3
        <3> QED BY <1>1, <1>5, <2>3, <3>1
    <2> QED BY <2>2, <2>3
<1> QED BY <1>2, <1>3, <1>4, <1>6

-----------------------------------------------------------------------------
(* The course *)

Position == [t : Nat, dist : Nat]

\* Positions are logged in the order of time.
CourseInv ==
    /\ course \in Seq(Position)
    /\ \A i \in 1 .. Len(course) : course[i].t <= now /\ course[i].t < TMax
    /\ \A i, j \in 1 .. Len(course) : i < j => course[i].t < course[j].t

\* What the fields of a position are.
LEMMA PositionType == \A e \in Position : e.t \in Nat /\ e.dist \in Nat
BY DEF Position

\* No instant is logged twice.
LEMMA CourseStep == LogInv /\ CourseInv /\ [Next]_vars => CourseInv'
<1> SUFFICES ASSUME LogInv, CourseInv, [Next]_vars PROVE CourseInv'
    OBVIOUS
<1>1. now \in Nat /\ TMax \in Nat
    BY AgeAssumption DEF LogInv
<1>2. ASSUME NEW d \in Distances, Sample(d) PROVE CourseInv'
    <2>1. PICK e, n : e = [t |-> now, dist |-> d] /\ n = Len(course)
        OBVIOUS
    <2>2. e \in Position /\ course \in Seq(Position) /\ n \in Nat /\ e.t = now
        BY <1>1, <2>1, AgeAssumption DEF CourseInv, Position
    <2>3. /\ course' = Append(course, e) /\ now' = now /\ now < TMax
          /\ (course # <<>> => course[n].t # now)
        BY <1>2, <2>1 DEF Sample, Sampled, Last
    <2>4. /\ course' \in Seq(Position) /\ Len(course') = n + 1
          /\ course'[n + 1] = e /\ \A i \in 1 .. n : course'[i] = course[i]
        BY <2>1, <2>2, <2>3
    <2>5. \A i \in 1 .. n : course[i].t < now
        <3> SUFFICES ASSUME NEW i \in 1 .. n PROVE course[i].t < now
            OBVIOUS
        <3>1. /\ course # <<>> /\ n \in 1 .. n
              /\ course[i] \in Position /\ course[n] \in Position
            BY <2>1, <2>2
        <3>2. course[n].t <= now /\ course[n].t # now
            BY <2>1, <2>3, <3>1 DEF CourseInv
        <3>3. i = n \/ course[i].t < course[n].t
            BY <2>1, <2>2, <3>1 DEF CourseInv
        <3>4. course[i].t \in Nat /\ course[n].t \in Nat
            BY <3>1, PositionType
        <3> QED BY <1>1, <3>2, <3>3, <3>4
    <2>6. \A i \in 1 .. n + 1 : course'[i].t <= now' /\ course'[i].t < TMax
        <3>1. \A i \in 1 .. n + 1 : i \in 1 .. n \/ i = n + 1
            BY <2>2
        <3>2. \A i \in 1 .. n : course[i].t <= now /\ course[i].t < TMax
            BY <2>1 DEF CourseInv
        <3> QED BY <1>1, <2>2, <2>3, <2>4, <3>1, <3>2
    <2>7. \A i, j \in 1 .. n + 1 : i < j => course'[i].t < course'[j].t
        <3> SUFFICES ASSUME NEW i \in 1 .. n + 1, NEW j \in 1 .. n + 1, i < j
                     PROVE  course'[i].t < course'[j].t
            OBVIOUS
        <3>1. i \in 1 .. n /\ (j \in 1 .. n \/ j = n + 1)
            BY <2>2
        <3> QED BY <2>1, <2>2, <2>4, <2>5, <3>1 DEF CourseInv
    <2> QED BY <2>4, <2>6, <2>7 DEF CourseInv
<1>3. ASSUME course' = course, now' = now \/ now' = now + 1 PROVE CourseInv'
    <2>1. \A i \in 1 .. Len(course) : course[i].t \in Nat
        <3>1. \A i \in 1 .. Len(course) : course[i] \in Position
            BY DEF CourseInv
        <3> QED BY <3>1, PositionType
    <2> QED BY <1>1, <1>3, <2>1 DEF CourseInv
<1>4. ASSUME NEW delay \in 1 .. MaxDelay, Receive(delay) PROVE CourseInv'
    BY <1>3, <1>4 DEF Receive
<1>5. CASE Tick
    BY <1>3, <1>5 DEF Tick
<1>6. CASE UNCHANGED vars
    BY <1>3, <1>6 DEF vars
<1> QED BY <1>2, <1>4, <1>5, <1>6 DEF Next

\* What is needed of a course.
Sailed(c) ==
    /\ c \in Seq(Position)
    /\ \A i \in 1 .. Len(c) : c[i].t \in First .. TMax - 1
    /\ \A i, j \in 1 .. Len(c) : i < j => c[i].t < c[j].t

\* The course from the first reception on is in the order of time, too.
LEMMA CourseSailed ==
    ASSUME CourseInv, First \in Nat
    PROVE  Sailed(CourseFrom(First))
<1>1. PICK n, I : n = Len(course) /\ I = {i \in 1 .. n : course[i].t >= First}
    OBVIOUS
<1>2. /\ n \in Nat /\ I \in SUBSET (1 .. n) /\ TMax \in Nat
      /\ \A i \in 1 .. n : /\ course[i] \in Position /\ course[i].t \in Nat
                           /\ course[i].t < TMax
      /\ \A i, j \in 1 .. n : i < j => course[i].t < course[j].t
    BY <1>1, PositionType, AgeAssumption DEF CourseInv
<1>3. Cardinality(I) \in Nat
    BY <1>2, SelectedIs
<1>4. PICK place : /\ Lists(place, I, Less(n))
                   /\ Selected(course, I) = Taken(course, place, Cardinality(I))
    BY <1>2, SelectedIs
<1>5. PICK c, m : c = CourseFrom(First) /\ m = Cardinality(I)
    OBVIOUS
<1>6. c = [k \in 1 .. m |-> course[place[k]]]
    BY <1>1, <1>4, <1>5 DEF CourseFrom, Taken
<1>7. \A k \in 1 .. m : place[k] \in I /\ place[k] \in 1 .. n
    BY <1>2, <1>4, <1>5 DEF Lists
<1>8. c \in Seq(Position) /\ Len(c) = m
    <2>1. c \in [1 .. m -> Position]
        BY <1>2, <1>6, <1>7
    <2> QED BY <1>3, <1>5, <2>1
<1>9. \A k \in 1 .. m : c[k].t \in First .. TMax - 1
    BY <1>1, <1>2, <1>6, <1>7
<1>10. \A k, j \in 1 .. m : k < j => c[k].t < c[j].t
    <2>1. \A k, j \in 1 .. m : k < j => place[k] < place[j]
        BY <1>4, <1>5 DEF Lists, Less
    <2> QED BY <1>2, <1>6, <1>7, <2>1
<1> QED BY <1>5, <1>8, <1>9, <1>10 DEF Sailed

-----------------------------------------------------------------------------
(* Where sections start and end *)

StartsAt(c) ==
    {i \in 1 .. Len(c) : Close(c[i]) /\ (i = 1 \/ ~Close(c[i - 1]))}

EndsAt(c) ==
    {i \in 1 .. Len(c) - 1 : Close(c[i]) /\ ~Close(c[i + 1])}

\* Up to any sample as many sections have ended as have started, but for the
\* one that the sample is in.
LEMMA StartsAndEnds ==
    ASSUME NEW c, NEW n \in Nat, n = Len(c), NEW i \in 1 .. n
    PROVE  Under(StartsAt(c), i + 1) = IF Close(c[i])
                                       THEN Under(EndsAt(c), i) + 1
                                       ELSE Under(EndsAt(c), i)
<1> DEFINE S == StartsAt(c)
           E == EndsAt(c)
           Even(k) == Under(S, k + 1) = IF Close(c[k]) THEN Under(E, k) + 1
                                        ELSE Under(E, k)
           W == {k \in Nat : k + 1 <= n => Even(k + 1)}
<1>1. /\ S \in SUBSET (1 .. n) /\ E \in SUBSET (1 .. n)
      /\ \A k \in 1 .. n : k \in S <=> Close(c[k]) /\ (k = 1 \/ ~Close(c[k - 1]))
      /\ \A k \in 1 .. n - 1 : k \in E <=> Close(c[k]) /\ ~Close(c[k + 1])
    BY DEF StartsAt, EndsAt
<1> HIDE DEF S, E
<1>2. /\ \A k \in Nat : /\ Under(S, k) \in Nat
                        /\ Under(S, k + 1) = IF k \in S THEN Under(S, k) + 1
                                             ELSE Under(S, k)
      /\ Under(S, 1) = 0
    BY <1>1, UnderSteps
<1>3. /\ \A k \in Nat : /\ Under(E, k) \in Nat
                        /\ Under(E, k + 1) = IF k \in E THEN Under(E, k) + 1
                                             ELSE Under(E, k)
      /\ Under(E, 1) = 0
    BY <1>1, UnderSteps
<1>4. 0 \in W
    <2> SUFFICES ASSUME 1 <= n PROVE Even(1)
        OBVIOUS
    <2>1. 1 \in S <=> Close(c[1])
        BY <1>1
    <2> QED BY <1>2, <1>3, <2>1
<1>5. ASSUME NEW k \in W PROVE k + 1 \in W
    <2> SUFFICES ASSUME (k + 1) + 1 <= n PROVE Even((k + 1) + 1)
        OBVIOUS
    <2>1. PICK j : j = k + 1
        OBVIOUS
    <2>2. j \in Nat /\ j \in 1 .. n - 1 /\ j + 1 \in 1 .. n /\ j + 1 # 1 /\ (j + 1) - 1 = j
        BY <2>1
    <2>3. Even(j)
        BY <2>1, <2>2
    <2>4. /\ j + 1 \in S <=> Close(c[j + 1]) /\ ~Close(c[j])
          /\ j \in E <=> Close(c[j]) /\ ~Close(c[j + 1])
        BY <1>1, <2>2
    <2>5. /\ Under(S, (j + 1) + 1) = IF j + 1 \in S THEN Under(S, j + 1) + 1
                                     ELSE Under(S, j + 1)
          /\ Under(E, j + 1) = IF j \in E THEN Under(E, j) + 1
                               ELSE Under(E, j)
          /\ Under(S, j + 1) \in Nat /\ Under(E, j) \in Nat
        <3>1. j \in Nat /\ j + 1 \in Nat
            BY <2>2
        <3>2. /\ Under(S, j + 1) \in Nat
              /\ Under(S, (j + 1) + 1) = IF j + 1 \in S
                                         THEN Under(S, j + 1) + 1
                                         ELSE Under(S, j + 1)
            BY <1>2, <3>1, Zenon
        <3>3. /\ Under(E, j) \in Nat
              /\ Under(E, j + 1) = IF j \in E THEN Under(E, j) + 1
                                   ELSE Under(E, j)
            BY <1>3, <3>1, Zenon
        <3> QED BY <3>2, <3>3, Zenon
    <2>6. Even(j + 1)
        <3>1. CASE Close(c[j])
            BY <2>3, <2>4, <2>5, <3>1
        <3>2. CASE ~Close(c[j])
            BY <2>3, <2>4, <2>5, <3>2
        <3> QED BY <3>1, <3>2
    <2> QED BY <2>1, <2>6
<1>6. W = Nat
    <2> HIDE DEF W
    <2> QED BY <1>4, <1>5, Induction DEF W
<1>7. i - 1 \in Nat /\ (i - 1) + 1 = i /\ i <= n
    OBVIOUS
<1>8. Even(i)
    BY <1>6, <1>7
<1> QED BY <1>8 DEF S, E

\* Sections k of the samples from[k] to to[k] of a course.
Paired(c, from, to, m) ==
    /\ m \in Nat
    /\ SectionStarts(c) \in Seq(Nat) /\ SectionEnds(c) \in Seq(Nat)
    /\ Len(SectionStarts(c)) = m /\ m <= Len(SectionEnds(c))
    /\ SectionEnds(c) # <<>>
    /\ \A k \in 1 .. m :
           /\ from[k] \in 1 .. Len(c) /\ to[k] \in 1 .. Len(c)
           /\ from[k] <= to[k]
           /\ SectionStarts(c)[k] = c[from[k]].t
           /\ SectionEnds(c)[k] = c[to[k]].t
    /\ \A i \in 1 .. Len(c) : \A k \in 1 .. m :
           from[k] <= i /\ i <= to[k] <=>
               Under(EndsAt(c), i) < k /\ k <= Under(StartsAt(c), i + 1)
    /\ \A i \in 1 .. Len(c) : Under(StartsAt(c), i + 1) <= m
    /\ \A k \in 1 .. Len(SectionEnds(c)) :
           \E i \in 1 .. Len(c) : SectionEnds(c)[k] = c[i].t

\* The times of the places.
Times(c, place, m) == [k \in 1 .. m |-> c[place[k]].t]

\* The times of selected samples, by their places in the course.
LEMMA TimesOfIs ==
    ASSUME NEW c, Sailed(c), NEW n, n = Len(c), NEW I \in SUBSET (1 .. n),
           NEW m, m = Cardinality(I)
    PROVE  /\ m \in Nat
           /\ \E place : /\ Lists(place, I, Less(n))
                         /\ TimesOf(c, I) = Times(c, place, m)
                         /\ TimesOf(c, I) \in Seq(Nat)
                         /\ Len(TimesOf(c, I)) = m
<1>1. n \in Nat /\ c \in Seq(Position)
    BY DEF Sailed
<1>2. m \in Nat
    BY <1>1, SelectedIs
<1>3. PICK place : /\ Lists(place, I, Less(n))
                   /\ Selected(c, I) = Taken(c, place, m)
    BY <1>1, SelectedIs
<1>4. \A k \in 1 .. m : place[k] \in 1 .. n
    BY <1>1, <1>3, UnderPlace
<1>5. PICK x : x = Taken(c, place, m)
    OBVIOUS
<1>6. /\ x \in Seq(Position) /\ Len(x) = m
      /\ \A k \in 1 .. m : x[k] = c[place[k]]
    <2>1. x = [k \in 1 .. m |-> c[place[k]]]
        BY <1>5 DEF Taken
    <2>2. x \in [1 .. m -> Position]
        BY <1>1, <1>4, <2>1
    <2> QED BY <1>2, <2>1, <2>2
<1>7. TimesOf(c, I) = Times(c, place, m)
    <2>1. TimesOf(c, I) = [k \in 1 .. Len(x) |-> x[k].t]
        BY <1>3, <1>5 DEF TimesOf
    <2> QED BY <1>6, <2>1 DEF Times
<1>8. TimesOf(c, I) \in Seq(Nat) /\ Len(TimesOf(c, I)) = m
    <2>1. \A k \in 1 .. m : c[place[k]] \in Position
        BY <1>1, <1>4
    <2>2. Times(c, place, m) \in [1 .. m -> Nat]
        BY <2>1, PositionType DEF Times
    <2> QED BY <1>2, <1>7, <2>2
<1> QED BY <1>2, <1>3, <1>7, <1>8

\* Starts and ends pair up, whatever the course is.
LEMMA StartsPairEnds ==
    ASSUME NEW c, Sailed(c), c # <<>>
    PROVE  \E from, to, m : Paired(c, from, to, m)
<1>1. PICK n, S, E, m, d : /\ n = Len(c) /\ S = StartsAt(c) /\ E = EndsAt(c)
                           /\ m = Cardinality(S) /\ d = Cardinality(E)
    OBVIOUS
<1>2. n \in Nat /\ n > 0 /\ c \in Seq(Position)
    BY <1>1 DEF Sailed
<1>3. /\ S \in SUBSET (1 .. n) /\ E \in SUBSET (1 .. n)
      /\ n \notin E /\ \A i \in S : Close(c[i])
    BY <1>1, <1>2 DEF StartsAt, EndsAt
<1>4. m \in Nat
    BY <1>1, <1>2, <1>3, UnderSteps
<1>5. PICK from : /\ Lists(from, S, Less(n))
                  /\ TimesOf(c, S) = Times(c, from, m)
                  /\ TimesOf(c, S) \in Seq(Nat)
                  /\ Len(TimesOf(c, S)) = m
    BY <1>1, <1>3, TimesOfIs
<1>6. d \in Nat
    BY <1>1, <1>2, <1>3, UnderSteps
<1>7. PICK last : /\ Lists(last, E, Less(n))
                  /\ TimesOf(c, E) = Times(c, last, d)
                  /\ TimesOf(c, E) \in Seq(Nat)
                  /\ Len(TimesOf(c, E)) = d
    BY <1>1, <1>3, TimesOfIs
<1>8. SectionStarts(c) = TimesOf(c, S)
    BY <1>1 DEF SectionStarts, StartsAt
<1>9. SectionEnds(c) = Append(TimesOf(c, E), c[n].t)
    BY <1>1 DEF SectionEnds, EndsAt, Last
<1>10. c[n].t \in Nat
    <2>1. c[n] \in Position
        BY <1>1, <1>2
    <2> QED BY <2>1, PositionType
<1>11. /\ SectionEnds(c) \in Seq(Nat) /\ Len(SectionEnds(c)) = d + 1
       /\ \A k \in 1 .. d : SectionEnds(c)[k] = TimesOf(c, E)[k]
       /\ SectionEnds(c)[d + 1] = c[n].t
    BY <1>7, <1>9, <1>10
<1>12. PICK to : to = [k \in 1 .. d + 1 |-> IF k <= d THEN last[k] ELSE n]
    OBVIOUS
<1>13. /\ Under(S, n + 1) = m /\ Under(E, n + 1) = d /\ Under(E, n) = d
       /\ \A i \in 1 .. n : /\ Under(S, i + 1) <= m /\ Under(S, i + 1) \in Nat
                            /\ Under(E, i) <= d /\ Under(E, i) \in Nat
                            /\ Under(S, i + 1) = IF i \in S THEN Under(S, i) + 1
                                                 ELSE Under(S, i)
    <2>1. \A i \in 1 .. n : i \in Nat /\ i + 1 \in Nat
        OBVIOUS
    <2>2. /\ Under(S, n + 1) = m
          /\ \A i \in 1 .. n : /\ Under(S, i + 1) <= m /\ Under(S, i + 1) \in Nat
                               /\ Under(S, i + 1) = IF i \in S THEN Under(S, i) + 1
                                                    ELSE Under(S, i)
        BY <1>1, <1>2, <1>3, <2>1, UnderSteps, SMTT(40)
    <2>3. /\ Under(E, n + 1) = d
          /\ Under(E, n + 1) = IF n \in E THEN Under(E, n) + 1 ELSE Under(E, n)
          /\ \A i \in 1 .. n : Under(E, i) <= d /\ Under(E, i) \in Nat
        BY <1>1, <1>2, <1>3, <2>1, UnderSteps
    <2> QED BY <1>3, <2>2, <2>3
<1>14. \A i \in 1 .. n : Under(S, i + 1) = IF Close(c[i]) THEN Under(E, i) + 1
                                           ELSE Under(E, i)
    BY <1>1, <1>2, StartsAndEnds
<1>15. m <= d + 1
    <2>1. n \in 1 .. n
        BY <1>2
    <2> QED BY <1>4, <1>6, <1>13, <1>14, <2>1
<1>16. ASSUME NEW k \in 1 .. m
       PROVE  /\ from[k] \in S /\ from[k] \in 1 .. n
              /\ Under(S, from[k]) = k - 1
              /\ \A i \in 1 .. n : from[k] <= i <=> k <= Under(S, i + 1)
    <2>1. /\ from[k] \in S /\ from[k] \in 1 .. n
          /\ Under(S, from[k]) = k - 1
        <3>1. n \in Nat /\ S \in SUBSET (1 .. n) /\ Lists(from, S, Less(n))
            BY <1>2, <1>3, <1>5
        <3>2. k \in 1 .. Cardinality(S) /\ n \in Nat
            BY <1>1, <1>2
        <3> QED BY <3>1, <3>2, UnderPlace
    <2>2. \A i \in 1 .. n : from[k] < i + 1 <=> k <= Under(S, i + 1)
        <3>1. \A i \in 1 .. n : i + 1 \in Nat
            OBVIOUS
        <3> QED BY <1>1, <1>2, <1>3, <1>5, <3>1, UnderPlace
    <2>3. \A i \in 1 .. n : from[k] < i + 1 <=> from[k] <= i
        BY <2>1
    <2> QED BY <2>1, <2>2, <2>3
<1>17. ASSUME NEW k \in 1 .. m
       PROVE  /\ to[k] \in 1 .. n
              /\ \A i \in 1 .. n : i <= to[k] <=> Under(E, i) < k
              /\ SectionEnds(c)[k] = c[to[k]].t
    <2>1. k \in 1 .. d + 1 /\ k \in Nat
        BY <1>4, <1>6, <1>15
    <2>2. CASE k <= d
        <3>1. k \in 1 .. d /\ to[k] = last[k]
            BY <1>6, <1>12, <2>1, <2>2
        <3>2. last[k] \in 1 .. n
            BY <1>1, <1>2, <1>3, <1>7, <3>1, UnderPlace
        <3>3. \A i \in 1 .. n : last[k] < i <=> k <= Under(E, i)
            <4>1. \A i \in 1 .. n : i \in Nat
                OBVIOUS
            <4> QED BY <1>1, <1>2, <1>3, <1>7, <3>1, <4>1, UnderPlace
        <3>4. \A i \in 1 .. n : i <= last[k] <=> Under(E, i) < k
            <4>1. \A i \in 1 .. n : i <= last[k] <=> ~ (last[k] < i)
                BY <3>2
            <4>2. \A i \in 1 .. n : Under(E, i) < k <=> ~ (k <= Under(E, i))
                BY <1>13, <2>1
            <4> QED BY <3>3, <4>1, <4>2
        <3>5. SectionEnds(c)[k] = c[last[k]].t
            BY <1>7, <1>11, <3>1 DEF Times
        <3> QED BY <3>1, <3>2, <3>4, <3>5
    <2>3. CASE ~ (k <= d)
        <3>1. k = d + 1 /\ to[k] = n
            BY <1>6, <1>12, <2>1, <2>3
        <3>2. \A i \in 1 .. n : i <= n /\ Under(E, i) < k
            BY <1>6, <1>13, <3>1
        <3> QED BY <1>2, <1>11, <3>1, <3>2
    <2> QED BY <2>2, <2>3
<1>18. ASSUME NEW k \in 1 .. m PROVE from[k] <= to[k]
    <2>1. PICK i : i = from[k]
        OBVIOUS
    <2>2. i \in S /\ i \in 1 .. n /\ Under(S, i) = k - 1
        BY <1>16, <2>1
    <2>3. Under(S, i + 1) = Under(S, i) + 1 /\ Under(S, i + 1) = Under(E, i) + 1
        BY <1>3, <1>13, <1>14, <2>2
    <2>4. Under(E, i) < k
        BY <1>4, <1>13, <2>2, <2>3
    <2> QED BY <1>17, <2>1, <2>2, <2>4
<1>19. \A k \in 1 .. m : SectionStarts(c)[k] = c[from[k]].t
    BY <1>5, <1>8 DEF Times
<1>20. Paired(c, from, to, m)
    <2>1. SectionStarts(c) \in Seq(Nat) /\ Len(SectionStarts(c)) = m
        BY <1>5, <1>8
    <2>2. /\ SectionEnds(c) \in Seq(Nat) /\ m <= Len(SectionEnds(c))
          /\ SectionEnds(c) # <<>>
        BY <1>6, <1>11, <1>15
    <2>3. ASSUME NEW k \in 1 .. d + 1
          PROVE  \E i \in 1 .. n : SectionEnds(c)[k] = c[i].t
        <3>1. k = d + 1 \/ k \in 1 .. d
            BY <1>6
        <3>2. ASSUME k \in 1 .. d
              PROVE  last[k] \in 1 .. n /\ SectionEnds(c)[k] = c[last[k]].t
            <4>1. last[k] \in 1 .. n
                BY <1>1, <1>2, <1>3, <1>7, <3>2, UnderPlace
            <4> QED BY <1>7, <1>11, <3>2, <4>1 DEF Times
        <3>3. n \in 1 .. n
            BY <1>2
        <3> QED BY <1>11, <3>1, <3>2, <3>3
    <2> QED BY <1>1, <1>4, <1>11, <1>13, <1>16, <1>17, <1>18, <1>19,
               <2>1, <2>2, <2>3
            DEF Paired
<1> QED BY <1>20

-----------------------------------------------------------------------------
(* Interpolation *)

\* What is least is the minimum.
LEMMA LeastIs ==
    ASSUME NEW T \in SUBSET Nat, NEW m \in T, \A k \in T : m <= k
    PROVE  Min(T) = m
<1> DEFINE x == Min(T)
<1>1. x \in T /\ \A k \in T : x <= k
    <2>1. \E k \in T : \A j \in T : k <= j
        OBVIOUS
    <2> QED BY <2>1, Zenon DEF Min
<1> HIDE DEF x
<1>2. x \in Nat /\ m \in Nat /\ m <= x /\ x <= m
    BY <1>1
<1>3. x = m
    BY <1>2
<1> QED BY <1>3 DEF x

\* A product is divided by its factor.
LEMMA Quotient ==
    ASSUME NEW d \in Nat \ {0}, NEW y \in Nat
    PROVE  (d * y) \div d = y
OBVIOUS

\* The entry interpolated for an instant has the age of that instant.
LEMMA InterpolatedIs ==
    ASSUME LogInv, rcvd # <<>>, NEW ts, Closed(ts),
           NEW x \in First .. TMax - 1
    PROVE  /\ Between(ts, x)
           /\ Interpolated(ts, x) = [t |-> x, age |-> Age(x)]
           /\ [t |-> x, age |-> Age(x)] \in Row
<1>1. PICK n : n = Len(ts)
    OBVIOUS
<1>2. /\ n \in Nat /\ n > 2 /\ TMax \in Nat /\ First \in Nat
      /\ \A k \in 1 .. n : ts[k].t \in Nat /\ ts[k].age \in Nat
      /\ \A k, j \in 1 .. n : k <= j => ts[k].t <= ts[j].t
    BY <1>1, ClosedEntries
<1>3. x \in Nat
    BY <1>2
<1>4. PICK i \in 1 .. n - 2 :
               /\ i = Max({k \in 1 .. n : ts[k].t <= x})
               /\ ts[i].t <= x /\ x < ts[i + 1].t
               /\ Rise(ts, i)
    BY <1>1, EntryBefore
<1>5. i \in 1 .. n /\ i + 1 \in 1 .. n
    BY <1>2
<1>6. /\ Age(x) = ts[i].age + x - ts[i].t
    BY <1>1, <1>3, <1>4, AgeAt
<1>7. Min({k \in 1 .. n : ts[k].t > x}) = i + 1
    <2>1. PICK T : T = {k \in 1 .. n : ts[k].t > x}
        OBVIOUS
    <2>2. T \in SUBSET Nat
        BY <2>1
    <2>3. i + 1 \in T
        BY <1>2, <1>3, <1>4, <1>5, <2>1
    <2>4. ASSUME NEW k \in T PROVE i + 1 <= k
        <3>1. k \in 1 .. n /\ ts[k].t > x /\ ts[k].t \in Nat
            BY <1>2, <2>1
        <3>2. ts[i].t \in Nat
            BY <1>2, <1>5
        <3>3. ~ (k <= i)
            BY <1>2, <1>3, <1>4, <1>5, <3>1, <3>2
        <3> QED BY <1>5, <3>1, <3>3
    <2>5. Min(T) = i + 1
        BY <2>2, <2>3, <2>4, LeastIs
    <2> QED BY <2>1, <2>5
<1>8. PICK a, b, p, q : /\ a = ts[i].age /\ b = ts[i + 1].age
                        /\ p = ts[i].t /\ q = ts[i + 1].t
    OBVIOUS
<1>9. /\ a \in Nat /\ b \in Nat /\ p \in Nat /\ q \in Nat
      /\ p <= x /\ x < q /\ b = a + q - p
    BY <1>2, <1>4, <1>5, <1>8 DEF Rise
<1>10. ((b - a) * (x - p)) \div (q - p) = x - p
    <2>1. b - a = q - p /\ q - p \in Nat \ {0} /\ x - p \in Nat
        BY <1>3, <1>9
    <2> QED BY <2>1, Quotient
<1>11. Age(x) = a + (x - p) /\ Age(x) \in Nat
    <2>1. Age(x) = a + x - p
        BY <1>6, <1>8
    <2>2. a + x - p = a + (x - p) /\ a + x - p \in Nat
        BY <1>3, <1>9
    <2> QED BY <2>1, <2>2
<1>12. Interpolated(ts, x) = [t |-> x, age |-> Age(x)]
    <2>1. Interpolated(ts, x) =
              [t |-> x, age |-> a + ((b - a) * (x - p)) \div (q - p)]
        BY <1>1, <1>4, <1>7, <1>8 DEF Interpolated
    <2> QED BY <1>10, <1>11, <2>1
<1>13. Between(ts, x)
    BY <1>1, <1>4, <1>5 DEF Between
<1> QED BY <1>3, <1>11, <1>12, <1>13 DEF Row

-----------------------------------------------------------------------------
(* A section *)

\* The entries selected reach from the first of them to the last.
LEMMA SelectedEnds ==
    ASSUME NEW s, NEW n \in Nat, NEW I \in SUBSET (1 .. n), I # {}
    PROVE  /\ Selected(s, I) # <<>>
           /\ \E i \in I : /\ \A q \in I : i <= q
                           /\ Selected(s, I)[1] = s[i]
           /\ \E j \in I : /\ \A q \in I : q <= j
                           /\ Last(Selected(s, I)) = s[j]
<1>1. PICK m : m = Cardinality(I)
    OBVIOUS
<1>2. m \in Nat
    BY <1>1, SelectedIs
<1>3. PICK place : /\ Lists(place, I, Less(n))
                   /\ Selected(s, I) = Taken(s, place, m)
    BY <1>1, SelectedIs
<1>4. /\ \A k \in 1 .. m : place[k] \in I /\ place[k] \in 1 .. n
      /\ \A q \in I : \E k \in 1 .. m : place[k] = q
      /\ \A k, j \in 1 .. m : k < j => place[k] < place[j]
    BY <1>1, <1>3 DEF Lists, Less
<1>5. 1 \in 1 .. m /\ m \in 1 .. m
    <2>1. PICK q \in I : TRUE
        OBVIOUS
    <2>2. PICK k \in 1 .. m : place[k] = q
        BY <1>4, <2>1
    <2> QED BY <1>2, <2>2
<1>6. \A q \in I : place[1] <= q /\ q <= place[m]
    <2> SUFFICES ASSUME NEW q \in I PROVE place[1] <= q /\ q <= place[m]
        OBVIOUS
    <2>1. PICK k \in 1 .. m : place[k] = q
        BY <1>4
    <2>2. (k = 1 \/ 1 < k) /\ (k = m \/ k < m)
        BY <1>2, <2>1
    <2>3. /\ place[1] = q \/ place[1] < q
          /\ place[m] = q \/ q < place[m]
        BY <1>4, <1>5, <2>1, <2>2
    <2> QED BY <1>4, <1>5, <2>3
<1>7. PICK x : x = Taken(s, place, m)
    OBVIOUS
<1>8. x = [k \in 1 .. m |-> s[place[k]]]
    BY <1>7 DEF Taken
<1>9. x # <<>> /\ Len(x) = m /\ x[1] = s[place[1]] /\ x[m] = s[place[m]]
    BY <1>2, <1>5, <1>8
<1> QED BY <1>3, <1>4, <1>5, <1>6, <1>7, <1>9 DEF Last

\* The places of a sorted sequence, both ways.
Sorts(place, s, n) ==
    /\ \A q \in 1 .. n : place[q] \in 1 .. n
    /\ \A i \in 1 .. n : \E q \in 1 .. n : place[q] = i
    /\ \A q, r \in 1 .. n :
           q < r => \/ s[place[q]].t < s[place[r]].t
                    \/ /\ s[place[q]].t = s[place[r]].t
                       /\ place[q] < place[r]
    /\ \A q \in 1 .. n : SortedByTime(s)[q] = s[place[q]]
    /\ Len(SortedByTime(s)) = n

\* A sequence sorted by time has such places.
LEMMA SortedEntries ==
    ASSUME NEW s, NEW n \in Nat, n = Len(s), \A i \in 1 .. n : s[i].t \in Int
    PROVE  \E place : Sorts(place, s, n)
<1>1. PICK place : /\ Lists(place, 1 .. n, Sooner(s, n))
                   /\ SortedByTime(s) = Taken(s, place, n)
    BY SortedIs
<1>2. Cardinality(1 .. n) = n
    BY FS_Interval
<1>3. /\ place \in [1 .. n -> 1 .. n]
      /\ \A i \in 1 .. n : \E q \in 1 .. n : place[q] = i
      /\ \A q, r \in 1 .. n : q < r => <<place[q], place[r]>> \in Sooner(s, n)
    BY <1>1, <1>2 DEF Lists
<1>4. \A q, r \in 1 .. n :
          q < r => \/ s[place[q]].t < s[place[r]].t
                   \/ /\ s[place[q]].t = s[place[r]].t
                      /\ place[q] < place[r]
    <2>1. ASSUME NEW i, NEW j, <<i, j>> \in Sooner(s, n)
          PROVE  s[i].t < s[j].t \/ (s[i].t = s[j].t /\ i < j)
        BY <2>1 DEF Sooner
    <2> QED BY <1>3, <2>1, Zenon
<1>5. PICK x : x = SortedByTime(s)
    OBVIOUS
<1>6. x = [q \in 1 .. n |-> s[place[q]]]
    BY <1>1, <1>5 DEF Taken
<1>7. Len(x) = n /\ \A q \in 1 .. n : x[q] = s[place[q]]
    BY <1>6
<1> QED BY <1>3, <1>4, <1>5, <1>7 DEF Sorts

\* Entries for the instants times, with the age of their instant.
Inserted(new, times) ==
    /\ new \in Seq(Row)
    /\ \A k \in 1 .. Len(new) : /\ new[k].t \in First .. TMax - 1
                                /\ new[k].age = Age(new[k].t)
    /\ \A k \in 1 .. Len(times) : \E g \in 1 .. Len(new) : new[g].t = times[k]

\* What interpolate_aoi inserts.
LEMMA InsertedEntries ==
    ASSUME LogInv, rcvd # <<>>, NEW ts, Closed(ts),
           NEW times \in Seq(Nat), times # <<>>,
           \A k \in 1 .. Len(times) : times[k] \in First .. TMax - 1
    PROVE  \E new : /\ Inserted(new, times)
                    /\ InterpolateAoi(times, ts) = SortedByTime(new \o ts)
<1>1. PICK n, I, m : /\ n = Len(times) /\ m = Cardinality(I)
                     /\ I = {k \in 1 .. n : Between(ts, times[k])}
    OBVIOUS
<1>2. n \in Nat
    BY <1>1
<1>3. \A k \in 1 .. n : times[k] \in First .. TMax - 1
    BY <1>1
<1>4. \A x \in First .. TMax - 1 :
          /\ Between(ts, x)
          /\ Interpolated(ts, x) = [t |-> x, age |-> Age(x)]
          /\ [t |-> x, age |-> Age(x)] \in Row
    BY InterpolatedIs
<1>5. I = 1 .. n
    BY <1>1, <1>3, <1>4, Zenon
<1>6. I \in SUBSET (1 .. n)
    BY <1>5
<1>7. m \in Nat
    BY <1>1, <1>2, <1>6, SelectedIs
<1>8. PICK place : /\ Lists(place, I, Less(n))
                   /\ Selected(times, I) = Taken(times, place, m)
    BY <1>1, <1>2, <1>6, SelectedIs
<1>9. /\ \A k \in 1 .. m : place[k] \in 1 .. n
      /\ \A i \in 1 .. n : \E k \in 1 .. m : place[k] = i
    BY <1>1, <1>5, <1>8 DEF Lists
<1>10. PICK x : x = Selected(times, I)
    OBVIOUS
<1>11. x = [k \in 1 .. m |-> times[place[k]]]
    BY <1>8, <1>10 DEF Taken
<1>12. Len(x) = m /\ \A k \in 1 .. m : x[k] \in First .. TMax - 1
    BY <1>3, <1>7, <1>9, <1>11
<1>13. PICK new : new = [k \in 1 .. m |-> Interpolated(ts, x[k])]
    OBVIOUS
<1>14. \A k \in 1 .. m : /\ new[k] = [t |-> x[k], age |-> Age(x[k])]
                         /\ new[k] \in Row
    BY <1>4, <1>12, <1>13, Zenon
<1>15. new \in Seq(Row) /\ Len(new) = m
    <2>1. new \in [1 .. m -> Row]
        BY <1>13, <1>14
    <2> QED BY <1>7, <2>1, <1>13
<1>16. \A k \in 1 .. m : new[k].t = x[k] /\ new[k].age = Age(new[k].t)
    <2> SUFFICES ASSUME NEW k \in 1 .. m
                 PROVE  new[k].t = x[k] /\ new[k].age = Age(new[k].t)
        OBVIOUS
    <2>1. PICK t, y : t = x[k] /\ y = Age(t)
        OBVIOUS
    <2>2. new[k] = [t |-> t, age |-> y]
        BY <1>14, <2>1, Zenon
    <2>3. new[k].t = t /\ new[k].age = y
        BY <2>2
    <2> QED BY <2>1, <2>3, Zenon
<1>17. \A k \in 1 .. n : \E g \in 1 .. m : new[g].t = times[k]
    BY <1>9, <1>11, <1>16
<1>18. Inserted(new, times)
    BY <1>1, <1>12, <1>15, <1>16, <1>17 DEF Inserted
<1>19. InterpolateAoi(times, ts) = SortedByTime(new \o ts)
    <2>1. x # <<>>
        <3>1. 1 \in 1 .. n
            BY <1>1
        <3>2. PICK k \in 1 .. m : place[k] = 1
            BY <1>9, <3>1
        <3> QED BY <1>12, <3>2
    <2> QED BY <1>1, <1>10, <1>12, <1>13, <2>1 DEF InterpolateAoi
<1> QED BY <1>18, <1>19

\* The entries of a series between two instants.
Section(series, a, b) ==
    Selected(series, {q \in 1 .. Len(series) :
                         series[q].t >= a /\ series[q].t <= b})

\* s reaches from the age at a to the age at b.
Reaches(s, a, b) ==
    /\ s # <<>>
    /\ s[1].t = a /\ s[1].age = Age(a)
    /\ Last(s).t = b /\ Last(s).age = Age(b)

\* The new entries come before those of their time; at the start of a section
\* the first is a new one, and at its end the last is the series' own if it
\* has one: either has the age of that instant.
LEMMA SectionReaches ==
    ASSUME LogInv, rcvd # <<>>, NEW ts, Closed(ts),
           NEW times, NEW new, Inserted(new, times),
           NEW i \in 1 .. Len(times), NEW j \in 1 .. Len(times),
           times[i] \in First .. TMax - 1, times[j] \in First .. TMax - 1,
           times[i] <= times[j]
    PROVE  Reaches(Section(SortedByTime(new \o ts), times[i], times[j]),
                   times[i], times[j])
<1>1. PICK a, b, w, n, all, series, N :
               /\ a = times[i] /\ b = times[j] /\ w = Len(new) /\ n = Len(ts)
               /\ all = new \o ts /\ series = SortedByTime(all) /\ N = w + n
    OBVIOUS
<1>2. /\ n \in Nat /\ n > 2 /\ TMax \in Nat /\ First \in Nat
      /\ \A k \in 1 .. n : ts[k].t \in Nat /\ ts[k].age \in Nat
      /\ \A k, l \in 1 .. n : k <= l => ts[k].t <= ts[l].t
    BY <1>1, ClosedEntries
<1>3. a \in Nat /\ b \in Nat /\ a <= b /\ b \in First .. TMax - 1
    BY <1>1, <1>2
<1>4. /\ new \in Seq(Row) /\ w \in Nat
      /\ \A k \in 1 .. w : new[k].age = Age(new[k].t)
    BY <1>1 DEF Inserted
<1>5. PICK g \in 1 .. w, h \in 1 .. w : new[g].t = a /\ new[h].t = b
    BY <1>1 DEF Inserted
<1>6. ts \in Seq(Row)
    BY DEF Closed, Shaped
<1>7. /\ all \in Seq(Row) /\ Len(all) = N /\ N \in Nat
      /\ \A k \in 1 .. w : all[k] = new[k] /\ k \in 1 .. N
      /\ \A k \in 1 .. n : all[w + k] = ts[k] /\ w + k \in 1 .. N
      /\ \A k \in 1 .. N : k \in 1 .. w \/ (k > w /\ k - w \in 1 .. n)
    BY <1>1, <1>2, <1>4, <1>6, SMTT(40)
<1>8. \A k \in 1 .. N : all[k].t \in Nat
    <2>1. \A k \in 1 .. N : all[k] \in Row
        BY <1>7
    <2> QED BY <2>1, RowType
<1>9. PICK place : Sorts(place, all, N)
    BY <1>7, <1>8, SortedEntries
<1>10. /\ \A q \in 1 .. N : place[q] \in 1 .. N /\ series[q] = all[place[q]]
       /\ \A k \in 1 .. N : \E q \in 1 .. N : place[q] = k
       /\ \A q, r \in 1 .. N :
              q < r => \/ all[place[q]].t < all[place[r]].t
                       \/ /\ all[place[q]].t = all[place[r]].t
                          /\ place[q] < place[r]
       /\ Len(series) = N
    BY <1>1, <1>9, Zenon DEF Sorts
<1>11. PICK J : J = {q \in 1 .. N : series[q].t >= a /\ series[q].t <= b}
    OBVIOUS
<1>12. PICK qg \in 1 .. N, qh \in 1 .. N : place[qg] = g /\ place[qh] = h
    BY <1>5, <1>7, <1>10
<1>13. series[qg].t = a /\ series[qh].t = b
    BY <1>5, <1>7, <1>10, <1>12
<1>14. qg \in J /\ qh \in J
    BY <1>3, <1>11, <1>13
<1>15. PICK s : s = Selected(series, J)
    OBVIOUS
<1>16. /\ s # <<>>
       /\ \E f \in J : (\A q \in J : f <= q) /\ s[1] = series[f]
       /\ \E l \in J : (\A q \in J : q <= l) /\ Last(s) = series[l]
    <2>1. J \in SUBSET (1 .. N) /\ J # {}
        BY <1>11, <1>14
    <2>2. N \in Nat
        BY <1>7
    <2>3. /\ Selected(series, J) # <<>>
          /\ \E f \in J : /\ \A q \in J : f <= q
                          /\ Selected(series, J)[1] = series[f]
          /\ \E l \in J : /\ \A q \in J : q <= l
                          /\ Last(Selected(series, J)) = series[l]
        BY <2>1, <2>2, SelectedEnds
    <2> QED BY <1>15, <2>3, Zenon
<1>17. s[1].t = a /\ s[1].age = Age(a)
    <2>1. PICK f \in J : (\A q \in J : f <= q) /\ s[1] = series[f]
        BY <1>16
    <2>2. PICK p : p = place[f]
        OBVIOUS
    <2>3. /\ f \in 1 .. N /\ f <= qg /\ p \in 1 .. N /\ series[f] = all[p]
          /\ all[p].t >= a /\ all[p].t \in Nat
        BY <1>8, <1>10, <1>11, <1>14, <2>1, <2>2
    <2>4. all[g].t = a
        BY <1>5, <1>7
    <2>5. f = qg \/ f < qg
        BY <2>3
    <2>6. p = g \/ (all[p].t = a /\ p < g)
        <3>1. CASE f = qg
            BY <1>12, <2>2, <3>1
        <3>2. CASE f < qg
            <4>1. all[p].t < all[g].t \/ (all[p].t = all[g].t /\ p < g)
                BY <1>10, <1>12, <2>2, <2>3, <3>2
            <4> QED BY <1>3, <2>3, <2>4, <4>1
        <3> QED BY <2>5, <3>1, <3>2
    <2>7. p \in 1 .. w /\ all[p].t = a
        BY <1>4, <1>5, <2>3, <2>4, <2>6
    <2>8. all[p] = new[p] /\ new[p].age = Age(new[p].t)
        BY <1>4, <1>7, <2>7
    <2>9. new[p].t = a /\ new[p].age = Age(a)
        BY <2>7, <2>8, Zenon
    <2> QED BY <2>1, <2>3, <2>8, <2>9
<1>18. Last(s).t = b /\ Last(s).age = Age(b)
    <2>1. PICK l \in J : (\A q \in J : q <= l) /\ Last(s) = series[l]
        BY <1>16
    <2>2. PICK p : p = place[l]
        OBVIOUS
    <2>3. /\ l \in 1 .. N /\ qh <= l /\ p \in 1 .. N /\ series[l] = all[p]
          /\ all[p].t <= b /\ all[p].t \in Nat
        BY <1>8, <1>10, <1>11, <1>14, <2>1, <2>2
    <2>4. all[h].t = b /\ h \in 1 .. N
        BY <1>5, <1>7
    <2>5. p = h \/ (all[p].t = b /\ h < p)
        <3>1. CASE qh = l
            BY <1>12, <2>2, <3>1
        <3>2. CASE qh < l
            <4>1. all[h].t < all[p].t \/ (all[h].t = all[p].t /\ h < p)
                BY <1>10, <1>12, <2>2, <2>3, <3>2
            <4> QED BY <1>3, <2>3, <2>4, <4>1
        <3> QED BY <2>3, <3>1, <3>2
    <2>6. all[p].t = b
        BY <2>4, <2>5
    <2>7. all[p].age = Age(b)
        <3>1. CASE p \in 1 .. w
            <4>1. all[p] = new[p] /\ new[p].age = Age(new[p].t)
                BY <1>4, <1>7, <3>1
            <4> QED BY <2>6, <4>1, Zenon
        <3>2. CASE p > w /\ p - w \in 1 .. n
            <4>1. PICK e : e = p - w
                OBVIOUS
            <4>2. e \in 1 .. n /\ w + e = p /\ all[p] = ts[e] /\ ts[e].t = b
                BY <1>4, <1>7, <2>3, <2>6, <3>2, <4>1
            <4>3. ASSUME NEW k \in 1 .. n, ts[k].t <= b
                  PROVE  k <= e
                <5> SUFFICES ASSUME e < k PROVE FALSE
                    BY <4>2
                <5>1. PICK r : r = w + k
                    OBVIOUS
                <5>2. /\ r \in 1 .. N /\ all[r] = ts[k] /\ p < r
                    BY <1>4, <1>7, <4>2, <5>1, SMTT(40)
                <5>3. all[r].t = b
                    <6>1. PICK u : u = ts[k].t
                        OBVIOUS
                    <6>2. u \in Nat /\ u <= b
                        BY <1>2, <4>3, <6>1
                    <6>3. ts[e].t <= u
                        <7>1. e <= k
                            BY <4>2
                        <7> QED BY <1>2, <4>2, <6>1, <7>1
                    <6>4. u = b
                        BY <1>3, <4>2, <6>2, <6>3
                    <6> QED BY <5>2, <6>1, <6>4
                <5>4. PICK z \in 1 .. N : place[z] = r
                    BY <1>10, <5>2
                <5>5. z \in J
                    <6>1. series[z].t = b
                        BY <1>10, <5>3, <5>4
                    <6>2. series[z].t >= a /\ series[z].t <= b
                        BY <1>3, <6>1
                    <6> QED BY <1>11, <6>2
                <5>6. z <= l
                    BY <2>1, <5>5
                <5>7. z = l \/ z < l
                    BY <2>3, <5>6
                <5>8. CASE z = l
                    BY <2>2, <2>3, <5>2, <5>4, <5>8
                <5>9. CASE z < l
                    <6>1. all[r].t < all[p].t \/ (all[r].t = all[p].t /\ r < p)
                        BY <1>10, <2>2, <2>3, <5>4, <5>9
                    <6> QED BY <1>3, <2>3, <2>6, <5>2, <5>3, <6>1
                <5> QED BY <5>7, <5>8, <5>9
            <4>4. Max({k \in 1 .. n : ts[k].t <= b}) = e
                <5>1. PICK T : T = {k \in 1 .. n : ts[k].t <= b}
                    OBVIOUS
                <5>2. T \in SUBSET (0 .. n) /\ \A k \in T : k <= e
                    BY <4>3, <5>1
                <5>3. e \in T
                    BY <1>3, <4>2, <5>1
                <5> QED BY <1>2, <5>1, <5>2, <5>3, GreatestIs
            <4>5. PICK k \in 1 .. n - 2 :
                           /\ k = Max({x \in 1 .. n : ts[x].t <= b})
                           /\ ts[k].t <= b /\ b < ts[k + 1].t
                BY <1>1, <1>3, EntryBefore
            <4>6. Age(b) = ts[k].age + b - ts[k].t /\ k = e
                BY <1>1, <1>3, <4>4, <4>5, AgeAt
            <4>7. Age(b) = ts[e].age + b - b
                BY <4>2, <4>6
            <4>8. ts[e].age + b - b = ts[e].age
                <5>1. PICK y : y = ts[e].age
                    OBVIOUS
                <5>2. y \in Nat
                    BY <1>2, <4>2, <5>1
                <5>3. y + b - b = y
                    BY <1>3, <5>2
                <5> QED BY <5>1, <5>3
            <4> QED BY <4>2, <4>7, <4>8
        <3> QED BY <1>7, <2>3, <3>1, <3>2
    <2> QED BY <2>1, <2>3, <2>6, <2>7
<1>19. Reaches(s, a, b)
    BY <1>16, <1>17, <1>18 DEF Reaches
<1>20. s = Section(series, a, b)
    BY <1>10, <1>11, <1>15 DEF Section
<1> QED BY <1>1, <1>19, <1>20

-----------------------------------------------------------------------------
(* The sections that get_aoi_ts_sections_by_max_dist returns *)

\* With the nodes never close there is none.
LEMMA NoSections ==
    ASSUME NEW c, c = CourseFrom(First), Closed(AoiTs(rcvd)),
           c = <<>> \/ \A i \in 1 .. Len(c) : ~Close(c[i])
    PROVE  Sections(rcvd) = <<>>
<1>1. PICK ts : ts = AoiTs(rcvd)
    OBVIOUS
<1>2. ts # <<>> /\ ts[1].t = First
    BY <1>1 DEF Closed, Shaped
<1>3. c = CourseFrom(ts[1].t)
    BY <1>2
<1> QED BY <1>1, <1>2, <1>3, Zenon DEF Sections

\* Otherwise each reaches from the sample it starts at to the one it ends at.
LEMMA SectionsAre ==
    ASSUME LogInv, CourseInv, rcvd # <<>>, Closed(AoiTs(rcvd)),
           NEW c, c = CourseFrom(First), c # <<>>,
           ~ \A i \in 1 .. Len(c) : ~Close(c[i])
    PROVE  /\ Sailed(c)
           /\ \E from, to, m :
                  /\ Paired(c, from, to, m)
                  /\ Len(Sections(rcvd)) = m
                  /\ \A k \in 1 .. m : Reaches(Sections(rcvd)[k],
                                               c[from[k]].t, c[to[k]].t)
<1>1. PICK ts, starts, ends, times, n :
               /\ ts = AoiTs(rcvd) /\ n = Len(c)
               /\ starts = SectionStarts(c) /\ ends = SectionEnds(c)
               /\ times = starts \o ends
    OBVIOUS
<1>2. Closed(ts) /\ ts # <<>> /\ ts[1].t = First
    BY <1>1 DEF Closed, Shaped
<1>3. First \in Nat /\ TMax \in Nat
    BY <1>2, ClosedEntries
<1>4. Sailed(c)
    BY <1>3, CourseSailed
<1>5. /\ n \in Nat
      /\ \A i \in 1 .. n : c[i].t \in First .. TMax - 1
      /\ \A i, j \in 1 .. n : i < j => c[i].t < c[j].t
    BY <1>1, <1>4 DEF Sailed
<1>6. PICK from, to, m : Paired(c, from, to, m)
    BY <1>4, StartsPairEnds
<1>7. /\ m \in Nat /\ starts \in Seq(Nat) /\ ends \in Seq(Nat)
      /\ Len(starts) = m /\ m <= Len(ends) /\ ends # <<>>
      /\ \A k \in 1 .. m : /\ from[k] \in 1 .. n /\ to[k] \in 1 .. n
                           /\ from[k] <= to[k]
                           /\ starts[k] = c[from[k]].t /\ ends[k] = c[to[k]].t
      /\ \A k \in 1 .. Len(ends) : \E i \in 1 .. n : ends[k] = c[i].t
    BY <1>1, <1>6, Zenon DEF Paired
<1>8. PICK d : d = Len(ends)
    OBVIOUS
<1>9. /\ times \in Seq(Nat) /\ Len(times) = m + d /\ d \in Nat
      /\ times # <<>>
      /\ \A k \in 1 .. m : times[k] = starts[k]
      /\ \A k \in 1 .. d : times[m + k] = ends[k]
    <2>1. starts \in Seq(Nat) /\ ends \in Seq(Nat)
        BY <1>7
    <2>2. Len(starts) = m /\ Len(ends) = d /\ m \in Nat /\ d \in Nat
        BY <1>7, <1>8
    <2>3. times = starts \o ends
        BY <1>1
    <2>4. times \in Seq(Nat) /\ Len(times) = m + d
        BY <2>1, <2>2, <2>3, ConcatProperties, Zenon
    <2>5. \A k \in 1 .. m : times[k] = starts[k]
        BY <2>1, <2>2, <2>3
    <2>6. \A k \in 1 .. d : times[m + k] = ends[k]
        BY <2>1, <2>2, <2>3
    <2>7. times # <<>>
        BY <1>7, <2>1, <2>2, <2>4
    <2> QED BY <2>2, <2>4, <2>5, <2>6, <2>7
<1>10. \A k \in 1 .. m + d : times[k] \in First .. TMax - 1
    <2> SUFFICES ASSUME NEW k \in 1 .. m + d
                 PROVE  times[k] \in First .. TMax - 1
        OBVIOUS
    <2>1. CASE k \in 1 .. m
        <3>1. times[k] = c[from[k]].t /\ from[k] \in 1 .. n
            BY <1>7, <1>9, <2>1
        <3> QED BY <1>5, <3>1
    <2>2. CASE k \notin 1 .. m
        <3>1. PICK j : j = k - m
            OBVIOUS
        <3>2. j \in 1 .. d /\ k = m + j
            BY <1>7, <1>9, <2>2, <3>1
        <3>3. PICK i \in 1 .. n : ends[j] = c[i].t
            BY <1>7, <1>8, <3>2
        <3> QED BY <1>5, <1>9, <3>2, <3>3
    <2> QED BY <2>1, <2>2
<1>11. PICK new : /\ Inserted(new, times)
                  /\ InterpolateAoi(times, ts) = SortedByTime(new \o ts)
    BY <1>2, <1>9, <1>10, InsertedEntries
<1>12. PICK series : series = SortedByTime(new \o ts)
    OBVIOUS
<1>13. PICK sections : sections = Sections(rcvd)
    OBVIOUS
<1>14. sections = [k \in 1 .. m |-> Section(series, starts[k], ends[k])]
    <2>1. c = CourseFrom(ts[1].t)
        BY <1>2
    <2>2. Sections(rcvd) =
              [k \in 1 .. Len(starts) |->
                  Selected(InterpolateAoi(times, ts),
                           {i \in 1 .. Len(InterpolateAoi(times, ts)) :
                               /\ InterpolateAoi(times, ts)[i].t >= starts[k]
                               /\ InterpolateAoi(times, ts)[i].t <= ends[k]})]
        BY <1>1, <1>2, <2>1, Zenon DEF Sections
    <2> QED BY <1>7, <1>11, <1>12, <1>13, <2>2 DEF Section
<1>15. Len(sections) = m
    BY <1>7, <1>14
<1>16. ASSUME NEW k \in 1 .. m
       PROVE  Reaches(sections[k], c[from[k]].t, c[to[k]].t)
    <2>1. PICK i, j : i = k /\ j = m + k
        OBVIOUS
    <2>2. i \in 1 .. Len(times) /\ j \in 1 .. Len(times) /\ k \in 1 .. d
        <3>1. m \in Nat /\ d \in Nat /\ Len(times) = m + d
            BY <1>7, <1>9
        <3>2. m <= d
            BY <1>7, <1>8
        <3>3. i \in 1 .. m + d /\ j \in 1 .. m + d /\ k \in 1 .. d
            BY <2>1, <3>1, <3>2
        <3> QED BY <3>1, <3>3
    <2>3. times[i] = c[from[k]].t /\ times[j] = c[to[k]].t
        BY <1>7, <1>9, <2>1, <2>2
    <2>4. from[k] \in 1 .. n /\ to[k] \in 1 .. n /\ from[k] <= to[k]
        BY <1>7
    <2>5. /\ times[i] \in First .. TMax - 1 /\ times[j] \in First .. TMax - 1
          /\ times[i] <= times[j]
        <3>1. from[k] = to[k] \/ from[k] < to[k]
            BY <2>4
        <3>2. c[from[k]].t \in First .. TMax - 1 /\ c[to[k]].t \in First .. TMax - 1
            BY <1>5, <2>4
        <3>3. c[from[k]].t <= c[to[k]].t
            BY <1>3, <1>5, <2>4, <3>1, <3>2, SMTT(40)
        <3> QED BY <2>3, <3>2, <3>3
    <2>6. Reaches(Section(series, times[i], times[j]), times[i], times[j])
        BY <1>2, <1>11, <1>12, <2>2, <2>5, SectionReaches
    <2>7. sections[k] = Section(series, starts[k], ends[k])
        BY <1>14
    <2>8. starts[k] = times[i] /\ ends[k] = times[j]
        BY <1>7, <2>3
    <2> QED BY <2>3, <2>6, <2>7, <2>8
<1> QED BY <1>4, <1>6, <1>13, <1>15, <1>16

\* A sample with the nodes close lies in the one section whose number is that
\* of the sections started by then, any other sample in none.
LEMMA SpannedOnce ==
    ASSUME NEW c, Sailed(c), NEW from, NEW to, NEW m, Paired(c, from, to, m),
           NEW i \in 1 .. Len(c)
    PROVE  Cardinality({k \in 1 .. m : /\ c[from[k]].t <= c[i].t
                                       /\ c[i].t <= c[to[k]].t}) =
               IF Close(c[i]) THEN 1 ELSE 0
<1>1. PICK n, K : /\ n = Len(c)
                  /\ K = {k \in 1 .. m : /\ c[from[k]].t <= c[i].t
                                         /\ c[i].t <= c[to[k]].t}
    OBVIOUS
<1>2. /\ n \in Nat
      /\ \A j \in 1 .. n : c[j] \in Position
      /\ \A j, k \in 1 .. n : j < k => c[j].t < c[k].t
    BY <1>1 DEF Sailed
<1>3. \A j, k \in 1 .. n : j <= k <=> c[j].t <= c[k].t
    <2> SUFFICES ASSUME NEW j \in 1 .. n, NEW k \in 1 .. n
                 PROVE  j <= k <=> c[j].t <= c[k].t
        OBVIOUS
    <2>1. c[j].t \in Nat /\ c[k].t \in Nat
        BY <1>2, PositionType
    <2>2. j = k \/ (j < k /\ c[j].t < c[k].t) \/ (k < j /\ c[k].t < c[j].t)
        BY <1>2
    <2> QED BY <2>1, <2>2
<1>4. PICK e, s : e = Under(EndsAt(c), i) /\ s = Under(StartsAt(c), i + 1)
    OBVIOUS
<1>5. /\ \A k \in 1 .. m : /\ from[k] \in 1 .. n /\ to[k] \in 1 .. n
                           /\ from[k] <= i /\ i <= to[k] <=> e < k /\ k <= s
      /\ s <= m /\ m \in Nat
    BY <1>1, <1>4 DEF Paired
<1>6. e \in Nat /\ s = IF Close(c[i]) THEN e + 1 ELSE e
    <2>1. EndsAt(c) \in SUBSET (1 .. n)
        BY <1>1, <1>2 DEF EndsAt
    <2>2. i \in Nat
        BY <1>1, <1>2
    <2>3. e \in Nat
        BY <1>2, <1>4, <2>1, <2>2, UnderSteps
    <2>4. Under(StartsAt(c), i + 1) = IF Close(c[i])
                                      THEN Under(EndsAt(c), i) + 1
                                      ELSE Under(EndsAt(c), i)
        BY <1>1, <1>2, StartsAndEnds
    <2> QED BY <1>4, <2>3, <2>4
<1>7. K = {k \in 1 .. m : e < k /\ k <= s}
    <2>1. \A k \in 1 .. m : c[from[k]].t <= c[i].t /\ c[i].t <= c[to[k]].t
                                <=> e < k /\ k <= s
        BY <1>1, <1>3, <1>5
    <2> QED BY <1>1, <2>1
<1>8. CASE Close(c[i])
    <2>1. K = {e + 1}
        BY <1>5, <1>6, <1>7, <1>8
    <2>2. Cardinality({e + 1}) = 1
        BY FS_Singleton
    <2> QED BY <1>1, <1>8, <2>1, <2>2
<1>9. CASE ~Close(c[i])
    <2>1. K = {}
        BY <1>5, <1>6, <1>7, <1>9
    <2>2. Cardinality({}) = 0
        BY FS_EmptySet
    <2> QED BY <1>1, <1>9, <2>1, <2>2
<1> QED BY <1>8, <1>9

\* Positions are logged once for an instant, in every state.
LEMMA CourseInvariant == Spec => [](LogInv /\ CourseInv)
<1>1. Init => LogInv /\ CourseInv
    BY AgeAssumption DEF Init, LogInv, CourseInv
<1>2. LogInv /\ CourseInv /\ [Next]_vars => (LogInv /\ CourseInv)'
    BY LogStep, CourseStep
<1> QED BY <1>1, <1>2, PTL DEF Spec

\* The sections cut the series where the nodes come near and part: each sample
\* with the nodes close lies in exactly one section and no other sample in
\* any, and the entries interpolated at the two ends of a section have the age
\* of these instants, for every course and every log.
THEOREM SectionsAgree == Spec => []SectionsCutTheSeries
<1>1. LogInv /\ SeriesInv /\ CourseInv => SectionsCutTheSeries
    <2> SUFFICES ASSUME LogInv, SeriesInv, CourseInv, rcvd # <<>>
                 PROVE  SectionsCutTheSeries
        BY DEF SectionsCutTheSeries
    <2>1. PICK c, sections : c = CourseFrom(First) /\ sections = Sections(rcvd)
        OBVIOUS
    <2>2. Closed(AoiTs(rcvd))
        BY SeriesClosed
    <2>3. SUFFICES
              /\ \A i \in 1 .. Len(c) :
                     Cardinality({k \in 1 .. Len(sections) :
                                     /\ sections[k][1].t <= c[i].t
                                     /\ c[i].t <= Last(sections[k]).t}) =
                         IF Close(c[i]) THEN 1 ELSE 0
              /\ \A k \in 1 .. Len(sections) :
                     \A e \in {sections[k][1], Last(sections[k])} :
                         e.age = Age(e.t)
        BY <2>1 DEF SectionsCutTheSeries
    <2>4. CASE c = <<>> \/ \A i \in 1 .. Len(c) : ~Close(c[i])
        <3>1. sections = <<>>
            BY <2>1, <2>2, <2>4, NoSections, Zenon
        <3>2. 1 .. Len(sections) = {}
            BY <3>1
        <3>3. Cardinality({}) = 0
            BY FS_EmptySet
        <3>4. ASSUME NEW i \in 1 .. Len(c)
              PROVE  ~Close(c[i])
            BY <2>4, <3>4
        <3>5. ASSUME NEW i \in 1 .. Len(c)
              PROVE  {k \in 1 .. Len(sections) :
                         /\ sections[k][1].t <= c[i].t
                         /\ c[i].t <= Last(sections[k]).t} = {}
            BY <3>2
        <3> QED BY <3>2, <3>3, <3>4, <3>5
    <2>5. CASE c # <<>> /\ ~ \A i \in 1 .. Len(c) : ~Close(c[i])
        <3>1. PICK from, to, m :
                       /\ Sailed(c)
                       /\ Paired(c, from, to, m)
                       /\ Len(sections) = m
                       /\ \A k \in 1 .. m : Reaches(sections[k], c[from[k]].t,
                                                    c[to[k]].t)
            BY <2>1, <2>2, <2>5, SectionsAre
        <3>2. ASSUME NEW k \in 1 .. m
              PROVE  /\ sections[k][1].t = c[from[k]].t
                     /\ sections[k][1].age = Age(sections[k][1].t)
                     /\ Last(sections[k]).t = c[to[k]].t
                     /\ Last(sections[k]).age = Age(Last(sections[k]).t)
            BY <3>1, Zenon DEF Reaches
        <3>3. ASSUME NEW i \in 1 .. Len(c)
              PROVE  Cardinality({k \in 1 .. m :
                                     /\ sections[k][1].t <= c[i].t
                                     /\ c[i].t <= Last(sections[k]).t}) =
                         IF Close(c[i]) THEN 1 ELSE 0
            <4>1. {k \in 1 .. m : /\ sections[k][1].t <= c[i].t
                                  /\ c[i].t <= Last(sections[k]).t} =
                  {k \in 1 .. m : /\ c[from[k]].t <= c[i].t
                                  /\ c[i].t <= c[to[k]].t}
                BY <3>2
            <4> QED BY <3>1, <4>1, SpannedOnce
        <3>4. \A k \in 1 .. m : \A e \in {sections[k][1], Last(sections[k])} :
                  e.age = Age(e.t)
            BY <3>2, Zenon
        <3> QED BY <3>1, <3>3, <3>4
    <2> QED BY <2>4, <2>5
<1> QED BY <1>1, AgeInvariant, CourseInvariant, PTL

=============================================================================
