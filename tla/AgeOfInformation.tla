--------------------------- MODULE AgeOfInformation ---------------------------
(***************************************************************************)
(* parse_results_v3.py: the age of information of one source at one        *)
(* receiver.  From the rows PktRcvd of the event log it makes a time       *)
(* series of the age, and of the series its average, its histogram, its    *)
(* peaks and the sections during which the two nodes are close.  The log   *)
(* grows here as a simulation writes it: packets arrive late, out of order *)
(* and more than once, and every state is one the simulation may end in.   *)
(***************************************************************************)
EXTENDS Integers, SequencesExt

CONSTANTS
    TMax,         \* T_MAX, where every series ends
    TRes,         \* T_RES, the width of a bin of the histogram
    Near,         \* R, the distance within which the age counts
    Distances,    \* the distances the two nodes can have
    SampleEvery,  \* the ticks between two rows of the course log
    MaxDelay      \* a bound on the delay of a packet

ASSUME AgeAssumption ==
    /\ {TMax, TRes, SampleEvery, MaxDelay} \subseteq Nat \ {0}
    /\ Distances \subseteq Nat

VARIABLES
    now,    \* the simulation's clock
    rcvd,   \* the receptions, as pairs of time stamp and delay
    course  \* the distance of the two nodes, as pairs of time stamp and dist

vars == <<now, rcvd, course>>

-----------------------------------------------------------------------------
(* The log *)

Init ==
    /\ now = 0
    /\ rcvd = <<>>
    /\ course = <<>>

SampleDue == now % SampleEvery = 0

Sampled == course # <<>> /\ Last(course).t = now

\* A packet generated delay ticks ago is received: a row PktRcvd.  A receiver
\* decodes one frame at a time, and the positions are logged at other
\* instants.
Receive(delay) ==
    /\ now < TMax
    /\ ~SampleDue
    /\ rcvd # <<>> => Last(rcvd).t < now
    /\ delay <= now
    /\ rcvd' = Append(rcvd, [t |-> now, age |-> delay])
    /\ UNCHANGED <<now, course>>

\* The positions are logged.
Sample(d) ==
    /\ now < TMax
    /\ SampleDue /\ ~Sampled
    /\ course' = Append(course, [t |-> now, dist |-> d])
    /\ UNCHANGED <<now, rcvd>>

Tick ==
    /\ now < TMax
    /\ SampleDue => Sampled
    /\ now' = now + 1
    /\ UNCHANGED <<rcvd, course>>

Next ==
    \/ \E delay \in 1 .. MaxDelay : Receive(delay)
    \/ \E d \in Distances : Sample(d)
    \/ Tick

Spec == Init /\ [][Next]_vars

-----------------------------------------------------------------------------
(* The series *)

\* Mutant: the entry is appended unconditionally, as parse_results_sf.py does.
ExtendAlways(series, entry) ==
    IF series = <<>> THEN <<entry>>
    ELSE LET prev == Last(series)
         IN  series \o <<[t |-> entry.t, age |-> prev.age + entry.t - prev.t],
                         entry>>

\* The loop body of get_aoi_ts: the age has grown since the last entry; it
\* drops only to a smaller one.
Extend(series, entry) ==
    IF series = <<>> THEN <<entry>>
    ELSE LET prev == Last(series)
             grown == prev.age + entry.t - prev.t
         IN  Append(series, [t |-> entry.t, age |-> grown])
                 \o (IF entry.age < grown THEN <<entry>> ELSE <<>>)

\* get_aoi_ts
AoiTs(log) ==
    IF log = <<>> THEN <<>>
    ELSE FoldLeft(Extend, <<>>, Append(log, [t |-> TMax, age |-> 0]))

\* Mutant: the area of rectangles.
TwiceAreaOfSteps(ts) ==
    MapThenSumSet(LAMBDA i : 2 * ts[i].age * (ts[i + 1].t - ts[i].t),
                  1 .. Len(ts) - 1)

\* np.trapz, doubled to remain an integer.
TwiceArea(ts) ==
    MapThenSumSet(LAMBDA i : (ts[i].age + ts[i + 1].age)
                                 * (ts[i + 1].t - ts[i].t),
                  1 .. Len(ts) - 1)

\* get_avg_aoi is TwiceArea over twice the total time.
TotalTime(ts) == Last(ts).t - ts[1].t

-----------------------------------------------------------------------------
(* Histogram and peaks *)

BinEnds == {k * TRes : k \in 1 .. (TMax - 1) \div TRes}

\* Mutant: a bin's end belongs to the other side of the rise.
BinsOpenBelow(ts) ==
    [b \in BinEnds |->
        Cardinality({i \in 1 .. Len(ts) - 2 :
                        ts[i].age < b /\ b <= ts[i + 1].age})]

\* The rects of two successive ages, but for the last two; each counts for
\* the bins that end within it.
Bins(ts) ==
    [b \in BinEnds |->
        Cardinality({i \in 1 .. Len(ts) - 2 :
                        ts[i].age <= b /\ b < ts[i + 1].age})]

\* Mutant: the first rise is not looked at.
InnerPeaksFromThird(ts) ==
    {i \in 3 .. Len(ts) - 1 :
        ts[i].age > ts[i - 1].age /\ ts[i].age > ts[i + 1].age}

\* The indices of the local maxima that get_peaks finds; the first and the
\* last entry of the series are added as they are.
InnerPeaks(ts) ==
    {i \in 2 .. Len(ts) - 1 :
        ts[i].age > ts[i - 1].age /\ ts[i].age > ts[i + 1].age}

-----------------------------------------------------------------------------
(* Sections *)

\* The elements of the domain of rank in the order of their ranks.
InOrder(rank) ==
    [k \in 1 .. Cardinality(DOMAIN rank) |->
        CHOOSE i \in DOMAIN rank : rank[i] = k - 1]

\* The entries of s with the given indices.
Selected(s, indices) ==
    LET place == InOrder([i \in indices |->
                             Cardinality({j \in indices : j < i})])
    IN  [k \in 1 .. Cardinality(indices) |-> s[place[k]]]

\* sorted by time: a stable sort.
SortedByTime(s) ==
    LET Earlier(j, i) == s[j].t < s[i].t \/ (s[j].t = s[i].t /\ j < i)
        place == InOrder([i \in 1 .. Len(s) |->
                             Cardinality({j \in 1 .. Len(s) : Earlier(j, i)})])
    IN  [k \in 1 .. Len(s) |-> s[place[k]]]

\* The distances from the first reception on.
CourseFrom(t) ==
    Selected(course, {i \in 1 .. Len(course) : course[i].t >= t})

\* The times of the samples of a course with the given indices.
TimesOf(c, indices) ==
    LET chosen == Selected(c, indices)
    IN  [k \in 1 .. Len(chosen) |-> chosen[k].t]

Close(e) == e.dist <= Near

\* section_starts: the nodes are close, and were not at the sample before.
SectionStarts(c) ==
    TimesOf(c, {i \in 1 .. Len(c) :
                    Close(c[i]) /\ (i = 1 \/ ~Close(c[i - 1]))})

\* Mutant: a section ends at the sample that is out of range, as it did
\* according to the comment in the code.
SectionEndsOneLater(c) ==
    Append(TimesOf(c, {i \in 2 .. Len(c) :
                          Close(c[i - 1]) /\ ~Close(c[i])}),
           Last(c).t)

\* section_ends: the last sample before the nodes are apart, and always the
\* last sample of all.
SectionEnds(c) ==
    Append(TimesOf(c, {i \in 1 .. Len(c) - 1 :
                          Close(c[i]) /\ ~Close(c[i + 1])}),
           Last(c).t)

\* Only between two entries of the series can one be interpolated.
Between(ts, x) ==
    \E i, j \in 1 .. Len(ts) : ts[i].t <= x /\ x < ts[j].t

\* The entry for time x, on the line between the entries around x.  Where the
\* series rises the quotient is an integer: InterpolatedIs in AgeProofs.
Interpolated(ts, x) ==
    LET prev == ts[Max({i \in 1 .. Len(ts) : ts[i].t <= x})]
        next == ts[Min({i \in 1 .. Len(ts) : ts[i].t > x})]
    IN  [t |-> x,
         age |-> prev.age + ((next.age - prev.age) * (x - prev.t))
                                \div (next.t - prev.t)]

\* Mutant: the result is not sorted.
InterpolateAoiUnsorted(times, ts) ==
    LET new == Selected(times, {k \in 1 .. Len(times) : Between(ts, times[k])})
    IN  IF new = <<>> THEN ts
        ELSE [k \in 1 .. Len(new) |-> Interpolated(ts, new[k])] \o ts

\* interpolate_aoi: the new entries come before those of their time.
InterpolateAoi(times, ts) ==
    LET new == Selected(times, {k \in 1 .. Len(times) : Between(ts, times[k])})
    IN  IF new = <<>> THEN ts
        ELSE SortedByTime([k \in 1 .. Len(new) |-> Interpolated(ts, new[k])]
                              \o ts)

\* get_aoi_ts_sections_by_max_dist
Sections(log) ==
    LET ts == AoiTs(log)
        c == IF ts = <<>> THEN <<>> ELSE CourseFrom(ts[1].t)
    IN  IF c = <<>> \/ \A i \in 1 .. Len(c) : ~Close(c[i]) THEN <<>>
        ELSE LET starts == SectionStarts(c)
                 ends == SectionEnds(c)
                 series == InterpolateAoi(starts \o ends, ts)
             IN  [k \in 1 .. Len(starts) |->
                     Selected(series, {i \in 1 .. Len(series) :
                                          /\ series[i].t >= starts[k]
                                          /\ series[i].t <= ends[k]})]

-----------------------------------------------------------------------------
(* What is meant by the age *)

First == rcvd[1].t

\* When the freshest packet received by time t was generated.
Freshest(t) ==
    Max({rcvd[i].t - rcvd[i].age :
            i \in {k \in 1 .. Len(rcvd) : rcvd[k].t <= t}})

Age(t) == t - Freshest(t)

-----------------------------------------------------------------------------
(* Properties *)

\* At every instant from the first reception on, the series has the age of
\* the freshest packet received, whatever came late, twice or out of order.
SeriesIsAge ==
    rcvd # <<>> =>
        LET ts == AoiTs(rcvd)
        IN  \A t \in First .. TMax - 1 :
                LET e == ts[Max({i \in 1 .. Len(ts) : ts[i].t <= t})]
                IN  e.age + t - e.t = Age(t)

\* The average is the mean of the age over the time from the first reception
\* to T_MAX: stale packets and the entry added at the end do not change it.
AverageIsMeanAge ==
    rcvd # <<>> =>
        LET ts == AoiTs(rcvd)
        IN  /\ TotalTime(ts) = TMax - First
            /\ TwiceArea(ts) =
                   MapThenSumSet(LAMBDA t : 2 * Age(t) + 1, First .. TMax - 1)

\* A bin counts the instants at which the age is what the bin ends with:
\* each rise of the age is entered once and no drop is.
HistogramCountsDwell ==
    rcvd # <<>> =>
        \A b \in BinEnds :
            Bins(AoiTs(rcvd))[b] =
                Cardinality({t \in First .. TMax - 1 : Age(t) = b})

\* The inner peaks of a whole series are the ages just before a fresher packet
\* arrives, and the age at the end.
PeaksPrecedeDrops ==
    rcvd # <<>> =>
        LET ts == AoiTs(rcvd)
        IN  {<<ts[i].t, ts[i].age>> : i \in InnerPeaks(ts)} =
                {<<t, Age(t - 1) + 1>> :
                    t \in {x \in First + 1 .. TMax - 1 :
                              Freshest(x) > Freshest(x - 1)} \cup {TMax}}

\* The sections split the samples: those with the nodes close lie in exactly
\* one section, the others in none; and each section reaches from the age at
\* its start to the age at its end.
SectionsCutTheSeries ==
    rcvd # <<>> =>
        LET c == CourseFrom(First)
            sections == Sections(rcvd)
            Spans(s, t) == s[1].t <= t /\ t <= Last(s).t
        IN  /\ \A i \in 1 .. Len(c) :
                   Cardinality({k \in 1 .. Len(sections) :
                                   Spans(sections[k], c[i].t)}) =
                       IF Close(c[i]) THEN 1 ELSE 0
            /\ \A k \in 1 .. Len(sections) :
                   \A e \in {sections[k][1], Last(sections[k])} :
                       e.age = Age(e.t)

\* The peaks of a section, but for its first and last entry, are the ages just
\* before a fresher packet arrives while the nodes are close: interpolating and
\* cutting at the ends of the sections neither hides nor adds one.
SectionPeaksPrecedeDrops ==
    rcvd # <<>> =>
        LET sections == Sections(rcvd)
        IN  \A k \in 1 .. Len(sections) :
                LET s == sections[k]
                IN  {<<s[i].t, s[i].age>> : i \in InnerPeaks(s)} =
                        {<<t, Age(t - 1) + 1>> :
                            t \in {x \in s[1].t + 1 .. Last(s).t :
                                      Freshest(x) > Freshest(x - 1)}}

\* The histogram of a section counts the instants at which the age is what a
\* bin ends with, but only up to the last but one entry: a section ends with a
\* rise, not with a drop as the whole series does, and that rise is left out.
SectionHistogramStopsShort ==
    rcvd # <<>> =>
        LET sections == Sections(rcvd)
        IN  \A k \in 1 .. Len(sections), b \in BinEnds :
                LET s == sections[k]
                IN  Bins(s)[b] =
                        Cardinality({t \in s[1].t .. s[Len(s) - 1].t - 1 :
                                        Age(t) = b})

=============================================================================
