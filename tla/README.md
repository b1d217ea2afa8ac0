# Verification of the spotlight flooding simulator

TLA+ models, TLC runs and TLAPS proofs for the flooding protocols that this
repository adds to ns-3.36: `src/ns-3.36/src/applications/model/*flooding*`,
the scenarios `src/ns-3.36/scratch/spot-light-flooding-*.cc`, the campaigns
that run them on a cluster (`src/ns-3.36/run_*_experiment.py`, `s_run_*.sh`)
and the analysis of their logs (`src/ns-3.36/analysis_scripts`). Aircraft (or
any moving nodes) broadcast their positions; relays re-broadcast them so that
nodes out of radio range hear of each other; control packets are steered
towards ground stations.

## The system

| Component | State | Operations | Interacts with |
|---|---|---|---|
| Spotlight flooding, `SLFFloodingApp` | sequence and control counters; lists of seen, twice-seen and duplicate packet ids; per source the last packet, last release and last reception; statistics | `StartApplication`, `StopApplication`, `Send`, `Forward`, `HandleRead`, `ResetStats` | schedules `Send` and `Forward`; sends and receives on a UDP broadcast socket; reads positions; fires trace callbacks |
| Rate-decay flooding, `RateDecayFloodingApp` | the same without control counters and duplicate list | the same | the same, no destinations |
| Contention-based flooding, `ContentionBasedFloodingApp` | seen and twice-seen lists | the same without statistics | one callback per packet, carrying the packet |
| Pure flooding, `PureFloodingApp` | seen list, hop limit, probability | the same | own header `PureFloodingHeader` |
| Flooding header | source, destination, hops, last hop, positions, time stamp, sequence numbers | `Serialize`, `Deserialize` | truncates positions to whole metres |
| Scheduler, `DefaultSimulatorImpl` | event list, clock | `Schedule`, `ProcessOneEvent`, `Run`, `Stop` | runs every handler above |
| Radio channel, `YansWifiChannel` | frames on their way | `Send`, `Receive` | delivers a frame to each node in range on its own |
| Mobility | position per node | `GetPosition` | read by `Send` and `HandleRead` |
| UDP socket, application life cycle | open, closed or absent | open, close | a closed socket refuses packets |
| Scenario programs | start times, sets of control numbers, KPIs | start, reset at 5 s, stop, `GetKPIs` | trace sinks and getters of the applications |
| Experiment campaign, `run_detailed_rdf_experiment.py`, `run_rdf_experiment.py`, `s_run_*.sh` | per combination of parameters: KPI log, event log, loss rates, summary, as files | a job: test for a summary, simulate, analyse, write the summary | starts the simulator, `parse_detailed_results_v2.py`, `parse_results_v4.py`; jobs share the files alone |
| Age of information analysis, `parse_results_v3.py` | none: a function of two logs | series, average, histogram, peaks, sections | reads the logs of a simulation |
| Factories, other scripts, rest of ns-3 | none of interest | - | - |

The simulator is single-threaded, and still every interleaving matters: the
order of events is decided by random start times, contention delays, jitter,
positions and loss. What is hard to get right, and to test:

* *Callbacks and the packet they send are not the same thing.* A `Forward`
  callback carries a packet id and looks that id up in the suppression lists,
  but transmits `packetsToForward[src]`, the last packet stored of the source.
* *Marking is late in the large-gain branch.* There a packet is entered in the
  lists when it is forwarded, not when it is heard.
* *Rate decay is a chain of times*: every packet takes its turn after the
  previous one's, also when packets bunch, arrive out of order or are
  suppressed in the meantime.
* *Copies come back*: a node hears its own packets from its relays.
* *Statistics are reset and nodes stop in mid-run*, with callbacks under way.
* *Loss and movement* make relays disagree about what was sent and where from.
* *Jobs of a campaign run concurrently and are killed.* They share files
  without locks, ignore return codes, and take the mere existence of a summary
  for a finished combination. Two that write one file at a time each write from
  the start, one over the other.
* *Logs are irregular.* Packets come late, twice and out of order, and the age
  of information must be right all the same.

What makes each component correct:

* applications: no empty buffer entry is sent, each packet goes out at most
  once per branch, updates of a source go out at a bounded rate, a node never
  takes itself for another one, all copies of a packet agree, ground stations
  are silent, nothing is heard of that was not sent by a node linked through
  knowing nodes; a control packet arrives at its station where relays lead
  there; statistics are consistent with each other;
* header: what identifies a packet and its origin survives every relay;
* scheduler: no event in the past;
* scenario: P_D and the delivery ratio are ratios (at most 1);
* campaign: every combination gets a summary, of its own simulation, unless its
  job was killed or failed; a summary that cannot be read is due to a kill or to
  two jobs of one combination; what a single job leaves is exact;
* analysis: what is computed from the series is what the age, by its
  definition, would give.

## Modules

| Module | Models |
|---|---|
| `FloodingNetwork` | scheduler, channel, positions, sockets: extended by every application |
| `SpotlightFlooding` | `SLFFloodingApp`, completely, and its properties |
| `RateDecayFlooding` | `RateDecayFloodingApp`, completely, and its properties |
| `ContentionFlooding` | `ContentionBasedFloodingApp`, completely, and its properties |
| `PureFlooding` | `PureFloodingApp`, completely, and its properties |
| `NodeDiscovery` | abstract specification: how knowledge of nodes may spread |
| `SpotlightScenario` | the trace sinks of `spot-light-flooding-first.cc`, composed with `SpotlightFlooding` |
| `ExperimentCampaign` | job arrays, the two rate-decay drivers, the files and who writes them when |
| `AgeOfInformation` | `parse_results_v3.py` as operators, over a log that grows as a simulation writes it |
| `MCSpotlight`, `MCScenario`, `MCRateDecay`, `MCContention`, `MCPure`, `MCCampaign`, `MCAge` | instances for TLC |
| `SpotlightFloodingProofs` | types, and that buffers are never empty |
| `SpotlightSafetyProofs` | time, the nesting of the suppression lists, copies, control numbers, statistics, delivery ratio |
| `SpotlightRelayProofs` | circulating packets, the refinement of `NodeDiscovery`, and what callbacks transmit: once, and at a bounded rate |
| `RateDecayProofs`, `ContentionProofs`, `PureProofs`, `CampaignProofs`, `AgeProofs` | all theorems about the module in the name |

### State and actions

`FloodingNetwork` keeps the event list in three sets by what an event does:
`timers` (start, first and next `Send`, stop, reset), `air` (a frame arriving
at one node), `pending` (a `Forward` callback). `Execute(e)` is
`ProcessOneEvent`: the earliest event runs, the clock jumps to it, and nothing
runs at or after `SimTime`. Two events of one tick run in either order, since a
tick stands for many of the simulator's nanoseconds.

`Transmit` is `Socket::Send` down to the receivers: a set of nodes in range
(all of them, or any subset if `Lossy`) gets one frame each, `AirTime` later.
A closed socket drops the packet and the caller goes on. `Wire` is what
serialising keeps: the two positions in whole metres. `Move` takes a node to
any point of its `Track` between any two events, which includes everything the
random-direction model can do and more.

`SpotlightFlooding` has a variable for each member of the class (one function
from nodes per member) and these actions. Each is a whole handler, or a whole
branch of one:

| Action | Code |
|---|---|
| `StartApplication`, `StopApplication`, `ResetStats` | the methods of that name |
| `Send`, `GroundSend` | `Send` at a mobile node, at a ground station |
| `ForwardHigh`, `ForwardLow`, `ForwardNothing` | `Forward`: large gain; otherwise; suppressed |
| `HandleReadHigh` | a first sight with `a >= m_threshold` |
| `HandleReadAway` | a first sight of a position update or with `a < 0` |
| `HandleReadNear` | a first sight with `0 <= a < m_threshold` |
| `HandleReadAgain` | a packet seen before |
| `Ignore` | a frame at a node without a socket |

`fwdTrace` is the log that the scenario's trace sink writes, with the packet id
of the callback beside that of the packet sent. In `RateDecayFlooding` a
callback and a log row also carry the hop count its delay was computed from;
nothing reads it but the property `RateDecays`.

`ContentionFlooding` and `PureFlooding` have the same actions, with one
`Forward` and one first-sight action each (`HandleReadNew`). Their callbacks
carry the packet itself, not an id to look up. In the first, a callback and a
log row also carry the tick at which the packet was heard, read by the property
`RelaysYield` alone; it has no statistics, so no reset is scheduled. In the
second, `Draws` is the set of outcomes of the comparison with the forwarding
probability, and `Delays` of the random delay. Its bound is 100 ms whatever the
attribute `ForwardingJitter` says: the constructor
(`pure-flooding-application.cc:96`) reads the member before the attribute is
set.

Contention delays are rounded down to ticks, `pow(numHops + 1, m_decayFactor)`
is the table `Growth`, and distances are the table `Dist`. Only the sign and
the comparison with `m_threshold` of the gain `a` matter in `Forward`, so the
callback keeps `a >= m_threshold`. The suppression lists are sets: they are
only ever searched.

`SpotlightScenario` conjoins each action with what its trace calls do:
`OnPacketSent` with `Send`, also if the socket is closed, since `m_txTrace` is
called first; `OnPacketReceive` with the three first-sight actions. A packet
with a large gain is not marked when it is heard, so each of its copies is a
first sight and is traced.

`ExperimentCampaign` has one action per stage of a job, each up to the next
point at which another job can act:

| Action | Code |
|---|---|
| `HasNothingToDo`, `StartSimulation` | no combination or a summary already; `subprocess.run` of the simulator |
| `OpenLogs`, `FinishSimulation` | the simulator (external) empties its logs; completes them |
| `FailSimulation` | it ends without, before or after it has opened them |
| `ReadEvents`, `FailDetails`, `OpenLossRates`, `WriteLossRates` | `parse_detailed_results_v2.py`: reads the event log, or raises; `to_csv` |
| `ReadKpis`, `ReadNoKpis`, `ReadLossRates` | `parse_results_v4.py`: reads the KPIs, or raises; reads the loss rates, or has -1 |
| `OpenSummary`, `WriteSummary` | `open(..., 'w')`; the text, when the file is closed |
| `Kill` | the time limit, at any of these points |

A log is absent, `Partial` (emptied, or left so), `Garbled` (two texts are mixed
in it), or the index of the combination whose complete log it is; a summary is
what it was computed from, or one of those three. Opening truncates a file
once; after that each writer writes at its own offset, whatever others do. So a
job that empties a log that another one has open garbles it (`Emptied`), a job
that ends its text on top of another text leaves just its own or a mixture
(`Written`), and a summary written over another job's may keep the tail of the
longer one: the two differ in length when one was computed with loss rates and
the other with -1. `rates` and `stats` are what a process holds in memory
between reading and writing, and `Kill` loses them; `stats` of a job that has
ended is kept for the properties.

The simulator `rate-decay-flooding` that the drivers start is not among the
programs in `scratch`. That it opens its logs anew, completes the event log and
writes the KPIs last is assumed, from how the drivers and parsers use the
files, and marked external.

Floating-point factors are integers in thousandths, and a file name has the
truncated values. The code truncates floating-point products, `int(q * 100)`;
at the steps of the drivers these give the exact quotients. `Detailed = FALSE`
is `run_rdf_experiment.py`, which has the same stages without the detailed
analysis, and loops over the factors inside the send intervals instead of
around them.

`AgeOfInformation` reads `parse_results_v3.py` as operators on a log: `AoiTs`
is `get_aoi_ts` (a fold over the rows), `TwiceArea` the trapezoid rule doubled,
`Bins` the histogram, `InnerPeaks` the peaks, `Sections` the parts of the
series during which the nodes are close. `sorted` and the selecting list
comprehensions are `SortedByTime` and `Selected`, defined by how many entries
come before each; `InterpolateAoi` inserts at the starts and ends of sections
and sorts, stably as Python does. Its division is exact wherever it is used, as
the proof shows. The actions write the log, so that
every reachable state is one more input; the properties compare with `Age`,
which is defined by the freshest packet received and not by a series.

## Runs

One tick is 1 ms (10 ms for pure flooding), one unit of length 1 dm. Send interval, jitter, threshold,
maximum distance and radio range are the scenarios' (120 ms, 10 ms, 150 m,
509 m, 509 m); nodes stand on a line, at distances that put them on both sides
of each comparison in the code.

| Run | Checks | Instance |
|---|---|---|
| `spot_corridor` | `TypeOK`, `ReleaseOnce`, `CopiesAgree`, `GroundStationsSilent`, `SuppressionNested`, `ControlDelivered` (liveness) | a control source, a relay with a small gain, two relays with large gains in range of each other, their station; copies race through the large-gain branch, no loss |
| `spot_updates` | `BufferReady`, `RelaySpacing` | position updates of three nodes with loss, one of which leaves the range of another and comes back: direct and relayed copies bunch and share buffer entries |
| `scenario_roaming` | `NeverInThePast`, `NeverCountsItself`, `SamplesWithinReceptions`, `ControlNumbering`, `DeliveryRatioAtMostOne`, `DiscoversNodes` | a relay jumps in and out of range, the source stops, statistics are reset in between; three bursts of two control packets |
| `spot_twice` | `TwiceSeenNotForwarded`, violated | two alternative relays, one starting late |
| `spot_onetime` | `ForwardOneTime`, violated | a node behind the station that hears a source first with a small, then with a large gain |
| `decay_roaming` | `TypeOK`, `RateDecays`, `HopsBounded`, `DiscoversNodes` | a node two hops away moves out of range and back, so that holds pile up; the relay stops, statistics are reset |
| `contention_fan` | `RelaysYield`, `FloodReaches` (liveness) | two relays in range of each other, of which only the farther one reaches the last node |
| `contention_roaming` | `TypeOK`, `ForwardsOnce`, `DiscoversNodes` | loss, a relay that moves past its successor, a stopped source |
| `pure_diamond` | `WithinHopLimit`, `NothingCountedTwice`, `FloodReaches` (liveness) | two paths of two hops, the limit, and a node beyond it; no loss, every draw for forwarding |
| `pure_roaming` | `TypeOK`, `StatisticsAddUp`, `DiscoversNodes` | a relay that moves, the source stops, a reset in between |
| `campaign` | `TypeOK`, `SummaryTrue`, `TornOnlyByKillOrRace`, `SoleJobExact`, `NoneForgotten` (liveness) | the detailed driver: two combinations, three arrays of one job, the first submitted twice, the last beyond the combinations; any job killed or failing |
| `age_of_information` | `SeriesIsAge`, `AverageIsMeanAge`, `HistogramCountsDwell`, `SectionsCutTheSeries`, `SectionPeaksPrecedeDrops`, `SectionHistogramStopsShort` | all logs over ten ticks: up to five receptions with delays of one to four ticks, every course of near and far |

*Bounds.* `SimTime` bounds every run, as `Simulator::Stop` does: two to three
rounds of packets (six in `scenario_roaming`, with bursts of two instead of
eight), which is enough for a callback to
be overtaken by one or two newer packets of its source, the case all of the
rules about buffers and spacing are about. Start times are fixed per instance,
to values at which the handlers interleave. `Growth` has three entries; no
instance has longer paths that relay. Air time is one tick. The delays of pure
flooding are all ten ticks of their range, but three of them (both ends and
the middle) in `pure_roaming`. The fan and the diamond run for one packet of
each source, which is what their liveness properties are about.

Two jobs of one combination are what the campaign's hazards need: one to
write and one to empty, read or be killed. Combinations that differ in the
factor alone, and by less than one, are those whose names are closest. The
second combination has a single job, which is what `SoleJobExact` is about,
beside two that race for the first. In the age run delays exceed the time between receptions, so that packets overtake
each other by up to two positions.

Of the detailed driver `TornOnlyByKillOrRace` cannot be made stronger by
leaving out the race: two jobs of one combination that are both between opening and
closing the summary, one of which found loss rates and the other none, leave an
unreadable file although nobody writes any more and nobody was killed. With the
plain driver there are no loss rates, the two texts are the same, and the second
one covers the first: that is `TornOnlyByKill`, which is proved. No run has the
plain driver.

The section properties say what the sections do to peaks and histogram.
`get_peaks` is called on sections only (`parse_results_v3.py:307`), with the
first and the last entry as further peaks; in between they are exactly the ages
before fresher packets. The histogram of a section (`:309`-`:315`) is built for
a series that ends with a drop, and a section ends with a rise:
`SectionHistogramStopsShort` says that the instants of that last rise are not
counted.

What the two `FloodReaches` leave out is as telling as what they show. In
contention-based flooding a packet reaches everyone only where the relay that
is farthest from the origin covers what the relays it silences would have
covered, and where `MaxDistance` is at least the range: the clamp at
`contention-based-flooding-application.cc:236` answers a negative scale with
the longest delay. With `MaxDistance = 4400` the same instance has a run in
which the last node hears nothing. In pure flooding a node within the hop
limit is reached for certain only if no path bypasses a shorter one: where one
does, the copy with more hops may come first, is stopped by the limit, and
marks the packet as seen.

*Deadlock* is not checked: a run really ends when `SimTime` is reached, a
campaign when all jobs have ended, a log when the simulation has.

*Fairness.* The liveness runs `spot_corridor`, `contention_fan` and
`pure_diamond` assume weak fairness of `Next`, because `Simulator::Run`
processes events for as long as there is one. No fairness is assumed of
delivery; the instances have no loss and no movement. `campaign` assumes weak
fairness of each job's `Progress`: the cluster starts every job it has queued,
and a process that is not killed goes on. Nothing is assumed of `Kill` and
`FailSimulation`.

Each property has a mutant in `PROJECT.json`: an alternative definition,
written beside the original, with a bug of the kind one makes in that code
(a lost test, a wrong key, a missing reset or clamp), under which TLC finds
the property violated.

### Disagreements with the comments

* `spot_twice`: the comments at
  `spot-light-flooding-application.cc:235` and `:252` say that a packet is
  forwarded if it is "not seen in twice seen". The id that is looked up is the
  callback's, but the packet sent is the newest of that source (`:204`): a
  callback that the rate decay has held back sends a newer packet that the
  node has heard twice.
* `spot_onetime`: the comment at `spot-light-flooding-application.cc:224` says that the lists are extended
  "to allow every node to forward the packet one time". An older callback of
  the same source transmits the packet again: only its own id is looked up.

## Proofs

For every finite or infinite set of nodes, every placement and movement, every
value of the attributes (within the named assumptions: natural numbers, a
positive interval, distances from a table, `Absent` and `NoPacket` outside the
values they mark):

| Theorem | States |
|---|---|
| `TypeCorrect`, `RateDecayTypeCorrect`, `ContentionTypeCorrect`, `PureTypeCorrect`, `CampaignTypeCorrect` | `Spec => []TypeOK` of the five state machines |
| `BuffersReady` | `Spec => []BufferReady` |
| `NoPastEvents` | `Spec => []NeverInThePast` |
| `SuppressionStays` | `Spec => []SuppressionNested` |
| `CopiesDoAgree` | `Spec => []CopiesAgree`, if truncating a position twice is truncating it once |
| `ControlNumbersHold` | `Spec => []ControlNumbering` |
| `SamplesAreReceptions` | `Spec => []SamplesWithinReceptions` |
| `DeliveryRatioHolds` | `ScenarioSpec => []DeliveryRatioAtMostOne`, if the reporting node is node 0 and the sink the first ground station and no other |
| `GroundStationsAreSilent` | `Spec => []GroundStationsSilent` |
| `NobodyCountsItself` | `Spec => []NeverCountsItself` |
| `ImplementsDiscovery`, `RateDecayImplementsDiscovery`, `ContentionImplementsDiscovery`, `PureImplementsDiscovery` | `Spec => DiscoversNodes`: each application refines `NodeDiscovery` |
| `ReleasedOnce` | `Spec => []ReleaseOnce` |
| `UpdatesSpaced` | `Spec => []RelaySpacing` |
| `RateDoesDecay` | `Spec => []RateDecays` |
| `HopsAreBounded` | `Spec => []HopsBounded`, for a finite network |
| `ForwardedOnce` | `Spec => []ForwardsOnce` |
| `RelaysHaveYielded` | `Spec => []RelaysYield` |
| `StatisticsDoAddUp` | `Spec => []StatisticsAddUp` |
| `NothingIsCountedTwice` | `Spec => []NothingCountedTwice` |
| `HopLimitHolds` | `Spec => []WithinHopLimit`: the shortest path is within the limit, for any number of nodes |
| `SummariesTrue` | `Spec => []SummaryTrue`, if the file names differ |
| `TornSummaries` | `Spec => []TornOnlyByKillOrRace` |
| `PlainTornSummaries` | `Spec => []TornOnlyByKill`, for the plain driver, if the file names differ |
| `SoleJobsAreExact` | `Spec => []SoleJobExact`, if the file names differ |
| `AgeInvariant` | `Spec => [](LogInv /\ SeriesInv)`: the shape of a log and of its series |
| `SeriesAgrees` | `Spec => []SeriesIsAge`, for logs of any length |
| `AverageAgrees` | `Spec => []AverageIsMeanAge` |
| `HistogramAgrees` | `Spec => []HistogramCountsDwell` |
| `PeaksAgree` | `Spec => []PeaksPrecedeDrops`: the peaks of a series before it is cut into sections |
| `SectionsAgree` | `Spec => []SectionsCutTheSeries`, for any course |

The arguments:

* `TypeInv` is `TypeOK` with `BufferInv`. `BufferReady` by itself is not
  inductive: a new callback takes its destination from the frame, and the
  stored packet is replaced by later ones. `BufferInv` says that every
  circulating packet has the destination of its source, `DestOf`, and that an
  entry once filled keeps a packet of its source.
* `CirculationInv` says of each frame and each stored packet that its sequence
  number was used by its source, that the node that transmits it knows the
  source, and that receivers are linked to the transmitter; and that a node
  has all its own packets on its list. Silence of the stations, self-counting
  and the refinement are consequences: under the mapping `Known` a first
  `Send` is `Announce`, a first reception is `Discover`, all else stutters.
  The other three applications have an `IInv` of the same shape each.
* `OnceInv`: with a large gain, a transmission is on the duplicate list, where
  the next callback finds it; otherwise the packet was marked when its only
  callback was scheduled.
* `SpacingInv`: already the callbacks are spaced, against each other and
  against the log, and none is due later than `lastForwarded` plus the longest
  contention delay; a new one is due a `Spacing` after that. `RateDecays` has
  the same argument, with a spacing that depends on the hops of each.
* Copies of a packet agree because all of them carry what the first one
  carried: the invariant also covers stored packets, and bounds the sequence
  numbers in circulation by the source's next one, so that a new packet
  has no copies yet.
* `SinkInv`: every copy destined for the sink bears a control number that has
  been sent. With one node per container node 0 alone has the first station as
  destination, and only a `Send` puts another number into circulation.
* `HopInv`: the nodes that have a packet on their list are more than the hops
  of any copy. A first sight adds the node to the list and a hop to the copy.
  A stored packet may be replaced by another one of its source in between,
  which then has its own list.
* `YieldInv`: after a transmission each node always in range has the frame on
  its way, or has it as a further copy and forwards no more, or had not heard
  the packet by then.
  It needs the times: nothing is due in the past, an application starts once.
* `CountInv`: the counter of receptions is at most the number of others'
  packets on the list; both grow in one step, and a reset makes the former
  smaller.
* `SummaryTrue` follows from what the names do: a finished log bears a name of
  its combination (`LogsNamed`), a job that writes has read a log of its own
  name (`StatsNamed`), so a summary is of a combination of that name. Two
  combinations of one name would share everything, hence `NamesDiffer`, which
  is a condition on the parameters; TLC's instance satisfies it, and
  the mutant does not.
* `TornOnlyByKillOrRace` needs to know what a readable summary is: the text of
  a job that has ended (`SummariesWritten`). When another job's text is then
  mixed with it, the two jobs with different texts are the writer and that one
  (`GarbledExplained`), and neither forgets what it wrote. `TornExplained` has
  the empty summaries. Of the plain driver, `PlainInv` says that there are no
  loss rates to be computed from, so texts of one name are the same and no
  summary is garbled.
* `SoleJobExact`: `SoleInv` gives, for a job with files of its own, what each of
  them holds at each of its steps (`InOrder`). Steps of the job itself are
  followed through the order of its stages; steps of the others change other
  files and none of its memory (`StepOf`).
* `TravelInv`: the receiver of a copy with h hops is within h + 1 links of its
  source, a relay that holds one within h, and the limit exceeds h. `Hops`
  is a recursive function; what it is for every k (the ends of walks of at most
  k links, `Walk`) comes from the lemma `Induction`, which is stated over a set of numbers instead of a predicate and
  follows from the well-foundedness of `<`.
* The same lemma makes the folds of `AgeOfInformation` tractable: that the
  function exists which `FoldLeft` or `MapThenSumSet` chooses is shown by
  induction on the length or size (`FoldExists`, `SumExists`), and then it can
  be unfolded one step at a time (`BuiltDef`, `SumSteps`).
* `SeriesInv`: the series only rises with time and drops at once after a rise
  (`Shaped`), and from each entry to the next it has the age of the freshest
  packet (`IsFresh`). The property alone is not inductive: what `Extend` does
  depends on the last entry and on a rise before each drop. `SeriesClosed` adds
  the entry at `TMax`.
* The histogram: each rise that contains the end of a bin contains one instant
  of that age, and every instant of that age lies in one such rise
  (`DwellBijection`). The peaks: an entry is a peak iff the next one is a drop,
  and drops are where the freshest packet changes. The average: a sum does not
  depend on the order of its terms, and a trapezoid under a rise is the sum of
  its ticks (`StripIsSum`).
* The sections: the rank of an element is the number of those before it, so
  ranks list a set in order (`InOrderLists`). `StartsAndEnds`, by induction
  along the course: up to any sample as many sections have ended as have
  started, but for the one the sample is in. Hence starts and ends pair up
  although the code collects them in two loops and pairs them by position, and
  section k spans exactly the samples with `Under(EndsAt) < k <=
  Under(StartsAt)`. At its end a section has the last of the entries of that
  time: the interpolated one, or the series' own after a drop
  (`SectionReaches`).

All invariants were checked with TLC on the same instances before they were
proved. Each safety property of the runs that pass is proved, but for two.
*Only model-checked*: those two, `SectionPeaksPrecedeDrops` and
`SectionHistogramStopsShort`, and liveness (`ControlDelivered`, the two
`FloodReaches`, `NoneForgotten`), which is beyond the prover. What the
theorems about `AgeOfInformation` say is subject to its log: time in whole ticks,
one reception at a time (a receiver decodes one frame at a time), none at the
instant of a position sample, and none at or after `TMax`.

## Not modelled

* Radio propagation, interference, 802.11, IP and UDP addressing: replaced by
  range, loss and air time. The mobility model's speeds: replaced by arbitrary
  movement on a track.
* Of the headers, byte order and the width of words. All words are written and
  read back in the same order at the width they are kept in, and 32-bit counters
  would wrap after years; only positions change, which is `Wire`.
* Of the scenario programs, placement, radio parameters, CSV output, and the
  KPIs that are plain quotients. `P_EX` is announced as a share of delays above
  500 ms in a comment (`spot-light-flooding-first.cc:172`), while the
  application counts as late what exceeds `m_aoiThreshold`, 735 ms by default:
  the models have the latter. The second scenario has more nodes and three
  stations, and its delivery ratio is commented out.
* The factories in `flooding-helper`: they have no state of their own.
* The drivers and parsers for other protocols and sweeps. They have the shape of
  the modelled ones, mostly without the test for an existing summary, so that
  less can go wrong. What differs is listed among the hazards: names that
  collide at half-millisecond intervals (`run_collision_experiment.py:9`, `:37`),
  a driver that uses another one's names (`run_slf_experiment.py:49`), an array
  that is one longer than its combinations (`s_run_cbf.sh:7`).
* Of `parse_results_v3.py`, the sums over pairs of nodes and the percentiles of
  what is computed per section, the sections by hop count (nothing calls them), the
  counts per user and sequence number, the percentile of the histogram, and the
  dissemination rate, which is a quotient of counts of rows; of
  `parse_detailed_results_v2.py`, how a reception rate is computed. Plot scripts.
* The rest of ns-3: vendored. By far most of the repository's Python is part of
  it: generated bindings (`bindings/modulegen__gcc_*.py`), `get-pip.py`, waf and
  documentation tools. None of it is this program's logic, nor runs with it, so
  the models stand for a small share of the repository's lines by design.

## Plan

All components with logic of this repository's own are modelled, and their
safety properties proved but for the two of single sections. What would add to
it, in this order:

1. A freshness specification: which packet of a source a node may learn next
   and how old it may be, as a refinement between `NodeDiscovery` and the
   applications.
2. Proofs of the two section properties: how the peaks and bins of the whole
   series carry over to a section, whose first and last entry may be
   interpolated.
3. A campaign of two programs that share one name space.
