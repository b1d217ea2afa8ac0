---------------------------- MODULE CampaignProofs ----------------------------
(***************************************************************************)
(* Theorems about ExperimentCampaign, for any parameters, any arrays and   *)
(* any number of submissions of them: a summary bears the name of what it  *)
(* is a summary of, only a killed job or a race leaves one torn, and a job *)
(* that nothing befalls has an exact one.                                  *)
(***************************************************************************)
EXTENDS ExperimentCampaign, TLAPS

\* A job that runs has a combination.
RunningHaveCombos ==
    \A j \in Job : step[j] \in Running => Index(j) \in Combo

\* A KPI log that is finished is one of a combination of its name.
LogsNamed ==
    \A f \in Name : kpi[f] \in Combo => FileName(kpi[f]) = f

\* A job that is past the KPIs has read them.
StatsRead ==
    \A j \in Job :
        step[j] \in {"reading", "opening", "writing"} => stats[j] \in Stats

\* What a job has read is a log of the name of its own files.
StatsNamed ==
    \A j \in Job :
        stats[j] \in Stats =>
            Index(j) \in Combo /\ FileName(stats[j].kpi) = File(j)

\* A job that is killed does not go on.
LostEnded ==
    \A j \in Job : step[j] # "ended" => lost[j] \in {"none"} \cup Simulating

\* A summary that somebody writes is a file.
SummaryThere ==
    \A j \in Job : step[j] = "writing" => summary[File(j)] # NoFile

\* Somebody writes an empty summary, or was killed when he did.
TornExplained ==
    \A f \in Name :
        summary[f] = Partial => \E j \in Job : WritesOrKilled(j, f)

\* A summary that is finished is what some job has written.
SummariesWritten ==
    \A f \in Name :
        summary[f] \in Stats =>
            \E j \in Job : HasWritten(j, f) /\ stats[j] = summary[f]

\* Two jobs have written a garbled summary.
GarbledExplained ==
    \A f \in Name :
        summary[f] = Garbled =>
            \E j, k \in Job :
                /\ j # k /\ HasWritten(j, f) /\ HasWritten(k, f)
                /\ ~SameText(stats[j], stats[k])

IInv ==
    /\ TypeOK
    /\ RunningHaveCombos
    /\ LogsNamed
    /\ StatsRead
    /\ StatsNamed
    /\ LostEnded
    /\ SummaryThere
    /\ TornExplained
    /\ SummariesWritten
    /\ GarbledExplained

\* The plain driver computes no loss rates.
PlainInv ==
    /\ \A j \in Job : step[j] \notin Detailing
    /\ \A f \in Name : lossRate[f] = NoFile
    /\ \A j \in Job : stats[j] \in Stats => stats[j].loss = NoFile

\* No other job has the files of job j.
Sole(j) ==
    /\ Index(j) \in Combo
    /\ \A k \in Job \ {j} : Index(k) \in Combo => File(k) # File(j)

\* What may be in a summary of combination i.
Exact(i) == [kpi : {i}, loss : {NoFile, i}]

\* The files of job j at each of its steps.
InOrder(j) ==
    /\ step[j] \in {"queued", "detailing", "rated"} \cup Simulating =>
           lossRate[File(j)] = NoFile
    /\ step[j] = "queued" => summary[File(j)] = NoFile
    /\ step[j] = "simulating" /\ Detailed => events[File(j)] = Partial
    /\ step[j] = "detailing" => events[File(j)] = Index(j)
    /\ step[j] \in {"rated", "rating"} => rates[j] = Index(j)
    /\ step[j] = "rating" => lossRate[File(j)] = Partial
    /\ step[j] \in Detailing \cup {"parsing"} => kpi[File(j)] = Index(j)
    /\ step[j] \in {"parsing", "reading"} =>
           lossRate[File(j)] \in {NoFile, Index(j)}
    /\ step[j] \in {"reading", "opening", "writing"} =>
           stats[j] \in Exact(Index(j))
    /\ step[j] = "writing" => summary[File(j)] = Partial
    /\ step[j] = "ended" => summary[File(j)] \in Exact(Index(j))

SoleInv ==
    \A j \in Job : Sole(j) /\ lost[j] = "none" => InOrder(j)

\* Only job j and its files take the step.
StepOf(j) ==
    /\ \A k \in Job \ {j} : /\ step'[k] = step[k] /\ lost'[k] = lost[k]
                            /\ stats'[k] = stats[k] /\ rates'[k] = rates[k]
    /\ \A f \in Name :
           ~(Index(j) \in Combo /\ File(j) = f) =>
               /\ kpi'[f] = kpi[f] /\ events'[f] = events[f]
               /\ lossRate'[f] = lossRate[f] /\ summary'[f] = summary[f]

-----------------------------------------------------------------------------
\* The files of a job that has a combination bear a name of the campaign.
LEMMA FileIsName ==
    ASSUME NEW j, Index(j) \in Combo
    PROVE  File(j) \in Name
BY DEF File, Name

\* What is left of a log is a log.
LEMMA LogsStay ==
    /\ \A j, s : Emptied(j, s) \in Log
    /\ \A old, text, log :
           text \in {NoFile, Garbled} \cup Combo /\ log \in Written(old, text)
           => log \in Log
    /\ \A log \in Log : LossOf(log) \subseteq {NoFile, Garbled} \cup Combo
BY DEF Emptied, Written, LossOf, Log

\* No job has begun and no file is there.
LEMMA InitIInv == Init => IInv
<1> SUFFICES ASSUME Init PROVE IInv
    OBVIOUS
<1>1. TypeOK
    BY DEF Init, TypeOK, Step, Log
<1>2. RunningHaveCombos /\ StatsRead /\ LostEnded
    BY DEF Init, RunningHaveCombos, StatsRead, LostEnded, Running, Simulating,
       Detailing, Parsing
<1>3. LogsNamed /\ StatsNamed
    BY FilesAssumption DEF Init, LogsNamed, StatsNamed
<1>4. SummaryThere
    BY DEF Init, SummaryThere
<1>5. TornExplained /\ SummariesWritten /\ GarbledExplained
    BY FilesAssumption
    DEF Init, TornExplained, SummariesWritten, GarbledExplained
<1> QED BY <1>1, <1>2, <1>3, <1>4, <1>5 DEF IInv

\* One or the other thing that job j does or suffers.
Acts(j) == Progress(j) \/ FailSimulation(j) \/ Kill(j)

\* Steps have the names of the steps of the code.
LEMMA StepNames ==
    /\ Step = {"queued", "ended", "starting", "simulating", "detailing",
               "rated", "rating", "parsing", "reading", "opening", "writing"}
    /\ Running = Step \ {"queued", "ended"}
    /\ AfterSimulation \in {"detailing", "parsing"}
BY DEF Step, Running, Simulating, Detailing, Parsing, AfterSimulation

\* Whatever job j does, it does to itself and its own files, and to files only
\* if it has a combination.
LEMMA OneJobSteps ==
    ASSUME TypeOK, RunningHaveCombos, NEW j \in Job, Acts(j)
    PROVE  /\ step[j] # "ended" /\ StepOf(j)
           /\ step[j] # "queued" => Index(j) \in Combo /\ File(j) \in Name
<1>t. /\ step \in [Job -> Step] /\ kpi \in [Name -> Log]
      /\ events \in [Name -> Log] /\ lossRate \in [Name -> Log]
      /\ rates \in [Job -> {NoFile, Garbled} \cup Combo]
      /\ stats \in [Job -> Stats \cup {NoFile}]
      /\ summary \in [Name -> Stats \cup {NoFile, Partial, Garbled}]
      /\ lost \in [Job -> Step \cup {"none"}]
    BY DEF TypeOK
<1>1. step[j] # "ended"
    BY StepNames DEF Acts, Progress, HasNothingToDo, StartSimulation, OpenLogs,
       FinishSimulation, ReadEvents, FailDetails, OpenLossRates,
       WriteLossRates, ReadKpis, ReadNoKpis, ReadLossRates, OpenSummary,
       WriteSummary, FailSimulation, Kill, Simulating
<1>2. step[j] # "queued" => Index(j) \in Combo /\ File(j) \in Name
    BY <1>1, <1>t, StepNames, FileIsName DEF RunningHaveCombos
<1>3. CASE step[j] = "queued"
    BY <1>3, <1>t, StepNames
    DEF Acts, Progress, HasNothingToDo, StartSimulation, OpenLogs,
       FinishSimulation, ReadEvents, FailDetails, OpenLossRates,
       WriteLossRates, ReadKpis, ReadNoKpis, ReadLossRates, OpenSummary,
       WriteSummary, FailSimulation, Kill, Simulating, Enter, StepOf
<1>4. CASE step[j] # "queued"
    <2> USE DEF StepOf, Enter
    <2>1. Index(j) \in Combo /\ File(j) \in Name
        BY <1>2, <1>4
    <2>2. OpenLogs(j) => StepOf(j)
        BY <1>t, <2>1 DEF OpenLogs
    <2>3. FinishSimulation(j) => StepOf(j)
        BY <1>t, <2>1 DEF FinishSimulation
    <2>4. FailSimulation(j) \/ Kill(j) \/ FailDetails(j) \/ ReadNoKpis(j)
              => StepOf(j)
        BY <1>t DEF FailSimulation, Kill, FailDetails, ReadNoKpis
    <2>5. ReadEvents(j) => StepOf(j)
        BY <1>t DEF ReadEvents
    <2>6. OpenLossRates(j) \/ WriteLossRates(j) => StepOf(j)
        BY <1>t, <2>1 DEF OpenLossRates, WriteLossRates
    <2>7. ReadKpis(j) => StepOf(j)
        BY <1>t DEF ReadKpis
    <2>8. ReadLossRates(j) => StepOf(j)
        BY <1>t DEF ReadLossRates
    <2>9. OpenSummary(j) \/ WriteSummary(j) => StepOf(j)
        BY <1>t, <2>1 DEF OpenSummary, WriteSummary
    <2>10. ~HasNothingToDo(j) /\ ~StartSimulation(j)
        BY <1>4 DEF HasNothingToDo, StartSimulation
    <2> HIDE DEF StepOf
    <2>11. StepOf(j)
        BY <2>2, <2>3, <2>4, <2>5, <2>6, <2>7, <2>8, <2>9, <2>10
        DEF Acts, Progress
    <2> QED BY <2>11, <1>1, <1>2
<1> QED BY <1>1, <1>2, <1>3, <1>4

\* Every step keeps the types.
LEMMA TypeStep ==
    ASSUME TypeOK, RunningHaveCombos, StatsRead, NEW j \in Job, Acts(j)
    PROVE  TypeOK'
<1> USE StepNames DEF TypeOK
<1>0. step[j] # "queued" => Index(j) \in Combo /\ File(j) \in Name
    BY OneJobSteps
<1>1. HasNothingToDo(j) \/ StartSimulation(j) => TypeOK'
    BY DEF HasNothingToDo, StartSimulation, Enter
<1>2. OpenLogs(j) => TypeOK'
    <2> SUFFICES ASSUME OpenLogs(j) PROVE TypeOK'
        OBVIOUS
    <2>1. Emptied(j, "simulating") \in Log /\ Partial \in Log
        BY LogsStay DEF Log
    <2> HIDE DEF Emptied
    <2>2. kpi' \in [Name -> Log] /\ events' \in [Name -> Log]
        BY <2>1 DEF OpenLogs
    <2> QED BY <2>2 DEF OpenLogs, Enter
<1>3. FinishSimulation(j) => TypeOK'
    <2> SUFFICES ASSUME FinishSimulation(j) PROVE TypeOK'
        OBVIOUS
    <2>1. Index(j) \in Combo /\ Index(j) \in Log
        BY <1>0 DEF FinishSimulation, Log
    <2>2. kpi' \in [Name -> Log]
        BY <2>1 DEF FinishSimulation
    <2>3. PICK log \in IF Detailed THEN Written(events[File(j)], Index(j))
                      ELSE {events[File(j)]} :
              events' = [events EXCEPT ![File(j)] = log]
        BY DEF FinishSimulation
    <2>4. log \in Log
        BY <1>0, <2>1, <2>3, LogsStay DEF FinishSimulation
    <2>5. events' \in [Name -> Log]
        BY <2>3, <2>4
    <2> QED BY <2>2, <2>5 DEF FinishSimulation, Enter
<1>4. FailSimulation(j) => TypeOK'
    BY DEF FailSimulation, Enter
<1>5. ReadEvents(j) => TypeOK'
    BY DEF ReadEvents, Enter
<1>6. FailDetails(j) \/ ReadNoKpis(j) => TypeOK'
    BY DEF FailDetails, ReadNoKpis, Enter
<1>7. OpenLossRates(j) => TypeOK'
    <2> SUFFICES ASSUME OpenLossRates(j) PROVE TypeOK'
        OBVIOUS
    <2>1. Emptied(j, "rating") \in Log
        BY LogsStay
    <2> HIDE DEF Emptied
    <2>2. lossRate' \in [Name -> Log]
        BY <2>1 DEF OpenLossRates
    <2> QED BY <2>2 DEF OpenLossRates, Enter
<1>8. WriteLossRates(j) => TypeOK'
    <2> SUFFICES ASSUME WriteLossRates(j) PROVE TypeOK'
        OBVIOUS
    <2>1. PICK log \in Written(lossRate[File(j)], rates[j]) :
              lossRate' = [lossRate EXCEPT ![File(j)] = log]
        BY DEF WriteLossRates
    <2>2. log \in Log
        BY <2>1, LogsStay
    <2> QED BY <2>1, <2>2 DEF WriteLossRates, Enter
<1>9. ReadKpis(j) => TypeOK'
    BY DEF ReadKpis, Enter, Stats
<1>10. ReadLossRates(j) => TypeOK'
    <2> SUFFICES ASSUME ReadLossRates(j) PROVE TypeOK'
        OBVIOUS
    <2>1. stats[j] \in Stats /\ lossRate[File(j)] \in Log
        BY <1>0 DEF ReadLossRates, StatsRead
    <2>2. PICK log \in {NoFile, Garbled} \cup Combo :
              stats' = [stats EXCEPT ![j] = [kpi |-> @.kpi, loss |-> log]]
        BY <2>1, LogsStay DEF ReadLossRates
    <2>3. [kpi |-> stats[j].kpi, loss |-> log] \in Stats
        BY <2>1, <2>2 DEF Stats
    <2>4. stats' \in [Job -> Stats \cup {NoFile}]
        BY <2>2, <2>3
    <2> QED BY <2>4 DEF ReadLossRates, Enter
<1>11. OpenSummary(j) => TypeOK'
    BY DEF OpenSummary, Enter
<1>12. WriteSummary(j) => TypeOK'
    BY <1>0 DEF WriteSummary, StatsRead, Enter
<1>13. Kill(j) => TypeOK'
    BY DEF Kill, Enter
<1> QED BY <1>1, <1>2, <1>3, <1>4, <1>5, <1>6, <1>7, <1>8, <1>9, <1>10, <1>11,
           <1>12, <1>13
        DEF Acts, Progress

\* What others have written stays written, whatever job j does next.
LEMMA WrittenStays ==
    ASSUME NEW j \in Job, step[j] # "ended", StepOf(j),
           NEW k \in Job, NEW f, HasWritten(k, f)
    PROVE  k # j /\ HasWritten(k, f)' /\ stats'[k] = stats[k]
<1>1. k # j
    BY DEF HasWritten
<1> QED BY <1>1 DEF StepOf, HasWritten, File, Index, Combo

\* A step of job j that leaves the summaries alone.
LEMMA QuietStep ==
    ASSUME IInv, NEW j \in Job, step[j] # "ended", StepOf(j),
           UNCHANGED summary,
           step[j] = "writing" => lost'[j] = "writing"
    PROVE  TornExplained' /\ SummariesWritten' /\ GarbledExplained'
<1>1. TornExplained'
    <2> SUFFICES ASSUME NEW f \in Name, summary[f] = Partial
                 PROVE  \E k \in Job : WritesOrKilled(k, f)'
        BY DEF TornExplained, Name, Combo
    <2>1. PICK k \in Job : WritesOrKilled(k, f)
        BY DEF IInv, TornExplained
    <2>2. CASE k # j
        BY <2>1, <2>2 DEF StepOf, WritesOrKilled, File, Index, Combo
    <2>3. CASE k = j
        <3>1. step[j] = "writing"
            BY <2>1, <2>3
            DEF IInv, LostEnded, WritesOrKilled, Simulating
        <3> QED BY <2>1, <2>3, <3>1 DEF WritesOrKilled, File, Index, Combo
    <2> QED BY <2>2, <2>3
<1>2. SummariesWritten'
    <2> SUFFICES ASSUME NEW f \in Name, summary[f] \in Stats
                 PROVE  \E k \in Job : HasWritten(k, f)'
                                       /\ stats'[k] = summary[f]
        BY DEF SummariesWritten, Name, Combo, Stats
    <2>1. PICK k \in Job : HasWritten(k, f) /\ stats[k] = summary[f]
        BY DEF IInv, SummariesWritten
    <2> QED BY <2>1, WrittenStays
<1>3. GarbledExplained'
    <2> SUFFICES ASSUME NEW f \in Name, summary[f] = Garbled
                 PROVE  \E k, l \in Job :
                            /\ k # l
                            /\ HasWritten(k, f)' /\ HasWritten(l, f)'
                            /\ ~SameText(stats'[k], stats'[l])
        BY DEF GarbledExplained, Name, Combo, SameText
    <2>1. PICK k \in Job, l \in Job :
              /\ k # l /\ HasWritten(k, f) /\ HasWritten(l, f)
              /\ ~SameText(stats[k], stats[l])
        BY DEF IInv, GarbledExplained
    <2>2. /\ HasWritten(k, f)' /\ stats'[k] = stats[k]
          /\ HasWritten(l, f)' /\ stats'[l] = stats[l]
        BY <2>1, WrittenStays
    <2> QED BY <2>1, <2>2
<1> QED BY <1>1, <1>2, <1>3

\* Opening a summary makes the job its writer.
LEMMA OpenSummaryStep ==
    ASSUME IInv, NEW j \in Job, OpenSummary(j)
    PROVE  TornExplained' /\ SummariesWritten' /\ GarbledExplained'
<1>t. /\ step \in [Job -> Step] /\ stats \in [Job -> Stats \cup {NoFile}]
      /\ summary \in [Name -> Stats \cup {NoFile, Partial, Garbled}]
    BY DEF IInv, TypeOK
<1>0. step[j] # "ended" /\ StepOf(j) /\ Index(j) \in Combo /\ File(j) \in Name
    BY OneJobSteps DEF IInv, Acts, Progress, OpenSummary
<1>1. /\ summary'[File(j)] = Partial /\ step'[j] = "writing"
      /\ \A f \in Name : f # File(j) => summary'[f] = summary[f]
    BY <1>0, <1>t DEF OpenSummary, Enter
<1>2. TornExplained'
    <2> SUFFICES ASSUME NEW f \in Name, summary'[f] = Partial
                 PROVE  \E k \in Job : WritesOrKilled(k, f)'
        BY DEF TornExplained, Name, Combo
    <2>1. CASE f = File(j)
        BY <2>1, <1>0, <1>1 DEF WritesOrKilled, File, Index, Combo
    <2>2. CASE f # File(j)
        <3>1. PICK k \in Job : WritesOrKilled(k, f)
            BY <2>2, <1>1 DEF IInv, TornExplained
        <3>2. k # j
            BY <3>1, <2>2 DEF WritesOrKilled
        <3> QED BY <3>1, <3>2, <1>0
                DEF StepOf, WritesOrKilled, File, Index, Combo
    <2> QED BY <2>1, <2>2
<1>3. SummariesWritten'
    <2> SUFFICES ASSUME NEW f \in Name, summary'[f] \in Stats
                 PROVE  \E k \in Job : HasWritten(k, f)'
                                       /\ stats'[k] = summary'[f]
        BY DEF SummariesWritten, Name, Combo, Stats
    <2>1. summary'[f] = summary[f]
        BY <1>1, FilesAssumption
    <2>2. PICK k \in Job : HasWritten(k, f) /\ stats[k] = summary[f]
        BY <2>1 DEF IInv, SummariesWritten
    <2> QED BY <2>1, <2>2, <1>0, WrittenStays
<1>4. GarbledExplained'
    <2> SUFFICES ASSUME NEW f \in Name, summary'[f] = Garbled
                 PROVE  \E k, l \in Job :
                            /\ k # l
                            /\ HasWritten(k, f)' /\ HasWritten(l, f)'
                            /\ ~SameText(stats'[k], stats'[l])
        BY DEF GarbledExplained, Name, Combo, SameText
    <2>1. summary[f] = Garbled
        BY <1>1, FilesAssumption
    <2>2. PICK k \in Job, l \in Job :
              /\ k # l /\ HasWritten(k, f) /\ HasWritten(l, f)
              /\ ~SameText(stats[k], stats[l])
        BY <2>1 DEF IInv, GarbledExplained
    <2>3. /\ HasWritten(k, f)' /\ stats'[k] = stats[k]
          /\ HasWritten(l, f)' /\ stats'[l] = stats[l]
        BY <2>2, <1>0, WrittenStays
    <2> QED BY <2>2, <2>3
<1> QED BY <1>2, <1>3, <1>4

\* Writing a summary replaces what is there, or mixes with the text of the
\* job that has written there.
LEMMA WriteSummaryStep ==
    ASSUME IInv, NEW j \in Job, WriteSummary(j)
    PROVE  TornExplained' /\ SummariesWritten' /\ GarbledExplained'
<1>t. /\ step \in [Job -> Step] /\ stats \in [Job -> Stats \cup {NoFile}]
      /\ summary \in [Name -> Stats \cup {NoFile, Partial, Garbled}]
    BY DEF IInv, TypeOK
<1>0. step[j] # "ended" /\ StepOf(j) /\ Index(j) \in Combo /\ File(j) \in Name
    BY OneJobSteps DEF IInv, Acts, Progress, WriteSummary
<1>1. /\ step'[j] = "ended" /\ stats[j] \in Stats /\ UNCHANGED <<stats, lost>>
      /\ \A f \in Name : f # File(j) => summary'[f] = summary[f]
    BY <1>0, <1>t DEF WriteSummary, Enter, IInv, StatsRead
<1>2. \/ summary'[File(j)] = stats[j]
      \/ /\ summary'[File(j)] = Garbled /\ summary[File(j)] # Partial
         /\ ~SameText(stats[j], summary[File(j)])
    BY <1>0, <1>t DEF WriteSummary
<1>3. HasWritten(j, File(j))'
    <2>1. lost[j] \notin Parsing
        BY <1>0 DEF IInv, LostEnded, Simulating, Parsing
    <2> QED BY <2>1, <1>0, <1>1 DEF HasWritten, File, Index, Combo, Stats
<1>4. TornExplained'
    <2> SUFFICES ASSUME NEW f \in Name, summary'[f] = Partial
                 PROVE  \E k \in Job : WritesOrKilled(k, f)'
        BY DEF TornExplained, Name, Combo
    <2>1. f # File(j)
        BY <1>1, <1>2, FilesAssumption
    <2>2. PICK k \in Job : WritesOrKilled(k, f)
        BY <2>1, <1>1 DEF IInv, TornExplained
    <2>3. k # j
        BY <2>1, <2>2 DEF WritesOrKilled
    <2> QED BY <2>2, <2>3, <1>0
            DEF StepOf, WritesOrKilled, File, Index, Combo
<1>5. SummariesWritten'
    <2> SUFFICES ASSUME NEW f \in Name, summary'[f] \in Stats
                 PROVE  \E k \in Job : HasWritten(k, f)'
                                       /\ stats'[k] = summary'[f]
        BY DEF SummariesWritten, Name, Combo, Stats
    <2>1. CASE f = File(j)
        BY <2>1, <1>1, <1>2, <1>3, FilesAssumption
    <2>2. CASE f # File(j)
        <3>1. PICK k \in Job : HasWritten(k, f) /\ stats[k] = summary[f]
            BY <2>2, <1>1 DEF IInv, SummariesWritten
        <3> QED BY <3>1, <2>2, <1>0, <1>1, WrittenStays
    <2> QED BY <2>1, <2>2
<1>6. GarbledExplained'
    <2> SUFFICES ASSUME NEW f \in Name, summary'[f] = Garbled
                 PROVE  \E k, l \in Job :
                            /\ k # l
                            /\ HasWritten(k, f)' /\ HasWritten(l, f)'
                            /\ ~SameText(stats'[k], stats'[l])
        BY DEF GarbledExplained, Name, Combo, SameText
    <2>1. CASE summary[f] = Garbled
        <3>1. PICK k \in Job, l \in Job :
                  /\ k # l /\ HasWritten(k, f) /\ HasWritten(l, f)
                  /\ ~SameText(stats[k], stats[l])
            BY <2>1 DEF IInv, GarbledExplained
        <3>2. HasWritten(k, f)' /\ HasWritten(l, f)'
            BY <3>1, <1>0, WrittenStays
        <3> QED BY <3>1, <3>2, <1>1
    <2>2. CASE summary[f] # Garbled
        <3>1. f = File(j)
            BY <2>2, <1>1
        <3>2. summary[f] \notin {Garbled, Partial}
              /\ ~SameText(stats[j], summary[f])
            BY <2>2, <3>1, <1>1, <1>2, FilesAssumption
        <3>3. summary[f] # NoFile
            BY <3>1, <1>0 DEF IInv, SummaryThere, WriteSummary
        <3>4. PICK k \in Job : HasWritten(k, f) /\ stats[k] = summary[f]
            BY <3>2, <3>3, <1>t DEF IInv, SummariesWritten
        <3>5. k # j /\ HasWritten(k, f)' /\ stats'[k] = stats[k]
            BY <3>4, <1>0, WrittenStays
        <3> QED BY <3>1, <3>2, <3>4, <3>5, <1>1, <1>3
    <2> QED BY <2>1, <2>2
<1> QED BY <1>4, <1>5, <1>6

\* What a step of job j must see to.
StepSound(j) ==
    /\ step'[j] \in Running => Index(j) \in Combo
    /\ step'[j] \in {"reading", "opening", "writing"} => stats'[j] \in Stats
    /\ stats'[j] \in Stats =>
           Index(j) \in Combo /\ FileName(stats'[j].kpi) = File(j)
    /\ step'[j] # "ended" => lost'[j] \in {"none"} \cup Simulating
    /\ step'[j] = "writing" => summary'[File(j)] # NoFile
    /\ Index(j) \in Combo =>
           /\ kpi'[File(j)] \in Combo => FileName(kpi'[File(j)]) = File(j)
           /\ summary[File(j)] # NoFile => summary'[File(j)] # NoFile

\* For the other jobs there is nothing to see to.
LEMMA SoundStep ==
    ASSUME IInv, NEW j \in Job, StepOf(j), StepSound(j)
    PROVE  /\ RunningHaveCombos' /\ LogsNamed' /\ StatsRead' /\ StatsNamed'
           /\ LostEnded' /\ SummaryThere'
<1> USE DEF StepOf, StepSound, IInv
<1>1. RunningHaveCombos'
    BY DEF RunningHaveCombos, Index, Combo
<1>2. LogsNamed'
    <2> SUFFICES ASSUME NEW f \in Name, kpi'[f] \in Combo
                 PROVE  FileName(kpi'[f]) = f
        BY DEF LogsNamed, Name, Combo
    <2>1. CASE Index(j) \in Combo /\ File(j) = f
        BY <2>1
    <2>2. CASE ~(Index(j) \in Combo /\ File(j) = f)
        BY <2>2 DEF LogsNamed
    <2> QED BY <2>1, <2>2
<1>3. StatsRead'
    BY DEF StatsRead, Stats, Combo
<1>4. StatsNamed'
    <2> SUFFICES ASSUME NEW k \in Job, stats'[k] \in Stats
                 PROVE  Index(k) \in Combo /\ FileName(stats'[k].kpi) = File(k)
        BY DEF StatsNamed, Stats, Combo, File, Index
    <2> QED BY DEF StatsNamed
<1>5. LostEnded'
    BY DEF LostEnded
<1>6. SummaryThere'
    <2> SUFFICES ASSUME NEW k \in Job, k # j, step[k] = "writing"
                 PROVE  summary'[File(k)] # NoFile
        BY DEF SummaryThere, File, Index
    <2>1. summary[File(k)] # NoFile /\ File(k) \in Name
        BY FileIsName, StepNames DEF SummaryThere, RunningHaveCombos
    <2> QED BY <2>1
<1> QED BY <1>1, <1>2, <1>3, <1>4, <1>5, <1>6

\* Every step of every job preserves the invariant.
LEMMA StepIInv == IInv /\ [Next]_vars => IInv'
<1> SUFFICES ASSUME IInv, [Next]_vars PROVE IInv'
    OBVIOUS
<1>1. ASSUME NEW j \in Job, Acts(j) PROVE IInv'
    <2>t. /\ step \in [Job -> Step] /\ kpi \in [Name -> Log]
          /\ stats \in [Job -> Stats \cup {NoFile}]
          /\ summary \in [Name -> Stats \cup {NoFile, Partial, Garbled}]
          /\ lost \in [Job -> Step \cup {"none"}]
        BY DEF IInv, TypeOK
    <2>0. /\ step[j] # "ended" /\ StepOf(j)
          /\ step[j] # "queued" => Index(j) \in Combo /\ File(j) \in Name
        BY <1>1, OneJobSteps DEF IInv
    <2>o. /\ Index(j) \in Combo => File(j) \in Name
          /\ stats[j] \in Stats =>
                 Index(j) \in Combo /\ FileName(stats[j].kpi) = File(j)
          /\ step[j] \in {"reading", "opening", "writing"} =>
                 stats[j] \in Stats
          /\ lost[j] \in {"none"} \cup Simulating
          /\ Index(j) \in Combo =>
                 (kpi[File(j)] \in Combo => FileName(kpi[File(j)]) = File(j))
        BY <2>0, FileIsName
        DEF IInv, StatsNamed, StatsRead, LostEnded, LogsNamed
    <2>1. HasNothingToDo(j) => StepSound(j) /\ UNCHANGED <<summary, lost>>
        BY <2>t, <2>o, StepNames DEF HasNothingToDo, Enter, StepSound
    <2>2. StartSimulation(j) => StepSound(j) /\ UNCHANGED <<summary, lost>>
        BY <2>t, <2>o, StepNames DEF StartSimulation, Enter, StepSound
    <2>3. OpenLogs(j) => StepSound(j) /\ UNCHANGED <<summary, lost>>
        BY <2>t, <2>0, <2>o, FilesAssumption, StepNames
        DEF OpenLogs, Enter, StepSound
    <2>4. FinishSimulation(j) => StepSound(j) /\ UNCHANGED <<summary, lost>>
        BY <2>t, <2>0, <2>o, StepNames
        DEF FinishSimulation, Enter, StepSound, File
    <2>5. FailSimulation(j) => StepSound(j) /\ UNCHANGED summary
        BY <2>t, <2>0, <2>o, StepNames
        DEF FailSimulation, Enter, StepSound, Simulating
    <2>6. ReadEvents(j) => StepSound(j) /\ UNCHANGED <<summary, lost>>
        BY <2>t, <2>0, <2>o, StepNames DEF ReadEvents, Enter, StepSound
    <2>7. FailDetails(j) \/ ReadNoKpis(j)
              => StepSound(j) /\ UNCHANGED <<summary, lost>>
        BY <2>t, <2>0, <2>o, StepNames
        DEF FailDetails, ReadNoKpis, Enter, StepSound
    <2>8. OpenLossRates(j) => StepSound(j) /\ UNCHANGED <<summary, lost>>
        BY <2>t, <2>0, <2>o, StepNames DEF OpenLossRates, Enter, StepSound
    <2>9. WriteLossRates(j) => StepSound(j) /\ UNCHANGED <<summary, lost>>
        BY <2>t, <2>0, <2>o, StepNames DEF WriteLossRates, Enter, StepSound
    <2>10. ReadKpis(j) => StepSound(j) /\ UNCHANGED <<summary, lost>>
        <3> SUFFICES ASSUME ReadKpis(j)
                     PROVE  StepSound(j) /\ UNCHANGED <<summary, lost>>
            OBVIOUS
        <3>1. /\ stats'[j] = [kpi |-> kpi[File(j)], loss |-> NoFile]
              /\ kpi[File(j)] \in Combo
            BY <2>t DEF ReadKpis
        <3>2. stats'[j] \in Stats /\ FileName(stats'[j].kpi) = File(j)
            BY <3>1, <2>0, <2>o DEF Stats, ReadKpis
        <3> QED BY <3>2, <2>t, <2>0, <2>o, StepNames
                DEF ReadKpis, Enter, StepSound
    <2>11. ReadLossRates(j) => StepSound(j) /\ UNCHANGED <<summary, lost>>
        <3> SUFFICES ASSUME ReadLossRates(j)
                     PROVE  StepSound(j) /\ UNCHANGED <<summary, lost>>
            OBVIOUS
        <3>1. stats[j] \in Stats /\ FileName(stats[j].kpi) = File(j)
            BY <2>o DEF ReadLossRates
        <3>2. PICK log : stats' = [stats EXCEPT
                             ![j] = [kpi |-> stats[j].kpi, loss |-> log]]
            BY DEF ReadLossRates
        <3>3. stats'[j].kpi = stats[j].kpi
            BY <3>2, <2>t
        <3>4. stats'[j] \in Stats
            <4>1. TypeOK'
                BY <1>1, TypeStep DEF IInv
            <4>2. stats'[j] \in Stats \cup {NoFile}
                BY <4>1 DEF TypeOK, Stats, Combo, Job
            <4>3. PICK l : stats'[j] = [kpi |-> stats[j].kpi, loss |-> l]
                          /\ l \in LossOf(lossRate[File(j)])
                BY <2>t DEF ReadLossRates
            <4>4. l \in {NoFile, Garbled} \cup Combo
                <5>1. lossRate[File(j)] \in Log
                    BY <2>0 DEF IInv, TypeOK, ReadLossRates
                <5> QED BY <4>3, <5>1, LogsStay
            <4> QED BY <4>3, <4>4, <3>1 DEF Stats
        <3> QED BY <3>1, <3>3, <3>4, <2>t, <2>0, <2>o, StepNames
                DEF ReadLossRates, Enter, StepSound
    <2>12. OpenSummary(j) => StepSound(j)
        BY <2>t, <2>0, <2>o, FilesAssumption, StepNames
        DEF OpenSummary, Enter, StepSound
    <2>13. WriteSummary(j) => StepSound(j)
        BY <2>t, <2>0, <2>o, FilesAssumption, StepNames
        DEF WriteSummary, Enter, StepSound
    <2>14. Kill(j) => /\ StepSound(j) /\ UNCHANGED summary
                      /\ step[j] = "writing" => lost'[j] = "writing"
        BY <2>t, <2>0, <2>o, FilesAssumption, StepNames
        DEF Kill, Enter, StepSound
    <2>15. StepSound(j)
        BY <1>1, <2>1, <2>2, <2>3, <2>4, <2>5, <2>6, <2>7, <2>8, <2>9, <2>10,
           <2>11, <2>12, <2>13, <2>14
        DEF Acts, Progress
    <2>16. /\ RunningHaveCombos' /\ LogsNamed' /\ StatsRead' /\ StatsNamed'
           /\ LostEnded' /\ SummaryThere'
        BY <2>0, <2>15, SoundStep
    <2>17. TornExplained' /\ SummariesWritten' /\ GarbledExplained'
        <3>1. CASE step[j] # "writing" /\ UNCHANGED summary
            BY <3>1, <2>0, QuietStep
        <3>2. CASE Kill(j)
            BY <3>2, <2>0, <2>14, QuietStep
        <3>3. CASE OpenSummary(j)
            BY <3>3, OpenSummaryStep
        <3>4. CASE WriteSummary(j)
            BY <3>4, WriteSummaryStep
        <3>5. step[j] = "writing" => Kill(j) \/ WriteSummary(j)
            BY <1>1 DEF Acts, Progress, HasNothingToDo, StartSimulation,
               OpenLogs, FinishSimulation, FailSimulation, Simulating,
               ReadEvents, FailDetails, OpenLossRates, WriteLossRates,
               ReadKpis, ReadNoKpis, ReadLossRates, OpenSummary
        <3>6. UNCHANGED summary \/ OpenSummary(j) \/ WriteSummary(j)
            BY <1>1, <2>1, <2>2, <2>3, <2>4, <2>5, <2>6, <2>7, <2>8, <2>9,
               <2>10, <2>11, <2>14
            DEF Acts, Progress
        <3> QED BY <3>1, <3>2, <3>3, <3>4, <3>5, <3>6
    <2>18. TypeOK'
        BY <1>1, TypeStep DEF IInv
    <2> QED BY <2>16, <2>17, <2>18 DEF IInv
<1>2. CASE UNCHANGED vars
    <2> USE <1>2 DEF vars
    <2>1. TypeOK' /\ LogsNamed' /\ StatsRead' /\ LostEnded'
        BY DEF IInv, TypeOK, LogsNamed, StatsRead, LostEnded
    <2>2. RunningHaveCombos' /\ StatsNamed' /\ SummaryThere'
        BY DEF IInv, RunningHaveCombos, StatsNamed, SummaryThere, File, Index,
           Combo
    <2>3. TornExplained'
        BY DEF IInv, TornExplained, WritesOrKilled, File, Index, Combo
    <2>4. SummariesWritten'
        BY DEF IInv, SummariesWritten, HasWritten, File, Index, Combo
    <2>5. GarbledExplained'
        BY DEF IInv, GarbledExplained, HasWritten, SameText, File, Index, Combo
    <2> QED BY <2>1, <2>2, <2>3, <2>4, <2>5 DEF IInv
<1> QED BY <1>1, <1>2 DEF Next, Acts

-----------------------------------------------------------------------------
\* The invariant holds in every state of a campaign.
LEMMA CampaignInvariant == Spec => []IInv
<1>1. Init => IInv
    BY InitIInv
<1>2. IInv /\ [Next]_vars => IInv'
    BY StepIInv
<1> QED BY <1>1, <1>2, PTL DEF Spec

\* The files, the jobs and what the analysis has read have their types.
THEOREM CampaignTypeCorrect == Spec => []TypeOK
<1>1. IInv => TypeOK
    BY DEF IInv
<1> QED BY <1>1, CampaignInvariant, PTL

\* If the names of the files tell the combinations apart, the KPIs in a
\* summary are those of the combination whose name it bears: of any jobs of
\* parse_results_v4.py and of the simulator, in whatever order they overlap.
THEOREM SummariesTrue == ASSUME NamesDiffer PROVE Spec => []SummaryTrue
<1>1. IInv => SummaryTrue
    <2> SUFFICES ASSUME IInv, NEW i \in Combo,
                        summary[FileName(i)] \in Stats
                 PROVE  summary[FileName(i)].kpi = i
        BY DEF SummaryTrue
    <2>1. FileName(i) \in Name
        BY DEF Name
    <2>2. PICK j \in Job : HasWritten(j, FileName(i))
                           /\ stats[j] = summary[FileName(i)]
        BY <2>1 DEF IInv, SummariesWritten
    <2>3. FileName(stats[j].kpi) = FileName(i) /\ stats[j].kpi \in Combo
        BY <2>2 DEF IInv, StatsNamed, HasWritten, Stats
    <2> QED BY <2>2, <2>3 DEF NamesDiffer
<1> QED BY <1>1, CampaignInvariant, PTL

\* A summary that cannot be read is being written, was left by a job killed
\* while writing, or has been written by two jobs with different texts.
THEOREM TornSummaries == Spec => []TornOnlyByKillOrRace
<1>1. IInv => TornOnlyByKillOrRace
    BY DEF IInv, TornExplained, GarbledExplained, TornOnlyByKillOrRace, Name
<1> QED BY <1>1, CampaignInvariant, PTL

-----------------------------------------------------------------------------
\* Without the detailed analysis there are no loss rates.
LEMMA PlainInvariant == ASSUME ~Detailed PROVE Spec => []PlainInv
<1>1. Init => PlainInv
    BY FilesAssumption DEF Init, PlainInv, Detailing
<1>2. IInv /\ PlainInv /\ [Next]_vars => PlainInv'
    <2> SUFFICES ASSUME IInv, PlainInv, [Next]_vars PROVE PlainInv'
        OBVIOUS
    <2>1. ASSUME NEW j \in Job, Acts(j) PROVE PlainInv'
        <3>t. step \in [Job -> Step] /\ stats \in [Job -> Stats \cup {NoFile}]
            BY DEF IInv, TypeOK
        <3>0. StepOf(j) /\ (step[j] # "queued" => File(j) \in Name)
            BY <2>1, OneJobSteps DEF IInv
        <3>1. ~(ReadEvents(j) \/ FailDetails(j) \/ OpenLossRates(j)
                \/ WriteLossRates(j))
            BY DEF PlainInv, Detailing, ReadEvents, FailDetails,
               OpenLossRates, WriteLossRates
        <3>2. step'[j] \notin Detailing
            BY <2>1, <3>1, <3>t
            DEF Detailing, Acts, Progress, HasNothingToDo, StartSimulation,
               OpenLogs, FinishSimulation, FailSimulation, AfterSimulation,
               ReadKpis, ReadNoKpis, ReadLossRates, OpenSummary, WriteSummary,
               Kill, Enter
        <3>3. lossRate' = lossRate
            BY <2>1, <3>1
            DEF Acts, Progress, HasNothingToDo, StartSimulation, OpenLogs,
               FinishSimulation, FailSimulation, ReadKpis, ReadNoKpis,
               ReadLossRates, OpenSummary, WriteSummary, Kill
        <3>4. CASE ReadKpis(j)
            BY <3>0, <3>2, <3>3, <3>4, <3>t
            DEF PlainInv, StepOf, ReadKpis, Name, Stats, Combo
        <3>5. CASE ReadLossRates(j)
            <4>1. lossRate[File(j)] = NoFile
                BY <3>0, <3>5 DEF PlainInv, ReadLossRates
            <4>2. LossOf(NoFile) = {NoFile}
                BY FilesAssumption DEF LossOf
            <4>3. stats'[j].loss = NoFile
                BY <4>1, <4>2, <3>5, <3>t DEF ReadLossRates
            <4> QED BY <4>3, <3>0, <3>2, <3>3
                    DEF PlainInv, StepOf, Name, Stats, Combo
        <3>6. CASE Kill(j)
            <4>1. stats'[j] \notin Stats
                BY <3>6, <3>t, FilesAssumption DEF Kill
            <4> QED BY <4>1, <3>0, <3>2, <3>3
                    DEF PlainInv, StepOf, Name, Stats, Combo
        <3>7. CASE ~ReadKpis(j) /\ ~ReadLossRates(j) /\ ~Kill(j)
            <4>1. stats' = stats
                BY <2>1, <3>1, <3>7
                DEF Acts, Progress, HasNothingToDo, StartSimulation, OpenLogs,
                   FinishSimulation, FailSimulation, ReadNoKpis, OpenSummary,
                   WriteSummary
            <4> QED BY <4>1, <3>0, <3>2, <3>3
                    DEF PlainInv, StepOf, Name, Stats, Combo
        <3> QED BY <3>4, <3>5, <3>6, <3>7
    <2>2. CASE UNCHANGED vars
        BY <2>2 DEF vars, PlainInv, Name, Stats, Combo
    <2> QED BY <2>1, <2>2 DEF Next, Acts
<1> QED BY <1>1, <1>2, CampaignInvariant, PTL DEF Spec

\* In a campaign without the detailed analysis jobs that overlap write the
\* same text: only a job killed while it writes leaves a summary torn.
THEOREM PlainTornSummaries ==
    ASSUME ~Detailed, NamesDiffer PROVE Spec => []TornOnlyByKill
<1>1. IInv /\ PlainInv => TornOnlyByKill
    <2> SUFFICES ASSUME IInv, PlainInv, NEW i \in Combo,
                        summary[FileName(i)] \in {Partial, Garbled}
                 PROVE  \E j \in Job : WritesOrKilled(j, FileName(i))
        BY DEF TornOnlyByKill
    <2>1. FileName(i) \in Name
        BY DEF Name
    <2>2. summary[FileName(i)] # Garbled
        <3> SUFFICES ASSUME summary[FileName(i)] = Garbled PROVE FALSE
            OBVIOUS
        <3>1. PICK j \in Job, k \in Job :
                  /\ HasWritten(j, FileName(i)) /\ HasWritten(k, FileName(i))
                  /\ ~SameText(stats[j], stats[k])
            BY <2>1 DEF IInv, GarbledExplained
        <3>2. \A l \in {j, k} : /\ stats[l] \in Stats /\ stats[l].kpi = i
                                /\ stats[l].loss = NoFile
            BY <3>1 DEF HasWritten, PlainInv, IInv, StatsNamed, NamesDiffer,
               Stats
        <3>3. stats[j] = stats[k]
            BY <3>2 DEF Stats
        <3> QED BY <3>1, <3>2, <3>3, FilesAssumption DEF SameText
    <2> QED BY <2>1, <2>2 DEF IInv, TornExplained
<1> QED BY <1>1, CampaignInvariant, PlainInvariant, PTL

-----------------------------------------------------------------------------
\* A job that is alone with its files, not killed and not failed, finds them
\* as it left them.
LEMMA SoleStep ==
    ASSUME IInv, NEW j \in Job, Progress(j), Sole(j), InOrder(j)
    PROVE  InOrder(j)'
<1> DEFINE f == File(j)
<1>t. /\ step \in [Job -> Step] /\ kpi \in [Name -> Log]
      /\ events \in [Name -> Log] /\ lossRate \in [Name -> Log]
      /\ rates \in [Job -> {NoFile, Garbled} \cup Combo]
      /\ stats \in [Job -> Stats \cup {NoFile}]
      /\ summary \in [Name -> Stats \cup {NoFile, Partial, Garbled}]
    BY DEF IInv, TypeOK
<1>i. Index(j) \in Combo /\ f \in Name
    BY FileIsName DEF Sole
<1>k. Index(j) \notin {NoFile, Partial, Garbled}
    BY <1>i, FilesAssumption
<1>e. \A s : Emptied(j, s) = Partial
    BY DEF Emptied, Rivals, Sole
<1>w. Written(Partial, Index(j)) = {Index(j)}
    BY DEF Written
<1>c. /\ File(j)' = f /\ Index(j)' = Index(j)
      /\ Exact(Index(j))' = Exact(Index(j))
    BY DEF File, Index, Exact
<1> USE DEF InOrder, Enter, Simulating, Detailing
<1>1. CASE HasNothingToDo(j)
    BY <1>1, <1>i DEF HasNothingToDo
<1>2. CASE StartSimulation(j)
    BY <1>2, <1>t, <1>c DEF StartSimulation
<1>3. CASE OpenLogs(j)
    <2>1. events' = IF Detailed THEN [events EXCEPT ![f] = Partial]
                    ELSE events
        BY <1>3, <1>e DEF OpenLogs
    <2>2. Detailed => events'[f] = Partial
        BY <2>1, <1>t, <1>i
    <2> QED BY <1>3, <2>2, <1>t, <1>c DEF OpenLogs
<1>4. CASE FinishSimulation(j)
    <2>1. step'[j] = AfterSimulation /\ kpi'[f] = Index(j)
          /\ lossRate'[f] = NoFile
        BY <1>4, <1>t, <1>i DEF FinishSimulation
    <2>2. Detailed => events'[f] = Index(j)
        <3> SUFFICES ASSUME Detailed PROVE events'[f] = Index(j)
            OBVIOUS
        <3>1. events' = [events EXCEPT ![f] = Index(j)]
            BY <1>4, <1>w DEF FinishSimulation
        <3> QED BY <3>1, <1>t, <1>i
    <2> QED BY <2>1, <2>2, <1>c DEF AfterSimulation
<1>5. CASE ReadEvents(j)
    <2>1. rates'[j] = Index(j)
        BY <1>5, <1>t, <1>i DEF ReadEvents
    <2> QED BY <1>5, <2>1, <1>t, <1>c DEF ReadEvents
<1>6. CASE FailDetails(j)
    BY <1>6, <1>t, <1>c DEF FailDetails
<1>7. CASE OpenLossRates(j)
    <2>1. lossRate' = [lossRate EXCEPT ![f] = Partial]
        BY <1>7, <1>e DEF OpenLossRates
    <2>2. lossRate'[f] = Partial
        BY <2>1, <1>t, <1>i
    <2> QED BY <1>7, <2>2, <1>t, <1>c DEF OpenLossRates
<1>8. CASE WriteLossRates(j)
    <2>1. lossRate' = [lossRate EXCEPT ![f] = Index(j)]
        BY <1>8, <1>w DEF WriteLossRates
    <2>2. lossRate'[f] = Index(j)
        BY <2>1, <1>t, <1>i
    <2> QED BY <1>8, <2>2, <1>t, <1>c DEF WriteLossRates
<1>9. CASE ReadKpis(j)
    <2>1. stats'[j] = [kpi |-> Index(j), loss |-> NoFile]
        BY <1>9, <1>t DEF ReadKpis
    <2>2. stats'[j] \in Exact(Index(j))
        BY <2>1 DEF Exact
    <2> QED BY <1>9, <2>2, <1>t, <1>c DEF ReadKpis
<1>10. CASE ReadNoKpis(j)
    BY <1>10, <1>i DEF ReadNoKpis
<1>11. CASE ReadLossRates(j)
    <2>1. PICK log \in LossOf(lossRate[f]) :
              stats' = [stats EXCEPT
                  ![j] = [kpi |-> stats[j].kpi, loss |-> log]]
        BY <1>11 DEF ReadLossRates
    <2>2. log \in {NoFile, Index(j)}
        BY <2>1, <1>11, <1>k, FilesAssumption DEF ReadLossRates, LossOf
    <2>3. stats'[j] = [kpi |-> Index(j), loss |-> log]
        BY <2>1, <1>11, <1>t DEF ReadLossRates, Exact
    <2>4. stats'[j] \in Exact(Index(j))
        BY <2>2, <2>3 DEF Exact
    <2> QED BY <1>11, <2>4, <1>t, <1>c DEF ReadLossRates
<1>12. CASE OpenSummary(j)
    BY <1>12, <1>t, <1>i, <1>c DEF OpenSummary
<1>13. CASE WriteSummary(j)
    <2>1. summary' = [summary EXCEPT ![f] = stats[j]]
        BY <1>13 DEF WriteSummary
    <2>2. summary'[f] \in Exact(Index(j))
        BY <2>1, <1>13, <1>t, <1>i DEF WriteSummary
    <2> QED BY <1>13, <2>2, <1>t, <1>c DEF WriteSummary
<1> QED BY <1>1, <1>2, <1>3, <1>4, <1>5, <1>6, <1>7, <1>8, <1>9, <1>10, <1>11,
           <1>12, <1>13
        DEF Progress

\* And the steps of all other jobs leave it alone.
LEMMA SoleInvariant == Spec => []SoleInv
<1>1. Init => SoleInv
    <2> SUFFICES ASSUME Init, NEW j \in Job, Sole(j) PROVE InOrder(j)
        BY DEF SoleInv
    <2>1. File(j) \in Name
        BY FileIsName DEF Sole
    <2> QED BY <2>1 DEF Init, InOrder, Simulating, Detailing
<1>2. IInv /\ SoleInv /\ [Next]_vars => SoleInv'
    <2> SUFFICES ASSUME IInv, SoleInv, [Next]_vars,
                        NEW j \in Job, Sole(j), lost'[j] = "none"
                 PROVE  InOrder(j)'
        BY DEF SoleInv, Sole, File, Index, Combo, Job
    <2>1. ASSUME NEW k \in Job, Acts(k) PROVE InOrder(j)'
        <3>0. StepOf(k)
            BY <2>1, OneJobSteps DEF IInv
        <3>1. CASE k = j
            <4>1. lost \in [Job -> Step \cup {"none"}]
                BY DEF IInv, TypeOK
            <4>2. ~FailSimulation(j) /\ ~Kill(j)
                BY <4>1, StepNames DEF FailSimulation, Kill, Simulating
            <4>3. Progress(j)
                BY <2>1, <3>1, <4>2 DEF Acts
            <4>4. lost' = lost
                BY <4>3 DEF Progress, HasNothingToDo, StartSimulation,
                   OpenLogs, FinishSimulation, ReadEvents, FailDetails,
                   OpenLossRates, WriteLossRates, ReadKpis, ReadNoKpis,
                   ReadLossRates, OpenSummary, WriteSummary
            <4>5. InOrder(j)
                BY <4>4 DEF SoleInv
            <4> QED BY <4>3, <4>5, SoleStep
        <3>2. CASE k # j
            <4>1. /\ step'[j] = step[j] /\ lost'[j] = lost[j]
                  /\ stats'[j] = stats[j] /\ rates'[j] = rates[j]
                BY <3>0, <3>2 DEF StepOf
            <4>2. /\ File(j) \in Name
                  /\ ~(Index(k) \in Combo /\ File(k) = File(j))
                BY <3>2, FileIsName DEF Sole
            <4>3. /\ kpi'[File(j)] = kpi[File(j)]
                  /\ events'[File(j)] = events[File(j)]
                  /\ lossRate'[File(j)] = lossRate[File(j)]
                  /\ summary'[File(j)] = summary[File(j)]
                BY <3>0, <4>2 DEF StepOf
            <4>4. InOrder(j)
                BY <4>1 DEF SoleInv
            <4> QED BY <4>1, <4>3, <4>4 DEF InOrder, File, Index, Exact
        <3> QED BY <3>1, <3>2
    <2>2. CASE UNCHANGED vars
        BY <2>2 DEF vars, SoleInv, InOrder, File, Index, Exact
    <2> QED BY <2>1, <2>2 DEF Next, Acts
<1> QED BY <1>1, <1>2, CampaignInvariant, PTL DEF Spec

\* The only job of a combination, if nothing befalls it, ends with a summary
\* of its own KPIs and of the loss rates of its own event log, or none.
THEOREM SoleJobsAreExact == ASSUME NamesDiffer PROVE Spec => []SoleJobExact
<1>1. SoleInv => SoleJobExact
    <2> SUFFICES ASSUME SoleInv, NEW j \in Job, Index(j) \in Combo,
                        \A k \in Job \ {j} : Index(k) # Index(j),
                        step[j] = "ended", lost[j] = "none"
                 PROVE  summary[File(j)] \in Exact(Index(j))
        BY DEF SoleJobExact, Exact
    <2>1. Sole(j)
        BY DEF Sole, File, NamesDiffer
    <2> QED BY <2>1 DEF SoleInv, InOrder
<1> QED BY <1>1, SoleInvariant, PTL
=============================================================================
