-------------------------- MODULE ExperimentCampaign --------------------------
(***************************************************************************)
(* A campaign of run_detailed_rdf_experiment.py (or, without Detailed, of  *)
(* run_rdf_experiment.py): s_run_*.sh submit arrays of jobs, each job      *)
(* simulates one combination of parameters and has its logs analysed by    *)
(* parse_detailed_results_v2.py and parse_results_v4.py.  The jobs share   *)
(* nothing but the files, are killed at their time limit and may be        *)
(* submitted again, also while the earlier ones still run.                 *)
(***************************************************************************)
EXTENDS Integers, Sequences

CONSTANTS
    Runs,        \* the lists get_params loops over: the seeds,
    Factors,     \* the decay factors in thousandths,
    Intervals,   \* the send intervals in tenths of a millisecond
    Offsets,     \* the second argument of the driver in each array's script
    ArraySize,   \* the length of --array in the scripts
    Submissions, \* Submissions[a]: how often array a is submitted
    Detailed,    \* whether the logs are kept and analysed in detail
    NoFile,      \* a file that does not exist
    Partial,     \* a file that is open, or was left without its text
    Garbled      \* a file in which two texts are mixed, and what comes of it

VARIABLES
    step,     \* step[j]: what job j is at
    kpi,      \* kpi[f]: the KPI log kpi_f.csv
    events,   \* events[f]: the event log f.csv and its course log
    rates,    \* rates[j]: loss_rate of the parse_detailed_results_v2.py of j
              \* between reading and writing
    lossRate, \* lossRate[f]: loss_rate_f.csv
    stats,    \* stats[j]: stats of the parse_results_v4.py of j, unless it
              \* was killed
    summary,  \* summary[f]: summary_kpi_f.json
    lost      \* lost[j]: the step at which j was killed or its simulator
              \* failed, "none" otherwise; kept for the properties

vars == <<step, kpi, events, rates, lossRate, stats, summary, lost>>

-----------------------------------------------------------------------------
(* The parameters *)

NumParams == Len(Runs) * Len(Factors) * Len(Intervals)

\* The indices of the combinations in params.
Combo == 0 .. NumParams - 1

\* The positions in the lists of the factor and of the interval of params[i]:
\* the inner loop is the one over the intervals in the detailed driver, the
\* one over the factors in the other.
FactorOf(i) ==
    IF Detailed THEN (i \div Len(Intervals)) % Len(Factors)
    ELSE i % Len(Factors)
IntervalOf(i) ==
    IF Detailed THEN i % Len(Intervals)
    ELSE (i \div Len(Factors)) % Len(Intervals)

\* params[i]
Params(i) ==
    [run |-> Runs[(i \div (Len(Factors) * Len(Intervals))) + 1],
     q |-> Factors[FactorOf(i) + 1],
     send_interval |-> Intervals[IntervalOf(i) + 1]]

\* Mutant: the decay factor is written as int(q).
FileNameOfWholeFactor(i) ==
    <<Params(i).send_interval \div 10, Params(i).q \div 1000, Params(i).run>>

\* The numbers in res_file_name, event_file_name and course_file_name:
\* int(send_interval * 1000), int(q * 100) and the run.  The products are of
\* floating-point numbers: at the steps of the drivers, fives of hundredths
\* and of milliseconds, truncating them gives the exact quotients.
FileName(i) ==
    <<Params(i).send_interval \div 10, Params(i).q \div 10, Params(i).run>>

Name == {FileName(i) : i \in Combo}

\* The names tell the combinations apart.
NamesDiffer ==
    \A i, k \in Combo : FileName(i) = FileName(k) => i = k

-----------------------------------------------------------------------------
(* Jobs and files *)

Job ==
    UNION {[array : {a}, idx : 0 .. ArraySize - 1,
            submission : 1 .. Submissions[a]] : a \in 1 .. Len(Offsets)}

\* Mutant: the combinations are counted from one.
IndexFromOne(j) == j.idx + Offsets[j.array] + 1

\* run_idx + offset
Index(j) == j.idx + Offsets[j.array]

\* Job j is at a subprocess:
\*   the simulator, before and after it has opened its logs,
Simulating == {"starting", "simulating"}
\*   parse_detailed_results_v2.py, before it reads the logs, before it opens
\*   the loss rates, and before it has written them,
Detailing == {"detailing", "rated", "rating"}
\*   parse_results_v4.py, before it reads the KPIs, before it reads the loss
\*   rates, before it opens the summary, and before it has written it.
Parsing == {"parsing", "reading", "opening", "writing"}

Running == Simulating \cup Detailing \cup Parsing

Step == {"queued", "ended"} \cup Running

\* A log is absent, partial, garbled or all of the simulation of a
\* combination; loss rates are those computed from such a log.
Log == {NoFile, Partial, Garbled} \cup Combo

\* What a summary is computed from.  Without loss rates the average is -1.
Stats == [kpi : Combo, loss : {NoFile, Garbled} \cup Combo]

\* The marks are different, and no index or text of a summary.
ASSUME FilesAssumption ==
    /\ NoFile # Partial /\ NoFile # Garbled /\ Partial # Garbled
    /\ {NoFile, Partial, Garbled} \cap (Combo \cup Stats) = {}

\* The name of the files of job j.
File(j) == FileName(Index(j))

\* The other jobs with these files that are at step s.
Rivals(j, s) ==
    {k \in Job \ {j} : Index(k) \in Combo /\ File(k) = File(j) /\ step[k] = s}

\* What a log holds once job j has opened it anew, if jobs at step s have it
\* open: each of them goes on writing at its own offset.
Emptied(j, s) == IF Rivals(j, s) = {} THEN Partial ELSE Garbled

\* What a log that held old when its writer came to the end of text may hold:
\* unless others have written another text since it was opened, just text.
Written(old, text) ==
    IF old \in {Partial, text} THEN {text} ELSE {text, Garbled}

\* Two summaries read the same.  Of two garbled logs nothing is known.
SameText(s, t) == s = t /\ s.loss # Garbled

\* Job j goes on to step s.
Enter(j, s) == step' = [step EXCEPT ![j] = s]

-----------------------------------------------------------------------------
Init ==
    /\ step = [j \in Job |-> "queued"]
    /\ kpi = [f \in Name |-> NoFile]
    /\ events = [f \in Name |-> NoFile]
    /\ rates = [j \in Job |-> NoFile]
    /\ lossRate = [f \in Name |-> NoFile]
    /\ stats = [j \in Job |-> NoFile]
    /\ summary = [f \in Name |-> NoFile]
    /\ lost = [j \in Job |-> "none"]

\* get_params has no combination for the job, or its summary is a file
\* already, whatever is in it.
HasNothingToDo(j) ==
    /\ step[j] = "queued"
    /\ Index(j) \in Combo => summary[File(j)] # NoFile
    /\ Enter(j, "ended")
    /\ UNCHANGED <<kpi, events, rates, lossRate, stats, summary, lost>>

\* There is no summary: subprocess.run(command).
StartSimulation(j) ==
    /\ step[j] = "queued"
    /\ Index(j) \in Combo
    /\ summary[File(j)] = NoFile
    /\ Enter(j, "starting")
    /\ UNCHANGED <<kpi, events, rates, lossRate, stats, summary, lost>>

\* The simulator opens its logs anew.
OpenLogs(j) ==
    /\ step[j] = "starting"
    /\ Enter(j, "simulating")
    /\ kpi' = [kpi EXCEPT ![File(j)] = Partial]
    /\ events' =
           IF Detailed
           THEN [events EXCEPT ![File(j)] = Emptied(j, "simulating")]
           ELSE events
    /\ UNCHANGED <<rates, lossRate, stats, summary, lost>>

\* run_rdf_experiment.py has no detailed analysis.
AfterSimulation == IF Detailed THEN "detailing" ELSE "parsing"

\* The simulator completes the event log, if there is one, and writes the KPIs
\* last.
FinishSimulation(j) ==
    /\ step[j] = "simulating"
    /\ Enter(j, AfterSimulation)
    /\ kpi' = [kpi EXCEPT ![File(j)] = Index(j)]
    /\ \E log \in IF Detailed THEN Written(events[File(j)], Index(j))
                   ELSE {events[File(j)]} :
           events' = [events EXCEPT ![File(j)] = log]
    /\ UNCHANGED <<rates, lossRate, stats, summary, lost>>

\* The simulator fails, before it has opened its logs or later: nobody looks
\* at its return code.
FailSimulation(j) ==
    /\ step[j] \in Simulating
    /\ Enter(j, AfterSimulation)
    /\ lost' = [lost EXCEPT ![j] = step[j]]
    /\ UNCHANGED <<kpi, events, rates, lossRate, stats, summary>>

\* parse_detailed_results_v2.py reads the event log and computes the loss
\* rates of whatever it holds,
ReadEvents(j) ==
    /\ step[j] = "detailing"
    /\ events[File(j)] # NoFile
    /\ Enter(j, "rated")
    /\ rates' = [rates EXCEPT
           ![j] = IF events[File(j)] \in Combo THEN events[File(j)]
                  ELSE Garbled]
    /\ UNCHANGED <<kpi, events, lossRate, stats, summary, lost>>

\* or raises an exception.
FailDetails(j) ==
    /\ step[j] = "detailing"
    /\ Enter(j, "parsing")
    /\ UNCHANGED <<kpi, events, rates, lossRate, stats, summary, lost>>

\* loss_rate.to_csv opens the file,
OpenLossRates(j) ==
    /\ step[j] = "rated"
    /\ Enter(j, "rating")
    /\ lossRate' = [lossRate EXCEPT ![File(j)] = Emptied(j, "rating")]
    /\ UNCHANGED <<kpi, events, rates, stats, summary, lost>>

\* and has written it: the rates end with the process.
WriteLossRates(j) ==
    /\ step[j] = "rating"
    /\ Enter(j, "parsing")
    /\ \E log \in Written(lossRate[File(j)], rates[j]) :
           lossRate' = [lossRate EXCEPT ![File(j)] = log]
    /\ rates' = [rates EXCEPT ![j] = NoFile]
    /\ UNCHANGED <<kpi, events, stats, summary, lost>>

\* Mutant: an empty KPI log is summarised as well.
ReadKpisOfAnything(j) ==
    /\ step[j] = "parsing"
    /\ Enter(j, "reading")
    /\ stats' = [stats EXCEPT ![j] = [kpi |-> kpi[File(j)], loss |-> NoFile]]
    /\ UNCHANGED <<kpi, events, rates, lossRate, summary, lost>>

\* parse_results_v4.py reads the KPIs; the average loss rate is -1 for now.
ReadKpis(j) ==
    /\ step[j] = "parsing"
    /\ kpi[File(j)] \in Combo
    /\ Enter(j, "reading")
    /\ stats' = [stats EXCEPT ![j] = [kpi |-> kpi[File(j)], loss |-> NoFile]]
    /\ UNCHANGED <<kpi, events, rates, lossRate, summary, lost>>

\* Mutant: the summary is opened before the KPIs are read.
ReadNoKpisOpened(j) ==
    /\ step[j] = "parsing"
    /\ kpi[File(j)] \notin Combo
    /\ Enter(j, "ended")
    /\ summary' = [summary EXCEPT ![File(j)] = Partial]
    /\ UNCHANGED <<kpi, events, rates, lossRate, stats, lost>>

\* There is no row of KPIs: an exception, and no summary.
ReadNoKpis(j) ==
    /\ step[j] = "parsing"
    /\ kpi[File(j)] \notin Combo
    /\ Enter(j, "ended")
    /\ UNCHANGED <<kpi, events, rates, lossRate, stats, summary, lost>>

\* What the average loss rate may be of, if the file of the loss rates holds
\* log: of one that is not complete, of what there is or -1.
LossOf(log) ==
    IF log \in {Partial, Garbled} THEN {NoFile, Garbled} ELSE {log}

\* The loss rates are read, unless that raises an exception.
ReadLossRates(j) ==
    /\ step[j] = "reading"
    /\ Enter(j, "opening")
    /\ \E log \in LossOf(lossRate[File(j)]) :
           stats' = [stats EXCEPT ![j] = [kpi |-> @.kpi, loss |-> log]]
    /\ UNCHANGED <<kpi, events, rates, lossRate, summary, lost>>

\* The summary is opened, and thereby emptied: from now on it is a file.
OpenSummary(j) ==
    /\ step[j] = "opening"
    /\ Enter(j, "writing")
    /\ summary' = [summary EXCEPT ![File(j)] = Partial]
    /\ UNCHANGED <<kpi, events, rates, lossRate, stats, lost>>

\* json.dump and the end of the with statement: the text goes to the start of
\* the file.  If another job has written there meanwhile, the end of its text
\* stays behind that of a shorter one.
WriteSummary(j) ==
    /\ step[j] = "writing"
    /\ Enter(j, "ended")
    /\ \/ summary' = [summary EXCEPT ![File(j)] = stats[j]]
       \/ /\ summary[File(j)] # Partial
          /\ ~SameText(stats[j], summary[File(j)])
          /\ summary' = [summary EXCEPT ![File(j)] = Garbled]
    /\ UNCHANGED <<kpi, events, rates, lossRate, stats, lost>>

\* The time limit of the array: the job and its processes are killed, with all
\* they have read; the files stay as they are.
Kill(j) ==
    /\ step[j] \in Running
    /\ Enter(j, "ended")
    /\ lost' = [lost EXCEPT ![j] = step[j]]
    /\ rates' = [rates EXCEPT ![j] = NoFile]
    /\ stats' = [stats EXCEPT ![j] = NoFile]
    /\ UNCHANGED <<kpi, events, lossRate, summary>>

-----------------------------------------------------------------------------
Progress(j) ==
    \/ HasNothingToDo(j)
    \/ StartSimulation(j)
    \/ OpenLogs(j)
    \/ FinishSimulation(j)
    \/ ReadEvents(j)
    \/ FailDetails(j)
    \/ OpenLossRates(j)
    \/ WriteLossRates(j)
    \/ ReadKpis(j)
    \/ ReadNoKpis(j)
    \/ ReadLossRates(j)
    \/ OpenSummary(j)
    \/ WriteSummary(j)

Next ==
    \E j \in Job :
        \/ Progress(j)
        \/ FailSimulation(j)
        \/ Kill(j)

Spec == Init /\ [][Next]_vars

\* The cluster runs every job it has queued, and a job that is not killed
\* goes on.
FairSpec == Spec /\ \A j \in Job : WF_vars(Progress(j))

-----------------------------------------------------------------------------
(* Properties *)

TypeOK ==
    /\ step \in [Job -> Step]
    /\ kpi \in [Name -> Log]
    /\ events \in [Name -> Log]
    /\ rates \in [Job -> {NoFile, Garbled} \cup Combo]
    /\ lossRate \in [Name -> Log]
    /\ stats \in [Job -> Stats \cup {NoFile}]
    /\ summary \in [Name -> Stats \cup {NoFile, Partial, Garbled}]
    /\ lost \in [Job -> Step \cup {"none"}]

\* The KPIs in a summary are those of a finished simulation of exactly the
\* combination whose name it bears, whoever else emptied, wrote or left the
\* files in the meantime.
SummaryTrue ==
    \A i \in Combo :
        summary[FileName(i)] \in Stats => summary[FileName(i)].kpi = i

\* Job j writes the summary named f, or was killed when it did.
WritesOrKilled(j, f) ==
    /\ Index(j) \in Combo /\ File(j) = f
    /\ step[j] = "writing" \/ lost[j] = "writing"

\* Job j has written the summary named f.
HasWritten(j, f) ==
    /\ Index(j) \in Combo /\ File(j) = f
    /\ step[j] = "ended" /\ stats[j] \in Stats

\* Without the detailed analysis, a summary that is a file but cannot be read
\* is being written, or is what is left of a job killed while it wrote it:
\* neither a failed simulator nor an exception makes later jobs skip the
\* combination, and jobs that overlap write the same text.
TornOnlyByKill ==
    \A i \in Combo :
        summary[FileName(i)] \in {Partial, Garbled} =>
            \E j \in Job : WritesOrKilled(j, FileName(i))

\* In any case, a summary that cannot be read is being written, or is what is
\* left of a job killed while it wrote it, or two jobs of its combination have
\* written texts that differ.
TornOnlyByKillOrRace ==
    \A i \in Combo :
        /\ summary[FileName(i)] = Partial =>
               \E j \in Job : WritesOrKilled(j, FileName(i))
        /\ summary[FileName(i)] = Garbled =>
               \E j, k \in Job :
                   /\ j # k
                   /\ HasWritten(j, FileName(i)) /\ HasWritten(k, FileName(i))
                   /\ ~SameText(stats[j], stats[k])

\* The loss rates too are of the combination and of its complete event log,
\* or missing, if it is simulated by a single job, which is not killed and
\* whose simulator does not fail: once the job has ended there is a summary,
\* whatever the jobs of other combinations do.
SoleJobExact ==
    \A j \in Job :
        /\ Index(j) \in Combo /\ \A k \in Job \ {j} : Index(k) # Index(j)
        /\ step[j] = "ended" /\ lost[j] = "none"
        => summary[File(j)] \in
               [kpi : {Index(j)}, loss : {NoFile, Index(j)}]

\* In the end every combination of the campaign has its summary, unless one
\* of its own jobs was killed or its simulator failed: the arrays leave none
\* out, and no two jobs keep each other from writing one.
NoneForgotten ==
    <>[](\A i \in Combo :
            \/ summary[FileName(i)] # NoFile
            \/ \E j \in Job : Index(j) = i /\ lost[j] # "none")

=============================================================================
