------------------------------- MODULE Watchdog --------------------------------
(***************************************************************************)
(* The LongMem watchdog in batch mode, main() of                           *)
(* experiment/longmem/pipeline/watchdog.py: it launches the batch, kills   *)
(* it when it runs for too long, marks the datasets a timeout left         *)
(* unfinished, and launches it again until every dataset counts as         *)
(* complete or max_restarts is exceeded.                                   *)
(*                                                                         *)
(* The batch is BatchRun.  Sleeps, backoff and refresh_system, which       *)
(* touches none of the files modelled here, are left out.                  *)
(***************************************************************************)
EXTENDS BatchRun, FiniteSets, Sequences

CONSTANTS
    MAX_SAME_PROGRESS_RESUMES,
    MaxRestarts,   \* --max-restarts, a bounded run
    MaxErrors      \* bound on the watchdog's own exceptions

ASSUME WatchdogAssumption ==
    /\ MAX_SAME_PROGRESS_RESUMES \in Nat /\ MaxRestarts \in Nat \ {0}
    /\ MaxErrors \in Nat

VARIABLES
    phase,       \* where main() is
    timed_out,   \* the last run was killed for running too long
    visit,       \* the dataset the marking pass looks at
    stuck_log,   \* watchdog_stuck.jsonl
    restarts,    \* counted restarts
    launches,    \* history: batch processes started
    errors       \* history: exceptions main() swallowed

marking == <<visit, stuck_log>>
counters == <<restarts, launches, errors>>
vars == <<batch, phase, timed_out, marking, counters>>

Phases == {"check", "run", "recheck", "mark", "restart", "error"}
Ends == {"done", "failed", "interrupted"}
LogEntries == [dataset : Datasets, processed : 0 .. NSessions]

TypeOK ==
    /\ BatchType
    /\ phase \in Phases \cup Ends
    /\ timed_out \in BOOLEAN
    /\ visit \in 1 .. NDatasets + 1
    /\ stuck_log \in Seq(LogEntries)
    /\ restarts \in 0 .. MaxRestarts + 1
    /\ launches \in Nat
    /\ errors \in 0 .. MaxErrors

Init ==
    /\ BatchInit
    /\ phase = "check" /\ timed_out = FALSE
    /\ visit = 1 /\ stuck_log = <<>>
    /\ restarts = 0 /\ launches = 0 /\ errors = 0

\* dataset_complete: an answer file, or a checkpoint with a terminal stage.
DatasetComplete(d) == output[d] \/ stage[d] \in TERMINAL_STAGES
AllComplete == \A d \in Datasets : DatasetComplete(d)

-----------------------------------------------------------------------------
(* One pass of the loop.                                                   *)

AllCompleteExit ==
    /\ phase \in {"check", "recheck"} /\ AllComplete
    /\ phase' = "done"
    /\ UNCHANGED <<batch, timed_out, marking, counters>>

LaunchBatch ==
    /\ phase = "check" /\ ~AllComplete
    /\ Begin
    /\ launches' = launches + 1
    /\ phase' = "run"
    /\ UNCHANGED <<timed_out, marking, restarts, errors>>

\* Mutated form of LaunchFails: run_once does not catch the exception.
LaunchFailsRaising ==
    /\ phase = "check" /\ ~AllComplete
    /\ phase' = "error" /\ timed_out' = FALSE
    /\ UNCHANGED <<batch, marking, counters>>

\* Popen raises: return code -1.
LaunchFails ==
    /\ phase = "check" /\ ~AllComplete
    /\ phase' = "recheck" /\ timed_out' = FALSE
    /\ UNCHANGED <<batch, marking, counters>>

BatchWorks ==
    /\ phase = "run" /\ Work
    /\ UNCHANGED <<phase, timed_out, marking, counters>>

\* Killed from outside, or dead of an exception outside process_dataset.
BatchDies ==
    /\ phase = "run" /\ Die
    /\ UNCHANGED <<phase, timed_out, marking, counters>>

\* proc.wait returns: the process ended on its own.
RunEnds ==
    /\ phase = "run" /\ ~running
    /\ phase' = "recheck" /\ timed_out' = FALSE
    /\ UNCHANGED <<batch, marking, counters>>

\* Mutated form of TimeoutKills: the signal is sent and nobody waits.
TimeoutKillsNotWaiting ==
    /\ phase = "run"
    /\ UNCHANGED batch
    /\ phase' = "recheck" /\ timed_out' = TRUE
    /\ UNCHANGED <<marking, counters>>

\* The run exceeded its time: SIGTERM, SIGKILL, and wait.  A process that ends
\* on its own in between is taken for a killed one.
TimeoutKills ==
    /\ phase = "run"
    /\ IF running THEN Die ELSE UNCHANGED batch
    /\ phase' = "recheck" /\ timed_out' = TRUE
    /\ UNCHANGED <<marking, counters>>

\* Only a timeout leads to the marking pass; any other end does not.
Recheck ==
    /\ phase = "recheck" /\ ~AllComplete
    /\ phase' = IF timed_out THEN "mark" ELSE "restart"
    /\ visit' = 1
    /\ UNCHANGED <<batch, timed_out, stuck_log, counters>>

\* The places of a dataset's events in the log.
Events(d) == {k \in DOMAIN stuck_log : stuck_log[k].dataset = d}

\* Mutated form of SameProgress: the events of all datasets are counted.
SameProgressOfAny(d, n) ==
    Cardinality({k \in DOMAIN stuck_log :
        \A i \in k .. Len(stuck_log) : stuck_log[i].processed = n})

\* count_same_progress_stuck_events: the events of the dataset, from the last
\* one back, as long as they show the same count.
SameProgress(d, n) ==
    Cardinality({k \in Events(d) :
        \A i \in Events(d) : i >= k => stuck_log[i].processed = n})

Action(d) ==
    IF SameProgress(d, count[d]) >= MAX_SAME_PROGRESS_RESUMES
    THEN "error" ELSE "ingest_in_progress"

LogStuck(d) ==
    stuck_log' = Append(stuck_log, [dataset |-> d, processed |-> count[d]])

\* mark_stuck_datasets_as_skipped, one dataset at a time.
MarkDataset ==
    /\ phase = "mark" /\ visit \in Datasets
    /\ \/ Stuck(visit) /\ LogStuck(visit) /\ Mark(visit, Action(visit))
       \/ ~Stuck(visit) /\ UNCHANGED <<stuck_log, batch>>
    /\ visit' = visit + 1
    /\ UNCHANGED <<phase, timed_out, counters>>

\* An exception on one dataset is logged; the event may be in the log already.
MarkFails ==
    /\ phase = "mark" /\ visit \in Datasets /\ Stuck(visit)
    /\ LogStuck(visit) \/ UNCHANGED stuck_log
    /\ visit' = visit + 1
    /\ UNCHANGED <<batch, phase, timed_out, counters>>

MarkingEnds ==
    /\ phase = "mark" /\ visit > NDatasets
    /\ phase' = "restart"
    /\ UNCHANGED <<batch, timed_out, marking, counters>>

Restart ==
    /\ phase = "restart"
    /\ restarts' = restarts + 1
    /\ phase' = IF restarts' > MaxRestarts THEN "failed" ELSE "check"
    /\ UNCHANGED <<batch, timed_out, marking, launches, errors>>

-----------------------------------------------------------------------------
(* Exceptions and interrupts.                                              *)

\* Any exception of the pass itself, such as one of write_status_file, is
\* logged; after a while the loop starts over.
WatchdogFails ==
    /\ phase \in Phases \ {"run", "error"} /\ errors < MaxErrors
    /\ errors' = errors + 1
    /\ phase' = "error"
    /\ UNCHANGED <<batch, timed_out, marking, restarts, launches>>

Retry ==
    /\ phase = "error"
    /\ phase' = "check"
    /\ UNCHANGED <<batch, timed_out, marking, counters>>

\* The interrupt reaches the batch process as well.
Interrupt ==
    /\ phase \in Phases
    /\ IF running THEN Die ELSE UNCHANGED batch
    /\ phase' = "interrupted"
    /\ UNCHANGED <<timed_out, marking, counters>>

-----------------------------------------------------------------------------
WatchdogStep ==
    \/ AllCompleteExit \/ LaunchBatch \/ LaunchFails
    \/ RunEnds \/ TimeoutKills \/ Recheck
    \/ MarkDataset \/ MarkFails \/ MarkingEnds
    \/ Restart \/ Retry

WatchdogNext == WatchdogStep \/ BatchWorks \/ BatchDies \/ WatchdogFails \/ Interrupt

WatchdogSpec == Init /\ [][WatchdogNext]_vars

\* The watchdog is scheduled, and time passes: a run that goes on for ever
\* times out.  Nothing is assumed of the batch.
FairSpec == WatchdogSpec /\ WF_vars(WatchdogStep)

-----------------------------------------------------------------------------
(* Properties.                                                             *)

\* In every reachable state, which has the declared types, the watchdog
\* launches no batch and writes no checkpoint while another batch process is
\* still at work on the same files.
SingleBatch == TypeOK /\ (running => phase = "run")

\* A dataset is written off as an error only after more timeouts in a row at
\* the count it has now than MAX_SAME_PROGRESS_RESUMES: one that progressed in
\* between, or fell back to an earlier count, is given its resumes anew.
ErrorAfterRetries ==
    \A d \in Datasets : stage[d] = "error" =>
        LET otherwise == {i \in Events(d) : stuck_log[i].processed # count[d]}
            since == {k \in Events(d) : \A i \in otherwise : i < k}
        IN  Cardinality(since) > MAX_SAME_PROGRESS_RESUMES

\* An answered dataset is never written off, although a kill between answer
\* and checkpoint leaves it with the stage of an unfinished one.
AnswerNotWrittenOff == \A d \in Datasets : stage[d] = "error" => ~output[d]

\* Every launch but the first is a counted restart or follows an exception of
\* the watchdog itself.
RestartsCounted == launches <= restarts + errors + 1

\* What the watchdog gives up had its resumes and has no answer, and the limit
\* on restarts sees every launch.
BudgetsAreKept == ErrorAfterRetries /\ AnswerNotWrittenOff /\ RestartsCounted

\* Supervision ends whatever the batch does: it may fail, die or hang in every
\* run.
SupervisionEnds == <>(phase \in Ends)
=============================================================================
