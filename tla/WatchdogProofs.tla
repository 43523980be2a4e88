----------------------------- MODULE WatchdogProofs -----------------------------
(***************************************************************************)
(* Proofs about Watchdog, for any datasets and sessions and any limits:    *)
(* one batch at a time, no launch the counters do not show, no answer      *)
(* written off, and nothing given up before it had its resumes.            *)
(***************************************************************************)
EXTENDS Watchdog, FiniteSetTheorems, TLAPS

\* A batch exists only while main() waits for it.
Waiting == running => phase = "run"

\* The loop goes on only below the limit.
Below == phase \in Phases => restarts <= MaxRestarts

\* Every launch but the one under way has been counted when the loop starts over.
Counted == launches <= restarts + errors + (IF phase \in {"check", "error"} THEN 0 ELSE 1)

IInv == TypeOK /\ Waiting /\ Below /\ Counted /\ AnswerNotWrittenOff

LEMMA OneDataset == 1 \in Datasets
  BY BatchAssumption DEF Datasets

LEMMA InitIInv == Init => IInv
<1> SUFFICES ASSUME Init PROVE IInv
  OBVIOUS
<1>1. BatchType
  <2>1. 0 \in 0 .. NSessions /\ "none" \in Stages
    BY BatchAssumption DEF Stages
  <2> QED BY <2>1, OneDataset DEF Init, BatchInit, BatchType
<1>2. TypeOK
  <2>1. visit \in 1 .. NDatasets + 1 /\ restarts \in 0 .. MaxRestarts + 1
        /\ launches \in Nat /\ errors \in 0 .. MaxErrors
    BY BatchAssumption, WatchdogAssumption DEF Init
  <2>2. stuck_log \in Seq(LogEntries)
    BY DEF Init
  <2> QED BY <1>1, <2>1, <2>2 DEF Init, TypeOK, Phases
<1>3. Waiting /\ Below /\ Counted
  BY WatchdogAssumption DEF Init, BatchInit, Waiting, Below, Counted
<1>4. AnswerNotWrittenOff
  BY DEF Init, BatchInit, AnswerNotWrittenOff
<1> QED BY <1>2, <1>3, <1>4 DEF IInv

-------------------------------------------------------------------------------
\* What any step of the batch does to its own files: none of them marks an
\* error, and an answer is written only where the ingest is complete.
LEMMA WorkKeepsFiles ==
  ASSUME BatchType, AnswerNotWrittenOff, Work \/ Die
  PROVE  BatchType' /\ AnswerNotWrittenOff'
<1> USE DEF BatchType
<1>1. ASSUME NEW s \in Stages, NEW n \in 0 .. NSessions, Checkpoint(s, n)
      PROVE  BatchType' /\ AnswerNotWrittenOff'
  BY <1>1 DEF Checkpoint, AnswerNotWrittenOff
<1>2. CASE Tear
  BY <1>2, BatchAssumption DEF Tear, AnswerNotWrittenOff, Stages
<1>3. CASE Answer
  BY <1>3 DEF Answer, AnswerNotWrittenOff
<1>4. CASE Leave
  <2>1. cur' \in Datasets /\ running' \in BOOLEAN
    <3>1. CASE cur < NDatasets
      BY <1>4, <3>1, BatchAssumption DEF Leave, Datasets
    <3>2. CASE ~(cur < NDatasets)
      BY <1>4, <3>2, OneDataset DEF Leave
    <3> QED BY <3>1, <3>2
  <2>2. judged' \in [Datasets -> BOOLEAN]
    BY <1>4 DEF Leave
  <2> QED BY <1>4, <2>1, <2>2 DEF Leave, AnswerNotWrittenOff
<1>5. CASE Die
  BY <1>5, OneDataset DEF Die, files, AnswerNotWrittenOff
<1> QED BY <1>1, <1>2, <1>3, <1>4, <1>5 DEF Work

\* A step of the batch, or its end, while main() waits for it.
LEMMA WorkIInv ==
  ASSUME IInv, phase = "run", Work \/ Die,
         UNCHANGED <<phase, timed_out, marking, counters>>
  PROVE  IInv'
<1>1. BatchType' /\ AnswerNotWrittenOff'
  BY WorkKeepsFiles DEF IInv, TypeOK
<1>2. TypeOK'
  BY <1>1 DEF IInv, TypeOK, marking, counters
<1>3. Waiting' /\ Below' /\ Counted'
  BY DEF IInv, Waiting, Below, Counted, counters, marking
<1> QED BY <1>1, <1>2, <1>3 DEF IInv

\* main() kills its batch, or finds it gone, and goes on elsewhere.
LEMMA KilledOrGone ==
  ASSUME IInv, IF running THEN Die ELSE UNCHANGED batch
  PROVE  BatchType' /\ AnswerNotWrittenOff' /\ ~running'
<1>1. CASE running
  BY <1>1, WorkKeepsFiles DEF IInv, TypeOK, Die
<1>2. CASE ~running
  BY <1>2 DEF IInv, TypeOK, BatchType, batch, files, AnswerNotWrittenOff
<1> QED BY <1>1, <1>2

\* The steps that leave the batch's files alone.
LEMMA QuietIInv ==
  ASSUME IInv, UNCHANGED batch,
         \/ AllCompleteExit \/ LaunchFails \/ RunEnds \/ Recheck
         \/ MarkingEnds \/ Restart \/ Retry \/ WatchdogFails
  PROVE  IInv'
<1>1. BatchType' /\ AnswerNotWrittenOff' /\ running' = running
  BY DEF IInv, TypeOK, BatchType, batch, files, AnswerNotWrittenOff
<1> USE <1>1, WatchdogAssumption, OneDataset
    DEF IInv, TypeOK, marking, counters, Phases, Ends, Waiting, Below, Counted
<1>2. CASE AllCompleteExit
  BY <1>2 DEF AllCompleteExit
<1>3. CASE LaunchFails
  <2>1. ~running /\ phase = "check" /\ phase' = "recheck"
    BY <1>3 DEF LaunchFails
  <2>2. TypeOK'
    BY <1>3, <2>1 DEF LaunchFails
  <2>3. Below' /\ Counted'
    BY <1>3, <2>1 DEF LaunchFails
  <2> QED BY <2>1, <2>2, <2>3
<1>4. CASE RunEnds
  BY <1>4 DEF RunEnds
<1>5. CASE Recheck
  BY <1>5, BatchAssumption DEF Recheck
<1>6. CASE MarkingEnds
  BY <1>6 DEF MarkingEnds
<1>7. CASE Restart
  BY <1>7 DEF Restart
<1>8. CASE Retry
  BY <1>8 DEF Retry
<1>9. CASE WatchdogFails
  BY <1>9 DEF WatchdogFails
<1> QED BY <1>2, <1>3, <1>4, <1>5, <1>6, <1>7, <1>8, <1>9

\* The marking pass: one dataset at a time, with no batch at work.
LEMMA MarkingIInv == ASSUME IInv, MarkDataset \/ MarkFails PROVE IInv'
<1>1. phase = "mark" /\ visit \in Datasets /\ visit' = visit + 1
      /\ UNCHANGED <<phase, timed_out, counters, count, output, judged, running, cur>>
  BY DEF MarkDataset, MarkFails, Mark, batch, files
<1>2. visit' \in 1 .. NDatasets + 1
  BY <1>1, BatchAssumption DEF Datasets
<1>3. stuck_log' \in Seq(LogEntries)
  <2>1. [dataset |-> visit, processed |-> count[visit]] \in LogEntries
    BY <1>1 DEF IInv, TypeOK, BatchType, LogEntries
  <2>2. stuck_log \in Seq(LogEntries)
    BY DEF IInv, TypeOK
  <2>3. stuck_log' = Append(stuck_log, [dataset |-> visit, processed |-> count[visit]])
        \/ stuck_log' = stuck_log
    BY DEF MarkDataset, MarkFails, LogStuck
  <2> QED BY <2>1, <2>2, <2>3
<1>4. stage' \in [Datasets -> Stages] /\ AnswerNotWrittenOff'
  <2>1. CASE Stuck(visit) /\ Mark(visit, Action(visit))
    <3>1. Action(visit) \in Stages
      BY DEF Action, Stages
    <3> QED BY <2>1, <3>1 DEF Mark, Stuck, IInv, TypeOK, BatchType, AnswerNotWrittenOff
  <2>2. CASE UNCHANGED batch
    BY <2>2 DEF batch, files, IInv, TypeOK, BatchType, AnswerNotWrittenOff
  <2> QED BY <2>1, <2>2 DEF MarkDataset, MarkFails
<1>5. TypeOK'
  BY <1>1, <1>2, <1>3, <1>4 DEF IInv, TypeOK, BatchType, counters
<1> QED BY <1>1, <1>4, <1>5 DEF IInv, Waiting, Below, Counted, counters

LEMMA NextIInv == IInv /\ [WatchdogNext]_vars => IInv'
<1> SUFFICES ASSUME IInv, [WatchdogNext]_vars PROVE IInv'
  OBVIOUS
<1>1. CASE AllCompleteExit \/ LaunchFails \/ RunEnds \/ Recheck
           \/ MarkingEnds \/ Restart \/ Retry \/ WatchdogFails
  <2>1. UNCHANGED batch
    BY <1>1 DEF AllCompleteExit, LaunchFails, RunEnds, Recheck, MarkingEnds, Restart,
                Retry, WatchdogFails
  <2> QED BY <1>1, <2>1, QuietIInv
<1>2. CASE LaunchBatch
  BY <1>2, OneDataset
     DEF LaunchBatch, Begin, files, marking, IInv, TypeOK, BatchType, Phases, Waiting, Below,
         Counted, AnswerNotWrittenOff
<1>3. CASE TimeoutKills
  <2>1. BatchType' /\ AnswerNotWrittenOff' /\ ~running'
    BY <1>3, KilledOrGone DEF TimeoutKills
  <2> QED BY <1>3, <2>1
          DEF TimeoutKills, marking, counters, IInv, TypeOK, Phases, Waiting, Below, Counted
<1>4. CASE MarkDataset \/ MarkFails
  BY <1>4, MarkingIInv
<1>5. CASE BatchWorks \/ BatchDies
  BY <1>5, WorkIInv DEF BatchWorks, BatchDies
<1>6. CASE Interrupt
  <2>1. BatchType' /\ AnswerNotWrittenOff' /\ ~running'
    BY <1>6, KilledOrGone DEF Interrupt
  <2> QED BY <1>6, <2>1
          DEF Interrupt, marking, counters, IInv, TypeOK, Ends, Phases, Waiting, Below, Counted
<1>7. CASE UNCHANGED vars
  BY <1>7 DEF vars, batch, files, marking, counters, IInv, TypeOK, BatchType, Waiting, Below,
              Counted, AnswerNotWrittenOff
<1> QED BY <1>1, <1>2, <1>3, <1>4, <1>5, <1>6, <1>7 DEF WatchdogNext, WatchdogStep

THEOREM InvariantHolds == WatchdogSpec => []IInv
<1>1. Init => IInv
  BY InitIInv
<1>2. IInv /\ [WatchdogNext]_vars => IInv'
  BY NextIInv
<1> QED BY <1>1, <1>2, PTL DEF WatchdogSpec

-------------------------------------------------------------------------------
\* For any datasets and limits, no batch runs but the one main() waits for: it
\* launches none and marks nothing while another may still write the files.
THEOREM OneBatchAtATime == WatchdogSpec => []SingleBatch
<1>1. IInv => SingleBatch
  BY DEF IInv, Waiting, SingleBatch
<1> QED BY <1>1, InvariantHolds, PTL

\* For any datasets and limits, every launch but the first is a restart the
\* limit counts or follows an exception of the watchdog.
THEOREM LaunchesAreCounted == WatchdogSpec => []RestartsCounted
<1>1. IInv => RestartsCounted
  BY DEF IInv, TypeOK, Counted, RestartsCounted
<1> QED BY <1>1, InvariantHolds, PTL

\* For any datasets and limits, a dataset with an answer file is never given up.
THEOREM AnswersAreKept == WatchdogSpec => []AnswerNotWrittenOff
<1>1. IInv => AnswerNotWrittenOff
  BY DEF IInv
<1> QED BY <1>1, InvariantHolds, PTL

-------------------------------------------------------------------------------
(* What is given up had its resumes.                                       *)

\* The events of a dataset since it last was at another count than now.
Since(d) == {k \in Events(d) :
                \A i \in {j \in Events(d) : stuck_log[j].processed # count[d]} : i < k}

\* Since another event of a dataset is in the log.
LEMMA LoggedEvents ==
  ASSUME TypeOK, NEW v \in Datasets, LogStuck(v)
  PROVE  /\ Len(stuck_log) \in Nat /\ Len(stuck_log) + 1 \notin DOMAIN stuck_log
         /\ \A i \in DOMAIN stuck_log : i < Len(stuck_log) + 1 /\ stuck_log'[i] = stuck_log[i]
         /\ Events(v)' = Events(v) \cup {Len(stuck_log) + 1}
         /\ stuck_log'[Len(stuck_log) + 1].processed = count[v]
         /\ \A d \in Datasets : d # v => Events(d)' = Events(d)
<1> DEFINE e == [dataset |-> v, processed |-> count[v]]
<1>1. stuck_log \in Seq(LogEntries) /\ e \in LogEntries
  BY DEF TypeOK, BatchType, LogEntries
<1>2. stuck_log' = Append(stuck_log, e)
  BY DEF LogStuck
<1> HIDE DEF e
<1>3. /\ Len(stuck_log) \in Nat /\ DOMAIN stuck_log = 1 .. Len(stuck_log)
      /\ DOMAIN stuck_log' = 1 .. Len(stuck_log) + 1
      /\ \A i \in 1 .. Len(stuck_log) : stuck_log'[i] = stuck_log[i]
      /\ stuck_log'[Len(stuck_log) + 1] = e
  BY <1>1, <1>2
<1>4. DOMAIN stuck_log' = DOMAIN stuck_log \cup {Len(stuck_log) + 1}
  BY <1>3
<1>5. /\ Len(stuck_log) + 1 \notin DOMAIN stuck_log
      /\ \A i \in DOMAIN stuck_log : i < Len(stuck_log) + 1
  BY <1>3
<1>6. e.dataset = v /\ e.processed = count[v]
  BY DEF e
<1> QED BY <1>3, <1>4, <1>5, <1>6 DEF Events

\* The marking pass gives a dataset up with one event more than it counted.
LEMMA MarkedAfterRetries ==
  ASSUME TypeOK, NEW v \in Datasets, LogStuck(v), Action(v) = "error", count' = count
  PROVE  Cardinality(Since(v)') > MAX_SAME_PROGRESS_RESUMES
<1> DEFINE S == {k \in Events(v) : \A i \in Events(v) : i >= k => stuck_log[i].processed = count[v]}
           n == Len(stuck_log) + 1
<1>1. Cardinality(S) >= MAX_SAME_PROGRESS_RESUMES
  BY DEF Action, SameProgress
<1>2. /\ n \notin DOMAIN stuck_log /\ Len(stuck_log) \in Nat
      /\ \A i \in DOMAIN stuck_log : i < n /\ stuck_log'[i] = stuck_log[i]
      /\ Events(v)' = Events(v) \cup {n} /\ stuck_log'[n].processed = count[v]
      /\ Events(v) \subseteq DOMAIN stuck_log
  BY LoggedEvents DEF Events
<1>3. S \subseteq Since(v)' /\ n \in Since(v)' /\ Since(v)' \subseteq S \cup {n}
  <2>1. \A i \in Events(v)' : stuck_log'[i].processed # count[v] =>
            i \in Events(v) /\ stuck_log[i].processed # count[v]
    BY <1>2
  <2>2. \A i \in Events(v) : i \in Int /\ i \in Events(v)'
            /\ stuck_log'[i].processed = stuck_log[i].processed
    <3>1. DOMAIN stuck_log = 1 .. Len(stuck_log)
      BY DEF TypeOK
    <3> QED BY <1>2, <3>1
  <2> HIDE DEF n
  <2>3. n \in Since(v)'
    BY <1>2, <2>1 DEF Since
  <2>4. ASSUME NEW k \in S PROVE k \in Since(v)'
    <3>1. ASSUME NEW i \in Events(v)', stuck_log'[i].processed # count[v] PROVE i < k
      <4>1. i \in Events(v) /\ stuck_log[i].processed # count[v] /\ i \in Int /\ k \in Int
        BY <2>1, <2>2, <2>4, <3>1
      <4>2. ~(i >= k)
        BY <2>4, <4>1
      <4> QED BY <4>1, <4>2
    <3> QED BY <1>2, <2>4, <3>1 DEF Since
  <2>5. ASSUME NEW k \in Since(v)', k # n PROVE k \in S
    <3>1. k \in Events(v)
      BY <1>2, <2>5 DEF Since
    <3>2. ASSUME NEW i \in Events(v), i >= k PROVE stuck_log[i].processed = count[v]
      <4>1. stuck_log'[i].processed # count[v] => i < k
        BY <2>2, <2>5, <3>2 DEF Since
      <4>2. i \in Int /\ k \in Int
        BY <2>2, <3>1, <3>2
      <4> QED BY <2>2, <3>2, <4>1, <4>2
    <3> QED BY <3>1, <3>2
  <2> QED BY <2>3, <2>4, <2>5
<1>4. IsFiniteSet(S) /\ n \notin S
  <2>1. S \subseteq 1 .. Len(stuck_log) /\ S \subseteq DOMAIN stuck_log
    BY DEF TypeOK, Events
  <2> QED BY <1>2, <2>1, FS_Interval, FS_Subset
<1>5. Cardinality(Since(v)') = Cardinality(S) + 1 /\ Cardinality(S) \in Nat
  <2>1. Since(v)' = S \cup {n}
    BY <1>3
  <2> HIDE DEF S, n
  <2> QED BY <1>4, <2>1, FS_AddElement, FS_CardinalityType
<1> QED BY <1>1, <1>5, WatchdogAssumption

\* Nothing else gives a dataset up, and one that is given up stays as it is.
LEMMA RetriesKept ==
  ASSUME IInv, ErrorAfterRetries, [WatchdogNext]_vars
  PROVE  ErrorAfterRetries'
<1> SUFFICES ASSUME NEW d \in Datasets, (stage[d] = "error")'
             PROVE  Cardinality(Since(d)') > MAX_SAME_PROGRESS_RESUMES
  BY DEF ErrorAfterRetries, Since, Events
<1>1. ASSUME stage[d] = "error", count'[d] = count[d], Events(d)' = Events(d),
             \A i \in Events(d) : stuck_log'[i] = stuck_log[i]
      PROVE  Cardinality(Since(d)') > MAX_SAME_PROGRESS_RESUMES
  <2>1. Since(d)' = Since(d)
    BY <1>1 DEF Since
  <2>2. Cardinality(Since(d)) > MAX_SAME_PROGRESS_RESUMES
    BY <1>1 DEF ErrorAfterRetries, Since
  <2> QED BY <2>1, <2>2
<1>2. CASE stuck_log' = stuck_log /\ (Work \/ Die)
  <2>1. stage[d] = "error" /\ count'[d] = count[d]
    <3> USE DEF IInv, TypeOK, BatchType
    <3>1. ASSUME NEW s \in Stages, NEW n \in 0 .. NSessions, Checkpoint(s, n)
          PROVE  stage[d] = "error" /\ count'[d] = count[d]
      BY <3>1 DEF Checkpoint
    <3>2. CASE Tear
      BY <3>2 DEF Tear
    <3>3. CASE Answer \/ Leave \/ Die
      BY <3>3 DEF Answer, Leave, Die, files
    <3> QED BY <1>2, <3>1, <3>2, <3>3 DEF Work
  <2> QED BY <1>1, <1>2, <2>1 DEF Events
<1>3. CASE UNCHANGED <<stuck_log, files>>
  BY <1>1, <1>3 DEF Events, files
<1>4. CASE MarkDataset \/ MarkFails
  <2> DEFINE v == visit
  <2>1. v \in Datasets /\ TypeOK /\ count' = count
    BY <1>4 DEF MarkDataset, MarkFails, Mark, batch, files, IInv
  <2>2. \/ stuck_log' = stuck_log
        \/ LogStuck(v) /\ Stuck(v)
    BY <1>4 DEF MarkDataset, MarkFails
  <2>3. stage[d] = "error" \/ (d = v /\ LogStuck(v) /\ Action(v) = "error")
    BY <1>4 DEF MarkDataset, MarkFails, Mark, batch, files, IInv, TypeOK, BatchType
  <2>4. CASE stage[d] = "error"
    <3>1. Stuck(v) => d # v
      BY <2>4 DEF Stuck, TERMINAL_STAGES
    <3>2. Events(d)' = Events(d) /\ \A i \in Events(d) : stuck_log'[i] = stuck_log[i]
      <4>1. CASE stuck_log' = stuck_log
        BY <4>1 DEF Events
      <4>2. CASE LogStuck(v) /\ Stuck(v)
        BY <2>1, <3>1, <4>2, LoggedEvents DEF Events
      <4> QED BY <2>2, <4>1, <4>2
    <3> QED BY <1>1, <2>1, <2>4, <3>2
  <2>5. CASE d = v /\ LogStuck(v) /\ Action(v) = "error"
    BY <2>1, <2>5, MarkedAfterRetries
  <2> QED BY <2>3, <2>4, <2>5
<1>5. CASE TimeoutKills \/ Interrupt
  <2>1. stuck_log' = stuck_log /\ (Die \/ UNCHANGED batch)
    BY <1>5 DEF TimeoutKills, Interrupt, marking
  <2> QED BY <1>2, <1>3, <2>1 DEF batch
<1>6. CASE BatchWorks \/ BatchDies
  BY <1>2, <1>6 DEF BatchWorks, BatchDies, marking
<1>7. CASE \/ AllCompleteExit \/ LaunchBatch \/ LaunchFails \/ RunEnds \/ Recheck
           \/ MarkingEnds \/ Restart \/ Retry \/ WatchdogFails \/ UNCHANGED vars
  <2>1. UNCHANGED <<stuck_log, files>>
    BY <1>7 DEF AllCompleteExit, LaunchBatch, Begin, LaunchFails, RunEnds, Recheck,
                MarkingEnds, Restart, Retry, WatchdogFails, vars, batch, marking
  <2> QED BY <1>3, <2>1
<1> QED BY <1>4, <1>5, <1>6, <1>7 DEF WatchdogNext, WatchdogStep

\* For any datasets and limits: what the watchdog gives up had more timeouts in
\* a row at its present count than MAX_SAME_PROGRESS_RESUMES and has no answer,
\* and no launch goes uncounted (mark_stuck_datasets_as_skipped, main).
THEOREM BudgetsAreAlwaysKept == WatchdogSpec => []BudgetsAreKept
<1>1. Init => ErrorAfterRetries
  BY DEF Init, BatchInit, ErrorAfterRetries
<1>2. IInv /\ ErrorAfterRetries /\ [WatchdogNext]_vars => ErrorAfterRetries'
  BY RetriesKept
<1>3. WatchdogSpec => []ErrorAfterRetries
  BY <1>1, <1>2, InvariantHolds, PTL DEF WatchdogSpec
<1>4. IInv /\ ErrorAfterRetries => BudgetsAreKept
  BY DEF IInv, TypeOK, Counted, RestartsCounted, BudgetsAreKept
<1> QED BY <1>3, <1>4, InvariantHolds, PTL
===============================================================================
