---------------------------- MODULE LongMemResults -----------------------------
(***************************************************************************)
(* The results of one LongMem category: a CSV per dataset with one row,    *)
(* the tables progress.csv and all_answers.csv that gather the rows, and   *)
(* the aggregate of the unified judge.  Written by reruns of finished      *)
(* datasets (experiment/longmem/pipeline/rerun.py, driven by the rerun     *)
(* mode of watchdog.py), each over datasets of its own, and by the longmem *)
(* half of experiment/benchmarking/evaluation/judge.py.                    *)
(*                                                                         *)
(* An answer is known by its number among those generated for its dataset. *)
(* A CSV is rewritten in place: whoever reads it in the middle, and        *)
(* whoever finds it after the writer died, cannot read it; of two writers  *)
(* at the same time the last is taken to leave a whole file.  The tables   *)
(* are replaced atomically.  The wording of questions, contexts and        *)
(* answers, and the diagnosis of failures, are left out.                   *)
(***************************************************************************)
EXTENDS Integers, FiniteSets, FiniteSetsExt

CONSTANTS
    NDatasets,    \* datasets of the category, in the order of their names
    Abstentions,  \* those whose name ends in _abs
    Golden,       \* those with a gold answer
    Reruns,       \* rerun processes
    Selection,    \* the datasets each is asked for
    VoteCounts,   \* values of --votes an operator may give
    MaxAnswers,   \* bound on the answers generated for a dataset
    Budgets,      \* bounds: starts of each rerun, runs of the unified judge
    Nobody        \* holder of a free lock

Datasets == 1 .. NDatasets

ASSUME ResultsAssumption ==
    /\ NDatasets \in Nat /\ Abstentions \subseteq Datasets /\ Golden \subseteq Datasets
    /\ Selection \in [Reruns -> SUBSET Datasets] /\ Nobody \notin Reruns
    /\ \A p, q \in Reruns : p # q => Selection[p] \cap Selection[q] = {}
    /\ VoteCounts \subseteq Nat \ {0}
    /\ MaxAnswers \in Nat
    /\ Budgets \subseteq [launches : [Reruns -> Nat], judgings : Nat]

Answers == 1 .. MaxAnswers

\* A verdict: the answer it was given to, of how many votes, and what it says.
Unjudged == [of |-> 0, votes |-> 0, value |-> 0]
Verdicts == {Unjudged} \cup [of : Answers, votes : {1} \cup VoteCounts, value : {0, 1}]

\* The row of a dataset's CSV: the answer, the rerun's verdict, and the columns
\* of the unified judge.
Columns == {"correctness", "4omini", "3vote", "absrubric"}
Fresh(a, v) == [answer |-> a,
                verdict |-> [c \in Columns |-> IF c = "correctness" THEN v ELSE Unjudged]]
NoRow == Fresh(0, Unjudged)
CsvRows == [answer : {0} \cup Answers, verdict : [Columns -> Verdicts]]

\* The row of a dataset in a table.
TableRow(a, v) == [answer |-> a, verdict |-> v]
NoEntry == TableRow(0, Unjudged)
Tables == [Datasets -> [answer : {0} \cup Answers, verdict : Verdicts]]

VARIABLES
    \* files
    csv,        \* whether there is a CSV, and a readable one
    row,        \* its row
    progress,   \* progress.csv
    answers,    \* all_answers.csv
    lock,       \* who holds progress.csv.lock
    aggregate,  \* _correctness_aggregate_judge.json
    \* each rerun
    pc, stages, todo,
    result,     \* what the dataset under way gave
    successes,  \* results of the datasets finished
    saved,      \* those of them in progress.csv
    view,       \* the table as this process read it
    \* the unified judge
    jpc, votes,
    job,        \* where the pool is with each file
    frame,      \* a file as the pool holds it
    unscored,   \* files still to be scored
    counted,    \* files with a verdict among those scored
    alone,      \* no rerun wrote a file since the judge was launched
    \* history and bounds
    made,       \* answers generated so far
    posted,     \* the row of each dataset last saved to progress.csv
    launches, judgings   \* what is left of the budget

files == <<csv, row>>
tables == <<progress, answers, lock>>
rerun == <<pc, stages, todo, result, successes, saved, view>>
judge == <<jpc, votes, job, frame, unscored, counted, alone>>
history == <<made, posted, launches, judgings>>
vars == <<files, tables, aggregate, rerun, judge, history>>

Results == [dataset : Datasets, answer : {0} \cup Answers, verdict : Verdicts]
Jobs == {"out", "queued", "read", "judged", "writing", "done", "kept", "raised"}
NoAggregate == [asked |-> {}, counted |-> {}, alone |-> FALSE]

TypeOK ==
    /\ csv \in [Datasets -> {"missing", "cut", "whole"}] /\ row \in [Datasets -> CsvRows]
    /\ progress \in Tables /\ answers \in Tables /\ lock \in Reruns \cup {Nobody}
    /\ aggregate \in [asked : SUBSET Datasets, counted : SUBSET Datasets, alone : BOOLEAN]
    /\ pc \in [Reruns -> {"idle", "dataset", "open", "write", "progress", "locked",
                          "answers", "merge"}]
    /\ stages \in [Reruns -> SUBSET {"qa_eval", "judge"}]
    /\ todo \in [Reruns -> SUBSET Datasets] /\ successes \in [Reruns -> SUBSET Results]
    /\ result \in [Reruns -> [answer : {0} \cup Answers, verdict : Verdicts]]
    /\ saved \in [Reruns -> SUBSET Results] /\ view \in [Reruns -> Tables]
    /\ jpc \in {"idle", "pool", "score"} /\ votes \in {0} \cup VoteCounts
    /\ job \in [Datasets -> Jobs] /\ frame \in [Datasets -> CsvRows]
    /\ unscored \subseteq Datasets /\ counted \subseteq Datasets
    /\ made \in [Datasets -> 0 .. MaxAnswers] /\ posted \in Tables /\ alone \in BOOLEAN
    /\ launches \in [Reruns -> Nat] /\ judgings \in Nat

Init ==
    /\ csv = [d \in Datasets |-> "missing"] /\ row = [d \in Datasets |-> NoRow]
    /\ progress = [d \in Datasets |-> NoEntry] /\ answers = progress /\ lock = Nobody
    /\ aggregate = NoAggregate
    /\ pc = [p \in Reruns |-> "idle"] /\ stages = [p \in Reruns |-> {}]
    /\ todo = [p \in Reruns |-> {}] /\ successes = todo
    /\ result = [p \in Reruns |-> NoEntry] /\ saved = todo
    /\ view = [p \in Reruns |-> progress]
    /\ jpc = "idle" /\ votes = 0 /\ job = [d \in Datasets |-> "out"] /\ frame = row
    /\ unscored = {} /\ counted = {}
    /\ made = [d \in Datasets |-> 0] /\ posted = progress /\ alone = FALSE
    /\ \E b \in Budgets : launches = b.launches /\ judgings = b.judgings

-----------------------------------------------------------------------------
(* Reruns.                                                                 *)

\* Datasets are taken in the order of their names.
First(d, S) == d \in S /\ \A e \in S : d <= e

\* A run that only answers goes on where an earlier one stopped; a CSV that is
\* there counts as done.
Complete(d) == csv[d] # "missing"
Skipped(d, st) == st = {"qa_eval"} /\ Complete(d)
ToRun(p, st) == {d \in Selection[p] : ~Skipped(d, st)}

LaunchRerun(p) ==
    /\ pc[p] = "idle" /\ launches[p] > 0
    /\ \E st \in SUBSET {"qa_eval", "judge"} \ {{}} :
          /\ ToRun(p, st) # {}
          /\ stages' = [stages EXCEPT ![p] = st]
          /\ todo' = [todo EXCEPT ![p] = ToRun(p, st)]
    /\ pc' = [pc EXCEPT ![p] = "dataset"]
    /\ launches' = [launches EXCEPT ![p] = @ - 1]
    /\ UNCHANGED <<files, tables, aggregate, result, successes, saved, view, judge, made,
                   posted, judgings>>

\* The answers a dataset can give: a new one, or without the qa_eval stage the
\* one in its CSV, if that can be read.
AnswersFor(p, d) ==
    IF "qa_eval" \in stages[p]
    THEN {made[d] + 1} \cap Answers
    ELSE IF csv[d] = "whole" THEN {row[d].answer} ELSE {}

\* The verdict it gets: none when it is not judged or has no gold.  Nothing
\* depends on what it says.
VerdictFor(p, d, a) ==
    IF "judge" \in stages[p] /\ d \in Golden
    THEN [of |-> a, votes |-> 1, value |-> 0]
    ELSE Unjudged

\* rerun_dataset up to the rewriting of the CSV, over stores and a graph that
\* are its own and are cleared in the end.
RerunDataset(p) ==
    /\ pc[p] = "dataset"
    /\ \E d \in Datasets : \E a \in AnswersFor(p, d) :
          /\ First(d, todo[p])
          /\ result' = [result EXCEPT ![p] = TableRow(a, VerdictFor(p, d, a))]
          /\ made' = [made EXCEPT ![d] = Max({@, a})]
    /\ pc' = [pc EXCEPT ![p] = "open"]
    /\ UNCHANGED <<files, tables, aggregate, stages, todo, successes, saved, view, judge,
                   posted, launches, judgings>>

\* After the last dataset the tables get the results, if there are any.
Onward(p, d, won) ==
    /\ todo' = [todo EXCEPT ![p] = @ \ {d}]
    /\ successes' = [successes EXCEPT ![p] = won]
    /\ pc' = [pc EXCEPT ![p] = IF todo'[p] # {} THEN "dataset"
                               ELSE IF won = {} THEN "idle" ELSE "progress"]

\* Anything in it raises: the dataset is an error of this run, its CSV as it was.
RerunRaises(p) ==
    /\ pc[p] = "dataset"
    /\ \E d \in Datasets : First(d, todo[p]) /\ Onward(p, d, successes[p])
    /\ UNCHANGED <<files, tables, aggregate, stages, result, saved, view, judge, history>>

\* result_df.to_csv: a new file with one row, whatever the old one held.
RerunOpens(p) ==
    /\ pc[p] = "open"
    /\ \E d \in Datasets : First(d, todo[p]) /\ csv' = [csv EXCEPT ![d] = "cut"]
    /\ alone' = FALSE
    /\ pc' = [pc EXCEPT ![p] = "write"]
    /\ UNCHANGED <<row, tables, aggregate, stages, todo, result, successes, saved, view,
                   jpc, votes, job, frame, unscored, counted, history>>

\* Mutated form of NewRow: only the recomputed columns change.
MergedRow(d, res) ==
    [answer |-> res.answer,
     verdict |-> [row[d].verdict EXCEPT !["correctness"] = res.verdict]]

NewRow(d, res) == Fresh(res.answer, res.verdict)

RerunWrites(p) ==
    /\ pc[p] = "write"
    /\ \E d \in Datasets :
          /\ First(d, todo[p])
          /\ csv' = [csv EXCEPT ![d] = "whole"]
          /\ row' = [row EXCEPT ![d] = NewRow(d, result[p])]
          /\ Onward(p, d, successes[p] \cup
                             {[dataset |-> d, answer |-> result[p].answer,
                               verdict |-> result[p].verdict]})
    /\ result' = [result EXCEPT ![p] = NoEntry]
    /\ alone' = FALSE
    /\ UNCHANGED <<tables, aggregate, stages, saved, view, jpc, votes, job, frame, unscored,
                   counted, history>>

Idle(p) ==
    /\ pc' = [pc EXCEPT ![p] = "idle"] /\ stages' = [stages EXCEPT ![p] = {}]
    /\ todo' = [todo EXCEPT ![p] = {}] /\ successes' = [successes EXCEPT ![p] = {}]
    /\ result' = [result EXCEPT ![p] = NoEntry] /\ saved' = [saved EXCEPT ![p] = {}]
    /\ view' = [view EXCEPT ![p] = [d \in Datasets |-> NoEntry]]

Put(table, res) == [table EXCEPT ![res.dataset] = TableRow(res.answer, res.verdict)]

\* Mutated form of LockFree: the table is read whoever is at it.
LockIgnored(p) == TRUE

LockFree(p) == lock = Nobody

\* save_progress_row for every result: the table is read and replaced under the
\* lock of its file.
LockProgress(p) ==
    /\ pc[p] = "progress" /\ LockFree(p)
    /\ lock' = p /\ view' = [view EXCEPT ![p] = progress]
    /\ pc' = [pc EXCEPT ![p] = "locked"]
    /\ UNCHANGED <<files, progress, answers, aggregate, stages, todo, result, successes,
                   saved, judge, history>>

SaveProgress(p) ==
    /\ pc[p] = "locked"
    /\ \E res \in successes[p] \ saved[p] :
          /\ \A other \in successes[p] \ saved[p] : res.dataset <= other.dataset
          /\ progress' = Put(view[p], res) /\ posted' = Put(posted, res)
          /\ saved' = [saved EXCEPT ![p] = @ \cup {res}]
    /\ lock' = Nobody
    /\ pc' = [pc EXCEPT ![p] = IF saved'[p] = successes[p] THEN "answers" ELSE "progress"]
    /\ UNCHANGED <<files, answers, aggregate, stages, todo, result, successes, view, judge,
                   made, launches, judgings>>

\* update_all_answers_csv: read, changed and replaced without a lock.
ReadAnswers(p) ==
    /\ pc[p] = "answers"
    /\ view' = [view EXCEPT ![p] = answers]
    /\ pc' = [pc EXCEPT ![p] = "merge"]
    /\ UNCHANGED <<files, tables, aggregate, stages, todo, result, successes, saved, judge,
                   history>>

\* A run has one result of a dataset.
ResultOf(d, won) == CHOOSE res \in won : res.dataset = d
Merged(table, won) ==
    [d \in Datasets |-> IF \E res \in won : res.dataset = d
                       THEN TableRow(ResultOf(d, won).answer, ResultOf(d, won).verdict)
                       ELSE table[d]]

MergeAnswers(p) ==
    /\ pc[p] = "merge"
    /\ answers' = Merged(view[p], successes[p])
    /\ Idle(p)
    /\ UNCHANGED <<files, progress, lock, aggregate, judge, history>>

\* The process is killed; its lock goes with it.
KillRerun(p) ==
    /\ pc[p] # "idle"
    /\ Idle(p)
    /\ lock' = IF lock = p THEN Nobody ELSE lock
    /\ UNCHANGED <<files, progress, answers, aggregate, judge, history>>

-----------------------------------------------------------------------------
(* The unified judge.                                                      *)

\* The column a file's verdict goes to.
Target(d, n) ==
    IF d \in Abstentions THEN "absrubric" ELSE IF n = 1 THEN "4omini" ELSE "3vote"

LaunchJudge ==
    /\ jpc = "idle" /\ judgings > 0
    /\ \E n \in VoteCounts : votes' = n
    /\ job' = [d \in Datasets |-> IF csv[d] = "missing" THEN "out" ELSE "queued"]
    /\ jpc' = "pool" /\ alone' = TRUE /\ judgings' = judgings - 1
    /\ UNCHANGED <<files, tables, aggregate, rerun, frame, unscored, counted, made, posted,
                   launches>>

\* A file that cannot be read makes its job raise.
JudgeReads(d) ==
    /\ jpc = "pool" /\ job[d] = "queued"
    /\ IF csv[d] = "whole"
       THEN job' = [job EXCEPT ![d] = "read"] /\ frame' = [frame EXCEPT ![d] = row[d]]
       ELSE job' = [job EXCEPT ![d] = "raised"] /\ UNCHANGED frame
    /\ UNCHANGED <<files, tables, aggregate, rerun, jpc, votes, unscored, counted, alone,
                   history>>

\* The first verdict of a row: one it carries from a run with one vote, or new.
Vote(r, n, v) == [of |-> r.answer, votes |-> n, value |-> v]
Firsts(d, r) ==
    IF d \notin Abstentions /\ r.verdict["4omini"] # Unjudged
    THEN {r.verdict["4omini"]}
    ELSE {Vote(r, 1, v) : v \in {0, 1}}

\* The final one: the first when it is favourable, when the file has one vote
\* only, and for an abstention; otherwise the majority of so many votes.
Finals(d, r, first) ==
    IF first.value = 1 \/ votes = 1 \/ d \in Abstentions
    THEN {first}
    ELSE {Vote(r, votes, v) : v \in {0, 1}}

\* A row that has its verdict is left as it is, and so is its file.
JudgeRow(d) ==
    /\ jpc = "pool" /\ job[d] = "read"
    /\ LET r == frame[d]
           c == Target(d, votes)
       IN  IF r.verdict[c] # Unjudged
           THEN job' = [job EXCEPT ![d] = "kept"] /\ frame' = [frame EXCEPT ![d] = NoRow]
           ELSE /\ \E first \in Firsts(d, r) : \E final \in Finals(d, r, first) :
                      frame' = [frame EXCEPT ![d].verdict[c] = final]
                /\ job' = [job EXCEPT ![d] = "judged"]
    /\ UNCHANGED <<files, tables, aggregate, rerun, jpc, votes, unscored, counted, alone,
                   history>>

\* A judge call fails for good, or gives an error no retry is made for.
JudgeRaises(d) ==
    /\ jpc = "pool" /\ job[d] = "read" /\ frame[d].verdict[Target(d, votes)] = Unjudged
    /\ job' = [job EXCEPT ![d] = "raised"] /\ frame' = [frame EXCEPT ![d] = NoRow]
    /\ UNCHANGED <<files, tables, aggregate, rerun, jpc, votes, unscored, counted, alone,
                   history>>

\* The file is rewritten in place, once, with what was read of it.
JudgeOpens(d) ==
    /\ jpc = "pool" /\ job[d] = "judged"
    /\ csv' = [csv EXCEPT ![d] = "cut"]
    /\ job' = [job EXCEPT ![d] = "writing"]
    /\ UNCHANGED <<row, tables, aggregate, rerun, jpc, votes, frame, unscored, counted, alone,
                   history>>

JudgeWrites(d) ==
    /\ jpc = "pool" /\ job[d] = "writing"
    /\ csv' = [csv EXCEPT ![d] = "whole"]
    /\ row' = [row EXCEPT ![d] = frame[d]]
    /\ job' = [job EXCEPT ![d] = "done"] /\ frame' = [frame EXCEPT ![d] = NoRow]
    /\ UNCHANGED <<tables, aggregate, rerun, jpc, votes, unscored, counted, alone,
                   history>>

Asked == {d \in Datasets : job[d] # "out"}
Settled == \A d \in Datasets : job[d] \in {"out", "done", "kept", "raised"}

JudgeGone ==
    /\ jpc' = "idle" /\ votes' = 0 /\ unscored' = {} /\ counted' = {}
    /\ job' = [d \in Datasets |-> "out"] /\ frame' = [d \in Datasets |-> NoRow]
    /\ alone' = FALSE

\* Mutated form of ToScore: what this run judged is scored.
ToScoreJudged == {d \in Asked : job[d] = "done"}

ToScore == Asked

\* The pool has come to its end: one job that raised ends the run without an
\* aggregate, otherwise all files are read again.
EndPool ==
    /\ jpc = "pool" /\ Settled
    /\ IF \E d \in Asked : job[d] = "raised"
       THEN JudgeGone
       ELSE /\ jpc' = "score" /\ unscored' = ToScore
            /\ UNCHANGED <<votes, job, frame, counted, alone>>
    /\ UNCHANGED <<files, tables, aggregate, rerun, history>>

Score ==
    /\ jpc = "score"
    /\ \E d \in Datasets :
          /\ First(d, unscored)
          /\ IF csv[d] # "whole"
             THEN JudgeGone
             ELSE /\ unscored' = unscored \ {d}
                  /\ counted' = IF row[d].verdict[Target(d, votes)] # Unjudged
                                THEN counted \cup {d} ELSE counted
                  /\ UNCHANGED <<jpc, votes, job, frame, alone>>
    /\ UNCHANGED <<files, tables, aggregate, rerun, history>>

WriteAggregate ==
    /\ jpc = "score" /\ unscored = {}
    /\ aggregate' = [asked |-> Asked, counted |-> counted, alone |-> alone]
    /\ JudgeGone
    /\ UNCHANGED <<files, tables, rerun, history>>

KillJudge ==
    /\ jpc # "idle"
    /\ JudgeGone
    /\ UNCHANGED <<files, tables, aggregate, rerun, history>>

-----------------------------------------------------------------------------
RerunSteps ==
    \E p \in Reruns :
        \/ LaunchRerun(p) \/ RerunDataset(p) \/ RerunRaises(p)
        \/ RerunOpens(p) \/ RerunWrites(p)
        \/ LockProgress(p) \/ SaveProgress(p) \/ ReadAnswers(p) \/ MergeAnswers(p)
        \/ KillRerun(p)

JudgeSteps ==
    \/ LaunchJudge
    \/ \E d \in Datasets : \/ JudgeReads(d) \/ JudgeRow(d) \/ JudgeRaises(d)
                           \/ JudgeOpens(d) \/ JudgeWrites(d)
    \/ EndPool \/ Score \/ WriteAggregate \/ KillJudge

Next == RerunSteps \/ JudgeSteps

Spec == Init /\ [][Next]_vars

-----------------------------------------------------------------------------
(* What holds.                                                             *)

\* Every verdict, in a CSV or in a table, was given to the answer beside it.
OfItsAnswer ==
    /\ \A d \in Datasets, c \in Columns : row[d].verdict[c].of \in {0, row[d].answer}
    /\ \A d \in Datasets : /\ progress[d].verdict.of \in {0, progress[d].answer}
                           /\ answers[d].verdict.of \in {0, answers[d].answer}

\* A column says how its verdicts came about: an abstention has one vote and a
\* column of its own, and the column of the majority has single votes only
\* where they are favourable.
ColumnsTellTheVote ==
    \A d \in Datasets :
        LET v == row[d].verdict
        IN  /\ d \in Abstentions => v["4omini"] = Unjudged /\ v["3vote"] = Unjudged
            /\ d \notin Abstentions => v["absrubric"] = Unjudged
            /\ v["4omini"].votes <= 1 /\ v["absrubric"].votes <= 1
            /\ v["3vote"].votes = 1 => v["3vote"].value = 1

\* Whatever reruns and the judge do to a file side by side, and wherever they
\* are killed, a verdict stands beside the answer it judged, in its column.
VerdictsFit == TypeOK /\ OfItsAnswer /\ ColumnsTellTheVote

\* No row saved to progress.csv is lost to another process.
ProgressKept == progress = posted

\* The aggregate of a run that no rerun disturbed counts every file of the run,
\* also those that an earlier run, killed or failed, had judged.
AggregateCountsAll == aggregate.alone => aggregate.counted = aggregate.asked
=============================================================================
