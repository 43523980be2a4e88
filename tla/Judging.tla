-------------------------------- MODULE Judging --------------------------------
(***************************************************************************)
(* The files of one LoCoMo sample that hold its score, and the two         *)
(* programs that fill them: the worker, which answers the questions and    *)
(* judges the answers row by row (experiment/locomo/pipeline/worker.py,    *)
(* stages/qa_eval.py, stages/judge.py), and the unified judge, which       *)
(* judges them again with several votes and a pool of threads              *)
(* (experiment/benchmarking/evaluation/judge.py).  Both read what they     *)
(* wrote before and skip the rows that carry a verdict.                    *)
(*                                                                         *)
(* Every evaluation of the sample gives new answers, so the answers in a   *)
(* file are known by the attempt they come from.  A file is rewritten in   *)
(* place: a process that dies while it writes leaves the first rows of it, *)
(* or an empty file, which no program reads any more.  A row cut in the    *)
(* middle, and samples without questions, are left out.                    *)
(***************************************************************************)
EXTENDS Integers, Sequences, FiniteSets

CONSTANTS
    NQuestions,   \* questions of the sample
    VoteCounts,   \* values of --votes an operator may give
    SaveEvery,    \* rows judged by the pool between two saves
    MaxAttempts,  \* bound on the evaluations of the sample
    None          \* no such file

ASSUME JudgingAssumption ==
    /\ NQuestions \in Nat \ {0} /\ MaxAttempts \in Nat
    /\ VoteCounts \subseteq Nat \ {0} /\ SaveEvery \in Nat \ {0}

Questions == 1 .. NQuestions
Attempts == 1 .. MaxAttempts

\* A verdict column holds one of these for a row; "" where there is none.
Verdicts == {"correct", "wrong"}
Column == UNION {[1 .. n -> Verdicts \cup {""}] : n \in 0 .. NQuestions}
Blank(n) == [i \in 1 .. n |-> ""]

VARIABLES
    \* files
    evals,     \* the answers: their attempt and the number of rows
    judged,    \* the worker's verdicts
    votes3,    \* the unified judge's first and final verdicts
    summary,   \* the verdicts summed up in correctness_summary.json
    \* the worker
    pc, stages, df, row,
    \* the unified judge
    rpc, votes, rdf, results, next,
    \* bound
    attempts   \* evaluations so far

files == <<evals, judged, votes3, summary>>
worker == <<pc, stages, df, row>>
rejudge == <<rpc, votes, rdf, results, next>>
vars == <<files, worker, rejudge, attempts>>

EvalFiles == [attempt : Attempts, rows : 0 .. NQuestions]
JudgeFiles == [attempt : Attempts, verdicts : Column]
VoteFiles == [attempt : Attempts, first : Column, final : Column]

\* What the pool made of a row: nothing yet, an exception, or two verdicts.
Pending == [first |-> "", final |-> ""]
Raised == [first |-> "raised", final |-> "raised"]
Results == {Pending, Raised} \cup [first : Verdicts, final : Verdicts]

TypeOK ==
    /\ evals \in {None} \cup EvalFiles
    /\ judged \in {None} \cup JudgeFiles
    /\ votes3 \in {None} \cup VoteFiles
    /\ summary \in {None} \cup JudgeFiles
    /\ pc \in {"idle", "eval", "judge", "row", "summary"}
    /\ stages \in SUBSET {"qa_eval", "judge"}
    /\ df \in {None} \cup JudgeFiles
    /\ row \in 1 .. NQuestions + 1
    /\ rpc \in {"idle", "pool"}
    /\ votes \in {0} \cup VoteCounts
    /\ rdf \in {None} \cup VoteFiles
    /\ results \in [Questions -> Results]
    /\ next \in 1 .. NQuestions + 1
    /\ attempts \in 0 .. MaxAttempts

WorkerGone == pc' = "idle" /\ stages' = {} /\ df' = None /\ row' = 1
RejudgeGone ==
    /\ rpc' = "idle" /\ votes' = 0 /\ rdf' = None /\ next' = 1
    /\ results' = [i \in Questions |-> Pending]

Init ==
    /\ evals = None /\ judged = None /\ votes3 = None /\ summary = None
    /\ pc = "idle" /\ stages = {} /\ df = None /\ row = 1
    /\ rpc = "idle" /\ votes = 0 /\ rdf = None /\ next = 1
    /\ results = [i \in Questions |-> Pending]
    /\ attempts = 0

-------------------------------------------------------------------------------
(* The worker *)

LaunchWorker ==
    /\ pc = "idle"
    /\ stages' \in SUBSET {"qa_eval", "judge"} \ {{}}
    /\ pc' = IF "qa_eval" \in stages' THEN "eval" ELSE "judge"
    /\ UNCHANGED <<files, df, row, rejudge, attempts>>

\* evaluate_items, then write_eval_csv.  A question that could not be
\* answered gets a row all the same.
Evaluate ==
    /\ pc = "eval" /\ attempts < MaxAttempts
    /\ attempts' = attempts + 1
    /\ evals' = [attempt |-> attempts', rows |-> NQuestions]
    /\ IF "judge" \in stages
       THEN pc' = "judge" /\ UNCHANGED <<stages, df, row>>
       ELSE WorkerGone
    /\ UNCHANGED <<judged, votes3, summary, rejudge>>

\* llm_as_judge_singlemode takes up its own output, if there is one, and the
\* answers otherwise.  Without any answers, or on an empty file, it raises.
Load ==
    /\ pc = "judge" /\ evals # None
    /\ df' = IF judged # None THEN judged
             ELSE [attempt |-> evals.attempt, verdicts |-> Blank(evals.rows)]
    /\ df'.verdicts # <<>>
    /\ row' = 1 /\ pc' = "row"
    /\ UNCHANGED <<files, stages, rejudge, attempts>>

\* Mutant: a resume judges again what it finds judged.
JudgeRowAgain ==
    /\ pc = "row" /\ row <= Len(df.verdicts)
    /\ \E v \in Verdicts : df' = [df EXCEPT !.verdicts[row] = v]
    /\ judged' = df'
    /\ row' = row + 1
    /\ UNCHANGED <<evals, votes3, summary, pc, stages, rejudge, attempts>>

\* A row without a verdict is judged; an answer of the judge that cannot be
\* read counts as wrong.  The whole file is written after every row.
JudgeRow ==
    /\ pc = "row" /\ row <= Len(df.verdicts)
    /\ IF df.verdicts[row] # "" THEN df' = df
       ELSE \E v \in Verdicts : df' = [df EXCEPT !.verdicts[row] = v]
    /\ judged' = df'
    /\ row' = row + 1
    /\ UNCHANGED <<evals, votes3, summary, pc, stages, rejudge, attempts>>

\* Mutant: a summary of what has been judged so far.
EndRowsEarly ==
    /\ pc = "row"
    /\ judged' = df
    /\ pc' = "summary"
    /\ UNCHANGED <<evals, votes3, summary, stages, df, row, rejudge, attempts>>

EndRows ==
    /\ pc = "row" /\ row > Len(df.verdicts)
    /\ judged' = df
    /\ pc' = "summary"
    /\ UNCHANGED <<evals, votes3, summary, stages, df, row, rejudge, attempts>>

Summarize ==
    /\ pc = "summary"
    /\ summary' = df
    /\ WorkerGone
    /\ UNCHANGED <<evals, judged, votes3, rejudge, attempts>>

\* An exception, or a kill between two writes.
WorkerDies ==
    /\ pc # "idle"
    /\ WorkerGone
    /\ UNCHANGED <<files, rejudge, attempts>>

\* A kill while the answers, or the verdicts, are being written.
WorkerDiesWriting ==
    /\ \/ /\ pc = "eval" /\ attempts < MaxAttempts
          /\ attempts' = attempts + 1
          /\ \E n \in 0 .. NQuestions :
                evals' = [attempt |-> attempts', rows |-> n]
          /\ UNCHANGED judged
       \/ /\ pc = "row"
          /\ \E n \in 0 .. Len(df.verdicts) :
                judged' = [df EXCEPT !.verdicts = SubSeq(@, 1, n)]
          /\ UNCHANGED <<evals, attempts>>
    /\ WorkerGone
    /\ UNCHANGED <<votes3, summary, rejudge>>

-------------------------------------------------------------------------------
(* The unified judge *)

\* _locomo_paths: its own file, the answers, or the worker's file, whose
\* verdicts stand in a column of another name.
Source ==
    IF votes3 # None THEN votes3
    ELSE IF evals # None
    THEN [attempt |-> evals.attempt,
          first |-> Blank(evals.rows), final |-> Blank(evals.rows)]
    ELSE IF judged # None
    THEN [attempt |-> judged.attempt, first |-> Blank(Len(judged.verdicts)),
          final |-> Blank(Len(judged.verdicts))]
    ELSE None

\* The column the votes go to.
Target(f) == IF votes = 1 THEN f.first ELSE f.final

LaunchRejudge ==
    /\ rpc = "idle" /\ Source # None /\ Source.first # <<>>
    /\ votes' \in VoteCounts
    /\ rdf' = Source
    /\ next' = 1 /\ rpc' = "pool"
    /\ UNCHANGED <<files, worker, results, attempts>>

\* JudgeEngine.judge: half of the votes are enough.
Tally(yes) == IF yes * 2 >= votes THEN "correct" ELSE "wrong"

\* Mutant: a first verdict that is not carried.
FinalsByVote(first) ==
    IF votes = 1 THEN {first} ELSE {Tally(yes) : yes \in 0 .. votes}

\* judge_with_carry: a first verdict that is there is kept; when it is
\* "correct", or the only vote, it is final.
Firsts(saved) == IF saved # "" THEN {saved} ELSE Verdicts
Finals(first) == IF first = "correct" \/ votes = 1 THEN {first}
                 ELSE {Tally(yes) : yes \in 0 .. votes}

\* A thread of the pool is done with row i, in no set order.
PoolJudges(i) ==
    /\ rpc = "pool" /\ i \in next .. Len(rdf.first)
    /\ Target(rdf)[i] = "" /\ results[i] = Pending
    /\ \/ \E f \in Firsts(rdf.first[i]) : \E g \in Finals(f) :
             results' = [results EXCEPT ![i] = [first |-> f, final |-> g]]
       \/ results' = [results EXCEPT ![i] = Raised]
    /\ UNCHANGED <<files, worker, rpc, votes, rdf, next, attempts>>

\* pool.map gives the results in the order of the rows.
Entered(f, i, r) ==
    IF votes = 1 THEN [f EXCEPT !.first[i] = r.final]
    ELSE [f EXCEPT !.first[i] = r.first, !.final[i] = r.final]

\* Mutant: the results in the order they come.
CompletionOrder ==
    /\ rpc = "pool" /\ next <= Len(rdf.first)
    /\ Target(rdf)[next] = ""
    /\ \E i \in next .. Len(rdf.first) :
          /\ results[i] \notin {Pending, Raised}
          /\ rdf' = Entered(rdf, next, results[i])
    /\ votes3' = votes3
    /\ next' = next + 1
    /\ UNCHANGED <<evals, judged, summary, worker, rpc, votes, results, attempts>>

\* Rows that have their verdict are no jobs of the pool.
SkipRow ==
    /\ rpc = "pool" /\ next <= Len(rdf.first)
    /\ Target(rdf)[next] # ""
    /\ next' = next + 1
    /\ UNCHANGED <<files, worker, rpc, votes, rdf, results, attempts>>

\* A save after every SaveEvery verdicts.
Saved(i) == Cardinality({j \in 1 .. i : results[j] # Pending}) % SaveEvery = 0

TakeResult ==
    /\ rpc = "pool" /\ next <= Len(rdf.first)
    /\ Target(rdf)[next] = "" /\ results[next] \notin {Pending, Raised}
    /\ rdf' = Entered(rdf, next, results[next])
    /\ votes3' = IF Saved(next) THEN rdf' ELSE votes3
    /\ next' = next + 1
    /\ UNCHANGED <<evals, judged, summary, worker, rpc, votes, results, attempts>>

EndRejudge ==
    /\ rpc = "pool" /\ next > Len(rdf.first)
    /\ votes3' = rdf
    /\ RejudgeGone
    /\ UNCHANGED <<evals, judged, summary, worker, attempts>>

\* The exception of a row, when its turn comes, or a kill.
RejudgeDies ==
    /\ rpc = "pool"
    /\ RejudgeGone
    /\ UNCHANGED <<files, worker, attempts>>

\* A kill during a save, which follows a verdict or the last row.
RejudgeDiesWriting ==
    /\ rpc = "pool"
    /\ \/ next > Len(rdf.first)
       \/ next > 1 /\ results[next - 1] # Pending /\ Saved(next - 1)
    /\ \E n \in 0 .. Len(rdf.first) :
          votes3' = [rdf EXCEPT !.first = SubSeq(@, 1, n),
                                !.final = SubSeq(@, 1, n)]
    /\ RejudgeGone
    /\ UNCHANGED <<evals, judged, summary, worker, attempts>>

-------------------------------------------------------------------------------
Next ==
    \/ LaunchWorker \/ Evaluate \/ Load \/ JudgeRow \/ EndRows \/ Summarize
    \/ WorkerDies \/ WorkerDiesWriting
    \/ LaunchRejudge \/ (\E i \in Questions : PoolJudges(i))
    \/ SkipRow \/ TakeResult \/ EndRejudge \/ RejudgeDies \/ RejudgeDiesWriting

Spec == Init /\ [][Next]_vars

-------------------------------------------------------------------------------
\* What a column gives it never takes back: of the rows a file still has, a
\* verdict stands as it was first written.
Kept(old, new) ==
    \A i \in DOMAIN old \cap DOMAIN new : old[i] # "" => new[i] = old[i]

\* A resume of the worker's judge, after a kill, an exception or a new
\* evaluation, never changes a verdict it finds in its output
\* (llm_as_judge_singlemode).
VerdictsKept ==
    [][judged # None => Kept(judged.verdicts, judged'.verdicts)]_vars

\* A run of the unified judge with other votes, or after an interruption,
\* draws no first verdict again and no final one (_judge_locomo_file,
\* judge_with_carry).
VotesKept ==
    [][votes3 # None =>
         Kept(votes3.first, votes3'.first) /\ Kept(votes3.final, votes3'.final)
      ]_vars

\* A verdict is drawn once, by either judge.
VerdictsAreFinal == VerdictsKept /\ VotesKept

\* Whatever sequence of runs, kills and vote counts filled the file, a final
\* verdict has a first one beside it, and a first "correct" is final: the
\* published carry rule (judge_with_carry).
CarryRule ==
    /\ TypeOK
    /\ votes3 # None =>
        \A i \in DOMAIN votes3.final :
            votes3.final[i] # "" =>
                /\ votes3.first[i] # ""
                /\ votes3.first[i] = "correct" => votes3.final[i] = "correct"

\* The threads finish in any order, some of the rows have their verdict
\* already, and still each verdict is entered at its own row (pool.map).
ResultsInPlace ==
    rpc = "pool" =>
        \A i \in 1 .. next - 1 :
            results[i] # Pending =>
                /\ Target(rdf)[i] = results[i].final
                /\ rdf.first[i] = results[i].first

\* The accuracy of a sample is never computed with rows that are still to be
\* judged, whatever was resumed (llm_as_judge_singlemode,
\* compute_correctness_stats).
SummaryIsComplete ==
    summary # None => \A i \in DOMAIN summary.verdicts : summary.verdicts[i] # ""
===============================================================================
