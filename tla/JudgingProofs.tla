----------------------------- MODULE JudgingProofs -----------------------------
(***************************************************************************)
(* Proofs about Judging, for any number of questions, any vote counts and  *)
(* any interval between saves: the carry rule, the place of every result,  *)
(* the completeness of the summary, and that no verdict is drawn twice.    *)
(***************************************************************************)
EXTENDS Judging, SequenceTheorems, TLAPS

Cells == Verdicts \cup {""}

-------------------------------------------------------------------------------
(* Columns of verdicts.                                                    *)

LEMMA ColumnIsSeq ==
  ASSUME NEW c \in Column
  PROVE  /\ c \in Seq(Cells) /\ Len(c) \in 0 .. NQuestions
         /\ DOMAIN c = 1 .. Len(c)
         /\ \A i \in 1 .. Len(c) : c[i] \in Cells
<1>1. PICK n \in 0 .. NQuestions : c \in [1 .. n -> Cells]
  BY DEF Column, Cells
<1>2. c \in Seq(Cells)
  BY <1>1, SeqDef, JudgingAssumption
<1>3. Len(c) = n
  BY <1>1, <1>2, LenProperties, JudgingAssumption
<1> QED BY <1>1, <1>2, <1>3

LEMMA SeqIsColumn ==
  ASSUME NEW c \in Seq(Cells), Len(c) \in 0 .. NQuestions
  PROVE  c \in Column
<1>1. c \in [1 .. Len(c) -> Cells]
  BY LenProperties
<1> QED BY <1>1 DEF Column, Cells

\* One cell of a column is given a value.
LEMMA ColumnExcept ==
  ASSUME NEW c \in Column, NEW i \in 1 .. Len(c), NEW v \in Cells
  PROVE  /\ [c EXCEPT ![i] = v] \in Column
         /\ Len([c EXCEPT ![i] = v]) = Len(c)
         /\ \A j \in 1 .. Len(c) : [c EXCEPT ![i] = v][j] = IF j = i THEN v ELSE c[j]
  BY ColumnIsSeq, SeqIsColumn, ExceptSeq

\* The first rows of a column.
LEMMA ColumnCut ==
  ASSUME NEW c \in Column, NEW n \in 0 .. Len(c)
  PROVE  /\ SubSeq(c, 1, n) \in Column
         /\ Len(SubSeq(c, 1, n)) = n
         /\ \A j \in 1 .. n : SubSeq(c, 1, n)[j] = c[j]
<1>1. /\ c \in Seq(Cells) /\ Len(c) \in 0 .. NQuestions /\ n \in Int
      /\ \A i \in 1 .. n : c[i] \in Cells
  BY ColumnIsSeq, JudgingAssumption
<1>2. /\ SubSeq(c, 1, n) \in Seq(Cells)
      /\ Len(SubSeq(c, 1, n)) = IF 1 <= n THEN n - 1 + 1 ELSE 0
      /\ \A i \in 1 .. n - 1 + 1 : SubSeq(c, 1, n)[i] = c[1 + i - 1]
  BY <1>1, SubSeqProperties
<1>3. Len(SubSeq(c, 1, n)) = n
  BY <1>1, <1>2
<1>4. SubSeq(c, 1, n) \in Column
  <2>1. Len(SubSeq(c, 1, n)) \in 0 .. NQuestions
    BY <1>1, <1>3, JudgingAssumption
  <2> QED BY <1>2, <2>1, SeqIsColumn
<1>5. \A j \in 1 .. n : SubSeq(c, 1, n)[j] = c[j]
  BY <1>1, <1>2
<1> QED BY <1>3, <1>4, <1>5

LEMMA ColumnBlank ==
  ASSUME NEW n \in 0 .. NQuestions
  PROVE  /\ Blank(n) \in Column /\ Len(Blank(n)) = n
         /\ \A i \in 1 .. n : Blank(n)[i] = ""
<1>1. Blank(n) \in [1 .. n -> Cells]
  BY DEF Blank, Cells
<1>2. Blank(n) \in Column
  BY <1>1 DEF Column, Cells
<1>3. Len(Blank(n)) = n
  BY <1>1, <1>2, ColumnIsSeq, JudgingAssumption
<1> QED BY <1>2, <1>3 DEF Blank

-------------------------------------------------------------------------------
(* Rows of a file.                                                         *)

\* Row k, of n rows of at most q, and the one after it.
LEMMA NextRow ==
  ASSUME NEW q \in Nat, NEW k \in 1 .. q + 1, NEW n \in 0 .. q, k <= n
  PROVE  /\ k \in 1 .. n /\ k \in 1 .. q /\ k >= k
         /\ k + 1 \in 1 .. q + 1 /\ k + 1 <= n + 1
         /\ \A j \in 1 .. q : /\ j >= k + 1 => (j >= k /\ j # k)
                              /\ j < k + 1 => (j < k \/ j = k)
                              /\ j <= n => j \in 1 .. n
         /\ \A j \in 1 .. (k + 1) - 1 : (j \in 1 .. k - 1 \/ j = k)
         /\ \A j \in 1 .. k - 1 : j \in 1 .. n /\ j # k
  OBVIOUS

\* The rows before row k are other rows than row i.
LEMMA EarlierRows ==
  ASSUME NEW q \in Nat, NEW k \in 1 .. q + 1, NEW i \in Int, i >= k
  PROVE  /\ \A j \in 1 .. k - 1 : j \in 1 .. q /\ j # i
         /\ \A j \in Int : j < k => j # i
  OBVIOUS

\* Past the last row, every row is an earlier one.
LEMMA PastRows ==
  ASSUME NEW n \in Nat, NEW k \in Int, k > n
  PROVE  \A i \in 1 .. n : i \in 1 .. k - 1
  OBVIOUS

-------------------------------------------------------------------------------
(* The inductive invariant.                                                *)

\* The carry rule, of any file of votes.
Carries(f) ==
    \A i \in 1 .. Len(f.final) :
        f.final[i] # "" =>
            /\ f.first[i] # ""
            /\ f.first[i] = "correct" => f.final[i] = "correct"

\* A file of votes as the unified judge writes it.
Sound(f) == f \in VoteFiles /\ Len(f.first) = Len(f.final) /\ Carries(f)

\* The rows the worker has been at have a verdict, and none that its output has
\* was changed.
WorkerInv ==
    /\ pc \in {"row", "summary"} => df \in JudgeFiles
    /\ pc = "row" => /\ row <= Len(df.verdicts) + 1
                     /\ \A i \in 1 .. row - 1 : df.verdicts[i] # ""
                     /\ judged # None => Kept(judged.verdicts, df.verdicts)
    /\ pc = "summary" => \A i \in 1 .. Len(df.verdicts) : df.verdicts[i] # ""

\* A result that still waits for its turn fits the row it is for.
Waits(i) ==
    /\ i <= Len(rdf.first) /\ Target(rdf)[i] = ""
    /\ results[i] # Raised =>
        /\ rdf.first[i] # "" => results[i].first = rdf.first[i]
        /\ results[i].first = "correct" \/ votes = 1 => results[i].final = results[i].first

PoolInv ==
    rpc = "pool" =>
        /\ votes \in VoteCounts /\ Sound(rdf) /\ next <= Len(rdf.first) + 1
        /\ votes3 # None => Kept(votes3.first, rdf.first) /\ Kept(votes3.final, rdf.final)
        /\ \A i \in Questions : i >= next /\ results[i] # Pending => Waits(i)
        /\ \A i \in Questions : i < next /\ results[i] # Pending => results[i] # Raised

\* Before the pool starts there are no results.
IdleInv == rpc = "idle" => results = [i \in Questions |-> Pending]

IInv ==
    /\ TypeOK /\ WorkerInv /\ PoolInv /\ IdleInv /\ ResultsInPlace /\ SummaryIsComplete
    /\ votes3 # None => Sound(votes3)

LEMMA InitIInv == Init => IInv
<1> SUFFICES ASSUME Init PROVE IInv
  OBVIOUS
<1>1. TypeOK
  BY JudgingAssumption DEF Init, TypeOK, Questions, Results
<1>2. WorkerInv /\ PoolInv /\ IdleInv /\ ResultsInPlace /\ SummaryIsComplete
  BY DEF Init, WorkerInv, PoolInv, IdleInv, ResultsInPlace, SummaryIsComplete
<1> QED BY <1>1, <1>2 DEF Init, IInv

-------------------------------------------------------------------------------
(* The worker.                                                             *)

\* Nothing the worker does concerns the votes.
LEMMA WorkerIInv ==
  ASSUME IInv, UNCHANGED <<votes3, rejudge>>,
         evals' \in {None} \cup EvalFiles, judged' \in {None} \cup JudgeFiles,
         summary' \in {None} \cup JudgeFiles,
         pc' \in {"idle", "eval", "judge", "row", "summary"},
         stages' \in SUBSET {"qa_eval", "judge"}, df' \in {None} \cup JudgeFiles,
         row' \in 1 .. NQuestions + 1, attempts' \in 0 .. MaxAttempts,
         WorkerInv', SummaryIsComplete'
  PROVE  IInv'
<1>1. TypeOK'
  BY DEF IInv, TypeOK, rejudge
<1>2. PoolInv' /\ IdleInv' /\ ResultsInPlace'
  BY DEF IInv, PoolInv, IdleInv, ResultsInPlace, Waits, Target, rejudge
<1> QED BY <1>1, <1>2 DEF IInv

\* An evaluation's answers, all of them or, after a kill, the first n.
LEMMA EvaluationType ==
  ASSUME TypeOK, attempts < MaxAttempts, NEW n \in 0 .. NQuestions
  PROVE  /\ attempts + 1 \in 0 .. MaxAttempts
         /\ [attempt |-> attempts + 1, rows |-> n] \in EvalFiles
  BY JudgingAssumption DEF TypeOK, EvalFiles, Attempts

LEMMA LoadIInv == ASSUME IInv, Load PROVE IInv'
<1>1. df' \in JudgeFiles
  <2>1. CASE judged # None
    BY <2>1 DEF Load, IInv, TypeOK
  <2>2. CASE judged = None
    <3>1. evals \in EvalFiles
      BY DEF Load, IInv, TypeOK
    <3>2. Blank(evals.rows) \in Column
      BY <3>1, ColumnBlank DEF EvalFiles
    <3> QED BY <2>2, <3>1, <3>2 DEF Load, EvalFiles, JudgeFiles
  <2> QED BY <2>1, <2>2
<1>2. Len(df'.verdicts) \in Nat
  BY <1>1, ColumnIsSeq, JudgingAssumption DEF JudgeFiles
<1>3. WorkerInv'
  <2>1. judged' # None => Kept(judged'.verdicts, df'.verdicts)
    BY DEF Load, files, Kept
  <2> QED BY <1>1, <1>2, <2>1 DEF Load, WorkerInv
<1>4. SummaryIsComplete'
  BY DEF Load, files, IInv, SummaryIsComplete
<1>5. row' \in 1 .. NQuestions + 1
  BY JudgingAssumption DEF Load
<1> QED BY <1>1, <1>3, <1>4, <1>5, WorkerIInv DEF Load, files, IInv, TypeOK

LEMMA JudgeRowIInv ==
  ASSUME IInv, JudgeRow
  PROVE  IInv' /\ (judged # None => Kept(judged.verdicts, judged'.verdicts))
<1> DEFINE c == df.verdicts
           d == df'.verdicts
<1>0. NQuestions \in Nat
  BY JudgingAssumption
<1>1. /\ df \in JudgeFiles /\ c \in Column /\ Len(c) \in 0 .. NQuestions
      /\ DOMAIN c = 1 .. Len(c) /\ row \in 1 .. Len(c)
      /\ \A i \in 1 .. row - 1 : c[i] # ""
  <2>1. df \in JudgeFiles /\ row <= Len(c) /\ row \in 1 .. NQuestions + 1
        /\ \A i \in 1 .. row - 1 : c[i] # ""
    BY DEF JudgeRow, IInv, WorkerInv, TypeOK
  <2>2. c \in Column
    BY <2>1 DEF JudgeFiles
  <2>3. Len(c) \in 0 .. NQuestions /\ DOMAIN c = 1 .. Len(c)
    BY <2>2, ColumnIsSeq
  <2>4. row \in 1 .. Len(c)
    <3>1. row <= Len(c) /\ row \in 1 .. NQuestions + 1 /\ Len(c) \in 0 .. NQuestions
      BY <2>1, <2>3
    <3> HIDE DEF c
    <3> QED BY <1>0, <3>1
  <2> QED BY <2>1, <2>2, <2>3, <2>4
<1>2. /\ df' \in JudgeFiles /\ DOMAIN d = DOMAIN c /\ Len(d) = Len(c) /\ d[row] # ""
      /\ \A i \in 1 .. Len(c) : c[i] # "" => d[i] = c[i]
  <2>1. CASE c[row] # ""
    BY <1>1, <2>1 DEF JudgeRow
  <2>2. CASE c[row] = ""
    <3>1. PICK v \in Verdicts : df' = [df EXCEPT !.verdicts[row] = v]
      BY <2>2 DEF JudgeRow
    <3>2. d = [c EXCEPT ![row] = v] /\ df' = [df EXCEPT !.verdicts = d]
      BY <1>1, <3>1 DEF JudgeFiles
    <3>3. /\ d \in Column /\ Len(d) = Len(c)
          /\ \A j \in 1 .. Len(c) : d[j] = IF j = row THEN v ELSE c[j]
      <4>1. v \in Cells
        BY DEF Cells
      <4>2. c \in Column /\ row \in 1 .. Len(c)
        BY <1>1
      <4> HIDE DEF c
      <4> QED BY <3>2, <4>1, <4>2, ColumnExcept
    <3>4. DOMAIN d = DOMAIN c
      BY <3>2
    <3>5. df' \in JudgeFiles
      BY <1>1, <3>2, <3>3 DEF JudgeFiles
    <3> QED BY <1>1, <2>2, <3>3, <3>4, <3>5 DEF Verdicts
  <2> QED BY <2>1, <2>2
<1>3. judged # None => Kept(judged.verdicts, d)
  BY <1>1, <1>2 DEF JudgeRow, IInv, WorkerInv, Kept
<1>4. judged' = df' /\ row' = row + 1 /\ pc = "row" /\ pc' = "row"
  BY DEF JudgeRow
<1>5. WorkerInv'
  <2>1. row' <= Len(df'.verdicts) + 1 /\ \A i \in 1 .. row' - 1 : df'.verdicts[i] # ""
    <3>1. row \in Int /\ Len(c) \in Int /\ Len(d) = Len(c) /\ row <= Len(c)
      <4>1. Len(c) \in 0 .. NQuestions /\ row \in 1 .. Len(c) /\ Len(d) = Len(c)
        BY <1>1, <1>2
      <4> HIDE DEF c, d
      <4> QED BY <1>0, <4>1
    <3>2. row' <= Len(d) + 1
      BY <1>4, <3>1
    <3>3. ASSUME NEW i \in 1 .. row' - 1 PROVE d[i] # ""
      <4>1. i \in 1 .. Len(c) /\ (i = row \/ i \in 1 .. row - 1)
        BY <1>4, <3>1
      <4> QED BY <1>1, <1>2, <4>1
    <3> QED BY <3>2, <3>3
  <2>2. Kept(judged'.verdicts, df'.verdicts)
    BY <1>4 DEF Kept
  <2> QED BY <1>2, <1>4, <2>1, <2>2 DEF WorkerInv
<1>6. row' \in 1 .. NQuestions + 1
  <2>1. Len(c) \in 0 .. NQuestions /\ row \in 1 .. Len(c) /\ row' = row + 1
    BY <1>1, <1>4
  <2> HIDE DEF c
  <2> QED BY <2>1, JudgingAssumption
<1>7. SummaryIsComplete'
  BY DEF JudgeRow, IInv, SummaryIsComplete
<1>8. IInv'
  BY <1>2, <1>4, <1>5, <1>6, <1>7, WorkerIInv DEF JudgeRow, IInv, TypeOK
<1> QED BY <1>3, <1>4, <1>8

\* Of a file that is written, a kill leaves the first rows.
LEMMA WorkerDiesWritingIInv ==
  ASSUME IInv, WorkerDiesWriting
  PROVE  IInv' /\ (judged # None => Kept(judged.verdicts, judged'.verdicts))
<1> USE DEF WorkerDiesWriting, WorkerGone
<1>1. WorkerInv' /\ SummaryIsComplete'
  BY DEF WorkerInv, IInv, SummaryIsComplete
<1>2. row' \in 1 .. NQuestions + 1
  BY JudgingAssumption
<1>3. CASE pc = "eval"
  <2>1. attempts' \in 0 .. MaxAttempts /\ evals' \in EvalFiles /\ UNCHANGED judged
    BY <1>3, EvaluationType DEF IInv
  <2>2. judged # None => Kept(judged.verdicts, judged'.verdicts)
    BY <2>1 DEF Kept
  <2> QED BY <1>1, <1>2, <2>1, <2>2, WorkerIInv DEF IInv, TypeOK
<1>4. CASE pc = "row"
  <2>1. PICK n \in 0 .. Len(df.verdicts) :
             judged' = [df EXCEPT !.verdicts = SubSeq(@, 1, n)]
    BY <1>4
  <2>2. df \in JudgeFiles /\ df.verdicts \in Column
    BY <1>4 DEF IInv, WorkerInv, JudgeFiles
  <2>3. /\ SubSeq(df.verdicts, 1, n) \in Column
        /\ Len(SubSeq(df.verdicts, 1, n)) = n
        /\ \A j \in 1 .. n : SubSeq(df.verdicts, 1, n)[j] = df.verdicts[j]
    BY <2>2, ColumnCut
  <2>4. judged' \in JudgeFiles /\ judged'.verdicts = SubSeq(df.verdicts, 1, n)
    BY <2>1, <2>2, <2>3 DEF JudgeFiles
  <2>5. judged # None => Kept(judged.verdicts, judged'.verdicts)
    <3>1. DOMAIN judged'.verdicts = 1 .. n /\ 1 .. n \subseteq DOMAIN df.verdicts
      BY <2>2, <2>3, <2>4, ColumnIsSeq
    <3> QED BY <1>4, <2>3, <2>4, <3>1 DEF IInv, WorkerInv, Kept
  <2>6. IInv'
    BY <1>1, <1>2, <1>4, <2>4, WorkerIInv DEF IInv, TypeOK
  <2> QED BY <2>5, <2>6
<1> QED BY <1>3, <1>4

LEMMA WorkerStepIInv ==
  ASSUME IInv,
         \/ LaunchWorker \/ Evaluate \/ Load \/ JudgeRow \/ EndRows \/ Summarize
         \/ WorkerDies \/ WorkerDiesWriting
  PROVE  IInv' /\ (judged # None => Kept(judged.verdicts, judged'.verdicts))
<1> USE DEF WorkerGone, files
<1>0. 1 \in 1 .. NQuestions + 1
  BY JudgingAssumption
<1>1. judged' = judged => (judged # None => Kept(judged.verdicts, judged'.verdicts))
  BY DEF Kept
<1>2. CASE LaunchWorker
  <2>1. WorkerInv' /\ SummaryIsComplete'
    BY <1>2 DEF LaunchWorker, WorkerInv, IInv, SummaryIsComplete
  <2>2. pc' \in {"eval", "judge"} /\ stages' \in SUBSET {"qa_eval", "judge"}
    BY <1>2 DEF LaunchWorker
  <2> QED BY <1>1, <1>2, <2>1, <2>2, WorkerIInv DEF LaunchWorker, IInv, TypeOK
<1>3. CASE Evaluate
  <2>1. attempts' \in 0 .. MaxAttempts /\ evals' \in EvalFiles
    <3>1. NQuestions \in 0 .. NQuestions
      BY JudgingAssumption
    <3> QED BY <1>3, <3>1, EvaluationType DEF Evaluate, IInv
  <2>2. WorkerInv' /\ SummaryIsComplete'
    BY <1>3 DEF Evaluate, WorkerInv, IInv, SummaryIsComplete
  <2>3. /\ pc' \in {"idle", "judge"} /\ stages' \in SUBSET {"qa_eval", "judge"}
        /\ df' \in {None} \cup JudgeFiles /\ row' \in 1 .. NQuestions + 1
    BY <1>0, <1>3 DEF Evaluate, IInv, TypeOK
  <2> QED BY <1>1, <1>3, <2>1, <2>2, <2>3, WorkerIInv DEF Evaluate, IInv, TypeOK
<1>4. CASE Load
  BY <1>1, <1>4, LoadIInv DEF Load
<1>5. CASE JudgeRow
  BY <1>5, JudgeRowIInv
<1>6. CASE EndRows
  <2>1. df \in JudgeFiles /\ row \in 1 .. NQuestions + 1 /\ row > Len(df.verdicts)
        /\ \A i \in 1 .. row - 1 : df.verdicts[i] # ""
    BY <1>6 DEF EndRows, IInv, WorkerInv, TypeOK
  <2>2. Len(df.verdicts) \in Nat /\ DOMAIN df.verdicts = 1 .. Len(df.verdicts)
    <3>1. df.verdicts \in Column
      BY <2>1 DEF JudgeFiles
    <3>2. Len(df.verdicts) \in 0 .. NQuestions /\ DOMAIN df.verdicts = 1 .. Len(df.verdicts)
      BY <3>1, ColumnIsSeq
    <3>3. NQuestions \in Nat
      BY JudgingAssumption
    <3> QED BY <3>2, <3>3
  <2>3. \A i \in 1 .. Len(df.verdicts) : df.verdicts[i] # ""
    <3>1. row \in Int
      <4>1. row \in 1 .. NQuestions + 1 /\ NQuestions \in Nat
        BY <2>1, JudgingAssumption
      <4> QED BY <4>1
    <3>2. \A i \in 1 .. Len(df.verdicts) : i \in 1 .. row - 1
      BY <2>1, <2>2, <3>1, PastRows
    <3> QED BY <2>1, <3>2
  <2>4. WorkerInv' /\ SummaryIsComplete'
    BY <1>6, <2>1, <2>3 DEF EndRows, WorkerInv, IInv, SummaryIsComplete
  <2>5. judged # None => Kept(judged.verdicts, judged'.verdicts)
    BY <1>6 DEF EndRows, IInv, WorkerInv
  <2>6. IInv'
    BY <1>6, <2>1, <2>4, WorkerIInv DEF EndRows, IInv, TypeOK
  <2> QED BY <2>5, <2>6
<1>7. CASE Summarize
  <2>1. df \in JudgeFiles /\ \A i \in DOMAIN df.verdicts : df.verdicts[i] # ""
    BY <1>7, ColumnIsSeq DEF Summarize, IInv, WorkerInv, JudgeFiles
  <2>2. WorkerInv' /\ SummaryIsComplete'
    BY <1>7, <2>1 DEF Summarize, WorkerInv, SummaryIsComplete
  <2> QED BY <1>0, <1>1, <1>7, <2>1, <2>2, WorkerIInv DEF Summarize, IInv, TypeOK
<1>8. CASE WorkerDies
  <2>1. WorkerInv' /\ SummaryIsComplete'
    BY <1>8 DEF WorkerDies, WorkerInv, IInv, SummaryIsComplete
  <2> QED BY <1>0, <1>1, <1>8, <2>1, WorkerIInv DEF WorkerDies, IInv, TypeOK
<1>9. CASE WorkerDiesWriting
  BY <1>9, WorkerDiesWritingIInv
<1> QED BY <1>2, <1>3, <1>4, <1>5, <1>6, <1>7, <1>8, <1>9

-------------------------------------------------------------------------------
(* The unified judge.                                                      *)

\* Nothing it does concerns the worker.
LEMMA PoolIInv ==
  ASSUME IInv, UNCHANGED <<evals, judged, summary, worker, attempts>>,
         votes3' # None => Sound(votes3'), rpc' \in {"idle", "pool"},
         votes' \in {0} \cup VoteCounts, rdf' \in {None} \cup VoteFiles,
         results' \in [Questions -> Results], next' \in 1 .. NQuestions + 1,
         PoolInv', IdleInv', ResultsInPlace'
  PROVE  IInv'
<1>1. votes3' \in {None} \cup VoteFiles
  BY DEF Sound
<1>2. TypeOK'
  BY <1>1 DEF IInv, TypeOK, worker
<1>3. WorkerInv' /\ SummaryIsComplete'
  BY DEF IInv, WorkerInv, SummaryIsComplete, worker
<1> QED BY <1>2, <1>3 DEF IInv

\* The judge gone, its file is what matters.
LEMMA PoolGoneIInv ==
  ASSUME IInv, UNCHANGED <<evals, judged, summary, worker, attempts>>,
         votes3' # None => Sound(votes3'), RejudgeGone
  PROVE  IInv'
<1>1. PoolInv' /\ IdleInv' /\ ResultsInPlace'
  BY DEF RejudgeGone, PoolInv, IdleInv, ResultsInPlace
<1>2. results' \in [Questions -> Results] /\ next' \in 1 .. NQuestions + 1
  BY JudgingAssumption DEF RejudgeGone, Results
<1> QED BY <1>1, <1>2, PoolIInv DEF RejudgeGone

LEMMA SoundIsColumns ==
  ASSUME NEW f, Sound(f)
  PROVE  /\ f.first \in Column /\ f.final \in Column /\ Len(f.first) = Len(f.final)
         /\ Len(f.first) \in 0 .. NQuestions
         /\ DOMAIN f.first = 1 .. Len(f.first) /\ DOMAIN f.final = 1 .. Len(f.first)
         /\ \A i \in 1 .. Len(f.first) : f.first[i] \in Cells /\ f.final[i] \in Cells
<1>1. f.first \in Column /\ f.final \in Column /\ Len(f.first) = Len(f.final)
  BY DEF Sound, VoteFiles
<1> QED BY <1>1, ColumnIsSeq

LEMMA SourceIsSound == ASSUME IInv, Source # None PROVE Sound(Source)
<1>1. ASSUME NEW a \in Attempts, NEW n \in 0 .. NQuestions
      PROVE  Sound([attempt |-> a, first |-> Blank(n), final |-> Blank(n)])
  <2>1. /\ Blank(n) \in Column /\ Len(Blank(n)) = n
        /\ \A i \in 1 .. n : Blank(n)[i] = ""
    BY ColumnBlank
  <2> QED BY <2>1 DEF Sound, Carries, VoteFiles
<1>2. CASE votes3 # None
  BY <1>2 DEF Source, IInv
<1>3. CASE votes3 = None /\ evals # None
  <2>1. evals.attempt \in Attempts /\ evals.rows \in 0 .. NQuestions
    BY <1>3 DEF IInv, TypeOK, EvalFiles
  <2> QED BY <1>1, <1>3, <2>1 DEF Source
<1>4. CASE votes3 = None /\ evals = None /\ judged # None
  <2>1. judged.attempt \in Attempts /\ judged.verdicts \in Column
    BY <1>4 DEF IInv, TypeOK, JudgeFiles
  <2>2. Len(judged.verdicts) \in 0 .. NQuestions
    BY <2>1, ColumnIsSeq
  <2> QED BY <1>1, <1>4, <2>1, <2>2 DEF Source
<1> QED BY <1>2, <1>3, <1>4 DEF Source

LEMMA LaunchRejudgeIInv == ASSUME IInv, LaunchRejudge PROVE IInv'
<1>1. Sound(rdf')
  BY SourceIsSound DEF LaunchRejudge
<1>2. results' = [i \in Questions |-> Pending]
  BY DEF LaunchRejudge, IInv, IdleInv
<1>3. votes3' # None => Kept(votes3'.first, rdf'.first) /\ Kept(votes3'.final, rdf'.final)
  BY DEF LaunchRejudge, files, Source, Kept
<1>4. next' = 1 /\ Len(rdf'.first) \in Nat
  BY <1>1, SoundIsColumns, JudgingAssumption DEF LaunchRejudge
<1>5. PoolInv'
  BY <1>1, <1>2, <1>3, <1>4 DEF LaunchRejudge, PoolInv
<1>6. IdleInv' /\ ResultsInPlace'
  BY <1>4 DEF LaunchRejudge, IdleInv, ResultsInPlace
<1> QED
  BY <1>1, <1>5, <1>6, PoolIInv, JudgingAssumption
     DEF LaunchRejudge, files, Sound, IInv, TypeOK

LEMMA PoolJudgesIInv == ASSUME IInv, NEW i \in Questions, PoolJudges(i) PROVE IInv'
<1> DEFINE n == Len(rdf.first)
<1>1. /\ Sound(rdf) /\ votes \in VoteCounts /\ rpc = "pool" /\ next \in 1 .. NQuestions + 1
      /\ Target(rdf)[i] = "" /\ i \in next .. n
  BY DEF PoolJudges, IInv, PoolInv, TypeOK
<1>2. n \in 0 .. NQuestions /\ \A j \in 1 .. n : rdf.first[j] \in Cells
  BY <1>1, SoundIsColumns
<1>3. next \in Int /\ n \in Int /\ i \in Int /\ i \in 1 .. n /\ i >= next /\ i <= n
  <2>1. /\ next \in 1 .. NQuestions + 1 /\ n \in 0 .. NQuestions /\ i \in next .. n
        /\ NQuestions \in Nat
    BY <1>1, <1>2, JudgingAssumption
  <2> HIDE DEF n
  <2> QED BY <2>1
<1>4. PICK r : /\ results' = [results EXCEPT ![i] = r]
               /\ \/ r = Raised
                  \/ \E f \in Firsts(rdf.first[i]) : \E g \in Finals(f) :
                        r = [first |-> f, final |-> g]
  BY DEF PoolJudges
<1>5. r # Raised =>
         /\ r \in [first : Verdicts, final : Verdicts]
         /\ rdf.first[i] # "" => r.first = rdf.first[i]
         /\ r.first = "correct" \/ votes = 1 => r.final = r.first
  <2> SUFFICES ASSUME r # Raised
               PROVE  /\ r \in [first : Verdicts, final : Verdicts]
                      /\ rdf.first[i] # "" => r.first = rdf.first[i]
                      /\ r.first = "correct" \/ votes = 1 => r.final = r.first
    OBVIOUS
  <2>1. PICK f \in Firsts(rdf.first[i]) : \E g \in Finals(f) : r = [first |-> f, final |-> g]
    BY <1>4
  <2>2. PICK g \in Finals(f) : r = [first |-> f, final |-> g]
    BY <2>1
  <2>3. f \in Verdicts /\ (rdf.first[i] # "" => f = rdf.first[i])
    BY <1>2, <1>3 DEF Firsts, Cells
  <2>4. g \in Verdicts /\ (f = "correct" \/ votes = 1 => g = f)
    BY <2>3 DEF Finals, Tally, Verdicts
  <2> QED BY <2>2, <2>3, <2>4
<1>6. results' \in [Questions -> Results]
  BY <1>4, <1>5 DEF IInv, TypeOK, Results
<1>7. /\ \A j \in Questions : j # i => results'[j] = results[j]
      /\ results'[i] = r
  BY <1>4 DEF IInv, TypeOK
<1>8. UNCHANGED <<files, worker, rpc, votes, rdf, next, attempts>>
  BY DEF PoolJudges
<1>9. PoolInv'
  <2>1. \A j \in Questions : j >= next' /\ results'[j] # Pending => Waits(j)'
    <3>1. Waits(i)'
      BY <1>1, <1>3, <1>5, <1>7, <1>8 DEF Waits, Target
    <3>2. ASSUME NEW j \in Questions, j >= next, results'[j] # Pending, j # i PROVE Waits(j)'
      <4>1. Waits(j)
        BY <1>1, <1>7, <3>2 DEF IInv, PoolInv
      <4> QED BY <1>7, <1>8, <3>2, <4>1 DEF Waits, Target
    <3> QED BY <1>8, <3>1, <3>2
  <2>2. \A j \in Questions : j < next' /\ results'[j] # Pending => results'[j] # Raised
    <3>1. i \in Int /\ next' = next
      BY <1>3, <1>8
    <3>2. \A j \in Questions : j < next' => j # i
      BY <1>3, <3>1 DEF Questions
    <3> QED BY <1>1, <1>7, <3>1, <3>2 DEF IInv, PoolInv
  <2> QED BY <1>1, <1>8, <2>1, <2>2 DEF files, IInv, PoolInv
<1>10. ResultsInPlace'
  <2>1. \A j \in 1 .. next - 1 : j \in Questions /\ j # i
    <3>1. next \in 1 .. NQuestions + 1
      BY <1>1
    <3>2. NQuestions \in Nat
      BY JudgingAssumption
    <3>3. i \in Int /\ i >= next
      BY <1>3
    <3> QED BY <3>1, <3>2, <3>3, EarlierRows DEF Questions
  <2> QED BY <1>1, <1>7, <1>8, <2>1 DEF IInv, ResultsInPlace, Target
<1>11. IdleInv'
  BY <1>1, <1>8 DEF IdleInv
<1> QED BY <1>6, <1>8, <1>9, <1>10, <1>11, PoolIInv DEF files, IInv, TypeOK

\* A row that has its verdict is passed over.
LEMMA SkipRowIInv == ASSUME IInv, SkipRow PROVE IInv'
<1> DEFINE n == Len(rdf.first)
<1>1. /\ Sound(rdf) /\ rpc = "pool" /\ next \in 1 .. NQuestions + 1 /\ next <= n
      /\ Target(rdf)[next] # "" /\ next' = next + 1
      /\ UNCHANGED <<files, worker, rpc, votes, rdf, results, attempts>>
  BY DEF SkipRow, IInv, PoolInv, TypeOK
<1>2. n \in 0 .. NQuestions /\ NQuestions \in Nat
  BY <1>1, SoundIsColumns, JudgingAssumption
<1>3. /\ next \in Questions /\ next' \in 1 .. NQuestions + 1 /\ next' <= n + 1 /\ next >= next
      /\ \A j \in Questions : (j >= next' => j >= next) /\ (j < next' => j < next \/ j = next)
      /\ \A j \in 1 .. next' - 1 : j \in 1 .. next - 1 \/ j = next
  <2>1. next \in 1 .. NQuestions + 1 /\ n \in 0 .. NQuestions /\ NQuestions \in Nat /\ next <= n
    BY <1>1, <1>2
  <2>2. next' = next + 1
    BY <1>1
  <2> HIDE DEF n
  <2> QED BY <2>1, <2>2, NextRow DEF Questions
<1>4. results[next] = Pending
  BY <1>1, <1>3 DEF IInv, PoolInv, Waits
<1>5. PoolInv'
  <2>1. ASSUME NEW j \in Questions, j >= next', results'[j] # Pending PROVE Waits(j)'
    BY <1>1, <1>3, <2>1 DEF IInv, PoolInv, Waits, Target
  <2>2. ASSUME NEW j \in Questions, j < next', results'[j] # Pending PROVE results'[j] # Raised
    BY <1>1, <1>3, <1>4, <2>2 DEF IInv, PoolInv
  <2> QED BY <1>1, <1>3, <2>1, <2>2 DEF files, IInv, PoolInv
<1>6. ResultsInPlace'
  BY <1>1, <1>3, <1>4 DEF IInv, ResultsInPlace, Target
<1> QED BY <1>1, <1>3, <1>5, <1>6, PoolIInv DEF files, IInv, TypeOK, IdleInv

\* A result r that row n of the file f waits for.
Fits(f, n, r) ==
    /\ Sound(f) /\ n \in 1 .. Len(f.first) /\ Target(f)[n] = ""
    /\ r.first \in Verdicts /\ r.final \in Verdicts
    /\ r.first = "correct" \/ votes = 1 => r.final = r.first
    /\ f.first[n] # "" => r.first = f.first[n]

\* The file g has the result r at row n, and the rest as in f.
Takes(f, n, r, g) ==
    /\ Sound(g) /\ Len(g.first) = Len(f.first)
    /\ g.first[n] = r.first /\ Target(g)[n] = r.final
    /\ \A j \in 1 .. Len(f.first) :
          j # n => g.first[j] = f.first[j] /\ Target(g)[j] = Target(f)[j]
    /\ Kept(f.first, g.first) /\ Kept(f.final, g.final)

\* The results of the pool enter a file in which no verdict is lost, drawn
\* again, or final without a first one.
LEMMA EnteredIsSound ==
  ASSUME NEW f, NEW n, NEW r, NEW g, Fits(f, n, r), g = Entered(f, n, r)
  PROVE  Takes(f, n, r, g)
<1> USE DEF Fits, Takes
<1> DEFINE c == f.first
           d == f.final
<1>1. /\ c \in Column /\ d \in Column /\ f \in VoteFiles /\ Carries(f)
      /\ Len(d) = Len(c) /\ DOMAIN c = 1 .. Len(c) /\ DOMAIN d = 1 .. Len(c)
  BY SoundIsColumns DEF Sound
<1>2. r.first \in Cells /\ r.final \in Cells /\ r.first # "" /\ r.final # ""
  BY DEF Cells, Verdicts
<1>3. /\ [c EXCEPT ![n] = r.first] \in Column
      /\ Len([c EXCEPT ![n] = r.first]) = Len(c)
      /\ \A j \in 1 .. Len(c) :
            [c EXCEPT ![n] = r.first][j] = IF j = n THEN r.first ELSE c[j]
      /\ DOMAIN [c EXCEPT ![n] = r.first] = 1 .. Len(c)
  <2>1. c \in Column /\ n \in 1 .. Len(c)
    BY <1>1
  <2> HIDE DEF c
  <2> QED BY <1>1, <1>2, <2>1, ColumnExcept
<1>4. /\ [d EXCEPT ![n] = r.final] \in Column
      /\ Len([d EXCEPT ![n] = r.final]) = Len(c)
      /\ \A j \in 1 .. Len(c) :
            [d EXCEPT ![n] = r.final][j] = IF j = n THEN r.final ELSE d[j]
      /\ DOMAIN [d EXCEPT ![n] = r.final] = 1 .. Len(c)
  <2>1. d \in Column /\ n \in 1 .. Len(d)
    BY <1>1
  <2> HIDE DEF d
  <2> QED BY <1>1, <1>2, <2>1, ColumnExcept
<1>5. CASE votes = 1
  <2>1. g = [f EXCEPT !.first = [c EXCEPT ![n] = r.first]] /\ c[n] = ""
    BY <1>5 DEF Entered, Target
  <2>2. /\ g.first = [c EXCEPT ![n] = r.first] /\ g.final = d /\ g \in VoteFiles
    BY <1>1, <1>3, <2>1 DEF VoteFiles
  <2>3. d[n] = ""
    BY <1>1, <2>1 DEF Carries
  <2> HIDE DEF c, d
  <2>4. Sound(g)
    <3>1. Carries(g)
      BY <1>1, <1>3, <2>2, <2>3 DEF Carries, c, d
    <3> QED BY <1>1, <1>3, <2>2, <3>1 DEF Sound
  <2>5. Kept(c, g.first) /\ Kept(d, g.final)
    BY <1>1, <1>3, <2>1, <2>2 DEF Kept
  <2> QED BY <1>3, <1>5, <2>2, <2>4, <2>5 DEF Target, c, d
<1>6. CASE votes # 1
  <2>1. /\ g = [f EXCEPT !.first = [c EXCEPT ![n] = r.first], !.final = [d EXCEPT ![n] = r.final]]
        /\ d[n] = ""
    BY <1>6 DEF Entered, Target
  <2>2. /\ g.first = [c EXCEPT ![n] = r.first] /\ g.final = [d EXCEPT ![n] = r.final]
        /\ g \in VoteFiles
    BY <1>1, <1>3, <1>4, <2>1 DEF VoteFiles
  <2> HIDE DEF c, d
  <2>3. Sound(g)
    <3>1. ASSUME NEW i \in 1 .. Len(g.final), g.final[i] # ""
          PROVE  g.first[i] # "" /\ (g.first[i] = "correct" => g.final[i] = "correct")
      <4>1. i \in 1 .. Len(c)
        BY <1>4, <2>2
      <4>2. CASE i = n
        BY <1>2, <1>3, <1>4, <2>2, <4>1, <4>2
      <4>3. CASE i # n
        <5>1. g.first[i] = c[i] /\ g.final[i] = d[i]
          BY <1>3, <1>4, <2>2, <4>1, <4>3
        <5> QED BY <1>1, <3>1, <4>1, <5>1 DEF Carries, c, d
      <4> QED BY <4>2, <4>3
    <3>2. Carries(g)
      BY <3>1 DEF Carries
    <3> QED BY <1>1, <1>3, <1>4, <2>2, <3>2 DEF Sound
  <2>4. Kept(c, g.first) /\ Kept(d, g.final)
    BY <1>1, <1>3, <1>4, <2>1, <2>2 DEF Kept, c
  <2> QED BY <1>3, <1>4, <1>6, <2>2, <2>3, <2>4 DEF Target, c, d
<1> QED BY <1>5, <1>6

LEMMA KeptTransitive ==
  ASSUME NEW a, NEW b, NEW c, Kept(a, b), Kept(b, c), DOMAIN b = DOMAIN c
  PROVE  Kept(a, c)
  BY DEF Kept

\* What a step of the unified judge may do to the verdicts of its file.
Keeps == votes3 # None => Kept(votes3.first, votes3'.first) /\ Kept(votes3.final, votes3'.final)

LEMMA TakeResultIInv == ASSUME IInv, TakeResult PROVE IInv' /\ Keeps
<1> DEFINE n == Len(rdf.first)
           r == results[next]
<1>1. /\ Sound(rdf) /\ rpc = "pool" /\ next \in 1 .. NQuestions + 1 /\ next <= n
      /\ Target(rdf)[next] = "" /\ next' = next + 1 /\ r \notin {Pending, Raised}
      /\ rdf' = Entered(rdf, next, r)
      /\ votes3' = IF Saved(next) THEN rdf' ELSE votes3
      /\ UNCHANGED <<evals, judged, summary, worker, rpc, votes, results, attempts>>
  BY DEF TakeResult, IInv, PoolInv, TypeOK
<1>2. n \in 0 .. NQuestions /\ NQuestions \in Nat
  BY <1>1, SoundIsColumns, JudgingAssumption
<1>3. /\ next \in 1 .. n /\ next \in Questions /\ next' \in 1 .. NQuestions + 1
      /\ next' <= n + 1 /\ next >= next
      /\ \A j \in Questions : /\ j >= next' => j >= next /\ j # next
                              /\ j < next' => j < next \/ j = next
                              /\ j <= n => j \in 1 .. n
      /\ \A j \in 1 .. next' - 1 : j \in 1 .. next - 1 \/ j = next
      /\ \A j \in 1 .. next - 1 : j \in 1 .. n /\ j # next
  <2>1. next \in 1 .. NQuestions + 1 /\ n \in 0 .. NQuestions /\ NQuestions \in Nat /\ next <= n
    BY <1>1, <1>2
  <2>2. next' = next + 1
    BY <1>1
  <2> HIDE DEF n
  <2> QED BY <2>1, <2>2, NextRow DEF Questions
<1>4. /\ r \in [first : Verdicts, final : Verdicts]
      /\ rdf.first[next] # "" => r.first = rdf.first[next]
      /\ r.first = "correct" \/ votes = 1 => r.final = r.first
  <2>1. r \in Results
    BY <1>3 DEF IInv, TypeOK
  <2>2. Waits(next)
    BY <1>1, <1>3 DEF IInv, PoolInv
  <2> QED BY <1>1, <2>1, <2>2 DEF Results, Waits
<1>5. /\ Sound(rdf') /\ Len(rdf'.first) = n
      /\ rdf'.first[next] = r.first /\ Target(rdf')[next] = r.final
      /\ \A j \in 1 .. n :
            j # next => rdf'.first[j] = rdf.first[j] /\ Target(rdf')[j] = Target(rdf)[j]
      /\ Kept(rdf.first, rdf'.first) /\ Kept(rdf.final, rdf'.final)
  <2>1. Fits(rdf, next, r)
    BY <1>1, <1>3, <1>4 DEF Fits
  <2>2. Takes(rdf, next, r, rdf')
    BY <1>1, <2>1, EnteredIsSound
  <2> QED BY <2>2 DEF Takes
<1> HIDE DEF n, r
<1>6. votes3 # None => Kept(votes3.first, rdf'.first) /\ Kept(votes3.final, rdf'.final)
  <2>1. DOMAIN rdf.first = DOMAIN rdf'.first /\ DOMAIN rdf.final = DOMAIN rdf'.final
    BY <1>1, <1>5, SoundIsColumns DEF n
  <2> QED BY <1>1, <1>5, <2>1, KeptTransitive DEF IInv, PoolInv
<1>7. Keeps
  BY <1>1, <1>6 DEF Keeps, Kept
<1>8. votes3' # None => /\ Sound(votes3') /\ Kept(votes3'.first, rdf'.first)
                        /\ Kept(votes3'.final, rdf'.final)
  <2>1. CASE Saved(next)
    BY <1>1, <1>5, <2>1 DEF Kept
  <2>2. CASE ~Saved(next)
    BY <1>1, <1>6, <2>2 DEF IInv
  <2> QED BY <2>1, <2>2
<1>9. PoolInv'
  <2>1. ASSUME NEW j \in Questions, j >= next', results'[j] # Pending PROVE Waits(j)'
    <3>1. Waits(j)
      BY <1>1, <1>3, <2>1 DEF IInv, PoolInv
    <3>2. j # next /\ j \in 1 .. n
      BY <1>3, <2>1, <3>1 DEF Waits, n
    <3> QED BY <1>1, <1>5, <3>1, <3>2 DEF Waits, Target, n
  <2>2. ASSUME NEW j \in Questions, j < next', results'[j] # Pending PROVE results'[j] # Raised
    BY <1>1, <1>3, <2>2 DEF IInv, PoolInv, r
  <2> QED BY <1>1, <1>3, <1>5, <1>8, <2>1, <2>2 DEF IInv, PoolInv
<1>10. ResultsInPlace'
  <2>1. \A g : Target(g)' = Target(g)
    BY <1>1 DEF Target
  <2> QED BY <1>1, <1>3, <1>5, <2>1 DEF IInv, ResultsInPlace, Target, r
<1>11. rdf' \in {None} \cup VoteFiles /\ IdleInv'
  BY <1>1, <1>5 DEF Sound, IdleInv
<1> QED BY <1>1, <1>3, <1>7, <1>8, <1>9, <1>10, <1>11, PoolIInv DEF IInv, TypeOK

\* The rows before a kill.
LEMMA CutIsSound ==
  ASSUME NEW f, Sound(f), NEW n \in 0 .. Len(f.first),
         NEW g, g = [f EXCEPT !.first = SubSeq(@, 1, n), !.final = SubSeq(@, 1, n)]
  PROVE  Sound(g) /\ Kept(f.first, g.first) /\ Kept(f.final, g.final)
         /\ DOMAIN g.first = 1 .. n /\ DOMAIN g.final = 1 .. n
<1>1. /\ f.first \in Column /\ f.final \in Column /\ f \in VoteFiles /\ Carries(f)
      /\ Len(f.final) = Len(f.first) /\ Len(f.first) \in 0 .. NQuestions
      /\ DOMAIN f.first = 1 .. Len(f.first) /\ DOMAIN f.final = 1 .. Len(f.first)
  BY SoundIsColumns DEF Sound
<1>2. /\ SubSeq(f.first, 1, n) \in Column /\ Len(SubSeq(f.first, 1, n)) = n
      /\ \A j \in 1 .. n : SubSeq(f.first, 1, n)[j] = f.first[j]
  BY <1>1, ColumnCut
<1>3. /\ SubSeq(f.final, 1, n) \in Column /\ Len(SubSeq(f.final, 1, n)) = n
      /\ \A j \in 1 .. n : SubSeq(f.final, 1, n)[j] = f.final[j]
  BY <1>1, ColumnCut
<1>4. /\ g.first = SubSeq(f.first, 1, n) /\ g.final = SubSeq(f.final, 1, n)
      /\ g \in VoteFiles
  BY <1>1, <1>2, <1>3 DEF VoteFiles
<1>5. DOMAIN g.first = 1 .. n /\ DOMAIN g.final = 1 .. n
  BY <1>2, <1>3, <1>4, ColumnIsSeq
<1>6. 1 .. n \subseteq 1 .. Len(f.first)
  <2>1. Len(f.first) \in 0 .. NQuestions /\ NQuestions \in Nat /\ n \in 0 .. Len(f.first)
    BY <1>1, JudgingAssumption
  <2> QED BY <2>1
<1>7. Carries(g)
  BY <1>1, <1>2, <1>3, <1>4, <1>6 DEF Carries
<1>8. Kept(f.first, g.first) /\ Kept(f.final, g.final)
  BY <1>2, <1>3, <1>4, <1>5 DEF Kept
<1> QED BY <1>2, <1>3, <1>4, <1>5, <1>7, <1>8 DEF Sound

LEMMA PoolEndsIInv ==
  ASSUME IInv, EndRejudge \/ RejudgeDies \/ RejudgeDiesWriting
  PROVE  IInv' /\ Keeps
<1>1. /\ UNCHANGED <<evals, judged, summary, worker, attempts>> /\ RejudgeGone
      /\ Sound(rdf)
      /\ votes3 # None => Kept(votes3.first, rdf.first) /\ Kept(votes3.final, rdf.final)
  BY DEF EndRejudge, RejudgeDies, RejudgeDiesWriting, files, IInv, PoolInv
<1>2. CASE EndRejudge
  BY <1>1, <1>2, PoolGoneIInv DEF EndRejudge, Keeps
<1>3. CASE RejudgeDies
  BY <1>1, <1>3, PoolGoneIInv DEF RejudgeDies, files, IInv, Keeps, Kept
<1>4. CASE RejudgeDiesWriting
  <2>1. PICK n \in 0 .. Len(rdf.first) :
            votes3' = [rdf EXCEPT !.first = SubSeq(@, 1, n), !.final = SubSeq(@, 1, n)]
    BY <1>4 DEF RejudgeDiesWriting
  <2>2. Sound(votes3') /\ Kept(rdf.first, votes3'.first) /\ Kept(rdf.final, votes3'.final)
        /\ DOMAIN votes3'.first = 1 .. n /\ DOMAIN votes3'.final = 1 .. n
    BY <1>1, <2>1, CutIsSound
  <2>3. 1 .. n \subseteq DOMAIN rdf.first /\ 1 .. n \subseteq DOMAIN rdf.final
    <3>1. DOMAIN rdf.first = 1 .. Len(rdf.first) /\ DOMAIN rdf.final = 1 .. Len(rdf.first)
          /\ Len(rdf.first) \in 0 .. NQuestions
      BY <1>1, SoundIsColumns
    <3>2. 1 .. n \subseteq 1 .. Len(rdf.first)
      <4>1. Len(rdf.first) \in 0 .. NQuestions /\ NQuestions \in Nat /\ n \in 0 .. Len(rdf.first)
        BY <3>1, JudgingAssumption
      <4> QED BY <4>1
    <3> QED BY <3>1, <3>2
  <2>4. Keeps
    BY <1>1, <2>2, <2>3 DEF Keeps, Kept
  <2> QED BY <1>1, <2>2, <2>4, PoolGoneIInv
<1> QED BY <1>2, <1>3, <1>4

-------------------------------------------------------------------------------
(* The theorems.                                                           *)

\* No step draws a verdict again.
StepKeeps == (judged # None => Kept(judged.verdicts, judged'.verdicts)) /\ Keeps

LEMMA NextIInv == ASSUME IInv, [Next]_vars PROVE IInv' /\ StepKeeps
<1>1. votes3' = votes3 => Keeps
  BY DEF Keeps, Kept
<1>2. judged' = judged => (judged # None => Kept(judged.verdicts, judged'.verdicts))
  BY DEF Kept
<1>3. CASE \/ LaunchWorker \/ Evaluate \/ Load \/ JudgeRow \/ EndRows \/ Summarize
           \/ WorkerDies \/ WorkerDiesWriting
  <2>1. votes3' = votes3
    BY <1>3 DEF LaunchWorker, Evaluate, Load, JudgeRow, EndRows, Summarize, WorkerDies,
               WorkerDiesWriting, files
  <2> QED BY <1>1, <1>3, <2>1, WorkerStepIInv DEF StepKeeps
<1>4. CASE LaunchRejudge
  BY <1>1, <1>2, <1>4, LaunchRejudgeIInv DEF LaunchRejudge, files, StepKeeps
<1>5. CASE \E i \in Questions : PoolJudges(i)
  <2>1. PICK i \in Questions : PoolJudges(i)
    BY <1>5
  <2> QED BY <1>1, <1>2, <2>1, PoolJudgesIInv DEF PoolJudges, files, StepKeeps
<1>6. CASE SkipRow
  BY <1>1, <1>2, <1>6, SkipRowIInv DEF SkipRow, files, StepKeeps
<1>7. CASE TakeResult
  BY <1>2, <1>7, TakeResultIInv DEF TakeResult, StepKeeps
<1>8. CASE EndRejudge \/ RejudgeDies \/ RejudgeDiesWriting
  BY <1>2, <1>8, PoolEndsIInv DEF EndRejudge, RejudgeDies, RejudgeDiesWriting, files, StepKeeps
<1>9. CASE UNCHANGED vars
  <2>1. UNCHANGED <<files, worker, rejudge, attempts>>
    BY <1>9 DEF vars
  <2>2. IInv'
    <3> USE <2>1 DEF files, worker, rejudge, IInv
    <3>1. TypeOK'
      BY DEF TypeOK
    <3>2. WorkerInv' /\ SummaryIsComplete' /\ IdleInv'
      BY DEF WorkerInv, SummaryIsComplete, IdleInv
    <3>3. PoolInv' /\ ResultsInPlace'
      BY DEF PoolInv, ResultsInPlace, Waits, Target
    <3> QED BY <3>1, <3>2, <3>3
  <2> QED BY <1>1, <1>2, <2>1, <2>2 DEF files, StepKeeps
<1> QED BY <1>3, <1>4, <1>5, <1>6, <1>7, <1>8, <1>9 DEF Next

\* The inductive invariant holds of every state of the two judges' runs.
THEOREM InvariantHolds == Spec => []IInv
  BY InitIInv, NextIInv, PTL DEF Spec

LEMMA SoundIsCarried == IInv => CarryRule
<1> SUFFICES ASSUME IInv PROVE CarryRule
  OBVIOUS
<1>1. votes3 # None => DOMAIN votes3.final = 1 .. Len(votes3.final)
  BY SoundIsColumns DEF IInv
<1> QED BY <1>1 DEF IInv, CarryRule, Sound, Carries

\* Whatever sequence of runs, kills, vote counts and saves filled the unified
\* judge's file, a final verdict has a first one beside it, and a first
\* "correct" is final (judge_with_carry), for any number of questions.
THEOREM VerdictsFollowTheCarryRule == Spec => []CarryRule
  BY InvariantHolds, SoundIsCarried, PTL

\* However many threads finish in whatever order, and whichever rows had their
\* verdict already, every verdict is entered at the row it was drawn for
\* (pool.map in _judge_locomo_file).
THEOREM EveryResultInItsRow == Spec => []ResultsInPlace
<1>1. IInv => ResultsInPlace
  BY DEF IInv
<1> QED BY <1>1, InvariantHolds, PTL

\* No resume, kill or new evaluation makes the worker sum up a sample some of
\* whose rows are still to be judged (llm_as_judge_singlemode).
THEOREM NoSummaryOfAnUnjudgedRow == Spec => []SummaryIsComplete
<1>1. IInv => SummaryIsComplete
  BY DEF IInv
<1> QED BY <1>1, InvariantHolds, PTL

\* A verdict either judge finds in its file stands, in every step of every run,
\* for as long as the file has the row: the resume guards of
\* llm_as_judge_singlemode and _judge_locomo_file.
THEOREM NoVerdictIsDrawnTwice == Spec => VerdictsAreFinal
<1>1. IInv /\ [Next]_vars =>
        [judged # None => Kept(judged.verdicts, judged'.verdicts)]_vars
  BY NextIInv DEF StepKeeps
<1>2. IInv /\ [Next]_vars =>
        [votes3 # None =>
           Kept(votes3.first, votes3'.first) /\ Kept(votes3.final, votes3'.final)]_vars
  BY NextIInv DEF StepKeeps, Keeps
<1>3. Spec => VerdictsKept
  BY <1>1, InvariantHolds, PTL DEF Spec, VerdictsKept
<1>4. Spec => VotesKept
  BY <1>2, InvariantHolds, PTL DEF Spec, VotesKept
<1> QED BY <1>3, <1>4 DEF VerdictsAreFinal
===============================================================================
