-------------------------- MODULE LongMemResultsProofs --------------------------
(***************************************************************************)
(* For any datasets, any number of rerun processes and any budgets:        *)
(*   - no row saved to progress.csv is lost.  The reason is the lock: a    *)
(*     process between reading and replacing the table holds it, so that   *)
(*     nobody else has replaced the table since;                           *)
(*   - a verdict stands beside the answer it judged, in its column: every  *)
(*     copy of a row a process works on already fits;                      *)
(*   - the aggregate of an undisturbed judge counts every file: what its   *)
(*     pool holds of a file is what the file says.                         *)
(***************************************************************************)
EXTENDS LongMemResults, TLAPS

\* A process at the table holds the lock, and has seen the table as it is.
AtTable == \A p \in Reruns : pc[p] = "locked" => lock = p /\ view[p] = progress

\* Whoever holds the lock is at the table: only then is it taken and given back.
Shapes ==
    /\ DOMAIN pc = Reruns /\ DOMAIN view = Reruns
    /\ \A p \in Reruns : lock = p => pc[p] = "locked"

IInv == Shapes /\ AtTable /\ ProgressKept

LEMMA InitIInv == Init => IInv
  BY ResultsAssumption DEF Init, IInv, Shapes, AtTable, ProgressKept

\* Steps that leave the table, its lock and the copies of it alone.
LEMMA AsideIInv ==
  ASSUME IInv, UNCHANGED <<progress, posted, lock, pc, view>>
  PROVE  IInv'
  BY DEF IInv, Shapes, AtTable, ProgressKept

\* A step of one process that is not at the table, nor gets there.
LEMMA AwayIInv ==
  ASSUME IInv, NEW p \in Reruns, NEW next, next # "locked", pc[p] # "locked",
         pc' = [pc EXCEPT ![p] = next],
         \/ view' = view
         \/ \E seen : view' = [view EXCEPT ![p] = seen],
         UNCHANGED <<progress, posted, lock>>
  PROVE  IInv'
<1>1. Shapes'
  BY DEF IInv, Shapes
<1>2. AtTable'
  BY DEF IInv, Shapes, AtTable
<1>3. ProgressKept'
  BY DEF IInv, ProgressKept
<1> QED BY <1>1, <1>2, <1>3 DEF IInv

LEMMA JudgeIInv == IInv /\ JudgeSteps => IInv'
<1> SUFFICES ASSUME IInv, JudgeSteps PROVE UNCHANGED <<progress, posted, lock, pc, view>>
  BY AsideIInv
<1>1. CASE LaunchJudge
  BY <1>1 DEF LaunchJudge, tables, rerun
<1>2. ASSUME NEW d \in Datasets,
             JudgeReads(d) \/ JudgeRow(d) \/ JudgeRaises(d) \/ JudgeOpens(d) \/ JudgeWrites(d)
      PROVE  UNCHANGED <<progress, posted, lock, pc, view>>
  BY <1>2 DEF JudgeReads, JudgeRow, JudgeRaises, JudgeOpens, JudgeWrites, tables, rerun,
              history
<1>3. CASE EndPool \/ Score \/ WriteAggregate \/ KillJudge
  BY <1>3 DEF EndPool, Score, WriteAggregate, KillJudge, tables, rerun, history
<1> QED BY <1>1, <1>2, <1>3 DEF JudgeSteps

LEMMA RerunIInv == ASSUME IInv, NEW p \in Reruns,
                          \/ LaunchRerun(p) \/ RerunDataset(p) \/ RerunRaises(p)
                          \/ RerunOpens(p) \/ RerunWrites(p)
                          \/ LockProgress(p) \/ SaveProgress(p)
                          \/ ReadAnswers(p) \/ MergeAnswers(p) \/ KillRerun(p)
                   PROVE  IInv'
<1>1. CASE LaunchRerun(p)
  BY <1>1, AwayIInv DEF LaunchRerun, tables, judge
<1>2. CASE RerunDataset(p)
  BY <1>2, AwayIInv DEF RerunDataset, tables, judge
<1>3. CASE RerunRaises(p)
  <2>1. PICK next \in {"dataset", "idle", "progress"} : pc' = [pc EXCEPT ![p] = next]
    BY <1>3 DEF RerunRaises, Onward
  <2> QED BY <1>3, <2>1, AwayIInv DEF RerunRaises, tables, history
<1>4. CASE RerunOpens(p)
  BY <1>4, AwayIInv DEF RerunOpens, tables, history
<1>5. CASE RerunWrites(p)
  <2>1. PICK next \in {"dataset", "idle", "progress"} : pc' = [pc EXCEPT ![p] = next]
    BY <1>5 DEF RerunWrites, Onward
  <2> QED BY <1>5, <2>1, AwayIInv DEF RerunWrites, tables, history
<1>6. CASE LockProgress(p)
  <2> USE <1>6 DEF LockProgress, LockFree, history
  <2>1. \A r \in Reruns : pc[r] # "locked"
    BY ResultsAssumption DEF IInv, AtTable
  <2>2. Shapes'
    BY <2>1 DEF IInv, Shapes
  <2>3. AtTable'
    BY <2>1 DEF IInv, Shapes, AtTable
  <2>4. ProgressKept'
    BY DEF IInv, ProgressKept
  <2> QED BY <2>2, <2>3, <2>4 DEF IInv
<1>7. CASE SaveProgress(p)
  <2> USE <1>7 DEF SaveProgress
  <2>1. /\ view[p] = posted
        /\ \A r \in Reruns \ {p} : pc[r] # "locked"
    BY DEF IInv, AtTable, ProgressKept
  <2>2. pc'[p] # "locked"
    BY DEF IInv, Shapes
  <2>3. \A r \in Reruns : pc'[r] # "locked"
    BY <2>1, <2>2 DEF IInv, Shapes
  <2>4. Shapes'
    BY ResultsAssumption DEF IInv, Shapes
  <2>5. AtTable'
    BY <2>3 DEF AtTable
  <2>6. ProgressKept'
    BY <2>1 DEF ProgressKept
  <2> QED BY <2>4, <2>5, <2>6 DEF IInv
<1>8. CASE ReadAnswers(p)
  BY <1>8, AwayIInv DEF ReadAnswers, tables, history
<1>9. CASE MergeAnswers(p)
  BY <1>9, AwayIInv DEF MergeAnswers, Idle, history
<1>10. CASE KillRerun(p)
  <2> USE <1>10 DEF KillRerun, Idle, history
  <2>1. Shapes'
    BY ResultsAssumption DEF IInv, Shapes
  <2>2. AtTable'
    BY DEF IInv, Shapes, AtTable
  <2>3. ProgressKept'
    BY DEF IInv, ProgressKept
  <2> QED BY <2>1, <2>2, <2>3 DEF IInv
<1> QED BY <1>1, <1>2, <1>3, <1>4, <1>5, <1>6, <1>7, <1>8, <1>9, <1>10

\* Every row saved to progress.csv stays there until its dataset's next one,
\* however many processes save rows and wherever they are killed
\* (_mutate_progress of helpers/progress.py).
THEOREM SavedRowsStay == Spec => []ProgressKept
<1>1. IInv /\ [Next]_vars => IInv'
  <2>1. CASE RerunSteps
    BY <2>1, RerunIInv DEF RerunSteps
  <2>2. CASE JudgeSteps
    BY <2>2, JudgeIInv
  <2>3. CASE UNCHANGED vars
    BY <2>3, AsideIInv DEF vars, tables, rerun, history
  <2> QED BY <2>1, <2>2, <2>3 DEF Next
<1>2. IInv => ProgressKept
  BY DEF IInv
<1> QED BY InitIInv, <1>1, <1>2, PTL DEF Spec

-----------------------------------------------------------------------------
(* Verdicts that fit.                                                      *)

\* A verdict in a table was given to the answer beside it.
FitsEntry(e) == e.verdict.of \in {0, e.answer}

\* So was one in the row of a CSV, and its column says how it came about.
FitsRow(d, r) ==
    LET v == r.verdict
    IN  /\ \A c \in Columns : v[c].of \in {0, r.answer}
        /\ d \in Abstentions => v["4omini"] = Unjudged /\ v["3vote"] = Unjudged
        /\ d \notin Abstentions => v["absrubric"] = Unjudged
        /\ v["4omini"].votes <= 1 /\ v["absrubric"].votes <= 1
        /\ v["3vote"].votes = 1 => v["3vote"].value = 1

\* The files, the tables, and what each process holds of them.
FilesInv ==
    /\ csv \in [Datasets -> {"missing", "cut", "whole"}] /\ row \in [Datasets -> CsvRows]
    /\ \A d \in Datasets : FitsRow(d, row[d]) /\ (csv[d] = "whole" => row[d].answer # 0)

TablesInv ==
    /\ progress \in Tables /\ answers \in Tables /\ posted \in Tables
    /\ lock \in Reruns \cup {Nobody}
    /\ \A d \in Datasets : FitsEntry(progress[d]) /\ FitsEntry(answers[d])

RerunTypes ==
    /\ pc \in [Reruns -> {"idle", "dataset", "open", "write", "progress", "locked",
                          "answers", "merge"}]
    /\ stages \in [Reruns -> SUBSET {"qa_eval", "judge"}]
    /\ todo \in [Reruns -> SUBSET Datasets] /\ successes \in [Reruns -> SUBSET Results]
    /\ result \in [Reruns -> [answer : {0} \cup Answers, verdict : Verdicts]]
    /\ saved \in [Reruns -> SUBSET Results] /\ view \in [Reruns -> Tables]
    /\ made \in [Datasets -> 0 .. MaxAnswers] /\ launches \in [Reruns -> Nat]

RerunFits ==
    \A p \in Reruns :
        /\ FitsEntry(result[p]) /\ (pc[p] \in {"open", "write"} => result[p].answer # 0)
        /\ \A res \in successes[p] : FitsEntry(res)
        /\ \A d \in Datasets : FitsEntry(view[p][d])

JudgeTypes ==
    /\ aggregate \in [asked : SUBSET Datasets, counted : SUBSET Datasets, alone : BOOLEAN]
    /\ jpc \in {"idle", "pool", "score"} /\ votes \in {0} \cup VoteCounts
    /\ job \in [Datasets -> Jobs] /\ frame \in [Datasets -> CsvRows]
    /\ unscored \subseteq Datasets /\ counted \subseteq Datasets
    /\ alone \in BOOLEAN /\ judgings \in Nat

JudgeFits ==
    /\ jpc # "idle" => votes \in VoteCounts
    /\ jpc # "score" => counted = {}
    /\ \A d \in Datasets :
          /\ FitsRow(d, frame[d])
          /\ job[d] \in {"read", "judged", "writing"} => frame[d].answer # 0

\* As long as no rerun wrote a file, the pool knows what the files say, and the
\* files scored are those counted.
Undisturbed ==
    alone =>
        /\ \A d \in Datasets :
              /\ job[d] = "read" => frame[d] = row[d]
              /\ job[d] \in {"judged", "writing"} =>
                    frame[d].verdict[Target(d, votes)] # Unjudged
              /\ job[d] \in {"done", "kept"} => row[d].verdict[Target(d, votes)] # Unjudged
        /\ jpc = "score" => /\ \A d \in Asked : job[d] \in {"done", "kept"}
                            /\ unscored \subseteq Asked /\ counted = Asked \ unscored

RerunInv == RerunTypes /\ RerunFits
JudgeInv == JudgeTypes /\ JudgeFits /\ Undisturbed /\ AggregateCountsAll

VInv == FilesInv /\ TablesInv /\ RerunInv /\ JudgeInv

-----------------------------------------------------------------------------
(* Rows and entries.                                                       *)

LEMMA UnjudgedFits ==
  /\ Unjudged \in Verdicts /\ NoEntry \in [answer : {0} \cup Answers, verdict : Verdicts]
  /\ NoRow \in CsvRows /\ FitsEntry(NoEntry) /\ \A d \in Datasets : FitsRow(d, NoRow)
  BY DEF Unjudged, Verdicts, NoEntry, TableRow, NoRow, Fresh, CsvRows, Columns, FitsEntry,
         FitsRow

LEMMA NewRowFits ==
  ASSUME NEW d \in Datasets, NEW a \in Answers, NEW v \in Verdicts, v.of \in {0, a}
  PROVE  /\ Fresh(a, v) \in CsvRows /\ FitsRow(d, Fresh(a, v)) /\ Fresh(a, v).answer # 0
  BY ResultsAssumption
     DEF Unjudged, Verdicts, Fresh, CsvRows, Columns, FitsRow, Answers

LEMMA VerdictForFits ==
  ASSUME NEW p \in Reruns, NEW d \in Datasets, NEW a \in Answers
  PROVE  VerdictFor(p, d, a) \in Verdicts /\ VerdictFor(p, d, a).of \in {0, a}
  BY DEF VerdictFor, Verdicts, Unjudged

LEMMA PutFits ==
  ASSUME NEW table \in Tables, \A d \in Datasets : FitsEntry(table[d]),
         NEW res \in Results, FitsEntry(res)
  PROVE  Put(table, res) \in Tables /\ \A d \in Datasets : FitsEntry(Put(table, res)[d])
  BY DEF Put, Tables, Results, TableRow, FitsEntry

LEMMA MergedFits ==
  ASSUME NEW table \in Tables, \A d \in Datasets : FitsEntry(table[d]),
         NEW won \in SUBSET Results, \A res \in won : FitsEntry(res)
  PROVE  /\ Merged(table, won) \in Tables
         /\ \A d \in Datasets : FitsEntry(Merged(table, won)[d])
<1>1. ASSUME NEW d \in Datasets
      PROVE  /\ Merged(table, won)[d] \in [answer : {0} \cup Answers, verdict : Verdicts]
             /\ FitsEntry(Merged(table, won)[d])
  <2>1. CASE \E res \in won : res.dataset = d
    <3>1. ResultOf(d, won) \in won
      BY <2>1 DEF ResultOf
    <3>2. ResultOf(d, won) \in Results /\ FitsEntry(ResultOf(d, won))
      BY <3>1
    <3>3. Merged(table, won)[d]
            = TableRow(ResultOf(d, won).answer, ResultOf(d, won).verdict)
      BY <2>1 DEF Merged
    <3> HIDE DEF ResultOf
    <3> QED BY <3>2, <3>3 DEF Results, TableRow, FitsEntry
  <2>2. CASE ~ \E res \in won : res.dataset = d
    BY <2>2 DEF Merged, Tables
  <2> QED BY <2>1, <2>2
<1>2. Merged(table, won) = [d \in Datasets |-> Merged(table, won)[d]]
  BY DEF Merged
<1> QED BY <1>1, <1>2 DEF Tables

\* A verdict the pool gives to a row of a file.
LEMMA JudgedRowFits ==
  ASSUME NEW d \in Datasets, NEW r \in CsvRows, FitsRow(d, r), r.answer # 0,
         votes \in VoteCounts, NEW c, c = Target(d, votes),
         NEW first \in Firsts(d, r), NEW final \in Finals(d, r, first),
         NEW g, g = [r EXCEPT !.verdict[c] = final]
  PROVE  g \in CsvRows /\ FitsRow(d, g) /\ g.answer # 0 /\ g.verdict[c] # Unjudged
<1>1. votes \in Nat /\ r.answer \in Answers /\ c \in Columns
  BY ResultsAssumption DEF CsvRows, Target, Columns
<1>2. /\ first \in Verdicts /\ first # Unjudged /\ first.of = r.answer /\ first.votes <= 1
  <2>1. CASE d \notin Abstentions /\ r.verdict["4omini"] # Unjudged
    <3>1. first = r.verdict["4omini"]
      BY <2>1 DEF Firsts
    <3>2. r.verdict \in [Columns -> Verdicts] /\ "4omini" \in Columns
      BY DEF CsvRows, Columns
    <3>3. first \in Verdicts /\ first.of \in {0, r.answer} /\ first.votes <= 1
      BY <3>1, <3>2 DEF FitsRow
    <3>4. first.of # 0
      BY <2>1, <3>1, <3>3 DEF Verdicts, Answers
    <3> QED BY <2>1, <3>1, <3>3, <3>4
  <2>2. CASE ~(d \notin Abstentions /\ r.verdict["4omini"] # Unjudged)
    BY <1>1, <2>2 DEF Firsts, Vote, Verdicts, Unjudged
  <2> QED BY <2>1, <2>2
<1>3. /\ final \in Verdicts /\ final # Unjudged /\ final.of = r.answer
      /\ c # "3vote" => final.votes <= 1
      /\ c = "3vote" /\ final.votes = 1 => final.value = 1
  <2>1. CASE first.value = 1 \/ votes = 1 \/ d \in Abstentions
    BY <1>2, <2>1 DEF Finals, Target
  <2>2. CASE ~(first.value = 1 \/ votes = 1 \/ d \in Abstentions)
    BY <1>1, <2>2 DEF Finals, Target, Vote, Verdicts, Unjudged
  <2> QED BY <2>1, <2>2
<1>4. /\ g.answer = r.answer /\ g \in CsvRows
      /\ g.verdict[c] = final
      /\ \A k \in Columns : k # c => g.verdict[k] = r.verdict[k]
  BY <1>1, <1>3 DEF CsvRows
<1>5. FitsRow(d, g)
  BY <1>1, <1>3, <1>4 DEF FitsRow, Columns, Target
<1> QED BY <1>3, <1>4, <1>5

-----------------------------------------------------------------------------
(* The steps.                                                              *)

LEMMA InitVInv == Init => VInv
<1> SUFFICES ASSUME Init PROVE VInv
  OBVIOUS
<1>1. FilesInv
  BY UnjudgedFits DEF Init, FilesInv
<1>2. TablesInv
  BY UnjudgedFits DEF Init, TablesInv, Tables
<1>3. RerunInv
  <2>1. made \in [Datasets -> 0 .. MaxAnswers] /\ launches \in [Reruns -> Nat]
    BY ResultsAssumption DEF Init
  <2>2. view \in [Reruns -> Tables] /\ \A p \in Reruns, d \in Datasets : view[p][d] = NoEntry
    BY UnjudgedFits DEF Init, Tables
  <2> QED BY <2>1, <2>2, UnjudgedFits DEF Init, RerunInv, RerunTypes, RerunFits
<1>4. JudgeInv
  BY UnjudgedFits, ResultsAssumption
     DEF Init, JudgeInv, JudgeTypes, JudgeFits, Undisturbed, AggregateCountsAll, NoAggregate,
         Jobs
<1> QED BY <1>1, <1>2, <1>3, <1>4 DEF VInv

\* What a step leaves alone it leaves fit.
LEMMA FilesFrame == FilesInv /\ UNCHANGED files => FilesInv'
  BY DEF FilesInv, files

LEMMA TablesFrame == TablesInv /\ UNCHANGED <<tables, posted>> => TablesInv'
  BY DEF TablesInv, tables

LEMMA RerunFrame == RerunInv /\ UNCHANGED <<rerun, made, launches>> => RerunInv'
  BY DEF RerunInv, RerunTypes, RerunFits, rerun

\* A rerun may change a file, and the judge then is not alone any more.
LEMMA JudgeFrame ==
  ASSUME JudgeInv, UNCHANGED <<aggregate, jpc, votes, job, frame, unscored, counted, judgings>>,
         alone' = FALSE \/ UNCHANGED <<alone, row>>
  PROVE  JudgeInv'
<1>1. JudgeTypes' /\ JudgeFits'
  BY DEF JudgeInv, JudgeTypes, JudgeFits
<1>2. Undisturbed' /\ AggregateCountsAll'
  BY DEF JudgeInv, Undisturbed, AggregateCountsAll, Target, Asked
<1> QED BY <1>1, <1>2 DEF JudgeInv

\* The steps of a rerun that leave the files as they are.
LEMMA RerunMovesVInv ==
  ASSUME VInv, UNCHANGED <<files, aggregate, judge, judgings>>, TablesInv', RerunInv'
  PROVE  VInv'
  BY FilesFrame, JudgeFrame DEF VInv, judge, files

\* A process that is out of its run holds nothing.
LEMMA IdleFits ==
  ASSUME VInv, NEW p \in Reruns, Idle(p), UNCHANGED <<made, launches>>
  PROVE  RerunInv'
<1>1. [d \in Datasets |-> NoEntry] \in Tables
  BY UnjudgedFits DEF Tables
<1>2. RerunTypes'
  BY <1>1, UnjudgedFits DEF VInv, RerunInv, RerunTypes, Idle
<1>3. RerunFits'
  BY UnjudgedFits DEF VInv, RerunInv, RerunTypes, RerunFits, Idle
<1> QED BY <1>2, <1>3 DEF RerunInv

\* The end of a dataset, with the results so far.
LEMMA OnwardFits ==
  ASSUME VInv, NEW p \in Reruns, NEW d \in Datasets, NEW won \in SUBSET Results,
         \A res \in won : FitsEntry(res), Onward(p, d, won),
         result' = result \/ result' = [result EXCEPT ![p] = NoEntry],
         UNCHANGED <<stages, saved, view, made, launches>>
  PROVE  RerunInv'
<1>1. RerunTypes'
  BY UnjudgedFits DEF VInv, RerunInv, RerunTypes, Onward
<1>2. pc'[p] \notin {"open", "write"} /\ \A o \in Reruns : o # p => pc'[o] = pc[o]
  BY DEF VInv, RerunInv, RerunTypes, Onward
<1>3. \A o \in Reruns : result'[o] = result[o] \/ (o = p /\ result'[o] = NoEntry)
  BY DEF VInv, RerunInv, RerunTypes
<1>4. \A o \in Reruns : \A res \in successes'[o] : FitsEntry(res)
  BY DEF VInv, RerunInv, RerunTypes, RerunFits, Onward
<1>5. RerunFits'
  BY <1>2, <1>3, <1>4, UnjudgedFits DEF VInv, RerunInv, RerunFits
<1> QED BY <1>1, <1>5 DEF RerunInv

LEMMA RerunDatasetFits == ASSUME VInv, NEW p \in Reruns, RerunDataset(p) PROVE RerunInv'
<1>0. PICK d \in Datasets : \E a \in AnswersFor(p, d) :
         /\ result' = [result EXCEPT ![p] = TableRow(a, VerdictFor(p, d, a))]
         /\ made' = [made EXCEPT ![d] = Max({@, a})]
  BY DEF RerunDataset
<1>1. PICK a \in AnswersFor(p, d) :
         /\ result' = [result EXCEPT ![p] = TableRow(a, VerdictFor(p, d, a))]
         /\ made' = [made EXCEPT ![d] = Max({@, a})]
  BY <1>0
<1>2. a \in Answers
  BY DEF AnswersFor, VInv, FilesInv, CsvRows
<1>3. TableRow(a, VerdictFor(p, d, a)) \in [answer : {0} \cup Answers, verdict : Verdicts]
      /\ FitsEntry(TableRow(a, VerdictFor(p, d, a))) /\ TableRow(a, VerdictFor(p, d, a)).answer # 0
  BY <1>2, VerdictForFits DEF TableRow, FitsEntry, Answers
<1>4. Max({made[d], a}) \in 0 .. MaxAnswers
  <2>1. made[d] \in 0 .. MaxAnswers /\ a \in 0 .. MaxAnswers /\ MaxAnswers \in Nat
    BY <1>2, ResultsAssumption DEF VInv, RerunInv, RerunTypes, Answers
  <2>2. \E x \in {made[d], a} : \A y \in {made[d], a} : x >= y
    BY <2>1
  <2>3. Max({made[d], a}) \in {made[d], a}
    BY <2>2 DEF Max
  <2> QED BY <2>1, <2>3
<1>5. RerunTypes'
  BY <1>1, <1>3, <1>4 DEF RerunDataset, VInv, RerunInv, RerunTypes
<1>6. RerunFits'
  BY <1>1, <1>3 DEF RerunDataset, VInv, RerunInv, RerunTypes, RerunFits
<1> QED BY <1>5, <1>6 DEF RerunInv

LEMMA RerunWritesVInv == ASSUME VInv, NEW p \in Reruns, RerunWrites(p) PROVE VInv'
<1>1. PICK d \in Datasets :
         /\ csv' = [csv EXCEPT ![d] = "whole"]
         /\ row' = [row EXCEPT ![d] = NewRow(d, result[p])]
         /\ Onward(p, d, successes[p] \cup
                            {[dataset |-> d, answer |-> result[p].answer,
                              verdict |-> result[p].verdict]})
  BY DEF RerunWrites
<1>2. /\ result[p].answer \in Answers /\ result[p].verdict \in Verdicts
      /\ result[p].verdict.of \in {0, result[p].answer}
  BY DEF RerunWrites, VInv, RerunInv, RerunTypes, RerunFits, FitsEntry
<1>3. FilesInv'
  <2>1. /\ NewRow(d, result[p]) \in CsvRows /\ FitsRow(d, NewRow(d, result[p]))
        /\ NewRow(d, result[p]).answer # 0
    BY <1>2, NewRowFits DEF NewRow
  <2> QED BY <1>1, <2>1 DEF VInv, FilesInv
<1>4. RerunInv'
  <2> DEFINE res == [dataset |-> d, answer |-> result[p].answer, verdict |-> result[p].verdict]
             won == successes[p] \cup {res}
  <2>1. res \in Results /\ FitsEntry(res)
    BY <1>2 DEF Results, FitsEntry
  <2>2. won \in SUBSET Results /\ \A r \in won : FitsEntry(r)
    BY <2>1 DEF VInv, RerunInv, RerunTypes, RerunFits
  <2>3. UNCHANGED <<stages, saved, view, made, launches>>
        /\ result' = [result EXCEPT ![p] = NoEntry]
    BY DEF RerunWrites, history
  <2>4. Onward(p, d, won)
    BY <1>1
  <2> HIDE DEF won
  <2> QED BY <2>2, <2>3, <2>4, OnwardFits
<1>5. TablesInv' /\ JudgeInv'
  BY TablesFrame, JudgeFrame DEF RerunWrites, VInv, history
<1> QED BY <1>3, <1>4, <1>5 DEF VInv

LEMMA SaveProgressVInv == ASSUME VInv, NEW p \in Reruns, SaveProgress(p) PROVE VInv'
<1>1. PICK res \in successes[p] :
         /\ progress' = Put(view[p], res) /\ posted' = Put(posted, res)
         /\ saved' = [saved EXCEPT ![p] = @ \cup {res}]
  BY DEF SaveProgress
<1>2. res \in Results /\ FitsEntry(res) /\ view[p] \in Tables
      /\ \A d \in Datasets : FitsEntry(view[p][d])
  BY DEF VInv, RerunInv, RerunTypes, RerunFits
<1>3. TablesInv'
  <2>1. Put(view[p], res) \in Tables /\ \A d \in Datasets : FitsEntry(Put(view[p], res)[d])
    BY <1>2, PutFits
  <2>2. Put(posted, res) \in Tables
    BY <1>2 DEF Put, Tables, TableRow, Results, VInv, TablesInv
  <2> QED BY <1>1, <2>1, <2>2 DEF SaveProgress, VInv, TablesInv
<1>4. RerunInv'
  <2>1. RerunTypes'
    BY <1>1, <1>2 DEF SaveProgress, VInv, RerunInv, RerunTypes
  <2>2. RerunFits'
    BY DEF SaveProgress, VInv, RerunInv, RerunTypes, RerunFits
  <2> QED BY <2>1, <2>2 DEF RerunInv
<1> QED BY <1>3, <1>4, RerunMovesVInv DEF SaveProgress

LEMMA RerunStepsVInv == VInv /\ RerunSteps => VInv'
<1> SUFFICES ASSUME VInv, NEW p \in Reruns,
                    \/ LaunchRerun(p) \/ RerunDataset(p) \/ RerunRaises(p)
                    \/ RerunOpens(p) \/ RerunWrites(p)
                    \/ LockProgress(p) \/ SaveProgress(p) \/ ReadAnswers(p) \/ MergeAnswers(p)
                    \/ KillRerun(p)
             PROVE  VInv'
  BY DEF RerunSteps
<1>1. CASE LaunchRerun(p)
  <2>1. TablesInv'
    BY <1>1, TablesFrame DEF LaunchRerun, VInv
  <2>2. RerunTypes'
    <3>1. \A st : ToRun(p, st) \subseteq Datasets
      BY ResultsAssumption DEF ToRun
    <3>2. launches[p] - 1 \in Nat
      BY <1>1 DEF LaunchRerun, VInv, RerunInv, RerunTypes
    <3> QED BY <1>1, <3>1, <3>2 DEF LaunchRerun, VInv, RerunInv, RerunTypes
  <2>3. RerunFits'
    BY <1>1 DEF LaunchRerun, VInv, RerunInv, RerunTypes, RerunFits
  <2> QED BY <1>1, <2>1, <2>2, <2>3, RerunMovesVInv DEF LaunchRerun, RerunInv
<1>2. CASE RerunDataset(p)
  BY <1>2, RerunDatasetFits, TablesFrame, RerunMovesVInv DEF RerunDataset, VInv
<1>3. CASE RerunRaises(p)
  <2>1. PICK d \in Datasets : Onward(p, d, successes[p])
    BY <1>3 DEF RerunRaises
  <2>2. successes[p] \in SUBSET Results /\ \A res \in successes[p] : FitsEntry(res)
    BY DEF VInv, RerunInv, RerunTypes, RerunFits
  <2>3. RerunInv'
    BY <1>3, <2>1, <2>2, OnwardFits DEF RerunRaises, history
  <2> QED BY <1>3, <2>3, TablesFrame, RerunMovesVInv DEF RerunRaises, VInv, history
<1>4. CASE RerunOpens(p)
  <2>1. PICK d \in Datasets : csv' = [csv EXCEPT ![d] = "cut"]
    BY <1>4 DEF RerunOpens
  <2>2. FilesInv'
    BY <1>4, <2>1 DEF RerunOpens, VInv, FilesInv
  <2>3. RerunInv'
    BY <1>4 DEF RerunOpens, history, VInv, RerunInv, RerunTypes, RerunFits
  <2>4. TablesInv' /\ JudgeInv'
    BY <1>4, TablesFrame, JudgeFrame DEF RerunOpens, VInv, history
  <2> QED BY <2>2, <2>3, <2>4 DEF VInv
<1>5. CASE RerunWrites(p)
  BY <1>5, RerunWritesVInv
<1>6. CASE LockProgress(p)
  <2>1. TablesInv'
    BY <1>6 DEF LockProgress, history, VInv, TablesInv
  <2>2. RerunInv'
    BY <1>6 DEF LockProgress, history, VInv, TablesInv, RerunInv, RerunTypes, RerunFits
  <2> QED BY <1>6, <2>1, <2>2, RerunMovesVInv DEF LockProgress, history
<1>7. CASE SaveProgress(p)
  BY <1>7, SaveProgressVInv
<1>8. CASE ReadAnswers(p)
  <2>1. RerunInv'
    BY <1>8 DEF ReadAnswers, history, VInv, TablesInv, RerunInv, RerunTypes, RerunFits
  <2> QED BY <1>8, <2>1, TablesFrame, RerunMovesVInv DEF ReadAnswers, history, VInv
<1>9. CASE MergeAnswers(p)
  <2>1. TablesInv'
    <3>1. /\ view[p] \in Tables /\ \A d \in Datasets : FitsEntry(view[p][d])
          /\ successes[p] \in SUBSET Results /\ \A res \in successes[p] : FitsEntry(res)
      BY DEF VInv, RerunInv, RerunTypes, RerunFits
    <3>2. answers' \in Tables /\ \A d \in Datasets : FitsEntry(answers'[d])
      BY <1>9, <3>1, MergedFits DEF MergeAnswers
    <3> QED BY <1>9, <3>2 DEF MergeAnswers, history, VInv, TablesInv
  <2> QED BY <1>9, <2>1, IdleFits, RerunMovesVInv DEF MergeAnswers, history
<1>10. CASE KillRerun(p)
  <2>1. TablesInv'
    BY <1>10 DEF KillRerun, history, VInv, TablesInv
  <2> QED BY <1>10, <2>1, IdleFits, RerunMovesVInv DEF KillRerun, history
<1> QED BY <1>1, <1>2, <1>3, <1>4, <1>5, <1>6, <1>7, <1>8, <1>9, <1>10

\* The steps of the judge leave the tables and the reruns alone.
LEMMA JudgeMovesVInv ==
  ASSUME VInv, UNCHANGED <<tables, rerun, made, posted, launches>>, FilesInv', JudgeInv'
  PROVE  VInv'
  BY TablesFrame, RerunFrame DEF VInv

\* A judge that is gone holds nothing.
LEMMA JudgeGoneInv ==
  ASSUME VInv, JudgeGone, UNCHANGED judgings,
         aggregate' \in [asked : SUBSET Datasets, counted : SUBSET Datasets, alone : BOOLEAN],
         AggregateCountsAll'
  PROVE  JudgeInv'
<1>1. JudgeTypes'
  BY UnjudgedFits DEF JudgeGone, VInv, JudgeInv, JudgeTypes, Jobs
<1>2. JudgeFits' /\ Undisturbed'
  BY UnjudgedFits DEF JudgeGone, JudgeFits, Undisturbed
<1> QED BY <1>1, <1>2 DEF JudgeInv

\* A step of the pool with the file of d, which is alone only with its own row.
LEMMA PoolMovesFit ==
  ASSUME VInv, jpc = "pool", NEW d \in Datasets, NEW j \in Jobs \ {"out"}, NEW f \in CsvRows,
         job' = [job EXCEPT ![d] = j], frame' = [frame EXCEPT ![d] = f],
         FitsRow(d, f), j \in {"read", "judged", "writing"} => f.answer # 0,
         UNCHANGED <<aggregate, jpc, votes, unscored, counted, alone, judgings>>,
         \A o \in Datasets : o # d => row'[o] = row[o],
         alone => /\ j = "read" => f = row'[d]
                  /\ j \in {"judged", "writing"} => f.verdict[Target(d, votes)] # Unjudged
                  /\ j \in {"done", "kept"} => row'[d].verdict[Target(d, votes)] # Unjudged
  PROVE  JudgeInv'
<1>1. /\ job'[d] = j /\ frame'[d] = f
      /\ \A o \in Datasets : o # d => job'[o] = job[o] /\ frame'[o] = frame[o]
  BY DEF VInv, JudgeInv, JudgeTypes
<1>2. JudgeTypes'
  BY DEF VInv, JudgeInv, JudgeTypes
<1>3. JudgeFits'
  BY <1>1 DEF VInv, JudgeInv, JudgeFits
<1>4. Undisturbed'
  <2>1. \A o : Target(o, votes)' = Target(o, votes)
    BY DEF Target
  <2>2. jpc' # "score"
    OBVIOUS
  <2> QED BY <1>1, <2>1, <2>2 DEF VInv, JudgeInv, Undisturbed, Target
<1>5. AggregateCountsAll'
  BY DEF VInv, JudgeInv, AggregateCountsAll
<1> QED BY <1>2, <1>3, <1>4, <1>5 DEF JudgeInv

LEMMA JudgeRowVInv == ASSUME VInv, NEW d \in Datasets, JudgeRow(d) PROVE VInv'
<1> DEFINE r == frame[d]
           c == Target(d, votes)
<1>1. /\ r \in CsvRows /\ FitsRow(d, r) /\ r.answer # 0 /\ votes \in VoteCounts
      /\ jpc = "pool"
      /\ alone => r = row[d]
      /\ UNCHANGED <<files, tables, aggregate, rerun, jpc, votes, unscored, counted, alone,
                     history>>
  BY DEF JudgeRow, VInv, JudgeInv, JudgeTypes, JudgeFits, Undisturbed
<1>2. FilesInv'
  BY <1>1, FilesFrame DEF VInv
<1>3. CASE r.verdict[c] # Unjudged
  <2>1. job' = [job EXCEPT ![d] = "kept"] /\ frame' = [frame EXCEPT ![d] = NoRow]
    BY <1>3 DEF JudgeRow
  <2>2. JudgeInv'
    BY <1>1, <1>3, <2>1, PoolMovesFit, UnjudgedFits DEF Jobs, files, history
  <2> QED BY <1>1, <1>2, <2>2, JudgeMovesVInv DEF history
<1>4. CASE r.verdict[c] = Unjudged
  <2>1. PICK first \in Firsts(d, r) : \E final \in Finals(d, r, first) :
           frame' = [frame EXCEPT ![d].verdict[c] = final]
    BY <1>4 DEF JudgeRow
  <2>2. PICK final \in Finals(d, r, first) : frame' = [frame EXCEPT ![d].verdict[c] = final]
    BY <2>1
  <2>3. PICK g : g = [r EXCEPT !.verdict[c] = final]
    OBVIOUS
  <2>4. g \in CsvRows /\ FitsRow(d, g) /\ g.answer # 0 /\ g.verdict[c] # Unjudged
    BY <1>1, <2>3, JudgedRowFits
  <2>5. job' = [job EXCEPT ![d] = "judged"] /\ frame' = [frame EXCEPT ![d] = g]
    BY <1>4, <2>2, <2>3 DEF JudgeRow
  <2>6. JudgeInv'
    BY <1>1, <2>4, <2>5, PoolMovesFit DEF Jobs, files, history
  <2> QED BY <1>1, <1>2, <2>6, JudgeMovesVInv DEF history
<1> QED BY <1>3, <1>4

LEMMA JudgeFileVInv ==
  ASSUME VInv, NEW d \in Datasets,
         JudgeReads(d) \/ JudgeRaises(d) \/ JudgeOpens(d) \/ JudgeWrites(d)
  PROVE  VInv'
<1>1. CASE JudgeReads(d)
  <2>1. FilesInv'
    BY <1>1, FilesFrame DEF JudgeReads, VInv
  <2>2. CASE csv[d] = "whole"
    <3>1. row[d] \in CsvRows /\ FitsRow(d, row[d]) /\ row[d].answer # 0
      BY <2>2 DEF VInv, FilesInv
    <3>2. JudgeInv'
      BY <1>1, <2>2, <3>1, PoolMovesFit DEF JudgeReads, Jobs, files, history
    <3> QED BY <1>1, <2>1, <3>2, JudgeMovesVInv DEF JudgeReads, history
  <2>3. CASE csv[d] # "whole"
    <3>1. frame' = [frame EXCEPT ![d] = frame[d]] /\ frame[d] \in CsvRows /\ FitsRow(d, frame[d])
      BY <1>1, <2>3 DEF JudgeReads, VInv, JudgeInv, JudgeTypes, JudgeFits
    <3>2. JudgeInv'
      BY <1>1, <2>3, <3>1, PoolMovesFit DEF JudgeReads, Jobs, files, history
    <3> QED BY <1>1, <2>1, <3>2, JudgeMovesVInv DEF JudgeReads, history
  <2> QED BY <2>2, <2>3
<1>2. CASE JudgeRaises(d)
  <2>1. FilesInv'
    BY <1>2, FilesFrame DEF JudgeRaises, VInv
  <2>2. JudgeInv'
    BY <1>2, PoolMovesFit, UnjudgedFits DEF JudgeRaises, Jobs, files, history
  <2> QED BY <1>2, <2>1, <2>2, JudgeMovesVInv DEF JudgeRaises, history
<1>3. CASE JudgeOpens(d)
  <2>1. FilesInv'
    BY <1>3 DEF JudgeOpens, VInv, FilesInv
  <2>2. /\ frame' = [frame EXCEPT ![d] = frame[d]] /\ frame[d] \in CsvRows
        /\ FitsRow(d, frame[d]) /\ frame[d].answer # 0
        /\ alone => frame[d].verdict[Target(d, votes)] # Unjudged
    BY <1>3 DEF JudgeOpens, VInv, JudgeInv, JudgeTypes, JudgeFits, Undisturbed
  <2>3. JudgeInv'
    BY <1>3, <2>2, PoolMovesFit DEF JudgeOpens, Jobs, history
  <2> QED BY <1>3, <2>1, <2>3, JudgeMovesVInv DEF JudgeOpens, history
<1>4. CASE JudgeWrites(d)
  <2>1. /\ frame[d] \in CsvRows /\ FitsRow(d, frame[d]) /\ frame[d].answer # 0
        /\ alone => frame[d].verdict[Target(d, votes)] # Unjudged
    BY <1>4 DEF JudgeWrites, VInv, JudgeInv, JudgeTypes, JudgeFits, Undisturbed
  <2>2. FilesInv'
    BY <1>4, <2>1 DEF JudgeWrites, VInv, FilesInv
  <2>3. row'[d] = frame[d] /\ \A o \in Datasets : o # d => row'[o] = row[o]
    BY <1>4 DEF JudgeWrites, VInv, FilesInv
  <2>4. JudgeInv'
    BY <1>4, <2>1, <2>3, PoolMovesFit, UnjudgedFits DEF JudgeWrites, Jobs, history
  <2> QED BY <1>4, <2>2, <2>4, JudgeMovesVInv DEF JudgeWrites, history
<1> QED BY <1>1, <1>2, <1>3, <1>4

\* The score of one file after the other.
LEMMA ScoreVInv == ASSUME VInv, Score PROVE VInv'
<1>1. FilesInv' /\ UNCHANGED <<tables, rerun, made, posted, launches>>
      /\ UNCHANGED judgings /\ UNCHANGED aggregate /\ UNCHANGED row
      /\ aggregate \in [asked : SUBSET Datasets, counted : SUBSET Datasets, alone : BOOLEAN]
      /\ AggregateCountsAll
  BY FilesFrame DEF Score, VInv, history, files, JudgeInv, JudgeTypes
<1>2. PICK d \in Datasets :
         /\ First(d, unscored)
         /\ IF csv[d] # "whole"
            THEN JudgeGone
            ELSE /\ unscored' = unscored \ {d}
                 /\ counted' = IF row[d].verdict[Target(d, votes)] # Unjudged
                               THEN counted \cup {d} ELSE counted
                 /\ UNCHANGED <<jpc, votes, job, frame, alone>>
  BY DEF Score
<1>3. CASE JudgeGone
  BY <1>1, <1>3, JudgeGoneInv, JudgeMovesVInv DEF AggregateCountsAll
<1>4. CASE ~JudgeGone
  <2>1. /\ unscored' = unscored \ {d} /\ UNCHANGED <<jpc, votes, job, frame, alone>>
        /\ counted' = IF row[d].verdict[Target(d, votes)] # Unjudged
                      THEN counted \cup {d} ELSE counted
    BY <1>2, <1>4
  <2>2. JudgeTypes'
    BY <1>1, <2>1 DEF VInv, JudgeInv, JudgeTypes
  <2>3. JudgeFits'
    BY <2>1 DEF Score, VInv, JudgeInv, JudgeFits
  <2>4. Undisturbed'
    <3> SUFFICES ASSUME alone PROVE Undisturbed'
      BY <2>1 DEF Undisturbed
    <3>1. /\ \A o \in Asked : job[o] \in {"done", "kept"}
          /\ unscored \subseteq Asked /\ counted = Asked \ unscored
          /\ \A o \in Datasets : job[o] \in {"done", "kept"} =>
                row[o].verdict[Target(o, votes)] # Unjudged
      BY DEF Score, VInv, JudgeInv, Undisturbed
    <3>2. d \in Asked /\ counted' = counted \cup {d}
      BY <1>2, <2>1, <3>1 DEF First
    <3>3. Asked' = Asked
      BY <2>1 DEF Asked
    <3>4. unscored' \subseteq Asked' /\ counted' = Asked' \ unscored'
      BY <1>2, <2>1, <3>1, <3>2, <3>3 DEF First
    <3>5. \A o : Target(o, votes)' = Target(o, votes)
      BY <2>1 DEF Target
    <3>6. \A o \in Datasets :
              /\ (job[o] = "read" => frame[o] = row[o])'
              /\ (job[o] \in {"judged", "writing"} =>
                     frame[o].verdict[Target(o, votes)] # Unjudged)'
              /\ (job[o] \in {"done", "kept"} => row[o].verdict[Target(o, votes)] # Unjudged)'
      BY <1>1, <2>1, <3>5 DEF VInv, JudgeInv, Undisturbed, Target
    <3> QED BY <2>1, <3>1, <3>3, <3>4, <3>6 DEF Undisturbed
  <2>5. AggregateCountsAll'
    BY <1>1 DEF AggregateCountsAll
  <2> QED BY <1>1, <2>2, <2>3, <2>4, <2>5, JudgeMovesVInv DEF JudgeInv
<1> QED BY <1>3, <1>4

LEMMA JudgeStepsVInv == VInv /\ JudgeSteps => VInv'
<1> SUFFICES ASSUME VInv, JudgeSteps PROVE VInv'
  OBVIOUS
<1>1. CASE LaunchJudge
  <2>1. FilesInv'
    BY <1>1, FilesFrame DEF LaunchJudge, VInv
  <2>2. JudgeTypes'
    BY <1>1 DEF LaunchJudge, VInv, JudgeInv, JudgeTypes, Jobs
  <2>3. JudgeFits' /\ Undisturbed' /\ AggregateCountsAll'
    BY <1>1 DEF LaunchJudge, VInv, JudgeInv, JudgeFits, Undisturbed, AggregateCountsAll
  <2> QED BY <1>1, <2>1, <2>2, <2>3, JudgeMovesVInv DEF LaunchJudge, JudgeInv
<1>2. ASSUME NEW d \in Datasets,
             JudgeReads(d) \/ JudgeRow(d) \/ JudgeRaises(d) \/ JudgeOpens(d) \/ JudgeWrites(d)
      PROVE  VInv'
  BY <1>2, JudgeRowVInv, JudgeFileVInv
<1>3. CASE EndPool
  <2>1. FilesInv' /\ UNCHANGED aggregate /\ UNCHANGED judgings /\ UNCHANGED row
    BY <1>3, FilesFrame DEF EndPool, VInv, history, files
  <2>2. CASE JudgeGone
    <3>1. JudgeInv'
      BY <2>1, <2>2, JudgeGoneInv DEF VInv, JudgeInv, JudgeTypes, AggregateCountsAll
    <3> QED BY <1>3, <2>1, <3>1, JudgeMovesVInv DEF EndPool, history
  <2>3. CASE ~JudgeGone
    <3>1. /\ jpc' = "score" /\ unscored' = Asked /\ jpc = "pool" /\ Settled
          /\ UNCHANGED <<votes, job, frame, counted, alone>>
          /\ \A d \in Asked : job[d] # "raised"
      BY <1>3, <2>3 DEF EndPool, ToScore
    <3>2. JudgeTypes'
      BY <2>1, <3>1 DEF VInv, JudgeInv, JudgeTypes, Asked
    <3>3. JudgeFits' /\ AggregateCountsAll'
      BY <2>1, <3>1 DEF VInv, JudgeInv, JudgeFits, AggregateCountsAll
    <3>4. Undisturbed'
      BY <2>1, <3>1 DEF VInv, JudgeInv, JudgeFits, Undisturbed, Asked, Settled, Target
    <3> QED BY <1>3, <2>1, <3>2, <3>3, <3>4, JudgeMovesVInv DEF EndPool, history, JudgeInv
  <2> QED BY <2>2, <2>3
<1>4. CASE Score
  BY <1>4, ScoreVInv
<1>5. CASE WriteAggregate
  <2>1. FilesInv'
    BY <1>5, FilesFrame DEF WriteAggregate, VInv
  <2>2. /\ aggregate' = [asked |-> Asked, counted |-> counted, alone |-> alone]
        /\ Asked \subseteq Datasets /\ counted \subseteq Datasets /\ alone \in BOOLEAN
    BY <1>5 DEF WriteAggregate, VInv, JudgeInv, JudgeTypes, Asked
  <2>3. alone => counted = Asked
    BY <1>5 DEF WriteAggregate, VInv, JudgeInv, Undisturbed
  <2>4. AggregateCountsAll'
    BY <2>2, <2>3 DEF AggregateCountsAll
  <2>5. JudgeInv'
    BY <1>5, <2>2, <2>4, JudgeGoneInv DEF WriteAggregate, history
  <2> QED BY <1>5, <2>1, <2>5, JudgeMovesVInv DEF WriteAggregate, history
<1>6. CASE KillJudge
  <2>1. FilesInv'
    BY <1>6, FilesFrame DEF KillJudge, VInv
  <2>2. JudgeInv'
    BY <1>6, JudgeGoneInv
       DEF KillJudge, history, VInv, JudgeInv, JudgeTypes, AggregateCountsAll
  <2> QED BY <1>6, <2>1, <2>2, JudgeMovesVInv DEF KillJudge, history
<1> QED BY <1>1, <1>2, <1>3, <1>4, <1>5, <1>6 DEF JudgeSteps

LEMMA RowsAlwaysFit == Spec => []VInv
<1>1. VInv /\ UNCHANGED vars => VInv'
  <2> SUFFICES ASSUME VInv, UNCHANGED vars PROVE VInv'
    OBVIOUS
  <2>1. /\ UNCHANGED <<files, tables, posted, rerun, made, launches>>
        /\ UNCHANGED <<aggregate, jpc, votes, job, frame, unscored, counted, judgings>>
        /\ UNCHANGED <<alone, row>>
    BY DEF vars, judge, history, files
  <2> QED BY <2>1, FilesFrame, TablesFrame, RerunFrame, JudgeFrame DEF VInv
<1>2. VInv /\ [Next]_vars => VInv'
  BY <1>1, RerunStepsVInv, JudgeStepsVInv DEF Next
<1> QED BY InitVInv, <1>2, PTL DEF Spec

\* Whatever reruns and the judge do to a file side by side, and wherever they
\* are killed, a verdict stands beside the answer it judged and in its column
\* (single_result_frame, judge_with_carry, update_all_answers_csv).
THEOREM VerdictsStandBesideTheirAnswers == Spec => []VerdictsFit
<1>1. VInv => TypeOK
  BY DEF VInv, FilesInv, TablesInv, RerunInv, RerunTypes, JudgeInv, JudgeTypes, TypeOK
<1>2. VInv => OfItsAnswer
  BY DEF VInv, FilesInv, TablesInv, FitsRow, FitsEntry, OfItsAnswer
<1>3. VInv => ColumnsTellTheVote
  BY DEF VInv, FilesInv, FitsRow, ColumnsTellTheVote
<1> QED BY <1>1, <1>2, <1>3, RowsAlwaysFit, PTL DEF VerdictsFit

\* The aggregate of a judge no rerun disturbed counts every file of its run,
\* also those that an earlier run had judged before it was killed or failed
\* (run_longmem, _score_longmem).
THEOREM AggregatesAreComplete == Spec => []AggregateCountsAll
<1>1. VInv => AggregateCountsAll
  BY DEF VInv, JudgeInv
<1> QED BY <1>1, RowsAlwaysFit, PTL
=================================================================================
