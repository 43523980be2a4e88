------------------------------ MODULE Evidence ------------------------------
(***************************************************************************)
(* How the entities and relationships a query kept become the block of     *)
(* evidence the answering model reads: the turns behind them are scored,   *)
(* ranked, cut, their text fetched, and the finished block narrowed.       *)
(*                                                                         *)
(* "turn" is the selection by turn; "single" and "pair" are the selection  *)
(* by entry of the vector store, where a turn has one entry or two (what   *)
(* the user said, what the assistant said).  Scores are cosine levels.     *)
(***************************************************************************)
EXTENDS Naturals, Sequences, FiniteSets, SequencesExt, Lists

CONSTANTS
  NItems,        \* entities, then relationships, in the order of the reranker
  NTurns,        \* number of turns, for each mode
  Scores,        \* raw cosine levels; None: the store has no vector
  Threshold,     \* summary_vec_threshold
  TurnConfigs,   \* [topk, quota, raw, fallback] of the selection by turn
  SplitConfigs,  \* [topk, direct, floor, rerank, cosineOnly] by entry
  PoolCap,       \* _RERANK_POOL_CAP
  KeepTopN, MinOverlap, Overlaps,   \* NarrowingModule
  None

Modes == {"turn", "single", "pair"}
ASSUME EvidenceAssumption ==
  /\ NTurns \in [Modes -> Nat] /\ NItems \in Nat
  /\ PoolCap \in Nat \ {0} /\ None \notin Nat /\ Scores \subseteq Nat \cup {None}
  /\ Threshold \in Nat /\ KeepTopN \in Nat \ {0} /\ MinOverlap \in Nat /\ Overlaps \subseteq Nat
  /\ \A c \in TurnConfigs : c.topk \in Nat /\ c.quota \in Nat
  /\ \A c \in SplitConfigs : {c.topk, c.direct, c.floor, c.rerank} \subseteq Nat

VARIABLES
  mode, conf,    \* the configuration of the retriever
  prov,          \* turns each context item came from
  score,         \* what compare_by_id_raw answers for each entry
  pc,            \* stage of the build
  at,            \* items, snippets or evidence items taken up so far
  left,          \* turns of the item that are still to be looked at
  seen,          \* turns (or entries) that are spoken for
  scored,        \* candidates: [score, id, src]
  base,          \* what the selection was made from: every candidate (turn),
                 \* the cut by provenance (entries), or the capped pool (reranker)
  texts,         \* entries that have text
  reranked,      \* the reranker gave the order
  items,         \* evidence items whose text was found: [id, text]
  block          \* lines of the block: [id, part, header]

vars == <<mode, conf, prov, score, pc, at, left, seen, scored, base, texts, reranked, items, block>>

Turns == 1..NTurns[mode]
Item == 1..NItems
Direct == 0                       \* source of a hit that no item led to
Parts == IF mode = "pair" THEN {1, 2} ELSE {1}
Entries == Turns \X Parts
Ids(s) == {s[i].id : i \in DOMAIN s}

\* Sorting by score, the best first, equals in the order they had.
Better(s) == {p \in (DOMAIN s) \X (DOMAIN s) :
                 \/ s[p[1]].score > s[p[2]].score
                 \/ s[p[1]].score = s[p[2]].score /\ p[1] < p[2]}
Ranked(s) == LET R == Better(s) IN [k \in DOMAIN s |-> s[Nth(DOMAIN s, R, k)]]

Passes(e) == score[e] # None /\ score[e] >= Threshold
Candidate(e, src) == [score |-> score[e], id |-> e, src |-> src]

Init ==
  /\ mode \in Modes
  /\ conf \in IF mode = "turn" THEN TurnConfigs ELSE SplitConfigs
  /\ prov \in [Item -> SUBSET Turns]
  /\ score \in [Entries -> Scores]
  /\ pc = "collect" /\ at = 0 /\ left = {} /\ seen = {}
  /\ scored = <<>> /\ base = <<>> /\ texts = {} /\ reranked = FALSE
  /\ items = <<>> /\ block = <<>>

-----------------------------------------------------------------------------
(* Collecting the candidates.  By turn, a turn is spoken for once it passed;  *)
(* by entry, an entry is spoken for once it was looked at.                    *)
CollectTurnUnclaimed(acc, t, src) ==
  IF t \in acc.seen \/ ~Passes(<<t, 1>>) THEN acc
  ELSE [seen |-> acc.seen, out |-> Append(acc.out, Candidate(<<t, 1>>, src))]
CollectTurn(acc, t, src) ==
  IF t \in acc.seen \/ ~Passes(<<t, 1>>) THEN acc
  ELSE [seen |-> acc.seen \cup {t}, out |-> Append(acc.out, Candidate(<<t, 1>>, src))]

CollectEntry(acc, e, src) ==
  IF e \in acc.seen THEN acc
  ELSE [seen |-> acc.seen \cup {e},
        out |-> IF Passes(e) THEN Append(acc.out, Candidate(e, src)) ELSE acc.out]

\* The next item, and the turns behind it.
CollectItem ==
  /\ pc = "collect" /\ left = {} /\ at < NItems
  /\ at' = at + 1 /\ left' = prov[at']
  /\ UNCHANGED <<mode, conf, prov, score, pc, seen, scored, base, texts, reranked, items, block>>

\* The newest of them, which is one candidate, or one or two.
LookAtTurn ==
  /\ pc = "collect" /\ left # {}
  /\ LET t == Max(left)
         acc == [seen |-> seen, out |-> scored]
         user == CollectEntry(acc, <<t, 1>>, at)
         new == IF mode = "turn" THEN CollectTurn(acc, t, at)
                ELSE IF mode = "single" THEN user ELSE CollectEntry(user, <<t, 2>>, at)
     IN  left' = left \ {t} /\ seen' = new.seen /\ scored' = new.out
  /\ UNCHANGED <<mode, conf, prov, score, pc, at, base, texts, reranked, items, block>>

Collected == pc = "collect" /\ left = {} /\ at = NItems

(* The cut by turn: the best of every source first, the rest by score.        *)
Quota(s) ==
  LET Earlier(i) == Cardinality({j \in DOMAIN s : j < i /\ s[j].src = s[i].src})
      own == {i \in DOMAIN s : Earlier(i) < conf.quota}
      fill == IF conf.topk > Cardinality(own) THEN conf.topk - Cardinality(own) ELSE 0
  IN  At(s, own) \o Upto(At(s, DOMAIN s \ own), fill)

RankAndCutFirst(s) == Upto(Ranked(s), conf.topk)
RankAndCut(s) == IF conf.quota > 0 THEN Quota(Ranked(s)) ELSE Upto(Ranked(s), conf.topk)

SelectTurns ==
  /\ Collected /\ mode = "turn"
  /\ base' = scored /\ scored' = RankAndCut(scored)
  /\ pc' = "fetch" /\ at' = 0
  /\ UNCHANGED <<mode, conf, prov, score, left, seen, texts, reranked, items, block>>

(* The search of the whole store, by cosine and from the floor up: its best,  *)
(* the best first.  Of those, the hits that no item led to; a search that     *)
(* fails finds nothing.                                                       *)
Searches ==
  LET known == {e \in Entries : score[e] # None /\ score[e] >= conf.floor}
      n == IF Cardinality(known) < conf.direct THEN Cardinality(known) ELSE conf.direct
  IN  {h \in [1..n -> known] :
         /\ \A i, j \in 1..n : i < j => h[i] # h[j] /\ score[h[i]] >= score[h[j]]
         /\ \A e \in known : (\E i \in 1..n : h[i] = e) \/ \A i \in 1..n : score[h[i]] >= score[e]}

DirectHits(have) ==
  {<<>>} \cup {At([i \in DOMAIN h |-> Candidate(h[i], Direct)], {i \in DOMAIN h : h[i] \notin have})
               : h \in Searches}

(* Without a reranker: the cut by provenance first, then direct hits on top.  *)
ExtraSlots(cut, hits) == IF conf.floor > 0 THEN Ranked(cut \o hits) ELSE cut

SelectEntries ==
  /\ Collected /\ mode # "turn" /\ conf.rerank = 0
  /\ base' = Upto(Ranked(scored), conf.topk)
  /\ \E hits \in DirectHits(Ids(base')) : scored' = ExtraSlots(base', hits)
  /\ texts' \in SUBSET Ids(scored')
  /\ pc' = "fetch" /\ at' = 0
  /\ UNCHANGED <<mode, conf, prov, score, left, seen, items, block, reranked>>

(* With one: candidates of both kinds, capped by cosine, in the order of the  *)
(* reranker, which is given only those that have text.  Out of memory, and in *)
(* the ablation, it is the order by cosine.                                   *)
Pool(s, hits) == Upto(Ranked(s \o hits), PoolCap)

\* What the reranker is offered.
OfferedAll(s, T) == s
Offered(s, T) == At(s, {i \in DOMAIN s : s[i].id \in T})

Orders(s) == {[i \in DOMAIN s |-> s[p[i]]] : p \in {q \in [DOMAIN s -> DOMAIN s] : IsInjective(q)}}

RerankEntries ==
  /\ Collected /\ mode # "turn" /\ conf.rerank > 0
  /\ \E hits \in DirectHits(Ids(scored)) : base' = Pool(scored, hits)
  /\ texts' \in SUBSET Ids(base')
  /\ LET withText == Offered(base', texts')
     IN  \/ scored' = Upto(base', conf.rerank) /\ reranked' = FALSE
         \/ /\ ~conf.cosineOnly /\ withText # <<>>
            /\ \E o \in Orders(withText) : scored' = Upto(o, conf.rerank)
            /\ reranked' = TRUE
  /\ pc' = "fetch" /\ at' = 0
  /\ UNCHANGED <<mode, conf, prov, score, left, seen, items, block>>

-----------------------------------------------------------------------------
(* The text of a turn: the raw turn, or its summary, or the raw turn when the *)
(* summary is missing or ends in an ellipsis.                                 *)
TurnText ==
  IF conf.raw THEN {"raw", "none"}
  ELSE {"summary", "truncated", "none"} \cup (IF conf.fallback THEN {"raw"} ELSE {})

\* The text of an entry: the raw turn from whichever store has it, or the
\* entry's own text.
EntryText(e) ==
  IF e \notin texts THEN {"none"} ELSE IF mode = "single" THEN {"raw"} ELSE {"summary"}

FetchSnippet ==
  /\ pc = "fetch" /\ at < Len(scored)
  /\ LET c == scored[at + 1]
     IN  \E text \in IF mode = "turn" THEN TurnText ELSE EntryText(c.id) :
           items' = IF text = "none" THEN items ELSE Append(items, [id |-> c.id, text |-> text])
  /\ at' = at + 1
  /\ UNCHANGED <<mode, conf, prov, score, pc, left, seen, scored, base, texts, reranked, block>>

(* A raw turn is what the user said and, on a line of its own, what the       *)
(* assistant said; that line may begin like a heading.                        *)
Title == [id |-> None, part |-> 1, header |-> TRUE]
LinesOf(item, header) ==
  <<[id |-> item.id, part |-> 1, header |-> FALSE]>>
  \o IF item.text = "raw" THEN <<[id |-> item.id, part |-> 2, header |-> header]>> ELSE <<>>

FormatBlock ==
  /\ pc = "fetch" /\ at = Len(scored)
  /\ IF items = <<>> THEN pc' = "done" /\ UNCHANGED block
     ELSE pc' = "format" /\ block' = <<Title>>
  /\ at' = 0
  /\ UNCHANGED <<mode, conf, prov, score, left, seen, scored, base, texts, reranked, items>>

FormatItem ==
  /\ pc = "format"
  /\ at' = at + 1 /\ pc' = IF at' = Len(items) THEN "narrow" ELSE "format"
  /\ \E header \in BOOLEAN : block' = block \o LinesOf(items[at'], header)
  /\ UNCHANGED <<mode, conf, prov, score, left, seen, scored, base, texts, reranked, items>>

(* Narrowing keeps, of the lines that are not headings, those that share most *)
(* words with the question; when none shares enough it keeps the first ones.  *)
Headings(lines) == At(lines, {i \in DOMAIN lines : lines[i].header})
Snippets(lines) == At(lines, {i \in DOMAIN lines : ~lines[i].header})

KeptLinesStrict(n, overlap) ==
  LET pool == {i \in 1..n : overlap[i] >= MinOverlap}
      Ahead(i) == {j \in pool : overlap[j] > overlap[i] \/ (overlap[j] = overlap[i] /\ j < i)}
  IN  {i \in pool : Cardinality(Ahead(i)) < KeepTopN}

KeptLines(n, overlap) ==
  LET enough == {i \in 1..n : overlap[i] >= MinOverlap}
      pool == IF enough = {} THEN 1..n ELSE enough
      Ahead(i) == {j \in pool : overlap[j] > overlap[i] \/ (overlap[j] = overlap[i] /\ j < i)}
  IN  {i \in pool : Cardinality(Ahead(i)) < KeepTopN}

NarrowedBy(overlap) ==
  LET snippets == Snippets(block)
  IN  Headings(block) \o At(snippets, KeptLines(Len(snippets), overlap))

Narrow ==
  /\ pc = "narrow"
  /\ LET n == Len(Snippets(block))
     IN  \/ block' = block                       \* disabled, or it failed
         \/ /\ n > KeepTopN \/ MinOverlap > 0
            /\ \E overlap \in [1..n -> Overlaps] : block' = NarrowedBy(overlap)
  /\ pc' = "done"
  /\ UNCHANGED <<mode, conf, prov, score, at, left, seen, scored, base, texts, reranked, items>>

Next ==
  CollectItem \/ LookAtTurn \/ SelectTurns \/ SelectEntries \/ RerankEntries
    \/ FetchSnippet \/ FormatBlock \/ FormatItem \/ Narrow

Spec == Init /\ [][Next]_vars /\ WF_vars(Next)

-----------------------------------------------------------------------------
(* Type invariant of the build.                                               *)
Candidates == [score : Scores \ {None}, id : Entries, src : 0..NItems]

TypeOK ==
  /\ pc \in {"collect", "fetch", "format", "narrow", "done"} /\ at \in Nat
  /\ left \subseteq Turns
  /\ scored \in Seq(Candidates) /\ base \in Seq(Candidates)
  /\ texts \subseteq Entries /\ reranked \in BOOLEAN
  /\ items \in Seq([id : Entries, text : {"summary", "truncated", "raw"}])

Selected == pc # "collect"
Reached == {e \in Entries : Passes(e) /\ \E i \in Item : e[1] \in prov[i]}

(* No turn or entry is cited twice, whichever items lead to it, and each is   *)
(* cited for the first item that leads to it, or for a direct hit.            *)
CitedOnce ==
  /\ TypeOK
  /\ Cardinality(Ids(scored)) = Len(scored)
  /\ \A i \in DOMAIN scored :
       LET c == scored[i]
       IN  c.src # Direct => /\ c.id[1] \in prov[c.src]
                             /\ \A j \in 1..(c.src - 1) : c.id[1] \notin prov[j]

(* Without a quota and without a reranker, a candidate that provenance leads  *)
(* to is left out only when all the slots went to candidates that score as    *)
(* well: neither the collecting nor direct hits displace a better one.        *)
NoBetterLeftOut ==
  Selected /\ (IF mode = "turn" THEN conf.quota = 0 ELSE conf.rerank = 0) =>
    LET own == {i \in DOMAIN scored : scored[i].id \in Reached}
    IN  \A e \in Reached \ Ids(scored) :
          Cardinality(own) >= conf.topk /\ \A i \in own : scored[i].score >= score[e]

(* The quota, in terms of what leads to a turn: one that passes and is left  *)
(* out found every slot taken, and the first item that leads to it served,    *)
(* with as many turns that score as well as the quota says.  Of the later     *)
(* items that lead to it nothing is said: builder.py:323-326 promises each    *)
(* source its best candidate, but a turn counts for the first alone.          *)
QuotaServed ==
  Selected /\ mode = "turn" /\ conf.quota > 0 =>
    \A t \in Turns, i \in Item :
      LET served == {c \in ToSet(scored) : c.src = i /\ c.score >= score[<<t, 1>>]}
      IN  Passes(<<t, 1>>) /\ <<t, 1>> \notin Ids(scored)
            /\ t \in prov[i] /\ (\A j \in 1..(i - 1) : t \notin prov[j])
          => Len(scored) >= conf.topk /\ Cardinality(served) >= conf.quota

(* The slots go to the best of what there is, quota or not.                   *)
SlotsWellSpent == NoBetterLeftOut /\ QuotaServed

(* What the reranker picks has text, and takes no more slots than there are:  *)
(* the block then holds all it picked.  What the reranker is offered is the   *)
(* best of the pool by cosine, however many candidates there are.             *)
RerankedAreShown ==
  /\ reranked /\ pc \in {"format", "narrow", "done"} =>
        [i \in DOMAIN items |-> items[i].id] = [i \in DOMAIN scored |-> scored[i].id]
  /\ Selected /\ mode # "turn" /\ conf.rerank > 0 =>
       /\ Len(base) <= PoolCap /\ Len(scored) <= conf.rerank
       /\ \A e \in Reached \ Ids(base) : \A i \in DOMAIN base : base[i].score >= score[e]

(* Narrowing never invents or reorders lines, keeps at most its budget when   *)
(* it cuts, and never leaves a block with headings alone (narrowing.py:27).   *)
NarrowingOnlyDrops ==
  [][pc = "narrow" =>
       LET old == Snippets(block) new == Snippets(block')
       IN  /\ new # <<>>
           /\ new = old \/ Len(new) <= KeepTopN
           /\ \E f \in [DOMAIN new -> DOMAIN old] :
                /\ \A k \in DOMAIN new : new[k] = old[f[k]]
                /\ \A k \in 1..(Len(new) - 1) : f[k] < f[k + 1]]_vars
=============================================================================
