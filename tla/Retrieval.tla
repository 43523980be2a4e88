----------------------------- MODULE Retrieval -----------------------------
(***************************************************************************)
(* One retriever answering the questions of a run, one after the other:    *)
(* keywords, entity seeds, spreading activation over the graph, the two    *)
(* subgraphs, their union, the reranker, the temporal boost, the evidence; *)
(* then the answer, the row that records it, and the diagnosis of rows     *)
(* that were judged wrong.                                                 *)
(*                                                                         *)
(* Graph, vector stores and cache only have to agree as far as ingestion   *)
(* makes them agree: a hit may name an entity that the graph or the cache  *)
(* does not have.  How evidence is chosen is module Evidence.              *)
(***************************************************************************)
EXTENDS Naturals, Sequences, FiniteSets, SequencesExt, Lists

CONSTANTS
  Ents, Rels,    \* identifiers; entities are numbers, sorted as such
  Ends,          \* Ends[r]: source and target of a relationship, which may be one entity
  NameOf,        \* names of entities: two may have the same
  Questions,     \* number of questions of the run
  Settings,      \* configurations and ablation switches
  Stores,        \* [nodes, known, relKnown]: what graph and cache have
  Weights,       \* rescaled weights a question may give the relationships; 0: pruned
  Full, TauA, MaxHops,        \* activation of a seed; the threshold; the hops
  TopHits,       \* ent_topk = rel_topk
  BatchSize,     \* documents the reranker scores at once
  TopE, TopR, Floor,          \* rrk_ent_topk, rrk_rel_topk, rrk_threshold
  Scorings,      \* scores the reranker may give
  Dated,         \* entities of a temporal type that a dialogue dates
  MaxAttempts    \* max_retries of generate_query_keywords

ASSUME GraphAssumption ==
  /\ IsFiniteSet(Ents \cup Rels) /\ Ents \cup Rels \subseteq Nat /\ Ents \cap Rels = {}
  /\ Ends \in [Rels -> Ents \X Ents]
  /\ \A r, q \in Rels : Ends[r] = Ends[q] => r = q
  /\ \A s \in Stores : s.nodes \subseteq Ents /\ s.known \subseteq Ents /\ s.relKnown \subseteq Rels
ASSUME NumbersAssumption ==
  /\ Questions \in Nat \ {0} /\ MaxAttempts \in Nat /\ MaxHops \in Nat /\ TopHits \in Nat
  /\ TauA \in Nat /\ Full \in Nat \ {0} /\ Weights \subseteq [Rels -> Nat]
  /\ BatchSize \in Nat \ {0} /\ TopE \in Nat /\ TopR \in Nat /\ Floor \in Nat
  /\ Scorings \subseteq [Ents \cup Rels -> Nat]

VARIABLES
  set, store,    \* the configuration; the contents of graph and cache
  question,      \* number of the question
  phase,
  cached,        \* keywords of the questions that were asked before
  kw,            \* [tries, low, high]: attempts so far; keywords found
  seeds,         \* entity ids in the order of the search
  sa,            \* the spreading activation
  pool,          \* [local, global]: what the two branches end with, by id
  batch,         \* [kind, size, out]: the scoring under way
  scoring,       \* the scores of the reranker
  picked,        \* what was selected, in order
  stages,        \* the stage trace: branch -> sequence of stages
  trace,         \* last_retrieval_trace
  rows,          \* the rows written so far
  verdicts       \* failure_type by row

local == <<kw, seeds, sa, pool, batch, scoring, picked, stages>>
run == <<set, store, question, cached, rows, verdicts>>
retrieveVars == <<run, phase, local, trace>>

NoTrace == [q |-> 0, failed |-> FALSE, stop |-> "", ents |-> <<>>, rels |-> <<>>,
            evidence |-> 0, tags |-> {}, low |-> FALSE, high |-> FALSE]
NoKeywords == [tries |-> 0, low |-> FALSE, high |-> FALSE]
NoSpread == [hop |-> 0, frontier |-> {}, all |-> {}, arcs |-> <<>>, w |-> <<>>, value |-> <<>>,
             queue |-> <<>>, visited |-> {}, spread |-> 0]
NoBatch == [kind |-> "", size |-> 0, out |-> <<>>]
NoStages == [local |-> <<>>, global |-> <<>>, merged |-> <<>>]
Nothing == [ents |-> {}, rels |-> {}]
Blank ==
  /\ kw = NoKeywords /\ seeds = <<>> /\ sa = NoSpread /\ batch = NoBatch /\ scoring = <<>>
  /\ pool = [local |-> Nothing, global |-> Nothing]
  /\ picked = [ents |-> <<>>, rels |-> <<>>] /\ stages = NoStages

RetrieveInit ==
  /\ set \in Settings /\ store \in Stores
  /\ question = 1 /\ phase = "ask" /\ Blank
  /\ cached = <<>> /\ trace = NoTrace /\ rows = <<>> /\ verdicts = <<>>

-----------------------------------------------------------------------------
(* The graph's answers, and the labels the traces are written in: an entity   *)
(* the cache does not know appears under its id.                              *)
Held == {r \in Rels : {Ends[r][1], Ends[r][2]} \subseteq store.nodes}
EdgesAt(e) == {r \in Held : e \in {Ends[r][1], Ends[r][2]}}
Across(r, e) == IF Ends[r][1] = e THEN Ends[r][2] ELSE Ends[r][1]
Neighbours(E) == UNION {{Across(r, e) : r \in EdgesAt(e)} : e \in E \cap store.nodes}
EndsOf(R) == UNION {{Ends[r][1], Ends[r][2]} : r \in R}

Label(e) == IF e \in store.known THEN NameOf[e] ELSE e
Labels(E) == {Label(e) : e \in E}

\* A stage of the trace, and what it lost against the one before it.
Stage(name, E, R, reason) == [name |-> name, ents |-> E, rels |-> R, reason |-> reason]
Traced(branch, stage) == [stages EXCEPT ![branch] = Append(@, stage)]

Arrangements(S) == {o \in [1..Cardinality(S) -> S] : \A i, j \in DOMAIN o : i # j => o[i] # o[j]}

-----------------------------------------------------------------------------
(* A question begins with empty traces; its keywords come from the cache of   *)
(* the process or from the model, which is asked again while they are empty   *)
(* or unreadable, and what it finds at last is kept when it is not empty.     *)
Ask ==
  /\ phase = "ask" /\ question <= (IF set.timed THEN 1 ELSE Questions)
  /\ trace' = [NoTrace EXCEPT !.q = question]
  /\ phase' = IF set.noKeywords THEN "search" ELSE "keywords"
  /\ UNCHANGED <<run, local>>

\* Questions may be asked again: the prompt decides.
Prompt(i) == IF set.repeats THEN 1 ELSE i
CacheHit == Prompt(question) \in DOMAIN cached

KeywordsFromCache ==
  /\ phase = "keywords" /\ CacheHit
  /\ kw' = cached[Prompt(question)] /\ phase' = "search"
  /\ UNCHANGED <<run, seeds, sa, pool, batch, scoring, picked, stages, trace>>

KeywordsFromModel ==
  /\ phase = "keywords" /\ ~CacheHit /\ kw.tries < MaxAttempts
  /\ \E low, high \in BOOLEAN :
       LET found == [tries |-> 0, low |-> low, high |-> high]
       IN  IF low \/ high
           THEN kw' = found /\ cached' = [i \in DOMAIN cached \cup {Prompt(question)} |->
                                            IF i = Prompt(question) THEN found ELSE cached[i]]
           ELSE kw' = [kw EXCEPT !.tries = @ + 1] /\ cached' = cached
  /\ phase' = IF kw'.tries \in 1..(MaxAttempts - 1) THEN "keywords" ELSE "search"
  /\ UNCHANGED <<set, store, question, seeds, sa, pool, batch, scoring, picked, stages, trace, rows, verdicts>>

-----------------------------------------------------------------------------
(* Entities: the best of the vector store, and by words those the cache       *)
(* knows.  They come out of a set, in any order.                              *)
EntityHits == {V \in SUBSET Ents : Cardinality(V) <= TopHits}
WordHits == IF kw.low /\ ~set.noWords THEN SUBSET store.known ELSE {{}}

SearchEntities ==
  /\ phase = "search"
  /\ \E byVector \in EntityHits, byWords \in WordHits :
       LET found == byVector \cup byWords
           first == Traced("local", Stage("entity_seeds", Labels(found), {}, ""))
       IN  /\ seeds' \in Arrangements(found)
           /\ stages' = IF found = {}
                         THEN [first EXCEPT !.local =
                                 Append(@, Stage("node_subgraph", {}, {}, "no_entity_ids"))]
                        ELSE first
           /\ trace' = IF found = {} THEN [trace EXCEPT !.stop = "no_entity_hits"] ELSE trace
           /\ phase' = IF found = {} THEN "evidence" ELSE IF set.spread THEN "weigh" ELSE "nodes"
  /\ UNCHANGED <<run, kw, sa, pool, batch, scoring, picked>>

(* Spreading activation, first phase: the graph around the seeds, hop by hop, *)
(* without the relationships too weak for the question.                       *)
Weigh ==
  /\ phase = "weigh"
  /\ \E w \in Weights :
       sa' = [NoSpread EXCEPT !.frontier = ToSet(seeds), !.all = ToSet(seeds), !.w = w,
                              !.arcs = [e \in Ents |-> {}]]
  /\ phase' = "hop"
  /\ UNCHANGED <<run, kw, seeds, pool, batch, scoring, picked, stages, trace>>

KeptArcs(e) == {<<r, Across(r, e)>> : r \in {x \in EdgesAt(e) : sa.w[x] > 0}}

Hop ==
  /\ phase = "hop" /\ sa.hop < MaxHops /\ sa.frontier # {}
  /\ LET expanded == sa.frontier \cap store.nodes
         reached == {a[2] : a \in UNION {KeptArcs(e) : e \in expanded}}
     IN  sa' = [sa EXCEPT !.hop = @ + 1, !.frontier = reached \ sa.all, !.all = @ \cup reached,
                          !.arcs = [e \in Ents |-> @[e] \cup (IF e \in expanded THEN KeptArcs(e) ELSE {})]]
  /\ UNCHANGED <<run, phase, kw, seeds, pool, batch, scoring, picked, stages, trace>>

StartSpreading ==
  /\ phase = "hop" /\ (sa.hop = MaxHops \/ sa.frontier = {})
  /\ sa' = [sa EXCEPT !.queue = seeds, !.value = [e \in sa.all |-> IF e \in ToSet(seeds) THEN Full ELSE 0]]
  /\ phase' = "spread"
  /\ UNCHANGED <<run, kw, seeds, pool, batch, scoring, picked, stages, trace>>

(* Second phase: each node hands its activation on once, when it is popped.   *)
(* A relationship with itself raises it in between: what comes later in its   *)
(* arcs gets more.                                                            *)
Capped(x) == IF x > Full THEN Full ELSE x
Given(t, arcs, v) == Total([a \in {x \in arcs : x[2] = t} |-> (sa.w[a[1]] * v) \div Full])
Loops(node) == {a \in sa.arcs[node] : a[2] = node}
RaisedBy(node) == Capped(sa.value[node] + Given(node, Loops(node), sa.value[node]))
Later(node) == IF Loops(node) = {} THEN {{}} ELSE SUBSET (sa.arcs[node] \ Loops(node))
Received(t, node, late) ==
  Capped(sa.value[t] + Given(t, sa.arcs[node] \ late, sa.value[node]) + Given(t, late, RaisedBy(node)))

SpreadFrom(node) ==
  IF node \in sa.visited THEN sa' = [sa EXCEPT !.queue = Tail(@)]
  ELSE \E order \in
          Arrangements({a[2] : a \in {x \in sa.arcs[node] : x[2] \notin sa.visited \cup {node}}}) :
       \E late \in Later(node) :
         sa' = [sa EXCEPT !.queue = Tail(@) \o order, !.visited = @ \cup {node},
                          !.spread = @ + Cardinality(sa.arcs[node]),
                          !.value = [t \in sa.all |-> Received(t, node, late)]]

Spread ==
  /\ phase = "spread" /\ sa.queue # <<>>
  /\ SpreadFrom(Head(sa.queue))
  /\ UNCHANGED <<run, phase, kw, seeds, pool, batch, scoring, picked, stages, trace>>

Activated == {e \in sa.all : sa.value[e] > TauA}

EndSpreading ==
  /\ phase = "spread" /\ sa.queue = <<>>
  /\ seeds' = seeds \o SetToSeq(Activated \ ToSet(seeds))
  /\ stages' = Traced("local", Stage("sa_activated_seeds", Labels(ToSet(seeds')), {}, ""))
  /\ phase' = "nodes"
  /\ UNCHANGED <<run, kw, sa, pool, batch, scoring, picked, trace>>

(* The local branch: the seeds' nodes and neighbours; a seed the graph does   *)
(* not have stands for itself if the cache knows it.                          *)
NodeSubgraph ==
  /\ phase = "nodes"
  /\ LET ids == ToSet(seeds)
         before == IF set.spread THEN stages
                   ELSE Traced("local", Stage("sa_activated_seeds", Labels(ids), {}, "disabled"))
         nodes == ids \cap (store.nodes \cup store.known)
         found == [ents |-> nodes \cup Neighbours(nodes), rels |-> UNION {EdgesAt(e) : e \in nodes}]
         names == {NameOf[e] : e \in found.ents}
     IN  IF nodes = {}
         THEN /\ stages' = [before EXCEPT !.local =
                               Append(@, Stage("node_subgraph", {}, {}, "empty_after_cache_fallback"))]
              /\ trace' = [trace EXCEPT !.stop = "node_subgraph_empty"]
              /\ phase' = "evidence" /\ pool' = pool
         ELSE /\ stages' = [before EXCEPT !.local = Append(@, Stage("node_subgraph", names, found.rels, ""))]
              /\ pool' = [pool EXCEPT !.local = found]
              /\ phase' = "relations" /\ trace' = trace
  /\ UNCHANGED <<run, kw, seeds, sa, batch, scoring, picked>>

(* The global branch: relationships by keyword, and their ends as far as the  *)
(* graph has them; then the union of the branches.                            *)
RelationKeywords ==
  CASE set.relMode = "low" -> kw.low [] set.relMode = "both" -> kw.low \/ kw.high [] OTHER -> kw.high

RelationHits == IF RelationKeywords THEN {H \in SUBSET Rels : Cardinality(H) <= TopHits} ELSE {{}}

\* Nothing is cut before the reranker: the union goes forward as it is.
Forward(all) == <<Stage("union_candidates", Labels(all.ents), all.rels, ""),
                  Stage("filtered", Labels(all.ents), all.rels, "")>>

SearchRelations ==
  /\ phase = "relations"
  /\ \E hits \in RelationHits :
       LET edges == hits \cap Held
           all == [ents |-> pool.local.ents \cup EndsOf(edges), rels |-> pool.local.rels \cup edges]
       IN  /\ pool' = [pool EXCEPT !.global = [ents |-> EndsOf(edges), rels |-> edges]]
           /\ stages' =
                [stages EXCEPT
                   !.global = <<Stage("relationship_seeds", Labels(EndsOf(hits \cap store.relKnown)), hits, ""),
                                Stage("edge_subgraph", {NameOf[e] : e \in EndsOf(edges)}, edges,
                                      IF hits = {} THEN "no_relationship_ids" ELSE "")>>,
                   !.merged = Forward(all)]
  /\ phase' = "rerank"
  /\ UNCHANGED <<run, kw, seeds, sa, batch, scoring, picked, trace>>

(* The reranker scores what the cache knows, in the order of the ids, batch   *)
(* by batch; a batch too large for the memory is halved, for the rest of the  *)
(* call, and a single document goes to the CPU.                               *)
Union == [ents |-> pool.local.ents \cup pool.global.ents, rels |-> pool.local.rels \cup pool.global.rels]
DocumentsUnchecked(kind) == Sorted(IF kind = "ents" THEN Union.ents ELSE Union.rels)
Documents(kind) ==
  Sorted(IF kind = "ents" THEN Union.ents \cap store.known ELSE Union.rels \cap store.relKnown)

StartScoring(kind) == [kind |-> kind, size |-> BatchSize, out |-> <<>>]

Rerank ==
  /\ phase = "rerank"
  /\ \E s \in Scorings : scoring' = s
  /\ batch' = StartScoring("ents") /\ phase' = "score"
  /\ UNCHANGED <<run, kw, seeds, sa, pool, picked, stages, trace>>

ScoreBatch ==
  /\ phase = "score" /\ Len(batch.out) < Len(Documents(batch.kind))
  /\ LET docs == Documents(batch.kind)
         from == Len(batch.out) + 1
         Scored(n) == [batch EXCEPT !.out = @ \o [i \in 1..n |-> scoring[docs[from + i - 1]]]]
         left == Len(docs) - Len(batch.out)
     IN  \/ batch' = Scored(IF batch.size < left THEN batch.size ELSE left)
         \/ batch.size > 1 /\ batch' = [batch EXCEPT !.size = IF @ \div 2 > 1 THEN @ \div 2 ELSE 1]
         \/ batch.size = 1 /\ batch' = Scored(1)
  /\ UNCHANGED <<run, phase, kw, seeds, sa, pool, scoring, picked, stages, trace>>

(* By score, equals in the order of the documents; those that pass, and of    *)
(* them the best.                                                             *)
Outranks(a, b, s) == s[a] > s[b] \/ (s[a] = s[b] /\ a < b)
BestOf(docs, s, n) ==
  LET passing == {i \in DOMAIN s : s[i] >= Floor}
      R == {p \in passing \X passing : Outranks(p[1], p[2], s)}
  IN  Upto([k \in 1..Cardinality(passing) |-> docs[Nth(passing, R, k)]], n)

SelectEntities ==
  /\ phase = "score" /\ batch.kind = "ents" /\ Len(batch.out) = Len(Documents("ents"))
  /\ picked' = [picked EXCEPT !.ents = BestOf(Documents("ents"), batch.out, TopE)]
  /\ batch' = StartScoring("rels")
  /\ UNCHANGED <<run, phase, kw, seeds, sa, pool, scoring, stages, trace>>

\* The context holds what the cache knows of what was selected.
InContext(s) == At(s, {i \in DOMAIN s : s[i] \in store.known})

SelectRelationsUntraced ==
  /\ phase = "score" /\ batch.kind = "rels" /\ Len(batch.out) = Len(Documents("rels"))
  /\ picked' = [ents |-> InContext(picked.ents), rels |-> BestOf(Documents("rels"), batch.out, TopR)]
  /\ batch' = NoBatch /\ phase' = "boost"
  /\ UNCHANGED <<run, kw, seeds, sa, pool, scoring, stages, trace>>

SelectRelations ==
  /\ phase = "score" /\ batch.kind = "rels" /\ Len(batch.out) = Len(Documents("rels"))
  /\ picked' = [ents |-> InContext(picked.ents), rels |-> BestOf(Documents("rels"), batch.out, TopR)]
  /\ stages' = Traced("merged", Stage("reranker_final", Labels(ToSet(picked.ents)), ToSet(picked'.rels), ""))
  /\ batch' = NoBatch /\ phase' = "boost"
  /\ UNCHANGED <<run, kw, seeds, sa, pool, scoring, trace>>

(* Entities whose time contains the time of the question come first.          *)
Boosted(s, inside) ==
  At(s, {i \in DOMAIN s : s[i] \in inside}) \o At(s, {i \in DOMAIN s : s[i] \notin inside})

Boost ==
  /\ phase = "boost"
  /\ \E inside \in IF set.timed /\ ~set.noBoost THEN SUBSET ToSet(picked.ents) ELSE {{}} :
       picked' = [picked EXCEPT !.ents = Boosted(@, inside)]
  /\ phase' = "evidence"
  /\ UNCHANGED <<run, kw, seeds, sa, pool, batch, scoring, stages, trace>>

(* The evidence of what was picked, or of direct hits; the trace of the whole *)
(* retrieval.  Two ablations drop the text, or text and items.                *)
Tags == IF \E i \in DOMAIN picked.ents : picked.ents[i] \in Dated THEN {"mentioned_at"} ELSE {}

BuildEvidence ==
  /\ phase = "evidence"
  /\ LET shown == IF set.noGraph THEN [ents |-> <<>>, rels |-> <<>>] ELSE picked
     IN  \E n \in IF set.direct \/ shown.ents # <<>> \/ shown.rels # <<>> THEN {0, 1} ELSE {0} :
           trace' = [trace EXCEPT !.ents = shown.ents, !.rels = shown.rels, !.evidence = n,
                                  !.tags = IF set.noGraph \/ set.noText THEN {} ELSE Tags,
                                  !.low = kw.low, !.high = kw.high]
  /\ phase' = "answer"
  /\ UNCHANGED <<run, local>>

(* Embedding, stores, graph and reranker may raise.  The trace says so, and   *)
(* the question is answered from nothing, or in strict mode not at all.       *)
Remote == {"search", "weigh", "hop", "nodes", "relations", "score", "evidence"}

RetrievalRaises ==
  /\ phase \in Remote
  /\ trace' = [NoTrace EXCEPT !.q = question, !.failed = TRUE, !.stop = "build_kg_context_failed"]
  /\ phase' = IF set.strict THEN "raised" ELSE "answer"
  /\ UNCHANGED <<run, local>>

-----------------------------------------------------------------------------
(* The answer and its row.  LongMem asks one question of a dataset, with its  *)
(* date, and raises; LoCoMo writes a fallback row for a model that failed and *)
(* goes on.  The row takes what the trace of the retriever says.              *)
Row(t, answered) == [q |-> question, answered |-> answered, trace |-> t,
                     stop |-> IF answered THEN t.stop ELSE "prediction_exception"]

EndQuestion(row) ==
  /\ rows' = Append(rows, row)
  /\ question' = question + 1 /\ phase' = "ask"
  /\ kw' = NoKeywords /\ seeds' = <<>> /\ sa' = NoSpread /\ batch' = NoBatch /\ scoring' = <<>>
  /\ pool' = [local |-> Nothing, global |-> Nothing]
  /\ picked' = [ents |-> <<>>, rels |-> <<>>] /\ stages' = NoStages

Answer ==
  /\ phase = "answer" /\ EndQuestion(Row(trace, TRUE))
  /\ UNCHANGED <<set, store, cached, trace, verdicts>>

AnswerRaises ==
  /\ phase = "answer"
  /\ IF set.timed THEN phase' = "raised" /\ UNCHANGED <<question, local, rows>>
     ELSE EndQuestion(Row(NoTrace, FALSE))
  /\ UNCHANGED <<set, store, cached, trace, verdicts>>

(* The diagnosis of a LoCoMo row that was judged wrong, made from the columns *)
(* of the row: they say why retrieval stopped, not that it raised.            *)
EmptySeed == {"no_entity_hits", "node_subgraph_empty", "intersection_empty"}

FailureType(row, covered) ==
  IF row.stop \in EmptySeed THEN "retrieval_empty_seed"
  ELSE IF row.trace.evidence = 0 THEN "retrieval_empty_evidence"
  ELSE IF ~covered THEN "retrieval_off_topic"
  ELSE "judge_wrong_answer_despite_good_retrieval"

Flags(row) ==
  (IF row.trace.ents = <<>> THEN {"zero_seed_entities"} ELSE {})
  \cup (IF "t" \notin row.trace.tags THEN {"temporal_question_without_date_hits"} ELSE {})

Diagnose ==
  /\ phase = "ask" /\ question > Questions /\ ~set.timed /\ Len(verdicts) < Len(rows)
  /\ LET row == rows[Len(verdicts) + 1]
     IN  \E covered, right \in BOOLEAN :
           verdicts' = Append(verdicts,
             [type |-> IF right THEN "" ELSE FailureType(row, covered), flags |-> Flags(row)])
  /\ UNCHANGED <<set, store, question, phase, cached, local, trace, rows>>

RetrieveNext ==
  Ask \/ KeywordsFromCache \/ KeywordsFromModel \/ SearchEntities \/ Weigh \/ Hop
    \/ StartSpreading \/ Spread \/ EndSpreading \/ NodeSubgraph \/ SearchRelations
    \/ Rerank \/ ScoreBatch \/ SelectEntities \/ SelectRelations \/ Boost \/ BuildEvidence
    \/ RetrievalRaises \/ Answer \/ AnswerRaises \/ Diagnose

RetrieveSpec == RetrieveInit /\ [][RetrieveNext]_retrieveVars /\ WF_retrieveVars(RetrieveNext)

-----------------------------------------------------------------------------
(* Type invariant of the retriever.                                           *)
RetrieveTypeOK ==
  /\ phase \in {"ask", "keywords", "rerank", "answer", "boost", "spread", "raised"} \cup Remote
  /\ question \in 1..(Questions + 1) /\ Len(rows) = question - 1
  /\ kw.tries \in 0..MaxAttempts /\ DOMAIN cached \subseteq 1..Questions
  /\ seeds \in Seq(Ents) /\ picked.ents \in Seq(Ents) /\ picked.rels \in Seq(Rels)
  /\ sa.all \subseteq Ents /\ \A e \in DOMAIN sa.value : sa.value[e] \in 0..Full

\* Entities that a walk of at most n relationships which were kept reaches.
WithinHops(n) ==
  {e \in Ents : \E k \in 0..n : \E p \in [0..k -> Ents] :
     /\ p[0] \in ToSet(seeds) /\ p[k] = e
     /\ \A i \in 1..k : \E a \in KeptArcs(p[i - 1]) : a[2] = p[i]}

(* When the spreading ends every entity around the seeds was visited, each    *)
(* relationship handed activation on once in each direction it was kept       *)
(* (graph_expansion.py:231), and only entities within the hops are active.    *)
SpreadsOnce ==
  phase = "spread" /\ sa.queue = <<>> =>
    /\ sa.visited = sa.all /\ sa.all = WithinHops(MaxHops)
    /\ sa.spread = Total([e \in Ents |-> Cardinality(sa.arcs[e])])
    /\ \A i \in DOMAIN seeds : sa.value[seeds[i]] = Full

(* The context is the best of everything either branch found and the cache    *)
(* knows: an unknown id takes no place, and the boost drops nobody.           *)
ContextIsBest ==
  phase \in {"evidence", "answer"} /\ ~trace.failed /\ scoring # <<>> =>
    LET can == {e \in Union.ents \cap store.known : scoring[e] >= Floor}
        did == ToSet(picked.ents)
    IN  /\ did \subseteq can /\ Cardinality(did) = Len(picked.ents)
        /\ \A e \in can \ did : Len(picked.ents) = TopE /\ \A d \in did : Outranks(d, e, scoring)

(* What the graph walk and the ranking leave is what they were to find.       *)
ContextIsFound == SpreadsOnce /\ ContextIsBest

(* What the stages lost, as the analysis of a run recovers it from the trace. *)
Lost(branch) ==
  UNION {branch[i].ents \ branch[i + 1].ents : i \in 1..(Len(branch) - 1)}

(* The analysis sees where everything went: a candidate that is not in the    *)
(* context was lost at some stage of the trace, or shares its name with one   *)
(* that is (error_analysis.py:178).                                           *)
DropsAreReported ==
  phase = "answer" /\ ~trace.failed =>
    /\ trace.stop = "node_subgraph_empty" => Labels(ToSet(seeds)) \subseteq Lost(stages.local)
    /\ trace.stop = "" =>
         \A e \in Union.ents \ ToSet(picked.ents) :
           Label(e) \in Lost(stages.merged) \cup Labels(ToSet(picked.ents))

(* The row of a question holds the trace of that question; a retrieval that   *)
(* raised leaves nothing but its mark, and in strict mode no row at all.      *)
FailuresAreMarked ==
  \A i \in DOMAIN rows :
    LET t == rows[i].trace
    IN  /\ rows[i].answered => t.q = i
        /\ t.failed <=> t.stop = "build_kg_context_failed"
        /\ t.failed => ~set.strict /\ t.ents = <<>> /\ t.evidence = 0

(* Asking the same again retrieves by the same keywords (keywords.py, "so     *)
(* reruns are reproducible").                                                 *)
SameKeywords ==
  \A i, j \in DOMAIN rows :
    LET a == rows[i].trace b == rows[j].trace
    IN  set.repeats /\ i < j /\ b.q = j /\ ~b.failed /\ (a.low \/ a.high) =>
           <<a.low, a.high>> = <<b.low, b.high>>

(* The verdict names the stage that came to nothing first: no seeds before no *)
(* evidence, and evidence of direct hits does not hide that there were none.  *)
VerdictNamesFirst ==
  \A i \in DOMAIN verdicts :
    LET t == rows[i].trace
    IN  verdicts[i].type # "" =>
          /\ verdicts[i].type = "retrieval_empty_seed" <=> t.stop \in EmptySeed
          /\ verdicts[i].type \notin {"retrieval_empty_seed", "retrieval_empty_evidence"} =>
                t.evidence > 0 /\ ~t.failed

(* What the trace, the rows and the verdicts of a run say is what happened.   *)
RowsTellTheRun ==
  RetrieveTypeOK /\ DropsAreReported /\ FailuresAreMarked /\ SameKeywords /\ VerdictNamesFirst

=============================================================================
