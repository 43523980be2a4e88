------------------------------ MODULE TurnIngest -------------------------------
(***************************************************************************)
(* The ingestion of conversation turns into the stores of one run:         *)
(* summarize_and_ingest_turn of grace_mem/ingestion/pipeline.py, the       *)
(* syncer of steps/sync.py and the entity and relationship managers.       *)
(*                                                                         *)
(* A turn has a primary attempt and, when that fails anywhere, a fallback  *)
(* attempt over the same stores; when both fail the turn raises, and the   *)
(* session is ingested again later, over a graph cleared meanwhile.  What  *)
(* the language model extracts and decides is a free choice.               *)
(*                                                                         *)
(* An entity's description is the set of turns it draws on, that of a      *)
(* relationship the set of its texts, a provenance a set of turns.         *)
(* Persistence is PersistManager.                                          *)
(***************************************************************************)
EXTENDS FiniteSets, Integers, Sequences, SequencesExt

CONSTANTS
    Sessions,     \* sessions to ingest: turns, and what replies are about
    Ents,         \* names an extraction may yield, and canonical ids
    Anchors,      \* those of dates and times, matched by name alone
    Facts,        \* texts of a relationship's description
    MaxNames,     \* bound on the entities of one extraction
    MaxRetries    \* bound on the times the session is ingested again

ASSUME IngestAssumption ==
    /\ MaxNames \in Nat /\ MaxRetries \in Nat
    /\ Anchors \subseteq Ents
    /\ \A s \in Sessions : /\ s.turns \in Nat \ {0} /\ s.stated \in Nat
                          /\ s.ents \subseteq Ents /\ s.pairs \subseteq s.ents \X s.ents

Edges == Ents \X Ents

VARIABLES
    session,   \* the one under ingestion
    ents,      \* entity cache, by canonical id
    rels,      \* relationship cache, by edge: _processed
    full,      \* edge and text already processed: _processed_full
    entVec,    \* entity vectors
    entDocs,   \* entities with a BM25 document
    relVec,    \* relationship vectors
    nodes,     \* graph nodes: their descriptions
    edges,     \* graph edges: their descriptions
    step,      \* the step of the attempt under way
    attempt,   \* "primary" or "fallback"
    turn,
    hasSummary,  \* a summary id is there to serve as provenance
    names,     \* extracted entity names, in order
    stated,    \* extracted relationships, in order
    entRows,   \* per extracted name: canonical id and record written
    relRows,   \* edges and records written, in order
    retries,   \* times the session was ingested again
    told       \* history: entities the accepted turns mentioned, since the last clear

cacheVars == <<ents, rels, full>>
indexes == <<entVec, entDocs, relVec>>
graphVars == <<nodes, edges>>
extraction == <<names, stated>>
rows == <<entRows, relRows>>
control == <<attempt, turn, hasSummary>>
ingestVars == <<session, cacheVars, indexes, graphVars, step, control, extraction, rows, retries,
                told>>

\* A session has turns 1..turns; replies about it name the entities ents, and
\* state at most so many relationships, of the pairs.
Turns == 1 .. session.turns

EntRecords == [desc : SUBSET Turns, prov : SUBSET Turns]
RelRecords == [desc : SUBSET Facts, prov : SUBSET Turns]
Absent == [desc |-> {}, prov |-> {}]
Statements == (Ents \X Ents) \X Facts
IngestSteps == {"summarize", "extract", "relate", "ops", "entVec", "entDocs", "relOps",
                "relVec", "graph", "verify", "failed", "done"}

IngestTypeOK ==
    /\ session \in Sessions
    /\ ents \in [Ents -> EntRecords] /\ entVec \in [Ents -> EntRecords]
    /\ rels \in [Edges -> RelRecords] /\ relVec \in [Edges -> RelRecords]
    /\ full \subseteq Edges \X Facts
    /\ entDocs \subseteq Ents
    /\ nodes \in [Ents -> SUBSET Turns] /\ edges \in [Edges -> SUBSET Facts]
    /\ step \in IngestSteps /\ attempt \in {"primary", "fallback"}
    /\ turn \in Turns /\ hasSummary \in BOOLEAN
    /\ names \in Seq(Ents) /\ stated \in Seq(Statements)
    /\ entRows \in Seq(Ents \X EntRecords) /\ relRows \in Seq(Edges \X RelRecords)
    /\ Len(stated) <= session.stated /\ retries \in 0 .. MaxRetries
    /\ told \subseteq Ents

IngestInit ==
    /\ session \in Sessions
    /\ ents = [e \in Ents |-> Absent] /\ entVec = [e \in Ents |-> Absent]
    /\ rels = [x \in Edges |-> Absent] /\ relVec = [x \in Edges |-> Absent]
    /\ full = {} /\ entDocs = {}
    /\ nodes = [e \in Ents |-> {}] /\ edges = [x \in Edges |-> {}]
    /\ step = "summarize" /\ attempt = "primary" /\ turn = 1 /\ hasSummary = FALSE
    /\ names = <<>> /\ stated = <<>> /\ entRows = <<>> /\ relRows = <<>>
    /\ retries = 0 /\ told = {}

-----------------------------------------------------------------------------
(* Attempts.                                                               *)

Extracted(n) == \E i \in DOMAIN names : names[i] = n

\* The values of an attempt's variables when it starts or ends.
NoExtraction == names' = <<>> /\ stated' = <<>> /\ entRows' = <<>> /\ relRows' = <<>>

\* The attempt raises: the fallback follows, with the summary id if there is
\* one, and after the fallback the turn.
Fails ==
    /\ NoExtraction
    /\ IF attempt = "primary"
       THEN step' = "extract" /\ attempt' = "fallback" /\ UNCHANGED hasSummary
       ELSE step' = "failed" /\ attempt' = "primary" /\ hasSummary' = FALSE
    /\ UNCHANGED <<turn, retries, told>>

Summarize ==
    /\ step = "summarize"
    /\ \/ /\ hasSummary' = TRUE /\ step' = "extract"
          /\ UNCHANGED <<attempt, turn, extraction, rows, retries, told>>
       \/ Fails
    /\ UNCHANGED <<session, cacheVars, indexes, graphVars>>

\* What a line of the first reply may give: a name, strictly or by the lenient
\* parse.  A line of the second relates two names, and is dropped when one of
\* them was not extracted.  Lines without any of it are dropped too, so a reply
\* gives any sequence, no longer than it is, of what is left.
Readable == session.ents
Relatable == {s \in session.pairs \X Facts : Extracted(s[1][1]) /\ Extracted(s[1][2])}
ParsedEntities == BoundedSeq(Readable, MaxNames)
ParsedRelationships == BoundedSeq(Relatable, session.stated)

\* The reply that is taken: an empty one is asked for again, some times.
ExtractEntities ==
    /\ step = "extract"
    /\ names' \in ParsedEntities
    /\ step' = IF names' = <<>> THEN "ops" ELSE "relate"
    /\ UNCHANGED <<session, cacheVars, indexes, graphVars, control, stated, rows, retries,
                   told>>

ExtractRelationships ==
    /\ step = "relate"
    /\ stated' \in ParsedRelationships
    /\ step' = "ops"
    /\ UNCHANGED <<session, cacheVars, indexes, graphVars, control, names, rows, retries,
                   told>>

\* Extraction, the search for similar entities, embedding, or the persist a
\* store write asks for: whatever raises in between leaves the stores as is.
StepFails ==
    /\ step \in {"extract", "relate", "ops", "entVec", "entDocs", "relVec"}
    /\ Fails
    /\ UNCHANGED <<session, cacheVars, indexes, graphVars>>

-----------------------------------------------------------------------------
(* EntityManager.apply_ops.                                                *)

Prov == IF hasSummary THEN {turn} ELSE {}

\* Entities the hybrid search can offer as candidates for a name; for a date
\* or a time only the one of that name, from the cache.
ExactCandidates(n) == {e \in {n} : ents[e] # Absent}
Candidates(n) ==
    IF n \in Anchors THEN ExactCandidates(n)
    ELSE {e \in Ents : entVec[e] # Absent \/ e \in entDocs}

\* The verdict of _normalize_entity_action on one extracted name: it is added
\* under a canonical name the model chooses, or updates a candidate that is in
\* the cache as it was before the batch; an update of anything else is an add.
\* Where the model gives no verdict the name is added as it is.
Fallback(n) == [act |-> "ADD", target |-> n]
Operations(n) ==
    {Fallback(n)} \cup [act : {"ADD"}, target : session.ents] \cup
    [act : {"UPDATE"}, target : {e \in Candidates(n) : ents[e] # Absent}]
Batches == {ops \in [DOMAIN names -> UNION {Operations(n) : n \in Ents}] :
              \A i \in DOMAIN names : ops[i] \in Operations(names[i])}

\* The record an operation on name n writes.  The description an update
\* writes is the model's merge with the one the candidate was shown with.
Shown(n, e) == IF n \in Anchors THEN ents[e].desc ELSE entVec[e].desc
Record(n, o) ==
    IF o.act = "UPDATE"
    THEN [desc |-> Shown(n, o.target) \cup {turn}, prov |-> ents[o.target].prov \cup Prov]
    ELSE [desc |-> {turn}, prov |-> Prov]

\* Of a sequence of rows, those for key k, and the last of them.
Keys(rs) == {rs[i][1] : i \in DOMAIN rs}
RowsFor(rs, k) == {i \in DOMAIN rs : rs[i][1] = k}
LastFor(rs, k) == rs[Max(RowsFor(rs, k))][2]

\* The cache is written operation by operation, so the last row of a key stays.
ApplyEntityOps ==
    /\ step = "ops"
    /\ \E ops \in Batches :
          entRows' = [i \in DOMAIN names |-> <<ops[i].target, Record(names[i], ops[i])>>]
    /\ ents' = [e \in Ents |-> IF e \in Keys(entRows') THEN LastFor(entRows', e)
                                                       ELSE ents[e]]
    /\ step' = IF names = <<>> THEN "relOps" ELSE "entVec"
    /\ UNCHANGED <<session, rels, full, indexes, graphVars, control, extraction, relRows,
                   retries, told>>

\* SimpleChromaVDB.add keeps, of the rows with one id, the first of those with
\* most provenance.
Winner(rs, k) ==
    LET size(i) == Cardinality(rs[i][2].prov)
        best == {i \in RowsFor(rs, k) : \A j \in RowsFor(rs, k) : size(j) <= size(i)}
    IN  rs[Min(best)][2]

AddEntityVectors ==
    /\ step = "entVec"
    /\ entVec' = [e \in Ents |-> IF e \in Keys(entRows) THEN Winner(entRows, e)
                                                        ELSE entVec[e]]
    /\ step' = "entDocs"
    /\ UNCHANGED <<session, cacheVars, entDocs, relVec, graphVars, control, extraction, rows,
                   retries, told>>

\* bm25.add, then persist_async, which may raise for an earlier write.
AddEntityDocs ==
    /\ step = "entDocs"
    /\ entDocs' = entDocs \cup Keys(entRows)
    /\ \/ step' = "relOps" /\ UNCHANGED <<control, extraction, rows, retries, told>>
       \/ Fails
    /\ UNCHANGED <<session, cacheVars, entVec, relVec, graphVars>>

-----------------------------------------------------------------------------
(* RelationshipManager.upsert_from_extraction.                             *)

\* The entity behind a name: of two extractions of a name the later overwrites.
Resolved(n) == entRows[Max({i \in DOMAIN names : names[i] = n})][1]
EdgeOf(s) == <<Resolved(s[1][1]), Resolved(s[1][2])>>

\* Mutated form of Merged: the merge keeps the provenance of the turn only.
MergedFreshProv(x, t) == [desc |-> rels[x].desc \cup {t}, prov |-> Prov]

\* The record of an edge once it has this text too.
Merged(x, t) == [desc |-> rels[x].desc \cup {t}, prov |-> rels[x].prov \cup Prov]

\* The next stated relationship: skipped when an endpoint was not extracted or
\* when the edge already had that text, otherwise merged into its record.
UpsertRelationship ==
    /\ step = "relOps" /\ stated # <<>>
    /\ LET s == Head(stated)
           x == EdgeOf(s)
       IN  IF Extracted(s[1][1]) /\ Extracted(s[1][2]) /\ <<x, s[2]>> \notin full
           THEN /\ rels' = [rels EXCEPT ![x] = Merged(x, s[2])]
                /\ full' = full \cup {<<x, s[2]>>}
                /\ relRows' = Append(relRows, <<x, Merged(x, s[2])>>)
           ELSE UNCHANGED <<rels, full, relRows>>
    /\ stated' = Tail(stated)
    /\ UNCHANGED <<session, ents, indexes, graphVars, step, control, names, entRows, retries,
                   told>>

EndRelationships ==
    /\ step = "relOps" /\ stated = <<>>
    /\ step' = IF relRows = <<>> THEN "graph" ELSE "relVec"
    /\ names' = <<>>
    /\ UNCHANGED <<session, cacheVars, indexes, graphVars, control, stated, rows, retries,
                   told>>

\* rel_vdb.add, then persist_async, which may raise.
AddRelationshipVectors ==
    /\ step = "relVec"
    /\ relVec' = [x \in Edges |-> IF x \in Keys(relRows) THEN Winner(relRows, x)
                                                         ELSE relVec[x]]
    /\ \/ step' = "graph" /\ UNCHANGED <<control, extraction, rows, retries, told>>
       \/ Fails
    /\ UNCHANGED <<session, cacheVars, entVec, entDocs, graphVars>>

-----------------------------------------------------------------------------
(* Graph synchronization and its verification.                             *)

\* sync_entities writes the last row of each id, sync_relationships row by row:
\* rows that cannot be written are logged and left out, and so are edges
\* without their nodes.  Any ids and any rows may be the ones that were written.
NodesWith(es) == [e \in Ents |-> IF e \in es THEN LastFor(entRows, e).desc ELSE nodes[e]]
EdgesWith(xs, ns) ==
    [x \in Edges |->
        LET mine == xs \cap RowsFor(relRows, x)
        IN  IF mine # {} /\ ns[x[1]] # {} /\ ns[x[2]] # {}
            THEN relRows[Max(mine)][2].desc ELSE edges[x]]
SyncGraph ==
    /\ step = "graph"
    /\ \E es \in SUBSET Keys(entRows) : nodes' = NodesWith(es)
    /\ \E xs \in SUBSET DOMAIN relRows : edges' = EdgesWith(xs, nodes')
    /\ step' = "verify"
    /\ UNCHANGED <<session, cacheVars, indexes, control, extraction, rows, retries, told>>

\* The ids of those looked up that the graph has.
FoundEntities(es) == {e \in es : nodes[e] # {}}
FoundRelationships(xs) == {x \in xs : edges[x] # {}}

\* Mutated form of Verified: entity ids are not looked up.
EdgesVerified == FoundRelationships(Keys(relRows)) = Keys(relRows)

\* Every id handed to the graph is found in it.
Verified ==
    /\ FoundEntities(Keys(entRows)) = Keys(entRows)
    /\ FoundRelationships(Keys(relRows)) = Keys(relRows)

\* _require_successful_ingest lets the turn pass; the next one begins, and
\* after the last one the session is ingested.
Accept ==
    /\ step = "verify" /\ Verified
    /\ told' = told \cup Keys(entRows)
    /\ NoExtraction
    /\ attempt' = "primary" /\ hasSummary' = FALSE
    /\ IF turn < session.turns THEN turn' = turn + 1 /\ step' = "summarize"
                        ELSE turn' = turn /\ step' = "done"
    /\ UNCHANGED <<session, cacheVars, indexes, graphVars, retries>>

\* Not every id is found, or the look-up raises.
VerifyFails ==
    /\ step = "verify"
    /\ Fails
    /\ UNCHANGED <<session, cacheVars, indexes, graphVars>>

\* A later run opens the same stores, over a cleared graph, and takes the
\* session from its first turn.
IngestAgain ==
    /\ step = "failed" /\ retries < MaxRetries
    /\ retries' = retries + 1
    /\ nodes' = [e \in Ents |-> {}] /\ edges' = [x \in Edges |-> {}]
    /\ told' = {}
    /\ turn' = 1 /\ step' = "summarize"
    /\ UNCHANGED <<session, cacheVars, indexes, attempt, hasSummary, extraction, rows>>

-----------------------------------------------------------------------------
IngestNext ==
    \/ Summarize \/ ExtractEntities \/ ExtractRelationships \/ StepFails
    \/ ApplyEntityOps \/ AddEntityVectors \/ AddEntityDocs
    \/ UpsertRelationship \/ EndRelationships \/ AddRelationshipVectors
    \/ SyncGraph \/ Accept \/ VerifyFails
    \/ IngestAgain

IngestSpec == IngestInit /\ [][IngestNext]_ingestVars

-----------------------------------------------------------------------------
(* What holds.                                                             *)

\* An edge and a text are noted as processed only once the text is in the
\* edge's record, so a relationship skipped as known has been kept.
DedupeSound == \A p \in full : p[2] \in rels[p[1]].desc

\* The cache, from which the graph is restored, has everything the vector and
\* the graph say of an edge, through failed attempts and cleared graphs.
CacheCoversEdges ==
    \A x \in Edges :
        /\ edges[x] \subseteq rels[x].desc
        /\ relVec[x].desc \subseteq rels[x].desc /\ relVec[x].prov \subseteq rels[x].prov

\* Every entity that an accepted turn mentioned has a node of its own, however
\* the attempt that introduced it ended.
AcceptedEntitiesInGraph == \A e \in told : nodes[e] # {}

\* The stores agree with one another and with what is noted as processed.
StoresAgree == IngestTypeOK /\ DedupeSound /\ CacheCoversEdges /\ AcceptedEntitiesInGraph

\* What a relationship was said to be, and the turns that said it, are never
\* lost again, whichever attempt fails.
RelationshipsAccumulate ==
    [][\A x \in Edges : /\ rels[x].desc \subseteq rels'[x].desc
                        /\ rels[x].prov \subseteq rels'[x].prov]_ingestVars
=============================================================================
