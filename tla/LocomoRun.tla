------------------------------- MODULE LocomoRun -------------------------------
(***************************************************************************)
(* The LoCoMo harness, experiment/locomo/pipeline/runner.py and worker.py: *)
(* an orchestrator takes the samples one after the other, each in a worker *)
(* process of its own, and refreshes the shared backends between them.     *)
(*                                                                         *)
(* A worker ingests the sessions of its sample, with a snapshot of the     *)
(* stores and of the graph after each (artifacts/snapshot.py), copies the  *)
(* result, file by file, to the sample's artifact directory and answers    *)
(* the questions.                                                          *)
(* Without the ingest stage it restores that copy instead.  Workers and    *)
(* the orchestrator may be killed at any step; the next launch resumes     *)
(* from the snapshots.                                                     *)
(*                                                                         *)
(* A piece <<s, k, c>> stands for what session k of sample s contributes   *)
(* to a store when it is ingested under the settings c.  Snapshots appear  *)
(* by a rename, so their temporary directories are left out; a directory   *)
(* of snapshots that somebody edits is out of scope.  The export of the    *)
(* graph in the working directory is read in the copy that follows it and  *)
(* nowhere else, so it is not a variable.  The files of the answers and    *)
(* of their judging are modelled in Judging.                               *)
(***************************************************************************)
EXTENDS Integers, FiniteSets

CONSTANTS
    NSamples,    \* samples of the run, taken in the order 1..NSamples
    NSessions,   \* per sample: its sessions, ingested in the order 1..NSessions[s]
    Settings,    \* ingest settings an operator may launch with
    None,        \* no such file
    Torn         \* the graph file a copy did not finish

Samples == 1 .. NSamples
Sessions(s) == 1 .. NSessions[s]
Stages == {"ingest", "qa_eval"}
Pieces == UNION {{s} \X Sessions(s) \X Settings : s \in Samples}

ASSUME LocomoAssumption ==
    /\ NSamples \in Nat \ {0} /\ NSessions \in [Samples -> Nat \ {0}]
    /\ Settings # {} /\ None \notin Settings
    /\ None # Torn /\ \A P \in SUBSET Pieces : P \notin {None, Torn}

VARIABLES
    \* of the orchestrator
    pc,         \* the step under way; "idle" when no process runs
    stages,     \* the stages of this launch
    settings,   \* its ingest settings
    sample,     \* the sample whose turn it is
    \* of the worker
    resume,     \* the session its snapshot was taken after, 0 without one
    session,    \* the next session to ingest
    mem,        \* pieces in the open stores
    copied,     \* parts of the working directory copied so far
    \* shared, and outliving every process
    working,    \* pieces in the stores saved in the working directory
    graph,      \* pieces in the graph database
    snapshots,  \* per sample and session: a snapshot, or None
    archive,    \* per sample: its artifact directory
    \* history
    partial,    \* the graph of this worker was restored in part
    torn        \* samples whose last copy began and did not finish, or
                \* was of what such a copy left

process == <<resume, session, mem, copied, partial>>
launch == <<stages, settings, sample>>
files == <<working, snapshots, archive, torn>>
vars == <<pc, launch, process, files, graph>>

Parts == {"stores", "graph"}
Absent == [stores |-> None, graph |-> None]

Contents == [stores : {None} \cup SUBSET Pieces,
             graph : {None, Torn} \cup SUBSET Pieces]
Snapshots == [settings : Settings, stores : SUBSET Pieces,
              graph : SUBSET Pieces, partial : BOOLEAN]

ASSUME SnapshotAssumption == None \notin Snapshots

WorkerSteps == {"start", "restore", "ingest", "flush", "save", "export",
                "backup", "answer", "close"}
Steps == WorkerSteps \cup {"idle", "refresh"}

TypeOK ==
    /\ pc \in Steps
    /\ stages \in SUBSET Stages /\ settings \in {None} \cup Settings
    /\ sample \in Samples
    /\ resume \in 0 .. NSessions[sample]
    /\ session \in 1 .. NSessions[sample] + 1
    /\ mem \in SUBSET Pieces
    /\ copied \in SUBSET Parts
    /\ partial \in BOOLEAN
    /\ working \in SUBSET Pieces /\ graph \in SUBSET Pieces
    /\ \A s \in Samples : snapshots[s] \in [Sessions(s) -> {None} \cup Snapshots]
    /\ archive \in [Samples -> Contents] /\ torn \in SUBSET Samples

\* What a process that ends, however it ends, takes with it.
WorkerGone ==
    /\ resume' = 0 /\ session' = 1 /\ mem' = {} /\ copied' = {}
    /\ partial' = FALSE

\* And the orchestrator.
RunGone ==
    /\ pc' = "idle" /\ stages' = {} /\ settings' = None /\ sample' = 1

Init ==
    /\ pc = "idle"
    /\ stages = {} /\ settings = None /\ sample = 1
    /\ resume = 0 /\ session = 1 /\ mem = {} /\ copied = {}
    /\ partial = FALSE
    /\ working = {} /\ graph = {}
    /\ snapshots = [s \in Samples |-> [k \in Sessions(s) |-> None]]
    /\ archive = [s \in Samples |-> Absent] /\ torn = {}

-------------------------------------------------------------------------------
(* Starting a worker *)

\* The pieces of the sessions of s up to k, under the settings c.
Prefix(s, k, c) == {<<s, i, c>> : i \in 1 .. k}

Taken(s) == {k \in Sessions(s) : snapshots[s][k] # None}

\* highest_existing_snapshot: the last of a contiguous run, or 0.
Highest(s) == Cardinality(Taken(s))

\* Mutant: a resume that does not compare the settings.
CompatibleAnyhow(s) == \A k \in Taken(s) : k <= Highest(s)

\* validate_snapshot, for all of the snapshots found.
Compatible(s) == \A k \in Taken(s) :
    k <= Highest(s) /\ snapshots[s][k].settings = settings

\* Mutant: a start that trusts an earlier refresh to have emptied the
\* working directory.
StartIngestUncleared ==
    /\ pc = "start" /\ "ingest" \in stages
    /\ Compatible(sample)
    /\ resume' = Highest(sample)
    /\ session' = Highest(sample) + 1
    /\ mem' = IF resume' = 0 THEN working ELSE snapshots[sample][resume'].stores
    /\ partial' = (resume' # 0 /\ snapshots[sample][resume'].partial)
    /\ working' = mem'
    /\ pc' = "restore"
    /\ UNCHANGED <<launch, copied, graph, snapshots, archive, torn>>

\* The worker of an ingest: the files of the last snapshot are installed in
\* the working directory, or it is emptied, before the stores are opened.
StartIngest ==
    /\ pc = "start" /\ "ingest" \in stages
    /\ Compatible(sample)
    /\ resume' = Highest(sample)
    /\ session' = Highest(sample) + 1
    /\ mem' = IF resume' = 0 THEN {} ELSE snapshots[sample][resume'].stores
    /\ partial' = (resume' # 0 /\ snapshots[sample][resume'].partial)
    /\ working' = mem'
    /\ pc' = "restore"
    /\ UNCHANGED <<launch, copied, graph, snapshots, archive, torn>>

\* The worker of an evaluation alone: the sample's artifact directory, which
\* has only to exist, is copied over the working directory, but its graph.
StartArchive ==
    /\ pc = "start" /\ "ingest" \notin stages /\ "qa_eval" \in stages
    /\ archive[sample] # Absent
    /\ mem' = IF archive[sample].stores = None THEN {}
              ELSE archive[sample].stores
    /\ working' = mem'
    /\ pc' = "restore"
    /\ UNCHANGED <<launch, resume, session, copied, partial, graph,
                   snapshots, archive, torn>>

\* No artifacts, other settings, an unreachable backend: the worker exits.
StartFails ==
    /\ pc = "start"
    /\ pc' = "refresh"
    /\ WorkerGone
    /\ UNCHANGED <<launch, files, graph>>

\* An exception in the worker: the finally clause runs next.
Raise == pc' = "close"

\* The graph a worker starts from, or None.
GraphFile == IF "ingest" \in stages
             THEN IF resume = 0 THEN None ELSE snapshots[sample][resume].graph
             ELSE archive[sample].graph

AfterRestore == IF "ingest" \in stages THEN "ingest" ELSE "export"

\* _restore_graph logs whatever it raises: the graph may be left as it was,
\* or with any part of what the file holds, and the worker goes on.
RestoreGraph ==
    /\ pc = "restore" /\ GraphFile \notin {None, Torn}
    /\ \E g \in (SUBSET GraphFile) \cup {graph} :
          /\ graph' = g
          /\ partial' = (partial \/ g # GraphFile)
    /\ pc' = AfterRestore
    /\ UNCHANGED <<launch, resume, session, mem, copied, files>>

\* The file is read before anything is caught: one that is cut off raises.
RestoreUnreadable ==
    /\ pc = "restore" /\ GraphFile = Torn
    /\ Raise
    /\ UNCHANGED <<launch, process, files, graph>>

\* Mutant: the first session goes into the graph as it is found.
ClearGraphSkipped ==
    /\ pc = "restore" /\ GraphFile = None
    /\ pc' = AfterRestore
    /\ UNCHANGED <<launch, process, files, graph>>

\* clear_all and init_schema, whose exceptions are not caught here.
ClearGraph ==
    /\ pc = "restore" /\ GraphFile = None
    /\ graph' = {}
    /\ pc' = AfterRestore
    /\ UNCHANGED <<launch, process, files>>

ClearFails ==
    /\ pc = "restore" /\ GraphFile = None
    /\ graph' \in {graph, {}}
    /\ Raise
    /\ UNCHANGED <<launch, process, files>>

-------------------------------------------------------------------------------
(* Ingesting, one snapshot per session *)

Piece == <<sample, session, settings>>

\* Mutant: the snapshot is taken before the flush.
IngestSessionUnflushed ==
    /\ pc = "ingest" /\ session <= NSessions[sample]
    /\ mem' = mem \cup {Piece}
    /\ graph' = graph \cup {Piece}
    /\ pc' = "save"
    /\ UNCHANGED <<launch, resume, session, copied, partial, files>>

IngestSession ==
    /\ pc = "ingest" /\ session <= NSessions[sample]
    /\ mem' = mem \cup {Piece}
    /\ graph' = graph \cup {Piece}
    /\ pc' = "flush"
    /\ UNCHANGED <<launch, resume, session, copied, partial, files>>

\* A turn of the session raises, with part of it in the stores.
IngestFails ==
    /\ pc = "ingest" /\ session <= NSessions[sample]
    /\ mem' \in {mem, mem \cup {Piece}}
    /\ graph' \in {graph, graph \cup {Piece}}
    /\ Raise
    /\ UNCHANGED <<launch, resume, session, copied, partial, files>>

Flush ==
    /\ pc = "flush"
    /\ working' = mem
    /\ pc' = "save"
    /\ UNCHANGED <<launch, process, graph, snapshots, archive, torn>>

FlushFails ==
    /\ \/ pc = "flush"
       \/ pc = "ingest" /\ session > NSessions[sample]
    /\ Raise
    /\ UNCHANGED <<launch, process, files, graph>>

\* save_snapshot: the working directory and an export of the graph, under a
\* name that did not exist.  An export without entities is refused.
SaveSnapshot ==
    /\ pc = "save"
    /\ snapshots[sample][session] = None /\ graph # {}
    /\ snapshots' = [snapshots EXCEPT ![sample][session] =
          [settings |-> settings, stores |-> working,
           graph |-> graph, partial |-> partial]]
    /\ session' = session + 1
    /\ pc' = "ingest"
    /\ UNCHANGED <<launch, resume, mem, copied, partial, working,
                   archive, torn, graph>>

SaveFails ==
    /\ pc = "save"
    /\ Raise
    /\ UNCHANGED <<launch, process, files, graph>>

\* After the last session: a flush of everything.
EndIngest ==
    /\ pc = "ingest" /\ session > NSessions[sample]
    /\ working' = mem
    /\ pc' = "export"
    /\ UNCHANGED <<launch, process, graph, snapshots, archive, torn>>

-------------------------------------------------------------------------------
(* The artifact directory of the sample, and its answers *)

\* validate_and_export_graph refuses an empty graph, and no other.
ExportGraph ==
    /\ pc = "export" /\ graph # {}
    /\ pc' = "backup"
    /\ UNCHANGED <<launch, process, files, graph>>

ExportFails ==
    /\ pc = "export"
    /\ Raise
    /\ UNCHANGED <<launch, process, files, graph>>

\* The archives with a copy begun and not finished, were it to end here.
Unfinished == IF pc = "backup" /\ copied # Parts THEN torn \cup {sample} ELSE torn

\* backup_artifacts_and_logs: a copy over the directory, file by file and in
\* no set order.  Here a part of it is through, with all of its files.
CopyPart(p) ==
    /\ pc = "backup" /\ p \notin copied
    /\ archive' = [archive EXCEPT ![sample][p] =
          IF p = "stores" THEN working ELSE graph]
    /\ copied' = copied \cup {p}
    /\ torn' = IF copied' = Parts /\ "ingest" \in stages
               THEN torn \ {sample} ELSE torn
    /\ UNCHANGED <<pc, launch, resume, session, mem, partial, working,
                   snapshots, graph>>

\* Here it is not: of the stores any of the files are the new ones, the old
\* ones or cut off, and the file of the graph is cut off.
CopyInPart(p) ==
    /\ pc = "backup" /\ p \notin copied
    /\ LET old == IF archive[sample].stores = None THEN {}
                  ELSE archive[sample].stores
           left == IF p = "stores" THEN SUBSET (working \cup old) ELSE {Torn}
       IN  \E f \in left : archive' = [archive EXCEPT ![sample][p] = f]
    /\ UNCHANGED <<pc, launch, process, working, snapshots, torn, graph>>

\* A file cannot be copied: the rest is, and then the copy raises.
CopyFails ==
    /\ pc = "backup"
    /\ torn' = Unfinished
    /\ Raise
    /\ UNCHANGED <<launch, process, working, snapshots, archive, graph>>

EndBackup ==
    /\ pc = "backup" /\ copied = Parts
    /\ pc' = IF "qa_eval" \in stages THEN "answer" ELSE "close"
    /\ UNCHANGED <<launch, process, files, graph>>

\* evaluate_items over the open stores and the graph.
Answer ==
    /\ pc = "answer"
    /\ pc' = "close"
    /\ UNCHANGED <<launch, process, files, graph>>

AnswerFails ==
    /\ pc = "answer"
    /\ Raise
    /\ UNCHANGED <<launch, process, files, graph>>

\* The finally clause closes the pipeline, which saves its stores and may
\* raise.  The process judges what was answered, and ends.
Close ==
    /\ pc = "close"
    /\ working' \in {mem, working}
    /\ pc' = "refresh"
    /\ WorkerGone
    /\ UNCHANGED <<launch, snapshots, archive, torn, graph>>

-------------------------------------------------------------------------------
(* The orchestrator *)

Launch ==
    /\ pc = "idle"
    /\ stages' \in SUBSET Stages \ {{}}
    /\ settings' \in Settings
    /\ sample' = 1
    /\ pc' = "start"
    /\ UNCHANGED <<process, files, graph>>

\* refresh_system clears the working directory, then the graph; its process
\* may fail between or before the two, and its exit status is not looked at.
\* The next sample follows, whatever became of this one.
Refresh ==
    /\ pc = "refresh"
    /\ \/ working' = {} /\ graph' \in {graph, {}}
       \/ UNCHANGED <<working, graph>>
    /\ IF sample < NSamples
       THEN sample' = sample + 1 /\ pc' = "start" /\ UNCHANGED <<stages, settings>>
       ELSE RunGone
    /\ UNCHANGED <<process, snapshots, archive, torn>>

\* A worker dies: the orchestrator sees an exit status.
KillWorker ==
    /\ pc \in WorkerSteps
    /\ pc' = "refresh"
    /\ torn' = Unfinished
    /\ WorkerGone
    /\ UNCHANGED <<launch, working, snapshots, archive, graph>>

\* The run is interrupted.
Kill ==
    /\ pc # "idle"
    /\ torn' = Unfinished
    /\ RunGone
    /\ WorkerGone
    /\ UNCHANGED <<working, snapshots, archive, graph>>

-------------------------------------------------------------------------------
Start == StartIngest \/ StartArchive \/ StartFails
Restore == RestoreGraph \/ RestoreUnreadable \/ ClearGraph \/ ClearFails
Ingest == \/ IngestSession \/ IngestFails \/ Flush \/ FlushFails
          \/ SaveSnapshot \/ SaveFails \/ EndIngest
Evaluate == \/ ExportGraph \/ ExportFails
            \/ \E p \in Parts : CopyPart(p) \/ CopyInPart(p)
            \/ CopyFails \/ EndBackup \/ Answer \/ AnswerFails
Finish == Close \/ Refresh

RunStep == Start \/ Restore \/ Ingest \/ Evaluate \/ Finish
Next == RunStep \/ Launch \/ KillWorker \/ Kill

Spec == Init /\ [][Next]_vars

-------------------------------------------------------------------------------
(* Properties *)

Whole(s, c) == Prefix(s, NSessions[s], c)

\* A snapshot holds its session and all before it, of its own sample and
\* under its own settings only: in the stores always, in the graph unless
\* a restore before it failed in part.  save_snapshot copies files, so it
\* depends on the flush, on what was installed or emptied before the stores
\* were opened, and on the settings having been compared.
SnapshotsAreWhole ==
    \A s \in Samples : \A k \in Taken(s) :
        LET snap == snapshots[s][k]
            own == Prefix(s, k, snap.settings)
        IN  snap.stores = own /\ (snap.partial \/ snap.graph = own)

\* Snapshots have their types and hold what they say.
SnapshotsAreSound == TypeOK /\ SnapshotsAreWhole

\* A worker in its session loop continues the snapshots: exactly the
\* sessions before the next one are saved, and its open stores hold them,
\* each once and under its own settings, and nothing else, whatever was
\* killed, failed or launched with other settings before
\* (highest_existing_snapshot, _ingest_remaining_sessions).
ContinuesTheSnapshots ==
    pc = "ingest" =>
        /\ Taken(sample) = 1 .. session - 1
        /\ mem = Prefix(sample, session - 1, settings)

\* Questions answered by a worker that ingested are answered over every
\* session of its sample, in the stores and, unless its graph was restored
\* in part, in the graph, and over nothing that another sample left in the
\* shared graph (run_locomo_worker, from its ingest to evaluate_items).
AnswersOverWholeIngest ==
    pc = "answer" /\ "ingest" \in stages =>
        /\ mem = Whole(sample, settings)
        /\ partial \/ graph = Whole(sample, settings)

\* The stores in a sample's artifact directory are of that sample and of one
\* ingest: no failed ingest and no other sample ever reaches the copy that
\* later evaluations start from, whatever was killed in the middle of it.
\* And unless the last copy was cut off, or was made by an evaluation of one
\* that was, they are all of that ingest, with a graph beside them that can
\* be read (backup_artifacts_and_logs, restore_artifacts_from_dir).
ArchivesAreOwn ==
    \A s \in Samples :
        /\ archive[s].stores = None
           \/ \E c \in Settings : archive[s].stores \subseteq Whole(s, c)
        /\ s \in Unfinished \/ archive[s] = Absent
           \/ /\ \E c \in Settings : archive[s].stores = Whole(s, c)
              /\ archive[s].graph \notin {None, Torn}
===============================================================================
