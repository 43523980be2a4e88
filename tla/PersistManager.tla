---------------------------- MODULE PersistManager ----------------------------
(***************************************************************************)
(* VDBManager of grace_mem/services/dense_index/chroma_manager.py: the     *)
(* extraction cache, the BM25 index and the Chroma collections of one      *)
(* artifact directory, and the asynchronous persistence that carries them  *)
(* to disk.                                                                *)
(*                                                                         *)
(* Ingestion threads (Callers) put an item into the in-memory cache, then  *)
(* into Chroma (durable at once) and BM25 (memory), then ask for an        *)
(* asynchronous persist.  One daemon thread writes the files, in an order  *)
(* that ends with the cache.  The process may be killed at any point; the  *)
(* next one loads what is on disk.                                         *)
(*                                                                         *)
(* The metadata exports (meta.jsonl) are views of Chroma that no resume  *)
(* reads: the step that writes them is left out, and its failure has the   *)
(* effect of a failure of the file written next.                           *)
(***************************************************************************)
EXTENDS FiniteSets, Integers, Sequences

CONSTANTS
    Callers,        \* threads that share one manager
    Owner,          \* the caller that closes or resets the manager
    Entities,       \* items with a vector, a BM25 document and a cache record
    Relationships,  \* items with a vector and a cache record
    None            \* no caller, no item

ASSUME CallersAssumption == Owner \in Callers /\ None \notin Callers
ASSUME ItemsAssumption ==
    /\ Entities \cap Relationships = {}
    /\ None \notin Entities \cup Relationships

Items == Entities \cup Relationships

VARIABLES
    mgr,        \* "open", "closed" by close(), or "down": the process is gone
    cache,      \* items recorded in the in-memory extraction cache
    bm25,       \* entities indexed by the in-memory BM25 index
    bm25Open,   \* the BM25 handle is set; close() makes it None
    chroma,     \* items in the Chroma collections, durable as soon as added
    chromaDirs, \* which Chroma directories exist on disk
    disk,       \* contents of the files _persist_all writes
    thread,     \* _persist_thread: "none", "alive" or "finished"
    wpos,       \* how many files the writer thread has written
    error,      \* _persist_error is set
    lock,       \* holder of _persist_lock
    pc,         \* where each caller is
    op,         \* the operation each caller is executing
    item,       \* the item each caller is ingesting
    fpos,       \* how many files a synchronous write of the caller has written
    asked,      \* history: cache and BM25 when the caller asked for a flush
    acked,      \* history: items whose persist request was accepted
    torn,       \* history: a write stopped before its last file
    owed,       \* history: a background failure no caller has been told of
    timedOut    \* history: some join gave up on a live writer

manager == <<mgr, cache, bm25, bm25Open>>
storage == <<chroma, chromaDirs, disk>>
writer  == <<thread, wpos, error>>
callers == <<lock, pc, op, item, fpos>>
history == <<asked, acked, torn, owed, timedOut>>
vars == <<manager, storage, writer, callers, history>>

\* The files of _persist_all in the order it writes them: cache last, entity
\* shard before relationship shard.
Files == <<"bm25", "ent_cache", "rel_cache">>
FileNames == {"bm25", "ent_cache", "rel_cache"}
\* What memory held when a caller asked for a flush.
Snapshots == [cache : SUBSET Items, bm25 : SUBSET Entities]
Nothing == [cache |-> {}, bm25 |-> {}]
KindOf(f) == IF f = "rel_cache" THEN Relationships ELSE Entities
NoFiles == [f \in FileNames |-> {}]

\* How many files a write under way has written.
Positions == 0..2

\* What saving file f puts on disk: the BM25 save is skipped when its handle
\* is None.
Content(f) ==
    CASE f = "bm25"      -> IF bm25Open THEN bm25 ELSE disk["bm25"]
      [] f = "ent_cache" -> cache \cap Entities
      [] f = "rel_cache" -> cache \cap Relationships

SaveFile(f) == disk' = [disk EXCEPT ![f] = Content(f)]

\* CacheStore.load: the two shards, each replaced atomically.
DiskCache == disk["ent_cache"] \cup disk["rel_cache"]

\* Items that a fresh process finds in every file that should hold them.
OnDisk == {x \in DiskCache : x \in Entities => x \in disk["bm25"]}

Ops == {"async", "flush", "close", "close_persist", "reset", "reload"}
Teardowns == {"close", "close_persist", "reset", "reload"}
Steps == {"idle", "staged", "indexed", "acquire", "join", "writing", "teardown"}

ManagerType ==
    /\ mgr \in {"open", "closed", "down"}
    /\ cache \in SUBSET Items
    /\ bm25 \in SUBSET Entities
    /\ bm25Open \in BOOLEAN

StorageType ==
    /\ chroma \in SUBSET Items
    /\ chromaDirs \in SUBSET {"entities", "relationships"}
    /\ disk \in [FileNames -> SUBSET Items]
    /\ \A f \in FileNames : disk[f] \subseteq KindOf(f)

WriterType ==
    /\ thread \in {"none", "alive", "finished"}
    /\ wpos \in Positions
    /\ error \in BOOLEAN

CallersType ==
    /\ lock \in Callers \cup {None}
    /\ pc \in [Callers -> Steps]
    /\ op \in [Callers -> Ops]
    /\ item \in [Callers -> Items \cup {None}]
    /\ fpos \in [Callers -> Positions]

HistoryType ==
    /\ asked \in [Callers -> Snapshots]
    /\ acked \in SUBSET Items
    /\ torn \in BOOLEAN
    /\ owed \in BOOLEAN
    /\ timedOut \in BOOLEAN

TypeOK == ManagerType /\ StorageType /\ WriterType /\ CallersType /\ HistoryType

Init ==
    /\ mgr = "open" /\ cache = {} /\ bm25 = {} /\ bm25Open = FALSE
    /\ chroma = {} /\ chromaDirs = {} /\ disk = NoFiles
    /\ thread = "none" /\ wpos = 0 /\ error = FALSE
    /\ lock = None
    /\ pc = [c \in Callers |-> "idle"]
    /\ op = [c \in Callers |-> "async"]
    /\ item = [c \in Callers |-> None]
    /\ fpos = [c \in Callers |-> 0]
    /\ asked = [c \in Callers |-> Nothing]
    /\ acked = {} /\ torn = FALSE /\ owed = FALSE /\ timedOut = FALSE

-----------------------------------------------------------------------------
(* Ingestion of one item: EntityManager.apply_ops and                      *)
(* RelationshipManager.upsert_from_extraction.                             *)

\* No caller starts new work while the owner tears the manager down.
Serving == mgr = "open" /\ ~(op[Owner] \in Teardowns /\ pc[Owner] # "idle")

\* The cache record is written first.  A relationship the cache already holds
\* is skipped; an entity is staged again.
Stage(c, x) ==
    /\ Serving /\ pc[c] = "idle"
    /\ x \in Relationships => x \notin cache
    /\ cache' = cache \cup {x}
    /\ pc' = [pc EXCEPT ![c] = "staged"]
    /\ item' = [item EXCEPT ![c] = x]
    /\ UNCHANGED <<mgr, bm25, bm25Open, storage, writer, lock, op, fpos, history>>

DirOf(x) == IF x \in Entities THEN "entities" ELSE "relationships"

\* Embedding or the vector store raises: the caller is left with the cache
\* record.  The collection's directory exists if its store was opened.
IndexFails(c) ==
    /\ mgr = "open" /\ pc[c] = "staged"
    /\ pc' = [pc EXCEPT ![c] = "idle"]
    /\ item' = [item EXCEPT ![c] = None]
    /\ chromaDirs' \in {chromaDirs, chromaDirs \cup {DirOf(item[c])}}
    /\ UNCHANGED <<manager, chroma, disk, writer, lock, op, fpos, history>>

\* vdb.add (durable), then, for an entity, get_entities_bm25(load_if_empty)
\* and bm25.add.
IndexItem(c) ==
    /\ mgr = "open" /\ pc[c] = "staged"
    /\ chroma' = chroma \cup {item[c]}
    /\ chromaDirs' = chromaDirs \cup {DirOf(item[c])}
    /\ \/ /\ item[c] \in Relationships
          /\ UNCHANGED <<bm25, bm25Open>>
       \/ /\ item[c] \in Entities
          /\ bm25' = {item[c]} \cup (IF bm25Open THEN bm25 ELSE disk["bm25"])
          /\ bm25Open' = TRUE
    /\ pc' = [pc EXCEPT ![c] = "indexed"]
    /\ UNCHANGED <<mgr, cache, disk, writer, lock, op, item, fpos, history>>

-----------------------------------------------------------------------------
(* Requests.  Each one acquires _persist_lock, then waits for the writer   *)
(* the previous request started.                                           *)

Request(c, o) ==
    /\ pc' = [pc EXCEPT ![c] = "acquire"]
    /\ op' = [op EXCEPT ![c] = o]
    /\ asked' = [asked EXCEPT ![c] =
                    [cache |-> cache, bm25 |-> IF bm25Open THEN bm25 ELSE disk["bm25"]]]
    /\ UNCHANGED <<manager, storage, writer, lock, item, fpos,
                   acked, torn, owed, timedOut>>

PersistAsync(c) == mgr = "open" /\ pc[c] = "indexed" /\ Request(c, "async")

FlushPersist(c) == Serving /\ pc[c] = "idle" /\ Request(c, "flush")

\* close and reset_all are called by the thread that owns the manager once
\* ingestion has returned.
OthersIdle == \A c \in Callers \ {Owner} : pc[c] = "idle"

Close(o) ==
    /\ mgr = "open" /\ pc[Owner] = "idle" /\ OthersIdle
    /\ o \in Teardowns
    /\ Request(Owner, o)

\* Mutated form of Acquire: the request is scheduled without the lock.
AcquireUnlocked(c) ==
    /\ pc[c] = "acquire"
    /\ lock' = c
    /\ pc' = [pc EXCEPT ![c] = "join"]
    /\ UNCHANGED <<manager, storage, writer, op, item, fpos, history>>

Acquire(c) ==
    /\ pc[c] = "acquire" /\ lock = None
    /\ lock' = c
    /\ pc' = [pc EXCEPT ![c] = "join"]
    /\ UNCHANGED <<manager, storage, writer, op, item, fpos, history>>

Tearing(c) == op[c] \in Teardowns

\* The lock is released; close() and reset_all() go on to release the stores.
Release(c) ==
    /\ lock' = None
    /\ pc' = [pc EXCEPT ![c] = IF Tearing(c) THEN "teardown" ELSE "idle"]
    /\ op' = [op EXCEPT ![c] = IF Tearing(c) THEN @ ELSE "async"]
    /\ item' = [item EXCEPT ![c] = None]
    /\ asked' = [asked EXCEPT ![c] = Nothing]

\* Mutated form of JoinTimesOut: the join has no timeout.
JoinKeepsWaiting(c) == pc[c] = "join" /\ thread = "alive" /\ UNCHANGED vars

\* thread.join(timeout=30) returned and the thread is still alive.
JoinTimesOut(c) ==
    /\ pc[c] = "join" /\ thread = "alive"
    /\ timedOut' = TRUE
    /\ Release(c)
    /\ UNCHANGED <<manager, storage, writer, fpos, acked, torn, owed>>

\* The writer has ended and left an error: it is cleared and raised here.
JoinRaises(c) ==
    /\ pc[c] = "join" /\ thread # "alive" /\ error
    /\ thread' = "none" /\ error' = FALSE /\ owed' = FALSE
    /\ Release(c)
    /\ UNCHANGED <<manager, storage, wpos, fpos, acked, torn, timedOut>>

\* Mutated form of Joined: the captured error is not looked at.
JoinedUnchecked(c) == pc[c] = "join" /\ thread # "alive"

Joined(c) == pc[c] = "join" /\ thread # "alive" /\ ~error

\* Mutated form of Spawn: a request finding a writer at work is coalesced into it.
SpawnOrCoalesce(c) ==
    /\ pc[c] = "join" /\ op[c] = "async" /\ ~error
    /\ thread' = "alive" /\ wpos' = (IF thread = "alive" THEN wpos ELSE 0)
    /\ acked' = acked \cup {item[c]}
    /\ Release(c)
    /\ UNCHANGED <<manager, storage, error, fpos, torn, owed, timedOut>>

\* persist_async: start the next writer.
Spawn(c) ==
    /\ Joined(c) /\ op[c] = "async"
    /\ thread' = "alive" /\ wpos' = 0 /\ error' = FALSE
    /\ acked' = acked \cup {item[c]}
    /\ Release(c)
    /\ UNCHANGED <<manager, storage, fpos, torn, owed, timedOut>>

\* Mutated form of StartFlush: BM25 is not saved again after a writer just did.
StartFlushTrustingWriter(c) ==
    /\ Joined(c) /\ op[c] \in {"flush", "close_persist"}
    /\ thread' = "none"
    /\ pc' = [pc EXCEPT ![c] = "writing"]
    /\ fpos' = [fpos EXCEPT ![c] = IF thread = "finished" THEN 1 ELSE 0]
    /\ UNCHANGED <<manager, storage, wpos, error, lock, op, item, history>>

\* flush_persist, also as the first part of close(persist=True): write again
\* while still holding the lock.
StartFlush(c) ==
    /\ Joined(c) /\ op[c] \in {"flush", "close_persist"}
    /\ thread' = "none"
    /\ pc' = [pc EXCEPT ![c] = "writing"]
    /\ fpos' = [fpos EXCEPT ![c] = 0]
    /\ UNCHANGED <<manager, storage, wpos, error, lock, op, item, history>>

\* _wait_for_persist: nothing more to do under the lock.
EndWait(c) ==
    /\ Joined(c) /\ op[c] \in Teardowns \ {"close_persist"}
    /\ thread' = "none"
    /\ Release(c)
    /\ UNCHANGED <<manager, storage, wpos, error, fpos, acked, torn, owed, timedOut>>

-----------------------------------------------------------------------------
(* The writers: the daemon thread, and a flush in the calling thread.      *)

WriterWrites ==
    /\ thread = "alive"
    /\ SaveFile(Files[wpos + 1])
    /\ IF wpos < 2
       THEN wpos' = wpos + 1 /\ UNCHANGED <<thread, torn>>
       ELSE wpos' = 0 /\ thread' = "finished" /\ torn' = FALSE
    /\ UNCHANGED <<manager, chroma, chromaDirs, error, callers,
                   asked, acked, owed, timedOut>>

\* _task captures the exception; nobody is told yet.
WriterFails ==
    /\ thread = "alive"
    /\ thread' = "finished" /\ wpos' = 0
    /\ error' = TRUE /\ owed' = TRUE /\ torn' = TRUE
    /\ UNCHANGED <<manager, storage, callers, asked, acked, timedOut>>

FlushWrites(c) ==
    /\ pc[c] = "writing"
    /\ SaveFile(Files[fpos[c] + 1])
    /\ \/ /\ fpos[c] < 2
          /\ fpos' = [fpos EXCEPT ![c] = @ + 1]
          /\ UNCHANGED <<lock, pc, op, item, asked, torn>>
       \/ /\ fpos[c] = 2
          /\ fpos' = [fpos EXCEPT ![c] = 0]
          /\ torn' = FALSE
          /\ Release(c)
    /\ UNCHANGED <<manager, chroma, chromaDirs, writer,
                   acked, owed, timedOut>>

\* A save or validate_artifacts raises, straight to the caller.
FlushFails(c) ==
    /\ pc[c] = "writing"
    /\ fpos' = [fpos EXCEPT ![c] = 0]
    /\ torn' = TRUE
    /\ Release(c)
    /\ UNCHANGED <<manager, storage, writer, acked, owed, timedOut>>

-----------------------------------------------------------------------------
(* The rest of close() and reset_all(), which run whether or not the wait  *)
(* raised, and the life of the process.                                    *)

\* The items promised durable that a fresh load still finds.
Surviving == IF torn \/ thread = "alive" THEN acked \cap OnDisk ELSE acked

CloseStores(clear) ==
    /\ pc[Owner] = "teardown" /\ op[Owner] \in {"close", "close_persist"}
    /\ bm25' = {} /\ bm25Open' = FALSE
    /\ cache' = IF clear THEN {} ELSE cache
    /\ mgr' = "closed"
    /\ pc' = [pc EXCEPT ![Owner] = "idle"] /\ op' = [op EXCEPT ![Owner] = "async"]
    /\ UNCHANGED <<storage, writer, lock, item, fpos, history>>

\* reset_all(delete_files=True), as refresh_system calls it.
ResetAll ==
    /\ pc[Owner] = "teardown" /\ op[Owner] = "reset"
    /\ bm25' = {} /\ bm25Open' = FALSE /\ cache' = {}
    /\ chroma' = {} /\ chromaDirs' = {} /\ disk' = NoFiles
    /\ acked' = {}
    /\ pc' = [pc EXCEPT ![Owner] = "idle"] /\ op' = [op EXCEPT ![Owner] = "async"]
    /\ UNCHANGED <<mgr, writer, lock, item, fpos, asked, torn, owed, timedOut>>

\* reload_mgr_state_from_artifacts: reset_all(delete_files=False), then the
\* cache is loaded again.
Reload ==
    /\ pc[Owner] = "teardown" /\ op[Owner] = "reload"
    /\ bm25' = {} /\ bm25Open' = FALSE /\ cache' = DiskCache
    /\ acked' = Surviving
    /\ pc' = [pc EXCEPT ![Owner] = "idle"] /\ op' = [op EXCEPT ![Owner] = "async"]
    /\ UNCHANGED <<mgr, storage, writer, lock, item, fpos, asked, torn, owed, timedOut>>

\* The process ends at any point; the daemon thread is not waited for.
Kill ==
    /\ mgr # "down"
    /\ mgr' = "down"
    /\ cache' = {} /\ bm25' = {} /\ bm25Open' = FALSE
    /\ thread' = "none" /\ wpos' = 0 /\ error' = FALSE
    /\ lock' = None
    /\ pc' = [c \in Callers |-> "idle"]
    /\ op' = [c \in Callers |-> "async"]
    /\ asked' = [c \in Callers |-> Nothing]
    /\ item' = [c \in Callers |-> None]
    /\ fpos' = [c \in Callers |-> 0]
    /\ acked' = Surviving /\ torn' = FALSE /\ owed' = FALSE
    /\ UNCHANGED <<storage, timedOut>>

\* Mutated form of Start: a resume needs both Chroma directories.
StartNeedingBoth ==
    /\ mgr = "down"
    /\ mgr' = "open"
    /\ cache' = IF Cardinality(chromaDirs) = 2 THEN DiskCache ELSE {}
    /\ UNCHANGED <<bm25, bm25Open, storage, writer, callers, history>>

\* __init__ loads the cache; initialize() clears it again on a cold start.
Start ==
    /\ mgr = "down"
    /\ mgr' = "open"
    /\ cache' = IF chromaDirs # {} THEN DiskCache ELSE {}
    /\ UNCHANGED <<bm25, bm25Open, storage, writer, callers, history>>

-----------------------------------------------------------------------------
\* What a caller holding the lock does next.
HolderStep(c) ==
    \/ JoinTimesOut(c) \/ JoinRaises(c)
    \/ Spawn(c) \/ StartFlush(c) \/ EndWait(c)
    \/ FlushWrites(c) \/ FlushFails(c)

TeardownStep == (\E clear \in BOOLEAN : CloseStores(clear)) \/ ResetAll \/ Reload

Next ==
    \/ \E c \in Callers :
          \/ \E x \in Items : Stage(c, x)
          \/ IndexFails(c) \/ IndexItem(c)
          \/ PersistAsync(c) \/ FlushPersist(c)
          \/ Acquire(c) \/ HolderStep(c)
    \/ \E o \in Teardowns : Close(o)
    \/ TeardownStep
    \/ WriterWrites \/ WriterFails
    \/ Kill \/ Start

Spec == Init /\ [][Next]_vars

\* A thread that holds the lock keeps being scheduled.  No fairness for the
\* writer: a disk may hang, which is what the bounded join is for.
FairSpec ==
    /\ Spec
    /\ \A c \in Callers : WF_vars(HolderStep(c))
    /\ WF_vars(TeardownStep)

-----------------------------------------------------------------------------
(* Properties.                                                             *)

\* The files of one artifact directory are written by one thread at a time:
\* a flush writes only under the lock and with no daemon writer alive, and
\* the lock has a single holder.  (test_persist_requests_never_write_the_
\* same_store_concurrently exercises one schedule of this.)
SingleWriter ==
    \A c \in Callers :
        /\ pc[c] \in {"join", "writing"} <=> lock = c
        /\ pc[c] = "writing" => thread = "none"

\* The manager as a whole: every variable in its range, one writer at a time.
ManagerSound == TypeOK /\ SingleWriter

\* A failure captured by the daemon thread stays recorded until some caller
\* is told of it: no later request may start over it and drop it.
NoFailureForgotten == owed => error

\* Once persist_async has accepted an item's request, the item is on disk in
\* the cache shards and, for an entity, in BM25, as soon as no writer is
\* running, unless a write failed half way or a join gave up on a live writer.
Durable ==
    (thread # "alive" /\ ~torn /\ ~timedOut) => acked \subseteq OnDisk

\* A flush that returns has put on disk everything memory held when it was
\* called, the mutations a daemon writer started too early to see included.
FlushCovers ==
    [][\A c \in Callers :
          (/\ op[c] = "flush" /\ lock = c /\ lock' = None
           /\ pc[c] = "writing" /\ mgr' # "down" /\ ~torn') =>
              /\ asked[c].cache \subseteq DiskCache'
              /\ asked[c].bm25 \subseteq disk'["bm25"]]_vars

\* The cold-start test of initialize() never discards, on a restart, an
\* extraction whose persistence had been promised.
RestartKeepsPromise ==
    [][mgr = "down" /\ mgr' = "open" /\ ~timedOut => acked \subseteq cache']_vars

\* Whoever takes the lock gives it back, even when the writer hangs for ever:
\* the join is bounded.
LockReleased == \A c \in Callers : lock = c ~> lock # c
=============================================================================
