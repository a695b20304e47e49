--------------------------- MODULE IngestPipeline ---------------------------
(***************************************************************************)
(* The S3-first ingest path of omneval (ADR-0004): Ingest API replicas     *)
(* stage a batch in the Ingest Buffer and push its Batch ID on a Redis     *)
(* list; Writer replicas move references to a processing list, resolve     *)
(* them through the Batch Ledger and the buffer, commit windows of them to *)
(* the Lake, record them in the ledger and ack; every replica also runs a  *)
(* reconciliation sweep that re-enqueues lost references and deletes       *)
(* committed objects.  Redis, S3, the metadata store and the Lake may fail *)
(* a call, with or without having applied it, and a Writer may crash or be *)
(* stopped between any two calls.                                          *)
(*                                                                         *)
(* A batch is its ID.  What the Lake holds of an entry is abstracted to    *)
(* "none", "once" or "several" copies of its rows.  Clocks are abstracted  *)
(* away: any object may be past the sweep's grace period or its retention  *)
(* window whenever the sweep looks at it, and any window past its flush    *)
(* deadline.                                                               *)
(***************************************************************************)
EXTENDS Integers, Sequences

CONSTANTS
    Batches,        \* Batch IDs the StagedQueue generates, one per request
    Payloads,       \* legacy queue entries that carry their spans inline
    Malformed,      \* the legacy entries whose JSON does not parse
    EmptyBatches,   \* batches without a span (an OTLP export may hold none)
    Writers,        \* Writer replicas
    Reconcilers,    \* the replicas with reconciliation.enabled
    NoEntry,        \* a writer or a sweep that holds no entry
    MaxWindow,      \* entries that reach batchMaxBytes
    MaxQueue,       \* bound: queue length at which the sweep waits
    MaxFaults       \* bound: failed calls, crashes and restarts

Entries == Batches \cup Payloads

ASSUME ConstantsAssumption ==
    /\ Batches \cap Payloads = {}
    /\ Malformed \subseteq Payloads
    /\ EmptyBatches \subseteq Batches
    /\ Reconcilers \subseteq Writers
    /\ NoEntry \notin Entries
    /\ MaxWindow \in Nat \ {0}
    /\ MaxQueue \in Nat
    /\ MaxFaults \in Nat

VARIABLES
    api,         \* api[e]: how far the request carrying e got at the Ingest API
    objects,     \* Ingest Buffer objects (S3)
    queue,       \* omneval:ingest:spans, oldest entry first
    processing,  \* omneval:ingest:spans:processing, copies of each entry
    ledger,      \* committed_batches
    lake,        \* lake[e]: copies of e's rows in the Lake
    jobs,        \* entries with a span for which an eval job was enqueued
    pc,          \* pc[w]: where replica w is in its ingest loop
    cur,         \* cur[w]: the entry w is resolving
    window,      \* window[w]: `pending`, the resolved entries of the window
    next,        \* next[w]: index of the loop over `pending`
    sweep,       \* sweep[w]: the running sweep of w, all empty when idle
    faults       \* faults so far

redisVars  == <<queue, processing>>
writerVars == <<pc, cur, window, next>>
vars == <<api, objects, redisVars, ledger, lake, jobs, writerVars, sweep, faults>>

Outcomes == {"idle", "staged", "202", "failed"}
PCs == {"collect", "lookup", "fetch", "commit", "requeue", "mark", "eval"}
Sweeps == [todo : SUBSET Batches, del : SUBSET Batches, cur : Batches \cup {NoEntry}]
IdleSweep == [todo |-> {}, del |-> {}, cur |-> NoEntry]

(* Type correctness of the state. *)
TypeOK ==
    /\ api \in [Entries -> Outcomes]
    /\ objects \in SUBSET Batches
    /\ queue \in Seq(Entries)
    /\ processing \in [Entries -> Nat]
    /\ ledger \in SUBSET Batches
    /\ lake \in [Entries -> {"none", "once", "several"}]
    /\ jobs \in SUBSET Entries
    /\ pc \in [Writers -> PCs]
    /\ cur \in [Writers -> Entries \cup {NoEntry}]
    /\ window \in [Writers -> Seq(Entries)]
    /\ next \in [Writers -> Nat \ {0}]
    /\ sweep \in [Writers -> Sweeps]
    /\ faults \in Nat

Init ==
    /\ api = [e \in Entries |-> "idle"]
    /\ objects = {}
    /\ queue = <<>>
    /\ processing = [e \in Entries |-> 0]
    /\ ledger = {}
    /\ lake = [e \in Entries |-> "none"]
    /\ jobs = {}
    /\ pc = [w \in Writers |-> "collect"]
    /\ cur = [w \in Writers |-> NoEntry]
    /\ window = [w \in Writers |-> <<>>]
    /\ next = [w \in Writers |-> 1]
    /\ sweep = [w \in Writers |-> IdleSweep]
    /\ faults = 0

-----------------------------------------------------------------------------
(* A step that meets n failures of the outside world. *)
Spend(n) ==
    /\ faults + n <= MaxFaults
    /\ faults' = faults + n

\* LPUSH on omneval:ingest:spans (a list drained from its other end)
Push(e) == queue' = Append(queue, e)

\* Mutant of Removed: an entry that a Redis restart took is counted off again
Removed_Unchecked(e) == [processing EXCEPT ![e] = @ - 1]

\* LREM omneval:ingest:spans:processing 1 e: no effect when e is not there
Removed(e) ==
    [processing EXCEPT ![e] = IF @ > 0 THEN @ - 1 ELSE 0]

\* Writer ack: an error is logged and the entry stays on the processing list
Ack(e) ==
    /\ \/ processing' = Removed(e) /\ Spend(0)
       \/ processing' = processing /\ Spend(1)
    /\ UNCHANGED queue

\* Mutant of Requeue: LREM first, so that a failed LPUSH drops the entry
Requeue_RemoveFirst(e, n) ==
    \/ Push(e) /\ processing' = Removed(e) /\ Spend(n)
    \/ UNCHANGED queue /\ processing' = Removed(e) /\ Spend(n + 1)

\* Writer requeue after n failures: LPUSH, then LREM; either may fail
Requeue(e, n) ==
    \/ Push(e) /\ processing' = Removed(e) /\ Spend(n)
    \/ Push(e) /\ processing' = processing /\ Spend(n + 1)
    \/ UNCHANGED redisVars /\ Spend(n + 1)

-----------------------------------------------------------------------------
(* Ingest API: one StagedQueue.Enqueue per request, and the plain Redis    *)
(* Enqueue of a replica that runs with ingest.buffer.enabled = false.      *)

\* Mutant of Stage: a failed PutSized is not reported to the caller
Stage_ErrorIgnored(b) ==
    /\ api[b] = "idle"
    /\ api' = [api EXCEPT ![b] = "staged"]
    /\ \/ objects' = objects \cup {b} /\ Spend(0)
       \/ UNCHANGED objects /\ Spend(1)
    /\ UNCHANGED <<redisVars, ledger, lake, jobs, writerVars, sweep>>

Stage(b) ==
    /\ api[b] = "idle"
    /\ \/ objects' = objects \cup {b} /\ api' = [api EXCEPT ![b] = "staged"] /\ Spend(0)
       \* PutSized failed, possibly after the object was stored: 503
       \/ /\ objects' \in {objects, objects \cup {b}}
          /\ api' = [api EXCEPT ![b] = "failed"]
          /\ Spend(1)
    /\ UNCHANGED <<redisVars, ledger, lake, jobs, writerVars, sweep>>

EnqueueRef(b) ==
    /\ api[b] = "staged"
    /\ \/ Push(b) /\ api' = [api EXCEPT ![b] = "202"] /\ Spend(0)
       \* LPUSH failed (503) or the replica died: the object is an orphan
       \/ /\ queue' \in {queue, Append(queue, b)}
          /\ api' = [api EXCEPT ![b] = "failed"]
          /\ Spend(1)
    /\ UNCHANGED <<objects, processing, ledger, lake, jobs, writerVars, sweep>>

EnqueuePayload(p) ==
    /\ api[p] = "idle"
    /\ \/ Push(p) /\ api' = [api EXCEPT ![p] = "202"] /\ Spend(0)
       \/ /\ queue' \in {queue, Append(queue, p)}
          /\ api' = [api EXCEPT ![p] = "failed"]
          /\ Spend(1)
    /\ UNCHANGED <<objects, processing, ledger, lake, jobs, writerVars, sweep>>

-----------------------------------------------------------------------------
(* Writer: BatchProcessor.collectAndCommit.                                *)

\* The window takes no more entries once it holds batchMaxBytes
Collecting(w) == pc[w] = "collect" /\ Len(window[w]) < MaxWindow

\* BLMOVE to the processing list; an inline payload is resolved as it is
Dequeue(w) ==
    /\ Collecting(w)
    /\ queue # <<>>
    /\ Head(queue) \notin Malformed
    /\ queue' = Tail(queue)
    /\ processing' = [processing EXCEPT ![Head(queue)] = @ + 1]
    /\ \/ /\ Head(queue) \in Batches
          /\ pc' = [pc EXCEPT ![w] = "lookup"]
          /\ cur' = [cur EXCEPT ![w] = Head(queue)]
          /\ UNCHANGED window
          /\ Spend(0)
       \/ /\ Head(queue) \in Payloads
          /\ window' = [window EXCEPT ![w] = Append(@, Head(queue))]
          /\ UNCHANGED <<pc, cur>>
          /\ Spend(0)
       \* the entry was moved but the reply was lost
       \/ UNCHANGED <<pc, cur, window>> /\ Spend(1)
    /\ UNCHANGED <<api, objects, ledger, lake, jobs, next, sweep>>

\* A malformed entry is acked, so that it does not linger
DequeueMalformed(w) ==
    /\ Collecting(w)
    /\ queue # <<>>
    /\ Head(queue) \in Malformed
    /\ queue' = Tail(queue)
    /\ \/ UNCHANGED processing /\ Spend(0)
       \/ processing' = [processing EXCEPT ![Head(queue)] = @ + 1] /\ Spend(1)
    /\ UNCHANGED <<api, objects, ledger, lake, jobs, writerVars, sweep>>

\* resolveEntry, first half: the Batch Ledger lookup
Lookup(w) ==
    /\ pc[w] = "lookup"
    /\ \/ /\ cur[w] \in ledger
          /\ Ack(cur[w])
          /\ pc' = [pc EXCEPT ![w] = "collect"]
          /\ cur' = [cur EXCEPT ![w] = NoEntry]
       \/ /\ cur[w] \notin ledger
          /\ pc' = [pc EXCEPT ![w] = "fetch"]
          /\ Spend(0)
          /\ UNCHANGED <<cur, redisVars>>
       \/ /\ Requeue(cur[w], 1)
          /\ pc' = [pc EXCEPT ![w] = "collect"]
          /\ cur' = [cur EXCEPT ![w] = NoEntry]
    /\ UNCHANGED <<api, objects, ledger, lake, jobs, window, next, sweep>>

\* resolveEntry, second half: fetch from the Ingest Buffer
Fetch(w) ==
    /\ pc[w] = "fetch"
    /\ \/ /\ cur[w] \in objects
          /\ window' = [window EXCEPT ![w] = Append(@, cur[w])]
          /\ Spend(0)
          /\ UNCHANGED redisVars
       \/ /\ cur[w] \notin objects          \* ErrNotFound: dropped
          /\ Ack(cur[w])
          /\ UNCHANGED window
       \/ /\ Requeue(cur[w], 1)
          /\ UNCHANGED window
    /\ pc' = [pc EXCEPT ![w] = "collect"]
    /\ cur' = [cur EXCEPT ![w] = NoEntry]
    /\ UNCHANGED <<api, objects, ledger, lake, jobs, next, sweep>>

\* The window closes: full, past its deadline or the queue is idle
CloseWindow(w) ==
    /\ pc[w] = "collect"
    /\ window[w] # <<>>
    /\ pc' = [pc EXCEPT ![w] = "commit"]
    /\ UNCHANGED <<api, objects, redisVars, ledger, lake, jobs, cur, window, next, sweep, faults>>

\* Positions of the window that hold e
Places(w, e) == {i \in DOMAIN window[w] : window[w][i] = e}

\* The Lake after one INSERT transaction with the spans of w's window
Inserted(w) ==
    [e \in Entries |->
        IF e \in EmptyBatches \/ Places(w, e) = {} THEN lake[e]
        ELSE IF lake[e] = "none" /\ (\E i \in DOMAIN window[w] : Places(w, e) = {i})
             THEN "once" ELSE "several"]

\* The Lake after the same rows were inserted twice
InsertedTwice(w) ==
    [e \in Entries |->
        IF e \in EmptyBatches \/ Places(w, e) = {} THEN lake[e] ELSE "several"]

\* commitLake makes no call for a window without spans
HasSpans(w) == \E i \in DOMAIN window[w] : window[w][i] \notin EmptyBatches

\* Mutant of CommitLake: its error is ignored
CommitLake_ErrorIgnored(w) ==
    /\ pc[w] = "commit"
    /\ \/ lake' = Inserted(w) /\ Spend(0)
       \/ UNCHANGED lake /\ Spend(1)
    /\ pc' = [pc EXCEPT ![w] = "mark"]
    /\ next' = [next EXCEPT ![w] = 1]
    /\ UNCHANGED <<api, objects, redisVars, ledger, jobs, cur, window, sweep>>

\* commitBatch: the Lake commit.  A failed commit may have been applied, and
\* lake.InsertSpans may have retried one that had been.
CommitLake(w) ==
    /\ pc[w] = "commit"
    /\ \/ /\ lake' = Inserted(w)
          /\ pc' = [pc EXCEPT ![w] = "mark"]
          /\ Spend(0)
       \/ /\ HasSpans(w)
          /\ lake' = InsertedTwice(w)
          /\ pc' = [pc EXCEPT ![w] = "mark"]
          /\ Spend(1)
       \/ /\ HasSpans(w)
          /\ lake' \in {lake, Inserted(w), InsertedTwice(w)}
          /\ pc' = [pc EXCEPT ![w] = "requeue"]
          /\ Spend(1)
    /\ next' = [next EXCEPT ![w] = 1]
    /\ UNCHANGED <<api, objects, redisVars, ledger, jobs, cur, window, sweep>>

\* The loops over `pending` end in pc p; a finished window is dropped
Advance(w, p) ==
    IF next[w] < Len(window[w])
    THEN /\ next' = [next EXCEPT ![w] = @ + 1]
         /\ UNCHANGED <<pc, window>>
    ELSE /\ next' = [next EXCEPT ![w] = 1]
         /\ pc' = [pc EXCEPT ![w] = p]
         /\ window' = IF p = "collect" THEN [window EXCEPT ![w] = <<>>] ELSE window

\* Mutant of RequeueEntry: the entries of a failed window are acked
RequeueEntry_Acked(w) ==
    /\ pc[w] = "requeue"
    /\ Ack(window[w][next[w]])
    /\ Advance(w, "collect")
    /\ UNCHANGED <<api, objects, ledger, lake, jobs, cur, sweep>>

\* commitBatch after a failed Lake commit: every entry goes back
RequeueEntry(w) ==
    /\ pc[w] = "requeue"
    /\ Requeue(window[w][next[w]], 0)
    /\ Advance(w, "collect")
    /\ UNCHANGED <<api, objects, ledger, lake, jobs, cur, sweep>>

\* commitBatch after the Lake commit: ledger insert and ack, entry by entry
Mark(w) ==
    /\ pc[w] = "mark"
    /\ LET e == window[w][next[w]] IN
        \/ e \in Batches /\ ledger' = ledger \cup {e} /\ Ack(e)
        \/ e \in Payloads /\ ledger' = ledger /\ Ack(e)
        \/ e \in Batches /\ ledger' \in {ledger, ledger \cup {e}} /\ Requeue(e, 1)
    /\ Advance(w, "eval")
    /\ UNCHANGED <<api, objects, lake, jobs, cur, sweep>>

\* Mutant of EvalSpans: jobs are enqueued before the Lake commit
EvalSpans_Early(w) ==
    /\ pc[w] = "commit"
    /\ jobs' = jobs \cup {e \in Entries : Places(w, e) # {}}
    /\ UNCHANGED <<api, objects, redisVars, ledger, lake, writerVars, sweep, faults>>

\* commitBatch, last: jobs for the spans that match and are sampled, none when
\* the rules cannot be listed, fewer when an enqueue fails
EvalSpans(w) ==
    /\ pc[w] = "eval"
    /\ \E S \in SUBSET {e \in Entries : Places(w, e) # {} /\ e \notin EmptyBatches} :
            jobs' = jobs \cup S
    /\ pc' = [pc EXCEPT ![w] = "collect"]
    /\ window' = [window EXCEPT ![w] = <<>>]
    /\ UNCHANGED <<api, objects, redisVars, ledger, lake, cur, next, sweep, faults>>

\* BLMOVE timed out on an empty queue and there is nothing to flush
IdlePoll(w) ==
    /\ pc[w] = "collect"
    /\ window[w] = <<>>
    /\ queue = <<>>
    /\ UNCHANGED vars

WriterStep(w) ==
    \/ Dequeue(w) \/ DequeueMalformed(w) \/ Lookup(w) \/ Fetch(w) \/ CloseWindow(w)
    \/ CommitLake(w) \/ RequeueEntry(w) \/ Mark(w) \/ EvalSpans(w) \/ IdlePoll(w)

-----------------------------------------------------------------------------
(* Reconciliation sweep: reconcile.Worker.Run.                             *)

\* The listing returns the objects T past the grace period
SweepList(w, T) ==
    /\ w \in Reconcilers
    /\ sweep[w] = IdleSweep
    /\ T # {}
    /\ sweep' = [sweep EXCEPT ![w] = [todo |-> T, del |-> {}, cur |-> NoEntry]]
    /\ UNCHANGED <<api, objects, redisVars, ledger, lake, jobs, writerVars, faults>>

\* Mutant of SweepUncommitted: the reference is not put up for re-enqueueing
SweepUncommitted_Forgotten(w, b) ==
    /\ b \in sweep[w].todo
    /\ sweep[w].cur = NoEntry
    /\ b \notin ledger
    /\ sweep' = [sweep EXCEPT ![w] = [todo |-> @.todo \ {b}, del |-> @.del, cur |-> NoEntry]]
    /\ UNCHANGED <<api, objects, redisVars, ledger, lake, jobs, writerVars, faults>>

\* Ledger lookup of a listed object: not committed, to be re-enqueued
SweepUncommitted(w, b) ==
    /\ b \in sweep[w].todo
    /\ sweep[w].cur = NoEntry
    /\ b \notin ledger
    /\ sweep' = [sweep EXCEPT ![w] = [todo |-> @.todo \ {b}, del |-> @.del, cur |-> b]]
    /\ UNCHANGED <<api, objects, redisVars, ledger, lake, jobs, writerVars, faults>>

\* Mutant of SweepExpired: retention alone decides
SweepExpired_ByAge(w, b) ==
    /\ b \in sweep[w].todo
    /\ sweep[w].cur = NoEntry
    /\ sweep' = [sweep EXCEPT ![w] = [todo |-> @.todo \ {b}, del |-> @.del \cup {b}, cur |-> NoEntry]]
    /\ UNCHANGED <<api, objects, redisVars, ledger, lake, jobs, writerVars, faults>>

\* Mutant of SweepExpired: the key is not appended to the expired ones
SweepExpired_NotListed(w, b) ==
    /\ b \in sweep[w].todo
    /\ sweep[w].cur = NoEntry
    /\ b \in ledger
    /\ sweep' = [sweep EXCEPT ![w] = [todo |-> @.todo \ {b}, del |-> @.del, cur |-> NoEntry]]
    /\ UNCHANGED <<api, objects, redisVars, ledger, lake, jobs, writerVars, faults>>

\* Ledger lookup of a listed object: committed and past its retention
SweepExpired(w, b) ==
    /\ b \in sweep[w].todo
    /\ sweep[w].cur = NoEntry
    /\ b \in ledger
    /\ sweep' = [sweep EXCEPT ![w] = [todo |-> @.todo \ {b}, del |-> @.del \cup {b}, cur |-> NoEntry]]
    /\ UNCHANGED <<api, objects, redisVars, ledger, lake, jobs, writerVars, faults>>

\* The object is left alone: committed but retained, or its lookup failed
SweepSkip(w, b) ==
    /\ b \in sweep[w].todo
    /\ sweep[w].cur = NoEntry
    /\ (b \in ledger /\ Spend(0)) \/ Spend(1)
    /\ sweep' = [sweep EXCEPT ![w] = [todo |-> @.todo \ {b}, del |-> @.del, cur |-> NoEntry]]
    /\ UNCHANGED <<api, objects, redisVars, ledger, lake, jobs, writerVars>>

\* Re-enqueue the reference of an uncommitted object
SweepEnqueue(w) ==
    /\ sweep[w].cur # NoEntry
    /\ Len(queue) < MaxQueue
    /\ \/ Push(sweep[w].cur) /\ Spend(0)
       \/ queue' \in {queue, Append(queue, sweep[w].cur)} /\ Spend(1)
    /\ sweep' = [sweep EXCEPT ![w] = [todo |-> @.todo, del |-> @.del, cur |-> NoEntry]]
    /\ UNCHANGED <<api, objects, processing, ledger, lake, jobs, writerVars>>

\* Mutant of SweepDelete: the ledger rows are deleted with the objects
SweepDelete_WithLedger(w) ==
    /\ sweep[w].todo = {}
    /\ sweep[w].cur = NoEntry
    /\ sweep[w].del # {}
    /\ objects' = objects \ sweep[w].del
    /\ ledger' = ledger \ sweep[w].del
    /\ Spend(0)
    /\ sweep' = [sweep EXCEPT ![w] = IdleSweep]
    /\ UNCHANGED <<api, redisVars, lake, jobs, writerVars>>

\* DeleteObjectsBatch: one RemoveObject per key, each of which may fail
SweepDelete(w) ==
    /\ sweep[w].todo = {}
    /\ sweep[w].cur = NoEntry
    /\ sweep[w].del # {}
    /\ \/ objects' = objects \ sweep[w].del /\ Spend(0)
       \/ (\E D \in SUBSET sweep[w].del : objects' = objects \ D) /\ Spend(1)
    /\ sweep' = [sweep EXCEPT ![w] = IdleSweep]
    /\ UNCHANGED <<api, redisVars, ledger, lake, jobs, writerVars>>

SweepStep(w) ==
    \/ \E T \in SUBSET objects : SweepList(w, T)
    \/ \E b \in Batches : SweepUncommitted(w, b) \/ SweepExpired(w, b) \/ SweepSkip(w, b)
    \/ SweepEnqueue(w)
    \/ SweepDelete(w)

-----------------------------------------------------------------------------
(* Environment.                                                            *)

\* A replica dies or its context is cancelled: the window is abandoned, its
\* entries stay on the processing list, which nobody reads; it restarts
Crash(w) ==
    /\ pc[w] # "collect" \/ window[w] # <<>> \/ sweep[w] # IdleSweep
    /\ pc' = [pc EXCEPT ![w] = "collect"]
    /\ cur' = [cur EXCEPT ![w] = NoEntry]
    /\ window' = [window EXCEPT ![w] = <<>>]
    /\ next' = [next EXCEPT ![w] = 1]
    /\ sweep' = [sweep EXCEPT ![w] = IdleSweep]
    /\ Spend(1)
    /\ UNCHANGED <<api, objects, redisVars, ledger, lake, jobs>>

\* Redis restarts without its lists
RedisRestart ==
    /\ queue' = <<>>
    /\ processing' = [e \in Entries |-> 0]
    /\ Spend(1)
    /\ UNCHANGED <<api, objects, ledger, lake, jobs, writerVars, sweep>>

Next ==
    \/ \E b \in Batches : Stage(b) \/ EnqueueRef(b)
    \/ \E p \in Payloads : EnqueuePayload(p)
    \/ \E w \in Writers : WriterStep(w) \/ SweepStep(w) \/ Crash(w)
    \/ RedisRestart

Spec == Init /\ [][Next]_vars

\* A replica's loop and its sweep ticker keep running.  Objects only get
\* older, so the listing finds them all past the grace period again and again
\* and, once committed, past their retention
Fairness ==
    /\ \A w \in Writers : WF_vars(WriterStep(w)) /\ WF_vars(SweepStep(w))
    /\ \A w \in Reconcilers : SF_vars(SweepList(w, objects))
    /\ \A w \in Reconcilers : \A b \in Batches : SF_vars(SweepExpired(w, b))

FairSpec == Spec /\ Fairness

-----------------------------------------------------------------------------
(* Properties.                                                             *)

\* Batches whose spans can still be found: buffer object or committed rows
Recoverable == objects \cup ledger

(* S3-first durability (docs/ingestion.md: "Redis loss is non-fatal"): a   *)
(* batch the Ingest API answered 202 for is in the Ingest Buffer until the *)
(* Batch Ledger says it is in the Lake, whatever crashes, lost references  *)
(* and sweeps happen in between.                                           *)
Durable == \A b \in Batches : api[b] = "202" => b \in Recoverable

(* The ledger never runs ahead of the Lake: commitBatch marks a batch only *)
(* after its rows were committed, also when two replicas race on it.       *)
LedgerSound == \A b \in ledger \ EmptyBatches : lake[b] # "none"

(* resolveEntry drops an entry whose object is gone because "the data is   *)
(* gone and retrying cannot recover it": that happens only to a batch that *)
(* another delivery committed between the ledger lookup and the fetch.     *)
NotFoundIsCommitted ==
    \A w \in Writers :
        pc[w] = "fetch" /\ cur[w] \notin objects => cur[w] \in ledger

(* An eval job refers to a span that is already in the Lake, so that the   *)
(* Eval Worker's score finds the span it scores.                           *)
JobsFollowRows == \A e \in jobs : lake[e] # "none"

(* reconcile.Worker.Run: "Uncommitted objects are never deleted", although *)
(* the lookup and the delete are separate calls and other replicas sweep.  *)
UncommittedNeverDeleted ==
    [][\A b \in objects : b \notin objects' => b \in ledger]_vars

\* An entry nobody needs to process again, or that waits on the queue
Settled(e) ==
    \/ e \in ledger
    \/ e \in Payloads /\ (e \in Malformed \/ lake[e] # "none")
    \/ \E i \in DOMAIN queue : queue[i] = e

(* An entry leaves the processing list only once it is committed or back   *)
(* on the queue (queue.go: "removed by Ack only after the Lake commit and  *)
(* Batch Ledger insert succeed"), unless Redis itself restarts.            *)
AckedOnlyWhenSettled ==
    [][\/ \A e \in Entries : processing'[e] < processing[e] => Settled(e)'
       \/ RedisRestart]_vars

(* The buffer stays bounded: every staged object, an orphan of a failed    *)
(* request too, is replayed, committed and finally garbage-collected.      *)
BufferDrains == \A b \in Batches : b \in objects ~> b \notin objects

\* A batch is stored once the ledger says so and pending while its object is
\* in the buffer; one that was staged and is in neither place is lost, a
\* status DurableLog does not have
StatusOf(b) ==
    IF b \in ledger THEN "stored"
    ELSE IF b \in objects THEN "pending"
    ELSE IF api[b] \in {"staged", "202"} THEN "lost" ELSE "new"

AnswerOf(b) == IF api[b] \in {"202", "failed"} THEN api[b] ELSE "none"

Log == INSTANCE DurableLog WITH
    status <- [b \in Batches |-> StatusOf(b)],
    answer <- [b \in Batches |-> AnswerOf(b)]

(* The pipeline implements DurableLog: no batch is ever lost, none is      *)
(* stored that was not submitted, and what is stored stays stored.         *)
ImplementsDurableLog == Log!SafeSpec

(* The fair pipeline implements DurableLog with its liveness: every        *)
(* pending batch is stored.                                                *)
ImplementsLiveDurableLog == Log!Spec

-----------------------------------------------------------------------------
(* The inductive invariant behind the safety properties.                   *)

\* A writer holds a reference while it resolves it, and entries while it
\* commits or loops over them
LoopsInRange ==
    \A w \in Writers :
        /\ pc[w] \in {"lookup", "fetch"} => cur[w] \in Batches
        /\ pc[w] = "commit" => window[w] # <<>>
        /\ pc[w] \in {"requeue", "mark"} => next[w] <= Len(window[w])

RequestsRecoverable ==
    \A b \in Batches : api[b] \in {"staged", "202"} => b \in Recoverable

\* Every copy of a reference, on the queue, in a writer or in a sweep
RefsRecoverable ==
    /\ \A i \in DOMAIN queue : queue[i] \in Batches => queue[i] \in Recoverable
    /\ \A w \in Writers :
        /\ cur[w] \in Batches => cur[w] \in Recoverable
        /\ \A i \in DOMAIN window[w] :
                window[w][i] \in Batches => window[w][i] \in Recoverable
        /\ sweep[w].todo \subseteq Recoverable
        /\ sweep[w].cur \in Batches => sweep[w].cur \in Recoverable

\* Past the Lake commit, the window's rows are in the Lake
WindowStored ==
    \A w \in Writers : pc[w] \in {"mark", "eval"} =>
        \A i \in DOMAIN window[w] :
            window[w][i] \notin EmptyBatches => lake[window[w][i]] # "none"

DeletesCommitted == \A w \in Writers : sweep[w].del \subseteq ledger

IInv ==
    /\ TypeOK
    /\ LoopsInRange
    /\ RequestsRecoverable
    /\ RefsRecoverable
    /\ WindowStored
    /\ LedgerSound
    /\ DeletesCommitted
    /\ JobsFollowRows
=============================================================================
