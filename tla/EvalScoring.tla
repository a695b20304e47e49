---------------------------- MODULE EvalScoring ----------------------------
(***************************************************************************)
(* The evaluation half of omneval: the Writer pushes eval jobs on a Redis  *)
(* list, Eval Worker replicas pop them, resolve the rule's prompt through  *)
(* a cache over the Prompt Registry, call the judge LLM with retries and   *)
(* post the score to the Writer's internal endpoint, which looks up the    *)
(* span and inserts the score into the Lake.  Replicas are stopped by      *)
(* SIGTERM (their context is cancelled) or killed, and restarted.          *)
(*                                                                         *)
(* A prompt template is its version number, and jobs all use one prompt    *)
(* name.  The TTL of the cache is abstracted: an entry may expire at any   *)
(* time.  A score value is a natural number, 0 being Go's zero value.      *)
(***************************************************************************)
EXTENDS Integers, Sequences

CONSTANTS
    Jobs,          \* EvalJobs, each with its own JobID
    Pinned,        \* jobs of a rule with prompt_version = 1; others use the label
    Unresolvable,  \* jobs whose prompt reference resolves to nothing
    EvalWorkers,   \* Eval Worker replicas, one worker goroutine each
    NoJob,         \* a worker without a job
    Retries,       \* eval.retry_count
    Values,        \* what the judge may answer
    MaxVersion,    \* bound: versions of the prompt
    MaxStops,      \* bound: SIGTERMs
    MaxFaults      \* bound: failed calls and kills

ASSUME ConstantsAssumption ==
    /\ Pinned \subseteq Jobs
    /\ Unresolvable \subseteq Jobs
    /\ NoJob \notin Jobs
    /\ Retries \in Nat \ {0}
    /\ Values \subseteq Nat
    /\ MaxVersion \in Nat \ {0}
    /\ MaxStops \in Nat
    /\ MaxFaults \in Nat

VARIABLES
    produced,   \* jobs the Writer has tried to enqueue
    evalQ,      \* omneval:eval:jobs
    label,      \* the version labelled "production"
    pc,         \* pc[w]: where the worker is in Run
    job,        \* job[w]: the job it works on
    attempt,    \* attempt[w]: attempts before this one
    prompt,     \* prompt[w]: the version it renders
    verdict,    \* verdict[w]: the judge's score
    cache,      \* cache[w][k]: version cached under key k, 0 if none
    stopping,   \* replicas whose context is cancelled
    req,        \* req[j]: the POST of j's score at the Writer
    rows,       \* rows[j]: score rows of j in the Lake
    calls,      \* calls[j]: judge calls made for j
    judged,     \* judged[j]: version and answer of j's successful judge call
    stops,      \* SIGTERMs so far
    faults      \* failed calls and kills so far

workerVars == <<pc, job, attempt, prompt, verdict, cache, stopping>>
vars == <<produced, evalQ, label, workerVars, req, rows, calls, judged, stops, faults>>

PCs == {"idle", "resolve", "chat", "backoff", "post", "stopped"}
Versions == 1 .. MaxVersion
Keys == {0, 1}                      \* version <= 0 is the label, 1 the pinned version
Row == [value : Nat, start : {"span", "created"}]
Verdicts == [version : Versions, value : Nat]
NoVerdict == [version |-> 0, value |-> 0]
Request == [phase : {"none", "sent", "insert", "201", "500"}, body : Nat, start : {"span", "created"}]
NoRequest == [phase |-> "none", body |-> 0, start |-> "created"]

(* Type correctness of the state. *)
TypeOK ==
    /\ produced \in SUBSET Jobs
    /\ evalQ \in Seq(Jobs)
    /\ label \in Versions
    /\ pc \in [EvalWorkers -> PCs]
    /\ job \in [EvalWorkers -> Jobs \cup {NoJob}]
    /\ attempt \in [EvalWorkers -> 0 .. Retries]
    /\ prompt \in [EvalWorkers -> 0 .. MaxVersion]
    /\ verdict \in [EvalWorkers -> Nat]
    /\ cache \in [EvalWorkers -> [Keys -> 0 .. MaxVersion]]
    /\ stopping \in SUBSET EvalWorkers
    /\ req \in [Jobs -> Request]
    /\ rows \in [Jobs -> Seq(Row)]
    /\ calls \in [Jobs -> Nat]
    /\ judged \in [Jobs -> Verdicts \cup {NoVerdict}]
    /\ stops \in Nat
    /\ faults \in Nat

Init ==
    /\ produced = {}
    /\ evalQ = <<>>
    /\ label = 1
    /\ pc = [w \in EvalWorkers |-> "idle"]
    /\ job = [w \in EvalWorkers |-> NoJob]
    /\ attempt = [w \in EvalWorkers |-> 0]
    /\ prompt = [w \in EvalWorkers |-> 0]
    /\ verdict = [w \in EvalWorkers |-> 0]
    /\ cache = [w \in EvalWorkers |-> [k \in Keys |-> 0]]
    /\ stopping = {}
    /\ req = [j \in Jobs |-> NoRequest]
    /\ rows = [j \in Jobs |-> <<>>]
    /\ calls = [j \in Jobs |-> 0]
    /\ judged = [j \in Jobs |-> NoVerdict]
    /\ stops = 0
    /\ faults = 0

Spend(n) ==
    /\ faults + n <= MaxFaults
    /\ faults' = faults + n

\* A call with the worker's context fails: for free once it is cancelled
CallFails(w) == IF w \in stopping THEN Spend(0) ELSE Spend(1)

-----------------------------------------------------------------------------
(* Writer: evalSpans pushes a job; a failed RPUSH is logged.               *)
EnqueueJob(j) ==
    /\ j \notin produced
    /\ produced' = produced \cup {j}
    /\ \/ evalQ' = Append(evalQ, j) /\ Spend(0)
       \/ UNCHANGED evalQ /\ Spend(1)
    /\ UNCHANGED <<label, workerVars, req, rows, calls, judged, stops>>

(* Prompt Registry: the production label is moved to another version.      *)
MoveLabel(v) ==
    /\ v # label
    /\ label' = v
    /\ UNCHANGED <<produced, evalQ, workerVars, req, rows, calls, judged, stops, faults>>

-----------------------------------------------------------------------------
(* Eval Worker: Run.                                                       *)

\* Mutant of Dequeue: the job is read and left on the queue
Dequeue_Peek(w) ==
    /\ pc[w] = "idle"
    /\ w \notin stopping
    /\ evalQ # <<>>
    /\ pc' = [pc EXCEPT ![w] = "resolve"]
    /\ job' = [job EXCEPT ![w] = Head(evalQ)]
    /\ attempt' = [attempt EXCEPT ![w] = 0]
    /\ UNCHANGED <<produced, evalQ, label, prompt, verdict, cache, stopping, req, rows, calls, judged, stops, faults>>

Dequeue(w) ==
    /\ pc[w] = "idle"
    /\ w \notin stopping
    /\ evalQ # <<>>
    /\ evalQ' = Tail(evalQ)
    /\ \/ /\ pc' = [pc EXCEPT ![w] = "resolve"]
          /\ job' = [job EXCEPT ![w] = Head(evalQ)]
          /\ attempt' = [attempt EXCEPT ![w] = 0]
          /\ Spend(0)
       \* BLPOP popped the job but its reply was lost
       \/ UNCHANGED <<pc, job, attempt>> /\ Spend(1)
    /\ UNCHANGED <<produced, label, prompt, verdict, cache, stopping, req, rows, calls, judged, stops>>

\* BLPOP timed out on an empty queue
IdlePoll(w) ==
    /\ pc[w] = "idle"
    /\ w \notin stopping
    /\ evalQ = <<>>
    /\ UNCHANGED vars

\* The job is over, scored or dropped
Release(w) ==
    /\ pc' = [pc EXCEPT ![w] = "idle"]
    /\ job' = [job EXCEPT ![w] = NoJob]

\* Mutant of Failed: attempt <= w.retries keeps the last attempt retrying
Failed_OffByOne(w) ==
    \/ attempt[w] <= Retries /\ pc' = [pc EXCEPT ![w] = "backoff"] /\ UNCHANGED job
    \/ attempt[w] > Retries /\ Release(w)

\* evaluateWithRetry: another attempt after the backoff, or the job is dropped
Failed(w) ==
    \/ attempt[w] < Retries /\ pc' = [pc EXCEPT ![w] = "backoff"] /\ UNCHANGED job
    \/ attempt[w] >= Retries /\ Release(w)

\* Mutant of Key: the version is left out of the cache key
Key_WithoutVersion(j) == 0

\* CachingResolver: the cache key holds the version the job asks for
Key(j) == IF j \in Pinned THEN 1 ELSE 0

\* Judge.buildPrompt: the template, from the cache or from the registry
Resolve(w) ==
    /\ pc[w] = "resolve"
    /\ LET k == Key(job[w])
           stored == IF k = 0 THEN label ELSE k IN
        \/ /\ job[w] \notin Unresolvable
           /\ prompt' = [prompt EXCEPT ![w] = IF cache[w][k] # 0 THEN cache[w][k] ELSE stored]
           /\ cache' = [cache EXCEPT ![w][k] = IF @ # 0 THEN @ ELSE stored]
           /\ pc' = [pc EXCEPT ![w] = "chat"]
           /\ UNCHANGED job
           /\ Spend(0)
        \/ /\ job[w] \in Unresolvable
           /\ Failed(w)
           /\ Spend(0)
           /\ UNCHANGED <<prompt, cache>>
        \* the context is checked before every attempt
        \/ w \in stopping /\ Release(w) /\ Spend(0) /\ UNCHANGED <<prompt, cache>>
        \* the registry cannot be read; a cached template needs no read
        \/ /\ cache[w][k] = 0
           /\ Failed(w)
           /\ CallFails(w)
           /\ UNCHANGED <<prompt, cache>>
    /\ UNCHANGED <<produced, evalQ, label, attempt, verdict, stopping, req, rows, calls, judged, stops>>

\* Judge.Evaluate: the chat completion
Chat(w) ==
    /\ pc[w] = "chat"
    /\ calls' = [calls EXCEPT ![job[w]] = @ + 1]
    /\ \/ \E v \in Values :
            /\ verdict' = [verdict EXCEPT ![w] = v]
            /\ judged' = [judged EXCEPT ![job[w]] = [version |-> prompt[w], value |-> v]]
            /\ pc' = [pc EXCEPT ![w] = "post"]
            /\ UNCHANGED job
            /\ Spend(0)
       \/ Failed(w) /\ CallFails(w) /\ UNCHANGED <<verdict, judged>>
    /\ UNCHANGED <<produced, evalQ, label, attempt, prompt, cache, stopping, req, rows, stops>>

\* Mutant of Backoff: the attempt is not counted
Backoff_NotCounted(w) ==
    /\ pc[w] = "backoff"
    /\ \/ w \notin stopping /\ pc' = [pc EXCEPT ![w] = "resolve"] /\ UNCHANGED job
       \/ w \in stopping /\ Release(w)
    /\ UNCHANGED <<produced, evalQ, label, attempt, prompt, verdict, cache, stopping, req, rows, calls, judged, stops,
                   faults>>

\* The backoff ends; a cancelled context ends it, and the loop, at once
Backoff(w) ==
    /\ pc[w] = "backoff"
    /\ \/ /\ w \notin stopping
          /\ attempt' = [attempt EXCEPT ![w] = @ + 1]
          /\ pc' = [pc EXCEPT ![w] = "resolve"]
          /\ UNCHANGED job
       \/ w \in stopping /\ Release(w) /\ UNCHANGED attempt
    /\ UNCHANGED <<produced, evalQ, label, prompt, verdict, cache, stopping, req, rows, calls, judged, stops, faults>>

\* The fields of the body that writeScore marshals, and what ScoreRequest
\* reads of a body: a field that is not there has its zero value
Marshal(v) == [score |-> v]
Decode(body) == IF "value" \in DOMAIN body THEN body["value"] ELSE 0

\* Mutant of Post: a confirmed score is posted again
Post_Again(w) ==
    /\ pc[w] = "post"
    /\ req[job[w]].phase \in {"none", "201"}
    /\ req' = [req EXCEPT ![job[w]] =
                  [phase |-> "sent", body |-> Decode(Marshal(verdict[w])), start |-> "created"]]
    /\ UNCHANGED <<produced, evalQ, label, workerVars, rows, calls, judged, stops, faults>>

\* writeScore: one POST
Post(w) ==
    /\ pc[w] = "post"
    /\ req[job[w]].phase = "none"
    /\ req' = [req EXCEPT ![job[w]] =
                  [phase |-> "sent", body |-> Decode(Marshal(verdict[w])), start |-> "created"]]
    /\ UNCHANGED <<produced, evalQ, label, workerVars, rows, calls, judged, stops, faults>>

\* The answer of the Writer ends the job, whatever it is
PostAnswered(w) ==
    /\ pc[w] = "post"
    /\ req[job[w]].phase \in {"201", "500"}
    /\ Release(w)
    /\ UNCHANGED <<produced, evalQ, label, attempt, prompt, verdict, cache, stopping, req, rows, calls, judged,
                   stops, faults>>

\* The POST fails at the worker: no connection, a timeout or a cancelled
\* context.  A request that reached the Writer is still handled
PostFails(w) ==
    /\ pc[w] = "post"
    /\ req[job[w]].phase \notin {"201", "500"}
    /\ Release(w)
    /\ CallFails(w)
    /\ UNCHANGED <<produced, evalQ, label, attempt, prompt, verdict, cache, stopping, req, rows, calls, judged, stops>>

-----------------------------------------------------------------------------
(* Writer: ScoreMux.HandleScores.                                          *)

\* The span's start_time partitions the score; a failed lookup falls back
LookupSpan(j) ==
    /\ req[j].phase = "sent"
    /\ \/ req' = [req EXCEPT ![j] = [phase |-> "insert", body |-> @.body, start |-> "span"]] /\ Spend(0)
       \/ req' = [req EXCEPT ![j] = [phase |-> "insert", body |-> @.body, start |-> "created"]] /\ Spend(1)
    /\ UNCHANGED <<produced, evalQ, label, workerVars, rows, calls, judged, stops>>

\* lake.InsertScores: it may fail after the row was inserted, and may have
\* retried an insert that had been applied
InsertScore(j) ==
    /\ req[j].phase = "insert"
    /\ LET row == [value |-> req[j].body, start |-> req[j].start]
           Answer(phase) == req' = [req EXCEPT ![j] = [phase |-> phase, body |-> @.body, start |-> @.start]]
       IN  \/ rows' = [rows EXCEPT ![j] = Append(@, row)] /\ Answer("201") /\ Spend(0)
           \/ rows' = [rows EXCEPT ![j] = @ \o <<row, row>>] /\ Answer("201") /\ Spend(1)
           \/ rows' = [rows EXCEPT ![j] = Append(@, row)] /\ Answer("500") /\ Spend(1)
           \/ UNCHANGED rows /\ Answer("500") /\ Spend(1)
    /\ UNCHANGED <<produced, evalQ, label, workerVars, calls, judged, stops>>

-----------------------------------------------------------------------------
(* Life of a replica.                                                      *)

\* The TTL of a cache entry passes
Expire(w, k) ==
    /\ cache[w][k] # 0
    /\ cache' = [cache EXCEPT ![w][k] = 0]
    /\ UNCHANGED <<produced, evalQ, label, pc, job, attempt, prompt, verdict, stopping, req, rows, calls, judged,
                   stops, faults>>

\* SIGTERM cancels the context every call of the worker uses
Stop(w) ==
    /\ w \notin stopping
    /\ stops < MaxStops
    /\ stops' = stops + 1
    /\ stopping' = stopping \cup {w}
    /\ UNCHANGED <<produced, evalQ, label, pc, job, attempt, prompt, verdict, cache, req, rows, calls, judged, faults>>

\* Run returns at the top of its loop
Exit(w) ==
    /\ pc[w] = "idle"
    /\ w \in stopping
    /\ pc' = [pc EXCEPT ![w] = "stopped"]
    /\ UNCHANGED <<produced, evalQ, label, job, attempt, prompt, verdict, cache, stopping, req, rows, calls, judged,
                   stops, faults>>

\* A replica dies with its job
Kill(w) ==
    /\ pc[w] # "stopped"
    /\ pc' = [pc EXCEPT ![w] = "stopped"]
    /\ job' = [job EXCEPT ![w] = NoJob]
    /\ Spend(1)
    /\ UNCHANGED <<produced, evalQ, label, attempt, prompt, verdict, cache, stopping, req, rows, calls, judged, stops>>

\* A new process, with an empty cache
Restart(w) ==
    /\ pc[w] = "stopped"
    /\ pc' = [pc EXCEPT ![w] = "idle"]
    /\ cache' = [cache EXCEPT ![w] = [k \in Keys |-> 0]]
    /\ stopping' = stopping \ {w}
    /\ UNCHANGED <<produced, evalQ, label, job, attempt, prompt, verdict, req, rows, calls, judged, stops, faults>>

WorkerStep(w) ==
    \/ Dequeue(w) \/ IdlePoll(w) \/ Resolve(w) \/ Chat(w) \/ Backoff(w) \/ Post(w) \/ PostAnswered(w) \/ PostFails(w)
    \/ Exit(w) \/ Restart(w)

WriterStep(j) == LookupSpan(j) \/ InsertScore(j)

Next ==
    \/ \E j \in Jobs : EnqueueJob(j) \/ WriterStep(j)
    \/ \E v \in Versions : MoveLabel(v)
    \/ \E w \in EvalWorkers :
        \/ WorkerStep(w) \/ Stop(w) \/ Kill(w)
        \/ \E k \in Keys : Expire(w, k)

Spec == Init /\ [][Next]_vars

\* Workers and the Writer's handlers keep running
Fairness ==
    /\ \A w \in EvalWorkers : WF_vars(WorkerStep(w))
    /\ \A j \in Jobs : WF_vars(WriterStep(j))

FairSpec == Spec /\ Fairness

-----------------------------------------------------------------------------
(* Properties.                                                             *)

(* evaluateWithRetry: whatever fails, restarts or is redelivered, the      *)
(* judge is called at most 1 + retry_count times for a job.                *)
CallsBounded == \A j \in Jobs : calls[j] <= Retries + 1

(* A job that pins a prompt version is judged with that version, although  *)
(* it shares a worker's cache with jobs that follow the label.             *)
PinnedVersionUsed == \A j \in Pinned : judged[j].version \in {0, 1}

(* A job is scored twice only when a call failed: neither retries nor      *)
(* shutdowns repeat a score, because a job is popped once and posted once. *)
ScoredOnce == faults = 0 => \A j \in Jobs : Len(rows[j]) <= 1

(* With nothing failing and no replica stopped, every enqueued job whose   *)
(* prompt resolves gets its score.                                         *)
JobsAreScored ==
    \A j \in Jobs \ Unresolvable :
        j \in produced ~> (rows[j] # <<>> \/ faults > 0 \/ stops > 0)

(* No job blocks a worker: it is scored or given up in a bounded time      *)
(* ("blocking the eval pipeline is not [acceptable]", CONTEXT.md).         *)
WorkersComeBack == \A w \in EvalWorkers : job[w] # NoJob ~> job[w] = NoJob

(* The value in the Lake is the judge's (domain.Score: Value is the        *)
(* score the judge gave the span).                                         *)
ScoreIsVerdict ==
    \A j \in Jobs : \A i \in DOMAIN rows[j] : rows[j][i].value = judged[j].value
=============================================================================
