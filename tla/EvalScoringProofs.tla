------------------------- MODULE EvalScoringProofs -------------------------
(***************************************************************************)
(* Proofs about the Eval Workers and the score endpoint for every set of   *)
(* jobs and replicas, every retry count and every number of failures.      *)
(***************************************************************************)
EXTENDS EvalScoring, SequenceTheorems, TLAPS

Busy == {"resolve", "chat", "backoff", "post"}

(* A job is in one place: not enqueued yet, once on the queue, or with one *)
(* worker.                                                                 *)
OnePlace ==
    /\ \A i, k \in 1..Len(evalQ) : evalQ[i] = evalQ[k] => i = k
    /\ \A i \in 1..Len(evalQ) : evalQ[i] \in produced
    /\ \A w \in EvalWorkers : job[w] # NoJob =>
        /\ job[w] \in produced
        /\ \A i \in 1..Len(evalQ) : evalQ[i] # job[w]
        /\ \A v \in EvalWorkers : job[v] = job[w] => v = w
    /\ \A w \in EvalWorkers : pc[w] \in Busy <=> job[w] # NoJob

(* Judge calls are paid for by attempts: a job that waits has none, and    *)
(* one at a worker has one per attempt made there.                         *)
CallsPaid ==
    /\ CallsBounded
    /\ \A j \in Jobs \ produced : calls[j] = 0
    /\ \A i \in 1..Len(evalQ) : calls[evalQ[i]] = 0
    /\ \A w \in EvalWorkers :
        /\ pc[w] \in {"resolve", "chat"} => calls[job[w]] <= attempt[w]
        /\ pc[w] \in {"backoff", "post"} => calls[job[w]] <= attempt[w] + 1
        /\ pc[w] = "backoff" => attempt[w] < Retries

(* What a worker renders was resolved under the key of its job, and the    *)
(* entry of the pinned version never holds another one.                    *)
PromptOfJob ==
    /\ PinnedVersionUsed
    /\ \A w \in EvalWorkers :
        /\ cache[w][1] \in {0, 1}
        /\ pc[w] = "chat" => prompt[w] \in Versions /\ (job[w] \in Pinned => prompt[w] = 1)

(* Rows appear only with the answer to the one POST of a job. *)
RowsAnswered ==
    \A j \in Jobs :
        /\ req[j].phase \in {"none", "sent", "insert"} => rows[j] = <<>>
        /\ faults = 0 => Len(rows[j]) <= 1

(* The inductive invariant. *)
IInv == TypeOK /\ OnePlace /\ CallsPaid /\ PromptOfJob /\ RowsAnswered

USE ConstantsAssumption

-----------------------------------------------------------------------------
(* Nothing enqueued, nothing cached, nothing scored. *)
LEMMA InitIInv == Init => IInv
  <1> SUFFICES ASSUME Init PROVE IInv
    OBVIOUS
  <1> USE DEF Init
  <1>1. TypeOK
    BY DEF TypeOK, PCs, Versions, Keys, Row, Verdicts, NoVerdict, Request, NoRequest
  <1>2. OnePlace
    BY DEF OnePlace, Busy
  <1>3. CallsPaid
    BY DEF CallsPaid, CallsBounded
  <1>4. PromptOfJob
    BY DEF PromptOfJob, PinnedVersionUsed, NoVerdict, Keys
  <1>5. RowsAnswered
    <2> HIDE DEF Init
    <2>1. \A j \in Jobs : rows[j] = <<>>
      BY DEF Init
    <2>2. Len(<<>>) <= 1
      OBVIOUS
    <2>3. QED  BY <2>1, <2>2, Zenon DEF RowsAnswered
  <1>6. QED  BY <1>1, <1>2, <1>3, <1>4, <1>5 DEF IInv

(* Failures are only ever added. *)
LEMMA SpendAdds ==
    ASSUME faults \in Nat, NEW n \in {0, 1}, Spend(n)
    PROVE  faults' \in Nat /\ faults' = faults + n
  BY DEF Spend

LEMMA CallFailsAdds ==
    ASSUME faults \in Nat, NEW w, CallFails(w)
    PROVE  faults' \in Nat /\ faults' >= faults
  BY DEF CallFails, Spend

(* A worker goes on with its job or gives it up; the queue stays. *)
LEMMA WorkerMoves ==
    ASSUME TypeOK, OnePlace, NEW w \in EvalWorkers, NEW p \in PCs,
           pc' = [pc EXCEPT ![w] = p],
           \/ job' = job /\ (pc[w] \in Busy <=> p \in Busy)
           \/ job' = [job EXCEPT ![w] = NoJob] /\ p \notin Busy,
           UNCHANGED <<produced, evalQ>>
    PROVE  OnePlace'
  BY DEF TypeOK, OnePlace

(* A job that fails is retried or released. *)
LEMMA FailedMoves ==
    ASSUME TypeOK, NEW w \in EvalWorkers, pc[w] \in Busy, Failed(w) \/ Release(w)
    PROVE  \/ /\ attempt[w] < Retries
              /\ pc' = [pc EXCEPT ![w] = "backoff"] /\ job' = job
           \/ /\ pc' = [pc EXCEPT ![w] = "idle"] /\ job' = [job EXCEPT ![w] = NoJob]
  BY DEF Failed, Release

(* What no step of the workers touches, the endpoint's part of the         *)
(* invariant included.                                                     *)
LEMMA RowsKept ==
    ASSUME TypeOK, RowsAnswered, UNCHANGED <<rows, req>>, faults' \in Nat, faults' >= faults
    PROVE  RowsAnswered'
  BY DEF TypeOK, RowsAnswered

-----------------------------------------------------------------------------
LEMMA EnqueueJobIInv ==
    ASSUME IInv, NEW j \in Jobs, EnqueueJob(j)
    PROVE  IInv'
  <1> USE DEF IInv, EnqueueJob, workerVars
  <1>1. faults' \in Nat /\ faults' >= faults
    BY SpendAdds DEF TypeOK
  <1>2. CASE evalQ' = evalQ
    <2>1. TypeOK'
      BY <1>1, <1>2 DEF TypeOK
    <2>2. OnePlace'
      BY <1>2 DEF OnePlace
    <2>3. CallsPaid'
      BY <1>2 DEF CallsPaid, CallsBounded
    <2>4. PromptOfJob'
      BY DEF PromptOfJob, PinnedVersionUsed
    <2>5. RowsAnswered'
      BY <1>1, RowsKept
    <2>6. QED  BY <2>1, <2>2, <2>3, <2>4, <2>5
  <1>3. CASE evalQ' = Append(evalQ, j)
    <2>1. /\ evalQ' \in Seq(Jobs)
          /\ Len(evalQ') = Len(evalQ) + 1
          /\ Len(evalQ) \in Nat
          /\ \A i \in 1..Len(evalQ) : evalQ'[i] = evalQ[i]
          /\ evalQ'[Len(evalQ) + 1] = j
      BY <1>3 DEF TypeOK
    <2>2. TypeOK'
      BY <1>1, <2>1 DEF TypeOK
    <2>3. OnePlace'
      <3>1. \A i \in 1..Len(evalQ) : evalQ[i] # j
        BY DEF OnePlace
      <3>2. \A w \in EvalWorkers : job[w] # j
        BY DEF OnePlace
      <3>3. \A i \in 1..Len(evalQ') : i \in 1..Len(evalQ) \/ i = Len(evalQ) + 1
        BY <2>1
      <3>4. QED  BY <2>1, <3>1, <3>2, <3>3 DEF OnePlace
    <2>4. CallsPaid'
      <3>1. \A i \in 1..Len(evalQ') : i \in 1..Len(evalQ) \/ i = Len(evalQ) + 1
        BY <2>1
      <3>2. QED  BY <2>1, <3>1 DEF CallsPaid, CallsBounded
    <2>5. PromptOfJob'
      BY DEF PromptOfJob, PinnedVersionUsed
    <2>6. RowsAnswered'
      BY <1>1, RowsKept
    <2>7. QED  BY <2>2, <2>3, <2>4, <2>5, <2>6
  <1>4. QED  BY <1>2, <1>3

LEMMA DequeueIInv ==
    ASSUME IInv, NEW w \in EvalWorkers, Dequeue(w)
    PROVE  IInv'
  <1> USE DEF IInv
  <1>1. faults' \in Nat /\ faults' >= faults
    BY SpendAdds DEF Dequeue, TypeOK
  <1>2. /\ evalQ' \in Seq(Jobs)
        /\ Len(evalQ) \in Nat \ {0}
        /\ Len(evalQ') = Len(evalQ) - 1
        /\ \A i \in 1..Len(evalQ') : i + 1 \in 1..Len(evalQ) /\ evalQ'[i] = evalQ[i + 1]
        /\ Head(evalQ) = evalQ[1]
        /\ evalQ[1] \in Jobs
    BY HeadTailProperties DEF Dequeue, TypeOK
  <1>3. \/ UNCHANGED <<pc, job, attempt>>
        \/ /\ pc' = [pc EXCEPT ![w] = "resolve"]
           /\ job' = [job EXCEPT ![w] = evalQ[1]]
           /\ attempt' = [attempt EXCEPT ![w] = 0]
    BY <1>2 DEF Dequeue
  <1>4. pc[w] = "idle" /\ UNCHANGED <<produced, label, prompt, verdict, cache, stopping, req, rows, calls, judged, stops>>
    BY DEF Dequeue
  <1>5. TypeOK'
    <2>1. /\ pc' \in [EvalWorkers -> PCs]
          /\ job' \in [EvalWorkers -> Jobs \cup {NoJob}]
          /\ attempt' \in [EvalWorkers -> 0..Retries]
      <3>1. 0 \in 0..Retries /\ "resolve" \in PCs
        BY DEF PCs
      <3>2. CASE UNCHANGED <<pc, job, attempt>>
        BY <3>2 DEF TypeOK
      <3>3. CASE /\ pc' = [pc EXCEPT ![w] = "resolve"]
                 /\ job' = [job EXCEPT ![w] = evalQ[1]]
                 /\ attempt' = [attempt EXCEPT ![w] = 0]
        BY <1>2, <3>1, <3>3 DEF TypeOK
      <3>4. QED  BY <1>3, <3>2, <3>3
    <2>2. QED  BY <1>1, <1>2, <1>4, <2>1 DEF TypeOK
  <1>6. job[w] = NoJob
    BY <1>4 DEF OnePlace, Busy
  <1>7. OnePlace'
    <2>1. \A i, k \in 1..Len(evalQ') : evalQ'[i] = evalQ'[k] => i = k
      BY <1>2 DEF OnePlace
    <2>2. ASSUME NEW i \in 1..Len(evalQ') PROVE evalQ'[i] \in produced /\ evalQ'[i] # evalQ[1]
      <3>1. 1 \in 1..Len(evalQ) /\ i + 1 # 1 /\ i + 1 \in 1..Len(evalQ) /\ evalQ'[i] = evalQ[i + 1]
        BY <1>2
      <3>2. QED  BY <3>1 DEF OnePlace
    <2>3. \A v \in EvalWorkers : job[v] # evalQ[1]
      BY <1>2 DEF OnePlace
    <2>4. CASE UNCHANGED <<pc, job, attempt>>
      BY <1>2, <1>4, <2>1, <2>2, <2>4 DEF OnePlace
    <2>5. CASE pc' = [pc EXCEPT ![w] = "resolve"] /\ job' = [job EXCEPT ![w] = evalQ[1]]
      <3>1. \A v \in EvalWorkers : /\ job'[v] = IF v = w THEN evalQ[1] ELSE job[v]
                                   /\ pc'[v] = IF v = w THEN "resolve" ELSE pc[v]
        BY <2>5 DEF TypeOK
      <3>2. evalQ[1] # NoJob /\ evalQ[1] \in produced
        BY <1>2 DEF OnePlace
      <3>3. \A v \in EvalWorkers : pc'[v] \in Busy <=> job'[v] # NoJob
        BY <3>1, <3>2 DEF OnePlace, Busy
      <3>4. \A v \in EvalWorkers : \A i \in 1..Len(evalQ') : job'[v] # NoJob => evalQ'[i] # job'[v]
        BY <1>2, <2>2, <3>1 DEF OnePlace
      <3>5. \A v, u \in EvalWorkers : job'[v] # NoJob /\ job'[u] = job'[v] => u = v
        BY <2>3, <3>1 DEF OnePlace
      <3>6. \A v \in EvalWorkers : job'[v] # NoJob => job'[v] \in produced'
        BY <1>4, <3>1, <3>2 DEF OnePlace
      <3>7. QED  BY <1>4, <2>1, <2>2, <3>3, <3>4, <3>5, <3>6 DEF OnePlace
    <2>6. QED  BY <1>3, <2>4, <2>5
  <1>8. CallsPaid'
    <2>1. \A i \in 1..Len(evalQ') : calls'[evalQ'[i]] = 0
      BY <1>2, <1>4 DEF CallsPaid
    <2>2. CASE UNCHANGED <<pc, job, attempt>>
      BY <1>4, <2>1, <2>2 DEF CallsPaid, CallsBounded
    <2>3. CASE /\ pc' = [pc EXCEPT ![w] = "resolve"]
               /\ job' = [job EXCEPT ![w] = evalQ[1]]
               /\ attempt' = [attempt EXCEPT ![w] = 0]
      <3>1. \A v \in EvalWorkers : /\ job'[v] = IF v = w THEN evalQ[1] ELSE job[v]
                                   /\ pc'[v] = IF v = w THEN "resolve" ELSE pc[v]
                                   /\ attempt'[v] = IF v = w THEN 0 ELSE attempt[v]
        BY <2>3 DEF TypeOK
      <3>2. calls[evalQ[1]] = 0
        BY <1>2 DEF CallsPaid
      <3>3. QED  BY <1>4, <2>1, <3>1, <3>2 DEF CallsPaid, CallsBounded
    <2>4. QED  BY <1>3, <2>2, <2>3
  <1>9. PromptOfJob'
    BY <1>3, <1>4 DEF PromptOfJob, PinnedVersionUsed, TypeOK
  <1>10. RowsAnswered'
    BY <1>1, <1>4, RowsKept
  <1>11. QED  BY <1>5, <1>7, <1>8, <1>9, <1>10

(* The prompt that Resolve chooses: the cached or the stored version. *)
LEMMA ResolveIInv ==
    ASSUME IInv, NEW w \in EvalWorkers, Resolve(w)
    PROVE  IInv'
  <1> USE DEF IInv
  <1> DEFINE k == Key(job[w])
             stored == IF k = 0 THEN label ELSE k
             chosen == IF cache[w][k] # 0 THEN cache[w][k] ELSE stored
  <1>1. pc[w] = "resolve" /\ pc[w] \in Busy
        /\ UNCHANGED <<produced, evalQ, label, attempt, verdict, stopping, req, rows, calls, judged, stops>>
    BY DEF Resolve, Busy
  <1>2. faults' \in Nat /\ faults' >= faults
    BY SpendAdds, CallFailsAdds DEF Resolve, TypeOK
  <1>3. job[w] \in Jobs
    BY <1>1 DEF OnePlace, TypeOK
  <1>4. k \in Keys /\ (job[w] \in Pinned <=> k = 1)
    BY DEF Key, Keys
  <1>5. cache[w] \in [Keys -> 0..MaxVersion] /\ label \in 1..MaxVersion
    BY DEF TypeOK, Versions
  <1>6. stored \in Versions /\ (k = 1 => stored = 1)
    BY <1>4, <1>5 DEF Versions, Keys
  <1>7. chosen \in Versions /\ (k = 1 => chosen = 1)
    BY <1>4, <1>5, <1>6 DEF PromptOfJob, Versions, Keys
  <1>8. RowsAnswered'
    BY <1>1, <1>2, RowsKept
  <1>9. CASE /\ prompt' = [prompt EXCEPT ![w] = chosen]
             /\ cache' = [cache EXCEPT ![w][k] = chosen]
             /\ pc' = [pc EXCEPT ![w] = "chat"]
             /\ job' = job
    <2>1. cache' = [cache EXCEPT ![w] = [cache[w] EXCEPT ![k] = chosen]]
      BY <1>9
    <2>2. [cache[w] EXCEPT ![k] = chosen] \in [Keys -> 0..MaxVersion]
      BY <1>4, <1>5, <1>7 DEF Versions
    <2>3. TypeOK'
      <3>1. prompt' \in [EvalWorkers -> 0..MaxVersion] /\ pc' \in [EvalWorkers -> PCs]
        BY <1>7, <1>9 DEF TypeOK, PCs, Versions
      <3>2. cache' \in [EvalWorkers -> [Keys -> 0..MaxVersion]]
        BY <2>1, <2>2 DEF TypeOK
      <3>3. QED  BY <1>1, <1>2, <1>9, <3>1, <3>2 DEF TypeOK
    <2>4. OnePlace'
      BY <1>1, <1>9, WorkerMoves DEF Busy, PCs
    <2>5. CallsPaid'
      BY <1>1, <1>9 DEF CallsPaid, CallsBounded, TypeOK
    <2>6. PromptOfJob'
      <3>1. \A v \in EvalWorkers : cache'[v][1] \in {0, 1}
        BY <1>4, <1>5, <1>7, <2>1 DEF PromptOfJob, TypeOK, Keys
      <3>2. \A v \in EvalWorkers : pc'[v] = "chat" =>
               prompt'[v] \in Versions /\ (job'[v] \in Pinned => prompt'[v] = 1)
        BY <1>4, <1>7, <1>9 DEF PromptOfJob, TypeOK
      <3>3. QED  BY <1>1, <3>1, <3>2 DEF PromptOfJob, PinnedVersionUsed
    <2>7. QED  BY <1>8, <2>3, <2>4, <2>5, <2>6
  <1>10. CASE (Failed(w) \/ Release(w)) /\ UNCHANGED <<prompt, cache>>
    <2>1. \/ attempt[w] < Retries /\ pc' = [pc EXCEPT ![w] = "backoff"] /\ job' = job
          \/ pc' = [pc EXCEPT ![w] = "idle"] /\ job' = [job EXCEPT ![w] = NoJob]
      BY <1>1, <1>10, FailedMoves
    <2>2. TypeOK'
      <3>1. pc' \in [EvalWorkers -> PCs] /\ job' \in [EvalWorkers -> Jobs \cup {NoJob}]
        BY <2>1 DEF TypeOK, PCs
      <3>2. QED  BY <1>1, <1>2, <1>10, <3>1 DEF TypeOK
    <2>3. OnePlace'
      BY <1>1, <2>1, WorkerMoves DEF Busy, PCs
    <2>4. CallsPaid'
      <3>1. CASE attempt[w] < Retries /\ pc' = [pc EXCEPT ![w] = "backoff"] /\ job' = job
        BY <1>1, <1>3, <3>1 DEF CallsPaid, CallsBounded, TypeOK
      <3>2. CASE pc' = [pc EXCEPT ![w] = "idle"] /\ job' = [job EXCEPT ![w] = NoJob]
        BY <1>1, <1>3, <3>2 DEF CallsPaid, CallsBounded, TypeOK
      <3>3. QED  BY <2>1, <3>1, <3>2
    <2>5. PromptOfJob'
      <3>1. \A v \in EvalWorkers : pc'[v] = "chat" => v # w /\ pc[v] = "chat" /\ job'[v] = job[v]
        BY <2>1 DEF TypeOK
      <3>2. UNCHANGED <<prompt, cache, judged>>
        BY <1>1, <1>10
      <3>3. QED  BY <3>1, <3>2 DEF PromptOfJob, PinnedVersionUsed
    <2>6. QED  BY <1>8, <2>2, <2>3, <2>4, <2>5
  <1>11. \/ /\ prompt' = [prompt EXCEPT ![w] = chosen]
            /\ cache' = [cache EXCEPT ![w][k] = chosen]
            /\ pc' = [pc EXCEPT ![w] = "chat"]
            /\ job' = job
         \/ (Failed(w) \/ Release(w)) /\ UNCHANGED <<prompt, cache>>
    BY DEF Resolve
  <1>12. QED  BY <1>9, <1>10, <1>11

(* An attempt calls the judge once, and only attempts do. *)
LEMMA ChatIInv ==
    ASSUME IInv, NEW w \in EvalWorkers, Chat(w)
    PROVE  IInv'
  <1> USE DEF IInv
  <1>1. pc[w] = "chat" /\ pc[w] \in Busy
        /\ UNCHANGED <<produced, evalQ, label, attempt, prompt, cache, stopping, req, rows, stops>>
    BY DEF Chat, Busy
  <1>2. faults' \in Nat /\ faults' >= faults
    BY SpendAdds, CallFailsAdds DEF Chat, TypeOK
  <1>3. job[w] \in Jobs /\ job[w] \in produced
        /\ \A v \in EvalWorkers : job[v] = job[w] => v = w
        /\ \A i \in 1..Len(evalQ) : evalQ[i] # job[w]
    BY <1>1 DEF OnePlace, TypeOK
  <1>4. /\ calls' \in [Jobs -> Nat]
        /\ \A j \in Jobs : calls'[j] = IF j = job[w] THEN calls[j] + 1 ELSE calls[j]
        /\ calls'[job[w]] <= attempt[w] + 1
        /\ attempt[w] \in 0..Retries
    BY <1>1, <1>3 DEF Chat, TypeOK, CallsPaid
  <1>5. /\ CallsBounded'
        /\ \A j \in Jobs \ produced' : calls'[j] = 0
        /\ \A i \in 1..Len(evalQ') : calls'[evalQ'[i]] = 0
    <2>1. \A i \in 1..Len(evalQ) : evalQ[i] \in Jobs
      BY ElementOfSeq DEF TypeOK
    <2>2. \A j \in Jobs : calls'[j] <= Retries + 1
      <3>1. \A j \in Jobs : j # job[w] => calls'[j] <= Retries + 1
        BY <1>4 DEF CallsPaid, CallsBounded
      <3>2. attempt[w] + 1 <= Retries + 1 /\ calls'[job[w]] \in Nat
        BY <1>3, <1>4
      <3>3. calls'[job[w]] <= Retries + 1
        BY <1>4, <3>2
      <3>4. QED  BY <3>1, <3>3
    <2>3. \A j \in Jobs \ produced' : calls'[j] = 0
      BY <1>1, <1>3, <1>4 DEF CallsPaid
    <2>4. \A i \in 1..Len(evalQ') : calls'[evalQ'[i]] = 0
      BY <1>1, <1>3, <1>4, <2>1 DEF CallsPaid
    <2>5. QED  BY <2>2, <2>3, <2>4 DEF CallsBounded
  <1>6. \A v \in EvalWorkers : v # w /\ pc[v] \in Busy => calls'[job[v]] = calls[job[v]]
    BY <1>3, <1>4 DEF OnePlace, TypeOK
  <1>7. \/ /\ \E x \in Values :
                /\ verdict' = [verdict EXCEPT ![w] = x]
                /\ judged' = [judged EXCEPT ![job[w]] = [version |-> prompt[w], value |-> x]]
           /\ pc' = [pc EXCEPT ![w] = "post"] /\ job' = job
        \/ /\ UNCHANGED <<verdict, judged>>
           /\ \/ attempt[w] < Retries /\ pc' = [pc EXCEPT ![w] = "backoff"] /\ job' = job
              \/ pc' = [pc EXCEPT ![w] = "idle"] /\ job' = [job EXCEPT ![w] = NoJob]
    BY <1>1, FailedMoves DEF Chat
  <1>8. /\ verdict' \in [EvalWorkers -> Nat]
        /\ judged' \in [Jobs -> Verdicts \cup {NoVerdict}]
        /\ PinnedVersionUsed'
    <2>1. CASE UNCHANGED <<verdict, judged>>
      BY <2>1 DEF TypeOK, PromptOfJob, PinnedVersionUsed
    <2>2. ASSUME NEW x \in Values,
                 verdict' = [verdict EXCEPT ![w] = x],
                 judged' = [judged EXCEPT ![job[w]] = [version |-> prompt[w], value |-> x]]
          PROVE  /\ verdict' \in [EvalWorkers -> Nat]
                 /\ judged' \in [Jobs -> Verdicts \cup {NoVerdict}]
                 /\ PinnedVersionUsed'
      <3>1. x \in Nat /\ prompt[w] \in Versions /\ (job[w] \in Pinned => prompt[w] = 1)
        BY <1>1 DEF PromptOfJob
      <3>2. [version |-> prompt[w], value |-> x] \in Verdicts
        BY <3>1 DEF Verdicts
      <3>3. \A j \in Jobs : judged'[j] = IF j = job[w] THEN [version |-> prompt[w], value |-> x] ELSE judged[j]
        BY <2>2 DEF TypeOK
      <3>4. PinnedVersionUsed'
        BY <3>1, <3>3 DEF PromptOfJob, PinnedVersionUsed
      <3>5. QED  BY <2>2, <3>1, <3>2, <3>4 DEF TypeOK
    <2>3. QED  BY <1>7, <2>1, <2>2
  <1>9. TypeOK'
    <2>1. pc' \in [EvalWorkers -> PCs] /\ job' \in [EvalWorkers -> Jobs \cup {NoJob}]
      BY <1>7 DEF TypeOK, PCs
    <2>2. QED  BY <1>1, <1>2, <1>4, <1>8, <2>1 DEF TypeOK
  <1>10. OnePlace'
    BY <1>1, <1>7, WorkerMoves DEF Busy, PCs
  <1>11. CallsPaid'
    <2>1. \A v \in EvalWorkers : v # w => pc'[v] = pc[v] /\ job'[v] = job[v] /\ attempt'[v] = attempt[v]
      BY <1>1, <1>7 DEF TypeOK
    <2>2. /\ pc'[w] \in {"post", "backoff", "idle"}
          /\ pc'[w] \in {"post", "backoff"} => job'[w] = job[w]
          /\ pc'[w] = "backoff" => attempt'[w] < Retries
      BY <1>1, <1>7 DEF TypeOK
    <2>3. \A v \in EvalWorkers :
            /\ pc'[v] \in {"resolve", "chat"} => calls'[job'[v]] <= attempt'[v]
            /\ pc'[v] \in {"backoff", "post"} => calls'[job'[v]] <= attempt'[v] + 1
            /\ pc'[v] = "backoff" => attempt'[v] < Retries
      BY <1>1, <1>4, <1>6, <2>1, <2>2 DEF CallsPaid, Busy
    <2>4. QED  BY <1>5, <2>3 DEF CallsPaid
  <1>12. PromptOfJob'
    BY <1>1, <1>7, <1>8 DEF PromptOfJob, TypeOK
  <1>13. QED  BY <1>1, <1>2, <1>9, <1>10, <1>11, <1>12, RowsKept

(* The end of a backoff starts the next attempt, or the job is given up. *)
LEMMA BackoffIInv ==
    ASSUME IInv, NEW w \in EvalWorkers, Backoff(w)
    PROVE  IInv'
  <1> USE DEF IInv
  <1>1. pc[w] = "backoff" /\ pc[w] \in Busy
        /\ UNCHANGED <<produced, evalQ, label, prompt, verdict, cache, stopping, req, rows, calls, judged, stops, faults>>
    BY DEF Backoff, Busy
  <1>2. \/ /\ attempt' = [attempt EXCEPT ![w] = attempt[w] + 1]
           /\ pc' = [pc EXCEPT ![w] = "resolve"] /\ job' = job
        \/ /\ attempt' = attempt
           /\ pc' = [pc EXCEPT ![w] = "idle"] /\ job' = [job EXCEPT ![w] = NoJob]
    BY DEF Backoff, Release
  <1>3. attempt[w] + 1 \in 0..Retries
    BY <1>1 DEF CallsPaid, TypeOK
  <1>4. TypeOK'
    <2>1. /\ pc' \in [EvalWorkers -> PCs]
          /\ job' \in [EvalWorkers -> Jobs \cup {NoJob}]
      BY <1>2 DEF TypeOK, PCs
    <2>2. attempt' \in [EvalWorkers -> 0..Retries]
      BY <1>2, <1>3 DEF TypeOK
    <2>3. QED  BY <1>1, <2>1, <2>2 DEF TypeOK
  <1>5. OnePlace'
    BY <1>1, <1>2, WorkerMoves DEF Busy, PCs
  <1>6. CallsPaid'
    <2>1. \A v \in EvalWorkers : v # w => pc'[v] = pc[v] /\ job'[v] = job[v] /\ attempt'[v] = attempt[v]
      BY <1>2 DEF TypeOK
    <2>2. \/ pc'[w] = "idle"
          \/ pc'[w] = "resolve" /\ job'[w] = job[w] /\ attempt'[w] = attempt[w] + 1
      BY <1>2 DEF TypeOK
    <2>3. QED  BY <1>1, <2>1, <2>2 DEF CallsPaid, CallsBounded
  <1>7. PromptOfJob'
    BY <1>1, <1>2 DEF PromptOfJob, PinnedVersionUsed, TypeOK
  <1>8. QED  BY <1>1, <1>4, <1>5, <1>6, <1>7, RowsKept DEF TypeOK

(* A worker that is done with its job, or dies with it. *)
LEMMA ReleaseIInv ==
    ASSUME IInv, NEW w \in EvalWorkers, NEW p \in {"idle", "stopped"},
           pc' = [pc EXCEPT ![w] = p],
           job' = [job EXCEPT ![w] = NoJob],
           faults' \in Nat, faults' >= faults,
           UNCHANGED <<produced, evalQ, label, attempt, prompt, verdict, cache, stopping, req, rows, calls, judged, stops>>
    PROVE  IInv'
  <1> USE DEF IInv
  <1>1. TypeOK'
    <2>1. pc' \in [EvalWorkers -> PCs] /\ job' \in [EvalWorkers -> Jobs \cup {NoJob}]
      BY DEF TypeOK, PCs
    <2>2. QED  BY <2>1 DEF TypeOK
  <1>2. OnePlace'
    BY WorkerMoves DEF Busy, PCs
  <1>3. CallsPaid'
    BY DEF CallsPaid, CallsBounded, TypeOK
  <1>4. PromptOfJob'
    BY DEF PromptOfJob, PinnedVersionUsed, TypeOK
  <1>5. QED  BY <1>1, <1>2, <1>3, <1>4, RowsKept

(* A worker leaves its loop or enters it, without a job. *)
LEMMA LifeIInv ==
    ASSUME IInv, NEW w \in EvalWorkers, Exit(w) \/ Restart(w)
    PROVE  IInv'
  <1> USE DEF IInv
  <1>1. /\ pc[w] \in {"idle", "stopped"}
        /\ job' = job
        /\ \E p \in {"idle", "stopped"} : pc' = [pc EXCEPT ![w] = p]
        /\ \/ cache' = cache
           \/ cache' = [cache EXCEPT ![w] = [k \in Keys |-> 0]]
        /\ stopping' \in SUBSET EvalWorkers
        /\ UNCHANGED <<produced, evalQ, label, attempt, prompt, verdict, req, rows, calls, judged, stops, faults>>
    BY DEF Exit, Restart, TypeOK
  <1>2. cache' \in [EvalWorkers -> [Keys -> 0..MaxVersion]]
        /\ \A v \in EvalWorkers : cache'[v][1] \in {0, 1}
    <2>1. [k \in Keys |-> 0] \in [Keys -> 0..MaxVersion] /\ [k \in Keys |-> 0][1] = 0
      BY DEF Keys
    <2>2. QED  BY <1>1, <2>1 DEF TypeOK, PromptOfJob
  <1>3. TypeOK'
    <2>1. pc' \in [EvalWorkers -> PCs]
      BY <1>1 DEF TypeOK, PCs
    <2>2. QED  BY <1>1, <1>2, <2>1 DEF TypeOK
  <1>4. OnePlace'
    BY <1>1, WorkerMoves DEF Busy, PCs
  <1>5. CallsPaid'
    BY <1>1 DEF CallsPaid, CallsBounded, TypeOK
  <1>6. PromptOfJob'
    BY <1>1, <1>2 DEF PromptOfJob, PinnedVersionUsed, TypeOK
  <1>7. QED  BY <1>1, <1>3, <1>4, <1>5, <1>6, RowsKept DEF TypeOK

LEMMA ExpireIInv ==
    ASSUME IInv, NEW w \in EvalWorkers, NEW k \in Keys, Expire(w, k)
    PROVE  IInv'
  <1> USE DEF IInv, Expire
  <1>1. cache' = [cache EXCEPT ![w] = [cache[w] EXCEPT ![k] = 0]]
    OBVIOUS
  <1>2. /\ [cache[w] EXCEPT ![k] = 0] \in [Keys -> 0..MaxVersion]
        /\ [cache[w] EXCEPT ![k] = 0][1] \in {0, 1}
    <2>1. cache[w] \in [Keys -> 0..MaxVersion] /\ cache[w][1] \in {0, 1} /\ 1 \in Keys /\ 0 \in 0..MaxVersion
      BY DEF TypeOK, PromptOfJob, Keys
    <2>2. QED  BY <2>1
  <1>3. /\ cache' \in [EvalWorkers -> [Keys -> 0..MaxVersion]]
        /\ \A v \in EvalWorkers : cache'[v][1] \in {0, 1}
    BY <1>1, <1>2 DEF TypeOK, PromptOfJob
  <1>4. TypeOK'
    BY <1>3 DEF TypeOK
  <1>5. OnePlace' /\ CallsPaid' /\ RowsAnswered'
    BY DEF OnePlace, CallsPaid, CallsBounded, RowsAnswered
  <1>6. PromptOfJob'
    BY <1>3 DEF PromptOfJob, PinnedVersionUsed
  <1>7. QED  BY <1>4, <1>5, <1>6

-----------------------------------------------------------------------------
(* The score endpoint.                                                     *)

(* The invariant but for the rows depends on nothing that the endpoint     *)
(* writes.                                                                 *)
LEMMA EndpointSteps ==
    ASSUME IInv, req' \in [Jobs -> Request], rows' \in [Jobs -> Seq(Row)], faults' \in Nat,
           UNCHANGED <<produced, evalQ, label, workerVars, calls, judged, stops>>,
           RowsAnswered'
    PROVE  IInv'
  <1> USE DEF IInv, workerVars
  <1>1. TypeOK'
    BY DEF TypeOK
  <1>2. OnePlace' /\ CallsPaid'
    BY DEF OnePlace, CallsPaid, CallsBounded
  <1>3. PromptOfJob'
    BY DEF PromptOfJob, PinnedVersionUsed
  <1>4. QED  BY <1>1, <1>2, <1>3

(* The worker's POST reaches the endpoint. *)
LEMMA PostIInv ==
    ASSUME IInv, NEW w \in EvalWorkers, Post(w)
    PROVE  IInv'
  <1> USE DEF IInv
  <1> DEFINE sent == [phase |-> "sent", body |-> Decode(Marshal(verdict[w])), start |-> "created"]
  <1>1. job[w] \in Jobs
    BY DEF Post, OnePlace, Busy, TypeOK
  <1>2. Decode(Marshal(verdict[w])) \in Nat
    <2>1. DOMAIN Marshal(verdict[w]) = {"score"}
      BY DEF Marshal
    <2>2. QED  BY <2>1 DEF Decode
  <1>3. sent \in Request
    BY <1>2 DEF Request
  <1>4. /\ req[job[w]].phase = "none"
        /\ req' = [req EXCEPT ![job[w]] = sent]
        /\ UNCHANGED <<produced, evalQ, label, workerVars, rows, calls, judged, stops, faults>>
    BY DEF Post
  <1>5. req' \in [Jobs -> Request]
    BY <1>3, <1>4 DEF TypeOK
  <1>6. RowsAnswered'
    BY <1>1, <1>4 DEF RowsAnswered, TypeOK
  <1>7. QED  BY <1>4, <1>5, <1>6, EndpointSteps DEF TypeOK

LEMMA LookupSpanIInv ==
    ASSUME IInv, NEW j \in Jobs, LookupSpan(j)
    PROVE  IInv'
  <1> USE DEF IInv
  <1>1. faults' \in Nat /\ faults' >= faults
    BY SpendAdds DEF LookupSpan, TypeOK
  <1>2. PICK st \in {"span", "created"} :
          req' = [req EXCEPT ![j] = [phase |-> "insert", body |-> req[j].body, start |-> st]]
    BY DEF LookupSpan
  <1>3. /\ req[j].phase = "sent"
        /\ UNCHANGED <<produced, evalQ, label, workerVars, rows, calls, judged, stops>>
    BY DEF LookupSpan
  <1>4. req[j] \in Request
    BY DEF TypeOK
  <1>5. req' \in [Jobs -> Request]
    BY <1>2, <1>4 DEF TypeOK, Request
  <1>6. RowsAnswered'
    BY <1>1, <1>2, <1>3 DEF RowsAnswered, TypeOK
  <1>7. QED  BY <1>1, <1>3, <1>5, <1>6, EndpointSteps DEF TypeOK

(* Two rows are inserted only by a call that failed. *)
LEMMA InsertScoreIInv ==
    ASSUME IInv, NEW j \in Jobs, InsertScore(j)
    PROVE  IInv'
  <1> USE DEF IInv
  <1> DEFINE row == [value |-> req[j].body, start |-> req[j].start]
  <1>1. /\ req[j].phase = "insert"
        /\ \E phase \in {"201", "500"} :
             req' = [req EXCEPT ![j] = [phase |-> phase, body |-> req[j].body, start |-> req[j].start]]
        /\ UNCHANGED <<produced, evalQ, label, workerVars, calls, judged, stops>>
    BY DEF InsertScore
  <1>2. req[j] \in Request /\ row \in Row
    BY DEF TypeOK, Request, Row
  <1>3. req' \in [Jobs -> Request]
    BY <1>1, <1>2 DEF TypeOK, Request
  <1>4. rows[j] = <<>> /\ rows \in [Jobs -> Seq(Row)]
    BY <1>1 DEF RowsAnswered, TypeOK
  <1>5. /\ faults' \in Nat
        /\ \/ rows' = [rows EXCEPT ![j] = Append(rows[j], row)] /\ faults' >= faults
           \/ rows' = [rows EXCEPT ![j] = rows[j] \o <<row, row>>] /\ faults' = faults + 1
           \/ rows' = rows /\ faults' = faults + 1
    <2>1. faults \in Nat /\ (Spend(0) => faults' = faults) /\ (Spend(1) => faults' = faults + 1)
      BY DEF Spend, TypeOK
    <2>2. \/ rows' = [rows EXCEPT ![j] = Append(rows[j], row)] /\ (Spend(0) \/ Spend(1))
          \/ rows' = [rows EXCEPT ![j] = rows[j] \o <<row, row>>] /\ Spend(1)
          \/ rows' = rows /\ Spend(1)
      BY DEF InsertScore
    <2>3. QED  BY <2>1, <2>2
  <1>6. /\ Append(rows[j], row) \in Seq(Row) /\ Len(Append(rows[j], row)) = 1
        /\ rows[j] \o <<row, row>> \in Seq(Row)
    <2>1. <<row, row>> \in Seq(Row) /\ rows[j] \in Seq(Row) /\ Len(rows[j]) = 0
      BY <1>2, <1>4
    <2>2. QED  BY <1>2, <2>1
  <1>7. rows' \in [Jobs -> Seq(Row)]
    BY <1>4, <1>5, <1>6
  <1>8. \A i \in Jobs : i # j => rows'[i] = rows[i] /\ req'[i] = req[i]
    BY <1>1, <1>4, <1>5 DEF TypeOK
  <1>9. req'[j].phase \in {"201", "500"} /\ (faults' = 0 => Len(rows'[j]) <= 1)
    <2>1. faults' = 0 => rows'[j] = Append(rows[j], row)
      BY <1>4, <1>5 DEF TypeOK
    <2>2. QED  BY <1>1, <1>6, <2>1 DEF TypeOK
  <1>10. faults' = 0 => faults = 0
    BY <1>5 DEF TypeOK
  <1>11. RowsAnswered'
    BY <1>8, <1>9, <1>10 DEF RowsAnswered
  <1>12. QED  BY <1>1, <1>3, <1>5, <1>7, <1>11, EndpointSteps

-----------------------------------------------------------------------------
(* Every step keeps the invariant. *)
LEMMA NextIInv == IInv /\ [Next]_vars => IInv'
  <1> SUFFICES ASSUME IInv, [Next]_vars PROVE IInv'
    OBVIOUS
  <1>1. TypeOK
    BY DEF IInv
  <1>2. ASSUME NEW v \in Versions, MoveLabel(v) PROVE IInv'
    <2> USE <1>2 DEF MoveLabel, workerVars
    <2>1. TypeOK'
      BY <1>1 DEF TypeOK
    <2>2. OnePlace' /\ CallsPaid' /\ PromptOfJob' /\ RowsAnswered'
      BY DEF IInv, OnePlace, CallsPaid, CallsBounded, PromptOfJob, PinnedVersionUsed, RowsAnswered
    <2>3. QED  BY <2>1, <2>2 DEF IInv
  <1>3. ASSUME NEW w \in EvalWorkers, Stop(w) PROVE IInv'
    <2> USE <1>3 DEF Stop
    <2>1. TypeOK'
      BY <1>1 DEF TypeOK
    <2>2. OnePlace' /\ CallsPaid' /\ PromptOfJob' /\ RowsAnswered'
      BY DEF IInv, OnePlace, CallsPaid, CallsBounded, PromptOfJob, PinnedVersionUsed, RowsAnswered
    <2>3. QED  BY <2>1, <2>2 DEF IInv
  <1>4. CASE UNCHANGED vars
    BY <1>4 DEF vars, workerVars, IInv, TypeOK, OnePlace, CallsPaid, CallsBounded, PromptOfJob,
                PinnedVersionUsed, RowsAnswered
  <1>5. ASSUME NEW w \in EvalWorkers, PostAnswered(w) PROVE IInv'
    <2>1. faults' = faults /\ faults \in Nat /\ faults' >= faults
      BY <1>1, <1>5 DEF PostAnswered, TypeOK
    <2>2. QED  BY <1>5, <2>1, ReleaseIInv DEF PostAnswered, Release
  <1>6. ASSUME NEW w \in EvalWorkers, PostFails(w) PROVE IInv'
    <2>1. faults' \in Nat /\ faults' >= faults
      BY <1>1, <1>6, CallFailsAdds DEF PostFails, TypeOK
    <2>2. QED  BY <1>6, <2>1, ReleaseIInv DEF PostFails, Release
  <1>7. ASSUME NEW w \in EvalWorkers, Kill(w) PROVE IInv'
    <2>1. faults' \in Nat /\ faults' >= faults
      BY <1>1, <1>7, SpendAdds DEF Kill, TypeOK
    <2>2. QED  BY <1>7, <2>1, ReleaseIInv DEF Kill
  <1>8. QED
    BY <1>2, <1>3, <1>4, <1>5, <1>6, <1>7, EnqueueJobIInv, DequeueIInv, ResolveIInv, ChatIInv, BackoffIInv,
       PostIInv, LookupSpanIInv, InsertScoreIInv, ExpireIInv, LifeIInv
       DEF Next, WorkerStep, WriterStep, IdlePoll

(* The invariant holds in every behaviour of the evaluation pipeline. *)
THEOREM Invariance == Spec => []IInv
  BY InitIInv, NextIInv, PTL DEF Spec

(* A job costs at most 1 + retry_count judge calls, whatever fails and     *)
(* however many replicas are stopped, killed and restarted.                *)
THEOREM CallsBoundedTheorem == Spec => []CallsBounded
  <1>1. IInv => CallsBounded
    BY DEF IInv, CallsPaid
  <1>2. QED  BY Invariance, <1>1, PTL

(* A pinned job is never judged with the version that the label names,     *)
(* although both kinds of jobs share the cache of a replica.               *)
THEOREM PinnedVersionTheorem == Spec => []PinnedVersionUsed
  <1>1. IInv => PinnedVersionUsed
    BY DEF IInv, PromptOfJob
  <1>2. QED  BY Invariance, <1>1, PTL

(* Without a failed call no job has two scores. *)
THEOREM ScoredOnceTheorem == Spec => []ScoredOnce
  <1>1. IInv => ScoredOnce
    BY DEF IInv, RowsAnswered, ScoredOnce
  <1>2. QED  BY Invariance, <1>1, PTL
=============================================================================
