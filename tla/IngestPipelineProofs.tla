----------------------- MODULE IngestPipelineProofs -----------------------
(***************************************************************************)
(* TLAPS proofs about IngestPipeline, for every set of batches, payloads   *)
(* and replicas, every window size and every number of faults.             *)
(***************************************************************************)
EXTENDS IngestPipeline, TLAPS

(* Pushing an entry adds that entry and moves no other. *)
LEMMA AppendFacts ==
    ASSUME NEW S, NEW s \in Seq(S), NEW e \in S
    PROVE  /\ Append(s, e) \in Seq(S)
           /\ Len(Append(s, e)) = Len(s) + 1
           /\ \A i \in DOMAIN Append(s, e) :
                  Append(s, e)[i] = e \/ (i \in DOMAIN s /\ Append(s, e)[i] = s[i])
           /\ \E i \in DOMAIN Append(s, e) : Append(s, e)[i] = e
  OBVIOUS

(* Popping the oldest entry leaves only entries that were there. *)
LEMMA TailFacts ==
    ASSUME NEW S, NEW s \in Seq(S), s # <<>>
    PROVE  /\ Tail(s) \in Seq(S)
           /\ Head(s) \in S
           /\ 1 \in DOMAIN s /\ Head(s) = s[1]
           /\ \A i \in DOMAIN Tail(s) : i + 1 \in DOMAIN s /\ Tail(s)[i] = s[i + 1]
  OBVIOUS

LEMMA InitInv == Init => IInv
  <1> SUFFICES ASSUME Init PROVE IInv
    OBVIOUS
  <1> USE DEF Init, IdleSweep
  <1>1. TypeOK
    BY ConstantsAssumption DEF TypeOK, Outcomes, PCs, Sweeps
  <1>2. LoopsInRange /\ RequestsRecoverable /\ RefsRecoverable
    BY ConstantsAssumption DEF LoopsInRange, RequestsRecoverable, RefsRecoverable, Entries
  <1>3. WindowStored /\ LedgerSound /\ DeletesCommitted /\ JobsFollowRows
    BY DEF WindowStored, LedgerSound, DeletesCommitted, JobsFollowRows
  <1> QED
    BY <1>1, <1>2, <1>3 DEF IInv

-----------------------------------------------------------------------------
(* What the helper steps leave on the two Redis lists.                     *)

\* The queue after a step holds what it held before and possibly e
QueueOnlyGains(e) ==
    \A i \in DOMAIN queue' : queue'[i] = e \/ \E j \in DOMAIN queue : queue'[i] = queue[j]

(* A push, or one that failed, gains at most the entry pushed. *)
LEMMA PushFacts ==
    ASSUME queue \in Seq(Entries), NEW e \in Entries, queue' \in {queue, Append(queue, e)}
    PROVE  queue' \in Seq(Entries) /\ QueueOnlyGains(e)
  <1>1. CASE queue' = queue
    BY <1>1 DEF QueueOnlyGains
  <1>2. CASE queue' = Append(queue, e)
    <2>1. /\ Append(queue, e) \in Seq(Entries)
          /\ \A i \in DOMAIN Append(queue, e) :
                 Append(queue, e)[i] = e \/ (i \in DOMAIN queue /\ Append(queue, e)[i] = queue[i])
      BY AppendFacts
    <2>2. QED  BY <1>2, <2>1, Zenon DEF QueueOnlyGains
  <1>3. QED  BY <1>1, <1>2

(* A push of a recoverable reference keeps the queue's references so. *)
LEMMA QueueRecoverable ==
    ASSUME RefsRecoverable, NEW e, QueueOnlyGains(e), e \in Batches => e \in Recoverable',
           Recoverable \subseteq Recoverable'
    PROVE  \A i \in DOMAIN queue' : queue'[i] \in Batches => queue'[i] \in Recoverable'
  BY DEF RefsRecoverable, QueueOnlyGains

(* Adding an entry to a window changes nothing else of any window. *)
LEMMA WindowFacts ==
    ASSUME TypeOK, NEW w \in Writers, NEW e \in Entries,
           \/ window' = [window EXCEPT ![w] = Append(@, e)]
           \/ window' = window
    PROVE  /\ window' \in [Writers -> Seq(Entries)]
           /\ \A v \in Writers : v # w => window'[v] = window[v]
           /\ \A v \in Writers : \A i \in DOMAIN window'[v] :
                  window'[v][i] = e \/ (i \in DOMAIN window[v] /\ window'[v][i] = window[v][i])
  <1>1. window[w] \in Seq(Entries) /\ window \in [Writers -> Seq(Entries)]
    BY DEF TypeOK
  <1>2. /\ Append(window[w], e) \in Seq(Entries)
        /\ \A i \in DOMAIN Append(window[w], e) :
               \/ Append(window[w], e)[i] = e
               \/ i \in DOMAIN window[w] /\ Append(window[w], e)[i] = window[w][i]
    BY <1>1, AppendFacts
  <1> QED
    BY <1>1, <1>2

(* LREM keeps the counts of the processing list natural numbers. *)
LEMMA RemovedFacts ==
    ASSUME TypeOK, NEW e \in Entries
    PROVE  /\ Removed(e) \in [Entries -> Nat]
           /\ \A f \in Entries : f # e => Removed(e)[f] = processing[f]
  BY DEF TypeOK, Removed

(* An ack touches no other entry and pushes nothing. *)
LEMMA AckFacts ==
    ASSUME TypeOK, NEW e \in Entries, Ack(e)
    PROVE  /\ queue' = queue
           /\ processing' \in [Entries -> Nat]
           /\ \A f \in Entries : f # e => processing'[f] = processing[f]
           /\ faults' \in Nat
  BY RemovedFacts, ConstantsAssumption DEF Ack, Spend, TypeOK

(* A requeue pushes at most the entry it is about, and an entry that left  *)
(* the processing list is on the queue.                                    *)
LEMMA RequeueFacts ==
    ASSUME TypeOK, NEW e \in Entries, NEW n \in Nat, Requeue(e, n)
    PROVE  /\ queue' \in Seq(Entries)
           /\ processing' \in [Entries -> Nat]
           /\ faults' \in Nat
           /\ QueueOnlyGains(e)
           /\ \A f \in Entries : f # e => processing'[f] = processing[f]
           /\ processing'[e] < processing[e] => \E i \in DOMAIN queue' : queue'[i] = e
  <1>1. faults' \in Nat
    BY ConstantsAssumption DEF Requeue, Spend, TypeOK
  <1>2. CASE Push(e)
    <2>1. queue \in Seq(Entries) /\ processing \in [Entries -> Nat]
      BY DEF TypeOK
    <2>2. queue' = Append(queue, e) 
      BY <1>2 DEF Push
    <2>3. processing' = processing \/ processing' = Removed(e) 
      BY <1>2 DEF Requeue, redisVars
    <2>4. queue' \in Seq(Entries) /\ QueueOnlyGains(e)
      BY <2>1, <2>2, PushFacts
    <2>5. \E i \in DOMAIN queue' : queue'[i] = e
      BY <2>1, <2>2, AppendFacts
    <2> QED
      BY <1>1, <2>1, <2>3, <2>4, <2>5, RemovedFacts
  <1>3. CASE UNCHANGED redisVars
    BY <1>1, <1>3 DEF redisVars, TypeOK, QueueOnlyGains
  <1> QED
    BY <1>2, <1>3 DEF Requeue

(* Ingest API steps keep the invariant. *)
LEMMA StageInv == ASSUME IInv, NEW b \in Batches, Stage(b) PROVE IInv'
  <1> USE DEF IInv, Stage
  <1>a. api' \in [Entries -> Outcomes]
    BY DEF TypeOK, Entries, Outcomes
  <1>b. faults' \in Nat /\ objects' \in SUBSET Batches
    BY DEF TypeOK, Spend
  <1>1. TypeOK'
    BY <1>a, <1>b DEF TypeOK, redisVars, writerVars
  <1>2. (LoopsInRange /\ WindowStored /\ LedgerSound /\ DeletesCommitted /\ JobsFollowRows)'
    BY DEF LoopsInRange, WindowStored, LedgerSound, DeletesCommitted, JobsFollowRows,
           redisVars, writerVars
  <1>3. (RequestsRecoverable /\ RefsRecoverable)'
    BY DEF RequestsRecoverable, RefsRecoverable, Recoverable, TypeOK, Entries, redisVars, writerVars
  <1> QED
    BY <1>1, <1>2, <1>3

LEMMA EnqueueRefInv == ASSUME IInv, NEW b \in Batches, EnqueueRef(b) PROVE IInv'
  <1> USE DEF IInv, EnqueueRef
  <1>1. b \in Entries /\ queue \in Seq(Entries) /\ queue' \in {queue, Append(queue, b)}
    BY DEF Entries, TypeOK, Push
  <1>2. queue' \in Seq(Entries) /\ QueueOnlyGains(b)
    BY <1>1, PushFacts
  <1>3. api' \in [Entries -> Outcomes]
    BY <1>1 DEF TypeOK, Outcomes
  <1>4. faults' \in Nat
    BY DEF TypeOK, Spend
  <1>5. TypeOK'
    BY <1>2, <1>3, <1>4 DEF TypeOK, writerVars
  <1>6. (LoopsInRange /\ WindowStored /\ LedgerSound /\ DeletesCommitted /\ JobsFollowRows)'
    BY DEF LoopsInRange, WindowStored, LedgerSound, DeletesCommitted, JobsFollowRows, writerVars
  <1>7. RequestsRecoverable' /\ Recoverable \subseteq Recoverable'
    BY DEF RequestsRecoverable, Recoverable, TypeOK, Entries
  <1>8. RefsRecoverable'
    BY <1>2, <1>7, QueueRecoverable DEF RequestsRecoverable, RefsRecoverable, writerVars
  <1> QED
    BY <1>5, <1>6, <1>7, <1>8

LEMMA EnqueuePayloadInv == ASSUME IInv, NEW p \in Payloads, EnqueuePayload(p) PROVE IInv'
  <1> USE DEF IInv, EnqueuePayload
  <1>1. /\ p \in Entries /\ p \notin Batches
        /\ queue \in Seq(Entries) /\ queue' \in {queue, Append(queue, p)}
    BY ConstantsAssumption DEF Entries, TypeOK, Push
  <1>2. queue' \in Seq(Entries) /\ QueueOnlyGains(p)
    BY <1>1, PushFacts
  <1>3. api' \in [Entries -> Outcomes]
    BY <1>1 DEF TypeOK, Outcomes
  <1>4. faults' \in Nat
    BY DEF TypeOK, Spend
  <1>5. TypeOK'
    BY <1>2, <1>3, <1>4 DEF TypeOK, writerVars
  <1>6. (LoopsInRange /\ WindowStored /\ LedgerSound /\ DeletesCommitted /\ JobsFollowRows)'
    BY DEF LoopsInRange, WindowStored, LedgerSound, DeletesCommitted, JobsFollowRows, writerVars
  <1>7. RequestsRecoverable' /\ Recoverable \subseteq Recoverable'
    BY <1>1 DEF RequestsRecoverable, Recoverable, TypeOK, Entries
  <1>8. RefsRecoverable'
    BY <1>1, <1>2, <1>7, QueueRecoverable DEF RefsRecoverable, writerVars
  <1> QED
    BY <1>5, <1>6, <1>7, <1>8

-----------------------------------------------------------------------------
(* Writer steps keep the invariant.                                        *)

LEMMA DequeueInv == ASSUME IInv, NEW w \in Writers, Dequeue(w) PROVE IInv'
  <1> USE DEF IInv, Dequeue
  <1> DEFINE e == Head(queue)
  <1>1. /\ queue' \in Seq(Entries) /\ e \in Entries
        /\ e \in Batches => e \in Recoverable
        /\ \A i \in DOMAIN queue' : \E j \in DOMAIN queue : queue'[i] = queue[j]
    BY TailFacts DEF TypeOK, RefsRecoverable
  <1>2. processing' \in [Entries -> Nat] /\ faults' \in Nat
    BY <1>1 DEF TypeOK, Spend
  <1>3. pc' \in [Writers -> PCs] /\ cur' \in [Writers -> Entries \cup {NoEntry}]
    BY <1>1 DEF TypeOK, PCs
  <1>4. /\ window' \in [Writers -> Seq(Entries)]
        /\ \A v \in Writers : \A i \in DOMAIN window'[v] :
               window'[v][i] = e \/ (i \in DOMAIN window[v] /\ window'[v][i] = window[v][i])
    BY <1>1, WindowFacts
  <1>5. TypeOK'
    BY <1>1, <1>2, <1>3, <1>4 DEF TypeOK
  <1>6. LoopsInRange'
    BY DEF LoopsInRange, Collecting, TypeOK
  <1>7. RequestsRecoverable' /\ Recoverable \subseteq Recoverable'
    BY DEF RequestsRecoverable, Recoverable
  <1>8. \A i \in DOMAIN queue' : queue'[i] \in Batches => queue'[i] \in Recoverable'
    BY <1>1, <1>7 DEF RefsRecoverable
  <1>9. \A v \in Writers : cur'[v] \in Batches => cur'[v] \in Recoverable'
    BY <1>1, <1>7 DEF RefsRecoverable, TypeOK
  <1>10. \A v \in Writers : \A i \in DOMAIN window'[v] :
            window'[v][i] \in Batches => window'[v][i] \in Recoverable'
    BY <1>1, <1>4, <1>7 DEF RefsRecoverable
  <1>11. RefsRecoverable'
    BY <1>7, <1>8, <1>9, <1>10 DEF RefsRecoverable
  <1>12. WindowStored'
    BY DEF WindowStored, Collecting, TypeOK
  <1>13. (LedgerSound /\ DeletesCommitted /\ JobsFollowRows)'
    BY DEF LedgerSound, DeletesCommitted, JobsFollowRows
  <1> QED
    BY <1>5, <1>6, <1>7, <1>11, <1>12, <1>13

LEMMA DequeueMalformedInv == ASSUME IInv, NEW w \in Writers, DequeueMalformed(w) PROVE IInv'
  <1> USE DEF IInv, DequeueMalformed
  <1>1. /\ queue' \in Seq(Entries) /\ Head(queue) \in Entries
        /\ \A i \in DOMAIN queue' : \E j \in DOMAIN queue : queue'[i] = queue[j]
    BY TailFacts DEF TypeOK
  <1>2. faults' \in Nat
    BY DEF TypeOK, Spend
  <1>2a. processing' \in [Entries -> Nat]
    BY <1>1 DEF TypeOK
  <1>3. TypeOK'
    BY <1>1, <1>2, <1>2a DEF TypeOK, writerVars
  <1>4. RefsRecoverable'
    BY <1>1 DEF RefsRecoverable, Recoverable, writerVars
  <1>5. (LoopsInRange /\ RequestsRecoverable /\ WindowStored)'
    BY DEF LoopsInRange, RequestsRecoverable, Recoverable, WindowStored, writerVars
  <1>6. (LedgerSound /\ DeletesCommitted /\ JobsFollowRows)'
    BY DEF LedgerSound, DeletesCommitted, JobsFollowRows
  <1> QED
    BY <1>3, <1>4, <1>5, <1>6

LEMMA LookupInv == ASSUME IInv, NEW w \in Writers, Lookup(w) PROVE IInv'
  <1> USE DEF IInv, Lookup
  <1>1. cur[w] \in Batches /\ cur[w] \in Entries /\ cur[w] \in Recoverable
    BY DEF LoopsInRange, RefsRecoverable, Entries
  <1>2. Recoverable' = Recoverable
    BY DEF Recoverable
  <1>3. /\ queue' \in Seq(Entries) /\ processing' \in [Entries -> Nat]
        /\ faults' \in Nat /\ QueueOnlyGains(cur[w])
    <2>1. CASE Ack(cur[w])
      BY <1>1, <2>1, AckFacts DEF TypeOK, QueueOnlyGains
    <2>2. CASE Requeue(cur[w], 1)
      BY <1>1, <2>2, RequeueFacts
    <2>3. CASE UNCHANGED redisVars /\ Spend(0)
      BY <2>3 DEF TypeOK, redisVars, Spend, QueueOnlyGains
    <2> QED
      BY <2>1, <2>2, <2>3
  <1>4. /\ pc' \in [Writers -> PCs] /\ pc'[w] \in {"collect", "fetch"}
        /\ pc'[w] = "fetch" => cur'[w] = cur[w]
    BY DEF TypeOK, PCs
  <1>5. cur' \in [Writers -> Entries \cup {NoEntry}] /\ (cur'[w] = cur[w] \/ cur'[w] = NoEntry)
    BY DEF TypeOK
  <1>6. \A v \in Writers : v # w => pc'[v] = pc[v] /\ cur'[v] = cur[v]
    BY DEF TypeOK
  <1>7. TypeOK'
    BY <1>3, <1>4, <1>5 DEF TypeOK
  <1>8. LoopsInRange'
    BY <1>1, <1>4, <1>6 DEF LoopsInRange
  <1>9. \A i \in DOMAIN queue' : queue'[i] \in Batches => queue'[i] \in Recoverable'
    BY <1>1, <1>2, <1>3, QueueRecoverable
  <1>10. NoEntry \notin Batches
    BY ConstantsAssumption DEF Entries
  <1>11. RefsRecoverable'
    BY <1>2, <1>5, <1>6, <1>9, <1>10 DEF RefsRecoverable
  <1>12. WindowStored'
    BY <1>4, <1>6 DEF WindowStored
  <1>13. (RequestsRecoverable /\ LedgerSound /\ DeletesCommitted /\ JobsFollowRows)'
    BY <1>2 DEF RequestsRecoverable, LedgerSound, DeletesCommitted, JobsFollowRows
  <1> QED
    BY <1>7, <1>8, <1>11, <1>12, <1>13

LEMMA FetchInv == ASSUME IInv, NEW w \in Writers, Fetch(w) PROVE IInv'
  <1> USE DEF IInv, Fetch
  <1>1. cur[w] \in Batches /\ cur[w] \in Entries /\ cur[w] \in Recoverable
    BY DEF LoopsInRange, RefsRecoverable, Entries
  <1>2. Recoverable' = Recoverable
    BY DEF Recoverable
  <1>3. /\ queue' \in Seq(Entries) /\ processing' \in [Entries -> Nat]
        /\ faults' \in Nat /\ QueueOnlyGains(cur[w])
    <2>1. CASE Ack(cur[w])
      BY <1>1, <2>1, AckFacts DEF TypeOK, QueueOnlyGains
    <2>2. CASE Requeue(cur[w], 1)
      BY <1>1, <2>2, RequeueFacts
    <2>3. CASE UNCHANGED redisVars /\ Spend(0)
      BY <2>3 DEF TypeOK, redisVars, Spend, QueueOnlyGains
    <2> QED
      BY <2>1, <2>2, <2>3
  <1>4. pc' \in [Writers -> PCs] /\ pc'[w] = "collect"
    BY DEF TypeOK, PCs
  <1>5. cur' \in [Writers -> Entries \cup {NoEntry}] /\ cur'[w] = NoEntry
    BY DEF TypeOK
  <1>6. /\ window' \in [Writers -> Seq(Entries)]
        /\ \A v \in Writers : v # w => window'[v] = window[v]
        /\ \A v \in Writers : \A i \in DOMAIN window'[v] :
               window'[v][i] = cur[w] \/ (i \in DOMAIN window[v] /\ window'[v][i] = window[v][i])
    BY <1>1, WindowFacts
  <1>7. \A v \in Writers : v # w => pc'[v] = pc[v] /\ cur'[v] = cur[v]
    BY DEF TypeOK
  <1>8. TypeOK'
    BY <1>3, <1>4, <1>5, <1>6 DEF TypeOK
  <1>9. LoopsInRange'
    BY <1>4, <1>6, <1>7 DEF LoopsInRange
  <1>10. \A i \in DOMAIN queue' : queue'[i] \in Batches => queue'[i] \in Recoverable'
    BY <1>1, <1>2, <1>3, QueueRecoverable
  <1>11. NoEntry \notin Batches
    BY ConstantsAssumption DEF Entries
  <1>12. RefsRecoverable'
    BY <1>1, <1>2, <1>5, <1>6, <1>7, <1>10, <1>11 DEF RefsRecoverable
  <1>13. WindowStored'
    BY <1>4, <1>6, <1>7 DEF WindowStored
  <1>14. (RequestsRecoverable /\ LedgerSound /\ DeletesCommitted /\ JobsFollowRows)'
    BY <1>2 DEF RequestsRecoverable, LedgerSound, DeletesCommitted, JobsFollowRows
  <1> QED
    BY <1>8, <1>9, <1>12, <1>13, <1>14

LEMMA CloseWindowInv == ASSUME IInv, NEW w \in Writers, CloseWindow(w) PROVE IInv'
  <1> USE DEF IInv, CloseWindow
  <1>1. TypeOK'
    BY DEF TypeOK, PCs, redisVars
  <1>2. LoopsInRange' /\ WindowStored'
    BY DEF LoopsInRange, WindowStored, TypeOK
  <1>3. RequestsRecoverable' /\ RefsRecoverable'
    BY DEF RequestsRecoverable, RefsRecoverable, Recoverable, redisVars
  <1>4. (LedgerSound /\ DeletesCommitted /\ JobsFollowRows)'
    BY DEF LedgerSound, DeletesCommitted, JobsFollowRows
  <1> QED
    BY <1>1, <1>2, <1>3, <1>4

(* A Lake commit only adds rows, and adds those of the window. *)
LEMMA CommitFacts ==
    ASSUME TypeOK, NEW w \in Writers, lake' \in {lake, Inserted(w), InsertedTwice(w)}
    PROVE  /\ lake' \in [Entries -> {"none", "once", "several"}]
           /\ \A e \in Entries : lake[e] # "none" => lake'[e] # "none"
           /\ lake' = Inserted(w) \/ lake' = InsertedTwice(w) =>
                \A i \in DOMAIN window[w] :
                    window[w][i] \notin EmptyBatches => lake'[window[w][i]] # "none"
  <1>1. window[w] \in Seq(Entries) /\ lake \in [Entries -> {"none", "once", "several"}]
    BY DEF TypeOK
  <1>2. \A i \in DOMAIN window[w] : window[w][i] \in Entries /\ Places(w, window[w][i]) # {}
    BY <1>1 DEF Places
  <1> QED
    BY <1>1, <1>2 DEF Inserted, InsertedTwice

LEMMA CommitLakeInv == ASSUME IInv, NEW w \in Writers, CommitLake(w) PROVE IInv'
  <1> USE DEF IInv, CommitLake
  <1>1. /\ lake' \in [Entries -> {"none", "once", "several"}]
        /\ \A e \in Entries : lake[e] # "none" => lake'[e] # "none"
        /\ lake' = Inserted(w) \/ lake' = InsertedTwice(w) =>
               \A i \in DOMAIN window[w] :
                   window[w][i] \notin EmptyBatches => lake'[window[w][i]] # "none"
    BY CommitFacts
  <1>2. /\ pc' \in [Writers -> PCs] /\ pc'[w] \in {"mark", "requeue"}
        /\ \A v \in Writers : v # w => pc'[v] = pc[v] /\ next'[v] = next[v]
    BY DEF TypeOK, PCs
  <1>3. next' \in [Writers -> Nat \ {0}] /\ next'[w] = 1
    BY DEF TypeOK
  <1>4. faults' \in Nat
    BY DEF TypeOK, Spend
  <1>5. TypeOK'
    BY <1>1, <1>2, <1>3, <1>4 DEF TypeOK, redisVars
  <1>6. window[w] \in Seq(Entries) /\ window[w] # <<>> /\ Len(window[w]) >= 1
    BY DEF TypeOK, LoopsInRange
  <1>7. LoopsInRange'
    BY <1>2, <1>3, <1>6 DEF LoopsInRange
  <1>8. WindowStored'
    <2>1. pc'[w] = "mark" => lake' = Inserted(w) \/ lake' = InsertedTwice(w)
      BY DEF TypeOK
    <2>2. \A v \in Writers : \A i \in DOMAIN window[v] : window[v][i] \in Entries
      BY DEF TypeOK
    <2> QED
      BY <1>1, <1>2, <2>1, <2>2 DEF WindowStored
  <1>9. (LedgerSound /\ JobsFollowRows)'
    BY <1>1 DEF LedgerSound, JobsFollowRows, TypeOK, Entries
  <1>10. (RequestsRecoverable /\ RefsRecoverable /\ DeletesCommitted)'
    BY DEF RequestsRecoverable, RefsRecoverable, Recoverable, DeletesCommitted, redisVars
  <1> QED
    BY <1>5, <1>7, <1>8, <1>9, <1>10

(* A step of a loop over `pending` stays in the loop, in range, or leaves  *)
(* it for p, and touches no other replica.                                 *)
LEMMA AdvanceFacts ==
    ASSUME TypeOK, NEW w \in Writers, NEW p \in {"collect", "eval"}, Advance(w, p)
    PROVE  /\ pc' \in [Writers -> PCs] /\ next' \in [Writers -> Nat \ {0}]
           /\ window' \in [Writers -> Seq(Entries)]
           /\ \A v \in Writers : v # w =>
                  pc'[v] = pc[v] /\ next'[v] = next[v] /\ window'[v] = window[v]
           /\ \/ pc'[w] = pc[w] /\ window'[w] = window[w] /\ next'[w] <= Len(window[w])
              \/ pc'[w] = p /\ window'[w] = window[w]
              \/ pc'[w] = "collect" /\ window'[w] = <<>>
  <1>1. window[w] \in Seq(Entries) /\ next[w] \in Nat \ {0}
    BY DEF TypeOK
  <1>2. CASE next[w] < Len(window[w])
    <2>1. next' = [next EXCEPT ![w] = @ + 1] /\ pc' = pc /\ window' = window
      BY <1>2 DEF Advance
    <2>2. next' \in [Writers -> Nat \ {0}] /\ next'[w] = next[w] + 1
      BY <1>1, <2>1 DEF TypeOK
    <2> QED
      BY <1>1, <1>2, <2>1, <2>2 DEF TypeOK
  <1>3. CASE ~(next[w] < Len(window[w]))
    <2>1. /\ next' = [next EXCEPT ![w] = 1] /\ pc' = [pc EXCEPT ![w] = p]
          /\ window' = IF p = "collect" THEN [window EXCEPT ![w] = <<>>] ELSE window
      BY <1>3 DEF Advance
    <2>2. next' \in [Writers -> Nat \ {0}] /\ pc' \in [Writers -> PCs] /\ pc'[w] = p
      BY <2>1 DEF TypeOK, PCs
    <2>3. window' \in [Writers -> Seq(Entries)]
      BY <2>1 DEF TypeOK
    <2>4. window'[w] = window[w] \/ (p = "collect" /\ window'[w] = <<>>)
      BY <2>1 DEF TypeOK
    <2>5. \A v \in Writers : v # w =>
              pc'[v] = pc[v] /\ next'[v] = next[v] /\ window'[v] = window[v]
      BY <2>1 DEF TypeOK
    <2> QED
      BY <2>2, <2>3, <2>4, <2>5
  <1> QED
    BY <1>2, <1>3

(* Emptying or keeping a window keeps its references recoverable. *)
LEMMA WindowRecoverable ==
    ASSUME RefsRecoverable, Recoverable \subseteq Recoverable',
           \A v \in Writers : window'[v] = window[v] \/ window'[v] = <<>>
    PROVE  \A v \in Writers : \A i \in DOMAIN window'[v] :
               window'[v][i] \in Batches => window'[v][i] \in Recoverable'
  BY DEF RefsRecoverable

LEMMA RequeueEntryInv == ASSUME IInv, NEW w \in Writers, RequeueEntry(w) PROVE IInv'
  <1> USE DEF IInv, RequeueEntry
  <1> DEFINE e == window[w][next[w]]
  <1>1. e \in Entries /\ next[w] \in DOMAIN window[w] /\ (e \in Batches => e \in Recoverable)
    BY DEF LoopsInRange, RefsRecoverable, TypeOK
  <1>2. Recoverable' = Recoverable
    BY DEF Recoverable
  <1>3. /\ queue' \in Seq(Entries) /\ processing' \in [Entries -> Nat]
        /\ faults' \in Nat /\ QueueOnlyGains(e)
    BY <1>1, RequeueFacts
  <1>4. /\ pc' \in [Writers -> PCs] /\ next' \in [Writers -> Nat \ {0}]
        /\ window' \in [Writers -> Seq(Entries)]
        /\ \A v \in Writers : v # w =>
               pc'[v] = pc[v] /\ next'[v] = next[v] /\ window'[v] = window[v]
        /\ \/ pc'[w] = pc[w] /\ window'[w] = window[w] /\ next'[w] <= Len(window[w])
           \/ pc'[w] = "collect" /\ (window'[w] = window[w] \/ window'[w] = <<>>)
    BY AdvanceFacts
  <1>5. TypeOK'
    BY <1>3, <1>4 DEF TypeOK
  <1>6. LoopsInRange' /\ WindowStored'
    BY <1>4 DEF LoopsInRange, WindowStored
  <1>7. \A i \in DOMAIN queue' : queue'[i] \in Batches => queue'[i] \in Recoverable'
    BY <1>1, <1>2, <1>3, QueueRecoverable
  <1>7a. \A v \in Writers : \A i \in DOMAIN window'[v] :
            window'[v][i] \in Batches => window'[v][i] \in Recoverable'
    BY <1>2, <1>4, WindowRecoverable
  <1>8. RefsRecoverable'
    BY <1>2, <1>7, <1>7a DEF RefsRecoverable
  <1>9. (RequestsRecoverable /\ LedgerSound /\ DeletesCommitted /\ JobsFollowRows)'
    BY <1>2 DEF RequestsRecoverable, LedgerSound, DeletesCommitted, JobsFollowRows
  <1> QED
    BY <1>5, <1>6, <1>8, <1>9

LEMMA MarkInv == ASSUME IInv, NEW w \in Writers, Mark(w) PROVE IInv'
  <1> USE DEF IInv, Mark
  <1> DEFINE e == window[w][next[w]]
  <1>1. /\ e \in Entries /\ next[w] \in DOMAIN window[w]
        /\ e \notin EmptyBatches => lake[e] # "none"
    BY DEF LoopsInRange, WindowStored, TypeOK
  <1>2. /\ ledger' \in SUBSET Batches
        /\ ledger' = ledger \/ (e \in Batches /\ ledger' = ledger \cup {e})
    BY DEF TypeOK
  <1>3. Recoverable \subseteq Recoverable' /\ (e \in Batches => e \in Recoverable)
    BY <1>1, <1>2 DEF Recoverable, RefsRecoverable
  <1>4. /\ queue' \in Seq(Entries) /\ processing' \in [Entries -> Nat]
        /\ faults' \in Nat /\ QueueOnlyGains(e)
    <2>1. CASE Ack(e)
      BY <1>1, <2>1, AckFacts DEF TypeOK, QueueOnlyGains
    <2>2. CASE Requeue(e, 1)
      BY <1>1, <2>2, RequeueFacts
    <2> QED
      BY <2>1, <2>2
  <1>5. /\ pc' \in [Writers -> PCs] /\ next' \in [Writers -> Nat \ {0}]
        /\ window' \in [Writers -> Seq(Entries)]
        /\ \A v \in Writers : v # w =>
               pc'[v] = pc[v] /\ next'[v] = next[v] /\ window'[v] = window[v]
        /\ \/ pc'[w] = pc[w] /\ window'[w] = window[w] /\ next'[w] <= Len(window[w])
           \/ pc'[w] = "eval" /\ window'[w] = window[w]
           \/ pc'[w] = "collect" /\ window'[w] = <<>>
    BY AdvanceFacts
  <1>6. TypeOK'
    BY <1>2, <1>4, <1>5 DEF TypeOK
  <1>7. LoopsInRange'
    BY <1>5 DEF LoopsInRange
  <1>7a. WindowStored'
    <2>1. SUFFICES ASSUME NEW v \in Writers, pc'[v] \in {"mark", "eval"}
                   PROVE  \A i \in DOMAIN window'[v] :
                              window'[v][i] \notin EmptyBatches => lake'[window'[v][i]] # "none"
      BY DEF WindowStored
    <2>2. window'[v] = window[v] /\ pc[v] \in {"mark", "eval"}
      BY <1>5, <2>1
    <2> QED
      BY <2>2 DEF WindowStored
  <1>8. \A i \in DOMAIN queue' : queue'[i] \in Batches => queue'[i] \in Recoverable'
    BY <1>3, <1>4, QueueRecoverable
  <1>8a. \A v \in Writers : \A i \in DOMAIN window'[v] :
            window'[v][i] \in Batches => window'[v][i] \in Recoverable'
    BY <1>3, <1>5, WindowRecoverable
  <1>9. RefsRecoverable'
    BY <1>3, <1>8, <1>8a DEF RefsRecoverable
  <1>10. (LedgerSound /\ DeletesCommitted /\ JobsFollowRows)'
    BY <1>1, <1>2 DEF LedgerSound, DeletesCommitted, JobsFollowRows
  <1>11. RequestsRecoverable'
    BY <1>3 DEF RequestsRecoverable
  <1> QED
    BY <1>6, <1>7, <1>7a, <1>9, <1>10, <1>11

LEMMA EvalSpansInv == ASSUME IInv, NEW w \in Writers, EvalSpans(w) PROVE IInv'
  <1> USE DEF IInv, EvalSpans
  <1>1. /\ jobs' \in SUBSET Entries
        /\ \A e \in jobs' : e \in jobs \/ (Places(w, e) # {} /\ e \notin EmptyBatches)
    BY DEF TypeOK
  <1>2. /\ window' \in [Writers -> Seq(Entries)] /\ window'[w] = <<>>
        /\ pc' \in [Writers -> PCs] /\ pc'[w] = "collect"
        /\ \A v \in Writers : v # w => pc'[v] = pc[v] /\ window'[v] = window[v]
    BY DEF TypeOK, PCs
  <1>3. TypeOK'
    BY <1>1, <1>2 DEF TypeOK, redisVars
  <1>4. LoopsInRange' /\ WindowStored' /\ RefsRecoverable'
    BY <1>2 DEF LoopsInRange, WindowStored, RefsRecoverable, Recoverable, redisVars
  <1>5. JobsFollowRows'
    BY <1>1 DEF JobsFollowRows, Places, WindowStored
  <1>6. (RequestsRecoverable /\ LedgerSound /\ DeletesCommitted)'
    BY DEF RequestsRecoverable, Recoverable, LedgerSound, DeletesCommitted
  <1> QED
    BY <1>3, <1>4, <1>5, <1>6

-----------------------------------------------------------------------------
(* Sweep steps and the environment keep the invariant.                     *)

(* A step that changes only sweep[w], to a sweep of recoverable references *)
(* and committed deletions, and possibly faults, keeps the invariant.      *)
LEMMA SweepOnlyInv ==
    ASSUME IInv, NEW w \in Writers, NEW s \in Sweeps,
           sweep' = [sweep EXCEPT ![w] = s], faults' \in Nat,
           s.todo \subseteq Recoverable, s.del \subseteq ledger,
           s.cur \in Batches => s.cur \in Recoverable,
           UNCHANGED <<api, objects, redisVars, ledger, lake, jobs, writerVars>>
    PROVE  IInv'
  <1> USE DEF IInv, redisVars, writerVars
  <1>1. /\ sweep' \in [Writers -> Sweeps] /\ sweep'[w] = s
        /\ \A v \in Writers : v # w => sweep'[v] = sweep[v]
    BY DEF TypeOK
  <1>2. TypeOK'
    BY <1>1 DEF TypeOK
  <1>3. RefsRecoverable'
    BY <1>1 DEF RefsRecoverable, Recoverable
  <1>4. DeletesCommitted'
    BY <1>1 DEF DeletesCommitted
  <1>5. (LoopsInRange /\ RequestsRecoverable /\ WindowStored)'
    BY DEF LoopsInRange, RequestsRecoverable, Recoverable, WindowStored
  <1>6. (LedgerSound /\ JobsFollowRows)'
    BY DEF LedgerSound, JobsFollowRows
  <1> QED
    BY <1>2, <1>3, <1>4, <1>5, <1>6

LEMMA SweepListInv ==
    ASSUME IInv, NEW w \in Writers, NEW T \in SUBSET objects, SweepList(w, T) PROVE IInv'
  <1> DEFINE s == [todo |-> T, del |-> {}, cur |-> NoEntry]
  <1>1. s \in Sweeps /\ NoEntry \notin Batches
    BY ConstantsAssumption DEF IInv, TypeOK, Sweeps, Entries
  <1>2. sweep' = [sweep EXCEPT ![w] = s]
    BY DEF SweepList
  <1>3. T \subseteq Recoverable
    BY DEF Recoverable
  <1>4. UNCHANGED <<api, objects, redisVars, ledger, lake, jobs, writerVars>> /\ faults' \in Nat
    BY DEF SweepList, IInv, TypeOK
  <1> QED
    BY <1>1, <1>2, <1>3, <1>4, SweepOnlyInv

\* The sweep step handles b: it leaves `todo`, the rest of the record is d, c
Handled(w, b, d, c) == [todo |-> sweep[w].todo \ {b}, del |-> d, cur |-> c]

(* Ledger lookups of a sweep keep the invariant. *)
LEMMA SweepLookupInv ==
    ASSUME IInv, NEW w \in Writers, NEW b \in Batches,
           SweepUncommitted(w, b) \/ SweepExpired(w, b) \/ SweepSkip(w, b)
    PROVE  IInv'
  <1>1. /\ sweep[w] \in Sweeps /\ sweep[w].todo \subseteq Recoverable
        /\ sweep[w].del \subseteq ledger /\ NoEntry \notin Batches
        /\ sweep \in [Writers -> Sweeps] /\ faults \in Nat
    BY ConstantsAssumption
    DEF IInv, TypeOK, RefsRecoverable, DeletesCommitted, Entries
  <1>2. CASE SweepUncommitted(w, b)
    <2> DEFINE s == Handled(w, b, sweep[w].del, b)
    <2>1. s \in Sweeps /\ s.todo \subseteq Recoverable /\ s.del \subseteq ledger /\ s.cur \in Recoverable
      BY <1>1, <1>2 DEF Handled, Sweeps, SweepUncommitted
    <2>2. sweep' = [sweep EXCEPT ![w] = s] /\ faults' \in Nat
          /\ UNCHANGED <<api, objects, redisVars, ledger, lake, jobs, writerVars>>
      BY <1>1, <1>2 DEF Handled, Sweeps, SweepUncommitted
    <2> QED
      BY <2>1, <2>2, SweepOnlyInv
  <1>3. CASE SweepExpired(w, b)
    <2> DEFINE s == Handled(w, b, sweep[w].del \cup {b}, NoEntry)
    <2>1. s \in Sweeps /\ s.todo \subseteq Recoverable /\ s.del \subseteq ledger /\ s.cur \notin Batches
      BY <1>1, <1>3 DEF Handled, Sweeps, SweepExpired
    <2>2. sweep' = [sweep EXCEPT ![w] = s] /\ faults' \in Nat
          /\ UNCHANGED <<api, objects, redisVars, ledger, lake, jobs, writerVars>>
      BY <1>1, <1>3 DEF Handled, Sweeps, SweepExpired
    <2> QED
      BY <2>1, <2>2, SweepOnlyInv
  <1>4. CASE SweepSkip(w, b)
    <2> DEFINE s == Handled(w, b, sweep[w].del, NoEntry)
    <2>1. s \in Sweeps /\ s.todo \subseteq Recoverable /\ s.del \subseteq ledger /\ s.cur \notin Batches
      BY <1>1, <1>4 DEF Handled, Sweeps, SweepSkip
    <2>2. sweep' = [sweep EXCEPT ![w] = s] /\ faults' \in Nat
          /\ UNCHANGED <<api, objects, redisVars, ledger, lake, jobs, writerVars>>
      BY <1>1, <1>4 DEF Handled, Sweeps, SweepSkip, Spend
    <2> QED
      BY <2>1, <2>2, SweepOnlyInv
  <1> QED
    BY <1>2, <1>3, <1>4

LEMMA SweepEnqueueInv == ASSUME IInv, NEW w \in Writers, SweepEnqueue(w) PROVE IInv'
  <1> USE DEF IInv, SweepEnqueue
  <1> DEFINE b == sweep[w].cur
             s == [todo |-> sweep[w].todo, del |-> sweep[w].del, cur |-> NoEntry]
  <1>1. /\ b \in Batches /\ b \in Entries /\ b \in Recoverable
        /\ s \in Sweeps /\ NoEntry \notin Batches
    BY ConstantsAssumption DEF TypeOK, Sweeps, RefsRecoverable, Entries
  <1>2. sweep' = [sweep EXCEPT ![w] = s]
    OBVIOUS
  <1>3. /\ sweep' \in [Writers -> Sweeps] /\ sweep'[w] = s
        /\ \A v \in Writers : v # w => sweep'[v] = sweep[v]
    BY <1>1, <1>2 DEF TypeOK
  <1>4. queue' \in {queue, Append(queue, b)}
    BY DEF Push
  <1>5. queue' \in Seq(Entries) /\ QueueOnlyGains(b) /\ faults' \in Nat
    BY <1>1, <1>4, PushFacts DEF TypeOK, Spend
  <1>6. TypeOK'
    BY <1>3, <1>5 DEF TypeOK, writerVars
  <1>7. Recoverable' = Recoverable
    BY DEF Recoverable
  <1>8. \A i \in DOMAIN queue' : queue'[i] \in Batches => queue'[i] \in Recoverable'
    BY <1>1, <1>5, <1>7, QueueRecoverable
  <1>9. RefsRecoverable' /\ DeletesCommitted'
    BY <1>1, <1>3, <1>7, <1>8 DEF RefsRecoverable, DeletesCommitted, writerVars
  <1>10. (LoopsInRange /\ RequestsRecoverable /\ WindowStored)'
    BY <1>7 DEF LoopsInRange, RequestsRecoverable, WindowStored, writerVars
  <1>11. (LedgerSound /\ JobsFollowRows)'
    BY DEF LedgerSound, JobsFollowRows
  <1> QED
    BY <1>6, <1>9, <1>10, <1>11

(* The deletion loses no recoverable batch: what it deletes is committed. *)
LEMMA SweepDeleteInv == ASSUME IInv, NEW w \in Writers, SweepDelete(w) PROVE IInv'
  <1> USE DEF IInv, SweepDelete
  <1>1. PICK D \in SUBSET sweep[w].del : objects' = objects \ D
    OBVIOUS
  <1>2. Recoverable' = Recoverable
    BY <1>1 DEF Recoverable, DeletesCommitted
  <1>3. IdleSweep \in Sweeps /\ NoEntry \notin Batches
    BY ConstantsAssumption DEF IdleSweep, Sweeps, Entries
  <1>4. /\ sweep' \in [Writers -> Sweeps] /\ sweep'[w] = IdleSweep
        /\ \A v \in Writers : v # w => sweep'[v] = sweep[v]
    BY <1>3 DEF TypeOK
  <1>5. faults' \in Nat /\ objects' \in SUBSET Batches
    BY <1>1 DEF TypeOK, Spend
  <1>6. TypeOK'
    BY <1>4, <1>5 DEF TypeOK, writerVars, redisVars
  <1>7. RefsRecoverable' /\ DeletesCommitted'
    BY <1>2, <1>3, <1>4 DEF RefsRecoverable, DeletesCommitted, IdleSweep, writerVars, redisVars
  <1>8. (LoopsInRange /\ RequestsRecoverable /\ WindowStored)'
    BY <1>2 DEF LoopsInRange, RequestsRecoverable, WindowStored, writerVars
  <1>9. (LedgerSound /\ JobsFollowRows)'
    BY DEF LedgerSound, JobsFollowRows
  <1> QED
    BY <1>6, <1>7, <1>8, <1>9

(* A crash only forgets what the replica held. *)
LEMMA CrashInv == ASSUME IInv, NEW w \in Writers, Crash(w) PROVE IInv'
  <1> USE DEF IInv, Crash
  <1>1. IdleSweep \in Sweeps /\ NoEntry \notin Batches
    BY ConstantsAssumption DEF IdleSweep, Sweeps, Entries
  <1>2. /\ sweep' \in [Writers -> Sweeps] /\ sweep'[w] = IdleSweep
        /\ \A v \in Writers : v # w => sweep'[v] = sweep[v]
    BY <1>1 DEF TypeOK
  <1>3. /\ pc' \in [Writers -> PCs] /\ pc'[w] = "collect"
        /\ cur' \in [Writers -> Entries \cup {NoEntry}] /\ cur'[w] = NoEntry
        /\ \A v \in Writers : v # w => pc'[v] = pc[v] /\ cur'[v] = cur[v]
    BY DEF TypeOK, PCs
  <1>4. /\ window' \in [Writers -> Seq(Entries)] /\ window'[w] = <<>>
        /\ next' \in [Writers -> Nat \ {0}]
        /\ \A v \in Writers : v # w => window'[v] = window[v] /\ next'[v] = next[v]
    BY DEF TypeOK
  <1>5. faults' \in Nat
    BY DEF TypeOK, Spend
  <1>6. TypeOK'
    BY <1>2, <1>3, <1>4, <1>5 DEF TypeOK, redisVars
  <1>7. Recoverable' = Recoverable
    BY DEF Recoverable
  <1>8. RefsRecoverable' /\ DeletesCommitted'
    BY <1>1, <1>2, <1>3, <1>4, <1>7 DEF RefsRecoverable, DeletesCommitted, IdleSweep, redisVars
  <1>9. LoopsInRange' /\ WindowStored'
    BY <1>3, <1>4 DEF LoopsInRange, WindowStored
  <1>10. (RequestsRecoverable /\ LedgerSound /\ JobsFollowRows)'
    BY <1>7 DEF RequestsRecoverable, LedgerSound, JobsFollowRows
  <1> QED
    BY <1>6, <1>8, <1>9, <1>10

LEMMA RedisRestartInv == ASSUME IInv, RedisRestart PROVE IInv'
  <1> USE DEF IInv, RedisRestart
  <1>1. queue' \in Seq(Entries) /\ DOMAIN queue' = {} /\ processing' \in [Entries -> Nat]
    OBVIOUS
  <1>2. faults' \in Nat
    BY DEF TypeOK, Spend
  <1>3. TypeOK'
    BY <1>1, <1>2 DEF TypeOK, writerVars
  <1>4. (LoopsInRange /\ RequestsRecoverable /\ RefsRecoverable /\ WindowStored)'
    BY <1>1 DEF LoopsInRange, RequestsRecoverable, RefsRecoverable, Recoverable, WindowStored, writerVars
  <1>5. (LedgerSound /\ DeletesCommitted /\ JobsFollowRows)'
    BY DEF LedgerSound, DeletesCommitted, JobsFollowRows
  <1> QED
    BY <1>3, <1>4, <1>5

LEMMA StutterInv == ASSUME IInv, UNCHANGED vars PROVE IInv'
  <1> USE DEF IInv, vars, redisVars, writerVars
  <1>1. TypeOK'
    BY DEF TypeOK
  <1>2. (LoopsInRange /\ RequestsRecoverable /\ RefsRecoverable /\ WindowStored)'
    BY DEF LoopsInRange, RequestsRecoverable, RefsRecoverable, Recoverable, WindowStored
  <1>3. (LedgerSound /\ DeletesCommitted /\ JobsFollowRows)'
    BY DEF LedgerSound, DeletesCommitted, JobsFollowRows
  <1> QED
    BY <1>1, <1>2, <1>3

-----------------------------------------------------------------------------
(* The theorems.                                                           *)

(* IInv is an invariant: every step of every process preserves it. *)
THEOREM Invariance == Spec => []IInv
  <1>1. IInv /\ [Next]_vars => IInv'
    <2> SUFFICES ASSUME IInv, [Next]_vars PROVE IInv'
      OBVIOUS
    <2>1. CASE \E b \in Batches : Stage(b) \/ EnqueueRef(b)
      BY <2>1, StageInv, EnqueueRefInv
    <2>2. CASE \E p \in Payloads : EnqueuePayload(p)
      BY <2>2, EnqueuePayloadInv
    <2>3. ASSUME NEW w \in Writers, WriterStep(w) PROVE IInv'
      BY <2>3, DequeueInv, DequeueMalformedInv, LookupInv, FetchInv, CloseWindowInv,
         CommitLakeInv, RequeueEntryInv, MarkInv, EvalSpansInv, StutterInv
      DEF WriterStep, IdlePoll
    <2>4. ASSUME NEW w \in Writers, SweepStep(w) PROVE IInv'
      BY <2>4, SweepListInv, SweepLookupInv, SweepEnqueueInv, SweepDeleteInv DEF SweepStep
    <2>5. CASE \E w \in Writers : Crash(w)
      BY <2>5, CrashInv
    <2>6. CASE RedisRestart
      BY <2>6, RedisRestartInv
    <2>7. CASE UNCHANGED vars
      BY <2>7, StutterInv
    <2> QED
      BY <2>1, <2>2, <2>3, <2>4, <2>5, <2>6, <2>7 DEF Next
  <1> QED
    BY <1>1, InitInv, PTL DEF Spec

(* Type correctness of the pipeline's state. *)
THEOREM TypeCorrect == Spec => []TypeOK
  <1>1. IInv => TypeOK
    BY DEF IInv
  <1> QED
    BY <1>1, Invariance, PTL

(* S3-first durability: every batch that was answered 202 is in the Ingest *)
(* Buffer or committed, for any number of replicas, crashes, lost          *)
(* references and Redis restarts.                                          *)
THEOREM Durability == Spec => []Durable
  <1>1. IInv => Durable
    BY DEF IInv, RequestsRecoverable, Durable
  <1> QED
    BY <1>1, Invariance, PTL

(* The Batch Ledger never runs ahead of the Lake. *)
THEOREM LedgerSoundness == Spec => []LedgerSound
  <1>1. IInv => LedgerSound
    BY DEF IInv
  <1> QED
    BY <1>1, Invariance, PTL

(* A reference is dropped for a missing object only if its batch is        *)
(* committed: the race of resolveEntry against commit and GC is harmless.  *)
THEOREM NotFoundSafe == Spec => []NotFoundIsCommitted
  <1>1. IInv => NotFoundIsCommitted
    BY DEF IInv, LoopsInRange, RefsRecoverable, Recoverable, NotFoundIsCommitted
  <1> QED
    BY <1>1, Invariance, PTL

(* An eval job never refers to a span that is not in the Lake. *)
THEOREM JobsSafe == Spec => []JobsFollowRows
  <1>1. IInv => JobsFollowRows
    BY DEF IInv
  <1> QED
    BY <1>1, Invariance, PTL

-----------------------------------------------------------------------------
(* Action properties and the refinement of DurableLog.                     *)

(* What a step may do to a batch's object and its ledger entry. *)
LEMMA StoreSteps ==
    ASSUME IInv, [Next]_vars
    PROVE  /\ \A b \in objects : b \notin objects' => b \in ledger
           /\ ledger \subseteq ledger'
  <1>1. CASE \E b \in Batches : Stage(b) \/ EnqueueRef(b)
    BY <1>1 DEF Stage, EnqueueRef
  <1>2. CASE \E p \in Payloads : EnqueuePayload(p)
    BY <1>2 DEF EnqueuePayload
  <1>3. ASSUME NEW w \in Writers, WriterStep(w)
        PROVE  objects' = objects /\ ledger \subseteq ledger'
    BY <1>3 DEF WriterStep, Dequeue, DequeueMalformed, Lookup, Fetch, CloseWindow, CommitLake,
                RequeueEntry, Mark, EvalSpans, IdlePoll, vars
  <1>4. ASSUME NEW w \in Writers, SweepStep(w)
        PROVE  /\ \A b \in objects : b \notin objects' => b \in ledger
               /\ ledger' = ledger
    <2>1. CASE SweepDelete(w)
      BY <2>1 DEF SweepDelete, IInv, DeletesCommitted
    <2>2. CASE ~SweepDelete(w)
      BY <1>4, <2>2 DEF SweepStep, SweepList, SweepUncommitted, SweepExpired, SweepSkip, SweepEnqueue
    <2> QED
      BY <2>1, <2>2
  <1>5. CASE (\E w \in Writers : Crash(w)) \/ RedisRestart
    BY <1>5 DEF Crash, RedisRestart
  <1>6. CASE UNCHANGED vars
    BY <1>6 DEF vars
  <1> QED
    BY <1>1, <1>2, <1>3, <1>4, <1>5, <1>6 DEF Next

(* The garbage collection never deletes an uncommitted object. *)
THEOREM GCSafe == Spec => UncommittedNeverDeleted
  <1>1. IInv /\ [Next]_vars => [\A b \in objects : b \notin objects' => b \in ledger]_vars
    BY StoreSteps
  <1> QED
    BY <1>1, Invariance, PTL DEF Spec, UncommittedNeverDeleted

\* What a step may take off the processing list
AckStep == \A e \in Entries : processing'[e] < processing[e] => Settled(e)'

(* A requeued entry is settled: it is on the queue again. *)
LEMMA RequeueSettles ==
    ASSUME TypeOK, NEW e \in Entries, NEW n \in Nat, Requeue(e, n)
    PROVE  AckStep
  <1>1. SUFFICES ASSUME NEW f \in Entries, processing'[f] < processing[f] PROVE Settled(f)'
    BY DEF AckStep
  <1>2. f = e
    <2>1. processing[f] \in Nat /\ (f # e => processing'[f] = processing[f])
      BY RequeueFacts DEF TypeOK
    <2> QED
      BY <1>1, <2>1
  <1>3. \E i \in DOMAIN queue' : queue'[i] = f
    BY <1>1, <1>2, RequeueFacts
  <1> QED
    BY <1>3 DEF Settled

(* The three places where the writer acks: a reference the ledger knows,   *)
(* one whose object is gone, and an entry of a committed window.           *)
LEMMA AckSettles ==
    ASSUME TypeOK, NEW e \in Entries, Ack(e),
           \/ e \in ledger'
           \/ e \in Payloads /\ lake'[e] # "none"
    PROVE  AckStep
  <1>1. SUFFICES ASSUME NEW f \in Entries, processing'[f] < processing[f] PROVE Settled(f)'
    BY DEF AckStep
  <1>2. processing[f] \in Nat /\ (f # e => processing'[f] = processing[f])
    BY AckFacts DEF TypeOK
  <1>3. f = e
    BY <1>1, <1>2
  <1> QED
    BY <1>3 DEF Settled

LEMMA WriterAcks == ASSUME IInv, NEW w \in Writers, WriterStep(w) PROVE AckStep
  <1> USE DEF IInv
  <1>1. CASE processing' = processing
    BY <1>1 DEF AckStep, TypeOK
  <1>2. CASE Dequeue(w) \/ DequeueMalformed(w)
    <2>1. Head(queue) \in Entries
      BY <1>2 DEF Dequeue, DequeueMalformed, TypeOK
    <2>2. \/ processing' = processing
          \/ processing' = [processing EXCEPT ![Head(queue)] = @ + 1]
      BY <1>2 DEF Dequeue, DequeueMalformed
    <2>3. ASSUME NEW f \in Entries PROVE ~(processing'[f] < processing[f])
      <3>1. processing \in [Entries -> Nat] /\ processing[f] \in Nat
        BY DEF TypeOK
      <3>2. CASE processing' = processing
        BY <3>1, <3>2
      <3>3. CASE processing' = [processing EXCEPT ![Head(queue)] = @ + 1]
        <4>1. processing'[f] = processing[f] \/ processing'[f] = processing[f] + 1
          BY <2>1, <3>1, <3>3
        <4> QED
          BY <3>1, <4>1
      <3> QED
        BY <2>2, <3>2, <3>3
    <2> QED
      BY <2>3 DEF AckStep
  <1>3. CASE Lookup(w)
    <2>1. cur[w] \in Entries
      BY <1>3 DEF Lookup, LoopsInRange, Entries
    <2>2. CASE cur[w] \in ledger /\ Ack(cur[w])
      BY <1>3, <2>1, <2>2, AckSettles DEF Lookup
    <2>3. CASE UNCHANGED redisVars
      BY <1>1, <2>3 DEF redisVars
    <2>4. CASE Requeue(cur[w], 1)
      BY <2>1, <2>4, RequeueSettles
    <2> QED
      BY <1>3, <2>2, <2>3, <2>4 DEF Lookup
  <1>4. CASE Fetch(w)
    <2>1. cur[w] \in Entries /\ cur[w] \in Recoverable
      BY <1>4 DEF Fetch, LoopsInRange, RefsRecoverable, Entries
    <2>2. CASE cur[w] \notin objects /\ Ack(cur[w])
      BY <1>4, <2>1, <2>2, AckSettles DEF Fetch, Recoverable
    <2>3. CASE UNCHANGED redisVars
      BY <1>1, <2>3 DEF redisVars
    <2>4. CASE Requeue(cur[w], 1)
      BY <2>1, <2>4, RequeueSettles
    <2> QED
      BY <1>4, <2>2, <2>3, <2>4 DEF Fetch
  <1>5. CASE RequeueEntry(w)
    <2>1. window[w][next[w]] \in Entries
      BY <1>5 DEF RequeueEntry, LoopsInRange, TypeOK
    <2> QED
      BY <1>5, <2>1, RequeueSettles DEF RequeueEntry
  <1>6. CASE Mark(w)
    <2> DEFINE e == window[w][next[w]]
    <2>1. e \in Entries /\ next[w] \in DOMAIN window[w]
      BY <1>6 DEF Mark, LoopsInRange, TypeOK
    <2>2. e \in Payloads => lake[e] # "none"
      BY <1>6, <2>1, ConstantsAssumption DEF Mark, WindowStored
    <2>3. CASE Requeue(e, 1)
      BY <2>1, <2>3, RequeueSettles
    <2>4. CASE Ack(e) /\ (e \in ledger' \/ e \in Payloads)
      BY <1>6, <2>1, <2>2, <2>4, AckSettles DEF Mark
    <2> QED
      BY <1>6, <2>3, <2>4 DEF Mark
  <1>7. CASE CloseWindow(w) \/ CommitLake(w) \/ EvalSpans(w) \/ IdlePoll(w)
    BY <1>1, <1>7 DEF CloseWindow, CommitLake, EvalSpans, IdlePoll, redisVars, vars
  <1> QED
    BY <1>2, <1>3, <1>4, <1>5, <1>6, <1>7 DEF WriterStep

(* An entry leaves the processing list only once it is committed or back   *)
(* on the queue: in particular the ack of a reference whose object is gone *)
(* drops nothing that is not in the Lake.                                  *)
THEOREM AckSafe == Spec => AckedOnlyWhenSettled
  <1>1. IInv /\ [Next]_vars => [AckStep \/ RedisRestart]_vars
    <2> SUFFICES ASSUME IInv, Next PROVE AckStep \/ RedisRestart
      OBVIOUS
    <2>1. CASE \E w \in Writers : WriterStep(w)
      BY <2>1, WriterAcks
    <2>2. CASE \/ \E b \in Batches : Stage(b) \/ EnqueueRef(b)
               \/ \E p \in Payloads : EnqueuePayload(p)
               \/ \E w \in Writers : SweepStep(w) \/ Crash(w)
      <3>1. processing' = processing
        BY <2>2
        DEF Stage, EnqueueRef, EnqueuePayload, SweepStep, SweepList, SweepUncommitted, SweepExpired,
            SweepSkip, SweepEnqueue, SweepDelete, Crash, redisVars
      <3> QED
        BY <3>1 DEF AckStep, IInv, TypeOK
    <2> QED
      BY <2>1, <2>2 DEF Next
  <1> QED
    BY <1>1, Invariance, PTL DEF Spec, AckedOnlyWhenSettled, AckStep

\* No batch is staged or committed before its request stages it
OnlySubmitted == \A b \in Batches : api[b] = "idle" => b \notin Recoverable

(* Nothing reaches the buffer or the ledger but what a request submitted. *)
LEMMA SubmittedInvariance == Spec => []OnlySubmitted
  <1>1. Init => OnlySubmitted
    BY DEF Init, OnlySubmitted, Recoverable
  <1>2. IInv /\ OnlySubmitted /\ [Next]_vars => OnlySubmitted'
    <2> SUFFICES ASSUME IInv, OnlySubmitted, [Next]_vars PROVE OnlySubmitted'
      OBVIOUS
    <2>1. CASE \E b \in Batches : Stage(b) \/ EnqueueRef(b)
      BY <2>1 DEF Stage, EnqueueRef, OnlySubmitted, Recoverable, IInv, TypeOK, Entries
    <2>2. CASE \E p \in Payloads : EnqueuePayload(p)
      BY <2>2 DEF EnqueuePayload, OnlySubmitted, Recoverable, IInv, TypeOK, Entries
    <2>3. ASSUME NEW w \in Writers, Mark(w) PROVE Recoverable' = Recoverable /\ api' = api
      BY <2>3 DEF Mark, Recoverable, IInv, TypeOK, RefsRecoverable, LoopsInRange
    <2>4. ASSUME NEW w \in Writers, WriterStep(w), ~Mark(w)
          PROVE  Recoverable' = Recoverable /\ api' = api
      BY <2>4 DEF WriterStep, Dequeue, DequeueMalformed, Lookup, Fetch, CloseWindow, CommitLake,
                  RequeueEntry, EvalSpans, IdlePoll, vars, Recoverable
    <2>5. ASSUME NEW w \in Writers, SweepStep(w)
          PROVE  Recoverable' = Recoverable /\ api' = api
      <3>1. CASE SweepDelete(w)
        BY <3>1 DEF SweepDelete, Recoverable, IInv, DeletesCommitted
      <3>2. CASE ~SweepDelete(w)
        BY <2>5, <3>2
        DEF SweepStep, SweepList, SweepUncommitted, SweepExpired, SweepSkip, SweepEnqueue, Recoverable
      <3> QED
        BY <3>1, <3>2
    <2>6. CASE (\E w \in Writers : Crash(w)) \/ RedisRestart \/ UNCHANGED vars
      BY <2>6 DEF Crash, RedisRestart, vars, OnlySubmitted, Recoverable
    <2> QED
      BY <2>1, <2>2, <2>3, <2>4, <2>5, <2>6 DEF Next, OnlySubmitted
  <1> QED
    BY <1>1, <1>2, Invariance, PTL DEF Spec

\* DurableLog's variables under the refinement mapping
absStatus == [b \in Batches |-> StatusOf(b)]
absAnswer == [b \in Batches |-> AnswerOf(b)]

(* A step that keeps requests, recoverability and the ledger is invisible. *)
LEMMA InvisibleStep ==
    ASSUME IInv, IInv', Recoverable' = Recoverable, ledger' = ledger,
           \A b \in Batches : api'[b] = api[b]
    PROVE  absStatus' = absStatus /\ absAnswer' = absAnswer
  BY DEF absStatus, absAnswer, StatusOf, AnswerOf, Recoverable

(* Staging maps to Submit, or to Refuse when the put failed. *)
LEMMA StageSimulates ==
    ASSUME IInv, OnlySubmitted, NEW b \in Batches, Stage(b)
    PROVE  Log!Submit(b) \/ Log!Refuse(b)
  <1>1. /\ api[b] = "idle" /\ b \notin objects /\ b \notin ledger /\ ledger' = ledger
        /\ \A x \in Batches : x # b => api'[x] = api[x] /\ (x \in objects' <=> x \in objects)
    BY DEF Stage, OnlySubmitted, Recoverable, IInv, TypeOK, Entries
  <1>2. absStatus[b] = "new" /\ absAnswer[b] = "none"
    BY <1>1 DEF absStatus, absAnswer, StatusOf, AnswerOf
  <1>3. \A x \in Batches : x # b => absStatus'[x] = absStatus[x] /\ absAnswer'[x] = absAnswer[x]
    BY <1>1 DEF absStatus, absAnswer, StatusOf, AnswerOf
  <1>4. \/ absStatus'[b] = "pending" /\ absAnswer'[b] = "none"
        \/ absStatus'[b] \in {"new", "pending"} /\ absAnswer'[b] = "failed"
    BY <1>1 DEF Stage, absStatus, absAnswer, StatusOf, AnswerOf, IInv, TypeOK, Entries
  <1>5. CASE absStatus'[b] = "pending" /\ absAnswer'[b] = "none"
    <2>1. absStatus' = [absStatus EXCEPT ![b] = "pending"] /\ absAnswer' = absAnswer
      BY <1>2, <1>3, <1>5 DEF absStatus, absAnswer
    <2> QED
      BY <1>2, <2>1 DEF Log!Submit, absStatus, absAnswer
  <1>6. CASE absStatus'[b] \in {"new", "pending"} /\ absAnswer'[b] = "failed"
    <2>1. absAnswer' = [absAnswer EXCEPT ![b] = "failed"]
      BY <1>3, <1>6 DEF absAnswer
    <2>2. absStatus' = absStatus \/ absStatus' = [absStatus EXCEPT ![b] = "pending"]
      BY <1>2, <1>3, <1>6 DEF absStatus
    <2> QED
      BY <1>2, <2>1, <2>2 DEF Log!Refuse, absStatus, absAnswer
  <1> QED
    BY <1>4, <1>5, <1>6

(* Enqueueing the reference maps to Accept, or to Refuse when it failed. *)
LEMMA EnqueueRefSimulates ==
    ASSUME IInv, NEW b \in Batches, EnqueueRef(b)
    PROVE  Log!Accept(b) \/ Log!Refuse(b)
  <1>1. /\ api[b] = "staged" /\ b \in Recoverable /\ ledger' = ledger /\ objects' = objects
        /\ \A x \in Batches : x # b => api'[x] = api[x]
        /\ api'[b] \in {"202", "failed"}
    BY DEF EnqueueRef, RequestsRecoverable, IInv, TypeOK, Entries
  <1>2. absStatus[b] # "new" /\ absAnswer[b] = "none" /\ absStatus' = absStatus
    BY <1>1 DEF absStatus, absAnswer, StatusOf, AnswerOf, Recoverable
  <1>3. absAnswer' = [absAnswer EXCEPT ![b] = api'[b]]
    BY <1>1 DEF absAnswer, AnswerOf
  <1> QED
    BY <1>1, <1>2, <1>3 DEF Log!Accept, Log!Refuse, absStatus, absAnswer

(* A ledger insert maps to Store, or to a stutter when it was there. *)
LEMMA MarkSimulates ==
    ASSUME IInv, IInv', NEW w \in Writers, Mark(w)
    PROVE  (\E b \in Batches : Log!Store(b)) \/ (absStatus' = absStatus /\ absAnswer' = absAnswer)
  <1> DEFINE e == window[w][next[w]]
  <1>1. /\ api' = api /\ objects' = objects /\ (e \in Batches => e \in Recoverable)
        /\ ledger' = ledger \/ (e \in Batches /\ ledger' = ledger \cup {e})
    BY DEF Mark, IInv, TypeOK, RefsRecoverable, LoopsInRange
  <1>2. absAnswer' = absAnswer
    BY <1>1 DEF absAnswer, AnswerOf
  <1>3. CASE ledger' = ledger
    BY <1>1, <1>2, <1>3 DEF absStatus, StatusOf
  <1>4. CASE ledger' # ledger
    <2>1. e \in Batches /\ e \in objects /\ e \notin ledger /\ ledger' = ledger \cup {e}
      BY <1>1, <1>4 DEF Recoverable
    <2>2. absStatus[e] = "pending" /\ absStatus' = [absStatus EXCEPT ![e] = "stored"]
      BY <1>1, <2>1 DEF absStatus, StatusOf
    <2>3. Log!Store(e)
      BY <1>2, <2>1, <2>2 DEF Log!Store, absStatus, absAnswer
    <2> QED
      BY <2>1, <2>3
  <1> QED
    BY <1>3, <1>4

(* The pipeline implements DurableLog: whatever replicas, crashes, lost    *)
(* references and sweeps do, each batch goes from new to pending to stored *)
(* and a 202 is only given to a batch that can no longer be lost.          *)
THEOREM Refinement == Spec => ImplementsDurableLog
  <1>1. Init => Log!Init
    BY DEF Init, Log!Init, StatusOf, AnswerOf, Entries
  <1>2. IInv /\ IInv' /\ OnlySubmitted /\ [Next]_vars => [Log!Next]_(Log!vars)
    <2> SUFFICES ASSUME IInv, IInv', OnlySubmitted, [Next]_vars
                 PROVE  Log!Next \/ (absStatus' = absStatus /\ absAnswer' = absAnswer)
      BY DEF Log!vars, absStatus, absAnswer
    <2>1. CASE \E b \in Batches : Stage(b) \/ EnqueueRef(b)
      BY <2>1, StageSimulates, EnqueueRefSimulates DEF Log!Next
    <2>2. CASE \E p \in Payloads : EnqueuePayload(p)
      <3>1. \A b \in Batches : api'[b] = api[b]
        BY <2>2, ConstantsAssumption DEF EnqueuePayload, IInv, TypeOK, Entries
      <3> QED
        BY <2>2, <3>1, InvisibleStep DEF EnqueuePayload, Recoverable
    <2>3. ASSUME NEW w \in Writers, Mark(w)
          PROVE  Log!Next \/ (absStatus' = absStatus /\ absAnswer' = absAnswer)
      BY <2>3, MarkSimulates DEF Log!Next
    <2>4. ASSUME NEW w \in Writers, WriterStep(w), ~Mark(w)
          PROVE  absStatus' = absStatus /\ absAnswer' = absAnswer
      <3>1. objects' = objects /\ ledger' = ledger /\ api' = api
        BY <2>4 DEF WriterStep, Dequeue, DequeueMalformed, Lookup, Fetch, CloseWindow, CommitLake,
                    RequeueEntry, EvalSpans, IdlePoll, vars
      <3> QED
        BY <3>1, InvisibleStep DEF Recoverable
    <2>5. ASSUME NEW w \in Writers, SweepStep(w)
          PROVE  absStatus' = absStatus /\ absAnswer' = absAnswer
      <3>1. api' = api /\ ledger' = ledger /\ Recoverable' = Recoverable
        <4>1. CASE SweepDelete(w)
          BY <4>1 DEF SweepDelete, Recoverable, IInv, DeletesCommitted
        <4>2. CASE ~SweepDelete(w)
          BY <2>5, <4>2
          DEF SweepStep, SweepList, SweepUncommitted, SweepExpired, SweepSkip, SweepEnqueue, Recoverable
        <4> QED
          BY <4>1, <4>2
      <3> QED
        BY <3>1, InvisibleStep
    <2>6. CASE (\E w \in Writers : Crash(w)) \/ RedisRestart \/ UNCHANGED vars
      BY <2>6, InvisibleStep DEF Crash, RedisRestart, vars, Recoverable
    <2> QED
      BY <2>1, <2>2, <2>3, <2>4, <2>5, <2>6 DEF Next
  <1> QED
    BY <1>1, <1>2, Invariance, SubmittedInvariance, PTL
    DEF Spec, ImplementsDurableLog, Log!SafeSpec
=============================================================================
