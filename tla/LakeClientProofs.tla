------------------------- MODULE LakeClientProofs --------------------------
(***************************************************************************)
(* Proofs about the Lake client for every set of goroutines and every      *)
(* number of restarts, cancelled requests and failed attaches.             *)
(***************************************************************************)
EXTENDS LakeClient, SequenceTheorems, TLAPS

(* The RWMutex excludes: the goroutine in reconnect is the one that        *)
(* announced itself, and nobody holds the RLock meanwhile.  The holders of *)
(* the RLock are the operations under way, but for SpanStartTime's.        *)
LockInv ==
    /\ writer # NoCaller => announced = writer /\ readers = {}
    /\ \A c \in Callers : pc[c] \in {"attach", "setup"} <=> writer = c
    /\ readers = {c \in Callers \ Unlocked : pc[c] = "op"}
    /\ \A c \in Unlocked : pc[c] \in {"idle", "op"}

(* A holder of the RLock runs on l.db, which is open and is never the      *)
(* instance that a reconnect is attaching.                                 *)
HandleInv ==
    /\ handles[db].open
    /\ \A c \in readers : using[c] = db
    /\ writer # NoCaller => /\ handles[Len(handles)].open
                            /\ db # Len(handles)
                            /\ \A c \in Callers : using[c] # Len(handles)

(* No instance is attached to an incarnation that has not started yet, and *)
(* an attached one that waits for its swap is no older than l.db.          *)
GenInv ==
    /\ \A h \in DOMAIN handles : handles[h].gen <= gen
    /\ \A c \in Callers : pc[c] = "setup" => handles[Len(handles)].gen >= handles[db].gen

(* The inductive invariant. *)
IInv == TypeOK /\ LockInv /\ HandleInv /\ NoLeakedHandle /\ GenInv

-----------------------------------------------------------------------------
(* lake.Open leaves one attached instance and a free lock. *)
LEMMA InitIInv == Init => IInv
  <1> SUFFICES ASSUME Init PROVE IInv
    OBVIOUS
  <1> USE DEF Init
  <1>1. TypeOK
    <2>1. handles \in Seq([gen : Nat, open : BOOLEAN]) /\ DOMAIN handles = 1..1
      OBVIOUS
    <2>2. db \in DOMAIN handles /\ using \in [Callers -> DOMAIN handles]
      BY <2>1
    <2>3. QED  BY <2>1, <2>2 DEF TypeOK, PCs
  <1>2. LockInv
    BY ConstantsAssumption DEF LockInv, Callers
  <1>3. HandleInv /\ NoLeakedHandle /\ GenInv
    BY DEF HandleInv, NoLeakedHandle, GenInv
  <1>4. QED  BY <1>1, <1>2, <1>3 DEF IInv

(* RLock by a goroutine that is outside: it gets the lock and l.db, or     *)
(* waits; nothing is disturbed.                                            *)
LEMMA RLockIInv ==
    ASSUME IInv, NEW c \in Callers \ Unlocked, pc[c] \in {"idle", "again"}, RLock(c),
           retried' \in SUBSET Callers,
           UNCHANGED <<serverVars, handles, db, shutdown, faults>>
    PROVE  IInv'
  <1> USE DEF IInv
  <1>1. TypeOK'
    BY DEF RLock, TypeOK, PCs, serverVars
  <1>2. LockInv'
    <2>1. CASE announced = NoCaller
      <3>1. /\ readers' = readers \cup {c} /\ pc' = [pc EXCEPT ![c] = "op"]
            /\ UNCHANGED <<announced, writer>>
        BY <2>1 DEF RLock
      <3>2. QED  BY <2>1, <3>1, ConstantsAssumption DEF TypeOK, LockInv, Callers
    <2>2. CASE announced # NoCaller
      <3>1. pc' = [pc EXCEPT ![c] = "rlock"] /\ UNCHANGED <<readers, announced, writer>>
        BY <2>2 DEF RLock
      <3>2. QED  BY <3>1, ConstantsAssumption DEF TypeOK, LockInv, Callers
    <2>3. QED  BY <2>1, <2>2
  <1>3. HandleInv'
    BY ConstantsAssumption DEF RLock, TypeOK, LockInv, HandleInv
  <1>4. NoLeakedHandle'
    BY DEF RLock, NoLeakedHandle
  <1>5. GenInv'
    BY DEF RLock, TypeOK, GenInv, serverVars
  <1>6. QED  BY <1>1, <1>2, <1>3, <1>4, <1>5

(* An operation that ends gives its RLock back. *)
LEMMA LeaveIInv ==
    ASSUME IInv, NEW c \in Callers, NEW p \in {"idle", "lock"}, pc[c] = "op", Leave(c, p),
           p = "lock" => c \in Retrying,
           retried' \in SUBSET Callers, faults' \in Nat,
           UNCHANGED <<serverVars, handles, db, announced, writer, using, shutdown>>
    PROVE  IInv'
  <1> USE DEF IInv
  <1>1. TypeOK'
    BY DEF Leave, TypeOK, PCs, serverVars
  <1>2. LockInv'
    BY ConstantsAssumption DEF Leave, TypeOK, LockInv
  <1>3. HandleInv'
    BY DEF Leave, HandleInv
  <1>4. NoLeakedHandle'
    BY DEF Leave, NoLeakedHandle
  <1>5. GenInv'
    BY DEF Leave, TypeOK, GenInv, serverVars
  <1>6. QED  BY <1>1, <1>2, <1>3, <1>4, <1>5

(* Unlock by the goroutine in reconnect: the lock invariant holds again,   *)
(* with exactly the goroutines that waited as holders of the RLock.        *)
LEMMA UnlockLock ==
    ASSUME TypeOK, LockInv, NEW c \in Callers, pc[c] \in {"attach", "setup"},
           NEW p \in {"idle", "again"}, NEW d, Unlock(c, p, d)
    PROVE  /\ LockInv'
           /\ pc' \in [Callers -> PCs]
           /\ readers' \in SUBSET Callers
           /\ announced' = NoCaller
           /\ writer' = NoCaller
           /\ \A r \in Callers : using'[r] = IF r \in readers' THEN d ELSE using[r]
           /\ using' \in [Callers -> {d} \cup DOMAIN handles]
           /\ \A r \in Callers : pc'[r] # "setup"
  <1>1. writer = c /\ readers = {} /\ c \notin Unlocked
    BY ConstantsAssumption DEF LockInv
  <1>2. \A r \in Callers : pc[r] \in {"attach", "setup"} => r = c
    BY <1>1 DEF LockInv
  <1>3. \A r \in Callers \ Unlocked : pc[r] # "op"
    BY <1>1 DEF LockInv
  <1>4. pc' \in [Callers -> PCs] /\ readers' \in SUBSET Callers
    BY DEF Unlock, TypeOK, PCs
  <1>5. /\ writer' = NoCaller /\ announced' = NoCaller
        /\ \A r \in Callers : pc'[r] \notin {"attach", "setup"}
    BY <1>2 DEF Unlock
  <1>6. readers' = {r \in Callers \ Unlocked : pc'[r] = "op"}
    BY <1>1, <1>3 DEF Unlock, LockInv
  <1>7. \A r \in Unlocked : pc'[r] \in {"idle", "op"}
    BY <1>1 DEF Unlock, LockInv, Callers
  <1>8. LockInv'
    BY <1>5, <1>6, <1>7, ConstantsAssumption DEF LockInv
  <1>9. QED  BY <1>4, <1>5, <1>8 DEF Unlock, TypeOK

-----------------------------------------------------------------------------
(* What happens to the instances in reconnect.                             *)

LEMMA HandleType ==
    ASSUME TypeOK, NEW h \in DOMAIN handles
    PROVE  handles[h] \in [gen : Nat, open : BOOLEAN]
  <1>1. handles \in [1..Len(handles) -> [gen : Nat, open : BOOLEAN]]
    BY LenProperties DEF TypeOK
  <1>2. QED  BY <1>1

LEMMA AnnounceIInv ==
    ASSUME IInv, NEW c \in Callers, Announce(c)
    PROVE  IInv'
  <1> USE DEF IInv, Announce, serverVars
  <1>1. TypeOK' /\ HandleInv' /\ NoLeakedHandle' /\ GenInv'
    BY DEF TypeOK, HandleInv, NoLeakedHandle, GenInv
  <1>2. LockInv'
    BY ConstantsAssumption DEF LockInv, TypeOK
  <1>3. QED  BY <1>1, <1>2

LEMMA OpenHandleIInv ==
    ASSUME IInv, NEW c \in Callers, OpenHandle(c)
    PROVE  IInv'
  <1> USE DEF IInv
  <1> DEFINE fresh == [gen |-> 0, open |-> TRUE]
  <1>1. writer = NoCaller
    BY ConstantsAssumption DEF OpenHandle, LockInv, TypeOK
  <1>2. /\ handles' \in Seq([gen : Nat, open : BOOLEAN])
        /\ Len(handles') = Len(handles) + 1
        /\ DOMAIN handles' = 1..(Len(handles) + 1)
        /\ \A h \in DOMAIN handles : h \in 1..Len(handles) /\ handles'[h] = handles[h]
        /\ handles'[Len(handles')] = fresh
    BY DEF OpenHandle, TypeOK
  <1>3. TypeOK'
    BY <1>2 DEF OpenHandle, TypeOK, PCs, serverVars
  <1>4. LockInv'
    BY <1>1, ConstantsAssumption DEF OpenHandle, LockInv, TypeOK
  <1>5. HandleInv'
    BY <1>2 DEF OpenHandle, HandleInv, TypeOK
  <1>6. NoLeakedHandle'
    BY <1>1, <1>2, ConstantsAssumption DEF OpenHandle, NoLeakedHandle, TypeOK
  <1>7. GenInv'
    BY <1>1, <1>2, ConstantsAssumption DEF OpenHandle, GenInv, LockInv, TypeOK, serverVars
  <1>8. QED  BY <1>3, <1>4, <1>5, <1>6, <1>7

(* The last of the instances is replaced; l.db is not touched. *)
LEMMA AttachIInv ==
    ASSUME IInv, NEW c \in Callers, Attach(c)
    PROVE  IInv'
  <1> USE DEF IInv
  <1>1. writer = c /\ db # Len(handles)
    BY ConstantsAssumption DEF Attach, LockInv, HandleInv, TypeOK
  <1>2. /\ handles' \in Seq([gen : Nat, open : BOOLEAN])
        /\ Len(handles') = Len(handles)
        /\ DOMAIN handles' = DOMAIN handles
        /\ Len(handles) \in DOMAIN handles
        /\ \A h \in DOMAIN handles :
              handles'[h] = IF h = Len(handles) THEN [gen |-> gen, open |-> TRUE] ELSE handles[h]
    BY DEF Attach, TypeOK
  <1>3. TypeOK'
    BY <1>2 DEF Attach, TypeOK, PCs, lockVars, serverVars
  <1>4. LockInv'
    BY <1>1 DEF Attach, LockInv, TypeOK, lockVars
  <1>5. HandleInv'
    BY <1>1, <1>2 DEF Attach, HandleInv, TypeOK, lockVars
  <1>6. NoLeakedHandle'
    BY <1>1, <1>2, ConstantsAssumption DEF Attach, NoLeakedHandle, lockVars
  <1>7. GenInv'
    BY <1>1, <1>2 DEF Attach, GenInv, TypeOK, serverVars
  <1>8. QED  BY <1>3, <1>4, <1>5, <1>6, <1>7

(* The fresh instance is forgotten; nobody has ever used it. *)
LEMMA AttachFailsIInv ==
    ASSUME IInv, NEW c \in Callers, AttachFails(c)
    PROVE  IInv'
  <1> USE DEF IInv
  <1>1. /\ writer = c /\ writer # NoCaller /\ readers = {}
        /\ db # Len(handles) /\ \A r \in Callers : using[r] # Len(handles)
    BY ConstantsAssumption DEF AttachFails, LockInv, HandleInv, TypeOK
  <1>2. Unlock(c, "idle", db) /\ db' = db /\ handles' = SubSeq(handles, 1, Len(handles) - 1)
    BY DEF AttachFails, GiveUp
  <1>3. /\ handles' \in Seq([gen : Nat, open : BOOLEAN])
        /\ DOMAIN handles' = DOMAIN handles \ {Len(handles)}
        /\ \A h \in DOMAIN handles' : handles'[h] = handles[h]
    <2>1. Len(handles) \in Nat \ {0} /\ DOMAIN handles = 1..Len(handles)
      BY DEF TypeOK
    <2>2. \A h \in 1..(Len(handles) - 1) : handles[h] \in [gen : Nat, open : BOOLEAN]
      BY <2>1, HandleType
    <2>3. QED  BY <1>2, <2>1, <2>2, SubSeqProperties
  <1>4. /\ LockInv'
        /\ pc' \in [Callers -> PCs]
        /\ readers' \in SUBSET Callers
        /\ announced' = NoCaller
        /\ writer' = NoCaller
        /\ \A r \in Callers : using'[r] = IF r \in readers' THEN db ELSE using[r]
        /\ using' \in [Callers -> {db} \cup DOMAIN handles]
        /\ \A r \in Callers : pc'[r] # "setup"
    BY <1>2, UnlockLock DEF AttachFails
  <1>5. faults' \in Nat
    BY DEF AttachFails, Spend, TypeOK
  <1>6. TypeOK'
    BY <1>1, <1>2, <1>3, <1>4, <1>5 DEF AttachFails, TypeOK, serverVars
  <1>7. HandleInv'
    BY <1>1, <1>2, <1>3, <1>4 DEF HandleInv, TypeOK
  <1>8. NoLeakedHandle'
    BY <1>2, <1>3, <1>4 DEF NoLeakedHandle
  <1>9. GenInv'
    BY <1>3, <1>4 DEF AttachFails, GenInv, serverVars
  <1>10. QED  BY <1>4, <1>6, <1>7, <1>8, <1>9

(* The old instance is closed when nobody holds the RLock. *)
LEMMA SwapIInv ==
    ASSUME IInv, NEW c \in Callers, Swap(c)
    PROVE  IInv' /\ handles'[db'].gen >= handles[db].gen
  <1> USE DEF IInv
  <1>1. /\ writer = c /\ writer # NoCaller /\ readers = {}
        /\ db # Len(handles) /\ \A r \in Callers : using[r] # Len(handles)
    BY ConstantsAssumption DEF Swap, LockInv, HandleInv, TypeOK
  <1>2. Unlock(c, "again", Len(handles)) /\ db' = Len(handles)
    BY DEF Swap
  <1>3. /\ handles' \in Seq([gen : Nat, open : BOOLEAN])
        /\ Len(handles') = Len(handles)
        /\ DOMAIN handles' = DOMAIN handles
        /\ Len(handles) \in DOMAIN handles
        /\ \A h \in DOMAIN handles :
              handles'[h] = IF h = db THEN [gen |-> handles[db].gen, open |-> FALSE] ELSE handles[h]
    <2>1. [gen |-> handles[db].gen, open |-> FALSE] \in [gen : Nat, open : BOOLEAN]
      BY HandleType DEF TypeOK
    <2>2. handles' = [handles EXCEPT ![db] = [gen |-> handles[db].gen, open |-> FALSE]]
      BY DEF Swap
    <2>3. QED  BY <2>1, <2>2 DEF TypeOK
  <1>4. /\ LockInv'
        /\ pc' \in [Callers -> PCs]
        /\ readers' \in SUBSET Callers
        /\ announced' = NoCaller
        /\ writer' = NoCaller
        /\ \A r \in Callers : using'[r] = IF r \in readers' THEN Len(handles) ELSE using[r]
        /\ using' \in [Callers -> {Len(handles)} \cup DOMAIN handles]
        /\ \A r \in Callers : pc'[r] # "setup"
    BY <1>2, UnlockLock DEF Swap
  <1>5. handles[Len(handles)].open
    BY <1>1 DEF HandleInv
  <1>6. TypeOK'
    BY <1>2, <1>3, <1>4 DEF Swap, TypeOK, serverVars
  <1>7. HandleInv'
    BY <1>1, <1>2, <1>3, <1>4, <1>5 DEF HandleInv
  <1>8. NoLeakedHandle'
    BY <1>1, <1>2, <1>3, <1>4 DEF NoLeakedHandle
  <1>9. GenInv'
    BY <1>3, <1>4 DEF Swap, GenInv, TypeOK, serverVars
  <1>10. handles'[db'].gen >= handles[db].gen
    BY <1>1, <1>2, <1>3 DEF Swap, GenInv
  <1>11. QED  BY <1>4, <1>6, <1>7, <1>8, <1>9, <1>10

-----------------------------------------------------------------------------
(* Every step keeps the invariant, and none replaces l.db by an instance   *)
(* of an older incarnation.                                                *)
LEMMA NextIInv ==
    ASSUME IInv, [Next]_vars
    PROVE  IInv' /\ handles'[db'].gen >= handles[db].gen
  <1> USE DEF IInv
  <1>1. handles[db].gen \in Nat
    BY HandleType DEF TypeOK
  <1>2. ASSUME NEW c \in Callers, Call(c) PROVE IInv' /\ UNCHANGED <<handles, db>>
    BY <1>2, RLockIInv DEF Call, TypeOK
  <1>3. ASSUME NEW c \in Callers, CallUnlocked(c) PROVE IInv' /\ UNCHANGED <<handles, db>>
    <2> USE DEF CallUnlocked, lockVars, serverVars
    <2>1. TypeOK' /\ NoLeakedHandle' /\ GenInv'
      BY <1>3 DEF TypeOK, PCs, NoLeakedHandle, GenInv
    <2>2. LockInv'
      BY <1>3 DEF TypeOK, LockInv
    <2>3. HandleInv'
      BY <1>3 DEF TypeOK, LockInv, HandleInv
    <2>4. QED  BY <1>3, <2>1, <2>2, <2>3
  <1>4. ASSUME NEW c \in Callers, Return(c) PROVE IInv' /\ UNCHANGED <<handles, db>>
    BY <1>4, LeaveIInv DEF Return, TypeOK
  <1>5. ASSUME NEW c \in Callers, Reconnect(c) PROVE IInv' /\ UNCHANGED <<handles, db>>
    BY <1>5, LeaveIInv DEF Reconnect, TypeOK, Callers
  <1>6. ASSUME NEW c \in Callers, CancelledCall(c) PROVE IInv' /\ UNCHANGED <<handles, db>>
    <2>1. retried' \in SUBSET Callers /\ faults' \in Nat
      BY <1>6 DEF CancelledCall, Spend, TypeOK
    <2>2. QED  BY <1>6, <2>1, LeaveIInv DEF CancelledCall
  <1>7. ASSUME NEW c \in Callers, Announce(c) PROVE IInv' /\ UNCHANGED <<handles, db>>
    BY <1>7, AnnounceIInv DEF Announce
  <1>8. ASSUME NEW c \in Callers, OpenHandle(c) PROVE IInv' /\ handles'[db'] = handles[db]
    <2>1. Append(handles, [gen |-> 0, open |-> TRUE])[db] = handles[db]
      BY DEF TypeOK
    <2>2. QED  BY <1>8, <2>1, OpenHandleIInv DEF OpenHandle
  <1>9. ASSUME NEW c \in Callers, Attach(c) PROVE IInv' /\ handles'[db'] = handles[db]
    <2>1. db # Len(handles)
      BY <1>9, ConstantsAssumption DEF Attach, LockInv, HandleInv
    <2>2. QED  BY <1>9, <2>1, AttachIInv DEF Attach, TypeOK
  <1>10. ASSUME NEW c \in Callers, AttachFails(c) PROVE IInv' /\ handles'[db'] = handles[db]
    <2>1. IInv' /\ handles' = SubSeq(handles, 1, Len(handles) - 1) /\ db' = db
      BY <1>10, AttachFailsIInv DEF AttachFails, GiveUp
    <2>2. db \in 1..(Len(handles) - 1)
      BY <1>10, ConstantsAssumption DEF AttachFails, LockInv, HandleInv, TypeOK
    <2>3. \A h \in 1..(Len(handles) - 1) : handles[h] \in [gen : Nat, open : BOOLEAN]
      BY HandleType DEF TypeOK
    <2>4. SubSeq(handles, 1, Len(handles) - 1)[db] = handles[db]
      BY <2>2, <2>3, SubSeqProperties DEF TypeOK
    <2>5. QED  BY <2>1, <2>4
  <1>11. ASSUME NEW c \in Callers, Swap(c) PROVE IInv' /\ handles'[db'].gen >= handles[db].gen
    BY <1>11, SwapIInv
  <1>12. ASSUME NEW c \in Callers, Retry(c) PROVE IInv' /\ UNCHANGED <<handles, db>>
    BY <1>12, RLockIInv DEF Retry, TypeOK, LockInv
  <1>13. CASE ServerStops \/ ServerStarts \/ Shutdown \/ UNCHANGED vars
    <2> USE <1>13 DEF ServerStops, ServerStarts, Shutdown, vars, lockVars, serverVars
    <2>1. TypeOK'
      <3>1. up' \in BOOLEAN /\ shutdown' \in BOOLEAN
        BY Zenon DEF TypeOK
      <3>2. gen' \in Nat
        BY DEF TypeOK
      <3>3. UNCHANGED <<handles, db, readers, announced, writer, pc, using, retried, faults>>
        OBVIOUS
      <3>4. QED  BY <3>1, <3>2, <3>3 DEF TypeOK
    <2>2. LockInv' /\ HandleInv' /\ NoLeakedHandle'
      BY DEF LockInv, HandleInv, NoLeakedHandle
    <2>3. GenInv'
      BY HandleType DEF GenInv, TypeOK
    <2>4. QED  BY <1>1, <2>1, <2>2, <2>3
  <1>14. QED
    BY <1>1, <1>2, <1>3, <1>4, <1>5, <1>6, <1>7, <1>8, <1>9, <1>10, <1>11, <1>12, <1>13
       DEF Next, Finish, LockStep

(* The invariant holds in every behaviour of the Lake client. *)
THEOREM Invariance == Spec => []IInv
  <1>1. IInv /\ [Next]_vars => IInv'
    BY NextIInv
  <1>2. QED  BY InitIInv, <1>1, PTL DEF Spec

(* A call under the RLock never runs on an instance that a reconnect has   *)
(* closed, for any number of goroutines, restarts and failures.            *)
THEOREM OpenHandles == Spec => []LockedCallsUseOpenHandle
  <1>1. IInv => LockedCallsUseOpenHandle
    BY DEF IInv, LockInv, HandleInv, LockedCallsUseOpenHandle
  <1>2. QED  BY Invariance, <1>1, PTL

(* No reconnect leaks the instance it opened, whichever step failed. *)
THEOREM NoLeak == Spec => []NoLeakedHandle
  <1>1. IInv => NoLeakedHandle
    BY DEF IInv
  <1>2. QED  BY Invariance, <1>1, PTL

(* Redundant reconnects are harmless: however many goroutines meet the     *)
(* same stale connection, l.db only moves to newer incarnations.           *)
THEOREM NeverOlder == Spec => ReconnectNeverOlder
  <1>1. IInv /\ [Next]_vars => [handles'[db'].gen >= handles[db].gen]_vars
    BY NextIInv
  <1>2. QED  BY Invariance, <1>1, PTL DEF Spec, ReconnectNeverOlder
=============================================================================
