----------------------------- MODULE LakeClient -----------------------------
(***************************************************************************)
(* internal/lake's Lake: the DuckDB instance that a service attaches to    *)
(* the Quack Server, shared by its goroutines under an RWMutex, and the    *)
(* reconnect that replaces it after the Quack Server restarted.            *)
(*                                                                         *)
(* A handle is an sql.DB with the incarnation of the Quack Server that it  *)
(* is attached to.  The RWMutex is Go's: one writer at a time announces    *)
(* itself, from then on new readers wait, and Unlock lets all of them in.  *)
(* The ten-second budget of a reconnect is abstracted to an attach that    *)
(* may fail at any time.                                                   *)
(***************************************************************************)
EXTENDS Integers, Sequences, FiniteSets

CONSTANTS
    Retrying,    \* goroutines that query, insert or ping: reconnect and retry once
    Single,      \* goroutines that read one row or delete a project: no reconnect
    Unlocked,    \* goroutines in SpanStartTime: no lock
    NoCaller,    \* nobody
    MaxRestarts, \* bound: restarts of the Quack Server
    MaxFaults    \* bound: cancelled requests and failed attaches

Callers == Retrying \cup Single \cup Unlocked

ASSUME ConstantsAssumption ==
    /\ Retrying \cap Single = {} /\ Retrying \cap Unlocked = {} /\ Single \cap Unlocked = {}
    /\ NoCaller \notin Callers
    /\ MaxRestarts \in Nat
    /\ MaxFaults \in Nat

VARIABLES
    up,         \* the Quack Server accepts connections
    gen,        \* its incarnation
    handles,    \* every sql.DB opened so far
    db,         \* l.db, an index of handles
    readers,    \* callers that hold the RLock
    announced,  \* the caller that has called Lock, first in line
    writer,     \* the caller that holds the Lock
    pc,         \* pc[c]: where the call of c is
    using,      \* using[c]: the handle its operation runs on
    retried,    \* callers that have reconnected during this call
    shutdown,   \* shutdownCh is closed
    faults      \* cancelled requests and failed attaches so far

lockVars == <<readers, announced, writer>>
serverVars == <<up, gen>>
vars == <<serverVars, handles, db, lockVars, pc, using, retried, shutdown, faults>>

PCs == {"idle", "rlock", "op", "lock", "attach", "setup", "again"}

(* Type correctness of the state. *)
TypeOK ==
    /\ up \in BOOLEAN
    /\ gen \in Nat
    /\ handles \in Seq([gen : Nat, open : BOOLEAN])
    /\ db \in DOMAIN handles
    /\ readers \in SUBSET Callers
    /\ announced \in Callers \cup {NoCaller}
    /\ writer \in Callers \cup {NoCaller}
    /\ pc \in [Callers -> PCs]
    /\ using \in [Callers -> DOMAIN handles]
    /\ retried \in SUBSET Callers
    /\ shutdown \in BOOLEAN
    /\ faults \in Nat

\* lake.Open has attached to the first incarnation
Init ==
    /\ up = TRUE
    /\ gen = 1
    /\ handles = <<[gen |-> 1, open |-> TRUE]>>
    /\ db = 1
    /\ readers = {}
    /\ announced = NoCaller
    /\ writer = NoCaller
    /\ pc = [c \in Callers |-> "idle"]
    /\ using = [c \in Callers |-> 1]
    /\ retried = {}
    /\ shutdown = FALSE
    /\ faults = 0

Spend(n) ==
    /\ faults + n <= MaxFaults
    /\ faults' = faults + n

-----------------------------------------------------------------------------
(* The RWMutex.                                                            *)

\* RLock returns at once, or c waits at "rlock" until the next Unlock
RLock(c) ==
    /\ IF announced = NoCaller
       THEN /\ readers' = readers \cup {c}
            /\ pc' = [pc EXCEPT ![c] = "op"]
            /\ using' = [using EXCEPT ![c] = db]
       ELSE /\ pc' = [pc EXCEPT ![c] = "rlock"]
            /\ UNCHANGED <<readers, using>>
    /\ UNCHANGED <<announced, writer>>

\* Lock, first half: the first in line keeps new readers out
Announce(c) ==
    /\ pc[c] = "lock"
    /\ announced = NoCaller
    /\ announced' = c
    /\ UNCHANGED <<serverVars, handles, db, readers, writer, pc, using, retried, shutdown, faults>>

\* Unlock by c, whose call goes on at p: the waiting readers get the lock and
\* read l.db, which is d
Unlock(c, p, d) ==
    LET waiting == {r \in Callers : pc[r] = "rlock"} IN
    /\ announced' = NoCaller
    /\ writer' = NoCaller
    /\ readers' = waiting
    /\ pc' = [r \in Callers |-> IF r = c THEN p ELSE IF r \in waiting THEN "op" ELSE pc[r]]
    /\ using' = [r \in Callers |-> IF r \in waiting THEN d ELSE using[r]]

-----------------------------------------------------------------------------
(* Calls.                                                                  *)

\* QueryContext, ExecContext, InsertSpans, Ping, QueryRowContext...
Call(c) ==
    /\ c \notin Unlocked
    /\ pc[c] = "idle"
    /\ RLock(c)
    /\ retried' = retried \ {c}
    /\ UNCHANGED <<serverVars, handles, db, shutdown, faults>>

\* SpanStartTime reads l.db without the lock
CallUnlocked(c) ==
    /\ c \in Unlocked
    /\ pc[c] = "idle"
    /\ pc' = [pc EXCEPT ![c] = "op"]
    /\ using' = [using EXCEPT ![c] = db]
    /\ UNCHANGED <<serverVars, handles, db, lockVars, retried, shutdown, faults>>

\* Mutant of Stale: "Invalid connection id" is not recognised
Stale_DownOnly(h) == ~up

\* isStaleConn: the server does not answer or does not know the connection
Stale(h) == ~up \/ handles[h].gen # gen

\* The operation is over and the RLock is released
Leave(c, p) ==
    /\ readers' = readers \ {c}
    /\ pc' = [pc EXCEPT ![c] = p]

\* The operation succeeds, or fails with an error that is the caller's
Return(c) ==
    /\ pc[c] = "op"
    /\ \/ ~Stale(using[c])
       \/ ~handles[using[c]].open       \* sql: database is closed
       \/ c \notin Retrying
       \/ c \in retried
    /\ Leave(c, "idle")
    /\ UNCHANGED <<serverVars, handles, db, announced, writer, using, retried, shutdown, faults>>

\* isStaleConn: the call goes for the exclusive lock
Reconnect(c) ==
    /\ pc[c] = "op"
    /\ c \in Retrying \ retried
    /\ handles[using[c]].open
    /\ Stale(using[c])
    /\ Leave(c, "lock")
    /\ retried' = retried \cup {c}
    /\ UNCHANGED <<serverVars, handles, db, announced, writer, using, shutdown, faults>>

\* isStaleConn takes "context canceled" for a stale connection, too
CancelledCall(c) ==
    /\ pc[c] = "op"
    /\ c \in Retrying \ retried
    /\ Leave(c, "lock")
    /\ retried' = retried \cup {c}
    /\ Spend(1)
    /\ UNCHANGED <<serverVars, handles, db, announced, writer, using, shutdown>>

-----------------------------------------------------------------------------
(* reconnect, under the exclusive lock.                                    *)

\* Mutant of OpenHandle: reconnect runs under the shared lock
OpenHandle_Shared(c) ==
    /\ pc[c] = "lock"
    /\ announced = c
    /\ writer' = c
    /\ pc' = [pc EXCEPT ![c] = "attach"]
    /\ handles' = Append(handles, [gen |-> 0, open |-> TRUE])
    /\ UNCHANGED <<serverVars, db, readers, announced, using, retried, shutdown, faults>>

\* The readers are gone: the Lock is taken and a fresh instance opened
OpenHandle(c) ==
    /\ pc[c] = "lock"
    /\ announced = c
    /\ readers = {}
    /\ writer' = c
    /\ pc' = [pc EXCEPT ![c] = "attach"]
    /\ handles' = Append(handles, [gen |-> 0, open |-> TRUE])
    /\ UNCHANGED <<serverVars, db, readers, announced, using, retried, shutdown, faults>>

\* Mutant of GiveUp: the fresh instance is not closed
GiveUp_Leaking(c) ==
    /\ Unlock(c, "idle", db)
    /\ UNCHANGED <<handles, db>>

\* Mutant of GiveUp: the error path keeps the Lock
GiveUp_StillLocked(c) ==
    /\ handles' = SubSeq(handles, 1, Len(handles) - 1)
    /\ pc' = [pc EXCEPT ![c] = "idle"]
    /\ UNCHANGED <<db, lockVars, using>>

\* The fresh instance is closed and forgotten, the old one stays, the call returns
GiveUp(c) ==
    /\ handles' = SubSeq(handles, 1, Len(handles) - 1)
    /\ Unlock(c, "idle", db)
    /\ UNCHANGED db

Attach(c) ==
    /\ pc[c] = "attach"
    /\ up
    /\ handles' = [handles EXCEPT ![Len(handles)] = [gen |-> gen, open |-> TRUE]]
    /\ pc' = [pc EXCEPT ![c] = "setup"]
    /\ UNCHANGED <<serverVars, db, lockVars, using, retried, shutdown, faults>>

\* Mutant of AttachFails: l.db is replaced although the attach failed
AttachFails_Swapped(c) ==
    /\ pc[c] \in {"attach", "setup"}
    /\ IF up /\ ~shutdown THEN Spend(1) ELSE Spend(0)
    /\ handles' = [handles EXCEPT ![db] = [gen |-> @.gen, open |-> FALSE]]
    /\ db' = Len(handles)
    /\ Unlock(c, "idle", Len(handles))
    /\ UNCHANGED <<serverVars, retried, shutdown>>

\* The server is down, the budget is spent, or Shutdown cut it short
AttachFails(c) ==
    /\ pc[c] \in {"attach", "setup"}
    /\ IF up /\ ~shutdown THEN Spend(1) ELSE Spend(0)
    /\ GiveUp(c)
    /\ UNCHANGED <<serverVars, retried, shutdown>>

\* Tables and limits are set: the old instance is closed and replaced
Swap(c) ==
    /\ pc[c] = "setup"
    /\ handles' = [handles EXCEPT ![db] = [gen |-> @.gen, open |-> FALSE]]
    /\ db' = Len(handles)
    /\ Unlock(c, "again", Len(handles))
    /\ UNCHANGED <<serverVars, retried, shutdown, faults>>

\* The retry, under the RLock again
Retry(c) ==
    /\ pc[c] = "again"
    /\ RLock(c)
    /\ UNCHANGED <<serverVars, handles, db, retried, shutdown, faults>>

-----------------------------------------------------------------------------
(* Environment.                                                            *)

ServerStops ==
    /\ up
    /\ gen <= MaxRestarts
    /\ up' = FALSE
    /\ UNCHANGED <<gen, handles, db, lockVars, pc, using, retried, shutdown, faults>>

\* The new process knows no connection of the old one
ServerStarts ==
    /\ ~up
    /\ up' = TRUE
    /\ gen' = gen + 1
    /\ UNCHANGED <<handles, db, lockVars, pc, using, retried, shutdown, faults>>

\* preShutdown hook of the service
Shutdown ==
    /\ ~shutdown
    /\ shutdown' = TRUE
    /\ UNCHANGED <<serverVars, handles, db, lockVars, pc, using, retried, faults>>

\* The end of an operation, and the rest of the code of a call
Finish(c) == Return(c) \/ Reconnect(c) \/ CancelledCall(c)
LockStep(c) ==
    \/ Announce(c) \/ OpenHandle(c) \/ Attach(c) \/ AttachFails(c) \/ Swap(c) \/ Retry(c)

Next ==
    \/ \E c \in Callers : Call(c) \/ CallUnlocked(c) \/ Finish(c) \/ LockStep(c)
    \/ ServerStops \/ ServerStarts \/ Shutdown

Spec == Init /\ [][Next]_vars

\* Operations end, reconnects run to their end, the Quack Server is
\* restarted and the probes keep calling
Fairness ==
    /\ \A c \in Callers : WF_vars(Finish(c))
    /\ \A c \in Callers : WF_vars(LockStep(c))
    /\ \A c \in Callers : SF_vars(Announce(c))
    /\ \A c \in Retrying : WF_vars(Call(c))
    /\ WF_vars(ServerStarts)

FairSpec == Spec /\ Fairness

-----------------------------------------------------------------------------
(* Properties.                                                             *)

(* Every call that takes the RLock runs on an instance that stays open     *)
(* until it releases the lock, although other calls replace and close l.db *)
(* (rows that QueryContext returned are read after that).                  *)
LockedCallsUseOpenHandle ==
    \A c \in Callers \ Unlocked : pc[c] = "op" => handles[using[c]].open

(* reconnect leaks no DuckDB instance: the open ones are l.db and the one  *)
(* that is being attached, whatever failed before.                         *)
NoLeakedHandle ==
    \A h \in DOMAIN handles :
        handles[h].open => h = db \/ (writer # NoCaller /\ h = Len(handles))

(* "redundant reconnects are wasteful but harmless": l.db is never         *)
(* replaced by an instance attached to an older incarnation of the server. *)
ReconnectNeverOlder == [][handles'[db'].gen >= handles[db].gen]_vars

(* The Lake heals: once the Quack Server stays up, l.db is attached to it, *)
(* unless the process is shutting down.                                    *)
SelfHeals == <>[](shutdown \/ (up /\ handles[db].gen = gen))

(* Every call returns, whoever reconnects, fails or is cancelled.          *)
CallsReturn == \A c \in Callers : pc[c] # "idle" ~> pc[c] = "idle"
=============================================================================
