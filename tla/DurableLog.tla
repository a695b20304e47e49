----------------------------- MODULE DurableLog -----------------------------
(***************************************************************************)
(* What S3-first ingestion promises of each batch, without queues, writers *)
(* or sweeps: a submitted batch is pending until it is stored, it is never *)
(* lost or stored and then forgotten, and a client is told 202 only about  *)
(* a batch that was submitted.                                             *)
(***************************************************************************)
CONSTANT Batches

VARIABLES
    status,   \* status[b]: "new", "pending" or "stored"
    answer    \* answer[b]: "none", "202" or "failed"

vars == <<status, answer>>

Init ==
    /\ status = [b \in Batches |-> "new"]
    /\ answer = [b \in Batches |-> "none"]

Submit(b) ==
    /\ status[b] = "new"
    /\ answer[b] = "none"
    /\ status' = [status EXCEPT ![b] = "pending"]
    /\ UNCHANGED answer

\* A refused request may nevertheless have been submitted by the failing call
Refuse(b) ==
    /\ answer[b] = "none"
    /\ answer' = [answer EXCEPT ![b] = "failed"]
    /\ \/ UNCHANGED status
       \/ status[b] = "new" /\ status' = [status EXCEPT ![b] = "pending"]

Accept(b) ==
    /\ answer[b] = "none"
    /\ status[b] # "new"
    /\ answer' = [answer EXCEPT ![b] = "202"]
    /\ UNCHANGED status

Store(b) ==
    /\ status[b] = "pending"
    /\ status' = [status EXCEPT ![b] = "stored"]
    /\ UNCHANGED answer

Next == \E b \in Batches : Submit(b) \/ Refuse(b) \/ Accept(b) \/ Store(b)

\* Safety alone
SafeSpec == Init /\ [][Next]_vars

\* A pending batch is not left pending
Spec == SafeSpec /\ \A b \in Batches : WF_vars(Store(b))
=============================================================================
