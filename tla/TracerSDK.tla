----------------------------- MODULE TracerSDK -----------------------------
(***************************************************************************)
(* sdk/ts: the tracer of the TypeScript SDK.  Spans are kept in memory     *)
(* from startSpan until an export that contains them is acknowledged.      *)
(* Every endSpan flushes: it exports a snapshot of the spans that have     *)
(* ended, and takes them out of memory only when the answer arrives.  In   *)
(* between the program goes on, other flushes start, and the request or    *)
(* its answer may be lost or outlast the ten-second timeout.               *)
(*                                                                         *)
(* A trace ID is named after the span it was generated for.  The fields a  *)
(* caller may set (model, input, tokens, prompt, conversation, output)     *)
(* decide nothing and are left out.                                        *)
(***************************************************************************)
EXTENDS Naturals, FiniteSets

CONSTANTS
    Spans,    \* the spans the program may start
    NoSpan,   \* no parent, or no trace yet
    Flushes   \* bound: exports that are under way at the same time

ASSUME SpansAssumption ==
    /\ NoSpan \notin Spans
    /\ IsFiniteSet(Spans)

VARIABLES
    ready,     \* init() was called
    pending,   \* tracer.pending
    ended,     \* spans with an end_time
    parent,    \* parent[s]: its parent_id
    trace,     \* trace[s]: its trace_id, NoSpan until s is started
    flight,    \* flight[f]: the export that flush f waits for
    received   \* spans that reached the Ingest API

tracerVars == <<ready, pending, ended, parent, trace, flight, received>>

Started == {s \in Spans : trace[s] # NoSpan}
Free == [status |-> "free", spans |-> {}]
Statuses == {"free", "sent", "stored", "abandoned"}

(* Type correctness of the tracer's state. *)
TracerTypeOK ==
    /\ ready \in BOOLEAN
    /\ pending \in SUBSET Spans
    /\ ended \in SUBSET Spans
    /\ parent \in [Spans -> Spans \cup {NoSpan}]
    /\ trace \in [Spans -> Spans \cup {NoSpan}]
    /\ flight \in [Flushes -> [status : Statuses, spans : SUBSET Spans]]
    /\ received \in SUBSET Spans

(* The span reached from p after n steps towards the root, as far as the   *)
(* ancestors are still in memory.                                          *)
Ancestor(p) ==
    LET walk[n \in Nat] ==
            IF n = 0 THEN p
            ELSE IF walk[n - 1] \in pending /\ parent[walk[n - 1]] # NoSpan
                 THEN parent[walk[n - 1]]
                 ELSE walk[n - 1]
    IN  walk[Cardinality(pending)]

(* Mutant: only a parent that is a root itself is found. *)
MutantFindTraceId(p, s) ==
    IF p \in pending /\ parent[p] = NoSpan THEN trace[p] ELSE s

(* findTraceId: the trace of the root of p, or a fresh one when an         *)
(* ancestor has left the memory before the root was found.                 *)
FindTraceId(p, s) ==
    IF Ancestor(p) \in pending THEN trace[Ancestor(p)] ELSE s

TracerInit ==
    /\ ready = FALSE
    /\ pending = {}
    /\ ended = {}
    /\ parent = [s \in Spans |-> NoSpan]
    /\ trace = [s \in Spans |-> NoSpan]
    /\ flight = [f \in Flushes |-> Free]
    /\ received = {}

(* Omneval.init(): before it, every call below is a no-op or throws. *)
InitSDK ==
    /\ ~ready
    /\ ready' = TRUE
    /\ UNCHANGED <<pending, ended, parent, trace, flight, received>>

StartSpan(s, p) ==
    /\ ready
    /\ s \notin Started
    /\ p \in Started \cup {NoSpan}
    /\ pending' = pending \cup {s}
    /\ parent' = [parent EXCEPT ![s] = p]
    /\ trace' = [trace EXCEPT ![s] = IF p = NoSpan THEN s ELSE FindTraceId(p, s)]
    /\ UNCHANGED <<ready, ended, flight, received>>

(* Mutant: open spans are exported too. *)
MutantToExport(e) == pending

(* The spans a flush exports when the spans of e have ended. *)
ToExport(e) == pending \cap e

(* The synchronous part of flush(): a copy of the ended spans goes out. *)
Export(f, e) ==
    /\ flight[f].status = "free"
    /\ flight' = [flight EXCEPT ![f] = [status |-> "sent", spans |-> ToExport(e)]]

(* endSpan(): a span that already ended but is still in memory ends anew. *)
EndSpan(s, f) ==
    /\ ready
    /\ s \in pending
    /\ ended' = ended \cup {s}
    /\ Export(f, ended')
    /\ UNCHANGED <<ready, pending, parent, trace, received>>

Flush(f) ==
    /\ ready
    /\ pending \cap ended # {}
    /\ Export(f, ended)
    /\ UNCHANGED <<ready, pending, ended, parent, trace, received>>

(* External: the Ingest API receives the batch. *)
Receive(f) ==
    /\ flight[f].status \in {"sent", "abandoned"}
    /\ received' = received \cup flight[f].spans
    /\ flight' = [flight EXCEPT ![f] = IF @.status = "sent" THEN [@ EXCEPT !.status = "stored"] ELSE Free]
    /\ UNCHANGED <<ready, pending, ended, parent, trace>>

(* Mutant: every ended span is dropped, also one the export did not hold. *)
MutantAfterExport(f) == {s \in pending : s \notin ended}

(* What a successful export leaves in memory: all but the spans of its own *)
(* snapshot, whatever has ended since.                                     *)
AfterExport(f) == pending \ flight[f].spans

ExportSucceeds(f) ==
    /\ flight[f].status = "stored"
    /\ pending' = AfterExport(f)
    /\ flight' = [flight EXCEPT ![f] = Free]
    /\ UNCHANGED <<ready, ended, parent, trace, received>>

(* A refusal, a network error or the timeout: export() answers false and   *)
(* the spans stay.  A request the client gave up on may still arrive.      *)
ExportFails(f) ==
    /\ \/ /\ flight[f].status = "sent"
          /\ \E to \in {Free, [flight[f] EXCEPT !.status = "abandoned"]} :
                flight' = [flight EXCEPT ![f] = to]
       \/ /\ flight[f].status \in {"stored", "abandoned"}
          /\ flight' = [flight EXCEPT ![f] = Free]
    /\ UNCHANGED <<ready, pending, ended, parent, trace, received>>

TracerNext ==
    \/ InitSDK
    \/ \E s \in Spans, p \in Spans \cup {NoSpan} : StartSpan(s, p)
    \/ \E s \in Spans, f \in Flushes : EndSpan(s, f)
    \/ \E f \in Flushes : Flush(f) \/ Receive(f) \/ ExportSucceeds(f) \/ ExportFails(f)

TracerSpec == TracerInit /\ [][TracerNext]_tracerVars

-----------------------------------------------------------------------------
(* A span that has ended is in memory, to be exported by the next flush,   *)
(* until the Ingest API has it: neither a failed or timed-out export, nor  *)
(* one of several overlapping flushes, nor a span that ends while a flush  *)
(* waits for its answer, makes flush() drop a span nobody received.        *)
EndedNeverLost == \A s \in ended : s \in pending \/ s \in received

(* A span that is still open never leaves the program: ending a child, or  *)
(* flushing for any other reason, exports no ancestor that is still        *)
(* running, not even by a request the client has given up on.              *)
OpenNeverExported ==
    /\ received \subseteq ended
    /\ \A f \in Flushes : flight[f].spans \subseteq ended

(* As long as none of its ancestors has ended, a span is in the trace of   *)
(* its parent, however deep it is and whatever else was exported: the walk *)
(* of findTraceId reaches the root.                                        *)
OpenFamilySharesTrace ==
    \A s \in Started : \A A \in SUBSET (Started \ ended) :
        (parent[s] \in A /\ \A a \in A : parent[a] \in A \cup {NoSpan})
            => trace[s] = trace[parent[s]]
=============================================================================
