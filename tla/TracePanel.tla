---------------------------- MODULE TracePanel ----------------------------
(***************************************************************************)
(* The trace detail overlay (SlideInTraceDetail in                         *)
(* ui/src/pages/TraceDetail.tsx).  It loads one trace of the active        *)
(* project and, as long as the root span has not arrived, polls every five *)
(* seconds, for twenty minutes at most.  Opening another trace or          *)
(* switching the project aborts what is under way; two polls of one trace  *)
(* may overlap.                                                            *)
(***************************************************************************)
EXTENDS Naturals

CONSTANTS
    Traces,
    Owner,      \* Owner[t]: the project of trace t
    NoTrace,
    Polls       \* bound: polls that may overlap

VARIABLES
    overlay,      \* traceOverlay: the trace the panel is open for, or NoTrace
    project,      \* activeProject
    complete,     \* traces whose root span is in the Lake
    shown,        \* trace and traceRollup
    panelLoading,
    panelError,
    liveStatus,
    polling,      \* the interval is set
    expired,      \* the panel has been live for twenty minutes
    load,         \* the first request
    polls         \* polls[i]: a request of the interval

panelVars == <<overlay, shown, panelLoading, panelError, liveStatus, polling, expired, load, polls>>
vars == <<panelVars, project, complete>>

Nothing == [status |-> "none"]
Sent(t, p) == [status |-> "sent", trace |-> t, project |-> p]

Init ==
    /\ overlay = NoTrace
    /\ project \in {Owner[t] : t \in Traces}
    /\ complete = {}
    /\ shown = Nothing
    /\ panelLoading = TRUE
    /\ panelError = FALSE
    /\ liveStatus = "none"
    /\ polling = FALSE
    /\ expired = FALSE
    /\ load = Nothing
    /\ polls = [i \in Polls |-> Nothing]

(* External: the root span of t is committed. *)
RootArrives(t) ==
    /\ t \notin complete
    /\ complete' = complete \cup {t}
    /\ UNCHANGED <<project, panelVars>>

(* Mutant: the interval is cleared, but its requests are not aborted. *)
MutantEffect(t, p) ==
    /\ panelLoading' = TRUE
    /\ panelError' = FALSE
    /\ liveStatus' = "none"
    /\ polling' = FALSE
    /\ expired' = FALSE
    /\ load' = Sent(t, p)
    /\ polls' = polls

(* The effect for trace t of project p, with the cleanup of its            *)
(* predecessor: the controller aborts its requests, the interval is        *)
(* cleared.  What was shown stays in memory behind the spinner.            *)
Effect(t, p) ==
    /\ panelLoading' = TRUE
    /\ panelError' = FALSE
    /\ liveStatus' = "none"
    /\ polling' = FALSE
    /\ expired' = FALSE
    /\ load' = Sent(t, p)
    /\ polls' = [i \in Polls |-> Nothing]

(* A click on a row, an arrow key, or a link of a conversation. *)
Open(t) ==
    /\ t # overlay
    /\ overlay' = t
    /\ Effect(t, project)
    /\ UNCHANGED <<shown, project, complete>>

Close ==
    /\ overlay # NoTrace
    /\ overlay' = NoTrace
    /\ shown' = Nothing
    /\ panelLoading' = TRUE
    /\ panelError' = FALSE
    /\ liveStatus' = "none"
    /\ polling' = FALSE
    /\ expired' = FALSE
    /\ load' = Nothing
    /\ polls' = [i \in Polls |-> Nothing]
    /\ UNCHANGED <<project, complete>>

SwitchProject(p) ==
    /\ p # project
    /\ project' = p
    /\ IF overlay = NoTrace
       THEN UNCHANGED <<panelLoading, panelError, liveStatus, polling, expired, load, polls>>
       ELSE Effect(overlay, p)
    /\ UNCHANGED <<overlay, shown, complete>>

-----------------------------------------------------------------------------
(* HandleTraceDetail: the trace if it is the project's, as far as it has   *)
(* arrived; any other answer counts as an error.                           *)
Response(r) ==
    IF Owner[r.trace] = r.project
    THEN [status |-> "ok", trace |-> r.trace, project |-> r.project, complete |-> r.trace \in complete]
    ELSE [status |-> "failed"]

AnswerLoad ==
    /\ load.status = "sent"
    /\ load' = Response(load)
    /\ UNCHANGED <<overlay, shown, panelLoading, panelError, liveStatus, polling, expired, polls, project, complete>>

(* The first answer: show it, and go live while the root span is missing. *)
LoadSucceeds ==
    /\ load.status = "ok"
    /\ shown' = load
    /\ panelLoading' = FALSE
    /\ liveStatus' = IF load.complete THEN "none" ELSE "live"
    /\ polling' = ~load.complete
    /\ load' = Nothing
    /\ UNCHANGED <<overlay, panelError, expired, polls, project, complete>>

LoadFails ==
    /\ load.status \in {"sent", "failed"}
    /\ panelError' = TRUE
    /\ panelLoading' = FALSE
    /\ load' = Nothing
    /\ UNCHANGED <<overlay, shown, liveStatus, polling, expired, polls, project, complete>>

(* External: twenty minutes have passed since the panel went live. *)
Expire ==
    /\ liveStatus = "live"
    /\ ~expired
    /\ expired' = TRUE
    /\ UNCHANGED <<overlay, shown, panelLoading, panelError, liveStatus, polling, load, polls, project, complete>>

(* Mutant: the interval never gives up. *)
MutantPollTick ==
    /\ polling
    /\ \E i \in Polls :
          /\ polls[i] = Nothing
          /\ polls' = [polls EXCEPT ![i] = Sent(overlay, project)]
          /\ UNCHANGED <<liveStatus, polling>>
    /\ UNCHANGED <<overlay, shown, panelLoading, panelError, expired, load, project, complete>>

(* The interval: give up after twenty minutes, else poll once more. *)
PollTick ==
    /\ polling
    /\ IF expired
       THEN /\ liveStatus' = "stalled"
            /\ polling' = FALSE
            /\ UNCHANGED polls
       ELSE \E i \in Polls :
               /\ polls[i] = Nothing
               /\ polls' = [polls EXCEPT ![i] = Sent(overlay, project)]
               /\ UNCHANGED <<liveStatus, polling>>
    /\ UNCHANGED <<overlay, shown, panelLoading, panelError, expired, load, project, complete>>

AnswerPoll(i) ==
    /\ polls[i].status = "sent"
    /\ polls' = [polls EXCEPT ![i] = Response(@)]
    /\ UNCHANGED <<overlay, shown, panelLoading, panelError, liveStatus, polling, expired, load, project, complete>>

PollSucceeds(i) ==
    /\ polls[i].status = "ok"
    /\ shown' = polls[i]
    /\ liveStatus' = IF polls[i].complete THEN "none" ELSE liveStatus
    /\ polling' = (polling /\ ~polls[i].complete)
    /\ polls' = [polls EXCEPT ![i] = Nothing]
    /\ UNCHANGED <<overlay, panelLoading, panelError, expired, load, project, complete>>

(* A poll that fails is ignored. *)
PollFails(i) ==
    /\ polls[i].status \in {"sent", "failed"}
    /\ polls' = [polls EXCEPT ![i] = Nothing]
    /\ UNCHANGED <<overlay, shown, panelLoading, panelError, liveStatus, polling, expired, load, project, complete>>

Async ==
    \/ \E t \in Traces : RootArrives(t)
    \/ AnswerLoad \/ LoadSucceeds \/ LoadFails
    \/ Expire \/ PollTick
    \/ \E i \in Polls : AnswerPoll(i) \/ PollSucceeds(i) \/ PollFails(i)

Next ==
    \/ \E t \in Traces : Open(t)
    \/ Close
    \/ \E p \in {Owner[t] : t \in Traces} : SwitchProject(p)
    \/ Async

Spec == Init /\ [][Next]_vars

(* Time passes, and the browser runs the interval. *)
Fairness == WF_vars(Expire) /\ WF_vars(PollTick)

-----------------------------------------------------------------------------
(* The panel shows a trace: neither its skeleton nor its error. *)
Displayed == overlay # NoTrace /\ ~panelLoading /\ ~panelError

(* Once the spinner is gone the panel shows the trace it was opened for,   *)
(* of the active project: no answer to a load or a poll of a trace that    *)
(* was open before, or of another project, replaces it.                    *)
PanelShowsItsTrace ==
    Displayed => shown.status = "ok" /\ shown.trace = overlay /\ shown.project = project

(* A panel does not stay live for ever: the root span arrives, twenty      *)
(* minutes pass, or the user moves on.                                     *)
LiveEnds == liveStatus = "live" ~> liveStatus # "live"
=============================================================================
