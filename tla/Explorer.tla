------------------------------ MODULE Explorer ------------------------------
(***************************************************************************)
(* The Dashboard and the trace detail overlay as App.tsx composes them:    *)
(* one active project for both, and an overlay that stays open when the    *)
(* page behind it changes.  A page that is left is unmounted; a switch of  *)
(* the project in the header reaches everything on screen at once.  (The   *)
(* Traces page is the module TracesPage.)                                  *)
(***************************************************************************)
EXTENDS Naturals

CONSTANTS
    Traces, Owner, NoTrace, Polls,
    Ranges, Widgets, Concurrency, MaxRefresh

ASSUME NoTraceAssumption == NoTrace \notin Traces
ASSUME RefreshAssumption ==
    /\ Widgets \in Nat
    /\ Concurrency \in Nat \ {0}
    /\ MaxRefresh \in Nat

Projects == {Owner[t] : t \in Traces}
Pages == {"dashboard", "traces"}

VARIABLES
    page, project,
    overlay, complete, shown, panelLoading, panelError, liveStatus, polling, expired, load, polls,
    range, seq, batches, widgets, busy, failed

Panel == INSTANCE TracePanel
Dash == INSTANCE DashboardPage WITH open <- (page = "dashboard")

panelState == <<overlay, shown, panelLoading, panelError, liveStatus, polling, expired, load, polls>>
dashState == <<range, seq, batches, widgets, busy, failed>>
vars == <<page, project, complete, panelState, dashState>>

Init ==
    /\ page = "traces"
    /\ Panel!Init
    /\ Dash!Init

(* Page q takes the place of the one on screen. *)
ShowPage(q) ==
    /\ page' = q
    /\ \/ page = "dashboard" /\ q # page /\ Dash!Unmount
       \/ q = "dashboard" /\ q # page /\ Dash!Mount
       \/ (page = "dashboard" <=> q = "dashboard") /\ UNCHANGED <<project, dashState>>

(* handleNavigate: the overlay stays open over the new page. *)
Navigate(q) ==
    /\ q # page
    /\ ShowPage(q)
    /\ UNCHANGED <<complete, panelState>>

(* The address /traces/{traceId}, by a deep link or the browser's history, *)
(* a row of the list, or an arrow key that moves on to one: the list is    *)
(* behind the overlay.                                                     *)
OpenTrace(t) ==
    /\ ShowPage("traces")
    /\ Panel!Open(t)

CloseOverlay ==
    /\ Panel!Close
    /\ UNCHANGED <<page, dashState>>

(* The project switcher of the header. *)
SwitchProject(p) ==
    /\ UNCHANGED page
    /\ Panel!SwitchProject(p)
    /\ IF page = "dashboard" THEN Dash!SwitchProject(p) ELSE UNCHANGED dashState

PanelOnly == UNCHANGED <<page, dashState>>
PanelStep == PanelOnly /\ Panel!Async

DashStep ==
    /\ UNCHANGED <<page, project, complete, panelState>>
    /\ \/ Dash!Refresh
       \/ \E r \in Ranges : Dash!SetRange(r)
       \/ Dash!Async

Next ==
    \/ \E q \in Pages : Navigate(q)
    \/ \E t \in Traces : OpenTrace(t)
    \/ CloseOverlay
    \/ \E p \in Projects : SwitchProject(p)
    \/ PanelStep
    \/ DashStep

(* The browser runs the panel's interval, and its twenty minutes pass. *)
Fairness ==
    /\ WF_vars(PanelOnly /\ Panel!Expire)
    /\ WF_vars(PanelOnly /\ Panel!PollTick)

Spec == Init /\ [][Next]_vars /\ Fairness

-----------------------------------------------------------------------------
(* Whatever page is behind it, the overlay shows the trace it was opened   *)
(* for, read for the active project: no answer to a load or a poll of      *)
(* another trace or project replaces it.                                   *)
PanelShowsItsTrace == Panel!PanelShowsItsTrace

(* The overlay does not poll for ever: the root span arrives, twenty       *)
(* minutes pass, or the user moves on.                                     *)
LiveEnds == Panel!LiveEnds

(* Every figure of a Dashboard that has finished loading is the answer to  *)
(* its own request, for the selected project and time range: neither a     *)
(* superseded refresh nor answers out of order mix figures.                *)
DashboardShowsSelection == Dash!DashboardShowsSelection
=============================================================================
