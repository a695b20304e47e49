----------------------------- MODULE AdminPage -----------------------------
(***************************************************************************)
(* The Admin page (ui/src/pages/Admin.tsx) and the handlers behind it      *)
(* (handler/admin.go).  fetchAll asks for the keys, the projects, the      *)
(* trace count of the active project and the metrics, one after the other, *)
(* and several runs of it may be under way; deletions run after a          *)
(* confirmation, and a deleted project takes its traces and keys along.    *)
(***************************************************************************)
EXTENDS Naturals

CONSTANTS
    Projects, Keys, NoProject, Checks, TTL, MaxClock,
    Runs        \* bound: runs of fetchAll under way

VARIABLES
    clock, owner, revokedAt, cache, checks, arrival,
    adminOn,        \* the page is on screen
    project,        \* activeProject
    session,        \* the browser holds a valid session cookie of an admin
    serverProjects, \* the projects of the Metadata Store
    hasTraces,      \* the projects with rows in the Lake
    adminKeys,      \* the keys the page lists
    adminProjects,  \* the projects the page lists
    loading,        \* the sections that show a skeleton instead of themselves
    runs,           \* runs[i]: a run of fetchAll
    deletion        \* the confirmation dialog, and the request it has sent

Store == INSTANCE ApiKeys

storeVars == <<clock, owner, revokedAt, cache, checks, arrival>>
adminState == <<adminKeys, adminProjects, loading, runs, deletion>>

Idle == [at |-> "idle"]
NoDialog == [at |-> "closed"]
Sections == {"keys", "projects", "count", "ops"}

Init ==
    /\ hasTraces = Projects
    /\ adminKeys = {}
    /\ adminProjects = {}
    /\ loading = Sections
    /\ runs = [i \in Runs |-> Idle]
    /\ deletion = NoDialog

(* fetchAll for project p. *)
FetchAll(p) ==
    \E i \in Runs :
        /\ runs[i] = Idle
        /\ runs' = [runs EXCEPT ![i] = [at |-> "keys", project |-> p]]
        /\ loading' = loading \cup {"keys"}

(* What a change of page or project does here. *)
Render ==
    \/ /\ adminOn' /\ (~adminOn \/ project' # project)
       /\ FetchAll(project')
       /\ UNCHANGED <<adminKeys, adminProjects, deletion>>
    \/ /\ adminOn /\ ~adminOn'
       /\ adminKeys' = {}
       /\ adminProjects' = {}
       /\ loading' = Sections
       /\ runs' = [i \in Runs |-> Idle]
       /\ deletion' = IF deletion.at \in {"closed", "confirm"} THEN NoDialog ELSE [deletion EXCEPT !.shown = FALSE]
    \/ /\ adminOn' = adminOn /\ (adminOn => project' = project)
       /\ UNCHANGED adminState

(* The keys of all projects: a project whose keys cannot be read is left   *)
(* out of HandleAdminAPIKeysList's answer.                                 *)
ListedKeys == {{k \in Keys : owner[k] \in ps} : ps \in SUBSET serverProjects}

(* The request of each stage is answered or fails, and a failure leaves    *)
(* the list it asked for as it was.  The trace count and the metrics are   *)
(* only displayed.                                                         *)
NextStage == [keys |-> "projects", projects |-> "count", count |-> "ops"]

FetchAllStep(i) ==
    /\ runs[i] # Idle
    /\ IF runs[i].at = "ops"
       THEN /\ runs' = [runs EXCEPT ![i] = Idle]
            /\ loading' = loading \ {"ops"}
       ELSE /\ runs' = [runs EXCEPT ![i].at = NextStage[@]]
            /\ loading' = (loading \ {runs[i].at}) \cup {NextStage[runs[i].at]}
    /\ adminKeys' \in {adminKeys} \cup IF session /\ runs[i].at = "keys" THEN ListedKeys ELSE {}
    /\ adminProjects' \in {adminProjects} \cup IF session /\ runs[i].at = "projects" THEN {serverProjects} ELSE {}
    /\ UNCHANGED <<storeVars, serverProjects, hasTraces, deletion>>

-----------------------------------------------------------------------------
SectionOf == [key |-> "keys", project |-> "projects", traces |-> "count"]

(* The Delete buttons: of a listed key, of a listed project, and of the    *)
(* active project's traces (whose project is named at the click on         *)
(* Confirm).                                                               *)
OpenDelete(kind, target) ==
    /\ adminOn
    /\ SectionOf[kind] \notin loading
    /\ deletion = NoDialog
    /\ deletion' = [at |-> "confirm", kind |-> kind, target |-> target]
    /\ UNCHANGED <<storeVars, serverProjects, hasTraces, adminKeys, adminProjects, loading, runs>>

OpenDeleteKey == \E k \in adminKeys : OpenDelete("key", k)

OpenDeleteProject == \E p \in adminProjects : OpenDelete("project", p)

OpenDeleteTraces == OpenDelete("traces", NoProject)

CancelDelete ==
    /\ deletion.at = "confirm"
    /\ deletion' = NoDialog
    /\ UNCHANGED <<storeVars, serverProjects, hasTraces, adminKeys, adminProjects, loading, runs>>

(* A section that loads hides its dialog too.  A project that is no longer *)
(* listed is not deleted.  Whatever the click runs keeps to the project    *)
(* that is active now.                                                     *)
ConfirmDelete ==
    /\ deletion.at = "confirm"
    /\ SectionOf[deletion.kind] \notin loading
    /\ deletion' = IF deletion.kind = "project" /\ deletion.target \notin adminProjects
                   THEN NoDialog
                   ELSE [at |-> "sent", kind |-> deletion.kind, project |-> project, shown |-> TRUE,
                         target |-> IF deletion.kind = "traces" THEN project ELSE deletion.target]
    /\ UNCHANGED <<storeVars, serverProjects, hasTraces, adminKeys, adminProjects, loading, runs>>

(* HandleAdminAPIKeyDelete. *)
AdminRevokesKey ==
    /\ deletion.at = "sent"
    /\ deletion.kind = "key"
    /\ session
    /\ Store!RevokeAPIKeys({deletion.target})
    /\ deletion' = [deletion EXCEPT !.at = "ok"]
    /\ UNCHANGED <<serverProjects, hasTraces, adminKeys, adminProjects, loading, runs>>

(* HandleAdminTracesDelete, and the first half of the other handler. *)
DeleteTraces ==
    /\ deletion.at = "sent"
    /\ deletion.kind \in {"traces", "project"}
    /\ session
    /\ hasTraces' = hasTraces \ {deletion.target}
    /\ deletion' = [deletion EXCEPT !.at = IF deletion.kind = "traces" THEN "ok" ELSE "rows gone"]
    /\ UNCHANGED <<storeVars, serverProjects, adminKeys, adminProjects, loading, runs>>

(* The second half of HandleAdminProjectsDelete: the keys of the project   *)
(* are revoked as far as the store does it.  The project itself stays.     *)
RevokeProjectKeys ==
    /\ deletion.at = "rows gone"
    /\ \E ks \in SUBSET {k \in Keys : owner[k] = deletion.target} : Store!RevokeAPIKeys(ks)
    /\ deletion' = [deletion EXCEPT !.at = "ok"]
    /\ UNCHANGED <<serverProjects, hasTraces, adminKeys, adminProjects, loading, runs>>

(* handleDeleteKey, handleDeleteProject, handleDeleteAllTraces after the   *)
(* answer: a toast and fetchAll, or an error.                              *)
DeleteReturns ==
    /\ deletion.at = "ok"
    /\ deletion' = NoDialog
    /\ IF deletion.shown THEN FetchAll(deletion.project) ELSE UNCHANGED <<loading, runs>>
    /\ UNCHANGED <<storeVars, serverProjects, hasTraces, adminKeys, adminProjects>>

DeleteFails ==
    /\ deletion.at \in {"sent", "rows gone", "ok"}
    /\ deletion' = NoDialog
    /\ UNCHANGED <<storeVars, serverProjects, hasTraces, adminKeys, adminProjects, loading, runs>>
=============================================================================
