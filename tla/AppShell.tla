------------------------------ MODULE AppShell ------------------------------
(***************************************************************************)
(* The shell of the Web UI: App.tsx, with the Login page, the header and   *)
(* the sidebar.  It finds out whether there is a session, logs in and out, *)
(* keeps the list of projects and the active one, and remembers the latter *)
(* in localStorage, each of whose operations may fail unnoticed.  Requests *)
(* overlap and their answers arrive in any order.                          *)
(***************************************************************************)
EXTENDS Naturals

CONSTANTS
    Projects,   \* numbers, in the order the server lists them
    NoProject,
    Pages,      \* the pages behind the login
    Lists       \* bound: runs of fetchProjects under way

VARIABLES
    page,           \* the page on screen, "login" for the Login page
    projects,       \* the project list of the switcher
    project,        \* activeProject
    saved,          \* localStorage
    unsaved,        \* history: the last write since the page was loaded has failed, and left something else
    session,        \* the browser holds a valid session cookie
    serverProjects, \* the projects of the Metadata Store
    me,             \* the session check of a page load
    login,          \* handleLogin
    logout,         \* handleLogout
    lists,          \* lists[i]: a run of fetchProjects
    newProject      \* NewProjectModal

shellVars == <<page, projects, project, saved, unsaved, session, serverProjects, me, login, logout, lists, newProject>>

Free == [at |-> "free"]
Closed == [at |-> "closed"]

Init ==
    /\ page = "login"
    /\ projects = {}
    /\ project = NoProject
    /\ saved \in {NoProject} \cup Projects
    /\ unsaved = FALSE
    /\ session \in BOOLEAN
    /\ serverProjects \in SUBSET Projects
    /\ me = [at |-> "sent"]
    /\ login = "none"
    /\ logout = "none"
    /\ lists = [i \in Lists |-> Free]
    /\ newProject = Closed

(* The browser loads the page again: only localStorage, the cookie and the *)
(* server remember anything.                                               *)
Reload ==
    /\ page' = "login"
    /\ projects' = {}
    /\ project' = NoProject
    /\ unsaved' = FALSE
    /\ me' = [at |-> "sent"]
    /\ login' = "none"
    /\ logout' = "none"
    /\ lists' = [i \in Lists |-> Free]
    /\ newProject' = Closed
    /\ UNCHANGED <<saved, session, serverProjects>>

First(ps) == CHOOSE p \in ps : \A q \in ps : p <= q

(* Mutant: what localStorage holds is not checked against the list. *)
MutantResolveActiveProject(ps, item) ==
    IF ps = {} THEN NoProject ELSE IF item # NoProject THEN item ELSE First(ps)

(* The remembered project if it is in the list, else the first one. *)
ResolveActiveProject(ps, item) ==
    IF ps = {} THEN NoProject ELSE IF item \in ps THEN item ELSE First(ps)

(* What localStorage answers: a failure is taken for nothing stored. *)
StoredItems == {saved, NoProject}

(* persistActiveProject, and handleLogout's removeItem: a failure leaves   *)
(* what was stored, and nobody learns of it.                               *)
Persist(p) ==
    /\ saved' \in {p, saved}
    /\ unsaved' = (saved' # p)

(* setProjects, setActiveProject and persistActiveProject. *)
Activate(ps) ==
    /\ projects' = ps
    /\ \E item \in StoredItems : project' = ResolveActiveProject(ps, item)
    /\ Persist(project')

FetchProjects ==
    \E i \in Lists : lists[i] = Free /\ lists' = [lists EXCEPT ![i] = [at |-> "sent"]]

-----------------------------------------------------------------------------
(* GET /api/v1/me. *)
AnswerMe ==
    /\ me.at = "sent"
    /\ me' = IF session THEN [at |-> "ok", projects |-> serverProjects] ELSE [at |-> "done"]
    /\ UNCHANGED <<page, projects, project, saved, unsaved, session, serverProjects, login, logout, lists, newProject>>

(* The session check ends: the page is derived from the address. *)
SessionFound ==
    /\ me.at = "ok"
    /\ IF me.projects # {}
       THEN Activate(me.projects) /\ UNCHANGED lists
       ELSE FetchProjects /\ UNCHANGED <<projects, project, saved, unsaved>>
    /\ page' \in Pages
    /\ me' = [at |-> "done"]
    /\ UNCHANGED <<session, serverProjects, login, logout, newProject>>

NoSession ==
    /\ me.at \in {"sent", "ok"}
    /\ me' = [at |-> "done"]
    /\ UNCHANGED <<page, projects, project, saved, unsaved, session, serverProjects, login, logout, lists, newProject>>

(* GET /api/v1/projects. *)
AnswerList(i) ==
    /\ lists[i].at = "sent"
    /\ lists' = [lists EXCEPT ![i] = IF session THEN [at |-> "ok", projects |-> serverProjects] ELSE Free]
    /\ UNCHANGED <<page, projects, project, saved, unsaved, session, serverProjects, me, login, logout, newProject>>

FetchProjectsReturns(i) ==
    /\ lists[i].at = "ok"
    /\ Activate(lists[i].projects)
    /\ lists' = [lists EXCEPT ![i] = Free]
    /\ UNCHANGED <<page, session, serverProjects, me, login, logout, newProject>>

FetchProjectsFails(i) ==
    /\ lists[i].at \in {"sent", "ok"}
    /\ lists' = [lists EXCEPT ![i] = Free]
    /\ UNCHANGED <<page, projects, project, saved, unsaved, session, serverProjects, me, login, logout, newProject>>

-----------------------------------------------------------------------------
SubmitLogin ==
    /\ page = "login"
    /\ login = "none"
    /\ login' = "sent"
    /\ UNCHANGED <<page, projects, project, saved, unsaved, session, serverProjects, me, logout, lists, newProject>>

(* POST /login sets the cookie, or refuses. *)
AnswerLogin ==
    /\ login = "sent"
    /\ \/ login' = "ok" /\ session' = TRUE
       \/ login' = "none" /\ UNCHANGED session
    /\ UNCHANGED <<page, projects, project, saved, unsaved, serverProjects, me, logout, lists, newProject>>

LoginReturns ==
    /\ login = "ok"
    /\ login' = "none"
    /\ FetchProjects
    /\ page' = "dashboard"
    /\ UNCHANGED <<projects, project, saved, unsaved, session, serverProjects, me, logout, newProject>>

ClickLogout ==
    /\ page # "login"
    /\ logout = "none"
    /\ logout' = "sent"
    /\ UNCHANGED <<page, projects, project, saved, unsaved, session, serverProjects, me, login, lists, newProject>>

(* POST /logout. *)
AnswerLogout ==
    /\ logout = "sent"
    /\ logout' = "ok"
    /\ session' = FALSE
    /\ UNCHANGED <<page, projects, project, saved, unsaved, serverProjects, me, login, lists, newProject>>

LogoutReturns ==
    /\ logout = "ok"
    /\ logout' = "none"
    /\ page' = "login"
    /\ projects' = {}
    /\ project' = NoProject
    /\ Persist(NoProject)
    /\ UNCHANGED <<session, serverProjects, me, login, lists, newProject>>

(* A request that fails rejects handleLogout: the user stays where he was. *)
LogoutFails ==
    /\ logout \in {"sent", "ok"}
    /\ logout' = "none"
    /\ UNCHANGED <<page, projects, project, saved, unsaved, session, serverProjects, me, login, lists, newProject>>

-----------------------------------------------------------------------------
(* handleNavigate. *)
Navigate(q) ==
    /\ page # "login"
    /\ q # page
    /\ page' = q
    /\ UNCHANGED <<projects, project, saved, unsaved, session, serverProjects, me, login, logout, lists, newProject>>

(* onPopState, for back and forward: the page follows the address.  The    *)
(* Login page stays, except for the address of a trace.                    *)
PopState(q) ==
    /\ page = "login" => q = "traces"
    /\ q # page
    /\ page' = q
    /\ UNCHANGED <<projects, project, saved, unsaved, session, serverProjects, me, login, logout, lists, newProject>>

(* onProjectChange. *)
SwitchProject(p) ==
    /\ page # "login"
    /\ p \in projects
    /\ p # project
    /\ project' = p
    /\ Persist(p)
    /\ UNCHANGED <<page, projects, session, serverProjects, me, login, logout, lists, newProject>>

SubmitNewProject ==
    /\ page # "login"
    /\ newProject = Closed
    /\ newProject' = [at |-> "sent"]
    /\ UNCHANGED <<page, projects, project, saved, unsaved, session, serverProjects, me, login, logout, lists>>

(* HandleCreateProject. *)
AnswerNewProject(p) ==
    /\ newProject.at = "sent"
    /\ session
    /\ p \notin serverProjects
    /\ serverProjects' = serverProjects \cup {p}
    /\ newProject' = [at |-> "ok", project |-> p]
    /\ UNCHANGED <<page, projects, project, saved, unsaved, session, me, login, logout, lists>>

(* handleNewProject: the project is added to the switcher, not chosen. *)
NewProjectReturns ==
    /\ newProject.at = "ok"
    /\ projects' = projects \cup {newProject.project}
    /\ newProject' = Closed
    /\ UNCHANGED <<page, project, saved, unsaved, session, serverProjects, me, login, logout, lists>>

NewProjectFails ==
    /\ newProject # Closed
    /\ newProject' = Closed
    /\ UNCHANGED <<page, projects, project, saved, unsaved, session, serverProjects, me, login, logout, lists>>

-----------------------------------------------------------------------------
(* The active project is one of the switcher's, whatever order session     *)
(* check, project lists, new projects and logouts come in and whatever     *)
(* localStorage answers, and it is the one a reload will find there unless *)
(* its last write has failed.                                              *)
ActiveProjectKept ==
    project # NoProject => project \in projects /\ (saved = project \/ unsaved)
=============================================================================
