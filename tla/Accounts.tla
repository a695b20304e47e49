------------------------------ MODULE Accounts ------------------------------
(***************************************************************************)
(* Session, projects and API keys together: the shell of the Web UI, the   *)
(* Settings and the Admin page it shows, and the key store and validator   *)
(* they act on.  Whatever changes the page or the active project, also an  *)
(* answer that arrives late, re-renders the page on screen.                *)
(***************************************************************************)
EXTENDS KeyParameters

CONSTANTS
    Lists,
    NoKey, Fetches,
    Runs,
    MaxActions  \* bound: what the user does

(* The server lists projects in the order of their IDs. *)
ASSUME ProjectsAssumption == Projects \subseteq Nat

(* The Dashboard stands for the other pages, which do not take part here. *)
Pages == {"dashboard", "traces", "settings", "admin"}

VARIABLES
    actions,
    page, projects, project, saved, unsaved, session, serverProjects, me, login, logout, lists, newProject,
    clock, owner, revokedAt, cache, checks, arrival,
    apiKeys, fetches, dialog, revoking,
    hasTraces, adminKeys, adminProjects, loading, runs, deletion

Shell == INSTANCE AppShell
Store == INSTANCE ApiKeys
Settings == INSTANCE SettingsPage WITH settingsOn <- (page = "settings")
Admin == INSTANCE AdminPage WITH adminOn <- (page = "admin")

shellVars == <<page, projects, project, saved, unsaved, session, serverProjects, me, login, logout, lists, newProject>>
storeVars == <<clock, owner, revokedAt, cache, checks, arrival>>
settingsVars == <<apiKeys, fetches, dialog, revoking>>
adminVars == <<hasTraces, adminKeys, adminProjects, loading, runs, deletion>>
vars == <<actions, shellVars, storeVars, settingsVars, adminVars>>

Init ==
    /\ actions = 0
    /\ Shell!Init
    /\ Store!Init
    /\ \A k \in Keys : owner[k] \in serverProjects \cup {NoProject}
    /\ Settings!Init
    /\ Admin!Init

Act ==
    /\ actions < MaxActions
    /\ actions' = actions + 1

(* The pages follow what the shell has done. *)
Rendered ==
    /\ Settings!Render
    /\ Admin!Render
    /\ UNCHANGED <<storeVars, hasTraces>>

UserInShell ==
    /\ Act
    /\ \/ Shell!Reload
       \/ Shell!SubmitLogin \/ Shell!ClickLogout \/ Shell!SubmitNewProject
       \/ \E q \in Pages : Shell!Navigate(q) \/ Shell!PopState(q)
       \/ \E p \in Projects : Shell!SwitchProject(p)
    /\ Rendered

ShellAnswers ==
    /\ UNCHANGED actions
    /\ \/ Shell!AnswerMe \/ Shell!SessionFound \/ Shell!NoSession
       \/ \E i \in Lists : Shell!AnswerList(i) \/ Shell!FetchProjectsReturns(i) \/ Shell!FetchProjectsFails(i)
       \/ Shell!AnswerLogin \/ Shell!LoginReturns
       \/ Shell!AnswerLogout \/ Shell!LogoutReturns \/ Shell!LogoutFails
       \/ \E p \in Projects : Shell!AnswerNewProject(p)
       \/ Shell!NewProjectReturns \/ Shell!NewProjectFails
    /\ Rendered

(* What happens inside the Settings page, by the user or by an answer. *)
SettingsStep ==
    /\ UNCHANGED <<shellVars, adminVars>>
    /\ \/ /\ Act
          /\ \/ Settings!OpenGenerate \/ Settings!SubmitGenerate \/ Settings!CloseGenerate
             \/ Settings!CancelRevoke \/ Settings!ConfirmRevoke
             \/ \E k \in Keys : Settings!OpenRevoke(k)
       \/ /\ UNCHANGED actions
          /\ \/ \E i \in Fetches : Settings!ListAPIKeys(i) \/ Settings!FetchKeysReturns(i) \/ Settings!FetchKeysFails(i)
             \/ Settings!GenerateReturns \/ Settings!GenerateFails
             \/ Settings!RevokeAPIKey \/ Settings!RevokeReturns \/ Settings!RevokeFails
             \/ \E k \in Keys : Settings!GenerateAPIKey(k)

AdminStep ==
    /\ UNCHANGED <<shellVars, settingsVars>>
    /\ \/ /\ Act
          /\ \/ Admin!OpenDeleteKey \/ Admin!OpenDeleteProject \/ Admin!OpenDeleteTraces
             \/ Admin!CancelDelete \/ Admin!ConfirmDelete
       \/ /\ UNCHANGED actions
          /\ \/ \E i \in Runs : Admin!FetchAllStep(i)
             \/ Admin!AdminRevokesKey \/ Admin!DeleteTraces \/ Admin!RevokeProjectKeys
             \/ Admin!DeleteReturns \/ Admin!DeleteFails

(* Time passes, and clients of the Ingest API present keys. *)
IngestStep ==
    /\ UNCHANGED <<actions, shellVars, settingsVars, adminVars>>
    /\ Store!Tick \/ Store!Validate

Next == UserInShell \/ ShellAnswers \/ SettingsStep \/ AdminStep \/ IngestStep

Spec == Init /\ [][Next]_vars

-----------------------------------------------------------------------------
(* Through whichever page a key was revoked, a request that arrives a      *)
(* cache lifetime or more later is refused, also when its cache entry was  *)
(* stored after the revocation by a validation that was under way.         *)
RevokedKeyRefused == Store!RevokedKeyRefused

(* The user has confirmed that k be revoked: in the Settings page this     *)
(* key, while its own project was the active one; in the Admin page this   *)
(* key, or the project it belongs to.                                      *)
Confirmed(k) ==
    \/ revoking.at = "sent" /\ revoking.key = k /\ revoking.project = owner[k]
    \/ deletion.at = "sent" /\ deletion.kind = "key" /\ deletion.target = k
    \/ deletion.at = "rows gone" /\ deletion.target = owner[k]

(* A key is revoked only as the user has confirmed it, although the list   *)
(* that the Settings page shows may still be, or become again, another     *)
(* project's: a switch does not clear it, answers to fetchKeys are not     *)
(* numbered, and confirmRevoke names the project that is active by then.   *)
RevokedAsConfirmed ==
    [][\A k \in Keys : revokedAt'[k] # revokedAt[k] => Confirmed(k)]_vars

(* The active project is one of the switcher's, whatever order answers     *)
(* come in and whatever localStorage answers, and the one a reload will    *)
(* find there unless its last write has failed.                            *)
ActiveProjectKept == Shell!ActiveProjectKept
=============================================================================
