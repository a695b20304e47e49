---------------------------- MODULE SettingsPage ----------------------------
(***************************************************************************)
(* The Settings page (ui/src/pages/Settings.tsx): it lists the keys of the *)
(* active project, generates new ones in a dialog that reveals the raw key *)
(* once, and revokes them after a confirmation.  Its requests are neither  *)
(* numbered nor aborted, and a dialog may be closed, or the page left or   *)
(* switched to another project, while its request is under way.            *)
(***************************************************************************)
EXTENDS Naturals

CONSTANTS
    Projects, Keys, NoProject, Checks, TTL, MaxClock,
    NoKey,
    Fetches     \* bound: runs of fetchKeys under way

VARIABLES
    clock, owner, revokedAt, cache, checks, arrival,
    settingsOn,   \* the page is on screen
    project,      \* activeProject
    session,      \* the browser holds a valid session cookie
    apiKeys,      \* the keys it lists, each with whether it is shown as revoked
    fetches,      \* fetches[i]: a run of fetchKeys
    dialog,       \* GenerateKeyDialog: its state, the key it reveals
    revoking      \* the revoke dialog: its state and its key

Store == INSTANCE ApiKeys

storeVars == <<clock, owner, revokedAt, cache, checks, arrival>>
settingsState == <<apiKeys, fetches, dialog, revoking>>

Free == [at |-> "free"]
Closed == [at |-> "closed", key |-> NoKey]

Init ==
    /\ apiKeys = {}
    /\ fetches = [i \in Fetches |-> Free]
    /\ dialog = Closed
    /\ revoking = Closed

(* fetchKeys for project p: earlier runs go on. *)
FetchKeys(p) ==
    \E i \in Fetches :
        /\ fetches[i] = Free
        /\ fetches' = [fetches EXCEPT ![i] = [at |-> "sent", project |-> p]]

(* What a change of page or project does here: the effect of fetchKeys, or *)
(* the end of the page, whose requests stay under way without it.          *)
Render ==
    \/ /\ settingsOn' /\ (~settingsOn \/ project' # project)
       /\ FetchKeys(project')
       /\ UNCHANGED <<apiKeys, dialog, revoking>>
    \/ /\ settingsOn /\ ~settingsOn'
       /\ apiKeys' = {}
       /\ fetches' = [i \in Fetches |-> Free]
       /\ dialog' = IF dialog.at \in {"sent", "abandoned"} THEN [dialog EXCEPT !.at = "abandoned"] ELSE Closed
       /\ revoking' = IF revoking.at \in {"closed", "confirm"} THEN Closed ELSE [revoking EXCEPT !.shown = FALSE]
    \/ /\ settingsOn' = settingsOn /\ (settingsOn => project' = project)
       /\ UNCHANGED settingsState

-----------------------------------------------------------------------------
(* HandleListAPIKeys. *)
ListAPIKeys(i) ==
    /\ fetches[i].at = "sent"
    /\ session
    /\ fetches[i].project \in Projects
    /\ fetches' = [fetches EXCEPT ![i] = [at |-> "answered",
           keys |-> {[key |-> k, revoked |-> revokedAt[k] # Store!Never] :
                        k \in {j \in Keys : owner[j] = fetches[i].project}}]]
    /\ UNCHANGED <<storeVars, apiKeys, dialog, revoking>>

FetchKeysReturns(i) ==
    /\ fetches[i].at = "answered"
    /\ apiKeys' = fetches[i].keys
    /\ fetches' = [fetches EXCEPT ![i] = Free]
    /\ UNCHANGED <<storeVars, dialog, revoking>>

(* A failure leaves the list as it was. *)
FetchKeysFails(i) ==
    /\ fetches[i].at \in {"sent", "answered"}
    /\ fetches' = [fetches EXCEPT ![i] = Free]
    /\ UNCHANGED <<storeVars, apiKeys, dialog, revoking>>

-----------------------------------------------------------------------------
OpenGenerate ==
    /\ settingsOn
    /\ dialog.at = "closed"
    /\ dialog' = [at |-> "form", key |-> NoKey]
    /\ UNCHANGED <<storeVars, apiKeys, fetches, revoking>>

(* handleSubmit. *)
SubmitGenerate ==
    /\ dialog.at = "form"
    /\ dialog' = [at |-> "sent", key |-> NoKey, project |-> project]
    /\ UNCHANGED <<storeVars, apiKeys, fetches, revoking>>

(* HandleGenerateAPIKey. *)
GenerateAPIKey(k) ==
    /\ dialog.at \in {"sent", "abandoned"}
    /\ session
    /\ dialog.key = NoKey
    /\ dialog.project \in Projects
    /\ Store!CreateAPIKey(k, dialog.project)
    /\ dialog' = [dialog EXCEPT !.key = k]
    /\ UNCHANGED <<apiKeys, fetches, revoking>>

(* The raw key is revealed, or nobody is there any more to see it. *)
GenerateReturns ==
    /\ dialog.at \in {"sent", "abandoned"}
    /\ dialog.key # NoKey
    /\ dialog' = IF dialog.at = "sent" THEN [at |-> "shown", key |-> dialog.key] ELSE Closed
    /\ UNCHANGED <<storeVars, apiKeys, fetches, revoking>>

(* The request is refused, fails, or its answer is lost: back to the form. *)
GenerateFails ==
    /\ dialog.at \in {"sent", "abandoned"}
    /\ dialog' = IF dialog.at = "sent" THEN [at |-> "form", key |-> NoKey] ELSE Closed
    /\ UNCHANGED <<storeVars, apiKeys, fetches, revoking>>

(* Copy Key, Close or Cancel: also while the request is under way. *)
CloseGenerate ==
    /\ dialog.at \in {"form", "sent", "shown"}
    /\ dialog' = IF dialog.at = "sent" THEN [dialog EXCEPT !.at = "abandoned"] ELSE Closed
    /\ FetchKeys(project)
    /\ UNCHANGED <<storeVars, apiKeys, revoking>>

-----------------------------------------------------------------------------
(* Revoke is offered for a key that is not shown as revoked. *)
OpenRevoke(k) ==
    /\ revoking = Closed
    /\ [key |-> k, revoked |-> FALSE] \in apiKeys
    /\ revoking' = [at |-> "confirm", key |-> k]
    /\ UNCHANGED <<storeVars, apiKeys, fetches, dialog>>

CancelRevoke ==
    /\ revoking.at = "confirm"
    /\ revoking' = Closed
    /\ UNCHANGED <<storeVars, apiKeys, fetches, dialog>>

(* confirmRevoke names the project that is active at the click, and will   *)
(* fetch the keys of that project again, also after a switch.  (Bound: one *)
(* revocation at a time; Cancel while it is under way hides the dialog and *)
(* changes nothing else.)                                                  *)
ConfirmRevoke ==
    /\ revoking.at = "confirm"
    /\ revoking' = [at |-> "sent", key |-> revoking.key, project |-> project, shown |-> TRUE]
    /\ UNCHANGED <<storeVars, apiKeys, fetches, dialog>>

(* Mutant: the key is not looked for in the project that was named. *)
MutantRevokeAPIKey ==
    /\ revoking.at = "sent"
    /\ IF session
       THEN /\ Store!RevokeAPIKeys({revoking.key})
            /\ revoking' = [revoking EXCEPT !.at = "ok"]
       ELSE /\ revoking' = [revoking EXCEPT !.at = "refused"]
            /\ UNCHANGED storeVars
    /\ UNCHANGED <<apiKeys, fetches, dialog>>

(* HandleRevokeAPIKey: only a key of the project that was named. *)
RevokeAPIKey ==
    /\ revoking.at = "sent"
    /\ IF session /\ owner[revoking.key] = revoking.project
       THEN /\ Store!RevokeAPIKeys({revoking.key})
            /\ revoking' = [revoking EXCEPT !.at = "ok"]
       ELSE /\ revoking' = [revoking EXCEPT !.at = "refused"]
            /\ UNCHANGED storeVars
    /\ UNCHANGED <<apiKeys, fetches, dialog>>

(* After a success the list is fetched again and the dialog closes. *)
RevokeReturns ==
    /\ revoking.at = "ok"
    /\ revoking' = Closed
    /\ IF revoking.shown THEN FetchKeys(revoking.project) ELSE UNCHANGED fetches
    /\ UNCHANGED <<storeVars, apiKeys, dialog>>

(* A refusal, or a request or an answer that is lost, only closes it. *)
RevokeFails ==
    /\ revoking.at \in {"sent", "ok", "refused"}
    /\ revoking' = Closed
    /\ UNCHANGED <<storeVars, apiKeys, fetches, dialog>>
=============================================================================
