--------------------------- MODULE AccountsProofs ---------------------------
(***************************************************************************)
(* Proofs about sessions, projects and API keys for every set of projects  *)
(* and keys, every number of requests under way and every cache lifetime.  *)
(***************************************************************************)
EXTENDS Accounts, WellFoundedInduction, TLAPS

-----------------------------------------------------------------------------
(* The key store and its validator.                                        *)

(* An entry dies, and a validation that has found the key arrived, before  *)
(* a lifetime has passed since the key was revoked.                        *)
EntriesDie ==
    /\ \A k \in Keys : revokedAt[k] <= clock \/ revokedAt[k] = Store!Never
    /\ \A k \in Keys : arrival[k] <= clock
    /\ \A k \in Keys : cache[k] <= clock + TTL
    /\ \A k \in Keys : revokedAt[k] # Store!Never => cache[k] <= revokedAt[k] + TTL
    /\ \A r \in Checks : checks[r] # Store!Free => checks[r].now <= clock
    /\ \A r \in Checks :
          checks[r].at = "found" /\ revokedAt[checks[r].key] # Store!Never
              => checks[r].now <= revokedAt[checks[r].key]

StoreInv == Store!TypeOK /\ EntriesDie /\ Store!RevokedKeyRefused

(* Initially nothing is cached, nothing revoked. *)
LEMMA StoreInit == Store!Init => StoreInv
<1> SUFFICES ASSUME Store!Init PROVE StoreInv
    OBVIOUS
<1> USE TTLAssumption, ClockAssumption
<1>1. Store!TypeOK
    BY DEF Store!Init, Store!TypeOK, Store!Times, Store!Never, Store!Free
<1>2. EntriesDie
    BY DEF Store!Init, EntriesDie, Store!Times, Store!Never, Store!Free
<1>3. Store!RevokedKeyRefused
    BY DEF Store!Init, Store!RevokedKeyRefused, Store!Never
<1> QED BY <1>1, <1>2, <1>3 DEF StoreInv

(* Every step keeps the entries of a revoked key mortal. *)
LEMMA StoreNext == StoreInv /\ [Store!Next]_Store!vars => StoreInv'
<1> SUFFICES ASSUME StoreInv, [Store!Next]_Store!vars PROVE StoreInv'
    OBVIOUS
<1> USE TTLAssumption, ClockAssumption, NoProjectAssumption DEF StoreInv, Store!Times, Store!Never
<1>1. ASSUME Store!Tick PROVE StoreInv'
  <2>1. Store!TypeOK' BY <1>1 DEF Store!Tick, Store!TypeOK, Store!validatorVars
  <2>2. EntriesDie' BY <1>1 DEF Store!Tick, Store!TypeOK, EntriesDie, Store!validatorVars
  <2>3. Store!RevokedKeyRefused' BY <1>1 DEF Store!Tick, Store!RevokedKeyRefused, Store!validatorVars
  <2> QED BY <2>1, <2>2, <2>3
<1>2. ASSUME NEW k \in Keys, NEW p \in Projects, Store!CreateAPIKey(k, p) PROVE StoreInv'
  <2>1. Store!TypeOK' BY <1>2 DEF Store!CreateAPIKey, Store!TypeOK, Store!validatorVars
  <2>2. EntriesDie' BY <1>2 DEF Store!CreateAPIKey, EntriesDie, Store!validatorVars
  <2>3. Store!RevokedKeyRefused' BY <1>2 DEF Store!CreateAPIKey, Store!RevokedKeyRefused, Store!validatorVars
  <2> QED BY <2>1, <2>2, <2>3
<1>3. ASSUME NEW ks \in SUBSET Keys, Store!RevokeAPIKeys(ks) PROVE StoreInv'
  <2>1. Store!TypeOK' BY <1>3 DEF Store!RevokeAPIKeys, Store!TypeOK, Store!validatorVars
  <2>2. \A k \in Keys : revokedAt'[k] = revokedAt[k] \/ (revokedAt[k] = Store!Never /\ revokedAt'[k] = clock)
    BY <1>3 DEF Store!RevokeAPIKeys
  <2>3. UNCHANGED <<clock, cache, checks, arrival>>
    BY <1>3 DEF Store!RevokeAPIKeys, Store!validatorVars
  <2>4. EntriesDie'
    <3>1. \A r \in Checks : checks[r].at = "found" => checks[r] # Store!Free /\ checks[r].key \in Keys
      BY DEF Store!TypeOK, Store!Free
    <3>2. \A r \in Checks : checks[r].at = "found" /\ revokedAt'[checks[r].key] # Store!Never
              => checks[r].now <= revokedAt'[checks[r].key]
      BY <2>2, <3>1 DEF Store!TypeOK, EntriesDie
    <3> QED BY <2>2, <2>3, <3>2 DEF Store!TypeOK, EntriesDie
  <2>5. Store!RevokedKeyRefused'
    BY <2>2, <2>3 DEF Store!TypeOK, EntriesDie, Store!RevokedKeyRefused
  <2> QED BY <2>1, <2>4, <2>5
<1>4. ASSUME NEW r \in Checks, NEW k \in Keys, Store!Arrive(r, k) PROVE StoreInv'
  <2>1. UNCHANGED <<clock, owner, revokedAt, cache>>
    BY <1>4 DEF Store!Arrive
  <2>2. CASE clock < cache[k]
    <3>1. UNCHANGED checks /\ arrival' = [arrival EXCEPT ![k] = Store!Latest(@, clock)]
      BY <1>4, <2>2 DEF Store!Arrive, Store!Accept
    <3>2. arrival'[k] = clock
      BY <3>1 DEF Store!Latest, Store!TypeOK, EntriesDie
    <3> QED BY <2>1, <2>2, <3>1, <3>2 DEF Store!TypeOK, EntriesDie, Store!RevokedKeyRefused
  <2>3. CASE ~(clock < cache[k])
    <3>1. UNCHANGED arrival /\ checks' = [checks EXCEPT ![r] = [at |-> "lookup", key |-> k, now |-> clock]]
      BY <1>4, <2>3 DEF Store!Arrive
    <3> QED BY <2>1, <3>1 DEF Store!TypeOK, EntriesDie, Store!RevokedKeyRefused, Store!Free
  <2> QED BY <2>2, <2>3
<1>5. ASSUME NEW r \in Checks, Store!LookUp(r) PROVE StoreInv'
  <2>1. UNCHANGED <<clock, owner, revokedAt, cache, arrival>>
    BY <1>5 DEF Store!LookUp
  <2>2. checks[r] # Store!Free /\ checks[r].at = "lookup"
    BY <1>5 DEF Store!LookUp, Store!Free
  <2>3. CASE revokedAt[checks[r].key] = Store!Never /\ checks' = [checks EXCEPT ![r].at = "found"]
    BY <2>1, <2>2, <2>3 DEF Store!TypeOK, EntriesDie, Store!RevokedKeyRefused, Store!Free
  <2>4. CASE checks' = [checks EXCEPT ![r] = Store!Free]
    BY <2>1, <2>4 DEF Store!TypeOK, EntriesDie, Store!RevokedKeyRefused, Store!Free
  <2> QED BY <1>5, <2>3, <2>4 DEF Store!LookUp
<1>6. ASSUME NEW r \in Checks, Store!FillCache(r) PROVE StoreInv'
  <2> DEFINE k == checks[r].key
             now == checks[r].now
  <2>1. UNCHANGED <<clock, owner, revokedAt>>
    BY <1>6 DEF Store!FillCache
  <2>2. k \in Keys /\ now \in Store!Times /\ now <= clock /\ (revokedAt[k] # Store!Never => now <= revokedAt[k])
    BY <1>6 DEF Store!FillCache, Store!TypeOK, EntriesDie, Store!Free
  <2>3. /\ cache' = [cache EXCEPT ![k] = now + TTL]
        /\ arrival' = [arrival EXCEPT ![k] = Store!Latest(@, now)]
        /\ checks' = [checks EXCEPT ![r] = Store!Free]
    BY <1>6 DEF Store!FillCache, Store!ExpiresAt, Store!Accept
  <2>4. arrival'[k] \in {arrival[k], now}
    BY <2>2, <2>3 DEF Store!Latest, Store!TypeOK
  <2> HIDE DEF k, now
  <2>5. Store!TypeOK'
    BY <2>1, <2>2, <2>3, <2>4 DEF Store!TypeOK
  <2>6. EntriesDie'
    BY <2>1, <2>2, <2>3, <2>4 DEF Store!TypeOK, EntriesDie, Store!Free
  <2>7. Store!RevokedKeyRefused'
    BY <2>1, <2>2, <2>3, <2>4 DEF Store!TypeOK, Store!RevokedKeyRefused
  <2> QED BY <2>5, <2>6, <2>7
<1>7. CASE UNCHANGED Store!vars
    BY <1>7 DEF Store!vars, Store!validatorVars, Store!TypeOK, EntriesDie, Store!RevokedKeyRefused
<1> QED BY <1>1, <1>2, <1>3, <1>4, <1>5, <1>6, <1>7 DEF Store!Next, Store!Validate


(* For every cache lifetime: a request that arrives a lifetime after its   *)
(* key was revoked is refused (CachingValidator.Validate), as long as the  *)
(* store is used as it is specified.                                       *)
THEOREM StoreTheorem == Store!Spec => []Store!RevokedKeyRefused
<1>1. StoreInv => Store!RevokedKeyRefused
    BY DEF StoreInv
<1> QED BY StoreInit, StoreNext, <1>1, PTL DEF Store!Spec

-----------------------------------------------------------------------------
(* The pages use the store as it is specified.                             *)

(* Revoking a set of keys is a step of the store. *)
LEMMA RevokeIsStoreStep ==
    ASSUME NEW ks, Store!RevokeAPIKeys(ks)
    PROVE  Store!Next
<1>1. Store!RevokeAPIKeys(ks \cap Keys)
    BY DEF Store!RevokeAPIKeys
<1> QED BY <1>1 DEF Store!Next

(* Store!Next or a stutter, as the pages see the store. *)
StoreStep == Store!Next \/ UNCHANGED storeVars

LEMMA SettingsStore == SettingsStep => StoreStep
<1> SUFFICES ASSUME SettingsStep PROVE StoreStep
    OBVIOUS
<1>1. ASSUME NEW k \in Keys, Settings!GenerateAPIKey(k) PROVE Store!Next
  <2>1. dialog.project \in Projects /\ Store!CreateAPIKey(k, dialog.project)
    BY <1>1 DEF Settings!GenerateAPIKey, Settings!Store!CreateAPIKey, Settings!Store!validatorVars,
                Store!CreateAPIKey, Store!validatorVars
  <2> QED BY <2>1 DEF Store!Next
<1>2. ASSUME Settings!RevokeAPIKey PROVE StoreStep
  <2>1. UNCHANGED storeVars \/ Store!RevokeAPIKeys({revoking.key})
    BY <1>2 DEF Settings!RevokeAPIKey, Settings!storeVars, storeVars, Settings!Store!RevokeAPIKeys,
                Settings!Store!validatorVars, Settings!Store!Never,
                Store!RevokeAPIKeys, Store!validatorVars, Store!Never
  <2> QED BY <2>1, RevokeIsStoreStep DEF StoreStep
<1>3. ASSUME \/ Settings!OpenGenerate \/ Settings!SubmitGenerate \/ Settings!CloseGenerate
             \/ Settings!CancelRevoke \/ Settings!ConfirmRevoke
             \/ \E k \in Keys : Settings!OpenRevoke(k)
      PROVE  UNCHANGED storeVars
    BY <1>3 DEF Settings!OpenGenerate, Settings!SubmitGenerate, Settings!CloseGenerate, Settings!CancelRevoke,
                Settings!ConfirmRevoke, Settings!OpenRevoke, Settings!storeVars, storeVars
<1>4. ASSUME \/ \E i \in Fetches : Settings!ListAPIKeys(i) \/ Settings!FetchKeysReturns(i) \/ Settings!FetchKeysFails(i)
             \/ Settings!GenerateReturns \/ Settings!GenerateFails
             \/ Settings!RevokeReturns \/ Settings!RevokeFails
      PROVE  UNCHANGED storeVars
    BY <1>4 DEF Settings!ListAPIKeys, Settings!FetchKeysReturns, Settings!FetchKeysFails, Settings!GenerateReturns,
                Settings!GenerateFails, Settings!RevokeReturns, Settings!RevokeFails, Settings!storeVars, storeVars
<1> QED BY <1>1, <1>2, <1>3, <1>4 DEF SettingsStep, StoreStep

LEMMA AdminStore == AdminStep => StoreStep
<1> SUFFICES ASSUME AdminStep PROVE StoreStep
    OBVIOUS
<1>1. ASSUME Admin!AdminRevokesKey \/ Admin!RevokeProjectKeys PROVE Store!Next
  <2>1. \E ks : Admin!Store!RevokeAPIKeys(ks)
    BY <1>1 DEF Admin!AdminRevokesKey, Admin!RevokeProjectKeys
  <2>2. \E ks : Store!RevokeAPIKeys(ks)
    BY <2>1 DEF Admin!Store!RevokeAPIKeys, Admin!Store!validatorVars, Admin!Store!Never,
                Store!RevokeAPIKeys, Store!validatorVars, Store!Never
  <2> QED BY <2>2, RevokeIsStoreStep
<1>2. ASSUME \/ Admin!OpenDeleteKey \/ Admin!OpenDeleteProject \/ Admin!OpenDeleteTraces
             \/ Admin!CancelDelete \/ Admin!ConfirmDelete
      PROVE  UNCHANGED storeVars
    BY <1>2 DEF Admin!OpenDeleteKey, Admin!OpenDeleteProject, Admin!OpenDeleteTraces, Admin!OpenDelete,
                Admin!CancelDelete, Admin!ConfirmDelete, Admin!storeVars, storeVars
<1>3. ASSUME \/ \E i \in Runs : Admin!FetchAllStep(i)
             \/ Admin!DeleteTraces \/ Admin!DeleteReturns \/ Admin!DeleteFails
      PROVE  UNCHANGED storeVars
    BY <1>3 DEF Admin!FetchAllStep, Admin!DeleteTraces, Admin!DeleteReturns, Admin!DeleteFails,
                Admin!storeVars, storeVars
<1> QED BY <1>1, <1>2, <1>3 DEF AdminStep, StoreStep

(* Every step of the system is a step of the store, or none. *)
LEMMA StepImplementsStore == [Next]_vars => [Store!Next]_(Store!vars)
<1> SUFFICES ASSUME [Next]_vars PROVE StoreStep
  <2>1. UNCHANGED storeVars => UNCHANGED Store!vars
    BY DEF storeVars, Store!vars, Store!validatorVars
  <2> QED BY <2>1 DEF StoreStep
<1>1. CASE UserInShell \/ ShellAnswers
    BY <1>1 DEF UserInShell, ShellAnswers, Rendered, StoreStep
<1>2. CASE IngestStep
    BY <1>2 DEF IngestStep, Store!Next, StoreStep
<1>3. CASE UNCHANGED vars
    BY <1>3 DEF vars, StoreStep
<1> QED BY <1>1, <1>2, <1>3, SettingsStore, AdminStore DEF Next

LEMMA UsesStore == Spec => Store!Spec
<1>1. Init => Store!Init
    BY DEF Init
<1> QED BY <1>1, StepImplementsStore, PTL DEF Spec, Store!Spec

(* Through whichever page and however late a key was revoked, a request    *)
(* that arrives a cache lifetime later is refused.                         *)
THEOREM RevokedKeyRefusedTheorem == Spec => []RevokedKeyRefused
<1> QED BY UsesStore, StoreTheorem, PTL DEF RevokedKeyRefused

-----------------------------------------------------------------------------
(* What is revoked is what was confirmed.                                  *)

(* RevokeAPIKeys stamps no other keys than it is given. *)
LEMMA RevokesOnlyGiven ==
    ASSUME NEW ks, Store!RevokeAPIKeys(ks), NEW k \in Keys, revokedAt'[k] # revokedAt[k]
    PROVE  k \in ks
    BY DEF Store!RevokeAPIKeys

LEMMA SettingsConfirmed ==
    ASSUME SettingsStep, NEW k \in Keys, revokedAt'[k] # revokedAt[k]
    PROVE  Confirmed(k)
<1>1. CASE Settings!RevokeAPIKey
  <2>1. revokedAt' # revokedAt => revoking.at = "sent" /\ owner[revoking.key] = revoking.project
    BY <1>1 DEF Settings!RevokeAPIKey, Settings!storeVars
  <2>2. revokedAt' # revokedAt => Store!RevokeAPIKeys({revoking.key})
    BY <1>1 DEF Settings!RevokeAPIKey, Settings!storeVars, Settings!Store!RevokeAPIKeys,
                Settings!Store!validatorVars, Settings!Store!Never,
                Store!RevokeAPIKeys, Store!validatorVars, Store!Never
  <2>3. k = revoking.key
    BY <2>2, RevokesOnlyGiven
  <2> QED BY <2>1, <2>3 DEF Confirmed
<1>2. CASE \E j \in Keys : Settings!GenerateAPIKey(j)
    BY <1>2 DEF Settings!GenerateAPIKey, Settings!Store!CreateAPIKey
<1>3. CASE \/ Settings!OpenGenerate \/ Settings!SubmitGenerate \/ Settings!CloseGenerate
           \/ Settings!CancelRevoke \/ Settings!ConfirmRevoke
           \/ \E j \in Keys : Settings!OpenRevoke(j)
    BY <1>3 DEF Settings!OpenGenerate, Settings!SubmitGenerate, Settings!CloseGenerate, Settings!CancelRevoke,
                Settings!ConfirmRevoke, Settings!OpenRevoke, Settings!storeVars
<1>4. CASE \/ \E i \in Fetches : Settings!ListAPIKeys(i) \/ Settings!FetchKeysReturns(i) \/ Settings!FetchKeysFails(i)
           \/ Settings!GenerateReturns \/ Settings!GenerateFails
           \/ Settings!RevokeReturns \/ Settings!RevokeFails
    BY <1>4 DEF Settings!ListAPIKeys, Settings!FetchKeysReturns, Settings!FetchKeysFails, Settings!GenerateReturns,
                Settings!GenerateFails, Settings!RevokeReturns, Settings!RevokeFails, Settings!storeVars
<1> QED BY <1>1, <1>2, <1>3, <1>4 DEF SettingsStep

LEMMA AdminConfirmed ==
    ASSUME AdminStep, NEW k \in Keys, revokedAt'[k] # revokedAt[k]
    PROVE  Confirmed(k)
<1> USE DEF Admin!Store!RevokeAPIKeys, Admin!Store!validatorVars, Admin!Store!Never,
            Store!RevokeAPIKeys, Store!validatorVars, Store!Never
<1>1. CASE Admin!AdminRevokesKey
  <2>1. deletion.at = "sent" /\ deletion.kind = "key" /\ Store!RevokeAPIKeys({deletion.target})
    BY <1>1 DEF Admin!AdminRevokesKey
  <2> QED BY <2>1, RevokesOnlyGiven DEF Confirmed
<1>2. CASE Admin!RevokeProjectKeys
  <2>1. PICK ks \in SUBSET {j \in Keys : owner[j] = deletion.target} : Store!RevokeAPIKeys(ks)
    BY <1>2 DEF Admin!RevokeProjectKeys
  <2>2. deletion.at = "rows gone"
    BY <1>2 DEF Admin!RevokeProjectKeys
  <2> QED BY <2>1, <2>2, RevokesOnlyGiven DEF Confirmed
<1>3. CASE \/ Admin!OpenDeleteKey \/ Admin!OpenDeleteProject \/ Admin!OpenDeleteTraces
           \/ Admin!CancelDelete \/ Admin!ConfirmDelete
    BY <1>3 DEF Admin!OpenDeleteKey, Admin!OpenDeleteProject, Admin!OpenDeleteTraces, Admin!OpenDelete,
                Admin!CancelDelete, Admin!ConfirmDelete, Admin!storeVars
<1>4. CASE \/ \E i \in Runs : Admin!FetchAllStep(i)
           \/ Admin!DeleteTraces \/ Admin!DeleteReturns \/ Admin!DeleteFails
    BY <1>4 DEF Admin!FetchAllStep, Admin!DeleteTraces, Admin!DeleteReturns, Admin!DeleteFails, Admin!storeVars
<1> QED BY <1>1, <1>2, <1>3, <1>4 DEF AdminStep

(* No key is revoked but as the user has confirmed it: HandleRevokeAPIKey  *)
(* refuses a key of another project than the one confirmRevoke names,      *)
(* whatever the list on screen was, and the Admin page's handlers keep to  *)
(* the key or the project that was confirmed.                              *)
THEOREM RevokedAsConfirmedTheorem == Spec => RevokedAsConfirmed
<1>1. ASSUME Next, NEW k \in Keys, revokedAt'[k] # revokedAt[k]
      PROVE  Confirmed(k)
  <2>1. CASE UserInShell \/ ShellAnswers
    BY <1>1, <2>1 DEF UserInShell, ShellAnswers, Rendered, storeVars
  <2>2. CASE IngestStep
    BY <1>1, <2>2 DEF IngestStep, Store!Tick, Store!Validate, Store!LookUp, Store!FillCache, Store!Arrive
  <2> QED BY <1>1, <2>1, <2>2, SettingsConfirmed, AdminConfirmed DEF Next
<1>2. [Next]_vars => [\A k \in Keys : revokedAt'[k] # revokedAt[k] => Confirmed(k)]_vars
    BY <1>1
<1> QED BY <1>2, PTL DEF Spec, RevokedAsConfirmed

-----------------------------------------------------------------------------
(* The active project.                                                     *)

LEMMA NatMinimum ==
    ASSUME NEW T \in SUBSET Nat, T # {}
    PROVE  \E m \in T : \A n \in T : m <= n
<1> DEFINE R == OpToRel(<, Nat)
<1>1. IsWellFoundedOn(R, Nat)
    BY NatLessThanWellFounded
<1>2. \A n, m \in Nat : n < m => <<n, m>> \in R
    BY DEF OpToRel
<1> HIDE DEF R
<1>3. PICK m \in T : \A n \in T : ~(<<n, m>> \in R)
    BY <1>1, WFMin
<1>4. \A n \in T : n \in Nat /\ m \in Nat /\ ~(n < m)
    BY <1>2, <1>3
<1>5. \A n \in T : m <= n
    BY <1>4
<1> QED BY <1>5

(* The project that is resolved from a list that is not empty is in it,    *)
(* whatever localStorage answers.                                          *)
LEMMA ResolvesToListed ==
    ASSUME NEW ps \in SUBSET Projects, ps # {}, NEW item
    PROVE  Shell!ResolveActiveProject(ps, item) \in ps
<1>1. ps \in SUBSET Nat
    BY ProjectsAssumption
<1>2. Shell!First(ps) \in ps
    BY <1>1, NatMinimum DEF Shell!First
<1> QED BY <1>2 DEF Shell!ResolveActiveProject

(* A list of projects on its way to the shell names projects. *)
ProjectLists == [at : {"ok"}, projects : SUBSET Projects]

ShellInv ==
    /\ serverProjects \in SUBSET Projects
    /\ me \in [at : {"sent", "done"}] \cup ProjectLists
    /\ lists \in [Lists -> [at : {"free", "sent"}] \cup ProjectLists]
    /\ ActiveProjectKept

(* A project that has been written to localStorage is there, unless the    *)
(* write failed.                                                           *)
LEMMA PersistKeeps ==
    ASSUME NEW p, Shell!Persist(p)
    PROVE  saved' = p \/ unsaved'
    BY DEF Shell!Persist

LEMMA ActivateKeeps ==
    ASSUME NEW ps \in SUBSET Projects, Shell!Activate(ps)
    PROVE  ActiveProjectKept'
<1>1. PICK item : projects' = ps /\ project' = Shell!ResolveActiveProject(ps, item) /\ Shell!Persist(project')
    BY DEF Shell!Activate
<1>2. ps = {} => project' = NoProject
    BY <1>1 DEF Shell!ResolveActiveProject
<1>3. ps # {} => project' \in projects'
    BY <1>1, ResolvesToListed
<1>4. saved' = project' \/ unsaved'
    BY <1>1 DEF Shell!Persist
<1> QED BY <1>2, <1>3, <1>4 DEF ActiveProjectKept, Shell!ActiveProjectKept

LEMMA FetchKeepsLists ==
    ASSUME ShellInv, Shell!FetchProjects
    PROVE  lists' \in [Lists -> [at : {"free", "sent"}] \cup ProjectLists]
    BY DEF ShellInv, Shell!FetchProjects

(* What the user does in the shell. *)
LEMMA UserKeeps ==
    ASSUME ShellInv, UserInShell
    PROVE  ShellInv'
<1>1. CASE Shell!Reload
    BY <1>1 DEF ShellInv, Shell!Reload, Shell!Free, ActiveProjectKept, Shell!ActiveProjectKept
<1>2. CASE Shell!SubmitLogin \/ Shell!ClickLogout \/ Shell!SubmitNewProject
           \/ \E q \in Pages : Shell!Navigate(q) \/ Shell!PopState(q)
    BY <1>2 DEF ShellInv, Shell!SubmitLogin, Shell!ClickLogout, Shell!SubmitNewProject, Shell!Navigate,
                Shell!PopState, ActiveProjectKept, Shell!ActiveProjectKept
<1>3. ASSUME NEW p \in Projects, Shell!SwitchProject(p) PROVE ShellInv'
    BY <1>3, PersistKeeps DEF ShellInv, Shell!SwitchProject, ActiveProjectKept, Shell!ActiveProjectKept
<1> QED BY <1>1, <1>2, <1>3 DEF UserInShell

(* The answers that reach it, in any order. *)
LEMMA AnswersKeep ==
    ASSUME ShellInv, ShellAnswers
    PROVE  ShellInv'
<1> USE DEF ShellInv
<1>1. CASE Shell!AnswerMe \/ Shell!NoSession
    BY <1>1 DEF Shell!AnswerMe, Shell!NoSession, ProjectLists, ActiveProjectKept, Shell!ActiveProjectKept
<1>2. CASE Shell!SessionFound
  <2>1. me \in ProjectLists /\ me.projects \in SUBSET Projects
    BY <1>2 DEF Shell!SessionFound, ProjectLists
  <2>2. me' = [at |-> "done"] /\ serverProjects' = serverProjects
    BY <1>2 DEF Shell!SessionFound
  <2>3. CASE me.projects # {}
    <3>1. Shell!Activate(me.projects) /\ lists' = lists
      BY <1>2, <2>3 DEF Shell!SessionFound
    <3>2. ActiveProjectKept'
      BY <2>1, <3>1, ActivateKeeps
    <3> QED BY <2>2, <3>1, <3>2
  <2>4. CASE me.projects = {}
    <3>1. Shell!FetchProjects /\ UNCHANGED <<projects, project, saved, unsaved>>
      BY <1>2, <2>4 DEF Shell!SessionFound
    <3> QED BY <2>2, <3>1, FetchKeepsLists DEF ActiveProjectKept, Shell!ActiveProjectKept
  <2> QED BY <2>3, <2>4
<1>3. ASSUME NEW i \in Lists, Shell!AnswerList(i) \/ Shell!FetchProjectsFails(i) PROVE ShellInv'
  <2>1. [at |-> "ok", projects |-> serverProjects] \in ProjectLists /\ Shell!Free \in [at : {"free", "sent"}]
    BY DEF ProjectLists, Shell!Free
  <2>2. lists' \in [Lists -> [at : {"free", "sent"}] \cup ProjectLists]
    BY <1>3, <2>1 DEF Shell!AnswerList, Shell!FetchProjectsFails
  <2> QED
    BY <1>3, <2>2 DEF Shell!AnswerList, Shell!FetchProjectsFails, ActiveProjectKept, Shell!ActiveProjectKept
<1>4. ASSUME NEW i \in Lists, Shell!FetchProjectsReturns(i) PROVE ShellInv'
  <2>1. lists[i] \in ProjectLists /\ lists[i].projects \in SUBSET Projects
    BY <1>4 DEF Shell!FetchProjectsReturns, ProjectLists
  <2>2. ActiveProjectKept'
    BY <1>4, <2>1, ActivateKeeps DEF Shell!FetchProjectsReturns
  <2> QED BY <1>4, <2>2 DEF Shell!FetchProjectsReturns, Shell!Free
<1>5. CASE Shell!AnswerLogin \/ Shell!AnswerLogout \/ Shell!LogoutFails \/ Shell!NewProjectFails
    BY <1>5 DEF Shell!AnswerLogin, Shell!AnswerLogout, Shell!LogoutFails, Shell!NewProjectFails,
                ActiveProjectKept, Shell!ActiveProjectKept
<1>6. CASE Shell!LoginReturns
  <2>1. Shell!FetchProjects /\ UNCHANGED <<projects, project, saved, unsaved, me, serverProjects>>
    BY <1>6 DEF Shell!LoginReturns
  <2> QED BY <2>1, FetchKeepsLists DEF ActiveProjectKept, Shell!ActiveProjectKept
<1>7. CASE Shell!LogoutReturns
    BY <1>7 DEF Shell!LogoutReturns, ActiveProjectKept, Shell!ActiveProjectKept
<1>8. CASE Shell!NewProjectReturns
    BY <1>8 DEF Shell!NewProjectReturns, ActiveProjectKept, Shell!ActiveProjectKept
<1>9. ASSUME NEW p \in Projects, Shell!AnswerNewProject(p) PROVE ShellInv'
    BY <1>9 DEF Shell!AnswerNewProject, ActiveProjectKept, Shell!ActiveProjectKept
<1> QED BY <1>1, <1>2, <1>3, <1>4, <1>5, <1>6, <1>7, <1>8, <1>9 DEF ShellAnswers

(* The active project is one the switcher lists, whatever order the        *)
(* session check, the lists of projects, new projects and logouts come in  *)
(* and although localStorage may fail (persistActiveProject,               *)
(* resolveActiveProject), and what localStorage holds is that project      *)
(* unless the last write has failed.                                       *)
THEOREM ActiveProjectKeptTheorem == Spec => []ActiveProjectKept
<1>1. Init => ShellInv
    BY DEF Init, Shell!Init, Shell!Free, ShellInv, ActiveProjectKept, Shell!ActiveProjectKept
<1>2. ShellInv /\ [Next]_vars => ShellInv'
  <2> SUFFICES ASSUME ShellInv, [Next]_vars PROVE ShellInv'
    OBVIOUS
  <2>1. CASE UNCHANGED shellVars
    BY <2>1 DEF shellVars, ShellInv, ActiveProjectKept, Shell!ActiveProjectKept
  <2>2. CASE SettingsStep \/ AdminStep \/ IngestStep \/ UNCHANGED vars
    BY <2>1, <2>2 DEF SettingsStep, AdminStep, IngestStep, vars
  <2> QED BY <2>2, UserKeeps, AnswersKeep DEF Next
<1>3. ShellInv => ActiveProjectKept
    BY DEF ShellInv
<1> QED BY <1>1, <1>2, <1>3, PTL DEF Spec
=============================================================================
