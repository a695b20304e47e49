--------------------------- MODULE PromptRegistry ---------------------------
(***************************************************************************)
(* The Prompt Registry as an agent sees it: the metadata store's versions  *)
(* and label, the two caches of every Query API replica, and the two       *)
(* caches of the TypeScript SDK, for one prompt and one of its labels.     *)
(*                                                                         *)
(* Versions are immutable and cached for ever; the label moves and is      *)
(* cached twice with a time to live.  Every read and every write of the    *)
(* store is a step of its own, so a lookup may read the store before a     *)
(* reassignment and fill the cache after it.  Time is a counter: a hop (a  *)
(* store read, a reply) takes at most MaxFlight ticks.                     *)
(***************************************************************************)
EXTENDS Integers, FiniteSetsExt

CONSTANTS
    Replicas,    \* Query API processes, each with its own PromptCache
    NoReplica,   \* not sent to a replica yet
    Callers,     \* concurrent getPrompt calls of one SDK instance
    Asks,        \* what they ask for: a version, or the label (0)
    Writers,     \* requests that create a version or move the label
    Seed,        \* who wrote version 1
    NoWriter,    \* no such version
    ServerTTL,   \* the 30 seconds of PromptCache's label entries
    SdkTTL,      \* PROMPT_CACHE_TTL_MS
    MaxFlight,   \* bound: ticks a store read or a reply may take
    MaxVersion,  \* bound: versions of the prompt
    MaxWrites,   \* bound: creates and reassignments
    MaxTime      \* bound: ticks

ASSUME ConstantsAssumption ==
    /\ ServerTTL \in Nat \ {0} /\ SdkTTL \in Nat \ {0} /\ MaxFlight \in Nat
    /\ MaxVersion \in Nat \ {0} /\ MaxWrites \in Nat /\ MaxTime \in Nat
    /\ Asks \subseteq 0..MaxVersion
    /\ Seed \notin Writers /\ NoWriter \notin Writers \cup {Seed}

VARIABLES
    now,
    template,      \* template[v]: the stored text of version v, named after its author
    label,         \* the version the label points to
    lastHeld,      \* lastHeld[v]: when the label last left v
    labelCache,    \* labelCache[r]: version and expiry, version 0 when absent
    versionCache,  \* versionCache[r][v]: the text replica r has cached for v
    sdkLabel,      \* the SDK's labelCache entry
    sdkVersion,    \* the SDK's versionCache
    call,          \* call[c]: a getPrompt that missed the SDK's cache
    writer,        \* writer[w]: a create or a reassignment in the Query API
    writes,        \* creates and reassignments so far
    acked          \* acked[w]: the version a 201 promised to w, 0 before

storeVars == <<template, label, lastHeld>>
cacheVars == <<labelCache, versionCache, sdkLabel, sdkVersion>>
vars == <<now, storeVars, cacheVars, call, writer, writes, acked>>

Versions == 1..MaxVersion
Label == 0                    \* a call that asks for the label, not for a version
Texts == Writers \cup {Seed, NoWriter}
Absent == [version |-> 0, expires |-> 0]
Entries == [version : 0..MaxVersion, expires : 0..(MaxTime + ServerTTL + SdkTTL)]
IdleCall == [pc |-> "idle", ask |-> Label, replica |-> NoReplica,
             version |-> 0, text |-> NoWriter, since |-> 0]
CallRecords ==
    [pc : {"idle", "request", "fetched", "reply"}, ask : 0..MaxVersion, replica : Replicas \cup {NoReplica},
     version : 0..MaxVersion, text : Texts, since : 0..MaxTime]
IdleWriter == [pc |-> "idle", version |-> 0, creates |-> FALSE, labels |-> FALSE,
               replica |-> NoReplica]

WriterRecords ==
    [pc : {"idle", "check", "insert", "label", "invalidate"}, version : 0..(MaxVersion + 1),
     creates : BOOLEAN, labels : BOOLEAN, replica : Replicas \cup {NoReplica}]

(* Type correctness of the registry's state. *)
TypeOK ==
    /\ now \in 0..MaxTime
    /\ template \in [Versions -> Texts]
    /\ label \in Versions /\ template[label] # NoWriter
    /\ lastHeld \in [Versions -> 0..MaxTime]
    /\ labelCache \in [Replicas -> Entries]
    /\ versionCache \in [Replicas -> [Versions -> Texts]]
    /\ sdkLabel \in Entries
    /\ sdkVersion \in [Versions -> Texts]
    /\ call \in [Callers -> CallRecords]
    /\ writer \in [Writers -> WriterRecords]
    /\ writes \in 0..MaxWrites
    /\ acked \in [Writers -> 0..MaxVersion]

(* Ticks since the label left version v. *)
Age(v) == IF v = label THEN 0 ELSE now - lastHeld[v]

(* Mutant: an expired entry is served. *)
MutantServerFresh(e) == e.version # 0

(* PromptCache.GetLabel: the entry is there and has not expired. *)
ServerFresh(e) == e.version # 0 /\ now < e.expires

SdkFresh(e) == e.version # 0 /\ now < e.expires

Init ==
    /\ now = 0
    /\ template = [v \in Versions |-> IF v = 1 THEN Seed ELSE NoWriter]
    /\ label = 1
    /\ lastHeld = [v \in Versions |-> 0]
    /\ labelCache = [r \in Replicas |-> Absent]
    /\ versionCache = [r \in Replicas |-> [v \in Versions |-> NoWriter]]
    /\ sdkLabel = Absent
    /\ sdkVersion = [v \in Versions |-> NoWriter]
    /\ call = [c \in Callers |-> IdleCall]
    /\ writer = [w \in Writers |-> IdleWriter]
    /\ writes = 0
    /\ acked = [w \in Writers |-> 0]

-----------------------------------------------------------------------------
(* The SDK: getPrompt(name, label) and getPromptByVersion(name, version).  *)

(* A fresh label and a cached version are returned at once and change      *)
(* nothing; otherwise the call goes to some replica.                       *)
GetPrompt(c, ask, r) ==
    /\ call[c].pc = "idle"
    /\ IF ask = Label THEN ~SdkFresh(sdkLabel) ELSE sdkVersion[ask] = NoWriter
    /\ call' = [call EXCEPT ![c] = [IdleCall EXCEPT !.pc = "request", !.ask = ask, !.replica = r, !.since = now]]
    /\ UNCHANGED <<now, storeVars, cacheVars, writer, writes, acked>>

(* The reply arrives: it is cached, a label from now on, and returned. *)
GetPromptReturns(c) ==
    /\ call[c].pc = "reply"
    /\ IF call[c].ask = Label
       THEN /\ sdkLabel' = [version |-> call[c].version, expires |-> now + SdkTTL]
            /\ UNCHANGED sdkVersion
       ELSE /\ sdkVersion' = [sdkVersion EXCEPT ![call[c].ask] = call[c].text]
            /\ UNCHANGED sdkLabel
    /\ call' = [call EXCEPT ![c] = IdleCall]
    /\ UNCHANGED <<now, storeVars, labelCache, versionCache, writer, writes, acked>>

(* A refusal, a 404, a store error or a lost answer: getPrompt throws and  *)
(* no cache of the SDK changes.                                            *)
GetPromptThrows(c) ==
    /\ call[c].pc # "idle"
    /\ call' = [call EXCEPT ![c] = IdleCall]
    /\ UNCHANGED <<now, storeVars, cacheVars, writer, writes, acked>>

-----------------------------------------------------------------------------
(* The Query API: HandleGetPrompt with PromptCache.GetLabel and GetVersion. *)

Answer(c, v, t) ==
    call' = [call EXCEPT ![c] = [@ EXCEPT !.pc = "reply", !.version = v, !.text = t, !.since = now]]

CacheHit(c) ==
    LET r == call[c].replica  v == call[c].ask
    IN  /\ call[c].pc = "request"
        /\ IF v = Label
           THEN ServerFresh(labelCache[r]) /\ Answer(c, labelCache[r].version, NoWriter)
           ELSE versionCache[r][v] # NoWriter /\ Answer(c, v, versionCache[r][v])
        /\ UNCHANGED <<now, storeVars, cacheVars, writer, writes, acked>>

(* The store is read with no lock held; a missing version is an error. *)
ReadStore(c) ==
    LET r == call[c].replica  v == call[c].ask
    IN  /\ call[c].pc = "request"
        /\ IF v = Label THEN ~ServerFresh(labelCache[r])
           ELSE versionCache[r][v] = NoWriter /\ template[v] # NoWriter
        /\ call' = [call EXCEPT ![c] = [@ EXCEPT !.pc = "fetched", !.since = now,
                                                 !.version = IF v = Label THEN label ELSE v,
                                                 !.text = IF v = Label THEN NoWriter ELSE template[v]]]
        /\ UNCHANGED <<now, storeVars, cacheVars, writer, writes, acked>>

(* Back under the lock: an entry that another lookup has put there in the  *)
(* meantime wins, otherwise this one goes in.                              *)
FillCache(c) ==
    LET r == call[c].replica  v == call[c].ask
    IN  /\ call[c].pc = "fetched"
        /\ \/ /\ v = Label /\ ServerFresh(labelCache[r])
              /\ Answer(c, labelCache[r].version, NoWriter)
              /\ UNCHANGED <<labelCache, versionCache>>
           \/ /\ v = Label /\ ~ServerFresh(labelCache[r])
              /\ Answer(c, call[c].version, NoWriter)
              /\ labelCache' = [labelCache EXCEPT ![r] = [version |-> call[c].version, expires |-> now + ServerTTL]]
              /\ UNCHANGED versionCache
           \/ /\ v # Label /\ versionCache[r][v] # NoWriter
              /\ Answer(c, v, versionCache[r][v])
              /\ UNCHANGED <<labelCache, versionCache>>
           \/ /\ v # Label /\ versionCache[r][v] = NoWriter
              /\ Answer(c, v, call[c].text)
              /\ versionCache' = [versionCache EXCEPT ![r] = [@ EXCEPT ![v] = call[c].text]]
              /\ UNCHANGED labelCache
        /\ UNCHANGED <<now, storeVars, sdkLabel, sdkVersion, writer, writes, acked>>

-----------------------------------------------------------------------------
(* The Query API: HandleCreatePrompt and HandleSetLabel. *)

Stored == {v \in Versions : template[v] # NoWriter}

(* A create with the version the caller names, or with the highest stored  *)
(* version plus one; labels: a label is to be set on it.                   *)
CreatePrompt(w, v, labels, r) ==
    /\ writer[w].pc = "idle" /\ acked[w] = 0
    /\ writes < MaxWrites /\ writes' = writes + 1
    /\ v \in Versions \cup {Max(Stored) + 1}
    /\ writer' = [writer EXCEPT ![w] = [pc |-> "check", version |-> v, creates |-> TRUE, labels |-> labels, replica |-> r]]
    /\ UNCHANGED <<now, storeVars, cacheVars, call, acked>>

Done(w) == writer' = [writer EXCEPT ![w] = IdleWriter]
Goto(w, pc) == writer' = [writer EXCEPT ![w] = [@ EXCEPT !.pc = pc]]

(* A create goes on unless the version exists, a reassignment if it does. *)
CheckVersion(w) ==
    /\ writer[w].pc = "check"
    /\ writer[w].version \in Versions
    /\ IF writer[w].creates
       THEN IF writer[w].version \in Stored THEN Done(w) ELSE Goto(w, "insert")
       ELSE IF writer[w].version \in Stored THEN Goto(w, "label") ELSE Done(w)
    /\ UNCHANGED <<now, storeVars, cacheVars, call, acked, writes>>

(* Mutant: the insert overwrites, as an upsert would. *)
MutantInsertConflicts(v) == FALSE

(* The unique key of the prompt_versions table. *)
InsertConflicts(v) == v \in Stored

CreatePromptVersion(w) ==
    /\ writer[w].pc = "insert"
    /\ IF InsertConflicts(writer[w].version)
       THEN Done(w) /\ UNCHANGED <<template, acked>>
       ELSE /\ template' = [template EXCEPT ![writer[w].version] = w]
            /\ IF writer[w].labels
               THEN Goto(w, "label") /\ UNCHANGED acked
               ELSE Done(w) /\ acked' = [acked EXCEPT ![w] = writer[w].version]
    /\ UNCHANGED <<now, label, lastHeld, cacheVars, call, writes>>

SetLabel(w, v, r) ==
    /\ writer[w].pc = "idle"
    /\ writes < MaxWrites /\ writes' = writes + 1
    /\ writer' = [writer EXCEPT ![w] = [pc |-> "check", version |-> v, creates |-> FALSE, labels |-> TRUE, replica |-> r]]
    /\ UNCHANGED <<now, storeVars, cacheVars, call, acked>>

(* SetPromptLabel succeeds, or fails: a reassignment then stops, a create  *)
(* goes on to invalidate and answers 201 all the same.                     *)
SetPromptLabel(w) ==
    /\ writer[w].pc = "label"
    /\ \/ /\ label' = writer[w].version
          /\ lastHeld' = IF label' = label THEN lastHeld ELSE [lastHeld EXCEPT ![label] = now]
          /\ Goto(w, "invalidate")
       \/ /\ UNCHANGED <<label, lastHeld>>
          /\ IF writer[w].creates THEN Goto(w, "invalidate") ELSE Done(w)
    /\ UNCHANGED <<now, template, cacheVars, call, acked, writes>>

(* InvalidateLabel clears the cache of the replica that ran the handler. *)
InvalidateLabel(w) ==
    /\ writer[w].pc = "invalidate"
    /\ labelCache' = [labelCache EXCEPT ![writer[w].replica] = Absent]
    /\ acked' = IF writer[w].creates THEN [acked EXCEPT ![w] = writer[w].version] ELSE acked
    /\ Done(w)
    /\ UNCHANGED <<now, storeVars, versionCache, sdkLabel, sdkVersion, call, writes>>

(* Time passes, but no hop of a call takes more than MaxFlight ticks, and  *)
(* a handler that has moved the label goes on to InvalidateLabel at once.  *)
Tick ==
    /\ now < MaxTime
    /\ \A w \in Writers : writer[w].pc # "invalidate"
    /\ \A c \in Callers : call[c].pc # "idle" => now - call[c].since < MaxFlight
    /\ now' = now + 1
    /\ UNCHANGED <<storeVars, cacheVars, call, writer, writes, acked>>

Next ==
    \/ Tick
    \/ \E c \in Callers :
          \/ \E ask \in Asks, r \in Replicas : GetPrompt(c, ask, r)
          \/ CacheHit(c) \/ ReadStore(c) \/ FillCache(c)
          \/ GetPromptReturns(c) \/ GetPromptThrows(c)
    \/ \E w \in Writers :
          \/ \E v \in 1..(MaxVersion + 1), labels \in BOOLEAN, r \in Replicas : CreatePrompt(w, v, labels, r)
          \/ \E v \in Versions, r \in Replicas : SetLabel(w, v, r)
          \/ CheckVersion(w) \/ CreatePromptVersion(w) \/ SetPromptLabel(w) \/ InvalidateLabel(w)

Spec == Init /\ [][Next]_vars

-----------------------------------------------------------------------------
(* A reassignment reaches every agent within the two times to live and the *)
(* two hops that follow the store read: no later getPrompt returns a       *)
(* version the label left longer ago, although a lookup that read the      *)
(* store before the reassignment may fill the cache after InvalidateLabel, *)
(* and other replicas are never invalidated.                               *)
ReassignmentReachesAgents ==
    SdkFresh(sdkLabel) => Age(sdkLabel.version) <= (ServerTTL - 1) + (SdkTTL - 1) + 2 * MaxFlight

(* A version never changes: what a 201 promised its author is what the     *)
(* store holds and what every cache hands out, although two creates may    *)
(* compute the same next version and both pass the existence check.        *)
VersionsImmutable ==
    /\ \A w \in Writers : acked[w] # 0 => template[acked[w]] = w
    /\ \A v \in Versions :
          /\ sdkVersion[v] \in {NoWriter, template[v]}
          /\ \A r \in Replicas : versionCache[r][v] \in {NoWriter, template[v]}
=============================================================================
