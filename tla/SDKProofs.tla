----------------------------- MODULE SDKProofs -----------------------------
(***************************************************************************)
(* Proofs about what the TypeScript SDK is for: the prompts an agent gets  *)
(* through its cache and the Query API's, for any number of replicas,      *)
(* lookups and writers, any times to live and any bound on a hop; and its  *)
(* tracer, for every set of spans and every number of overlapping exports. *)
(***************************************************************************)
EXTENDS PromptRegistry, TracerSDK, FiniteSetTheorems, WellFoundedInduction, TLAPS

-----------------------------------------------------------------------------
(* The Prompt Registry.                                                    *)

(* What a handler knows of the version it works on. *)
WriterInv ==
    \A w \in Writers :
        /\ writer[w].pc \in {"insert", "label", "invalidate"} => writer[w].version \in Versions
        /\ writer[w].pc \in {"label", "invalidate"} => template[writer[w].version] # NoWriter
        /\ writer[w].pc \in {"label", "invalidate"} /\ writer[w].creates => template[writer[w].version] = w

(* A request that is under way has reached a replica. *)
ReplicaInv ==
    /\ \A c \in Callers : call[c].pc # "idle" => call[c].replica \in Replicas
    /\ \A w \in Writers : writer[w].pc # "idle" => writer[w].replica \in Replicas

(* What a lookup by version has read is what the store holds. *)
TextInv ==
    \A c \in Callers :
        call[c].ask # Label /\ call[c].pc \in {"fetched", "reply"} =>
            call[c].text = template[call[c].ask] /\ call[c].text # NoWriter

(* No hop has taken longer than MaxFlight, and the label left every        *)
(* version in the past.                                                    *)
ClockInv ==
    /\ \A v \in Versions : lastHeld[v] <= now
    /\ \A c \in Callers : call[c].pc # "idle" => call[c].since <= now /\ now - call[c].since <= MaxFlight

(* How stale a label may be at each station on its way from the store to   *)
(* the agent: just read, in a replica's cache, on its way back, in the     *)
(* SDK's cache.                                                            *)
FetchedAge ==
    \A c \in Callers : call[c].ask = Label /\ call[c].pc = "fetched" =>
        call[c].version \in Versions /\ Age(call[c].version) <= now - call[c].since
CachedAge ==
    \A r \in Replicas : labelCache[r].version # 0 =>
        /\ labelCache[r].expires <= now + ServerTTL
        /\ Age(labelCache[r].version) <= MaxFlight + (now + ServerTTL - labelCache[r].expires)
ReplyAge ==
    \A c \in Callers : call[c].ask = Label /\ call[c].pc = "reply" =>
        /\ call[c].version \in Versions
        /\ Age(call[c].version) <= MaxFlight + (ServerTTL - 1) + (now - call[c].since)
SdkAge ==
    sdkLabel.version # 0 =>
        Age(sdkLabel.version) <= 2 * MaxFlight + (ServerTTL - 1) + (now + SdkTTL - sdkLabel.expires)
AgeInv == FetchedAge /\ CachedAge /\ ReplyAge /\ SdkAge

(* The inductive invariant: the versions' part and the label's part. *)
Inv == TypeOK /\ ReplicaInv /\ WriterInv /\ TextInv /\ VersionsImmutable /\ ClockInv /\ AgeInv

(* The idle records have their types. *)
LEMMA IdleTypes == IdleCall \in CallRecords /\ IdleWriter \in WriterRecords
  BY ConstantsAssumption DEF CallRecords, WriterRecords, IdleCall, IdleWriter, Texts, Label

(* The initial state: version 1 is there and labelled, every cache empty. *)
LEMMA InitInv == Init => Inv
  <1> SUFFICES ASSUME Init PROVE Inv
    OBVIOUS
  <1>1. TypeOK
    <2>1. Absent \in Entries
      BY ConstantsAssumption DEF Absent, Entries
    <2>2. 1 \in Versions
      BY ConstantsAssumption DEF Versions
    <2>3. QED  BY <2>1, <2>2, IdleTypes, ConstantsAssumption DEF Init, TypeOK, Texts
  <1>2. /\ \A c \in Callers : call[c] = IdleCall
        /\ \A w \in Writers : writer[w] = IdleWriter /\ acked[w] = 0
        /\ \A r \in Replicas : labelCache[r] = Absent
    BY DEF Init
  <1>3. ReplicaInv /\ WriterInv /\ TextInv
    BY <1>2 DEF ReplicaInv, WriterInv, TextInv, IdleCall, IdleWriter, Label
  <1>4. VersionsImmutable
    BY <1>2 DEF Init, VersionsImmutable
  <1>5. ClockInv
    BY <1>2 DEF Init, ClockInv, IdleCall
  <1>6. AgeInv
    BY <1>2 DEF Init, AgeInv, FetchedAge, CachedAge, ReplyAge, SdkAge, IdleCall, Absent
  <1>7. QED  BY <1>1, <1>3, <1>4, <1>5, <1>6 DEF Inv

(* A step of a lookup that answers with a proper value keeps call typed. *)
LEMMA AnswerType ==
    ASSUME TypeOK, NEW c \in Callers, NEW v \in 0..MaxVersion, NEW t \in Texts, Answer(c, v, t)
    PROVE  call' \in [Callers -> CallRecords]
  <1>1. [call[c] EXCEPT !.pc = "reply", !.version = v, !.text = t, !.since = now] \in CallRecords
    BY DEF TypeOK, CallRecords
  <1>2. QED  BY <1>1 DEF Answer, TypeOK

(* What an answer changes in the records of the lookups. *)
LEMMA AnswerFields ==
    ASSUME TypeOK, NEW c \in Callers, NEW v, NEW t, Answer(c, v, t)
    PROVE  /\ \A x \in Callers : x # c => call'[x] = call[x]
           /\ call'[c].ask = call[c].ask /\ call'[c].replica = call[c].replica
           /\ call'[c].version = v /\ call'[c].text = t /\ call'[c].pc = "reply" /\ call'[c].since = now
  <1>1. call[c] \in CallRecords
    BY DEF TypeOK
  <1>2. QED  BY <1>1 DEF Answer, TypeOK, CallRecords

(* Every step preserves type correctness. *)
LEMMA TypeStep == Inv /\ [Next]_vars => TypeOK'
  <1> SUFFICES ASSUME Inv, [Next]_vars PROVE TypeOK'
    OBVIOUS
  <1> USE DEF Inv
  <1>a. \A c \in Callers : call[c] \in CallRecords /\ (call[c].pc # "idle" => call[c].replica \in Replicas)
    BY DEF TypeOK, ReplicaInv
  <1>b. \A w \in Writers : writer[w] \in WriterRecords
    BY DEF TypeOK
  <1>1. CASE Tick
    BY <1>1, ConstantsAssumption DEF Tick, TypeOK, storeVars, cacheVars
  <1>2. ASSUME NEW c \in Callers, NEW ask \in Asks, NEW r \in Replicas, GetPrompt(c, ask, r) PROVE TypeOK'
    <2>1. [IdleCall EXCEPT !.pc = "request", !.ask = ask, !.replica = r, !.since = now] \in CallRecords
      BY IdleTypes, ConstantsAssumption DEF CallRecords, TypeOK
    <2>2. QED  BY <1>2, <2>1 DEF GetPrompt, TypeOK, storeVars, cacheVars
  <1>3. ASSUME NEW c \in Callers, CacheHit(c) PROVE TypeOK'
    <2>1. call[c].replica \in Replicas /\ call[c].ask \in 0..MaxVersion
      BY <1>3, <1>a DEF CacheHit, CallRecords
    <2>2. labelCache[call[c].replica].version \in 0..MaxVersion
      BY <2>1 DEF TypeOK, Entries
    <2>3. NoWriter \in Texts
      BY DEF Texts
    <2>4. call[c].ask # Label => versionCache[call[c].replica][call[c].ask] \in Texts
      BY <2>1, ConstantsAssumption DEF TypeOK, Versions, Label
    <2>5. call' \in [Callers -> CallRecords]
      BY <1>3, <2>1, <2>2, <2>3, <2>4, AnswerType DEF CacheHit
    <2>6. QED  BY <1>3, <2>5 DEF CacheHit, TypeOK, storeVars, cacheVars
  <1>4. ASSUME NEW c \in Callers, ReadStore(c) PROVE TypeOK'
    <2>1. call[c].ask \in 0..MaxVersion /\ label \in 0..MaxVersion /\ NoWriter \in Texts
      BY <1>a, ConstantsAssumption DEF CallRecords, TypeOK, Versions, Texts
    <2>2. call[c].ask # Label => template[call[c].ask] \in Texts
      BY <2>1, ConstantsAssumption DEF TypeOK, Versions, Label
    <2> DEFINE to == [call[c] EXCEPT !.pc = "fetched", !.since = now,
                                     !.version = IF call[c].ask = Label THEN label ELSE call[c].ask,
                                     !.text = IF call[c].ask = Label THEN NoWriter ELSE template[call[c].ask]]
    <2>3. to \in CallRecords
      BY <1>a, <2>1, <2>2 DEF CallRecords, TypeOK
    <2>4. call' = [call EXCEPT ![c] = to]
      BY <1>4 DEF ReadStore
    <2>5. QED  BY <1>4, <2>3, <2>4 DEF ReadStore, TypeOK, storeVars, cacheVars
  <1>5. ASSUME NEW c \in Callers, FillCache(c) PROVE TypeOK'
    <2>1. /\ call[c].replica \in Replicas /\ call[c].ask \in 0..MaxVersion
          /\ call[c].version \in 0..MaxVersion /\ call[c].text \in Texts
      BY <1>5, <1>a DEF FillCache, CallRecords
    <2>2. labelCache[call[c].replica].version \in 0..MaxVersion
      BY <2>1 DEF TypeOK, Entries
    <2>3. NoWriter \in Texts
      BY DEF Texts
    <2>4. call[c].ask # Label => call[c].ask \in Versions
      BY <2>1, ConstantsAssumption DEF Versions, Label
    <2>5. call[c].ask # Label => versionCache[call[c].replica][call[c].ask] \in Texts
      BY <2>1, <2>4 DEF TypeOK
    <2>6. call' \in [Callers -> CallRecords]
      BY <1>5, <2>1, <2>2, <2>3, <2>5, AnswerType DEF FillCache
    <2>7. [version |-> call[c].version, expires |-> now + ServerTTL] \in Entries
      BY <2>1, ConstantsAssumption DEF TypeOK, Entries
    <2>8. labelCache' \in [Replicas -> Entries]
      BY <1>5, <2>7 DEF FillCache, TypeOK
    <2>9. call[c].ask # Label => [versionCache[call[c].replica] EXCEPT ![call[c].ask] = call[c].text] \in [Versions -> Texts]
      BY <2>1, <2>4 DEF TypeOK
    <2>10. versionCache' \in [Replicas -> [Versions -> Texts]]
      BY <1>5, <2>1, <2>9 DEF FillCache, TypeOK
    <2>11. QED  BY <1>5, <2>6, <2>8, <2>10 DEF FillCache, TypeOK, storeVars
  <1>6. ASSUME NEW c \in Callers, GetPromptReturns(c) PROVE TypeOK'
    <2>1. /\ call[c].ask \in 0..MaxVersion
          /\ call[c].version \in 0..MaxVersion /\ call[c].text \in Texts
      BY <1>a DEF CallRecords
    <2>2. [version |-> call[c].version, expires |-> now + SdkTTL] \in Entries
      BY <2>1, ConstantsAssumption DEF TypeOK, Entries
    <2>3. sdkLabel' \in Entries /\ sdkVersion' \in [Versions -> Texts]
      BY <1>6, <2>1, <2>2 DEF GetPromptReturns, TypeOK
    <2>4. QED  BY <1>6, <2>3, IdleTypes DEF GetPromptReturns, TypeOK, storeVars
  <1>7. ASSUME NEW c \in Callers, GetPromptThrows(c) PROVE TypeOK'
    BY <1>7, IdleTypes DEF GetPromptThrows, TypeOK, storeVars, cacheVars
  <1>8. ASSUME NEW w \in Writers, NEW v \in 1..(MaxVersion + 1), NEW labels \in BOOLEAN, NEW r \in Replicas,
               CreatePrompt(w, v, labels, r)
        PROVE  TypeOK'
    <2>1. [pc |-> "check", version |-> v, creates |-> TRUE, labels |-> labels, replica |-> r] \in WriterRecords
      BY ConstantsAssumption DEF WriterRecords
    <2>2. writes' \in 0..MaxWrites
      BY <1>8, ConstantsAssumption DEF CreatePrompt, TypeOK
    <2>3. QED  BY <1>8, <2>1, <2>2 DEF CreatePrompt, TypeOK, storeVars, cacheVars
  <1>9. ASSUME NEW w \in Writers, NEW v \in Versions, NEW r \in Replicas, SetLabel(w, v, r) PROVE TypeOK'
    <2>1. [pc |-> "check", version |-> v, creates |-> FALSE, labels |-> TRUE, replica |-> r] \in WriterRecords
      BY ConstantsAssumption DEF WriterRecords, Versions
    <2>2. writes' \in 0..MaxWrites
      BY <1>9, ConstantsAssumption DEF SetLabel, TypeOK
    <2>3. QED  BY <1>9, <2>1, <2>2 DEF SetLabel, TypeOK, storeVars, cacheVars
  <1>c. ASSUME NEW w \in Writers, NEW pc \in {"insert", "label", "invalidate"}, Done(w) \/ Goto(w, pc)
        PROVE  writer' \in [Writers -> WriterRecords]
    <2>1. [writer[w] EXCEPT !.pc = pc] \in WriterRecords
      BY <1>b, <1>c DEF WriterRecords
    <2>2. QED  BY <1>c, <2>1, IdleTypes DEF Done, Goto, TypeOK
  <1>10. ASSUME NEW w \in Writers, CheckVersion(w) PROVE TypeOK'
    <2>1. writer' \in [Writers -> WriterRecords]
      BY <1>10, <1>c DEF CheckVersion
    <2>2. QED  BY <1>10, <2>1 DEF CheckVersion, TypeOK, storeVars, cacheVars
  <1>11. ASSUME NEW w \in Writers, CreatePromptVersion(w) PROVE TypeOK'
    <2>1. writer' \in [Writers -> WriterRecords]
      BY <1>11, <1>c DEF CreatePromptVersion
    <2>2. writer[w].version \in Versions /\ writer[w].version \in 0..MaxVersion /\ w \in Texts /\ w # NoWriter
      BY <1>11, ConstantsAssumption DEF CreatePromptVersion, WriterInv, Versions, Texts
    <2>3. /\ template' \in [Versions -> Texts]
          /\ template'[label] # NoWriter
          /\ acked' \in [Writers -> 0..MaxVersion]
      BY <1>11, <2>2 DEF CreatePromptVersion, TypeOK
    <2>4. QED  BY <1>11, <2>1, <2>3 DEF CreatePromptVersion, TypeOK, cacheVars
  <1>12. ASSUME NEW w \in Writers, SetPromptLabel(w) PROVE TypeOK'
    <2>1. writer' \in [Writers -> WriterRecords]
      BY <1>12, <1>c DEF SetPromptLabel
    <2>2. /\ label' \in Versions /\ template[label'] # NoWriter
          /\ lastHeld' \in [Versions -> 0..MaxTime]
      BY <1>12 DEF SetPromptLabel, WriterInv, TypeOK
    <2>3. QED  BY <1>12, <2>1, <2>2 DEF SetPromptLabel, TypeOK, cacheVars
  <1>13. ASSUME NEW w \in Writers, InvalidateLabel(w) PROVE TypeOK'
    <2>1. writer' \in [Writers -> WriterRecords]
      BY <1>13, <1>c DEF InvalidateLabel
    <2>2. Absent \in Entries
      BY ConstantsAssumption DEF Absent, Entries
    <2>3. writer[w].version \in 0..MaxVersion
      BY <1>13, ConstantsAssumption DEF InvalidateLabel, WriterInv, Versions
    <2>4. QED  BY <1>13, <2>1, <2>2, <2>3 DEF InvalidateLabel, TypeOK, storeVars
  <1>14. CASE UNCHANGED vars
    BY <1>14 DEF vars, TypeOK, storeVars, cacheVars
  <1>20. QED
    BY <1>1, <1>2, <1>3, <1>4, <1>5, <1>6, <1>7, <1>8, <1>9, <1>10, <1>11, <1>12, <1>13, <1>14 DEF Next

(* Stored versions never change: an insert only fills a free version. *)
LEMMA TemplateStep ==
    Inv /\ [Next]_vars => \A v \in Versions : template[v] # NoWriter => template'[v] = template[v]
  <1> SUFFICES ASSUME Inv, [Next]_vars, NEW v \in Versions, template[v] # NoWriter
               PROVE  template'[v] = template[v]
    OBVIOUS
  <1>1. CASE UNCHANGED template
    BY <1>1
  <1>2. ASSUME NEW w \in Writers, CreatePromptVersion(w) PROVE template'[v] = template[v]
    BY <1>2 DEF CreatePromptVersion, InsertConflicts, Stored, Inv, TypeOK
  <1>3. QED
    BY <1>1, <1>2 DEF Next, vars, storeVars, Tick, GetPrompt, CacheHit, ReadStore, FillCache, GetPromptReturns,
       GetPromptThrows, CreatePrompt, SetLabel, CheckVersion, SetPromptLabel, InvalidateLabel

(* Every step preserves what handlers know. *)
LEMMA WriterStep == Inv /\ [Next]_vars => (WriterInv /\ ReplicaInv)'
  <1> SUFFICES ASSUME Inv, [Next]_vars PROVE (WriterInv /\ ReplicaInv)'
    OBVIOUS
  <1>t. \A v \in Versions : template[v] # NoWriter => template'[v] = template[v]
    BY TemplateStep
  <1> USE DEF Inv
  <1>1. ASSUME UNCHANGED writer PROVE WriterInv'
    BY <1>1, <1>t DEF WriterInv
  <1>2. ASSUME NEW w \in Writers, Done(w) PROVE (WriterInv /\ (\A x \in Writers : writer[x].pc # "idle" => writer[x].replica \in Replicas))'
    BY <1>2, <1>t DEF Done, WriterInv, TypeOK, IdleWriter, ReplicaInv
  <1>3. ASSUME NEW w \in Writers, NEW pc, Goto(w, pc), writer[w].pc # "idle",
               writer[w].version \in Versions,
               pc \in {"label", "invalidate"} => template'[writer[w].version] # NoWriter,
               pc \in {"label", "invalidate"} /\ writer[w].creates => template'[writer[w].version] = w
        PROVE  (WriterInv /\ (\A x \in Writers : writer[x].pc # "idle" => writer[x].replica \in Replicas))'
    <2>1. writer[w] \in WriterRecords
      BY DEF TypeOK
    <2>2. /\ writer'[w].version = writer[w].version /\ writer'[w].creates = writer[w].creates
          /\ writer'[w].pc = pc /\ writer'[w].replica = writer[w].replica
          /\ \A x \in Writers : x # w => writer'[x] = writer[x]
      BY <1>3, <2>1 DEF Goto, TypeOK, WriterRecords
    <2>3. QED  BY <1>3, <1>t, <2>2 DEF WriterInv, ReplicaInv
  <1>4. ASSUME UNCHANGED call PROVE (\A c \in Callers : call[c].pc # "idle" => call[c].replica \in Replicas)'
    BY <1>4 DEF ReplicaInv
  <1>5. ASSUME NEW c \in Callers, UNCHANGED writer,
               \A x \in Callers : x # c => call'[x] = call[x],
               call'[c].pc # "idle" => call'[c].replica \in Replicas
        PROVE  (WriterInv /\ ReplicaInv)'
    BY <1>1, <1>5 DEF ReplicaInv
  <1>6. CASE Tick
    BY <1>6, <1>1, <1>4 DEF Tick, ReplicaInv
  <1>7. ASSUME NEW c \in Callers, NEW ask \in Asks, NEW r \in Replicas, GetPrompt(c, ask, r) PROVE (WriterInv /\ ReplicaInv)'
    BY <1>7, <1>5 DEF GetPrompt, IdleCall, TypeOK
  <1>8. ASSUME NEW c \in Callers, CacheHit(c) \/ ReadStore(c) \/ FillCache(c) PROVE (WriterInv /\ ReplicaInv)'
    <2>1. call[c] \in CallRecords /\ call[c].replica \in Replicas
      BY <1>8 DEF TypeOK, ReplicaInv, CacheHit, ReadStore, FillCache
    <2>2. (\A x \in Callers : x # c => call'[x] = call[x]) /\ call'[c].replica = call[c].replica
      <3>1. CASE CacheHit(c)
        BY <3>1, AnswerFields DEF CacheHit
      <3>2. CASE ReadStore(c)
        BY <3>2, <2>1 DEF ReadStore, TypeOK, CallRecords
      <3>3. CASE FillCache(c)
        BY <3>3, AnswerFields DEF FillCache
      <3>4. QED  BY <1>8, <3>1, <3>2, <3>3
    <2>3. UNCHANGED writer
      BY <1>8 DEF CacheHit, ReadStore, FillCache
    <2>4. QED  BY <1>5, <2>1, <2>2, <2>3
  <1>9. ASSUME NEW c \in Callers, GetPromptReturns(c) \/ GetPromptThrows(c) PROVE (WriterInv /\ ReplicaInv)'
    BY <1>9, <1>5 DEF GetPromptReturns, GetPromptThrows, IdleCall, TypeOK
  <1>10. ASSUME NEW w \in Writers, NEW v \in 1..(MaxVersion + 1), NEW labels \in BOOLEAN, NEW r \in Replicas,
                CreatePrompt(w, v, labels, r)
         PROVE  (WriterInv /\ ReplicaInv)'
    BY <1>10, <1>4, <1>t DEF CreatePrompt, WriterInv, ReplicaInv, TypeOK
  <1>11. ASSUME NEW w \in Writers, NEW v \in Versions, NEW r \in Replicas, SetLabel(w, v, r) PROVE (WriterInv /\ ReplicaInv)'
    BY <1>11, <1>4, <1>t DEF SetLabel, WriterInv, ReplicaInv, TypeOK
  <1>12. ASSUME NEW w \in Writers, CheckVersion(w) PROVE (WriterInv /\ ReplicaInv)'
    <2>1. UNCHANGED <<call, template>> /\ writer[w].version \in Versions /\ writer[w].pc = "check"
      BY <1>12 DEF CheckVersion, storeVars
    <2>2. CASE Done(w)
      BY <1>2, <1>4, <2>1, <2>2 DEF ReplicaInv
    <2>3. CASE Goto(w, "insert")
      BY <1>3, <1>4, <2>1, <2>3 DEF ReplicaInv
    <2>4. CASE Goto(w, "label") /\ writer[w].version \in Stored /\ ~writer[w].creates
      BY <1>3, <1>4, <2>1, <2>4 DEF ReplicaInv, Stored
    <2>5. QED  BY <1>12, <2>2, <2>3, <2>4 DEF CheckVersion
  <1>13. ASSUME NEW w \in Writers, CreatePromptVersion(w) PROVE (WriterInv /\ ReplicaInv)'
    <2>1. UNCHANGED call /\ writer[w].version \in Versions /\ writer[w].pc = "insert"
      BY <1>13 DEF CreatePromptVersion, WriterInv
    <2>2. CASE Done(w)
      BY <1>2, <1>4, <2>1, <2>2 DEF ReplicaInv
    <2>3. CASE Goto(w, "label") /\ template' = [template EXCEPT ![writer[w].version] = w]
      <3>1. template'[writer[w].version] = w /\ w # NoWriter
        BY <2>1, <2>3, ConstantsAssumption DEF TypeOK
      <3>2. QED  BY <1>3, <1>4, <2>1, <2>3, <3>1 DEF ReplicaInv
    <2>4. QED  BY <1>13, <2>2, <2>3 DEF CreatePromptVersion
  <1>14. ASSUME NEW w \in Writers, SetPromptLabel(w) PROVE (WriterInv /\ ReplicaInv)'
    <2>1. UNCHANGED <<call, template>> /\ writer[w].version \in Versions /\ writer[w].pc = "label"
      BY <1>14 DEF SetPromptLabel, WriterInv
    <2>2. CASE Done(w)
      BY <1>2, <1>4, <2>1, <2>2 DEF ReplicaInv
    <2>3. CASE Goto(w, "invalidate")
      BY <1>3, <1>4, <2>1, <2>3 DEF ReplicaInv, WriterInv
    <2>4. QED  BY <1>14, <2>2, <2>3 DEF SetPromptLabel
  <1>15. ASSUME NEW w \in Writers, InvalidateLabel(w) PROVE (WriterInv /\ ReplicaInv)'
    BY <1>15, <1>2, <1>4 DEF InvalidateLabel, ReplicaInv
  <1>16. CASE UNCHANGED vars
    BY <1>16, <1>1, <1>4 DEF vars, ReplicaInv
  <1>20. QED
    BY <1>6, <1>7, <1>8, <1>9, <1>10, <1>11, <1>12, <1>13, <1>14, <1>15, <1>16 DEF Next

(* Every step preserves the immutability of versions, in the store and on  *)
(* every way out of it.                                                    *)
LEMMA VersionStep == Inv /\ [Next]_vars => (TextInv /\ VersionsImmutable)'
  <1> SUFFICES ASSUME Inv, [Next]_vars PROVE (TextInv /\ VersionsImmutable)'
    OBVIOUS
  <1>t. \A v \in Versions : template[v] # NoWriter => template'[v] = template[v]
    BY TemplateStep
  <1> USE DEF Inv
  <1>v. \A c \in Callers : call[c] \in CallRecords /\ (call[c].ask # Label => call[c].ask \in Versions)
    BY ConstantsAssumption DEF TypeOK, CallRecords, Versions, Label
  <1>1. ASSUME UNCHANGED call PROVE TextInv'
    BY <1>1, <1>t, <1>v DEF TextInv
  <1>2. ASSUME NEW c \in Callers, \A x \in Callers : x # c => call'[x] = call[x],
               call'[c].ask # Label /\ call'[c].pc \in {"fetched", "reply"} =>
                   call'[c].text = template'[call'[c].ask] /\ call'[c].text # NoWriter
        PROVE  TextInv'
    BY <1>2, <1>t, <1>v DEF TextInv
  <1>3. ASSUME UNCHANGED <<versionCache, sdkVersion, acked>> PROVE VersionsImmutable'
    BY <1>3, <1>t, ConstantsAssumption DEF VersionsImmutable, TypeOK, Versions
  <1>4. CASE Tick
    BY <1>4, <1>1, <1>3 DEF Tick, cacheVars
  <1>5. ASSUME NEW c \in Callers, NEW ask \in Asks, NEW r \in Replicas, GetPrompt(c, ask, r) PROVE (TextInv /\ VersionsImmutable)'
    <2>1. (\A x \in Callers : x # c => call'[x] = call[x]) /\ call'[c].pc = "request"
      BY <1>5 DEF GetPrompt, IdleCall, TypeOK
    <2>2. QED  BY <1>5, <2>1, <1>2, <1>3 DEF GetPrompt, cacheVars
  <1>6. ASSUME NEW c \in Callers, CacheHit(c) PROVE (TextInv /\ VersionsImmutable)'
    <2>1. UNCHANGED <<template, versionCache, sdkVersion, acked>> /\ call[c].replica \in Replicas
      BY <1>6 DEF CacheHit, storeVars, cacheVars, ReplicaInv
    <2>2. CASE call[c].ask = Label
      BY <1>6, <2>1, <2>2, AnswerFields, <1>2, <1>3 DEF CacheHit
    <2>3. CASE call[c].ask # Label
      <3>1. versionCache[call[c].replica][call[c].ask] \in {NoWriter, template[call[c].ask]}
        BY <2>1, <2>3, <1>v DEF VersionsImmutable
      <3>2. QED  BY <1>6, <2>1, <2>3, <3>1, AnswerFields, <1>2, <1>3 DEF CacheHit
    <2>4. QED  BY <2>2, <2>3
  <1>7. ASSUME NEW c \in Callers, ReadStore(c) PROVE (TextInv /\ VersionsImmutable)'
    <2>1. UNCHANGED <<template, versionCache, sdkVersion, acked>>
      BY <1>7 DEF ReadStore, storeVars, cacheVars
    <2>2. /\ \A x \in Callers : x # c => call'[x] = call[x]
          /\ call'[c].ask = call[c].ask
          /\ call[c].ask # Label => call'[c].text = template[call[c].ask] /\ template[call[c].ask] # NoWriter
      BY <1>7, <1>v DEF ReadStore, TypeOK, CallRecords
    <2>3. QED  BY <2>1, <2>2, <1>2, <1>3
  <1>8. ASSUME NEW c \in Callers, FillCache(c) PROVE (TextInv /\ VersionsImmutable)'
    <2>1. UNCHANGED <<template, sdkVersion, acked>> /\ call[c].replica \in Replicas /\ call[c].pc = "fetched"
      BY <1>8 DEF FillCache, storeVars, ReplicaInv
    <2>2. CASE call[c].ask = Label
      <3>1. UNCHANGED versionCache /\ \E v, t : Answer(c, v, t)
        BY <1>8, <2>2 DEF FillCache
      <3>2. QED  BY <2>1, <2>2, <3>1, AnswerFields, <1>2, <1>3
    <2>3. CASE call[c].ask # Label
      <3>1. versionCache[call[c].replica][call[c].ask] \in {NoWriter, template[call[c].ask]}
        BY <2>1, <2>3, <1>v DEF VersionsImmutable
      <3>2. call[c].text = template[call[c].ask] /\ call[c].text # NoWriter
        BY <2>1, <2>3 DEF TextInv
      <3>3. \E t : Answer(c, call[c].ask, t) /\ t = template[call[c].ask] /\ t # NoWriter
        BY <1>8, <2>3, <3>1, <3>2 DEF FillCache
      <3>4. TextInv'
        BY <2>1, <3>3, AnswerFields, <1>2
      <3>5. \A r \in Replicas, v \in Versions : versionCache'[r][v] \in {versionCache[r][v], template[v]}
        BY <1>8, <2>3, <3>2, <1>v DEF FillCache, TypeOK
      <3>6. VersionsImmutable'
        BY <2>1, <3>5 DEF VersionsImmutable
      <3>7. QED  BY <3>4, <3>6
    <2>4. QED  BY <2>2, <2>3
  <1>9. ASSUME NEW c \in Callers, GetPromptReturns(c) PROVE (TextInv /\ VersionsImmutable)'
    <2>1. UNCHANGED <<template, versionCache, acked>> /\ call[c].pc = "reply"
      BY <1>9 DEF GetPromptReturns, storeVars
    <2>2. TextInv'
      BY <1>9, <1>2 DEF GetPromptReturns, IdleCall, TypeOK
    <2>3. \A v \in Versions : sdkVersion'[v] \in {sdkVersion[v], template[v]}
      BY <1>9, <2>1, <1>v DEF GetPromptReturns, TextInv, TypeOK
    <2>4. VersionsImmutable'
      BY <2>1, <2>3 DEF VersionsImmutable
    <2>5. QED  BY <2>2, <2>4
  <1>10. ASSUME NEW c \in Callers, GetPromptThrows(c) PROVE (TextInv /\ VersionsImmutable)'
    BY <1>10, <1>2, <1>3 DEF GetPromptThrows, IdleCall, TypeOK, cacheVars
  <1>11. ASSUME NEW w \in Writers, NEW v \in 1..(MaxVersion + 1), NEW labels \in BOOLEAN, NEW r \in Replicas,
                CreatePrompt(w, v, labels, r)
         PROVE  (TextInv /\ VersionsImmutable)'
    BY <1>11, <1>1, <1>3 DEF CreatePrompt, cacheVars
  <1>12. ASSUME NEW w \in Writers, NEW v \in Versions, NEW r \in Replicas, SetLabel(w, v, r) PROVE (TextInv /\ VersionsImmutable)'
    BY <1>12, <1>1, <1>3 DEF SetLabel, cacheVars
  <1>13. ASSUME NEW w \in Writers, CheckVersion(w) PROVE (TextInv /\ VersionsImmutable)'
    BY <1>13, <1>1, <1>3 DEF CheckVersion, cacheVars
  <1>b. ASSUME NEW w \in Writers, UNCHANGED <<versionCache, sdkVersion>>,
               acked' = [acked EXCEPT ![w] = writer[w].version], writer[w].version \in Versions,
               template'[writer[w].version] = w
        PROVE  VersionsImmutable'
    <2>1. \A x \in Writers : acked'[x] # 0 => template'[acked'[x]] = x
      <3>1. \A x \in Writers : acked[x] # 0 => acked[x] \in Versions /\ template'[acked[x]] = x
        BY <1>t, ConstantsAssumption DEF VersionsImmutable, TypeOK, Versions
      <3>2. \A x \in Writers : acked'[x] = IF x = w THEN writer[w].version ELSE acked[x]
        BY <1>b DEF TypeOK
      <3>3. QED  BY <1>b, <3>1, <3>2
    <2>2. QED  BY <1>b, <1>t, <2>1 DEF VersionsImmutable, TypeOK
  <1>14. ASSUME NEW w \in Writers, CreatePromptVersion(w) PROVE (TextInv /\ VersionsImmutable)'
    <2>1. UNCHANGED <<call, versionCache, sdkVersion>> /\ writer[w].version \in Versions
      BY <1>14 DEF CreatePromptVersion, WriterInv, cacheVars
    <2>2. CASE UNCHANGED acked
      BY <2>1, <2>2, <1>1, <1>3
    <2>3. CASE acked' = [acked EXCEPT ![w] = writer[w].version] /\ template' = [template EXCEPT ![writer[w].version] = w]
      BY <2>1, <2>3, <1>1, <1>b DEF TypeOK
    <2>4. QED  BY <1>14, <2>2, <2>3 DEF CreatePromptVersion
  <1>15. ASSUME NEW w \in Writers, SetPromptLabel(w) PROVE (TextInv /\ VersionsImmutable)'
    BY <1>15, <1>1, <1>3 DEF SetPromptLabel, cacheVars
  <1>16. ASSUME NEW w \in Writers, InvalidateLabel(w) PROVE (TextInv /\ VersionsImmutable)'
    <2>1. UNCHANGED <<call, template, versionCache, sdkVersion>> /\ writer[w].version \in Versions
      BY <1>16 DEF InvalidateLabel, WriterInv, storeVars
    <2>2. CASE ~writer[w].creates
      BY <1>16, <2>1, <2>2, <1>1, <1>3 DEF InvalidateLabel
    <2>3. CASE writer[w].creates
      BY <1>16, <2>1, <2>3, <1>1, <1>b DEF InvalidateLabel, WriterInv
    <2>4. QED  BY <2>2, <2>3
  <1>17. CASE UNCHANGED vars
    BY <1>17, <1>1, <1>3 DEF vars, cacheVars
  <1>20. QED
    BY <1>4, <1>5, <1>6, <1>7, <1>8, <1>9, <1>10, <1>11, <1>12, <1>13, <1>14, <1>15, <1>16, <1>17 DEF Next

(* Ages grow no faster than the clock: moving the label makes no version   *)
(* older, and the version it leaves starts at age zero.                    *)
LEMMA AgeStep ==
    Inv /\ [Next]_vars =>
        /\ now' \in {now, now + 1}
        /\ \A v \in Versions : lastHeld'[v] <= now' /\ Age(v)' <= Age(v) + (now' - now) /\ Age(v) \in Nat
  <1> SUFFICES ASSUME Inv, [Next]_vars
               PROVE  /\ now' \in {now, now + 1}
                      /\ \A v \in Versions : lastHeld'[v] <= now' /\ Age(v)' <= Age(v) + (now' - now) /\ Age(v) \in Nat
    OBVIOUS
  <1>1. /\ now \in Nat /\ label \in Versions
        /\ \A v \in Versions : lastHeld[v] \in Nat /\ lastHeld[v] <= now
    BY DEF Inv, TypeOK, ClockInv
  <1>2. CASE Tick
    BY <1>1, <1>2 DEF Tick, Age, storeVars
  <1>3. CASE UNCHANGED <<now, label, lastHeld>>
    BY <1>1, <1>3 DEF Age
  <1>4. ASSUME NEW w \in Writers, SetPromptLabel(w), label' = writer[w].version,
               lastHeld' = IF label' = label THEN lastHeld ELSE [lastHeld EXCEPT ![label] = now]
        PROVE  /\ now' \in {now, now + 1}
               /\ \A v \in Versions : lastHeld'[v] <= now' /\ Age(v)' <= Age(v) + (now' - now) /\ Age(v) \in Nat
    <2>1. now' = now
      BY <1>4 DEF SetPromptLabel
    <2>2. \A v \in Versions : lastHeld'[v] = IF v = label /\ label' # label THEN now ELSE lastHeld[v]
      BY <1>4 DEF Inv, TypeOK
    <2>3. QED  BY <1>1, <2>1, <2>2 DEF Age
  <1>5. QED
    BY <1>2, <1>3, <1>4 DEF Next, vars, storeVars, GetPrompt, CacheHit, ReadStore, FillCache, GetPromptReturns,
       GetPromptThrows, CreatePrompt, SetLabel, CheckVersion, CreatePromptVersion, SetPromptLabel, InvalidateLabel

(* Every step preserves the clock invariant. *)
LEMMA ClockStep == Inv /\ [Next]_vars => ClockInv'
  <1> SUFFICES ASSUME Inv, [Next]_vars PROVE ClockInv'
    OBVIOUS
  <1>1. now \in Nat /\ now' \in {now, now + 1} /\ \A v \in Versions : lastHeld'[v] <= now'
    BY AgeStep DEF Inv, TypeOK
  <1> USE DEF Inv
  <1> DEFINE Timely(k) == k.pc # "idle" => k.since <= now' /\ now' - k.since <= MaxFlight
  <1>2. \A c \in Callers : call[c] \in CallRecords
    BY DEF TypeOK
  <1>3. SUFFICES \A c \in Callers : Timely(call'[c])
    BY <1>1 DEF ClockInv
  <1>4. CASE UNCHANGED <<now, call>>
    BY <1>4 DEF ClockInv
  <1>5. ASSUME UNCHANGED now, NEW c \in Callers, \A x \in Callers : x # c => call'[x] = call[x],
               call'[c].pc = "idle" \/ call'[c].since = now
        PROVE  \A x \in Callers : Timely(call'[x])
    BY <1>1, <1>5, ConstantsAssumption DEF ClockInv
  <1>6. CASE Tick
    <2>1. \A c \in Callers : call[c].since \in Nat
      BY <1>2 DEF CallRecords
    <2>2. QED  BY <1>1, <1>6, <2>1, ConstantsAssumption DEF Tick, ClockInv
  <1>7. ASSUME NEW c \in Callers, NEW ask \in Asks, NEW r \in Replicas, GetPrompt(c, ask, r)
        PROVE  \A x \in Callers : Timely(call'[x])
    BY <1>7, <1>5 DEF GetPrompt, IdleCall, TypeOK
  <1>8. ASSUME NEW c \in Callers, CacheHit(c) \/ FillCache(c) PROVE \A x \in Callers : Timely(call'[x])
    BY <1>8, <1>5, AnswerFields DEF CacheHit, FillCache
  <1>9. ASSUME NEW c \in Callers, ReadStore(c) PROVE \A x \in Callers : Timely(call'[x])
    BY <1>9, <1>5, <1>2 DEF ReadStore, TypeOK, CallRecords
  <1>10. ASSUME NEW c \in Callers, GetPromptReturns(c) \/ GetPromptThrows(c) PROVE \A x \in Callers : Timely(call'[x])
    BY <1>10, <1>5 DEF GetPromptReturns, GetPromptThrows, IdleCall, TypeOK
  <1>11. QED
    BY <1>4, <1>6, <1>7, <1>8, <1>9, <1>10 DEF Next, vars, CreatePrompt, SetLabel, CheckVersion,
       CreatePromptVersion, SetPromptLabel, InvalidateLabel

(* Every step preserves the ages along the way of a label. *)
LEMMA AgesStep == Inv /\ [Next]_vars => AgeInv'
  <1> SUFFICES ASSUME Inv, [Next]_vars PROVE AgeInv'
    OBVIOUS
  <1>2. TypeOK'
    BY TypeStep
  <1> USE DEF Inv, AgeInv
  <1> DEFINE NewAge(v) == IF v = label' THEN 0 ELSE now' - lastHeld'[v]
  <1>1. /\ now \in Nat /\ now' \in {now, now + 1}
        /\ \A v \in Versions : NewAge(v) <= Age(v) + (now' - now) /\ Age(v) \in Nat /\ NewAge(v) \in Int
    <2>1. \A v \in Versions : Age(v)' = NewAge(v)
      BY DEF Age
    <2>2. \A v \in Versions : NewAge(v) \in Int
      BY <1>2 DEF TypeOK
    <2>3. QED  BY <2>1, <2>2, AgeStep DEF TypeOK
  <1>3. \A c \in Callers : call[c] \in CallRecords /\ call[c].since \in Nat /\ call[c].version \in 0..MaxVersion
    BY DEF TypeOK, CallRecords
  <1>4. \A c \in Callers : \/ call'[c] = call[c]
                           \/ call'[c].pc \in {"idle", "request"}
                           \/ CacheHit(c) \/ ReadStore(c) \/ FillCache(c)
    <2>1. CASE UNCHANGED call
      BY <2>1
    <2>2. ASSUME NEW c \in Callers, CacheHit(c) \/ FillCache(c) PROVE \A x \in Callers : x # c => call'[x] = call[x]
      BY <2>2, AnswerFields DEF CacheHit, FillCache
    <2>3. ASSUME NEW c \in Callers, ReadStore(c) PROVE \A x \in Callers : x # c => call'[x] = call[x]
      BY <2>3 DEF ReadStore, TypeOK
    <2>4. ASSUME NEW c \in Callers, NEW ask \in Asks, NEW r \in Replicas, GetPrompt(c, ask, r)
          PROVE  call'[c].pc \in {"idle", "request"} /\ \A x \in Callers : x # c => call'[x] = call[x]
      BY <2>4 DEF GetPrompt, IdleCall, TypeOK
    <2>5. ASSUME NEW c \in Callers, GetPromptReturns(c) \/ GetPromptThrows(c)
          PROVE  call'[c].pc \in {"idle", "request"} /\ \A x \in Callers : x # c => call'[x] = call[x]
      BY <2>5 DEF GetPromptReturns, GetPromptThrows, IdleCall, TypeOK
    <2>6. QED
      BY <2>1, <2>2, <2>3, <2>4, <2>5 DEF Next, vars, Tick, CreatePrompt, SetLabel, CheckVersion,
         CreatePromptVersion, SetPromptLabel, InvalidateLabel
  <1>5. FetchedAge'
    <2> SUFFICES ASSUME NEW c \in Callers, call'[c].ask = Label, call'[c].pc = "fetched"
                 PROVE  call'[c].version \in Versions /\ NewAge(call'[c].version) <= now' - call'[c].since
      BY DEF FetchedAge, Age
    <2>1. CASE call'[c] = call[c]
      BY <2>1, <1>1, <1>3 DEF FetchedAge
    <2>2. CASE ReadStore(c)
      <3>1. call'[c].version = label /\ call'[c].since = now /\ UNCHANGED <<now, label>>
        BY <2>2, <1>3 DEF ReadStore, TypeOK, CallRecords, storeVars
      <3>2. QED  BY <3>1, <1>1 DEF TypeOK
    <2>3. CASE CacheHit(c) \/ FillCache(c)
      BY <2>3, AnswerFields DEF CacheHit, FillCache
    <2>4. QED  BY <1>4, <2>1, <2>2, <2>3
  <1>c. ASSUME NEW c \in Callers, FillCache(c), call[c].ask = Label
        PROVE  call[c].version \in Versions /\ Age(call[c].version) <= MaxFlight
    BY <1>c, <1>1, <1>3, ConstantsAssumption DEF FillCache, FetchedAge, ClockInv
  <1>6. CachedAge'
    <2> SUFFICES ASSUME NEW r \in Replicas, labelCache'[r].version # 0
                 PROVE  /\ labelCache'[r].expires <= now' + ServerTTL
                        /\ NewAge(labelCache'[r].version) <= MaxFlight + (now' + ServerTTL - labelCache'[r].expires)
      BY DEF CachedAge, Age
    <2>1. CASE labelCache'[r] = labelCache[r]
      <3>1. labelCache[r].version \in Versions /\ labelCache[r].expires \in Nat
        BY <2>1, ConstantsAssumption DEF TypeOK, Entries, Versions
      <3>2. QED  BY <2>1, <3>1, <1>1, ConstantsAssumption DEF CachedAge
    <2>2. ASSUME NEW c \in Callers, FillCache(c), labelCache'[r] # labelCache[r]
          PROVE  /\ labelCache'[r].expires <= now' + ServerTTL
                 /\ NewAge(labelCache'[r].version) <= MaxFlight + (now' + ServerTTL - labelCache'[r].expires)
      <3>1. call[c].ask = Label /\ now' = now /\ UNCHANGED <<label, lastHeld>>
        BY <2>2 DEF FillCache, storeVars
      <3>2. labelCache'[r] = [version |-> call[c].version, expires |-> now + ServerTTL]
        BY <2>2, <3>1 DEF FillCache, TypeOK
      <3>3. labelCache'[r].version = call[c].version /\ labelCache'[r].expires = now' + ServerTTL
        BY <3>1, <3>2
      <3>4. NewAge(call[c].version) <= MaxFlight
        BY <2>2, <3>1, <1>c DEF Age
      <3>5. QED  BY <3>3, <3>4, <1>1, <2>2, <3>1, <1>c, ConstantsAssumption
    <2>3. ASSUME NEW w \in Writers, InvalidateLabel(w) PROVE labelCache'[r] = labelCache[r]
      BY <2>3 DEF InvalidateLabel, TypeOK, Absent
    <2>4. QED
      BY <2>1, <2>2, <2>3 DEF Next, vars, cacheVars, Tick, GetPrompt, CacheHit, ReadStore, GetPromptReturns,
         GetPromptThrows, CreatePrompt, SetLabel, CheckVersion, CreatePromptVersion, SetPromptLabel
  <1>7. ReplyAge'
    <2> SUFFICES ASSUME NEW c \in Callers, call'[c].ask = Label, call'[c].pc = "reply"
                 PROVE  /\ call'[c].version \in Versions
                        /\ NewAge(call'[c].version) <= MaxFlight + (ServerTTL - 1) + (now' - call'[c].since)
      BY DEF ReplyAge, Age
    <2>1. CASE call'[c] = call[c]
      BY <2>1, <1>1, <1>3, ConstantsAssumption DEF ReplyAge
    <2>2. CASE ReadStore(c)
      BY <2>2, <1>3 DEF ReadStore, TypeOK, CallRecords
    <2>3. CASE CacheHit(c) \/ FillCache(c)
      <3>1. /\ call'[c].ask = call[c].ask /\ call'[c].since = now /\ call[c].pc # "idle"
            /\ UNCHANGED <<now, label, lastHeld>>
        BY <2>3, AnswerFields DEF CacheHit, FillCache, storeVars
      <3>2. call[c].replica \in Replicas
        BY <3>1 DEF ReplicaInv
      <3>3. CASE call'[c].version = labelCache[call[c].replica].version /\ ServerFresh(labelCache[call[c].replica])
        <4> DEFINE e == labelCache[call[c].replica]
        <4>1. e.version \in Versions /\ e.expires \in Nat /\ now < e.expires
          BY <3>2, <3>3, ConstantsAssumption DEF TypeOK, Entries, Versions, ServerFresh
        <4>2. Age(e.version) <= MaxFlight + (now + ServerTTL - e.expires)
          BY <3>2, <3>3 DEF CachedAge, ServerFresh
        <4>3. NewAge(e.version) = Age(e.version)
          BY <3>1 DEF Age
        <4>4. NewAge(e.version) <= MaxFlight + (ServerTTL - 1)
          BY <4>1, <4>2, <4>3, <1>1, ConstantsAssumption
        <4>5. QED  BY <3>1, <3>3, <4>1, <4>4, <1>1, ConstantsAssumption
      <3>4. CASE FillCache(c) /\ call'[c].version = call[c].version
        <4>1. call[c].version \in Versions /\ Age(call[c].version) <= MaxFlight
          BY <3>1, <3>4, <1>c
        <4>2. NewAge(call[c].version) = Age(call[c].version)
          BY <3>1 DEF Age
        <4>3. QED  BY <3>1, <3>4, <4>1, <4>2, <1>1, ConstantsAssumption
      <3>5. QED  BY <2>3, <3>1, <3>3, <3>4, AnswerFields DEF CacheHit, FillCache
    <2>4. QED  BY <1>4, <2>1, <2>2, <2>3
  <1>8. SdkAge'
    <2> SUFFICES ASSUME sdkLabel'.version # 0
                 PROVE  NewAge(sdkLabel'.version) <= 2 * MaxFlight + (ServerTTL - 1) + (now' + SdkTTL - sdkLabel'.expires)
      BY DEF SdkAge, Age
    <2>1. CASE UNCHANGED sdkLabel
      <3>1. sdkLabel.version \in Versions /\ sdkLabel.expires \in Nat
        BY <2>1, ConstantsAssumption DEF TypeOK, Entries, Versions
      <3>2. Age(sdkLabel.version) <= 2 * MaxFlight + (ServerTTL - 1) + (now + SdkTTL - sdkLabel.expires)
        BY <2>1 DEF SdkAge
      <3>3. QED  BY <2>1, <3>1, <3>2, <1>1, ConstantsAssumption
    <2>2. ASSUME NEW c \in Callers, GetPromptReturns(c), call[c].ask = Label
          PROVE  NewAge(sdkLabel'.version) <= 2 * MaxFlight + (ServerTTL - 1) + (now' + SdkTTL - sdkLabel'.expires)
      <3>1. /\ sdkLabel'.version = call[c].version /\ sdkLabel'.expires = now + SdkTTL
            /\ call[c].pc = "reply" /\ UNCHANGED <<now, label, lastHeld>>
        BY <2>2 DEF GetPromptReturns, storeVars
      <3>2. /\ call[c].version \in Versions
            /\ Age(call[c].version) <= MaxFlight + (ServerTTL - 1) + (now - call[c].since)
            /\ now - call[c].since <= MaxFlight
        BY <2>2, <3>1 DEF ReplyAge, ClockInv
      <3>3. NewAge(call[c].version) = Age(call[c].version)
        BY <3>1 DEF Age
      <3>4. QED  BY <3>1, <3>2, <3>3, <1>1, <1>3, ConstantsAssumption
    <2>3. QED
      BY <2>1, <2>2 DEF Next, vars, cacheVars, Tick, GetPrompt, CacheHit, ReadStore, FillCache, GetPromptReturns,
         GetPromptThrows, CreatePrompt, SetLabel, CheckVersion, CreatePromptVersion, SetPromptLabel, InvalidateLabel
  <1>20. QED  BY <1>5, <1>6, <1>7, <1>8 DEF AgeInv

(* The invariant holds in every behaviour of the registry. *)
LEMMA SpecInv == Spec => []Inv
  <1>1. Inv /\ [Next]_vars => Inv'
    BY TypeStep, WriterStep, VersionStep, ClockStep, AgesStep DEF Inv
  <1>2. QED  BY InitInv, <1>1, PTL DEF Spec

(* However many replicas there are, a reassignment reaches every agent     *)
(* within the two times to live and two hops.                              *)
THEOREM ReassignmentTheorem == Spec => []ReassignmentReachesAgents
  <1>1. Inv => ReassignmentReachesAgents
    <2> SUFFICES ASSUME Inv, SdkFresh(sdkLabel)
                 PROVE  Age(sdkLabel.version) <= (ServerTTL - 1) + (SdkTTL - 1) + 2 * MaxFlight
      BY DEF ReassignmentReachesAgents
    <2>1. now \in Nat /\ sdkLabel.version \in Versions /\ sdkLabel.expires \in Nat /\ now < sdkLabel.expires
      BY ConstantsAssumption DEF Inv, TypeOK, Entries, Versions, SdkFresh
    <2>2. Age(sdkLabel.version) <= 2 * MaxFlight + (ServerTTL - 1) + (now + SdkTTL - sdkLabel.expires)
      BY <2>1 DEF Inv, AgeInv, SdkAge, SdkFresh
    <2>3. Age(sdkLabel.version) \in Int
      BY <2>1 DEF Age, Inv, TypeOK
    <2>4. QED  BY <2>1, <2>2, <2>3, ConstantsAssumption
  <1>2. QED  BY SpecInv, <1>1, PTL

(* A version that was acknowledged or handed out never changes. *)
THEOREM VersionsImmutableTheorem == Spec => []VersionsImmutable
  <1>1. Inv => VersionsImmutable
    BY DEF Inv
  <1>2. QED  BY SpecInv, <1>1, PTL

-----------------------------------------------------------------------------
(* The tracer.                                                             *)

(* Once the Ingest API has a batch, every span of it has been received. *)
StoredReceived ==
    \A f \in Flushes : flight[f].status = "stored" => flight[f].spans \subseteq received

(* The inductive invariant: an ended span may leave the memory only with   *)
(* an export in state "stored", so what such an export holds must be known *)
(* to have arrived.                                                        *)
TracerInv == TracerTypeOK /\ EndedNeverLost /\ OpenNeverExported /\ StoredReceived

(* The initial state of the tracer: nothing started, nothing sent. *)
LEMMA InitTracerInv == TracerInit => TracerInv
  <1> SUFFICES ASSUME TracerInit PROVE TracerInv
    OBVIOUS
  <1>1. TracerTypeOK
    BY DEF TracerInit, TracerTypeOK, Free, Statuses
  <1>2. \A f \in Flushes : flight[f] = Free
    BY DEF TracerInit
  <1>3. EndedNeverLost /\ OpenNeverExported /\ StoredReceived
    BY <1>2 DEF TracerInit, EndedNeverLost, OpenNeverExported, StoredReceived, Free
  <1>4. QED  BY <1>1, <1>3 DEF TracerInv

(* Starting an export keeps the flights well formed and sends only spans   *)
(* of e.                                                                   *)
LEMMA ExportSends ==
    ASSUME TracerTypeOK, NEW f \in Flushes, NEW e \in SUBSET Spans, Export(f, e)
    PROVE  /\ flight' \in [Flushes -> [status : Statuses, spans : SUBSET Spans]]
           /\ \A g \in Flushes : \/ flight'[g] = flight[g]
                                 \/ flight'[g].status = "sent" /\ flight'[g].spans \subseteq e
  <1>1. [status |-> "sent", spans |-> ToExport(e)] \in [status : Statuses, spans : SUBSET Spans]
    BY DEF TracerTypeOK, ToExport, Statuses
  <1>2. QED  BY <1>1 DEF TracerTypeOK, Export, ToExport

(* The invariant is inductive. *)
LEMMA NextTracerInv == TracerInv /\ [TracerNext]_tracerVars => TracerInv'
  <1> SUFFICES ASSUME TracerInv, [TracerNext]_tracerVars PROVE TracerInv'
    OBVIOUS
  <1> USE DEF TracerInv
  <1>1. CASE InitSDK
    BY <1>1 DEF InitSDK, TracerTypeOK, EndedNeverLost, OpenNeverExported, StoredReceived
  <1>2. ASSUME NEW s \in Spans, NEW p \in Spans \cup {NoSpan}, StartSpan(s, p) PROVE TracerInv'
    <2>1. FindTraceId(p, s) \in Spans \cup {NoSpan}
      BY DEF FindTraceId, TracerTypeOK
    <2>2. TracerTypeOK'
      BY <1>2, <2>1 DEF StartSpan, TracerTypeOK
    <2>3. (EndedNeverLost /\ OpenNeverExported /\ StoredReceived)'
      BY <1>2 DEF StartSpan, EndedNeverLost, OpenNeverExported, StoredReceived
    <2>4. QED  BY <2>2, <2>3
  <1>3. ASSUME NEW s \in Spans, NEW f \in Flushes, EndSpan(s, f) PROVE TracerInv'
    <2>1. ended' \in SUBSET Spans /\ ended \subseteq ended' /\ ended' = ended \cup {s} /\ Export(f, ended')
      BY <1>3 DEF EndSpan, TracerTypeOK
    <2>2. /\ flight' \in [Flushes -> [status : Statuses, spans : SUBSET Spans]]
          /\ \A g \in Flushes : \/ flight'[g] = flight[g]
                                \/ flight'[g].status = "sent" /\ flight'[g].spans \subseteq ended'
      BY <2>1, ExportSends
    <2>3. TracerTypeOK'
      BY <1>3, <2>1, <2>2 DEF EndSpan, TracerTypeOK
    <2>4. (EndedNeverLost /\ OpenNeverExported /\ StoredReceived)'
      BY <1>3, <2>1, <2>2 DEF EndSpan, EndedNeverLost, OpenNeverExported, StoredReceived
    <2>5. QED  BY <2>3, <2>4
  <1>4. ASSUME NEW f \in Flushes, Flush(f) PROVE TracerInv'
    <2>1. /\ flight' \in [Flushes -> [status : Statuses, spans : SUBSET Spans]]
          /\ \A g \in Flushes : \/ flight'[g] = flight[g]
                                \/ flight'[g].status = "sent" /\ flight'[g].spans \subseteq ended
      BY <1>4, ExportSends DEF Flush, TracerTypeOK
    <2>2. QED
      BY <1>4, <2>1 DEF Flush, TracerTypeOK, EndedNeverLost, OpenNeverExported, StoredReceived
  <1>5. ASSUME NEW f \in Flushes, Receive(f) PROVE TracerInv'
    <2>1. TracerTypeOK'
      BY <1>5 DEF Receive, TracerTypeOK, Free, Statuses
    <2>2. EndedNeverLost'
      BY <1>5 DEF Receive, EndedNeverLost
    <2>3. (OpenNeverExported /\ StoredReceived)'
      BY <1>5 DEF Receive, TracerTypeOK, OpenNeverExported, StoredReceived, Free
    <2>4. QED  BY <2>1, <2>2, <2>3
  <1>6. ASSUME NEW f \in Flushes, ExportSucceeds(f) PROVE TracerInv'
    <2>1. TracerTypeOK'
      BY <1>6 DEF ExportSucceeds, AfterExport, TracerTypeOK, Free, Statuses
    <2>2. EndedNeverLost'
      BY <1>6 DEF ExportSucceeds, AfterExport, EndedNeverLost, StoredReceived
    <2>3. (OpenNeverExported /\ StoredReceived)'
      BY <1>6 DEF ExportSucceeds, TracerTypeOK, OpenNeverExported, StoredReceived, Free
    <2>4. QED  BY <2>1, <2>2, <2>3
  <1>7. ASSUME NEW f \in Flushes, ExportFails(f) PROVE TracerInv'
    <2>1. \A g \in Flushes : \/ flight'[g] = flight[g]
                             \/ flight'[g] = Free
                             \/ flight'[g] = [flight[g] EXCEPT !.status = "abandoned"]
      BY <1>7 DEF ExportFails, TracerTypeOK
    <2>2. TracerTypeOK'
      BY <1>7 DEF ExportFails, TracerTypeOK, Free, Statuses
    <2>3. EndedNeverLost'
      BY <1>7 DEF ExportFails, EndedNeverLost
    <2>4. (OpenNeverExported /\ StoredReceived)'
      BY <1>7, <2>1 DEF ExportFails, TracerTypeOK, OpenNeverExported, StoredReceived, Free
    <2>5. QED  BY <2>2, <2>3, <2>4
  <1>8. CASE UNCHANGED tracerVars
    BY <1>8 DEF tracerVars, TracerTypeOK, EndedNeverLost, OpenNeverExported, StoredReceived
  <1>9. QED
    BY <1>1, <1>2, <1>3, <1>4, <1>5, <1>6, <1>7, <1>8 DEF TracerNext

(* The invariant holds in every behaviour of the tracer. *)
LEMMA TracerInvariance == TracerSpec => []TracerInv
  BY InitTracerInv, NextTracerInv, PTL DEF TracerSpec

(* flush() never drops an ended span the Ingest API has not received,      *)
(* however many exports overlap, fail, or arrive after their timeout.      *)
THEOREM EndedNeverLostTheorem == TracerSpec => []EndedNeverLost
  <1>1. TracerInv => EndedNeverLost
    BY DEF TracerInv
  <1>2. QED  BY TracerInvariance, <1>1, PTL

(* No flush exports a span that is still open. *)
THEOREM OpenNeverExportedTheorem == TracerSpec => []OpenNeverExported
  <1>1. TracerInv => OpenNeverExported
    BY DEF TracerInv
  <1>2. QED  BY TracerInvariance, <1>1, PTL

-----------------------------------------------------------------------------
(* The walk of findTraceId.  Induction is by the least counterexample.     *)

LEMMA NatMinimum ==
    ASSUME NEW T \in SUBSET Nat, T # {}
    PROVE  \E m \in T : \A n \in T : m <= n
  <1> DEFINE R == OpToRel(<, Nat)
  <1>1. IsWellFoundedOn(R, Nat)
    BY NatLessThanWellFounded
  <1>2. \A n, m \in Nat : n < m => <<n, m>> \in R
    BY DEF OpToRel
  <1> HIDE DEF R
  <1>3. PICK m \in T : \A n \in T : ~(<<n, m>> \in R)
    BY <1>1, WFMin
  <1>4. \A n \in T : n \in Nat /\ m \in Nat /\ ~(n < m)
    BY <1>2, <1>3
  <1>5. \A n \in T : m <= n
    BY <1>4
  <1>6. QED  BY <1>5

(* A function on a set can be iterated. *)
LEMMA Iteration ==
    ASSUME NEW D, NEW x \in D, NEW F \in [D -> D]
    PROVE  \E w \in [Nat -> D] : w[0] = x /\ \A n \in Nat \ {0} : w[n] = F[w[n - 1]]
  <1> DEFINE Approx(k) == {g \in [0..k -> D] : g[0] = x /\ \A i \in 1..k : g[i] = F[g[i - 1]]}
  <1>1. ASSUME NEW k \in Nat PROVE Approx(k) # {}
    <2> SUFFICES ASSUME {n \in Nat : Approx(n) = {}} # {} PROVE FALSE
      OBVIOUS
    <2>1. PICK m \in Nat : Approx(m) = {} /\ \A n \in Nat : Approx(n) = {} => m <= n
      <3> DEFINE T == {n \in Nat : Approx(n) = {}}
      <3>1. T \in SUBSET Nat /\ T # {}
        OBVIOUS
      <3>2. \E m \in T : \A n \in T : m <= n
        <4> HIDE DEF T
        <4>1. QED  BY <3>1, NatMinimum
      <3>3. \A n \in Nat : n \in T <=> Approx(n) = {}
        <4> HIDE DEF Approx
        <4>1. QED  OBVIOUS
      <3> HIDE DEF T, Approx
      <3>4. QED  BY <3>1, <3>2, <3>3
    <2>2. CASE m = 0
      <3>1. [i \in 0..m |-> x] \in Approx(m)
        BY <2>2
      <3>2. QED  BY <2>1, <3>1
    <2>3. CASE m # 0
      <3>1. m - 1 \in Nat /\ ~(m <= m - 1)
        BY <2>3
      <3>2. PICK g \in Approx(m - 1) : TRUE
        BY <2>1, <3>1
      <3>3. /\ g \in [0..(m - 1) -> D] /\ g[0] = x
            /\ \A i \in 1..(m - 1) : g[i] = F[g[i - 1]]
        BY <3>2
      <3> DEFINE h == [i \in 0..m |-> IF i = m THEN F[g[m - 1]] ELSE g[i]]
      <3>4. m - 1 \in 0..(m - 1) /\ \A i \in 0..m : i # m => i \in 0..(m - 1)
        BY <2>3
      <3>5. h \in [0..m -> D]
        BY <3>3, <3>4
      <3>6. h[0] = x /\ h[m] = F[g[m - 1]] /\ \A i \in 0..(m - 1) : h[i] = g[i]
        BY <2>3, <3>3, <3>4
      <3> HIDE DEF h
      <3>7. ASSUME NEW i \in 1..m PROVE h[i] = F[h[i - 1]]
        <4>1. i - 1 \in 0..(m - 1) /\ (i = m \/ i \in 1..(m - 1))
          BY <2>3
        <4>2. CASE i = m
          BY <3>6, <4>1, <4>2
        <4>3. CASE i \in 1..(m - 1)
          <5>1. i \in 0..(m - 1)
            BY <4>3
          <5>2. QED  BY <3>3, <3>6, <4>1, <4>3, <5>1
        <4>4. QED  BY <4>1, <4>2, <4>3
      <3>8. h \in Approx(m)
        BY <3>5, <3>6, <3>7
      <3>9. QED  BY <2>1, <3>8
    <2>4. QED  BY <2>2, <2>3
  <1>2. ASSUME NEW k \in Nat, NEW l \in Nat, NEW g \in Approx(k), NEW h \in Approx(l), NEW n \in Nat,
               n <= k, n <= l
        PROVE  g[n] = h[n]
    <2> SUFFICES ASSUME g[n] # h[n] PROVE FALSE
      OBVIOUS
    <2>1. PICK m \in Nat : /\ m <= k /\ m <= l /\ g[m] # h[m]
                           /\ \A j \in Nat : j <= k /\ j <= l /\ g[j] # h[j] => m <= j
      <3> DEFINE T == {j \in Nat : j <= k /\ j <= l /\ g[j] # h[j]}
      <3>1. T \in SUBSET Nat /\ T # {}
        BY <1>2
      <3>2. \E m \in T : \A j \in T : m <= j
        <4> HIDE DEF T
        <4>1. QED  BY <3>1, NatMinimum
      <3>3. QED  BY <3>2
    <2>2. g[0] = x /\ h[0] = x
      OBVIOUS
    <2>3. m \in 1..k /\ m \in 1..l /\ m - 1 \in Nat /\ m - 1 <= k /\ m - 1 <= l /\ ~(m <= m - 1)
      BY <2>1, <2>2
    <2>4. g[m] = F[g[m - 1]] /\ h[m] = F[h[m - 1]]
      BY <2>3
    <2>5. g[m - 1] = h[m - 1]
      BY <2>1, <2>3
    <2>6. QED  BY <2>1, <2>4, <2>5
  <1> DEFINE G(k) == CHOOSE g \in Approx(k) : TRUE
             w == [n \in Nat |-> G(n)[n]]
  <1>3. \A k \in Nat : G(k) \in Approx(k)
    <2> HIDE DEF Approx
    <2>1. QED  BY <1>1
  <1>4. \A k \in Nat : /\ G(k) \in [0..k -> D] /\ G(k)[0] = x
                       /\ \A i \in 1..k : G(k)[i] = F[G(k)[i - 1]]
    BY <1>3
  <1>5. \A k, l \in Nat : k <= l => G(k)[k] = G(l)[k]
    <2> HIDE DEF Approx, G
    <2>1. QED  BY <1>2, <1>3
  <1> HIDE DEF G
  <1>6. w \in [Nat -> D] /\ w[0] = x
    BY <1>4
  <1>7. ASSUME NEW n \in Nat \ {0} PROVE w[n] = F[w[n - 1]]
    <2>1. n - 1 \in Nat /\ n \in 1..n /\ n - 1 <= n
      OBVIOUS
    <2>2. G(n)[n] = F[G(n)[n - 1]] /\ G(n - 1)[n - 1] = G(n)[n - 1]
      BY <1>4, <1>5, <2>1
    <2>3. QED  BY <2>1, <2>2
  <1> HIDE DEF w
  <1>8. QED  BY <1>6, <1>7

(* One step of the walk towards the root. *)
Towards(x) == IF x \in pending /\ parent[x] # NoSpan THEN parent[x] ELSE x

(* The walk from p stays in every set A of spans that holds p and the      *)
(* parents of its members, and does not change the trace if no step of it  *)
(* does.                                                                   *)
LEMMA WalkStays ==
    ASSUME TracerTypeOK, NEW A \in SUBSET Spans, NEW p \in A,
           \A a \in A : parent[a] \in A \cup {NoSpan},
           \A a \in A : parent[a] \in A => trace[a] = trace[parent[a]]
    PROVE  Ancestor(p) \in A /\ trace[Ancestor(p)] = trace[p]
  <1> DEFINE F == [a \in A |-> Towards(a)]
             IsWalk(w) == w = [n \in Nat |-> IF n = 0 THEN p ELSE
                                 IF w[n - 1] \in pending /\ parent[w[n - 1]] # NoSpan
                                 THEN parent[w[n - 1]] ELSE w[n - 1]]
             walk == CHOOSE w : IsWalk(w)
             N == Cardinality(pending)
  <1>1. F \in [A -> A] /\ \A a \in A : trace[F[a]] = trace[a]
    BY DEF Towards
  <1>2. \E w : IsWalk(w)
    <2>1. PICK w \in [Nat -> A] : w[0] = p /\ \A n \in Nat \ {0} : w[n] = F[w[n - 1]]
      <3>1. PICK f \in [A -> A] : f = F
        BY <1>1
      <3>2. \E w \in [Nat -> A] : w[0] = p /\ \A n \in Nat \ {0} : w[n] = f[w[n - 1]]
        <4> HIDE DEF F
        <4>1. QED  BY Iteration
      <3>3. QED  BY <3>1, <3>2
    <2>2. \A n \in Nat \ {0} : n - 1 \in Nat /\ w[n] = Towards(w[n - 1])
      <3>1. \A n \in Nat \ {0} : n - 1 \in Nat
        OBVIOUS
      <3>2. \A a \in A : F[a] = Towards(a)
        OBVIOUS
      <3> HIDE DEF F
      <3>3. QED  BY <2>1, <3>1, <3>2
    <2>3. w = [n \in Nat |-> IF n = 0 THEN p ELSE Towards(w[n - 1])]
      BY <2>1, <2>2
    <2>4. IsWalk(w)
      BY <2>3 DEF Towards
    <2> HIDE DEF IsWalk
    <2>5. QED  BY <2>4
  <1>3. IsWalk(walk)
    <2> HIDE DEF IsWalk
    <2>1. QED  BY <1>2
  <1>4. Ancestor(p) = walk[N]
    BY DEF Ancestor
  <1>5. N \in Nat
    BY SpansAssumption, FS_Subset, FS_CardinalityType DEF TracerTypeOK
  <1>6. walk[0] = p /\ \A n \in Nat \ {0} : walk[n] = Towards(walk[n - 1])
    <2> HIDE DEF walk
    <2>1. QED  BY <1>3 DEF Towards
  <1> HIDE DEF walk, IsWalk, N
  <1>7. walk[N] \in A /\ trace[walk[N]] = trace[p]
    <2> DEFINE Good(n) == walk[n] \in A /\ trace[walk[n]] = trace[p]
    <2> SUFFICES ASSUME ~Good(N) PROVE FALSE
      OBVIOUS
    <2>1. PICK m \in Nat : ~Good(m) /\ \A n \in Nat : ~Good(n) => m <= n
      <3> DEFINE T == {n \in Nat : ~Good(n)}
      <3>1. T \in SUBSET Nat /\ T # {}
        BY <1>5
      <3>2. \E m \in T : \A n \in T : m <= n
        <4> HIDE DEF T
        <4>1. QED  BY <3>1, NatMinimum
      <3>3. QED  BY <3>2
    <2>2. m # 0
      BY <1>6, <2>1
    <2>3. m - 1 \in Nat /\ m \in Nat \ {0} /\ ~(m <= m - 1)
      BY <2>2
    <2>4. Good(m - 1)
      BY <2>1, <2>3
    <2>5. walk[m] = F[walk[m - 1]]
      BY <1>6, <2>3, <2>4
    <2>6. QED  BY <1>1, <2>1, <2>4, <2>5
  <1>8. QED  BY <1>4, <1>7

(* The spans that are open are in memory, and a parent has been started.   *)
FamilyInv ==
    /\ \A s \in Started : s \in ended \/ s \in pending
    /\ \A s \in Spans : parent[s] \in Started \cup {NoSpan}
    /\ OpenFamilySharesTrace

LEMMA StartKeepsFamily ==
    ASSUME TracerInv, FamilyInv, NEW s \in Spans, NEW p \in Spans \cup {NoSpan}, StartSpan(s, p)
    PROVE  FamilyInv'
  <1> USE DEF TracerInv
  <1>1. /\ s \notin Started /\ p \in Started \cup {NoSpan} /\ p # s
        /\ pending' = pending \cup {s} /\ ended' = ended
        /\ parent' = [parent EXCEPT ![s] = p]
        /\ trace' = [trace EXCEPT ![s] = IF p = NoSpan THEN s ELSE FindTraceId(p, s)]
    BY SpansAssumption DEF StartSpan
  <1>2. /\ parent'[s] = p /\ \A x \in Spans : x # s => parent'[x] = parent[x]
        /\ \A x \in Spans : x # s => trace'[x] = trace[x]
    BY <1>1 DEF TracerTypeOK
  <1>3. /\ \A x \in Started : x \in Started' /\ x \in Spans /\ x # s
        /\ \A x \in Started' : x \in Spans /\ (x \in Started \/ x = s)
    BY <1>1, <1>2 DEF Started
  <1>4. \A x \in Started' : x \in ended' \/ x \in pending'
    BY <1>1, <1>3 DEF FamilyInv
  <1>5. ASSUME NEW x \in Spans PROVE parent'[x] \in Started' \cup {NoSpan}
    BY <1>1, <1>2, <1>3 DEF FamilyInv
  <1>6. ASSUME NEW x \in Started', NEW B \in SUBSET (Started' \ ended'),
               parent'[x] \in B, \A b \in B : parent'[b] \in B \cup {NoSpan}
        PROVE  trace'[x] = trace'[parent'[x]]
    <2> DEFINE A == B \ {s}
    <2>1. A \in SUBSET (Started \ ended) /\ A \in SUBSET Spans
      BY <1>1, <1>3
    <2>2. \A a \in A : parent[a] \in A \cup {NoSpan}
      <3> SUFFICES ASSUME NEW a \in A PROVE parent[a] \in A \cup {NoSpan}
        OBVIOUS
      <3>1. a \in Spans /\ a # s /\ parent[a] \in B \cup {NoSpan}
        BY <1>2, <1>6, <2>1
      <3>2. parent[a] # s
        BY <1>1, <3>1, SpansAssumption DEF FamilyInv
      <3>3. QED  BY <3>1, <3>2
    <2>3. \A a \in A : parent[a] \in A => trace[a] = trace[parent[a]]
      <3>1. A \in SUBSET (Started \ ended) /\ \A a \in A : a \in Started
        BY <2>1
      <3> HIDE DEF A
      <3>2. QED  BY <2>2, <3>1 DEF FamilyInv, OpenFamilySharesTrace
    <2>4. CASE x = s
      <3>1. p \in A /\ p # NoSpan
        <4>1. p \in B /\ p # s
          BY <1>1, <1>2, <1>6, <2>4
        <4>2. p \in Spans
          BY <1>3, <1>6, <4>1
        <4>3. QED  BY <4>1, <4>2, SpansAssumption
      <3>2. Ancestor(p) \in A /\ trace[Ancestor(p)] = trace[p]
        <4> HIDE DEF A
        <4>1. QED  BY <2>1, <2>2, <2>3, <3>1, WalkStays
      <3>3. Ancestor(p) \in pending
        BY <2>1, <3>2 DEF FamilyInv
      <3>4. trace'[s] = trace[p]
        BY <1>1, <3>1, <3>2, <3>3 DEF FindTraceId, TracerTypeOK
      <3>5. QED  BY <1>2, <2>1, <2>4, <3>1, <3>4
    <2>5. CASE x # s
      <3>1. x \in Started /\ x \in Spans /\ parent'[x] = parent[x] /\ parent[x] \in B
        BY <1>2, <1>3, <1>6, <2>5
      <3>2. parent[x] # s
        BY <1>1, <3>1, SpansAssumption DEF FamilyInv
      <3>3. parent[x] \in A /\ parent[x] \in Spans
        BY <2>1, <3>1, <3>2
      <3>4. trace[x] = trace[parent[x]]
        <4> HIDE DEF A
        <4>1. QED  BY <2>1, <2>2, <3>1, <3>3 DEF FamilyInv, OpenFamilySharesTrace
      <3>5. QED  BY <1>2, <2>5, <3>1, <3>2, <3>3, <3>4
    <2>6. QED  BY <2>4, <2>5
  <1>7. OpenFamilySharesTrace'
    BY <1>6 DEF OpenFamilySharesTrace
  <1>8. QED  BY <1>4, <1>5, <1>7 DEF FamilyInv

LEMMA NextFamily == TracerInv /\ FamilyInv /\ [TracerNext]_tracerVars => FamilyInv'
  <1> SUFFICES ASSUME TracerInv, FamilyInv, [TracerNext]_tracerVars PROVE FamilyInv'
    OBVIOUS
  <1>1. ASSUME UNCHANGED <<parent, trace>>, ended \subseteq ended', pending \subseteq pending' \cup ended'
        PROVE  FamilyInv'
    <2>1. Started' = Started
      BY <1>1 DEF Started
    <2>2. OpenFamilySharesTrace'
      <3>1. \A A : A \in SUBSET (Started' \ ended') => A \in SUBSET (Started \ ended)
        BY <1>1, <2>1
      <3>2. QED  BY <1>1, <2>1, <3>1 DEF FamilyInv, OpenFamilySharesTrace
    <2>3. QED  BY <1>1, <2>1, <2>2 DEF FamilyInv
  <1>2. ASSUME NEW s \in Spans, NEW p \in Spans \cup {NoSpan}, StartSpan(s, p) PROVE FamilyInv'
    BY <1>2, StartKeepsFamily
  <1>3. ASSUME NEW f \in Flushes, ExportSucceeds(f) PROVE FamilyInv'
    <2>1. flight[f].spans \subseteq ended /\ ended' = ended /\ pending' = pending \ flight[f].spans
      BY <1>3 DEF ExportSucceeds, AfterExport, TracerInv, OpenNeverExported
    <2>2. pending \subseteq pending' \cup ended' /\ UNCHANGED <<parent, trace>>
      BY <1>3, <2>1 DEF ExportSucceeds
    <2>3. QED  BY <1>1, <2>1, <2>2
  <1>4. CASE InitSDK
    BY <1>1, <1>4 DEF InitSDK
  <1>5. ASSUME NEW s \in Spans, NEW f \in Flushes, EndSpan(s, f) PROVE FamilyInv'
    BY <1>1, <1>5 DEF EndSpan
  <1>6. ASSUME NEW f \in Flushes, Flush(f) \/ Receive(f) \/ ExportFails(f) PROVE FamilyInv'
    BY <1>1, <1>6 DEF Flush, Receive, ExportFails
  <1>7. CASE UNCHANGED tracerVars
    BY <1>1, <1>7 DEF tracerVars
  <1>8. QED
    BY <1>2, <1>3, <1>4, <1>5, <1>6, <1>7 DEF TracerNext

(* The walk of findTraceId reaches the trace of the root from any depth,   *)
(* for any number of spans: while its ancestors are open, a span is in     *)
(* their trace.                                                            *)
THEOREM OpenFamilySharesTraceTheorem == TracerSpec => []OpenFamilySharesTrace
  <1>1. TracerInit => FamilyInv
    BY DEF TracerInit, FamilyInv, Started, OpenFamilySharesTrace
  <1>2. FamilyInv => OpenFamilySharesTrace
    BY DEF FamilyInv
  <1>3. QED  BY <1>1, <1>2, NextFamily, TracerInvariance, PTL DEF TracerSpec

=============================================================================
