--------------------------- MODULE ExplorerProofs ---------------------------
(***************************************************************************)
(* Proofs about the Dashboard and the trace panel for every set of traces, *)
(* projects and time ranges, any number of widgets, workers and refreshes  *)
(* and of polls that overlap.                                              *)
(***************************************************************************)
EXTENDS Explorer, TLAPS

-----------------------------------------------------------------------------
(* The trace panel.                                                        *)

(* A request of the panel that is under way, and what answers it. *)
Asked == [status : {"sent"}, trace : Traces, project : Projects]
Answered == [status : {"ok"}, trace : Traces, project : Projects, complete : BOOLEAN]
Failed == [status |-> "failed"]
PanelRequest == {Panel!Nothing, Failed} \cup Asked \cup Answered

(* A request that has not failed asks for what the panel is open for. *)
UpToDate(r) == r.status \in {"sent", "ok"} => r.trace = overlay /\ r.project = project

PanelInv ==
    /\ project \in Projects
    /\ overlay \in Traces \cup {NoTrace}
    /\ load \in PanelRequest
    /\ polls \in [Polls -> PanelRequest]
    /\ UpToDate(load)
    /\ \A i \in Polls : UpToDate(polls[i])
    /\ overlay = NoTrace => ~polling
    /\ PanelShowsItsTrace

-----------------------------------------------------------------------------
(* The Dashboard.                                                          *)

Batch == [state : {"running", "rejected"}, project : Projects, range : Ranges, next : Nat \ {0},
          awaits : [Dash!Workers -> Nat], responses : [Dash!Requests -> Nat]]

(* Every request of a running refresh has been answered in its own slot,   *)
(* is awaited by a worker, or is still to be taken; a worker rests only    *)
(* when none is left.                                                      *)
Covered(b) ==
    /\ \A i \in Dash!Requests :
        b.responses[i] = i \/ i >= b.next \/ \E w \in Dash!Workers : b.awaits[w] = i
    /\ \A w \in Dash!Workers : b.awaits[w] \in Dash!Requests \/ (b.awaits[w] = 0 /\ b.next > Widgets)

DashInv ==
    /\ project \in Projects
    /\ range \in Ranges
    /\ seq \in 0..MaxRefresh
    /\ busy \in BOOLEAN
    /\ failed \in BOOLEAN
    /\ batches \in [1..MaxRefresh -> {Dash!NoBatch} \cup Batch]
    /\ \A n \in 1..MaxRefresh : batches[n].state = "running" => Covered(batches[n])
    /\ page # "dashboard" => seq = 0
    /\ seq # 0 /\ batches[seq].state # "none"
        => batches[seq].project = project /\ batches[seq].range = range
    /\ DashboardShowsSelection

IInv == PanelInv /\ DashInv

-----------------------------------------------------------------------------
(* The steps of the panel.                                                 *)

LEMMA InitIInv == Init => IInv
  <1> SUFFICES ASSUME Init PROVE IInv
    OBVIOUS
  <1>1. PanelInv
    BY DEF Init, Panel!Init, PanelInv, Projects, PanelRequest, UpToDate, Panel!Nothing,
           PanelShowsItsTrace, Panel!PanelShowsItsTrace, Panel!Displayed
  <1>2. page = "traces"
    BY DEF Init
  <1>3. DashInv
    <2>1. \A n \in 1..MaxRefresh : batches[n] = Dash!NoBatch /\ batches[n].state = "none"
      BY DEF Init, Dash!Init, Dash!NoBatch
    <2>2. 0 \in 0..MaxRefresh /\ seq = 0
      BY RefreshAssumption DEF Init, Dash!Init
    <2>3. DashboardShowsSelection
      BY <1>2 DEF DashboardShowsSelection, Dash!DashboardShowsSelection, Dash!Displayed
    <2>4. batches \in [1..MaxRefresh -> {Dash!NoBatch} \cup Batch]
      BY DEF Init, Dash!Init
    <2>5. QED  BY <2>1, <2>2, <2>3, <2>4 DEF Init, Dash!Init, DashInv
  <1>4. QED  BY <1>1, <1>3 DEF IInv

(* The effect for a new trace or project leaves nothing of its             *)
(* predecessor, and the spinner hides what is shown.                       *)
LEMMA EffectKeepsPanel ==
    ASSUME PanelInv, NEW t \in Traces, NEW p \in Projects, Panel!Effect(t, p), overlay' = t, project' = p
    PROVE  PanelInv'
  <1>1. /\ panelLoading' = TRUE /\ load' = Panel!Sent(t, p)
        /\ polls' = [i \in Polls |-> Panel!Nothing]
    BY DEF Panel!Effect
  <1>2. load' \in PanelRequest /\ polls' \in [Polls -> PanelRequest]
    BY <1>1 DEF PanelRequest, Asked, Panel!Sent
  <1>3. UpToDate(load)'
    BY <1>1 DEF UpToDate, Panel!Sent
  <1>4. \A i \in Polls : UpToDate(polls[i])'
    BY <1>1 DEF UpToDate, Panel!Nothing
  <1>5. PanelShowsItsTrace'
    BY <1>1 DEF PanelShowsItsTrace, Panel!PanelShowsItsTrace, Panel!Displayed
  <1>6. QED  BY <1>2, <1>3, <1>4, <1>5, NoTraceAssumption DEF PanelInv

(* An answer is one to the request it answers. *)
LEMMA ResponseKind ==
    ASSUME NEW r \in PanelRequest, r.status = "sent"
    PROVE  /\ Panel!Response(r) \in PanelRequest
           /\ UpToDate(r) => UpToDate(Panel!Response(r))
  <1>1. r \in Asked
    BY DEF PanelRequest, Panel!Nothing, Failed, Answered, Asked
  <1>2. CASE Owner[r.trace] = r.project
    <2>1. Panel!Response(r) = [status |-> "ok", trace |-> r.trace, project |-> r.project,
                               complete |-> r.trace \in complete]
      BY <1>2 DEF Panel!Response
    <2>2. QED  BY <1>1, <2>1 DEF PanelRequest, Asked, Answered, UpToDate
  <1>3. CASE Owner[r.trace] # r.project
    <2>1. Panel!Response(r) = Failed
      BY <1>3 DEF Panel!Response, Failed
    <2>2. QED  BY <2>1 DEF PanelRequest, Failed, UpToDate
  <1>4. QED  BY <1>2, <1>3

(* The requests, the interval and the answers of the panel. *)
LEMMA AsyncKeepsPanel ==
    ASSUME PanelInv, Panel!Async
    PROVE  PanelInv'
  <1> USE DEF PanelInv
  <1>1. ASSUME NEW t \in Traces, Panel!RootArrives(t) PROVE PanelInv'
    BY <1>1 DEF Panel!RootArrives, Panel!panelVars, UpToDate,
                PanelShowsItsTrace, Panel!PanelShowsItsTrace, Panel!Displayed
  <1>2. CASE Panel!AnswerLoad
    <2>1. load' = Panel!Response(load) /\ load.status = "sent"
          /\ UNCHANGED <<overlay, shown, panelLoading, panelError, polling, polls, project>>
      BY <1>2 DEF Panel!AnswerLoad
    <2>2. PICK r : r = load'
      OBVIOUS
    <2>3. r \in PanelRequest /\ UpToDate(r)
      BY <2>1, <2>2, ResponseKind
    <2>4. QED  BY <2>1, <2>2, <2>3 DEF UpToDate, PanelShowsItsTrace, Panel!PanelShowsItsTrace, Panel!Displayed
  <1>3. CASE Panel!LoadSucceeds
    <2>1. /\ load.status = "ok" /\ shown' = load /\ load' = Panel!Nothing
          /\ UNCHANGED <<overlay, polls, project>>
      BY <1>3 DEF Panel!LoadSucceeds
    <2>2. load.trace = overlay /\ load.project = project /\ load \in Answered
      BY <2>1 DEF UpToDate, PanelRequest, Panel!Nothing, Failed, Asked, Answered
    <2>3. overlay # NoTrace
      BY <2>2, NoTraceAssumption DEF Answered
    <2>4. load' \in PanelRequest /\ UpToDate(load)'
      BY <2>1 DEF PanelRequest, UpToDate, Panel!Nothing
    <2>5. \A i \in Polls : UpToDate(polls[i])'
      BY <2>1 DEF UpToDate
    <2>6. PanelShowsItsTrace'
      BY <2>1, <2>2 DEF PanelShowsItsTrace, Panel!PanelShowsItsTrace, Panel!Displayed
    <2>7. QED  BY <2>1, <2>3, <2>4, <2>5, <2>6
  <1>4. CASE Panel!LoadFails
    <2>1. /\ panelError' = TRUE /\ load' = Panel!Nothing
          /\ UNCHANGED <<overlay, polls, project, polling>>
      BY <1>4 DEF Panel!LoadFails
    <2>2. QED  BY <2>1 DEF PanelRequest, UpToDate, Panel!Nothing,
                           PanelShowsItsTrace, Panel!PanelShowsItsTrace, Panel!Displayed
  <1>5. CASE Panel!Expire
    BY <1>5 DEF Panel!Expire, UpToDate, PanelShowsItsTrace, Panel!PanelShowsItsTrace, Panel!Displayed
  <1>6. CASE Panel!PollTick
    <2>1. polling /\ UNCHANGED <<overlay, shown, panelLoading, panelError, load, project>>
      BY <1>6 DEF Panel!PollTick
    <2>2. overlay \in Traces /\ Panel!Sent(overlay, project) \in Asked /\ UpToDate(Panel!Sent(overlay, project))
      BY <2>1 DEF Panel!Sent, Asked, UpToDate
    <2>3. polls' \in [Polls -> PanelRequest] /\ \A i \in Polls : polls'[i] \in {polls[i], Panel!Sent(overlay, project)}
      BY <1>6, <2>2 DEF Panel!PollTick, PanelRequest
    <2>4. \A i \in Polls : UpToDate(polls[i])'
      BY <2>1, <2>2, <2>3 DEF UpToDate
    <2>5. UpToDate(load)' /\ PanelShowsItsTrace'
      BY <2>1 DEF UpToDate, PanelShowsItsTrace, Panel!PanelShowsItsTrace, Panel!Displayed
    <2>6. overlay' = NoTrace => ~polling'
      BY <2>1, <2>2, NoTraceAssumption
    <2>7. QED  BY <2>1, <2>3, <2>4, <2>5, <2>6
  <1>7. ASSUME NEW i \in Polls, Panel!AnswerPoll(i) PROVE PanelInv'
    <2>1. /\ polls' = [polls EXCEPT ![i] = Panel!Response(polls[i])] /\ polls[i].status = "sent"
          /\ UNCHANGED <<overlay, shown, panelLoading, panelError, polling, load, project>>
      BY <1>7 DEF Panel!AnswerPoll
    <2>2. Panel!Response(polls[i]) \in PanelRequest /\ UpToDate(Panel!Response(polls[i]))
      BY <2>1, ResponseKind
    <2>3. polls' \in [Polls -> PanelRequest] /\ \A j \in Polls : polls'[j] \in {polls[j], Panel!Response(polls[i])}
      BY <2>1, <2>2
    <2>4. \A j \in Polls : UpToDate(polls[j])'
      BY <2>1, <2>2, <2>3 DEF UpToDate
    <2>5. UpToDate(load)' /\ PanelShowsItsTrace'
      BY <2>1 DEF UpToDate, PanelShowsItsTrace, Panel!PanelShowsItsTrace, Panel!Displayed
    <2>6. QED  BY <2>1, <2>3, <2>4, <2>5
  <1>8. ASSUME NEW i \in Polls, Panel!PollSucceeds(i) \/ Panel!PollFails(i) PROVE PanelInv'
    <2>1. /\ polls' = [polls EXCEPT ![i] = Panel!Nothing]
          /\ UNCHANGED <<overlay, panelLoading, panelError, load, project>>
      BY <1>8 DEF Panel!PollSucceeds, Panel!PollFails
    <2>2. shown' = shown \/ (shown' = polls[i] /\ polls[i].status = "ok")
      BY <1>8 DEF Panel!PollSucceeds, Panel!PollFails
    <2>3. polls' \in [Polls -> PanelRequest] /\ \A j \in Polls : polls'[j] \in {polls[j], Panel!Nothing}
      BY <2>1 DEF PanelRequest
    <2>4. \A j \in Polls : UpToDate(polls[j])'
      BY <2>1, <2>3 DEF UpToDate, Panel!Nothing
    <2>5. UpToDate(load)'
      BY <2>1 DEF UpToDate
    <2>6. PanelShowsItsTrace'
      BY <2>1, <2>2 DEF UpToDate, PanelShowsItsTrace, Panel!PanelShowsItsTrace, Panel!Displayed
    <2>7. ~polling => ~polling'
      <3>1. polling' = polling \/ polling' = (polling /\ ~polls[i].complete)
        BY <1>8 DEF Panel!PollSucceeds, Panel!PollFails
      <3>2. QED  BY <3>1
    <2>8. QED  BY <2>1, <2>3, <2>4, <2>5, <2>6, <2>7
  <1>9. QED  BY <1>1, <1>2, <1>3, <1>4, <1>5, <1>6, <1>7, <1>8 DEF Panel!Async

(* What the user does to the panel. *)
LEMMA UserKeepsPanel ==
    ASSUME PanelInv,
           \/ \E t \in Traces : Panel!Open(t)
           \/ Panel!Close
           \/ \E p \in Projects : Panel!SwitchProject(p)
           \/ UNCHANGED <<project, panelState>>
    PROVE  PanelInv'
  <1>1. ASSUME NEW t \in Traces, Panel!Open(t) PROVE PanelInv'
    <2>1. overlay' = t /\ Panel!Effect(t, project) /\ project' = project /\ project \in Projects
      BY <1>1 DEF Panel!Open, PanelInv
    <2>2. QED  BY <2>1, EffectKeepsPanel
  <1>2. CASE Panel!Close
    BY <1>2 DEF Panel!Close, PanelInv, PanelRequest, UpToDate, Panel!Nothing,
                PanelShowsItsTrace, Panel!PanelShowsItsTrace, Panel!Displayed
  <1>3. ASSUME NEW p \in Projects, Panel!SwitchProject(p) PROVE PanelInv'
    <2>1. project' = p /\ overlay' = overlay
      BY <1>3 DEF Panel!SwitchProject
    <2>2. CASE overlay = NoTrace
      <3>1. UNCHANGED <<load, polls, polling>>
        BY <1>3, <2>2 DEF Panel!SwitchProject
      <3>2. ASSUME NEW r \in PanelRequest, UpToDate(r) PROVE r.status \notin {"sent", "ok"}
        BY <2>2, <3>2, NoTraceAssumption DEF UpToDate, PanelRequest, Panel!Nothing, Failed, Asked, Answered
      <3>3. UpToDate(load)' /\ \A i \in Polls : UpToDate(polls[i])'
        BY <3>1, <3>2 DEF PanelInv, UpToDate
      <3>4. QED  BY <2>1, <2>2, <3>1, <3>3 DEF PanelInv, PanelShowsItsTrace, Panel!PanelShowsItsTrace, Panel!Displayed
    <2>3. CASE overlay # NoTrace
      <3>1. overlay \in Traces /\ Panel!Effect(overlay, p)
        BY <1>3, <2>3 DEF PanelInv, Panel!SwitchProject
      <3>2. QED  BY <2>1, <3>1, EffectKeepsPanel
    <2>4. QED  BY <2>2, <2>3
  <1>4. CASE UNCHANGED <<project, panelState>>
    BY <1>4 DEF panelState, PanelInv, UpToDate, PanelShowsItsTrace, Panel!PanelShowsItsTrace, Panel!Displayed
  <1>5. QED  BY <1>1, <1>2, <1>3, <1>4

-----------------------------------------------------------------------------
(* The steps of the Dashboard.                                             *)

(* A new refresh has the first requests with its workers. *)
LEMMA NewBatchCovered ==
    ASSUME NEW p \in Projects, NEW r \in Ranges
    PROVE  Dash!NewBatch(p, r) \in Batch /\ Covered(Dash!NewBatch(p, r))
  <1> USE RefreshAssumption
  <1> DEFINE b == Dash!NewBatch(p, r)
             m == Dash!workerCount
  <1>1. m \in Nat
    BY DEF Dash!workerCount
  <1> HIDE DEF m
  <1>2. b = [state |-> "running", project |-> p, range |-> r, next |-> 1 + m,
             awaits |-> [w \in Dash!Workers |-> IF w \in Dash!Requests THEN w ELSE 0],
             responses |-> [i \in Dash!Requests |-> 0]]
    BY DEF Dash!NewBatch, m
  <1> HIDE DEF b
  <1>3. /\ b.state = "running" /\ b.project = p /\ b.range = r /\ b.next = 1 + m
        /\ b.awaits = [w \in Dash!Workers |-> IF w \in Dash!Requests THEN w ELSE 0]
        /\ b.responses = [i \in Dash!Requests |-> 0]
    BY <1>2
  <1>4. b \in Batch
    <2>1. 1 + m \in Nat \ {0}
      BY <1>1
    <2>2. [w \in Dash!Workers |-> IF w \in Dash!Requests THEN w ELSE 0] \in [Dash!Workers -> Nat]
      BY DEF Dash!Workers
    <2>3. [i \in Dash!Requests |-> 0] \in [Dash!Requests -> Nat]
      OBVIOUS
    <2>4. QED  BY <1>2, <2>1, <2>2, <2>3 DEF Batch
  <1>5. ASSUME NEW i \in Dash!Requests PROVE i >= b.next \/ \E w \in Dash!Workers : b.awaits[w] = i
    <2>1. CASE i \in Dash!Workers
      BY <1>3, <2>1
    <2>2. CASE i \notin Dash!Workers
      <3>1. i >= 1 + m
        BY <2>2 DEF Dash!Workers, Dash!Requests, Dash!workerCount, m
      <3>2. QED  BY <1>3, <3>1
    <2>3. QED  BY <2>1, <2>2
  <1>6. ASSUME NEW w \in Dash!Workers PROVE b.awaits[w] \in Dash!Requests \/ (b.awaits[w] = 0 /\ b.next > Widgets)
    <2>1. CASE w \in Dash!Requests
      BY <1>3, <2>1
    <2>2. CASE w \notin Dash!Requests
      <3>1. 1 + m > Widgets
        BY <2>2 DEF Dash!Workers, Dash!Requests, Dash!workerCount, m
      <3>2. QED  BY <1>3, <2>2, <3>1
    <2>3. QED  BY <2>1, <2>2
  <1>7. Covered(b)
    BY <1>5, <1>6 DEF Covered
  <1>8. QED  BY <1>4, <1>7 DEF b

(* A refresh that starts is the latest, for what is selected now. *)
LEMMA FetchKeepsDash ==
    ASSUME DashInv, project' \in Projects, range' \in Ranges,
           Dash!FetchData(project', range'), page' = "dashboard"
    PROVE  DashInv'
  <1> USE RefreshAssumption
  <1> DEFINE new == Dash!NewBatch(project', range')
             n == seq + 1
  <1>1. new \in Batch /\ Covered(new)
    BY NewBatchCovered
  <1>2. new.state = "running" /\ new.project = project' /\ new.range = range'
    BY DEF Dash!NewBatch
  <1>3. /\ seq' = n /\ n \in 1..MaxRefresh /\ n \in 0..MaxRefresh /\ n # 0
        /\ busy' = TRUE /\ failed' = FALSE
        /\ batches' = [batches EXCEPT ![n] = new]
    BY DEF Dash!FetchData, DashInv
  <1> HIDE DEF new, n
  <1>4. batches' \in [1..MaxRefresh -> {Dash!NoBatch} \cup Batch]
    BY <1>1, <1>3 DEF DashInv
  <1>5. batches'[n] = new /\ \A k \in 1..MaxRefresh : k # n => batches'[k] = batches[k]
    BY <1>3 DEF DashInv
  <1>6. ASSUME NEW k \in 1..MaxRefresh, batches'[k].state = "running" PROVE Covered(batches'[k])
    BY <1>1, <1>5, <1>6 DEF DashInv
  <1>7. DashboardShowsSelection'
    BY <1>3 DEF DashboardShowsSelection, Dash!DashboardShowsSelection, Dash!Displayed
  <1>8. \A k \in 1..MaxRefresh : batches'[k].state = "running" => Covered(batches[k])'
    BY <1>6 DEF Covered
  <1>9. batches'[seq'].project = project' /\ batches'[seq'].range = range'
    BY <1>2, <1>3, <1>5
  <1>10. QED  BY <1>3, <1>4, <1>7, <1>8, <1>9 DEF DashInv

(* Leaving the page ends everything. *)
LEMMA UnmountKeepsDash ==
    ASSUME DashInv, Dash!Unmount, page' # "dashboard"
    PROVE  DashInv'
  <1>1. /\ seq' = 0 /\ batches' = [n \in 1..MaxRefresh |-> Dash!NoBatch] /\ busy' = FALSE /\ failed' = FALSE
        /\ UNCHANGED <<project, range>>
    BY DEF Dash!Unmount
  <1>2. batches' \in [1..MaxRefresh -> {Dash!NoBatch} \cup Batch] /\ 0 \in 0..MaxRefresh
    BY <1>1, RefreshAssumption
  <1>3. \A n \in 1..MaxRefresh : batches'[n].state # "running"
    BY <1>1 DEF Dash!NoBatch
  <1>4. DashboardShowsSelection'
    BY DEF DashboardShowsSelection, Dash!DashboardShowsSelection, Dash!Displayed
  <1>5. QED  BY <1>1, <1>2, <1>3, <1>4 DEF DashInv

(* What is not on screen may see the project change. *)
LEMMA IdleKeepsDash ==
    ASSUME DashInv, UNCHANGED dashState, project' \in Projects,
           page' = page \/ (page # "dashboard" /\ page' # "dashboard"),
           page = "dashboard" => project' = project
    PROVE  DashInv'
  <1>1. UNCHANGED <<range, seq, batches, widgets, busy, failed>>
    BY DEF dashState
  <1>2. \A n \in 1..MaxRefresh : batches'[n].state = "running" => Covered(batches[n])'
    BY <1>1 DEF DashInv, Covered
  <1>3. DashboardShowsSelection'
    BY <1>1 DEF DashInv, DashboardShowsSelection, Dash!DashboardShowsSelection, Dash!Displayed
  <1>4. page' # "dashboard" => seq' = 0
    BY <1>1 DEF DashInv
  <1>5. seq' # 0 /\ batches'[seq'].state # "none"
            => batches'[seq'].project = project' /\ batches'[seq'].range = range'
    BY <1>1 DEF DashInv
  <1>6. QED  BY <1>1, <1>2, <1>3, <1>4, <1>5 DEF DashInv

(* A worker that has its answer takes the next request, and none is lost. *)
LEMMA RespondCovers ==
    ASSUME NEW b \in Batch, NEW c \in Batch, NEW w \in Dash!Workers, Covered(b), b.awaits[w] # 0,
           c.next = IF b.next <= Widgets THEN b.next + 1 ELSE b.next,
           c.awaits = [b.awaits EXCEPT ![w] = IF b.next <= Widgets THEN b.next ELSE 0],
           c.responses = [b.responses EXCEPT ![b.awaits[w]] = b.awaits[w]]
    PROVE  Covered(c)
  <1> USE RefreshAssumption
  <1>1. /\ b.next \in Nat \ {0} /\ b.awaits \in [Dash!Workers -> Nat] /\ b.responses \in [Dash!Requests -> Nat]
        /\ \A i \in Dash!Requests : i \in Nat
    BY DEF Batch, Dash!Requests
  <1>2. b.awaits[w] \in Dash!Requests
    BY DEF Covered
  <1>3. c.responses[b.awaits[w]] = b.awaits[w] /\ \A i \in Dash!Requests : b.responses[i] = i => c.responses[i] = i
    BY <1>1, <1>2
  <1>4. /\ c.awaits[w] = IF b.next <= Widgets THEN b.next ELSE 0
        /\ \A v \in Dash!Workers : v # w => c.awaits[v] = b.awaits[v]
    BY <1>1
  <1>5. ASSUME NEW i \in Dash!Requests
        PROVE  c.responses[i] = i \/ i >= c.next \/ \E v \in Dash!Workers : c.awaits[v] = i
    <2>1. CASE b.responses[i] = i
      BY <1>3, <2>1
    <2>2. CASE i >= b.next
      <3>1. b.next <= Widgets
        BY <1>1, <2>2 DEF Dash!Requests
      <3>2. i = b.next \/ i >= b.next + 1
        BY <1>1, <2>2
      <3>3. c.next = b.next + 1 /\ c.awaits[w] = b.next
        BY <1>4, <3>1
      <3>4. QED  BY <3>2, <3>3
    <2>3. ASSUME NEW v \in Dash!Workers, b.awaits[v] = i
          PROVE  c.responses[i] = i \/ \E u \in Dash!Workers : c.awaits[u] = i
      BY <1>3, <1>4, <2>3
    <2>4. QED  BY <2>1, <2>2, <2>3 DEF Covered
  <1>6. ASSUME NEW v \in Dash!Workers PROVE c.awaits[v] \in Dash!Requests \/ (c.awaits[v] = 0 /\ c.next > Widgets)
    <2>1. c.next >= b.next /\ c.next \in Nat
      BY <1>1
    <2>2. CASE v # w
      <3>1. b.awaits[v] \in Dash!Requests \/ (b.awaits[v] = 0 /\ b.next > Widgets)
        BY DEF Covered
      <3>2. b.next > Widgets => c.next > Widgets
        BY <1>1, <2>1
      <3>3. QED  BY <1>4, <2>2, <3>1, <3>2
    <2>3. CASE v = w /\ b.next <= Widgets
      BY <1>1, <1>4, <2>3 DEF Dash!Requests
    <2>4. CASE v = w /\ ~(b.next <= Widgets)
      BY <1>1, <1>4, <2>4
    <2>5. QED  BY <2>2, <2>3, <2>4
  <1>7. QED  BY <1>5, <1>6 DEF Covered

(* What a step of refresh n may do: replace its batch by c. *)
LEMMA BatchStep ==
    ASSUME DashInv, NEW n \in 1..MaxRefresh, NEW c \in {Dash!NoBatch} \cup Batch,
           c.state = "running" => Covered(c),
           c.state # "none" => batches[n].state # "none" /\ c.project = batches[n].project /\ c.range = batches[n].range,
           batches' = [batches EXCEPT ![n] = c],
           UNCHANGED <<page, project, range, seq>>,
           busy' \in BOOLEAN, failed' \in BOOLEAN, DashboardShowsSelection'
    PROVE  DashInv'
  <1>1. batches'[n] = c /\ \A k \in 1..MaxRefresh : k # n => batches'[k] = batches[k]
    BY DEF DashInv
  <1>2. batches' \in [1..MaxRefresh -> {Dash!NoBatch} \cup Batch]
    BY DEF DashInv
  <1>3. \A k \in 1..MaxRefresh : batches'[k].state = "running" => Covered(batches'[k])
    BY <1>1 DEF DashInv
  <1>4. \A k \in 1..MaxRefresh : batches'[k].state = "running" => Covered(batches[k])'
    BY <1>3 DEF Covered
  <1>5. seq' # 0 /\ batches'[seq'].state # "none"
            => batches'[seq'].project = project' /\ batches'[seq'].range = range'
    <2>1. CASE seq = n
      BY <1>1, <2>1 DEF DashInv
    <2>2. CASE seq # n
      <3>1. seq # 0 => batches'[seq] = batches[seq]
        BY <1>1, <2>2, RefreshAssumption DEF DashInv
      <3>2. QED  BY <3>1 DEF DashInv
    <2>3. QED  BY <2>1, <2>2
  <1>6. QED  BY <1>2, <1>4, <1>5 DEF DashInv

LEMMA AsyncKeepsDash ==
    ASSUME DashInv, Dash!Async, UNCHANGED page
    PROVE  DashInv'
  <1> USE RefreshAssumption
  <1>1. ASSUME NEW n \in 1..MaxRefresh, batches[n].state # "none" PROVE batches[n] \in Batch
    BY <1>1 DEF DashInv, Dash!NoBatch
  <1>2. Dash!NoBatch.state = "none"
    BY DEF Dash!NoBatch
  <1>3. ASSUME NEW n \in 1..MaxRefresh, NEW w \in Dash!Workers, Dash!Respond(n, w) PROVE DashInv'
    <2> DEFINE b == batches[n]
    <2>1. b.state # "none" /\ b.awaits[w] # 0 /\ b \in Batch /\ UNCHANGED <<project, range, seq, widgets, busy, failed>>
      BY <1>1, <1>3 DEF Dash!Respond
    <2>2. PICK c : c = [b EXCEPT !.responses[Dash!Place(b, b.awaits[w])] = b.awaits[w],
                                 !.awaits[w] = IF b.next <= Widgets THEN b.next ELSE 0,
                                 !.next = IF b.next <= Widgets THEN b.next + 1 ELSE b.next]
      OBVIOUS
    <2>3. batches' = [batches EXCEPT ![n] = c]
      BY <1>3, <2>2 DEF Dash!Respond
    <2>4. /\ c = [b EXCEPT !.responses = [b.responses EXCEPT ![b.awaits[w]] = b.awaits[w]],
                           !.awaits = [b.awaits EXCEPT ![w] = IF b.next <= Widgets THEN b.next ELSE 0],
                           !.next = IF b.next <= Widgets THEN b.next + 1 ELSE b.next]
      BY <2>1, <2>2 DEF Dash!Place, Batch
    <2>5. /\ c.state = b.state /\ c.project = b.project /\ c.range = b.range
          /\ c.next = IF b.next <= Widgets THEN b.next + 1 ELSE b.next
          /\ c.awaits = [b.awaits EXCEPT ![w] = IF b.next <= Widgets THEN b.next ELSE 0]
          /\ c.responses = [b.responses EXCEPT ![b.awaits[w]] = b.awaits[w]]
      BY <2>1, <2>4 DEF Batch
    <2>6. c \in Batch
      <3>1. b.next \in Nat \ {0} /\ b.awaits \in [Dash!Workers -> Nat] /\ b.responses \in [Dash!Requests -> Nat]
        BY <2>1 DEF Batch
      <3>2. b.awaits[w] \in Nat
        BY <3>1
      <3>3. c.responses \in [Dash!Requests -> Nat]
        BY <2>5, <3>1, <3>2
      <3>4. c.awaits \in [Dash!Workers -> Nat]
        BY <2>5, <3>1
      <3>5. c.next \in Nat \ {0}
        BY <2>5, <3>1
      <3>6. b.state \in {"running", "rejected"} /\ b.project \in Projects /\ b.range \in Ranges
        BY <2>1 DEF Batch
      <3>7. c = [state |-> c.state, project |-> c.project, range |-> c.range, next |-> c.next,
                 awaits |-> c.awaits, responses |-> c.responses]
        BY <2>1, <2>4 DEF Batch
      <3>8. QED  BY <2>5, <3>3, <3>4, <3>5, <3>6, <3>7 DEF Batch
    <2>7. c.state = "running" => Covered(c)
      <3>1. b.state = "running" => Covered(b)
        BY DEF DashInv
      <3> HIDE DEF b
      <3>2. QED  BY <2>1, <2>5, <2>6, <3>1, RespondCovers
    <2>8. DashboardShowsSelection' /\ busy' \in BOOLEAN /\ failed' \in BOOLEAN
      BY <2>1 DEF DashInv, DashboardShowsSelection, Dash!DashboardShowsSelection, Dash!Displayed
    <2>9. QED  BY <2>1, <2>3, <2>5, <2>6, <2>7, <2>8, BatchStep
  <1>4. ASSUME NEW n \in 1..MaxRefresh, Dash!Reject(n) PROVE DashboardShowsSelection' /\ busy' \in BOOLEAN /\ failed' \in BOOLEAN
    <2>1. /\ failed' = (failed \/ n = seq) /\ busy' = IF n = seq THEN FALSE ELSE busy
          /\ UNCHANGED <<project, range, seq, widgets>>
      BY <1>4 DEF Dash!Reject, Dash!Current
    <2>2. busy' \in BOOLEAN /\ failed' \in BOOLEAN
      BY <2>1 DEF DashInv
    <2>3. CASE n = seq
      <3>1. failed'
        BY <2>1, <2>3
      <3>2. QED  BY <2>2, <3>1 DEF DashboardShowsSelection, Dash!DashboardShowsSelection, Dash!Displayed
    <2>4. CASE n # seq
      <3>1. failed' = failed /\ busy' = busy
        BY <2>1, <2>4 DEF DashInv
      <3>2. DashboardShowsSelection
        BY DEF DashInv
      <3>3. project' = project /\ range' = range /\ widgets' = widgets /\ page' = page
        BY <2>1
      <3>4. Dash!Displayed' = Dash!Displayed
        BY <3>1, <3>3, Zenon DEF Dash!Displayed
      <3>5. DashboardShowsSelection'
        BY <3>2, <3>3, <3>4, Zenon DEF DashboardShowsSelection, Dash!DashboardShowsSelection
      <3>6. QED  BY <2>2, <3>5
    <2>5. QED  BY <2>3, <2>4
  <1>5. ASSUME NEW n \in 1..MaxRefresh, NEW w \in Dash!Workers, Dash!RequestFails(n, w) PROVE DashInv'
    <2> DEFINE b == batches[n]
    <2>1. b.state # "none" /\ b \in Batch /\ batches' = [batches EXCEPT ![n].state = "rejected", ![n].awaits[w] = 0]
      BY <1>1, <1>5 DEF Dash!RequestFails
    <2>2. UNCHANGED <<project, range, seq>>
      BY <1>5 DEF Dash!RequestFails, Dash!Reject
    <2>3. DashboardShowsSelection' /\ busy' \in BOOLEAN /\ failed' \in BOOLEAN
      <3>1. CASE b.state = "running"
        BY <1>4, <1>5, <3>1 DEF Dash!RequestFails
      <3>2. CASE b.state # "running"
        <4>1. UNCHANGED <<project, range, seq, widgets, busy, failed>>
          BY <1>5, <3>2 DEF Dash!RequestFails
        <4>2. QED  BY <4>1 DEF DashInv, DashboardShowsSelection, Dash!DashboardShowsSelection, Dash!Displayed
      <3>3. QED  BY <3>1, <3>2
    <2>4. PICK c : c = [b EXCEPT !.state = "rejected", !.awaits = [b.awaits EXCEPT ![w] = 0]]
      OBVIOUS
    <2>5. c \in Batch /\ c.state = "rejected" /\ c.project = b.project /\ c.range = b.range
      BY <2>1, <2>4 DEF Batch
    <2>6. batches' = [batches EXCEPT ![n] = c]
      BY <2>1, <2>4 DEF Batch, DashInv
    <2>7. QED  BY <2>1, <2>2, <2>3, <2>5, <2>6, BatchStep
  <1>6. ASSUME NEW n \in 1..MaxRefresh, Dash!FetchDataThrows(n) PROVE DashInv'
    <2>1. batches' = [batches EXCEPT ![n] = Dash!NoBatch] /\ UNCHANGED <<project, range, seq>>
      BY <1>6 DEF Dash!FetchDataThrows, Dash!Settled, Dash!Reject
    <2>2. DashboardShowsSelection' /\ busy' \in BOOLEAN /\ failed' \in BOOLEAN
      BY <1>4, <1>6 DEF Dash!FetchDataThrows
    <2>3. QED  BY <1>2, <2>1, <2>2, BatchStep
  <1>7. ASSUME NEW n \in 1..MaxRefresh, Dash!FetchDataReturns(n) PROVE DashInv'
    <2> DEFINE b == batches[n]
    <2>1. /\ b.state = "running" /\ \A w \in Dash!Workers : b.awaits[w] = 0
          /\ batches' = [batches EXCEPT ![n] = Dash!NoBatch] /\ UNCHANGED <<project, range, seq, failed>>
      BY <1>7 DEF Dash!FetchDataReturns, Dash!Settled
    <2>2. b \in Batch /\ Covered(b)
      BY <1>1, <2>1 DEF DashInv
    <2>3. ASSUME NEW i \in Dash!Requests PROVE b.responses[i] = i
      <3>1. i \in Nat /\ i # 0 /\ i <= Widgets
        BY DEF Dash!Requests
      <3>2. 1 \in Dash!Workers
        BY DEF Dash!Workers
      <3>3. b.awaits[1] = 0 /\ 0 \notin Dash!Requests
        BY <2>1, <3>2 DEF Dash!Requests
      <3>4. b.next > Widgets /\ b.next \in Nat
        BY <2>2, <3>2, <3>3 DEF Covered, Batch
      <3>5. ~(i >= b.next)
        BY <3>1, <3>4
      <3>6. QED  BY <2>1, <2>2, <3>1, <3>5 DEF Covered
    <2>4. DashboardShowsSelection' /\ busy' \in BOOLEAN
      <3>1. CASE n = seq
        <4>1. /\ widgets' = [i \in Dash!Requests |-> [project |-> b.project, range |-> b.range, request |-> b.responses[i]]]
              /\ busy' = FALSE
          BY <1>7, <3>1 DEF Dash!FetchDataReturns, Dash!Current
        <4>2. b.project = project /\ b.range = range
          BY <2>1, <3>1 DEF DashInv
        <4>3. \A i \in Dash!Requests : widgets'[i] = [project |-> project', range |-> range', request |-> i]
          BY <2>1, <2>3, <4>1, <4>2
        <4>4. QED  BY <4>1, <4>3 DEF DashboardShowsSelection, Dash!DashboardShowsSelection
      <3>2. CASE n # seq
        <4>1. UNCHANGED <<widgets, busy>>
          BY <1>7, <3>2 DEF Dash!FetchDataReturns, Dash!Current
        <4>2. QED  BY <2>1, <4>1 DEF DashInv, DashboardShowsSelection, Dash!DashboardShowsSelection, Dash!Displayed
      <3>3. QED  BY <3>1, <3>2
    <2>5. failed' \in BOOLEAN
      BY <2>1 DEF DashInv
    <2>6. QED  BY <1>2, <2>1, <2>4, <2>5, BatchStep
  <1>8. QED  BY <1>3, <1>5, <1>6, <1>7 DEF Dash!Async

-----------------------------------------------------------------------------
(* The page and the overlay together.                                      *)

(* A page takes the place of another. *)
LEMMA ShowPageKeepsDash ==
    ASSUME DashInv, NEW q \in Pages, ShowPage(q)
    PROVE  DashInv' /\ project' = project
  <1>1. page' = q /\ project \in Projects
    BY DEF ShowPage, DashInv
  <1>2. CASE page = "dashboard" /\ q # page /\ Dash!Unmount
    BY <1>1, <1>2, UnmountKeepsDash DEF Dash!Unmount
  <1>3. CASE q = "dashboard" /\ q # page /\ Dash!Mount
    <2>1. range' \in Ranges /\ Dash!FetchData(project, range') /\ project' = project
      BY <1>3 DEF Dash!Mount
    <2>2. QED  BY <1>1, <1>3, <2>1, FetchKeepsDash
  <1>4. CASE (page = "dashboard" <=> q = "dashboard") /\ UNCHANGED <<project, dashState>>
    BY <1>1, <1>4, IdleKeepsDash
  <1>5. QED  BY <1>2, <1>3, <1>4 DEF ShowPage

LEMMA NextIInv ==
    ASSUME IInv, [Next]_vars
    PROVE  IInv'
  <1> USE DEF IInv
  <1>1. project \in Projects
    BY DEF DashInv
  <1>2. ASSUME NEW q \in Pages, Navigate(q) PROVE IInv'
    <2>1. ShowPage(q) /\ UNCHANGED panelState
      BY <1>2 DEF Navigate
    <2>2. QED  BY <2>1, ShowPageKeepsDash, UserKeepsPanel
  <1>3. ASSUME NEW t \in Traces, OpenTrace(t) PROVE IInv'
    <2>1. ShowPage("traces") /\ Panel!Open(t) /\ "traces" \in Pages
      BY <1>3 DEF OpenTrace, Pages
    <2>2. QED  BY <2>1, ShowPageKeepsDash, UserKeepsPanel
  <1>4. CASE CloseOverlay
    <2>1. Panel!Close /\ UNCHANGED <<page, dashState>> /\ project' = project
      BY <1>4 DEF CloseOverlay, Panel!Close
    <2>2. QED  BY <1>1, <2>1, IdleKeepsDash, UserKeepsPanel
  <1>5. ASSUME NEW p \in Projects, SwitchProject(p) PROVE IInv'
    <2>1. Panel!SwitchProject(p) /\ UNCHANGED page /\ project' = p
      BY <1>5 DEF SwitchProject, Panel!SwitchProject
    <2>2. CASE page = "dashboard"
      <3>1. Dash!FetchData(p, range) /\ range' = range
        BY <1>5, <2>2 DEF SwitchProject, Dash!SwitchProject
      <3>2. range' \in Ranges /\ Dash!FetchData(project', range')
        BY <2>1, <3>1 DEF DashInv
      <3>3. QED  BY <2>1, <2>2, <3>2, FetchKeepsDash, UserKeepsPanel
    <2>3. CASE page # "dashboard"
      <3>1. UNCHANGED dashState
        BY <1>5, <2>3 DEF SwitchProject
      <3>2. QED  BY <2>1, <2>3, <3>1, IdleKeepsDash, UserKeepsPanel
    <2>4. QED  BY <2>2, <2>3
  <1>6. CASE PanelStep
    <2>1. Panel!Async /\ UNCHANGED <<page, dashState>>
      BY <1>6 DEF PanelStep, PanelOnly
    <2>2. project' = project
      BY <2>1 DEF Panel!Async, Panel!RootArrives, Panel!AnswerLoad, Panel!LoadSucceeds, Panel!LoadFails,
                  Panel!Expire, Panel!PollTick, Panel!AnswerPoll, Panel!PollSucceeds, Panel!PollFails
    <2>3. QED  BY <1>1, <2>1, <2>2, IdleKeepsDash, AsyncKeepsPanel
  <1>7. CASE DashStep
    <2>1. UNCHANGED <<page, project, panelState>>
      BY <1>7 DEF DashStep
    <2>2. PanelInv'
      BY <2>1, UserKeepsPanel
    <2>3. CASE Dash!Refresh
      <3>1. Dash!FetchData(project', range') /\ range' \in Ranges /\ page' = "dashboard"
        BY <2>1, <2>3 DEF Dash!Refresh, DashInv
      <3>2. QED  BY <1>1, <2>1, <2>2, <3>1, FetchKeepsDash
    <2>4. ASSUME NEW r \in Ranges, Dash!SetRange(r) PROVE IInv'
      <3>1. Dash!FetchData(project', range') /\ range' \in Ranges /\ page' = "dashboard"
        BY <2>1, <2>4 DEF Dash!SetRange
      <3>2. QED  BY <1>1, <2>1, <2>2, <3>1, FetchKeepsDash
    <2>5. CASE Dash!Async
      BY <2>1, <2>2, <2>5, AsyncKeepsDash
    <2>6. QED  BY <1>7, <2>3, <2>4, <2>5 DEF DashStep
  <1>8. CASE UNCHANGED vars
    <2>1. UNCHANGED <<page, project, panelState, dashState>>
      BY <1>8 DEF vars
    <2>2. QED  BY <1>1, <2>1, IdleKeepsDash, UserKeepsPanel
  <1>9. QED  BY <1>2, <1>3, <1>4, <1>5, <1>6, <1>7, <1>8 DEF Next

(* The invariant of panel and Dashboard. *)
THEOREM Invariance == Spec => []IInv
  <1>1. Init => IInv
    BY InitIInv
  <1>2. IInv /\ [Next]_vars => IInv'
    BY NextIInv
  <1>3. QED  BY <1>1, <1>2, PTL DEF Spec

(* Once its spinner is gone the overlay shows the trace it is open for,    *)
(* read for the active project, whatever loads and polls were under way    *)
(* when the user moved on.                                                 *)
THEOREM PanelShowsItsTraceTheorem == Spec => []PanelShowsItsTrace
  <1>1. IInv => PanelShowsItsTrace
    BY DEF IInv, PanelInv
  <1>2. QED  BY <1>1, Invariance, PTL

(* When the Dashboard has finished loading, every widget shows the answer  *)
(* to its own request for the project and range that are selected, for any *)
(* number of widgets, workers and superseded refreshes.                    *)
THEOREM DashboardShowsSelectionTheorem == Spec => []DashboardShowsSelection
  <1>1. IInv => DashboardShowsSelection
    BY DEF IInv, DashInv
  <1>2. QED  BY <1>1, Invariance, PTL
=============================================================================
