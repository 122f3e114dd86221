---------------------------- MODULE StatusProofs ----------------------------
(***************************************************************************)
(* Proofs about Status, for any number of entrances and of events, however *)
(* far the informers are behind: its types, and that the application       *)
(* controller keeps the entries of the entrance controller.                *)
(***************************************************************************)
EXTENDS Status, WellFoundedInduction, TLAPS

Entries == [Entrance -> EntranceState] \cup {NoStatus}
Shown   == EntranceState \cup {""}
Steps   == {"idle", "created", "read", "patched", "deleted"}
Held    == [step : Steps, fresh : Application, moved : BOOLEAN, touched : BOOLEAN]

\* There are no entries without an Application, the worker holds one that is
\* there, and knows whether it is still as the patch of the spec returned it.
WorkerInv ==
    /\ ~app.there => app.entr = NoStatus
    /\ appWorker.step \in {"created", "read", "patched"} => app.there
    /\ appWorker.step = "patched" /\ ~appWorker.touched
           => app.entr = appWorker.fresh.entr

IInv == TypeOK /\ WorkerInv

-----------------------------------------------------------------------------
(* The operators.                                                          *)

\* The order of the numbers, as a relation.
Less == OpToRel(<, Nat)

\* It is well-founded.
LEMMA LessWellFounded == IsWellFoundedOn(Less, Nat)
BY Zenon, NatLessThanWellFounded DEF Less

\* A set of entrances that is not empty has a first.
LEMMA FirstEntrance ==
    ASSUME NEW T, T \subseteq Nat, T # {}
    PROVE  \E e \in T : \A d \in T : e <= d
<1>1. PICK e \in T : \A d \in T : <<d, e>> \notin Less
  BY LessWellFounded, WFMin
<1>2. \A d \in T : e <= d
  <2> SUFFICES ASSUME NEW d \in T PROVE e <= d
    OBVIOUS
  <2>1. d \in Nat /\ e \in Nat
    OBVIOUS
  <2>2. d < e => <<d, e>> \in Less
    BY <2>1 DEF Less, OpToRel
  <2>3. ~(d < e)
    BY <1>1, <2>2
  <2> QED
    BY <2>1, <2>3
<1> QED
  BY <1>2

\* The state of an application is that of an entrance.
LEMMA AppStateType ==
    ASSUME NEW entr \in Entries
    PROVE  calAppState(entr) \in EntranceState
<1> DEFINE bad == {e \in DOMAIN entr : entr[e] # "running"}
           first == CHOOSE e \in bad : \A d \in bad : e <= d
<1>1. CASE bad = {}
  BY <1>1 DEF calAppState, EntranceState
<1>2. CASE bad # {}
  <2>1. entr \in [Entrance -> EntranceState]
    BY <1>2 DEF Entries, NoStatus
  <2>2. bad \subseteq Entrance /\ Entrance \subseteq Nat
    BY <2>1, BoundsAssumption DEF Entrance
  <2>3. \E e \in bad : \A d \in bad : e <= d
    BY <1>2, <2>2, FirstEntrance
  <2>4. first \in bad
    BY <2>3
  <2>5. calAppState(entr) = entr[first]
    BY <1>2 DEF calAppState
  <2> QED
    BY <2>1, <2>2, <2>4, <2>5
<1> QED
  BY <1>1, <1>2

\* A workload has one replica or none.
LEMMA EntranceStateType ==
    ASSUME NEW v \in Workloads, NEW p \in [Entrance -> PodState], NEW e \in Entrance
    PROVE  calEntranceState(v, p, e) \in EntranceState
<1>1. v.replicas[e] \in {0, 1}
  BY DEF Workloads
<1>2. CASE v.replicas[e] = 0
  BY <1>2 DEF calEntranceState, EntranceState
<1>3. CASE v.replicas[e] = 1
  BY <1>3 DEF calEntranceState, EntranceState
<1> QED
  BY <1>1, <1>2, <1>3

\* What the entrance controller writes are entries.
LEMMA PatchedType ==
    ASSUME TypeOK, NEW e \in Entrance
    PROVE  EntriesPatched(e) \in Entries
<1>1. calEntranceState(workSeen, podSeen, e) \in EntranceState
  BY EntranceStateType DEF TypeOK
<1>2. app.entr \in Entries /\ appSeen.entr \in Entries
  BY DEF TypeOK, Application, Entries
<1> QED
  BY <1>1, <1>2 DEF EntriesPatched, Entries

\* No Application is one, with no entries.
LEMMA NoAppType == NoApp \in Application /\ NoApp.there = FALSE /\ NoApp.entr = NoStatus
BY DEF NoApp, Application

-----------------------------------------------------------------------------
(* Types.                                                                  *)

\* The counter stays below its bound.
LEMMA EventType ==
    ASSUME TypeOK, Event \/ events' = events
    PROVE  events' \in 0..MaxEvents
<1>1. events \in 0..MaxEvents /\ MaxEvents \in Nat
  BY BoundsAssumption DEF TypeOK
<1> QED
  BY <1>1 DEF Event

\* What other parts of the cluster do.
LEMMA ClusterTypes ==
    ASSUME TypeOK,
           \/ Install \/ DeleteWorkloads \/ DeleteRelease
           \/ \E e \in Entrance : \/ Scale(e) \/ PodGetsReady(e) \/ PodFails(e)
                                  \/ PodStarts(e) \/ PodStops(e) \/ PodGoes(e)
    PROVE  TypeOK'
<1>1. /\ work \in Workloads /\ pod \in [Entrance -> PodState]
      /\ missed \subseteq Entrance /\ events \in Nat
  BY BoundsAssumption DEF TypeOK
<1>2. /\ work' \in Workloads /\ pod' \in [Entrance -> PodState]
      /\ release' \in BOOLEAN /\ leftover' \in BOOLEAN
  <2>1. CASE Install \/ DeleteWorkloads \/ DeleteRelease
    <3>1. Installed \in Workloads /\ NoWorkloads \in Workloads
      BY DEF Installed, NoWorkloads, AllUp, Workloads
    <3>2. work' \in {work, Installed, NoWorkloads} /\ pod' = pod
      BY <2>1 DEF Install, DeleteWorkloads, DeleteRelease
    <3>3. release' \in BOOLEAN
      BY <2>1 DEF Install, DeleteWorkloads, DeleteRelease, TypeOK
    <3>4. leftover' \in BOOLEAN
      BY <2>1 DEF Install, DeleteWorkloads, DeleteRelease, TypeOK, ghosts
    <3> QED
      BY <1>1, <3>1, <3>2, <3>3, <3>4
  <2>2. ASSUME NEW e \in Entrance, Scale(e)
        PROVE  work' \in Workloads
    <3>1. work.replicas \in [Entrance -> {0, 1}] /\ work.there \in BOOLEAN
      BY <1>1 DEF Workloads
    <3>2. 1 - work.replicas[e] \in {0, 1}
      BY <3>1
    <3>3. work' = [work EXCEPT !.replicas = [work.replicas EXCEPT ![e] = 1 - work.replicas[e]]]
      BY <1>1, <2>2 DEF Scale, Workloads
    <3> QED
      BY <1>1, <3>1, <3>2, <3>3 DEF Workloads
  <2>3. ASSUME NEW e \in Entrance, Scale(e)
        PROVE  UNCHANGED <<pod, release, leftover>>
    BY <2>3 DEF Scale
  <2>4. ASSUME NEW e \in Entrance,
               \/ PodGetsReady(e) \/ PodFails(e)
               \/ PodStarts(e) \/ PodStops(e) \/ PodGoes(e)
        PROVE  /\ pod' \in [Entrance -> PodState]
               /\ UNCHANGED <<work, release, leftover>>
    BY <1>1, <2>4 DEF PodGetsReady, PodFails, PodStarts, PodStops, PodGoes, PodState, ghosts
  <2> QED
    BY <2>1, <2>2, <2>3, <2>4 DEF TypeOK
<1>3. missed' \subseteq Entrance
  BY <1>1 DEF Install, DeleteWorkloads, DeleteRelease, Scale, PodGetsReady, PodFails,
     PodStarts, PodStops, PodGoes, ghosts
<1>4. events' \in 0..MaxEvents
  <2>1. events' = events \/ Event
    BY DEF Install, DeleteWorkloads, DeleteRelease, Scale, PodGetsReady, PodFails,
       PodStarts, PodStops, PodGoes
  <2> QED
    BY <2>1, EventType
<1>5. UNCHANGED <<app, caches, workers, overwritten>>
  BY DEF Install, DeleteWorkloads, DeleteRelease, Scale, PodGetsReady, PodFails,
     PodStarts, PodStops, PodGoes, ghosts
<1> QED
  BY <1>2, <1>3, <1>4, <1>5 DEF TypeOK, caches, seen, workers

\* The informers and a restart.
LEMMA InformerTypes ==
    ASSUME TypeOK,
           WorkCacheCatchesUp \/ PodCacheCatchesUp \/ AppCacheCatchesUp \/ Restart
    PROVE  TypeOK'
<1>1. UNCHANGED <<cluster, app, overwritten>>
  BY DEF WorkCacheCatchesUp, PodCacheCatchesUp, AppCacheCatchesUp, Restart, ghosts
<1>2. /\ workSeen' \in Workloads /\ podSeen' \in [Entrance -> PodState]
      /\ appSeen' \in Application /\ appNews' \in BOOLEAN
  BY DEF WorkCacheCatchesUp, PodCacheCatchesUp, AppCacheCatchesUp, Restart, TypeOK
<1>3. NoApp \in Application
  BY NoAppType
<1>4. appQueue' \in BOOLEAN /\ podQueue' \subseteq Entrance
  BY DEF WorkCacheCatchesUp, PodCacheCatchesUp, AppCacheCatchesUp, Restart, TypeOK,
     Workloads, Application
<1>5. appWorker' \in Held
  <2>1. Idle \in Held
    BY <1>3 DEF Idle, Held, Steps
  <2>2. appWorker' = appWorker \/ appWorker' = Idle
    BY DEF WorkCacheCatchesUp, PodCacheCatchesUp, AppCacheCatchesUp, Restart
  <2> QED
    BY <2>1, <2>2 DEF TypeOK, Held, Steps
<1>6. missed' \subseteq Entrance /\ leftover' \in BOOLEAN
  BY DEF WorkCacheCatchesUp, PodCacheCatchesUp, AppCacheCatchesUp, Restart, ghosts, TypeOK
<1>7. events' \in 0..MaxEvents
  <2>1. events' = events \/ Event
    BY DEF WorkCacheCatchesUp, PodCacheCatchesUp, AppCacheCatchesUp, Restart
  <2> QED
    BY <2>1, EventType
<1> QED
  BY <1>1, <1>2, <1>4, <1>5, <1>6, <1>7 DEF TypeOK, cluster, Held, Steps

\* Writes of the status keep its shape.
LEMMA StatusType ==
    ASSUME TypeOK, NEW entr \in Entries, NEW state \in Shown
    PROVE  /\ [app EXCEPT !.entr = entr] \in Application
           /\ [app EXCEPT !.state = state] \in Application
           /\ [app EXCEPT !.entr = entr, !.state = state] \in Application
           /\ [app EXCEPT !.state = state, !.entr = entr] \in Application
BY DEF TypeOK, Application, Entries, Shown

\* The application controller.
LEMMA ControllerTypes ==
    ASSUME TypeOK,
           \/ createApplication \/ createStatus \/ ReadApplication \/ PatchSpec
           \/ PatchState \/ DeleteApplication \/ NothingThere \/ clearHelmHistory
           \/ AppCallFails
    PROVE  TypeOK'
<1> USE DEF createApplication, createStatus, ReadApplication, PatchSpec, PatchState,
        DeleteApplication, NothingThere, clearHelmHistory, AppCallFails
<1>1. UNCHANGED <<pod, seen, podQueue, missed, overwritten>>
  BY DEF cluster, caches, ghosts
<1>2. work' \in Workloads /\ release' \in BOOLEAN
  <2>1. NoWorkloads \in Workloads
    BY DEF NoWorkloads, AllUp, Workloads
  <2> QED
    BY <2>1 DEF TypeOK, cluster
<1>3. app' \in Application
  <2>1. CASE createApplication
    <3>1. PICK listed \in BOOLEAN :
              app' = [there |-> TRUE, listed |-> listed, entr |-> NoStatus, state |-> ""]
      BY <2>1 DEF Write
    <3> QED
      BY <3>1 DEF Application
  <2>2. CASE createStatus
    <3>1. /\ "notReady" \in Shown /\ app.entr \in Entries
          /\ [e \in Entrance |-> "notReady"] \in Entries
      BY DEF TypeOK, Application, Shown, Entries, EntranceState
    <3> QED
      BY <2>2, <3>1, StatusType DEF Write
  <2>3. CASE PatchState
    <3>1. appWorker.fresh.entr \in Entries
      BY DEF TypeOK, Application, Entries
    <3>2. calAppState(appWorker.fresh.entr) \in Shown
      BY <3>1, AppStateType DEF Shown
    <3>3. StatusPatched(calAppState(appWorker.fresh.entr)) \in Application
      BY <3>1, <3>2, StatusType DEF StatusPatched
    <3>4. app' = app \/ app' = StatusPatched(calAppState(appWorker.fresh.entr))
      BY <2>3 DEF Write
    <3> QED
      BY <3>3, <3>4 DEF TypeOK
  <2>4. CASE DeleteApplication
    BY <2>4, NoAppType DEF Write
  <2>5. CASE \/ ReadApplication \/ PatchSpec \/ NothingThere \/ clearHelmHistory
             \/ AppCallFails
    BY <2>5 DEF TypeOK
  <2> QED
    BY <2>1, <2>2, <2>3, <2>4, <2>5
<1>4. appNews' \in BOOLEAN /\ appQueue' \in BOOLEAN
  BY DEF TypeOK, Write, caches, Finish, Retry, Take
<1>5. appWorker' \in Held
  <2>1. Idle \in Held
    BY NoAppType DEF Idle, Held, Steps
  <2>2. appWorker \in Held /\ app \in Application
    BY DEF TypeOK, Held, Steps
  <2>3. CASE createApplication \/ ReadApplication \/ DeleteApplication
    BY <2>1, <2>3 DEF Held, Steps
  <2>4. CASE PatchSpec
    BY <2>2, <2>4 DEF Held, Steps
  <2>5. CASE createStatus \/ PatchState \/ NothingThere \/ clearHelmHistory \/ AppCallFails
    BY <2>1, <2>2, <2>5 DEF Finish, Retry
  <2> QED
    BY <2>3, <2>4, <2>5
<1>6. leftover' \in BOOLEAN
  BY DEF ghosts, TypeOK
<1>7. events' \in 0..MaxEvents
  <2>1. events' = events \/ Event
    OBVIOUS
  <2> QED
    BY <2>1, EventType
<1> QED
  BY <1>1, <1>2, <1>3, <1>4, <1>5, <1>6, <1>7 DEF TypeOK, seen, Held, Steps

\* The entrance controller.
LEMMA EntranceTypes ==
    ASSUME TypeOK, NEW e \in Entrance, DropPod(e) \/ updateEntranceStatus(e)
    PROVE  TypeOK'
<1> USE DEF DropPod, updateEntranceStatus
<1>1. UNCHANGED <<cluster, seen, appQueue, leftover, events>>
  BY DEF caches
<1>2. app' \in Application /\ appNews' \in BOOLEAN
  <2>1. [app EXCEPT !.entr = EntriesPatched(e)] \in Application
    BY PatchedType DEF TypeOK, Application, Entries
  <2> QED
    BY <2>1 DEF Write, TypeOK, caches
<1>3. podQueue' \subseteq Entrance /\ missed' \subseteq Entrance
  BY DEF TypeOK
<1>4. overwritten' \subseteq Entrance
  <2>1. DOMAIN app.entr \subseteq Entrance
    <3>1. app.entr \in [Entrance -> EntranceState] \/ app.entr = NoStatus
      BY DEF TypeOK, Application
    <3>2. DOMAIN NoStatus = {}
      BY DEF NoStatus
    <3> QED
      BY <3>1, <3>2
  <2> QED
    BY <2>1 DEF TypeOK
<1>5. appWorker' \in Held
  BY DEF TypeOK, Noticed, Held, Steps
<1> QED
  BY <1>1, <1>2, <1>3, <1>4, <1>5 DEF TypeOK, cluster, seen, Held, Steps

-----------------------------------------------------------------------------
(* The invariant, and the entries.                                         *)

\* What the application controller may not do in a step.
KeepsEntries ==
    app'.entr # app.entr /\ app.entr # NoStatus /\ app'.there
        => appWorker.step = "created" \/ podQueue' # podQueue

\* At first there is an installed application, or none.
LEMMA InitIInv == ASSUME Init PROVE IInv
<1>1. work \in Workloads /\ workSeen \in Workloads /\ release \in BOOLEAN
  <2>1. Installed \in Workloads /\ NoWorkloads \in Workloads
    BY DEF Installed, NoWorkloads, AllUp, Workloads
  <2>2. work \in Workloads /\ workSeen = work /\ release = work.there
    BY <2>1 DEF Init
  <2>3. work.there \in BOOLEAN
    BY <2>2 DEF Workloads
  <2> QED
    BY <2>2, <2>3
<1>2. pod \in [Entrance -> PodState] /\ podSeen \in [Entrance -> PodState]
  BY DEF Init, PodState
<1>3. app \in Application /\ appSeen \in Application
  <2>1. CASE work.there
    <3>1. [e \in Entrance |-> "running"] \in Entries /\ "running" \in Shown
      BY DEF Entries, Shown, EntranceState
    <3> QED
      BY <2>1, <3>1 DEF Init, Application, Entries, Shown
  <2>2. CASE ~work.there
    BY <2>2, NoAppType DEF Init
  <2> QED
    BY <2>1, <2>2
<1>4. appWorker \in Held /\ appWorker.step = "idle"
  BY NoAppType DEF Init, Idle, Held, Steps
<1>5. events \in 0..MaxEvents
  BY BoundsAssumption DEF Init
<1>6. TypeOK
  BY <1>1, <1>2, <1>3, <1>4, <1>5 DEF Init, TypeOK, Held, Steps
<1>7. ~app.there => app.entr = NoStatus
  BY <1>1, NoAppType DEF Init
<1> QED
  BY <1>4, <1>6, <1>7 DEF IInv, WorkerInv

\* A step that leaves the Application and the worker alone, or lets it end.
LEMMA OtherStep ==
    ASSUME IInv, app' = app, appWorker' = appWorker \/ appWorker' = Idle
    PROVE  WorkerInv' /\ KeepsEntries
BY DEF IInv, WorkerInv, Idle, KeepsEntries

\* The controller writes no entry but the first, and those it writes again
\* with the state are what the object has.
LEMMA ControllerStep ==
    ASSUME IInv,
           \/ createApplication \/ createStatus \/ ReadApplication \/ PatchSpec
           \/ PatchState \/ DeleteApplication \/ NothingThere \/ clearHelmHistory
           \/ AppCallFails
    PROVE  WorkerInv' /\ KeepsEntries
<1>1. app \in Application /\ appWorker \in Held
  BY DEF IInv, TypeOK, Held, Steps
<1>2. CASE createApplication
  <2>1. ~app.there /\ app.entr = NoStatus
    BY <1>2 DEF createApplication, IInv, WorkerInv
  <2>2. appWorker'.step = "created"
    BY <1>2 DEF createApplication, Idle
  <2>3. app'.there
    <3>1. PICK listed \in BOOLEAN :
              app' = [there |-> TRUE, listed |-> listed, entr |-> NoStatus, state |-> ""]
      BY <1>2 DEF createApplication, Write
    <3> QED
      BY <3>1
  <2> QED
    BY <2>1, <2>2, <2>3 DEF WorkerInv, KeepsEntries
<1>3. CASE createStatus
  <2>1. app.there /\ app'.there /\ appWorker.step = "created" /\ appWorker' = Idle
    BY <1>1, <1>3 DEF createStatus, IInv, WorkerInv, Write, Finish, Application
  <2> QED
    BY <2>1 DEF WorkerInv, Idle, KeepsEntries
<1>4. CASE ReadApplication
  <2>1. app' = app /\ app.there /\ appWorker'.step = "read"
    BY <1>4 DEF ReadApplication, Idle
  <2> QED
    BY <2>1 DEF IInv, WorkerInv, KeepsEntries
<1>5. CASE PatchSpec
  <2>1. app' = app /\ app.there
    BY <1>5 DEF PatchSpec, IInv, WorkerInv
  <2>2. appWorker'.step = "patched" /\ appWorker'.fresh = app
    BY <1>1, <1>5 DEF PatchSpec, Held
  <2> QED
    BY <2>1, <2>2 DEF IInv, WorkerInv, KeepsEntries
<1>6. CASE PatchState
  <2> DEFINE state == calAppState(appWorker.fresh.entr)
  <2>1. /\ appWorker.step = "patched" /\ app.there
        /\ ~appWorker.touched => app.entr = appWorker.fresh.entr
    BY <1>6 DEF PatchState, IInv, WorkerInv
  <2>2. CASE app' = app
    BY <1>6, <2>2, OtherStep DEF PatchState, Finish, Retry
  <2>3. CASE ~Refused /\ app' = StatusPatched(state)
    <3>1. app'.entr = app.entr /\ app'.there
      <4> HIDE DEF state
      <4>1. CASE appWorker.moved
        BY <1>1, <2>1, <2>3, <4>1 DEF Refused, StatusPatched, Application
      <4>2. CASE ~appWorker.moved
        BY <1>1, <2>1, <2>3, <4>2 DEF StatusPatched, Application
      <4> QED
        BY <4>1, <4>2
    <3>2. appWorker' = Idle
      BY <1>6 DEF PatchState, Finish, Retry
    <3> QED
      BY <3>1, <3>2 DEF WorkerInv, Idle, KeepsEntries
  <2> QED
    BY <1>6, <2>2, <2>3 DEF PatchState, Write
<1>7. CASE DeleteApplication
  <2>1. app' = NoApp /\ appWorker'.step = "deleted"
    BY <1>7 DEF DeleteApplication, Write, Idle
  <2> QED
    BY <2>1, NoAppType DEF WorkerInv, KeepsEntries
<1>8. CASE NothingThere \/ clearHelmHistory \/ AppCallFails
  BY <1>8, OtherStep DEF NothingThere, clearHelmHistory, AppCallFails, Finish, Retry
<1> QED
  BY <1>2, <1>3, <1>4, <1>5, <1>6, <1>7, <1>8

\* The entrance controller takes a key, and the worker's object has changed.
LEMMA EntranceStep ==
    ASSUME IInv, NEW e \in Entrance, DropPod(e) \/ updateEntranceStatus(e)
    PROVE  WorkerInv' /\ KeepsEntries
<1>1. app \in Application /\ appWorker \in Held
  BY DEF IInv, TypeOK, Held, Steps
<1>2. CASE DropPod(e)
  BY <1>2, OtherStep DEF DropPod
<1>3. CASE updateEntranceStatus(e)
  <2>1. e \in podQueue /\ podQueue' = podQueue \ {e} /\ app.there
    BY <1>3 DEF updateEntranceStatus
  <2>2. app'.there
    BY <1>1, <1>3, <2>1 DEF updateEntranceStatus, Write, Application
  <2>3. appWorker'.step = appWorker.step /\ (appWorker.step = "patched" => appWorker'.touched)
    BY <1>1, <1>3 DEF updateEntranceStatus, Noticed, Held
  <2> QED
    BY <2>1, <2>2, <2>3 DEF WorkerInv, KeepsEntries
<1> QED
  BY <1>2, <1>3

\* Every step keeps the invariant, and the entries.
LEMMA NextStep == ASSUME IInv, [Next]_vars PROVE IInv' /\ KeepsEntries
<1>1. CASE \/ Install \/ DeleteWorkloads \/ DeleteRelease
           \/ \E e \in Entrance : \/ Scale(e) \/ PodGetsReady(e) \/ PodFails(e)
                                  \/ PodStarts(e) \/ PodStops(e) \/ PodGoes(e)
  <2>1. TypeOK'
    BY <1>1, ClusterTypes DEF IInv
  <2>2. app' = app /\ appWorker' = appWorker
    BY <1>1 DEF Install, DeleteWorkloads, DeleteRelease, Scale, PodGetsReady,
       PodFails, PodStarts, PodStops, PodGoes, workers
  <2> QED
    BY <2>1, <2>2, OtherStep DEF IInv
<1>2. CASE WorkCacheCatchesUp \/ PodCacheCatchesUp \/ AppCacheCatchesUp \/ Restart
  <2>1. TypeOK'
    BY <1>2, InformerTypes DEF IInv
  <2>2. app' = app /\ (appWorker' = appWorker \/ appWorker' = Idle)
    BY <1>2 DEF WorkCacheCatchesUp, PodCacheCatchesUp, AppCacheCatchesUp, Restart
  <2> QED
    BY <2>1, <2>2, OtherStep DEF IInv
<1>3. CASE \/ createApplication \/ createStatus \/ ReadApplication \/ PatchSpec
           \/ PatchState \/ DeleteApplication \/ NothingThere \/ clearHelmHistory
           \/ AppCallFails
  BY <1>3, ControllerTypes, ControllerStep DEF IInv
<1>4. ASSUME NEW e \in Entrance, DropPod(e) \/ updateEntranceStatus(e)
      PROVE  IInv' /\ KeepsEntries
  BY <1>4, EntranceTypes, EntranceStep DEF IInv
<1>5. CASE UNCHANGED vars
  <2>1. /\ UNCHANGED <<work, pod, release, app, workSeen, podSeen, appSeen, appNews>>
        /\ UNCHANGED <<appQueue, appWorker, podQueue, missed, overwritten, leftover, events>>
    BY <1>5 DEF vars, cluster, caches, seen, workers, ghosts
  <2>2. TypeOK'
    BY <2>1 DEF IInv, TypeOK
  <2> QED
    BY <2>1, <2>2, OtherStep DEF IInv
<1> QED
  BY <1>1, <1>2, <1>3, <1>4, <1>5 DEF Next, AppStep, PodStep

\* The invariant holds in every state.
THEOREM Invariance == Spec => []IInv
<1>1. Init => IInv
  BY InitIInv
<1>2. IInv /\ [Next]_vars => IInv'
  BY NextStep
<1> QED
  BY <1>1, <1>2, PTL DEF Spec

\* Every variable has its type: the state of an application is that of its
\* first entrance that does not run (application_controller.go:748).
THEOREM TypeCorrect == Spec => []TypeOK
<1>1. IInv => TypeOK
  BY DEF IInv
<1> QED
  BY <1>1, Invariance, PTL

\* The application controller writes no entry of the status but the first,
\* although its patch can hold all of them (application_controller.go:377).
THEOREM EntriesKept == Spec => ControllerKeepsEntries
<1>1. IInv /\ [Next]_vars => KeepsEntries
  BY NextStep
<1>2. IInv /\ [Next]_vars => [KeepsEntries]_vars
  BY <1>1
<1> QED
  BY <1>2, Invariance, PTL DEF Spec, ControllerKeepsEntries, KeepsEntries
=============================================================================
