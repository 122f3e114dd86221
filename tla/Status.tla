------------------------------- MODULE Status -------------------------------
(***************************************************************************)
(* The Application object that shows an installed application to its user, *)
(* and the two controllers that keep it: the application controller        *)
(* creates, updates and deletes the object as the workload of the          *)
(* application comes and goes and derives the state of the application     *)
(* from its entrances; the entrance controller sets the state of one       *)
(* entrance from the pods behind it.                                       *)
(*                                                                         *)
(* Each controller has one worker and a work queue of its own.  Workloads, *)
(* pods and, for the entrance controller, the Application are read from    *)
(* informer caches that may be behind; the application controller reads    *)
(* the Application itself from the API server.  Every entrance has a       *)
(* workload of one replica behind it.                                      *)
(***************************************************************************)
EXTENDS Naturals

CONSTANTS Entrances,   \* how many entrances the application has
          MaxEvents    \* bound: installs, uninstalls, scalings, failing pods,
                       \* failing calls and restarts, together

ASSUME BoundsAssumption ==
    Entrances \in Nat /\ MaxEvents \in Nat

Entrance == 1..Entrances                         \* in the order of the spec
EntranceState == {"notReady", "running", "stopped"}
PodState == {"none", "notReady", "ready", "terminating"}

NoStatus == [e \in {} |-> "notReady"]            \* no entry for any entrance
NoApp    == [there |-> FALSE, listed |-> FALSE, entr |-> NoStatus, state |-> ""]

\* "listed": the spec names the entrances; "entr": their entries in the status.
Application ==
    [there : BOOLEAN, listed : BOOLEAN,
     entr : [Entrance -> EntranceState] \cup {NoStatus},
     state : EntranceState \cup {""}]
Workloads == [there : BOOLEAN, replicas : [Entrance -> {0, 1}]]

VARIABLES
    work,       \* the workloads of the application
    pod,        \* the pod behind each entrance
    release,    \* Helm has a release of the application
    app,        \* the Application object
    workSeen, podSeen, appSeen,       \* the same, as the informers show them
    appNews,    \* the Application has been written since the cache caught up
    appQueue,   \* the application controller has a request in its queue
    appWorker,  \* what its worker does, and the objects it holds
    podQueue,   \* entrances of the pods in the queue of the entrance controller
    missed,     \* ghost: entrances whose last change was not made known
    overwritten,\* ghost: entrances whose entry was undone from a stale read
    leftover,   \* ghost: a release was left behind
    events

cluster == <<work, pod, release>>
seen    == <<workSeen, podSeen, appSeen>>
caches  == <<seen, appNews>>
workers == <<appQueue, appWorker, podQueue>>
ghosts  == <<missed, overwritten, leftover>>
vars    == <<cluster, app, caches, workers, ghosts, events>>

Idle    == [step |-> "idle", fresh |-> NoApp, moved |-> FALSE, touched |-> FALSE]

TypeOK ==
    /\ work \in Workloads /\ workSeen \in Workloads
    /\ pod \in [Entrance -> PodState] /\ podSeen \in [Entrance -> PodState]
    /\ release \in BOOLEAN /\ appNews \in BOOLEAN
    /\ app \in Application /\ appSeen \in Application
    /\ appQueue \in BOOLEAN /\ podQueue \subseteq Entrance
    /\ appWorker \in [step : {"idle", "created", "read", "patched", "deleted"},
                      fresh : Application, moved : BOOLEAN, touched : BOOLEAN]
    /\ missed \subseteq Entrance /\ overwritten \subseteq Entrance
    /\ leftover \in BOOLEAN
    /\ events \in 0..MaxEvents

AllUp == [e \in Entrance |-> 1]
Installed   == [there |-> TRUE,  replicas |-> AllUp]
NoWorkloads == [there |-> FALSE, replicas |-> AllUp]

\* The first entrance that does not run decides; without entries it runs.
calAppState(entr) ==
    LET bad == {e \in DOMAIN entr : entr[e] # "running"}
    IN  IF bad = {} THEN "running"
        ELSE entr[CHOOSE e \in bad : \A d \in bad : e <= d]

\* A write of the Application is an event to come.
Write(a) == app' = a /\ appNews' = TRUE

\* What a look at the cluster says of an entrance.
calEntranceState(w, p, e) ==
    CASE w.replicas[e] = 0 -> "stopped"
      [] w.replicas[e] = 1 -> IF p[e] = "ready" THEN "running" ELSE "notReady"

Init ==
    /\ work \in {NoWorkloads, Installed} /\ workSeen = work
    /\ release = work.there
    /\ pod = [e \in Entrance |-> IF work.there THEN "ready" ELSE "none"]
    /\ podSeen = pod
    /\ app = IF work.there
             THEN [there |-> TRUE, listed |-> TRUE, state |-> "running",
                   entr |-> [e \in Entrance |-> "running"]]
             ELSE NoApp
    /\ appSeen = app /\ appNews = FALSE
    /\ appQueue = FALSE /\ appWorker = Idle
    /\ podQueue = {}
    /\ missed = {} /\ overwritten = {} /\ leftover = FALSE
    /\ events = 0

Event == events < MaxEvents /\ events' = events + 1

-----------------------------------------------------------------------------
\* Helm, the operations of the application and the cluster.

Install ==
    /\ ~work.there /\ ~release /\ \A e \in Entrance : pod[e] = "none"
    /\ Event
    /\ work' = Installed /\ release' = TRUE
    /\ leftover' = FALSE
    /\ UNCHANGED <<pod, app, caches, workers, missed, overwritten>>

\* Helm deletes the objects first and then its record of the release; a
\* workload that someone else deletes leaves the record behind.
DeleteWorkloads ==
    /\ work.there
    /\ Event
    /\ work' = NoWorkloads
    /\ leftover' = (leftover \/ ~app.there)
    /\ UNCHANGED <<pod, release, app, caches, workers, missed, overwritten>>

DeleteRelease ==
    /\ ~work.there /\ release
    /\ release' = FALSE
    /\ UNCHANGED <<work, pod, app, caches, workers, ghosts, events>>

Wanted(e) == work.there /\ work.replicas[e] = 1

\* Stop and resume.  A workload without a pod stops without telling anyone,
\* and one that has kept its pod resumes so.
Scale(e) ==
    /\ work.there
    /\ Event
    /\ work' = [work EXCEPT !.replicas[e] = 1 - @]
    /\ missed' = IF pod[e] \in (IF Wanted(e) THEN {"none"} ELSE {"notReady", "ready"})
                 THEN missed \cup {e} ELSE missed
    /\ UNCHANGED <<pod, release, app, caches, workers, overwritten, leftover>>

PodStarts(e) ==
    /\ pod[e] = "none" /\ Wanted(e)
    /\ pod' = [pod EXCEPT ![e] = "notReady"]
    /\ UNCHANGED <<work, release, app, caches, workers, ghosts, events>>

PodGetsReady(e) ==
    /\ pod[e] = "notReady" /\ Wanted(e)
    /\ pod' = [pod EXCEPT ![e] = "ready"]
    /\ UNCHANGED <<work, release, app, caches, workers, ghosts, events>>

PodFails(e) ==
    /\ pod[e] = "ready"
    /\ Event
    /\ pod' = [pod EXCEPT ![e] = "notReady"]
    /\ UNCHANGED <<work, release, app, caches, workers, ghosts>>

PodStops(e) ==
    /\ pod[e] \in {"notReady", "ready"} /\ ~Wanted(e)
    /\ pod' = [pod EXCEPT ![e] = "terminating"]
    /\ UNCHANGED <<work, release, app, caches, workers, ghosts, events>>

\* The events of a pod that came and went before the cache showed it are too
\* late: its request finds no pod.
PodGoes(e) ==
    /\ pod[e] = "terminating"
    /\ pod' = [pod EXCEPT ![e] = "none"]
    /\ missed' = IF podSeen[e] = "none" THEN missed \cup {e} ELSE missed
    /\ UNCHANGED <<work, release, app, caches, workers, overwritten, leftover,
                   events>>

-----------------------------------------------------------------------------
\* The informers, and the requests their events make.

\* Mutant: a workload that goes is no event.
WorkGoesUnseen ==
    /\ workSeen # work
    /\ workSeen' = work
    /\ appQueue' = (appQueue \/ work.there)
    /\ UNCHANGED <<cluster, app, podSeen, appSeen, appNews, appWorker, podQueue,
                   ghosts, events>>

\* Every event of a workload of the application is a request for it.
WorkCacheCatchesUp ==
    /\ workSeen # work
    /\ workSeen' = work
    /\ appQueue' = TRUE
    /\ UNCHANGED <<cluster, app, podSeen, appSeen, appNews, appWorker, podQueue, ghosts, events>>

\* Mutant: only new pods make requests.
OnlyNewPods ==
    /\ podSeen # pod
    /\ podSeen' = pod
    /\ podQueue' = podQueue \cup {e \in Entrance : podSeen[e] = "none" /\ pod[e] # "none"}
    /\ UNCHANGED <<cluster, app, workSeen, appSeen, appNews, appQueue, appWorker,
                   ghosts, events>>

\* The watch of pods drops deletions; what came before one is not dropped.
PodCacheCatchesUp ==
    /\ podSeen # pod
    /\ podSeen' = pod
    /\ podQueue' = podQueue \cup
           {e \in Entrance : podSeen[e] # pod[e]
                               /\ ~(podSeen[e] = "terminating" /\ pod[e] = "none")}
    /\ UNCHANGED <<cluster, app, workSeen, appSeen, appNews, appQueue, appWorker,
                   ghosts, events>>

\* Mutant: without the second watch.
NoSecondWatch ==
    /\ appNews /\ appNews' = FALSE
    /\ appSeen' = app
    /\ UNCHANGED <<cluster, app, workSeen, podSeen, appQueue, appWorker, podQueue,
                   ghosts, events>>

\* The second watch turns an event of the Application into a request of the
\* same kind as those of its workloads, deletions included.
AppCacheCatchesUp ==
    /\ appNews /\ appNews' = FALSE
    /\ appSeen' = app
    /\ appQueue' = TRUE
    /\ UNCHANGED <<cluster, app, workSeen, podSeen, appWorker, podQueue, ghosts, events>>

\* The program ends and starts again: the caches are filled anew, and what
\* they hold comes in as new.
Restart ==
    /\ Event
    /\ workSeen' = work /\ podSeen' = pod /\ appSeen' = app
    /\ appNews' = FALSE
    /\ appQueue' = (work.there \/ app.there) /\ appWorker' = Idle
    /\ podQueue' = {e \in Entrance : pod[e] # "none"}
    /\ leftover' = (leftover \/ (appWorker.step = "deleted" /\ release))
    /\ missed' = missed \cup {e \in Entrance : pod[e] = "none" /\
                     (e \in podQueue \/ podSeen[e] # "none")}
    /\ UNCHANGED <<cluster, app, overwritten>>

-----------------------------------------------------------------------------
\* The application controller.

\* An object written by someone else has another version than the one held.
Noticed == [appWorker EXCEPT
              !.moved   = @ \/ appWorker.step = "read",
              !.touched = @ \/ appWorker.step = "patched"]

Finish == appWorker' = Idle
Retry  == appQueue' = TRUE /\ Finish

\* A request takes the workload from the cache and the Application itself.
Take == appWorker.step = "idle" /\ appQueue /\ appQueue' = FALSE

createApplication ==
    /\ Take /\ workSeen.there /\ ~app.there
    /\ \E listed \in BOOLEAN :
          /\ IF listed THEN UNCHANGED events
                       ELSE Event                \* no service found: no entrances
          /\ Write([there |-> TRUE, listed |-> listed, entr |-> NoStatus, state |-> ""])
          /\ appWorker' = [Idle EXCEPT !.step = "created"]
    /\ UNCHANGED <<cluster, seen, podQueue, ghosts>>

\* The first status is a patch against the object as it was created.
createStatus ==
    /\ appWorker.step = "created"
    /\ Write([app EXCEPT
                !.state = "notReady",
                !.entr  = IF app.listed THEN [e \in Entrance |-> "notReady"] ELSE @])
    /\ Finish
    /\ UNCHANGED <<cluster, seen, appQueue, podQueue, ghosts, events>>

ReadApplication ==
    /\ Take /\ workSeen.there /\ app.there
    /\ appWorker' = [Idle EXCEPT !.step = "read"]
    /\ UNCHANGED <<cluster, app, caches, podQueue, ghosts, events>>

\* Patching the spec returns the whole object as it is now.
PatchSpec ==
    /\ appWorker.step = "read"
    /\ appWorker' = [appWorker EXCEPT !.step = "patched", !.fresh = app]
    /\ UNCHANGED <<cluster, app, caches, appQueue, podQueue, ghosts, events>>

\* Mutant: the version does not travel with the patch.
NeverRefused == FALSE

\* The patch of the status is the difference between the object returned and
\* the object read first: when they differ it carries the version returned,
\* and the API server refuses it once the object has changed again.
Refused == appWorker.moved /\ appWorker.touched
StatusPatched(state) ==
    IF appWorker.moved
    THEN [app EXCEPT !.entr = appWorker.fresh.entr, !.state = state]
    ELSE [app EXCEPT !.state = state]
PatchState ==
    LET state == calAppState(appWorker.fresh.entr)
    IN  /\ appWorker.step = "patched"
        /\ IF state = appWorker.fresh.state
           THEN Finish /\ UNCHANGED <<app, appNews, appQueue>>
           ELSE IF Refused
           THEN Retry /\ UNCHANGED <<app, appNews>>
           ELSE Finish /\ Write(StatusPatched(state)) /\ UNCHANGED appQueue
        /\ UNCHANGED <<cluster, seen, podQueue, ghosts, events>>

\* No workload: the Application goes, and then what Helm still has of it.
DeleteApplication ==
    /\ Take /\ ~workSeen.there /\ app.there
    /\ Write(NoApp)
    /\ appWorker' = [Idle EXCEPT !.step = "deleted"]
    /\ UNCHANGED <<cluster, seen, podQueue, ghosts, events>>

NothingThere ==
    /\ Take /\ ~workSeen.there /\ ~app.there
    /\ UNCHANGED <<cluster, app, caches, appWorker, podQueue, ghosts, events>>

\* Mutant: the record of the release stays.
KeepHistory ==
    /\ appWorker.step = "deleted"
    /\ Finish
    /\ UNCHANGED <<cluster, app, caches, appQueue, podQueue, ghosts, events>>

\* A release that is there is uninstalled, one installed since included.
clearHelmHistory ==
    /\ appWorker.step = "deleted"
    /\ work' = IF release THEN NoWorkloads ELSE work
    /\ release' = FALSE
    /\ Finish
    /\ UNCHANGED <<pod, app, caches, appQueue, podQueue, ghosts, events>>

\* A call fails: the request is tried again from the start.
AppCallFails ==
    /\ appWorker.step # "idle" /\ Event
    /\ Retry
    /\ leftover' = (leftover \/ (appWorker.step = "deleted" /\ release))
    /\ UNCHANGED <<cluster, app, caches, podQueue, missed, overwritten>>

-----------------------------------------------------------------------------
\* The entrance controller.

Matched == appSeen.there /\ appSeen.listed

\* A pod that is gone, or that no Application in the cache names, is dropped.
DropPod(e) ==
    /\ e \in podQueue
    /\ podSeen[e] = "none" \/ ~Matched
    /\ podQueue' = podQueue \ {e}
    /\ missed' = missed \cup {e}
    /\ UNCHANGED <<cluster, app, caches, appQueue, appWorker,
                   overwritten, leftover, events>>

\* Mutant: the computed entry is appended.
EntryAppended(e) ==
    IF appSeen.entr = NoStatus THEN app.entr
    ELSE [d \in 1..(Entrances + 1) |-> IF d \in DOMAIN appSeen.entr THEN appSeen.entr[d]
                                       ELSE calEntranceState(workSeen, podSeen, e)]

\* The patch holds every entry as the cache shows it, but for the one that is
\* computed; an object read without entries changes nothing.  Reading earlier
\* is reading a cache further behind.
EntriesPatched(e) ==
    IF appSeen.entr = NoStatus THEN app.entr
    ELSE [appSeen.entr EXCEPT ![e] = calEntranceState(workSeen, podSeen, e)]

\* Without its workload in the cache, or without the Application, the request
\* fails and waits for its next turn.
updateEntranceStatus(e) ==
    /\ e \in podQueue /\ podSeen[e] # "none" /\ Matched
    /\ workSeen.there /\ app.there
    /\ podQueue' = podQueue \ {e}
    /\ Write([app EXCEPT !.entr = EntriesPatched(e)])
    /\ appWorker' = Noticed
    /\ missed' = IF appSeen.entr # NoStatus
                    /\ calEntranceState(workSeen, podSeen, e) = calEntranceState(work, podSeen, e)
                 THEN missed \ {e} ELSE missed \cup {e}
    /\ overwritten' = (overwritten \ {e}) \cup
           {d \in DOMAIN app.entr \ {e} : app.entr[d] # EntriesPatched(e)[d]}
    /\ UNCHANGED <<cluster, seen, appQueue, leftover, events>>

-----------------------------------------------------------------------------
PodStep(e) ==
    \/ PodStarts(e) \/ PodStops(e) \/ PodGoes(e)
    \/ DropPod(e) \/ updateEntranceStatus(e)

AppStep ==
    \/ WorkCacheCatchesUp \/ PodCacheCatchesUp \/ AppCacheCatchesUp
    \/ createApplication \/ createStatus
    \/ ReadApplication \/ PatchSpec \/ PatchState
    \/ DeleteApplication \/ NothingThere \/ clearHelmHistory

Next ==
    \/ Install \/ DeleteWorkloads \/ DeleteRelease
    \/ Restart \/ AppCallFails
    \/ AppStep
    \/ \E e \in Entrance : Scale(e) \/ PodGetsReady(e) \/ PodFails(e) \/ PodStep(e)

Spec == Init /\ [][Next]_vars

\* The cluster starts and stops pods, the informers catch up and a queue is
\* worked off in turn; whether a pod gets ready is the application's affair.
Fairness == WF_vars(AppStep) /\ \A e \in Entrance : WF_vars(PodStep(e))

FairSpec == Spec /\ Fairness

-----------------------------------------------------------------------------
\* The entries of the status are the entrance controller's: after the first
\* status, the application controller writes the state of the application
\* and never brings back an entry that has changed since it looked, although
\* its patch can hold all of them (updateApplication).
ControllerKeepsEntries ==
    [][app'.entr # app.entr /\ app.entr # NoStatus /\ app'.there
         => appWorker.step = "created" \/ podQueue' # podQueue]_vars

\* When nothing happens any more, an entrance shows what runs behind it,
\* whatever order pods, workloads and both controllers took - unless its last
\* change was missed or undone, in the ways the ghosts name.
EntrancesFollow ==
    \A e \in Entrance :
        <>[](work.there /\ app.there /\ app.entr # NoStatus
               /\ e \notin missed \cup overwritten
             => app.entr[e] = calEntranceState(work, pod, e))

\* The state of the application is the one its entrances give, in the end:
\* a patch refused or computed from entries since changed is made up for.
StateFollows == <>[](app.there => app.state = calAppState(app.entr))

\* There is an Application when and only when there is a workload, in the
\* end, failing calls and restarts included.
ApplicationFollows == <>[](app.there = work.there)

\* A workload that is deleted behind Helm's back takes its release with it.
ReleaseFollows == <>[](~leftover => release = work.there)

\* Once events end, the caches of the two controllers are enough to bring the
\* entrances and the state up to date (application_controller.go:116,
\* entrancestatus_controller.go:88).
PodsFollow == EntrancesFollow /\ StateFollows

\* The Application and the release come and go with the workload, though each is
\* written by a call of its own (application_controller.go:194).
WorkloadFollows == ApplicationFollows /\ ReleaseFollows
=============================================================================
