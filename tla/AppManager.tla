----------------------------- MODULE AppManager -----------------------------
(***************************************************************************)
(* The ApplicationManager controller of app-service: the API handlers that *)
(* ask for operations, the two reconcilers (the controller-runtime worker  *)
(* and the two-minute sweep of ReconcileAll) that drive the state machine, *)
(* the in-progress registry statefulAppFactory, and the goroutines that    *)
(* carry out the operations and report their final state.                  *)
(*                                                                         *)
(* An ApplicationManager is the history of its versions between the one    *)
(* the informer cache holds (the first) and the one the API server holds   *)
(* (the last).  A version is a state, the OpGeneration counter and whether *)
(* its StatusTime lies further back than the time to live of the state.    *)
(***************************************************************************)
EXTENDS AppStates, Integers, Sequences

CONSTANTS
    Worker,       \* the reconcilers at work: "controller", "sweeper"
    App,          \* the ApplicationManagers
    Middleware,   \* those whose Spec.Type is middleware
    Op,           \* slots for operations in flight
    Handler,      \* API requests in flight at once
    None,         \* no application, no operation
    UserOps,      \* the operations that users ask for
    InitStates,   \* the states that a history starts from
    TimeLimited,  \* bound: the timed states whose time to live may pass
    MaxLag,       \* bound: versions that the cache may be behind
    MaxRequests,  \* bound: requests accepted
    MaxSweeps,    \* bound: sweeps that meet an application in motion
    MaxFaults     \* bound: crashes, failed calls and lost namespaces

ASSUME ConstantsAssumption ==
    /\ Worker \subseteq {"controller", "sweeper"}
    /\ Middleware \subseteq App
    /\ None \notin App \cup Op
    /\ UserOps \subseteq OpType
    /\ InitStates \subseteq PossibleStates
    /\ TimeLimited \subseteq TimedStates
    /\ MaxLag \in Nat \ {0} /\ MaxRequests \in Nat /\ MaxFaults \in Nat
    /\ MaxSweeps \in Nat

VARIABLES
    versions,     \* App -> sequence of the versions from the cache to the server
    queue,        \* the controller's work queue
    wk,           \* the two reconcilers
    fresh,        \* reconcilers whose object has the server's resourceVersion
    inProgress,   \* the registry: App -> operation or None
    ops,          \* the operations' goroutines
    req,          \* the API handlers between their check and their status update
    im,           \* applications that have an ImageManager
    app,          \* the Application resource: "absent", "present", "deleting"
    requests,     \* requests accepted so far
    faults,       \* faults so far
    sweeps        \* sweeps so far that met an application in motion

vars == <<versions, queue, wk, fresh, inProgress, ops, req, im, app, requests, faults, sweeps>>

Version == [state : State \cup {NoState}, gen : Int, late : BOOLEAN]

IdleWorker == [pc |-> "idle", app |-> None, kind |-> NoState, obj |-> None, target |-> NoState]

FreeOp == [app |-> None, kind |-> NoState, st |-> NoState, late |-> FALSE, body |-> "end",
           cancelled |-> FALSE, fin |-> NoState, phase |-> "free"]

NoRequest == [app |-> None, target |-> NoState]

Cached(a) == Head(versions[a])

Stored(a) == versions[a][Len(versions[a])]

\* States in which the chart has not been installed yet.
BeforeInstall == {"pending", "downloading", "installing"}

Exists(a) == app[a] # "absent"

\* The Application that a history may start with: of one that is uninstalled,
\* or whose installation failed, the namespace may still be terminating.
ApplicationOf(s) ==
    IF s \in {"uninstalled", "installFailed"} THEN {"absent", "deleting"}
    ELSE IF s \in InstallableStates \cup BeforeInstall THEN {"absent"}
    ELSE {"present"}

Init ==
    /\ app \in [App -> {"absent", "present", "deleting"}]
    /\ \E s \in [App -> InitStates] :
         /\ versions = [a \in App |-> <<[state |-> s[a], gen |-> 0, late |-> FALSE]>>]
         /\ queue = {a \in App : s[a] # NoState}
         /\ \A a \in App : app[a] \in ApplicationOf(s[a])
    /\ wk = [w \in Worker |-> IdleWorker]
    /\ fresh = {}
    /\ inProgress = [a \in App |-> None]
    /\ ops = [o \in Op |-> FreeOp]
    /\ req = [h \in Handler |-> NoRequest]
    /\ im = {}
    /\ requests = 0
    /\ faults = 0
    /\ sweeps = 0

-----------------------------------------------------------------------------
(***************************************************************************)
(* Writing the status.  Every write adds a version and outdates the copies *)
(* that reconcilers hold.                                                  *)
(***************************************************************************)
Store(a, version) ==
    /\ Len(versions[a]) <= MaxLag
    /\ versions' = [versions EXCEPT ![a] = Append(@, version)]
    /\ fresh' = {w \in fresh : wk[w].app # a}

\* baseStatefulApp.updateStatus reads the cache and sends the difference as a
\* merge patch: OpGeneration counts from the cached version, and a state that
\* is already the cached one is not part of the patch.
updateStatus(a, state) ==
    Store(a, [state |-> IF Cached(a).state = state THEN Stored(a).state ELSE state,
              gen |-> Cached(a).gen + 1, late |-> FALSE])

\* UpdateAppMgrStatus reads and updates the server's version, again after a
\* conflict; an empty state keeps the present one.
UpdateAppMgrStatus(a, state) ==
    Store(a, [state |-> IF state = NoState THEN Stored(a).state ELSE state,
              gen |-> Stored(a).gen + 1, late |-> FALSE])

Fault ==
    /\ faults < MaxFaults
    /\ faults' = faults + 1

-----------------------------------------------------------------------------
(***************************************************************************)
(* The registry of operations in progress.                                 *)
(***************************************************************************)
\* The state that the registered object reports, which is that of the copy of
\* the ApplicationManager it holds.
InProgressState(a) == ops[inProgress[a]].st

\* statefulAppFactory.New refuses to make an object for a state other than
\* the registered one, unless the object cancels.
Mismatch(a) ==
    /\ inProgress[a] # None
    /\ InProgressState(a) # Cached(a).state
    /\ Cached(a).state \notin CancelingStates

Registered(a) ==
    /\ inProgress[a] # None
    /\ InProgressState(a) = Cached(a).state

cancelOperation(a) ==
    /\ inProgress' = [inProgress EXCEPT ![a] = None]
    /\ ops' = IF inProgress[a] = None THEN ops
              ELSE [ops EXCEPT ![inProgress[a]].cancelled = TRUE]

FreeOps == {o \in Op : ops[o] = FreeOp /\ \A w \in Worker : wk[w].obj # o}

\* A new operation for the object of state kind, registered under its name.
register(a, kind) ==
    \E o \in FreeOps :
      /\ o = CHOOSE x \in FreeOps : TRUE
      /\ inProgress' = [inProgress EXCEPT ![a] = o]
      /\ ops' = [ops EXCEPT ![o] = [FreeOp EXCEPT !.app = a, !.kind = kind, !.st = kind,
                                    !.body = "run", !.phase = "wait"]]

\* Nothing of an operation is left once its final status is written and its
\* goroutine has ended, or has nothing more to do in the cluster.
Settled(op) ==
    IF op.phase = "done" /\ (op.body = "end" \/ op.kind \notin {"installing", "uninstalling"})
    THEN FreeOp ELSE op

-----------------------------------------------------------------------------
(***************************************************************************)
(* A reconciler takes up an application: LoadStatefulApp with its checks   *)
(* of the Application resource and of the registry.                        *)
(***************************************************************************)
Requeue(w, a) == IF w = "controller" THEN queue \cup {a} ELSE queue

\* The reconciler returns, without an error or with one.
Return(w) == wk' = [wk EXCEPT ![w] = IdleWorker]

Become(w, a, pc, kind, obj, target) ==
    wk' = [wk EXCEPT ![w] = [pc |-> pc, app |-> a, kind |-> kind, obj |-> obj, target |-> target]]

\* Nothing is under way that changes the state of a soon.
AtRest(a) ==
    /\ a \notin queue /\ Len(versions[a]) = 1
    /\ \A w \in Worker : wk[w].app # a
    /\ \A o \in Op : ops[o].app = a => ops[o].phase = "wait" /\ ~ops[o].cancelled

\* Mutant of Take: the sweep, too, looks only at what is queued.
TakeQueued(w, a) ==
    /\ wk[w].pc = "idle"
    /\ a \in queue
    /\ queue' = queue \ {a}
    /\ UNCHANGED sweeps
    /\ Cached(a).state \in LoadedStates

\* The controller takes an application off its queue, the sweep any one; the
\* sweep comes every two minutes, so that it seldom meets one in motion.
Take(w, a) ==
    /\ wk[w].pc = "idle"
    /\ w = "controller" => a \in queue
    /\ queue' = IF w = "controller" THEN queue \ {a} ELSE queue
    /\ IF w = "controller" \/ AtRest(a) THEN UNCHANGED sweeps
       ELSE sweeps < MaxSweeps /\ sweeps' = sweeps + 1
    /\ Cached(a).state \in LoadedStates

\* Mutant of Remove: it finishes deletions instead of starting them.
RemoveDeleting(a) == app' = IF app[a] = "deleting" THEN [app EXCEPT ![a] = "absent"] ELSE app

Remove(a) == app' = IF app[a] = "present" THEN [app EXCEPT ![a] = "deleting"] ELSE app

\* NewPendingApp finds an Application: its namespace is deleted.
LeftOver(a) == Cached(a).state = "pending" /\ Exists(a)

LoadLeftOver(w, a) ==
    /\ Take(w, a)
    /\ LeftOver(a)
    /\ Remove(a)
    /\ UNCHANGED <<versions, wk, fresh, inProgress, ops, req, im, requests, faults>>

\* Mutant of Unexpected: NewRunningApp does not look for the Application.
UnexpectedUninstalled(a) == Cached(a).state = "uninstalled" /\ Exists(a)

\* NewRunningApp finds no Application, NewUninstalledApp finds one: both run
\* forceDeleteApp, of which the status update is still to come.
Unexpected(a) ==
    \/ Cached(a).state = "running" /\ ~Exists(a) /\ a \notin Middleware /\ ~Mismatch(a)
    \/ Cached(a).state = "uninstalled" /\ Exists(a)

LoadUnexpected(w, a) ==
    /\ Take(w, a)
    /\ Unexpected(a)
    /\ Remove(a)
    /\ Become(w, a, "write", Cached(a).state, None, "uninstalled")
    /\ UNCHANGED <<versions, fresh, inProgress, ops, req, im, requests, faults>>

\* ErrorUnknownInProgressApp captures the registered operation.
LoadMismatch(w, a) ==
    /\ Take(w, a)
    /\ Mismatch(a) /\ ~LeftOver(a) /\ Cached(a).state # "uninstalled"
    /\ Become(w, a, "cleanup", Cached(a).state, inProgress[a], NoState)
    /\ UNCHANGED <<versions, fresh, inProgress, ops, req, im, app, requests, faults>>

Returned(a) ==
    Registered(a) /\ ~LeftOver(a) /\ ~Unexpected(a) /\ Cached(a).state # "uninstalled"

\* The registered object comes back and is not overdue: its Exec does nothing.
LoadInProgress(w, a) ==
    /\ Take(w, a)
    /\ Returned(a) /\ ~ops[inProgress[a]].late
    /\ UNCHANGED <<versions, wk, fresh, inProgress, ops, req, im, app, requests, faults>>

\* A new object for the cached state, which is one of the given ones.
New(w, a, states) ==
    /\ Take(w, a)
    /\ Cached(a).state \in states
    /\ ~LeftOver(a) /\ ~Unexpected(a)
    /\ Cached(a).state # "uninstalled" => ~Mismatch(a) /\ ~Registered(a)

Late(a) == Cached(a).late /\ Cached(a).state \in TimedStates

\* States whose object is no operation, or suspends workloads once more.
IdleStates == DoNothingStates \cup SuspendAgainStates \cup {"running", "uninstalled"}

LoadIdle(w, a) ==
    /\ New(w, a, IdleStates)
    /\ UNCHANGED <<versions, wk, fresh, inProgress, ops, req, im, app, requests, faults>>

\* States whose Exec looks at the registry or at the resourceVersion again:
\* a step of its own, the others follow from the load at once.
LoadNew(w, a) ==
    /\ New(w, a, {"pending"} \cup WatchedStates) /\ ~Late(a)
    /\ Become(w, a, "exec", Cached(a).state, None, NoState)
    /\ fresh' = IF Len(versions[a]) = 1 THEN fresh \cup {w} ELSE fresh
    /\ UNCHANGED <<versions, inProgress, ops, req, im, app, requests, faults>>

\* Mutant of CleanUp: the mismatch is reported but not cleaned up.
CleanUpForgotten(w) ==
    /\ wk[w].pc = "cleanup"
    /\ queue' = Requeue(w, wk[w].app)
    /\ Return(w)
    /\ UNCHANGED <<versions, fresh, inProgress, ops, req, im, app, requests, faults, sweeps>>

\* CleanUp cancels the captured operation and deletes whatever is registered
\* under the name by now; the error requeues the request.
CleanUp(w) ==
    LET a == wk[w].app IN
    /\ wk[w].pc = "cleanup"
    /\ ops' = [ops EXCEPT ![wk[w].obj].cancelled = ops[wk[w].obj] # FreeOp]
    /\ inProgress' = [inProgress EXCEPT ![a] = None]
    /\ queue' = Requeue(w, a)
    /\ Return(w)
    /\ UNCHANGED <<versions, fresh, req, im, app, requests, faults, sweeps>>

-----------------------------------------------------------------------------
(***************************************************************************)
(* Exec and Cancel of the object a reconciler loaded.                      *)
(***************************************************************************)
Executes(w, kinds) == wk[w].pc = "exec" /\ wk[w].kind \in kinds

\* Mutant of Cancel: only new objects are asked whether they have timed out.
CancelOfNew(w, a) ==
    LET kind == Cached(a).state IN
    /\ New(w, a, TimedStates) /\ Late(a)
    /\ IF kind \in CancelOnTimeout THEN cancelOperation(a) ELSE UNCHANGED <<inProgress, ops>>
    /\ IF TimeoutState(kind) = NoState THEN UNCHANGED wk
       ELSE Become(w, a, "write", kind, None, TimeoutState(kind))
    /\ UNCHANGED <<versions, fresh, req, im, app, requests, faults>>

\* IsTimeout holds, of a new object or of the registered one: Cancel moves the
\* application to the next phase.  The Cancel of stopping does nothing.
Cancel(w, a) ==
    LET old == Returned(a) /\ ops[inProgress[a]].late
        kind == IF old THEN ops[inProgress[a]].kind ELSE Cached(a).state IN
    /\ Take(w, a)
    /\ old \/ (New(w, a, TimedStates) /\ Late(a))
    /\ IF kind \in CancelOnTimeout THEN cancelOperation(a) ELSE UNCHANGED <<inProgress, ops>>
    /\ IF TimeoutState(kind) = NoState THEN UNCHANGED wk
       ELSE Become(w, a, "write", kind, IF old THEN inProgress[a] ELSE None, TimeoutState(kind))
    /\ UNCHANGED <<versions, fresh, req, im, app, requests, faults>>

Downloads == {a \in App : Cached(a).state = "downloading"}

\* Mutant of ExecPending: the update does not check the resourceVersion.
ExecPendingUnlocked(w) ==
    LET a == wk[w].app IN
    /\ Executes(w, {"pending"})
    /\ IF Downloads = {}
       THEN UpdateAppMgrStatus(a, "downloading") /\ UNCHANGED queue
       ELSE queue' = Requeue(w, a) /\ fresh' = fresh \ {w} /\ UNCHANGED versions
    /\ Return(w)
    /\ UNCHANGED <<inProgress, ops, req, im, app, requests, faults, sweeps>>

\* PendingApp.Exec admits one download at a time as far as the cache tells,
\* and stores the new state with Update, which checks the resourceVersion.
ExecPending(w) ==
    LET a == wk[w].app IN
    /\ Executes(w, {"pending"})
    /\ IF Downloads = {} /\ w \in fresh
       THEN UpdateAppMgrStatus(a, "downloading") /\ UNCHANGED queue
       ELSE queue' = Requeue(w, a) /\ fresh' = fresh \ {w} /\ UNCHANGED versions
    /\ Return(w)
    /\ UNCHANGED <<inProgress, ops, req, im, app, requests, faults, sweeps>>

\* execAndWatch: an operation of the same state is left alone, one of another
\* state is replaced in the registry.  What Exec does before may fail, which is
\* only logged: the next sweep asks again.
ExecWatched(w) ==
    LET a == wk[w].app
        kind == wk[w].kind IN
    /\ Executes(w, WatchedStates)
    /\ \/ /\ IF inProgress[a] # None /\ InProgressState(a) = kind
             THEN UNCHANGED <<inProgress, ops>>
             ELSE register(a, kind)
          /\ UNCHANGED faults
       \/ UNCHANGED <<inProgress, ops>> /\ Fault
    /\ Return(w)
    /\ fresh' = fresh \ {w}
    /\ UNCHANGED <<versions, queue, req, im, app, requests, sweeps>>

\* The synchronous part of a polled operation: downloading creates the
\* ImageManager, installingCanceling cancels the installation and uninstalls.
ExecPolled(w, a) ==
    LET kind == Cached(a).state IN
    /\ New(w, a, PolledStates) /\ ~Late(a)
    /\ im' = IF kind = "downloading" THEN im \cup {a} ELSE im
    /\ IF kind = "installingCanceling" THEN cancelOperation(a) /\ Remove(a)
       ELSE UNCHANGED <<inProgress, ops, app>>
    /\ Become(w, a, "poll", kind, None, NoState)
    /\ UNCHANGED <<versions, fresh, req, requests, faults>>

\* The synchronous part fails: the failure is recorded.
ExecPolledFails(w, a) ==
    LET kind == Cached(a).state IN
    /\ New(w, a, PolledStates) /\ ~Late(a)
    /\ Fault
    /\ IF kind = "installingCanceling" THEN cancelOperation(a)
       ELSE UNCHANGED <<inProgress, ops>>
    /\ Become(w, a, "write", kind, None, ExecFailedState(kind))
    /\ UNCHANGED <<versions, fresh, req, im, app, requests>>

\* WaitAsync, waitForPolling: an operation that is still registered, whatever
\* its state, keeps the new one from being polled.
WaitAsync(w) ==
    LET a == wk[w].app IN
    /\ wk[w].pc = "poll"
    /\ IF inProgress[a] = None THEN register(a, wk[w].kind)
       ELSE UNCHANGED <<inProgress, ops>>
    /\ Return(w)
    /\ UNCHANGED <<versions, queue, fresh, req, im, app, requests, faults, sweeps>>

\* Exec of the other canceling states: cancel what is registered and go on to
\* the canceled state.  Without an ImageManager two of them return an error.
ExecCanceling(w, a) ==
    LET kind == Cached(a).state IN
    /\ New(w, a, CancelingStates \ PolledStates)
    /\ IF kind \in ImageCancelStates /\ a \notin im
       THEN Become(w, a, "retry", kind, None, NoState) /\ UNCHANGED <<inProgress, ops>>
       ELSE Become(w, a, "write", kind, None, CanceledState(kind)) /\ cancelOperation(a)
    /\ UNCHANGED <<versions, fresh, req, im, app, requests, faults>>

\* After an error the controller's request goes back to the queue.
Retry(w) ==
    /\ wk[w].pc = "retry"
    /\ queue' = Requeue(w, wk[w].app)
    /\ Return(w)
    /\ UNCHANGED <<versions, fresh, inProgress, ops, req, im, app, requests, faults, sweeps>>

\* SuspendingApp.Exec scales the workloads down; the result is recorded.
ExecStopping(w, a) ==
    /\ New(w, a, {"stopping"}) /\ ~Late(a)
    /\ \/ Become(w, a, "write", "stopping", None, "stopped") /\ UNCHANGED faults
       \/ Become(w, a, "write", "stopping", None, "stopFailed") /\ Fault
    /\ UNCHANGED <<versions, fresh, inProgress, ops, req, im, app, requests>>

\* InstallFailedApp.Exec deletes the namespace.
ExecInstallFailed(w, a) ==
    /\ New(w, a, {"installFailed"})
    /\ Remove(a)
    /\ UNCHANGED <<versions, wk, fresh, inProgress, ops, req, im, requests, faults>>

forceDeleteApp(w, a) ==
    /\ New(w, a, ForceDeleteStates)
    /\ Remove(a)
    /\ Become(w, a, "write", Cached(a).state, None, "uninstalled")
    /\ UNCHANGED <<versions, fresh, inProgress, ops, req, im, requests, faults>>

\* The Get of updateStatus overwrites the copy that the object itself holds:
\* from then on a registered object reports the state it read.
Reread(w) ==
    LET o == wk[w].obj
        a == wk[w].app IN
    ops' = IF o # None /\ inProgress[a] = o
           THEN [ops EXCEPT ![o].st = Cached(a).state, ![o].late = Cached(a).late]
           ELSE ops

Write(w) ==
    /\ wk[w].pc = "write"
    /\ updateStatus(wk[w].app, wk[w].target)
    /\ Reread(w)
    /\ Return(w)
    /\ UNCHANGED <<queue, inProgress, req, im, app, requests, faults, sweeps>>

\* The patch fails.  ApplyingEnvCancelingApp.Exec then tries to record that.
WriteFails(w) ==
    /\ wk[w].pc = "write"
    /\ Fault
    /\ Reread(w)
    /\ IF wk[w].kind = "applyingEnvCanceling" /\ wk[w].target = "stopping"
       THEN wk' = [wk EXCEPT ![w].target = "applyingEnvCancelFailed"] /\ UNCHANGED queue
       ELSE Return(w) /\ queue' = Requeue(w, wk[w].app)
    /\ UNCHANGED <<versions, fresh, inProgress, req, im, app, requests, sweeps>>

-----------------------------------------------------------------------------
(***************************************************************************)
(* The goroutines of an operation: its body, and the watcher or poller     *)
(* that removes it from the registry and writes its final state.           *)
(***************************************************************************)
StartUpKinds == {"installing", "upgrading", "applyingEnv"}

Running(o) == ops[o].phase # "free" /\ ops[o].body # "end"

\* Bodies before the start-up: "applied" when Helm has done its part.
BeforeStartUp == {"run", "applied"}

\* Helm installs the chart, once: the Application appears.  An upgrade first
\* creates its ImageManager.
Deploy(o) ==
    LET a == ops[o].app IN
    /\ ops[o].body = "run" /\ Running(o) /\ ~ops[o].cancelled
    /\ ops' = [ops EXCEPT ![o].body = "applied"]
    /\ \/ ops[o].kind = "installing" /\ app[a] = "absent"
          /\ app' = [app EXCEPT ![a] = "present"] /\ UNCHANGED im
       \/ ops[o].kind = "upgrading" /\ a \notin im
          /\ im' = im \cup {a} /\ UNCHANGED app
    /\ UNCHANGED <<versions, queue, wk, fresh, inProgress, req, requests, faults, sweeps>>

\* WaitForStartUp sees the pods run.  It then writes the state initializing
\* itself, while the operation is still registered.  A middleware is not
\* waited for: its goroutine records initializing and waits for the launch.
WaitForStartUp(o) ==
    LET a == ops[o].app IN
    /\ Running(o) /\ ops[o].body \in BeforeStartUp /\ ~ops[o].cancelled
    /\ ops[o].kind \in StartUpKinds
    /\ app[a] = "present"
    /\ ops[o].kind = "upgrading" => a \in im
    /\ IF a \in Middleware
       THEN /\ ops[o].kind = "installing"
            /\ ops' = [ops EXCEPT ![o].body = "started", ![o].fin = "initializing"]
            /\ UNCHANGED <<versions, fresh>>
       ELSE /\ ops' = [ops EXCEPT ![o].body = "started"]
            /\ UpdateAppMgrStatus(a, "initializing")
    /\ UNCHANGED <<queue, wk, inProgress, req, im, app, requests, faults, sweeps>>

\* Mutant of Finals: the installation of a middleware may end like that of an
\* application.
FinalsOfApp(o) == Outcomes(ops[o].kind, FALSE, ops[o].cancelled)

\* Mutant of Finals: a cancelled download, too, records how it ended.
FinalsOfCanceled(o) ==
    IF ops[o].kind = "downloading" /\ ops[o].cancelled THEN {"downloadingCanceled"}
    ELSE Outcomes(ops[o].kind, ops[o].app \in Middleware, ops[o].cancelled)

\* What the goroutine leaves in `finally` when it ends now.
Finals(o) ==
    LET mw == ops[o].app \in Middleware
        kind == ops[o].kind
        all == Outcomes(kind, mw, ops[o].cancelled) IN
    CASE ops[o].body = "started" /\ mw ->
           {"running"} \cup (IF ops[o].cancelled THEN {"installingCanceling"} ELSE {})
      [] ops[o].body = "started" /\ ~mw -> {"initializing"}
      [] ops[o].body # "started" /\ mw /\ kind = "installing" -> {"installFailed"}
      [] ops[o].body # "started" /\ ~mw /\ kind \in StartUpKinds /\ ~ops[o].cancelled ->
           all \ {"initializing"}
      [] ops[o].body # "started" /\ kind \in {"uninstalling", "installingCanceling"}
         /\ Exists(ops[o].app) -> all \ {"uninstalled", "installingCanceled"}
      [] OTHER -> all

\* A failed or cancelled installation is rolled back.
RollsBack(o, fin) ==
    /\ ops[o].kind = "installing" /\ ops[o].body \in BeforeStartUp
    /\ fin \in {"installFailed", "initializing"}

\* The body ends; `defer cancel()` ends its context.
BodyEnd(o) ==
    /\ Running(o)
    /\ \E fin \in Finals(o) :
         /\ ops' = [ops EXCEPT ![o] = Settled([@ EXCEPT !.body = "end", !.cancelled = TRUE,
                                                        !.fin = fin])]
         /\ IF RollsBack(o, fin) THEN Remove(ops[o].app) ELSE UNCHANGED app
    /\ UNCHANGED <<versions, queue, wk, fresh, inProgress, req, im, requests, faults, sweeps>>

\* UninstallingApp.exec runs the Helm uninstall, once.
Uninstall(o) ==
    /\ ops[o].body = "run" /\ Running(o) /\ ops[o].kind = "uninstalling"
    /\ app[ops[o].app] = "present"
    /\ ops' = [ops EXCEPT ![o].body = "applied"]
    /\ Remove(ops[o].app)
    /\ UNCHANGED <<versions, queue, wk, fresh, inProgress, req, im, requests, faults, sweeps>>

\* Mutant of Release: a poller whose context has ended leaves its entry.
ReleaseKeepsEntry(o) ==
    /\ ops[o].phase = "wait"
    /\ IF ops[o].kind \in PolledStates THEN ops[o].body = "end" ELSE ops[o].cancelled
    /\ inProgress' = IF ops[o].kind \in PolledStates THEN inProgress
                     ELSE [inProgress EXCEPT ![ops[o].app] = None]
    /\ ops' = [ops EXCEPT ![o].phase = "released"]
    /\ UNCHANGED <<versions, queue, wk, fresh, req, im, app, requests, faults, sweeps>>

\* The watcher wakes up when the context has ended, the poller when poll has
\* returned: the registry entry of that name goes first ...
Release(o) ==
    /\ ops[o].phase = "wait"
    /\ IF ops[o].kind \in PolledStates THEN ops[o].body = "end" ELSE ops[o].cancelled
    /\ inProgress' = [inProgress EXCEPT ![ops[o].app] = None]
    /\ ops' = [ops EXCEPT ![o].phase = "released"]
    /\ UNCHANGED <<versions, queue, wk, fresh, req, im, app, requests, faults, sweeps>>

\* ... and Finally writes the state that the goroutine has left, if any.
Finally(o) ==
    /\ ops[o].phase = "released"
    /\ ops' = [ops EXCEPT ![o] = Settled([@ EXCEPT !.phase = "done"])]
    /\ IF ops[o].fin = NoState THEN UNCHANGED <<versions, fresh>>
       ELSE updateStatus(ops[o].app, ops[o].fin)
    /\ UNCHANGED <<queue, wk, inProgress, req, im, app, requests, faults, sweeps>>

\* A failure of that write is only logged.
FinallyFails(o) ==
    /\ ops[o].phase = "released" /\ ops[o].fin # NoState
    /\ Fault
    /\ ops' = [ops EXCEPT ![o] = Settled([@ EXCEPT !.phase = "done"])]
    /\ UNCHANGED <<versions, queue, wk, fresh, inProgress, req, im, app, requests, sweeps>>

-----------------------------------------------------------------------------
(***************************************************************************)
(* The API handlers.  The check and the status update are two steps.       *)
(***************************************************************************)
\* The state that the handler of op checks: the ones that store the accepted
\* operation with a locked Update get past it only with the latest version.
Checked(a, op) ==
    IF op \in {"upgrade", "applyEnv"} THEN Cached(a).state ELSE Stored(a).state

Accept(h, op, a) ==
    /\ requests < MaxRequests
    /\ requests' = requests + 1
    /\ req[h] = NoRequest
    /\ op \in LockedOps => Len(versions[a]) = 1
    /\ IsOperationAllowed(Checked(a, op), op)
    /\ req' = [req EXCEPT ![h] = [app |-> a, target |-> RequestedState(op, Checked(a, op))]]
    /\ fresh' = {w \in fresh : wk[w].app # a}
    /\ UNCHANGED <<versions, queue, wk, inProgress, ops, im, app, faults, sweeps>>

Commit(h) ==
    /\ req[h] # NoRequest
    /\ UpdateAppMgrStatus(req[h].app, req[h].target)
    /\ req' = [req EXCEPT ![h] = NoRequest]
    /\ UNCHANGED <<queue, wk, inProgress, ops, im, app, requests, faults, sweeps>>

HandlerFails(h) ==
    /\ req[h] # NoRequest
    /\ Fault
    /\ req' = [req EXCEPT ![h] = NoRequest]
    /\ UNCHANGED <<versions, queue, wk, fresh, inProgress, ops, im, app, requests, sweeps>>

-----------------------------------------------------------------------------
(***************************************************************************)
(* The cluster: the informer, time, namespaces, and the process itself.    *)
(***************************************************************************)
\* The cache advances by one version; the event filter lets the update
\* through only when OpGeneration grew.  Generations count from the cached
\* version: nothing depends on more than their differences.
Deliver(a) ==
    LET v == versions[a] IN
    /\ Len(v) > 1
    /\ versions' = [versions EXCEPT ![a] =
                      [i \in 1 .. Len(v) - 1 |-> [v[i + 1] EXCEPT !.gen = @ - v[2].gen]]]
    /\ queue' = IF v[2].gen > v[1].gen THEN queue \cup {a} ELSE queue
    /\ UNCHANGED <<wk, fresh, inProgress, ops, req, im, app, requests, faults, sweeps>>

\* The time to live of the present state passes, for every copy of it.
Overdue(a) ==
    /\ Stored(a).state \in TimeLimited
    /\ ~Stored(a).late \/ \E o \in Op : ops[o].app = a /\ ~ops[o].late
    /\ versions' = [versions EXCEPT ![a] =
                      [i \in DOMAIN @ |-> [@[i] EXCEPT !.late = TRUE]]]
    /\ ops' = [o \in Op |-> IF ops[o].app = a THEN [ops[o] EXCEPT !.late = TRUE] ELSE ops[o]]
    /\ UNCHANGED <<queue, wk, fresh, inProgress, req, im, app, requests, faults, sweeps>>

\* A namespace that is being deleted goes away, with the Application in it.
NamespaceGone(a) ==
    /\ app[a] = "deleting"
    /\ app' = [app EXCEPT ![a] = "absent"]
    /\ UNCHANGED <<versions, queue, wk, fresh, inProgress, ops, req, im, requests, faults, sweeps>>

\* Someone deletes the namespace behind the controller's back.
NamespaceLost(a) ==
    /\ app[a] = "present"
    /\ Fault
    /\ app' = [app EXCEPT ![a] = "deleting"]
    /\ UNCHANGED <<versions, queue, wk, fresh, inProgress, ops, req, im, requests, sweeps>>

\* The process dies and starts again: only what the API server holds is left.
\* The informer's first list makes a create event of every object.
Crash ==
    /\ Fault
    /\ versions' = [a \in App |-> <<[Stored(a) EXCEPT !.gen = 0]>>]
    /\ queue' = {a \in App : Stored(a).state # NoState}
    /\ wk' = [w \in Worker |-> IdleWorker]
    /\ fresh' = {}
    /\ inProgress' = [a \in App |-> None]
    /\ ops' = [o \in Op |-> FreeOp]
    /\ req' = [h \in Handler |-> NoRequest]
    /\ UNCHANGED <<im, app, requests, sweeps>>

-----------------------------------------------------------------------------
\* A reconciler takes up an application: the load and, for most states, what
\* Exec or Cancel does before it writes the status.
Load(w, a) ==
    \/ LoadLeftOver(w, a)
    \/ LoadUnexpected(w, a)
    \/ LoadMismatch(w, a)
    \/ LoadInProgress(w, a)
    \/ LoadIdle(w, a)
    \/ LoadNew(w, a)
    \/ Cancel(w, a)
    \/ ExecPolled(w, a)
    \/ ExecCanceling(w, a)
    \/ ExecStopping(w, a)
    \/ ExecInstallFailed(w, a)
    \/ forceDeleteApp(w, a)

\* ... and the rest of the reconciliation.
Step(w) ==
    \/ CleanUp(w)
    \/ ExecPending(w)
    \/ ExecWatched(w)
    \/ WaitAsync(w)
    \/ Retry(w)
    \/ Write(w)

OpNext(o) ==
    \/ Deploy(o)
    \/ WaitForStartUp(o)
    \/ Uninstall(o)
    \/ BodyEnd(o)
    \/ Release(o)
    \/ Finally(o)
    \/ FinallyFails(o)

HandlerNext(h) ==
    \/ \E op \in UserOps, a \in App : Accept(h, op, a)
    \/ Commit(h)
    \/ HandlerFails(h)

ClusterNext(a) ==
    \/ Deliver(a)
    \/ Overdue(a)
    \/ NamespaceGone(a)
    \/ NamespaceLost(a)

Next ==
    \/ \E w \in Worker, a \in App : Load(w, a) \/ ExecPolledFails(w, a)
    \/ \E w \in Worker : Step(w) \/ WriteFails(w)
    \/ \E o \in Op : OpNext(o)
    \/ \E h \in Handler : HandlerNext(h)
    \/ \E a \in App : ClusterNext(a)
    \/ Crash

Spec == Init /\ [][Next]_vars

\* The scheduling that the code guarantees: both reconcilers keep running, the
\* informer delivers, time passes, watchers and pollers go on once they are
\* woken up, handlers finish, namespaces that are being deleted go away, and a
\* goroutine ends once its context has been cancelled.  Nothing makes users
\* ask, calls fail, or a goroutine with a live context end.
Fairness ==
    /\ \A w \in Worker : WF_vars(Step(w))
    /\ \A a \in App : WF_vars(Load("controller", a)) /\ WF_vars(Load("sweeper", a))
    /\ \A o \in Op : /\ WF_vars(ops[o].cancelled /\ BodyEnd(o))
                     /\ WF_vars(Release(o))
                     /\ WF_vars(Finally(o))
    /\ \A h \in Handler : WF_vars(Commit(h))
    /\ \A a \in App : WF_vars(Deliver(a)) /\ WF_vars(Overdue(a)) /\ WF_vars(NamespaceGone(a))

FairSpec == Spec /\ Fairness

-----------------------------------------------------------------------------
(***************************************************************************)
(* Properties.                                                             *)
(***************************************************************************)
WorkerPC == {"idle", "cleanup", "exec", "poll", "retry", "write"}

\* Every variable has its type, and the cache is at most MaxLag versions
\* behind the API server.
TypeOK ==
    /\ versions \in [App -> Seq(Version)]
    /\ \A a \in App : Len(versions[a]) \in 1 .. MaxLag + 1
    /\ queue \subseteq App
    /\ wk \in [Worker -> [pc : WorkerPC, app : App \cup {None}, kind : State \cup {NoState},
                          obj : Op \cup {None}, target : State \cup {NoState}]]
    /\ \A w \in Worker : wk[w].pc # "idle" => wk[w].app \in App
    /\ fresh \subseteq Worker
    /\ inProgress \in [App -> Op \cup {None}]
    /\ ops \in [Op -> [app : App \cup {None}, kind : State \cup {NoState},
                       st : State \cup {NoState}, late : BOOLEAN,
                       body : {"run", "applied", "started", "end"}, cancelled : BOOLEAN,
                       fin : State \cup {NoState},
                       phase : {"free", "wait", "released", "done"}]]
    /\ \A o \in Op : ops[o].phase # "free" => ops[o].app \in App
    /\ req \in [Handler -> [app : App \cup {None}, target : State \cup {NoState}]]
    /\ \A h \in Handler : req[h] # NoRequest => req[h].app \in App
    /\ im \subseteq App
    /\ app \in [App -> {"absent", "present", "deleting"}]
    /\ requests \in 0 .. MaxRequests
    /\ faults \in 0 .. MaxFaults
    /\ sweeps \in 0 .. MaxSweeps

\* No ApplicationManager enters a state that is impossible, nor one that
\* LoadStatefulApp has no case for: every state it can be in is reconciled.
NoImpossibleState ==
    \A a \in App : Stored(a).state \in PossibleStates

\* A registered operation is of the application it is registered under, and
\* its watcher or poller has yet to remove it: no entry stays for ever because
\* the goroutine that would delete it is gone.
RegistryHasReleaser ==
    \A a \in App : inProgress[a] # None =>
        ops[inProgress[a]].app = a /\ ops[inProgress[a]].phase = "wait"

\* Downloading begins only in pending: the resourceVersion that PendingApp.Exec
\* sends makes its Update fail when a cancel, or the other reconciler, was
\* faster.
DownloadOnlyFromPending ==
    [][\A a \in App : Stored(a)'.state = "downloading" =>
         Stored(a).state \in {"downloading", "pending"}]_vars

\* Liveness is claimed as long as the bound on operations does not bind.
SlotsSuffice == []<>(FreeOps # {})

\* A registered operation whose object has been overwritten by a later version:
\* the Cancel of a timed-out operation re-reads the ApplicationManager into it.
Aliased(a) == inProgress[a] # None /\ InProgressState(a) # ops[inProgress[a]].kind

\* The three ways in which an operation stays unfinished for ever: a cancel
\* that needs an ImageManager which was never created, a stop that is overdue,
\* whose Cancel does nothing, and an aliased registry entry.
Hung(a) ==
    \/ Stored(a).state \in ImageCancelStates /\ a \notin im
    \/ Stored(a).state = "stopping" /\ Stored(a).late
    \/ Aliased(a)

\* Once users stop asking, every application comes to rest in a state in which
\* nothing is owed, unless it hangs in one of the three ways above: timeouts,
\* cancellations, dropped events and lost final writes are all recovered from,
\* in the end by the sweep of ReconcileAll.
Settles ==
    SlotsSuffice => \A a \in App : <>[](Stored(a).state \notin OperatingStates \/ Hung(a))

\* No entry stays in the registry for ever: the operation ends, is cancelled by
\* the timeout of its state, or is cleaned up as a mismatch.  The exception is
\* uninstalled, whose load is the only one that does not look at the registry.
RegistryDrains ==
    SlotsSuffice => \A a \in App :
        []<>(inProgress[a] = None \/ Hung(a) \/ Stored(a).state = "uninstalled")

\* A running application whose Application resource is gone does not stay
\* running: NewRunningApp notices and removes the rest of it.
RunningIsDeployed ==
    \A a \in App \ Middleware :
        (Stored(a).state = "running" /\ ~Exists(a)) ~> (Stored(a).state # "running" \/ Exists(a))

\* What an uninstalled application has left is removed: NewUninstalledApp
\* removes an Application that is still, or again, there.
UninstalledIsGone ==
    \A a \in App : (Stored(a).state = "uninstalled") ~> (Stored(a).state # "uninstalled" \/ ~Exists(a))

-----------------------------------------------------------------------------
(***************************************************************************)
(* What comments and tables in the code say, and the code does not keep.   *)
(***************************************************************************)
\* "override to avoid duplicate exec": the operation of a state is never carried
\* out twice at the same time for one application.
NoDuplicateExec ==
    \A o, p \in Op :
      /\ o # p /\ ops[o].app = ops[p].app /\ ops[o].kind = ops[p].kind
      /\ ops[o].phase = "wait" /\ ops[p].phase = "wait"
      => ops[o].cancelled \/ ops[p].cancelled

\* StateTransitions: downloadingCanceling is followed by downloadingCanceled or
\* downloadingCancelFailed, so that it does not last.
DownloadCancelEnds ==
    \A a \in App : Stored(a).state = "downloadingCanceling"
                   ~> Stored(a).state # "downloadingCanceling"

\* "initializing state cancel directly turn to stopping".
InitializingCancelStops ==
    [][\A a \in App : Stored(a).state = "initializingCanceling"
                      => Stored(a)'.state \in {"initializingCanceling", "stopping"}]_vars
=============================================================================
