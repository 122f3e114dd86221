-------------------------- MODULE HelmReleaseProofs --------------------------
(***************************************************************************)
(* What HelmRelease guarantees for any number of requests, failures and    *)
(* restarts: its types, that what runs can be upgraded, that what was      *)
(* uninstalled is gone or going, and that nobody takes another owner's     *)
(* shared chart away.                                                      *)
(***************************************************************************)
EXTENDS HelmRelease, TLAPS

Todos == {<<>>, <<"main">>, <<"shared", "main">>}

Tasks == [kind : Kinds, step : Steps, alive : BOOLEAN, share : BOOLEAN, todo : Todos]

\* The states that the operations of this module lead to.
Reached ==
    {"uninstalled", "pending", "installing", "initializing", "running", "stopping", "stopped",
     "upgrading", "applyingEnv", "uninstalling", "installingCanceling", "upgradingCanceling",
     "applyingEnvCanceling", "installingCancelFailed", "installingCanceled", "installFailed",
     "upgradeFailed", "applyEnvFailed", "uninstallFailed"}

HelmKinds == {"installing", "upgrading", "applyingEnv"}

-----------------------------------------------------------------------------
(***************************************************************************)
(* The inductive invariant, part by part.                                  *)
(***************************************************************************)
OwnerInv ==
    /\ am \in Reached
    /\ multi \in BOOLEAN /\ admin \in BOOLEAN /\ all \in BOOLEAN
    /\ requests \in 0 .. MaxRequests /\ overtaken \in BOOLEAN /\ events \in 0 .. MaxEvents

ClusterInv ==
    /\ rel \in [Chart -> Release] /\ work \in [Chart -> BOOLEAN] /\ ns \in [Chart -> Phase]
    /\ installer \in {"", "owner", "other"} /\ sharedBy \in {"", "owner", "other", "raced"}
    /\ labelled \in BOOLEAN /\ up \in BOOLEAN
    /\ late \subseteq Chart /\ torn \subseteq Chart /\ orphan \subseteq Chart

\* Where an operation of a kind can be, and what is left to do there.
PlaceOf(kind, step, todo) ==
    /\ step = "status" => kind \in {"upgrading", "applyingEnv"}
    /\ step \in {"prepare", "provider", "share"} => kind \in {"installing", "upgrading"}
    /\ step \in {"helm", "begin", "helming", "labels", "wait"} => kind \in HelmKinds
    /\ step \in {"pvc", "release", "namespace"} =>
         kind \in {"installing", "uninstalling", "installingCanceling", "forceDelete"}
    /\ step = "gone" => kind \in {"uninstalling", "installingCanceling"}
    /\ kind = "installing" /\ step \in {"prepare", "share"} => todo # <<>>
    /\ step \in {"begin", "helming", "pvc", "release", "namespace"} => todo # <<>>

Place(t) == (t.step = "idle" => t = Idle) /\ PlaceOf(t.kind, t.step, t.todo)

TasksInv ==
    /\ go \in [Actor -> Tasks]
    /\ \A x \in Actor : Place(go[x])
    /\ go["op"].kind \in HelmKinds \cup {"none", "uninstalling"}
    /\ go["reconciler"].kind \in {"none", "installingCanceling", "forceDelete"}
    /\ go["reconciler"].alive

TypeInv == OwnerInv /\ ClusterInv /\ TasksInv

\* A namespace that is gone has nothing in it.
AbsentInv == \A c \in Chart : ns[c] = "absent" => rel[c] = "none" /\ ~work[c]

HelmingMain == At("op", "helming") /\ Head(Task.todo) = "main"

\* A release that is neither deployed nor gone is one that helm is at, or was.
TornInv == rel["main"] \in {"none", "deployed"} \/ "main" \in torn \/ HelmingMain

\* The states the ApplicationManager can be in while an operation has its context.
AliveStates(kind) ==
    CASE kind = "installing"  -> {"installing", "installingCanceling"}
      [] kind = "upgrading"   -> {"upgrading", "upgradingCanceling"}
      [] kind = "applyingEnv" -> {"applyingEnv", "applyingEnvCanceling"}
      [] OTHER                -> {"uninstalling"}

AliveInv == Task # Idle /\ Task.alive => am \in AliveStates(Task.kind)

\* A reconciler that nobody has overtaken removes what nobody works at.
ReconcilerInv ==
    /\ go["reconciler"].kind = "forceDelete" => am \in ForceDeleteStates
    /\ go["reconciler"].kind = "installingCanceling" =>
         am = "installingCanceling" /\ (Task = Idle \/ ~Task.alive)

GoneStates == {"uninstalled", "installingCanceled"}

\* What is gone stays so, unless helm begins after the cancel.
GoneInv ==
    am \in GoneStates =>
        /\ "main" \in orphan \/ ns["main"] # "active"
        /\ At("op", "release") => ns["main"] # "active"

InstalledStates ==
    {"initializing", "running", "stopping", "stopped", "upgrading", "applyingEnv",
     "upgradingCanceling", "applyingEnvCanceling", "upgradeFailed", "applyEnvFailed"}

\* What is installed has a release, and no operation that would remove it.
InstalledInv ==
    am \in InstalledStates =>
        /\ ns["main"] = "active" => rel["main"] # "none"
        /\ Task.kind \in {"none", "upgrading", "applyingEnv"}

\* An installation that is through with helm has a release.
Through == Task.step \in {"labels", "provider", "wait"} \/ (At("op", "helm") /\ Task.todo = <<>>)

ThroughInv ==
    Task.kind = "installing" /\ Task.alive /\ ns["main"] = "active" /\ Through => rel["main"] # "none"

StateInv ==
    ~overtaken => AliveInv /\ ReconcilerInv /\ GoneInv /\ InstalledInv /\ ThroughInv

\* Another owner's shared chart is installed, and who is about to remove it may.
SharedInv ==
    sharedBy = "other" =>
        /\ rel["shared"] # "none"
        /\ ~Installing("op")
        /\ Removing("op") => UninstallsAll
        /\ Removing("reconciler") => installer = "owner"

IInv == TypeInv /\ AbsentInv /\ TornInv /\ StateInv /\ SharedInv

-----------------------------------------------------------------------------
(***************************************************************************)
(* Lemmas about the operators of the module.                               *)
(***************************************************************************)
\* What a request leads to: the table of the operations, for these states.
LEMMA RequestTargets ==
    ASSUME NEW s \in Reached, NEW op \in {"install", "upgrade", "applyEnv", "uninstall", "cancel"},
           IsOperationAllowed(s, op), s \notin {"pending", "initializing"},
           NEW t, t = RequestedState(op, s)
    PROVE  \/ s \in {"uninstalled", "installingCanceled", "installFailed"} /\ t = "pending"
           \/ s \in {"installing", "installingCancelFailed"} /\ t = "installingCanceling"
           \/ s = "upgrading" /\ t = "upgradingCanceling"
           \/ s = "applyingEnv" /\ t = "applyingEnvCanceling"
           \/ s \in {"running", "stopped", "upgradeFailed"} /\ t = "upgrading"
           \/ s \in {"running", "stopped", "applyEnvFailed"} /\ t = "applyingEnv"
           \/ /\ s \in {"running", "stopped", "upgradeFailed", "applyEnvFailed", "uninstallFailed",
                         "installingCancelFailed"}
              /\ t = "uninstalling"
  <1>1. \/ s \in {"uninstalled", "installingCanceled", "installFailed"} /\ op = "install"
        \/ s \in {"installing", "installingCancelFailed", "upgrading", "applyingEnv"} /\ op = "cancel"
        \/ s \in {"running", "stopped", "upgradeFailed"} /\ op = "upgrade"
        \/ s \in {"running", "stopped", "applyEnvFailed"} /\ op = "applyEnv"
        \/ /\ s \in {"running", "stopped", "upgradeFailed", "applyEnvFailed", "uninstallFailed",
                      "installingCancelFailed"}
           /\ op = "uninstall"
    BY DEF Reached, IsOperationAllowed, OperationAllowedInState, InstallableStates, CancelableStates, NoState
  <1> QED
    BY <1>1 DEF RequestedState, CancelState

\* What an actor's task becomes when it goes on to another step.
Moves(x, s, td, sh) ==
    /\ go' \in [Actor -> Tasks]
    /\ \A y \in Actor \ {x} : go'[y] = go[y]
    /\ go'[x].kind = go[x].kind /\ go'[x].alive = go[x].alive
    /\ go'[x].step = s /\ go'[x].todo = td /\ go'[x].share = sh

\* The task ends.
Ends(x) ==
    /\ go' \in [Actor -> Tasks]
    /\ \A y \in Actor \ {x} : go'[y] = go[y]
    /\ go'[x] = Idle

\* The range of a task and of its fields.
LEMMA TasksRange ==
    ASSUME TasksInv, NEW x \in Actor
    PROVE  /\ go[x] \in Tasks /\ go[x].kind \in Kinds /\ go[x].step \in Steps
           /\ go[x].alive \in BOOLEAN /\ go[x].share \in BOOLEAN /\ go[x].todo \in Todos
           /\ Idle \in Tasks /\ Place(go[x])
  BY DEF TasksInv, Tasks, Idle, Kinds, Steps, Todos

\* A task goes on to a step, with what is left to do or what it shares changed.
LEMMA GotoMoves ==
    ASSUME TasksInv, NEW x \in Actor, NEW s \in Steps, Goto(x, s)
    PROVE  Moves(x, s, go[x].todo, go[x].share)
  <1>1. go \in [Actor -> Tasks]
    BY DEF TasksInv
  <1> QED
    BY <1>1 DEF Goto, Moves, Tasks

\* The task goes on with another list of charts.
LEMMA TodoMoves ==
    ASSUME TasksInv, NEW x \in Actor, NEW s \in Steps, NEW td \in Todos,
           go' = [go EXCEPT ![x].step = s, ![x].todo = td]
    PROVE  Moves(x, s, td, go[x].share)
  <1>1. go \in [Actor -> Tasks]
    BY DEF TasksInv
  <1> QED
    BY <1>1 DEF Moves, Tasks

\* The task goes on, having begun to install the shared chart or not.
LEMMA ShareMoves ==
    ASSUME TasksInv, NEW x \in Actor, NEW s \in Steps, NEW sh \in BOOLEAN,
           go' = [go EXCEPT ![x].step = s, ![x].share = sh]
    PROVE  Moves(x, s, go[x].todo, sh)
  <1>1. go \in [Actor -> Tasks]
    BY DEF TasksInv
  <1> QED
    BY <1>1 DEF Moves, Tasks

\* A task that becomes idle has ended, and the other actor's is left alone.
LEMMA IdleEnds ==
    ASSUME TasksInv, NEW x \in Actor, go' = [go EXCEPT ![x] = Idle]
    PROVE  Ends(x)
  <1>1. go \in [Actor -> Tasks] /\ Idle \in Tasks
    BY TasksRange DEF TasksInv
  <1> QED
    BY <1>1 DEF Ends

\* A cancel ends the context of the operation, if there is one.
Cancels ==
    /\ go'["op"] \in Tasks
    /\ go'["op"].kind = Task.kind /\ go'["op"].step = Task.step
    /\ go'["op"].share = Task.share /\ go'["op"].todo = Task.todo
    /\ go'["op"].alive = (Task = Idle)

\* statefulAppFactory.cancelOperation: of the operation only the context ends.
LEMMA CancelledCancels ==
    ASSUME TasksInv
    PROVE  /\ go' = Cancelled => go' \in [Actor -> Tasks] /\ Cancels /\ go'["reconciler"] = go["reconciler"]
           /\ \A t \in Tasks : go' = [Cancelled EXCEPT !["reconciler"] = t] =>
                go' \in [Actor -> Tasks] /\ Cancels /\ go'["reconciler"] = t
  <1>1. go \in [Actor -> Tasks]
    BY DEF TasksInv
  <1>2. Cancelled \in [Actor -> Tasks] /\ Cancelled["reconciler"] = go["reconciler"]
    BY <1>1 DEF Cancelled, Tasks, Actor
  <1>3. /\ Cancelled["op"].kind = Task.kind /\ Cancelled["op"].step = Task.step
        /\ Cancelled["op"].share = Task.share /\ Cancelled["op"].todo = Task.todo
        /\ Cancelled["op"].alive = (Task = Idle)
    BY <1>1 DEF Cancelled, Tasks, Actor, Task
  <1> QED
    BY <1>2, <1>3 DEF Cancels, Actor

\* A task that goes on to a step where its kind can be keeps the tasks well-formed.
LEMMA MovesInv ==
    ASSUME TasksInv, NEW x \in Actor, NEW s \in Steps \ {"idle"}, NEW td \in Todos, NEW sh \in BOOLEAN,
           Moves(x, s, td, sh), PlaceOf(go[x].kind, s, td)
    PROVE  TasksInv'
  <1>1. \A y \in Actor : Place(go'[y])
    BY DEF TasksInv, Moves, Place
  <1>2. go'["op"].kind = Task.kind /\ go'["reconciler"].kind = go["reconciler"].kind
    BY DEF Moves, Actor, Task
  <1>3. go'["reconciler"].alive = go["reconciler"].alive
    BY DEF Moves, Actor
  <1> QED
    BY <1>1, <1>2, <1>3 DEF TasksInv, Moves, Task

\* To be idle is a place for any kind.
LEMMA IdlePlace == Place(Idle)
  BY DEF Place, PlaceOf, Idle

\* A task that ends keeps the tasks well-formed.
LEMMA EndsInv ==
    ASSUME TasksInv, NEW x \in Actor, Ends(x)
    PROVE  TasksInv'
  <1>1. \A y \in Actor : Place(go'[y])
    BY IdlePlace DEF TasksInv, Ends
  <1>2. /\ go'["op"].kind \in {Task.kind, "none"}
        /\ go'["reconciler"].kind \in {go["reconciler"].kind, "none"}
    BY DEF Ends, Actor, Task, Idle
  <1>3. go'["reconciler"].alive
    BY DEF Ends, Actor, TasksInv, Idle
  <1> QED
    BY <1>1, <1>2, <1>3 DEF TasksInv, Ends, Task

\* A cancel, with what the reconciler does then, keeps the tasks well-formed.
LEMMA CancelsInv ==
    ASSUME TasksInv, Cancels, go' \in [Actor -> Tasks],
           go'["reconciler"].kind \in {"none", "installingCanceling", "forceDelete"},
           go'["reconciler"].alive, Place(go'["reconciler"])
    PROVE  TasksInv'
  <1>1. PlaceOf(go'["op"].kind, go'["op"].step, go'["op"].todo)
    BY DEF Cancels, TasksInv, Place, Task, Actor
  <1>2. go'["op"].step = "idle" => go'["op"] = Idle
    <2>1. SUFFICES ASSUME go'["op"].step = "idle"
                   PROVE  go'["op"] = Idle
      OBVIOUS
    <2>2. Task = Idle
      BY <2>1 DEF Cancels, TasksInv, Place, Task, Actor
    <2> QED
      BY <2>2 DEF Cancels, Tasks, Idle
  <1> QED
    BY <1>1, <1>2 DEF TasksInv, Cancels, Task, Place, Actor


-----------------------------------------------------------------------------
(***************************************************************************)
(* What the steps of the operation do to it, and to the state.             *)
(***************************************************************************)
GoesOn(s, td, sh) == Moves("op", s, td, sh) /\ UNCHANGED am

EndsWith(state) == Ends("op") /\ am' = IF Task.alive THEN state ELSE am

\* An installation that fails cleans up, the other operations end.
FailsOnce ==
    \/ Task.kind = "installing" /\ GoesOn("pvc", Removed(Task.share), Task.share)
    \/ Task.kind \in {"upgrading", "applyingEnv"} /\ EndsWith(Failed(Task.kind))

\* The range of the task of the operation.
LEMMA TaskRange ==
    ASSUME TasksInv
    PROVE  /\ Task \in Tasks /\ Task.kind \in HelmKinds \cup {"none", "uninstalling"}
           /\ Task.step \in Steps /\ Task.alive \in BOOLEAN /\ Task.share \in BOOLEAN /\ Task.todo \in Todos
           /\ (Task.step = "idle" => Task = Idle) /\ PlaceOf(Task.kind, Task.step, Task.todo)
           /\ Task = go["op"] /\ "op" \in Actor /\ "reconciler" \in Actor
  <1>1. "op" \in Actor /\ "reconciler" \in Actor
    BY DEF Actor
  <1> QED
    BY <1>1, TasksRange DEF Task, TasksInv, Place

\* What UninstallAll or Uninstall removes is never nothing.
LEMMA RemovedTodos == \A b \in BOOLEAN : multi \in BOOLEAN => Removed(b) \in Todos \ {<<>>}
  BY DEF Removed, Todos

\* The shared chart comes first, and the chart of the application last.
LEMMA TailTodos ==
    ASSUME NEW td \in Todos, td # <<>>
    PROVE  /\ Head(td) \in Chart /\ Tail(td) \in Todos
           /\ Head(td) = "shared" <=> td = <<"shared", "main">>
           /\ td = <<"shared", "main">> => Tail(td) = <<"main">>
           /\ td # <<"shared", "main">> => td = <<"main">> /\ Head(td) = "main" /\ Tail(td) = <<>>
  <1>1. CASE td = <<"main">>
    <2>1. Head(td) = "main" /\ Tail(td) = <<>>
      BY <1>1
    <2> QED
      BY <1>1, <2>1 DEF Todos, Chart
  <1>2. CASE td = <<"shared", "main">>
    <2>1. Head(td) = "shared" /\ Tail(td) = <<"main">>
      BY <1>2
    <2> QED
      BY <1>2, <2>1 DEF Todos, Chart
  <1> QED
    BY <1>1, <1>2 DEF Todos

\* The goroutine ends; its result counts only if it has its context.
LEMMA EndLemma ==
    ASSUME TasksInv, NEW state, End(state)
    PROVE  EndsWith(state)
  BY TaskRange, IdleEnds DEF End, EndsWith, Task

\* What HelmOps does about a failure: an installation cleans up, the others end.
LEMMA FailsLemma ==
    ASSUME TasksInv, multi \in BOOLEAN, Task.kind \in HelmKinds, HelmOpsFails
    PROVE  FailsOnce
  <1>1. CASE Task.kind = "installing"
    <2>1. go' = [go EXCEPT !["op"].step = "pvc", !["op"].todo = Removed(Task.share)] /\ UNCHANGED am
      BY <1>1 DEF HelmOpsFails, Clear, Task
    <2>2. Moves("op", "pvc", Removed(Task.share), go["op"].share)
      BY <2>1, TaskRange, RemovedTodos, TodoMoves DEF Steps
    <2> QED
      BY <1>1, <2>1, <2>2, TaskRange DEF FailsOnce, GoesOn
  <1>2. CASE Task.kind # "installing"
    <2>1. End(Failed(Task.kind))
      BY <1>2 DEF HelmOpsFails, EndFailed, Task
    <2> QED
      BY <1>2, <2>1, EndLemma DEF FailsOnce, HelmKinds
  <1> QED
    BY <1>1, <1>2

\* The operation goes on with the next chart.
LEMMA NextChartLemma ==
    ASSUME TasksInv, Task.todo # <<>>, go' = NextChart, UNCHANGED am
    PROVE  GoesOn("helm", Tail(Task.todo), Task.share)
  <1>1. go' = [go EXCEPT !["op"].step = "helm", !["op"].todo = Tail(Task.todo)]
    BY TaskRange DEF NextChart, Task, TasksInv, Tasks
  <1> QED
    BY <1>1, TaskRange, TailTodos, TodoMoves DEF GoesOn, Steps

\* One lemma for each step: where the operation goes on, or how it ends.
LEMMA GotoLemma ==
    ASSUME TasksInv, NEW s \in Steps, Goto("op", s), UNCHANGED am
    PROVE  GoesOn(s, Task.todo, Task.share)
  BY TaskRange, GotoMoves DEF GoesOn

\* The operation ends with the failure of its kind.
LEMMA EndFailedLemma ==
    ASSUME TasksInv, EndFailed
    PROVE  EndsWith(Failed(Task.kind))
  BY EndLemma DEF EndFailed, Task

\* The status of the release: upgrades and new variables go on, or end.
LEMMA StatusEffect ==
    ASSUME TypeInv, Status
    PROVE  /\ Task.step = "status" /\ Task.kind \in {"upgrading", "applyingEnv"}
           /\ \/ Task.kind = "upgrading" /\ GoesOn("prepare", Task.todo, Task.share)
              \/ GoesOn("helm", Task.todo, Task.share)
              \/ EndsWith(Failed(Task.kind))
  <1>1. Task.step = "status" /\ Task.kind \in {"upgrading", "applyingEnv"}
    BY TaskRange DEF Status, At, PlaceOf, TypeInv
  <1>2. \/ Task.kind = "upgrading" /\ Goto("op", "prepare") /\ UNCHANGED am
        \/ Goto("op", "helm") /\ UNCHANGED am
        \/ EndFailed
    BY DEF Status
  <1> QED
    BY <1>1, <1>2, GotoLemma, EndFailedLemma DEF TypeInv, Steps

\* SetValues and TaprApply: nothing is cleaned up after a failure.
LEMMA PrepareEffect ==
    ASSUME TypeInv, Prepare
    PROVE  /\ Task.step = "prepare" /\ Task.kind \in {"installing", "upgrading"}
           /\ \/ Task.kind = "installing" /\ GoesOn("share", Task.todo, Task.share)
              \/ GoesOn("helm", Task.todo, Task.share)
              \/ EndsWith(Failed(Task.kind))
  <1>1. Task.step = "prepare" /\ Task.kind \in {"installing", "upgrading"}
    BY TaskRange DEF Prepare, At, PlaceOf, TypeInv
  <1>2. \/ Task.kind = "installing" /\ Goto("op", "share") /\ UNCHANGED am
        \/ Goto("op", "helm") /\ UNCHANGED am
        \/ EndFailed
    BY DEF Prepare
  <1> QED
    BY <1>1, <1>2, GotoLemma, EndFailedLemma DEF TypeInv, Steps

\* The label of the shared namespace: nothing is cleaned up after a failure.
LEMMA ShareEffect ==
    ASSUME TypeInv, Share
    PROVE  /\ Task.step = "share" /\ Task.kind \in {"installing", "upgrading"}
           /\ \/ Task.kind = "installing" /\ GoesOn("helm", Task.todo, Task.share)
              \/ Task.kind = "upgrading" /\ GoesOn("provider", Task.todo, Task.share)
              \/ EndsWith(Failed(Task.kind))
  <1>1. Task.step = "share" /\ Task.kind \in {"installing", "upgrading"}
    BY TaskRange DEF Share, At, PlaceOf, TypeInv
  <1>2. \/ Task.kind = "installing" /\ Goto("op", "helm") /\ UNCHANGED am
        \/ Task.kind = "upgrading" /\ Goto("op", "provider") /\ UNCHANGED am
        \/ EndFailed
    BY <1>1 DEF Share
  <1> QED
    BY <1>1, <1>2, GotoLemma, EndFailedLemma DEF TypeInv, Steps

\* The next chart: skipped, begun, or refused; or there is none left.
LEMMA HelmEffect ==
    ASSUME TypeInv, Helm
    PROVE  /\ Task.step = "helm" /\ Task.kind \in HelmKinds
           /\ \/ Task.todo = <<>> /\ GoesOn("labels", Task.todo, Task.share)
              \/ Task.todo # <<>> /\ Skipped(Current) /\ GoesOn("helm", Tail(Task.todo), Task.share)
              \/ /\ Task.todo # <<>> /\ Startable(Current)
                 /\ GoesOn("begin", Task.todo,
                           Task.share \/ (Task.kind = "installing" /\ Current = "shared"))
              \/ FailsOnce
  <1>1. Task.step = "helm" /\ Task.kind \in HelmKinds
    BY TaskRange DEF Helm, At, PlaceOf, TypeInv
  <1>2. ASSUME Task.todo # <<>>, UNCHANGED am,
               go' = [go EXCEPT !["op"].step = "begin",
                               !["op"].share = @ \/ (Task.kind = "installing" /\ Current = "shared")]
        PROVE  GoesOn("begin", Task.todo, Task.share \/ (Task.kind = "installing" /\ Current = "shared"))
    <2> DEFINE sh == Task.share \/ (Task.kind = "installing" /\ Current = "shared")
    <2>1. go' = [go EXCEPT !["op"].step = "begin", !["op"].share = sh]
      BY <1>2 DEF Task, TypeInv, TasksInv, Tasks, Actor
    <2>2. sh \in BOOLEAN
      OBVIOUS
    <2>3. Moves("op", "begin", Task.todo, sh)
      <3> HIDE DEF sh
      <3> QED
        BY <2>1, <2>2, TaskRange, ShareMoves DEF TypeInv, Steps
    <2> QED
      BY <1>2, <2>3 DEF GoesOn
  <1>3. \/ Task.todo = <<>> /\ Goto("op", "labels") /\ UNCHANGED am
        \/ Task.todo # <<>> /\ Skipped(Current) /\ go' = NextChart /\ UNCHANGED am
        \/ /\ Task.todo # <<>> /\ Startable(Current) /\ UNCHANGED am
           /\ go' = [go EXCEPT !["op"].step = "begin",
                              !["op"].share = @ \/ (Task.kind = "installing" /\ Current = "shared")]
        \/ HelmOpsFails
    BY DEF Helm
  <1> QED
    BY <1>1, <1>2, <1>3, GotoLemma, NextChartLemma, FailsLemma DEF TypeInv, OwnerInv, Steps

BeginsNew(c) ==
    /\ rel[c] = "none" /\ ns[c] # "terminating"
    /\ rel' = [rel EXCEPT ![c] = "pendingInstall"] /\ ns' = [ns EXCEPT ![c] = "active"]
    /\ orphan' = IF Task.alive THEN orphan ELSE orphan \cup {c}
    /\ sharedBy' = IF c = "shared" THEN "owner" ELSE sharedBy

BeginsUpgrade(c) ==
    /\ rel[c] = "deployed" /\ rel' = [rel EXCEPT ![c] = "pendingUpgrade"]
    /\ UNCHANGED <<ns, orphan, sharedBy>>

\* Helm begins with a chart, or the operation fails and the cluster is as it was.
LEMMA BeginEffect ==
    ASSUME TypeInv, Begin
    PROVE  /\ Task.step = "begin" /\ Task.kind \in HelmKinds /\ Task.todo # <<>>
           /\ \/ /\ GoesOn("helming", Task.todo, Task.share)
                 /\ BeginsNew(Current) \/ BeginsUpgrade(Current)
              \/ FailsOnce /\ UNCHANGED <<rel, ns, orphan, sharedBy>>
  <1>1. Task.step = "begin" /\ Task.kind \in HelmKinds /\ Task.todo # <<>>
    BY TaskRange DEF Begin, At, PlaceOf, TypeInv
  <1>2. \/ /\ Goto("op", "helming") /\ UNCHANGED am
           /\ BeginsNew(Current) \/ BeginsUpgrade(Current)
        \/ HelmOpsFails /\ UNCHANGED <<rel, ns, orphan, sharedBy>>
    BY DEF Begin, BeginsNew, BeginsUpgrade, TypeInv, ClusterInv
  <1> QED
    BY <1>1, <1>2, GotoLemma, FailsLemma DEF TypeInv, OwnerInv, Steps

\* Helm is done with a chart; an upgrade that installed one ends.
LEMMA HelmEndsEffect ==
    ASSUME TypeInv, HelmEnds
    PROVE  /\ Task.step = "helming" /\ Task.kind \in HelmKinds /\ Task.todo # <<>>
           /\ \/ GoesOn("helm", Tail(Task.todo), Task.share)
              \/ Task.kind # "installing" /\ EndsWith(Failed(Task.kind))
  <1>1. Task.step = "helming" /\ Task.kind \in HelmKinds /\ Task.todo # <<>>
    BY TaskRange DEF HelmEnds, At, PlaceOf, TypeInv
  <1> QED
    BY <1>1, NextChartLemma, EndFailedLemma DEF HelmEnds, TypeInv

\* Helm fails or is given up: the operation fails.
LEMMA HelmFailsEffect ==
    ASSUME TypeInv, HelmFails \/ HelmGivenUp
    PROVE  Task.step = "helming" /\ Task.kind \in HelmKinds /\ Task.todo # <<>> /\ FailsOnce
  <1>1. Task.step = "helming" /\ Task.kind \in HelmKinds /\ Task.todo # <<>>
    BY TaskRange DEF HelmFails, HelmGivenUp, At, PlaceOf, TypeInv
  <1> QED
    BY <1>1, FailsLemma DEF HelmFails, HelmGivenUp, TypeInv, OwnerInv

\* AddApplicationLabelsToDeployment: on to the provider, the shared namespace or the pods.
LEMMA LabelsEffect ==
    ASSUME TypeInv, Labels
    PROVE  /\ Task.step = "labels" /\ Task.kind \in HelmKinds
           /\ \/ Task.kind \in {"installing", "upgrading"} /\ GoesOn("provider", Task.todo, Task.share)
              \/ Task.kind = "upgrading" /\ GoesOn("share", Task.todo, Task.share)
              \/ GoesOn("wait", Task.todo, Task.share)
              \/ FailsOnce
  <1>1. Task.step = "labels" /\ Task.kind \in HelmKinds
    BY TaskRange DEF Labels, At, PlaceOf, TypeInv
  <1>2. \/ Task.kind \in {"installing", "upgrading"} /\ Goto("op", "provider") /\ UNCHANGED am
        \/ Task.kind = "upgrading" /\ Goto("op", "share") /\ UNCHANGED am
        \/ Goto("op", "wait") /\ UNCHANGED am
        \/ HelmOpsFails
    BY <1>1 DEF Labels, HelmKinds
  <1> QED
    BY <1>1, <1>2, GotoLemma, FailsLemma DEF TypeInv, OwnerInv, Steps

\* The provider is applied, or the operation fails, or ends as it is.
LEMMA ProviderEffect ==
    ASSUME TypeInv, Provider
    PROVE  /\ Task.step = "provider" /\ Task.kind \in {"installing", "upgrading"}
           /\ \/ GoesOn("wait", Task.todo, Task.share)
              \/ FailsOnce
              \/ EndsWith(Failed(Task.kind))
  <1>1. Task.step = "provider" /\ Task.kind \in {"installing", "upgrading"}
    BY TaskRange DEF Provider, At, PlaceOf, TypeInv
  <1> QED
    BY <1>1, GotoLemma, FailsLemma, EndFailedLemma DEF Provider, TypeInv, OwnerInv, Steps, HelmKinds

\* The pods have started, or not in time, or the wait is cancelled.
LEMMA WaitEffect ==
    ASSUME TypeInv, Wait
    PROVE  /\ Task.step = "wait" /\ Task.kind \in HelmKinds
           /\ \/ EndsWith("initializing")
              \/ Task.kind = "installing" /\ EndsWith("stopping")
              \/ EndsWith(Failed(Task.kind))
              \/ FailsOnce
  <1>1. Task.step = "wait" /\ Task.kind \in HelmKinds
    BY TaskRange DEF Wait, At, PlaceOf, TypeInv
  <1> QED
    BY <1>1, EndLemma, FailsLemma, EndFailedLemma DEF Wait, Succeeds, TypeInv, OwnerInv

RemovalFails(x) ==
    \/ x = "op" /\ EndsWith(Failed(Task.kind))
    \/ /\ x = "reconciler" /\ Ends(x)
       /\ am' = IF go[x].kind = "installingCanceling" THEN "installingCancelFailed" ELSE am

\* Who removes, and what.
LEMMA RemovalPlace ==
    ASSUME TypeInv, NEW x \in Actor, go[x].step \in {"pvc", "release", "namespace", "gone"}
    PROVE  /\ x = "op" => go[x] = Task /\ Task.kind \in {"installing", "uninstalling"}
           /\ x = "reconciler" => go[x].kind \in {"installingCanceling", "forceDelete"}
           /\ go[x].step # "gone" => go[x].todo # <<>>
           /\ go[x].step = "gone" => go[x].kind \in {"uninstalling", "installingCanceling"}
  <1>1. PlaceOf(go[x].kind, go[x].step, go[x].todo)
    BY TasksRange DEF TypeInv, Place
  <1> QED
    BY <1>1 DEF TypeInv, TasksInv, Task, PlaceOf, Actor, HelmKinds

\* A removal that fails ends, with the result of who removed.
LEMMA RemovalFailsLemma ==
    ASSUME TypeInv, NEW x \in Actor, UninstallFails(x)
    PROVE  RemovalFails(x)
  <1>1. CASE x = "op"
    BY <1>1, EndFailedLemma DEF UninstallFails, RemovalFails, TypeInv
  <1>2. CASE x = "reconciler"
    BY <1>2, IdleEnds DEF UninstallFails, RemovalFails, TypeInv, Actor
  <1> QED
    BY <1>1, <1>2 DEF Actor

\* Listing the claims needs the context.
LEMMA ListPvcsEffect ==
    ASSUME TypeInv, NEW x \in Actor, ListPvcs(x)
    PROVE  /\ go[x].step = "pvc"
           /\ \/ go[x].alive /\ Moves(x, "release", go[x].todo, go[x].share) /\ UNCHANGED am
              \/ RemovalFails(x)
  BY GotoMoves, RemovalFailsLemma DEF ListPvcs, At, AliveCall, TypeInv, Steps

\* After helm's uninstallation comes the namespace, or a failure.
LEMMA HelmUninstallEffect ==
    ASSUME TypeInv, NEW x \in Actor, HelmUninstall(x)
    PROVE  /\ go[x].step = "release"
           /\ \/ Moves(x, "namespace", go[x].todo, go[x].share) /\ UNCHANGED am
              \/ RemovalFails(x)
  <1>1. \/ Goto(x, "namespace") /\ UNCHANGED am
        \/ UninstallFails(x)
    BY DEF HelmUninstall
  <1>2. go[x].step = "release"
    BY DEF HelmUninstall, At
  <1> QED
    BY <1>1, <1>2, GotoMoves, RemovalFailsLemma DEF TypeInv, Steps

\* The last namespace is deleted.
Removes(x) ==
    \/ /\ go[x].kind \in {"uninstalling", "installingCanceling"}
       /\ Moves(x, "gone", go[x].todo, go[x].share) /\ UNCHANGED am
    \/ x = "op" /\ Task.kind = "installing" /\ EndsWith("installFailed")
    \/ x = "reconciler" /\ go[x].kind = "forceDelete" /\ Ends(x) /\ am' = "uninstalled"

\* What follows when the namespace of the application has been deleted.
LEMMA UninstalledLemma ==
    ASSUME TypeInv, NEW x \in Actor, go[x].step = "namespace", Uninstalled(x)
    PROVE  Removes(x)
  <1>1. CASE go[x].kind \in {"uninstalling", "installingCanceling"}
    BY <1>1, GotoMoves DEF Uninstalled, Removes, TypeInv, Steps
  <1>2. CASE go[x].kind = "installing"
    <2>1. x = "op"
      BY <1>2, RemovalPlace DEF Actor
    <2>2. EndsWith(Failed(Task.kind))
      BY <1>2, EndFailedLemma DEF Uninstalled, TypeInv
    <2> QED
      BY <1>2, <2>1, <2>2 DEF Removes, Failed, Task
  <1>3. CASE go[x].kind = "forceDelete"
    <2>1. x = "reconciler"
      BY <1>3, RemovalPlace DEF Actor
    <2> QED
      BY <1>3, <2>1, IdleEnds DEF Uninstalled, Removes, TypeInv
  <1> QED
    BY <1>1, <1>2, <1>3, RemovalPlace DEF Actor

\* A namespace is told to go; only that of the shared chart may stay unnoticed.
LEMMA DeleteNamespaceEffect ==
    ASSUME TypeInv, NEW x \in Actor, DeleteNamespace(x)
    PROVE  /\ go[x].step = "namespace" /\ go[x].todo # <<>>
           /\ \/ /\ Head(go[x].todo) = "main" /\ Removes(x) /\ go[x].alive
                 /\ ns' = [ns EXCEPT !["main"] = IF @ = "active" THEN "terminating" ELSE @]
              \/ Head(go[x].todo) = "main" /\ RemovalFails(x) /\ UNCHANGED ns
              \/ /\ Head(go[x].todo) = "shared" /\ UNCHANGED am
                 /\ Moves(x, "pvc", Tail(go[x].todo), go[x].share)
                 /\ \/ ns' = [ns EXCEPT !["shared"] = IF @ = "active" THEN "terminating" ELSE @]
                    \/ UNCHANGED ns
  <1>1. go[x].step = "namespace" /\ go[x].todo # <<>>
    BY RemovalPlace DEF DeleteNamespace, At
  <1>2. go[x].todo \in Todos /\ Head(go[x].todo) \in Chart /\ Tail(go[x].todo) \in Todos
    BY <1>1, TasksRange, TailTodos DEF TypeInv
  <1>3. CASE Head(go[x].todo) = "main"
    <2>1. \/ /\ Uninstalled(x) /\ go[x].alive
             /\ ns' = [ns EXCEPT !["main"] = IF @ = "active" THEN "terminating" ELSE @]
          \/ UninstallFails(x) /\ UNCHANGED ns
      BY <1>3 DEF DeleteNamespace, AliveCall
    <2> QED
      BY <1>1, <1>3, <2>1, UninstalledLemma, RemovalFailsLemma
  <1>4. CASE Head(go[x].todo) = "shared"
    <2>1. /\ go' = NextRemoval(x) /\ UNCHANGED am
          /\ \/ ns' = [ns EXCEPT !["shared"] = IF @ = "active" THEN "terminating" ELSE @]
             \/ UNCHANGED ns
      BY <1>4 DEF DeleteNamespace, AliveCall
    <2>2. go' = [go EXCEPT ![x].step = "pvc", ![x].todo = Tail(go[x].todo)]
      BY <2>1 DEF NextRemoval, TypeInv, TasksInv, Tasks
    <2>3. Moves(x, "pvc", Tail(go[x].todo), go[x].share)
      BY <1>2, <2>2, TodoMoves DEF TypeInv, Steps
    <2> QED
      BY <1>1, <1>4, <2>1, <2>3
  <1> QED
    BY <1>2, <1>3, <1>4 DEF Chart

\* What was awaited is gone, and the removal has succeeded.
LEMMA GoneEffect ==
    ASSUME TypeInv, NEW x \in Actor, Gone(x)
    PROVE  /\ go[x].step = "gone" /\ go[x].alive /\ ns["main"] = "absent"
           /\ \/ x = "op" /\ EndsWith("uninstalled")
              \/ x = "reconciler" /\ Ends(x) /\ am' = "installingCanceled"
  <1>1. go[x].step = "gone" /\ go[x].alive /\ ns["main"] = "absent"
    BY DEF Gone, At, Awaited
  <1> QED
    BY <1>1, EndLemma, IdleEnds DEF Gone, TypeInv, Actor

\* The wait for the namespaces ends in a failure.
LEMMA GoneTimeoutEffect ==
    ASSUME TypeInv, NEW x \in Actor, GoneTimeout(x)
    PROVE  go[x].step = "gone" /\ RemovalFails(x)
  BY RemovalFailsLemma DEF GoneTimeout, At

-----------------------------------------------------------------------------
(***************************************************************************)
(* What the reconciler does to the operation, and to its own task.         *)
(***************************************************************************)
LEMMA StartEffect ==
    ASSUME TypeInv, Start
    PROVE  /\ am \in {"installing", "upgrading", "applyingEnv", "uninstalling"} /\ UNCHANGED am
           /\ Task = Idle /\ go' \in [Actor -> Tasks] /\ go'["reconciler"] = go["reconciler"]
           /\ go'["op"].kind = am /\ go'["op"].alive /\ go'["op"].todo # <<>>
           /\ go'["op"].step = CASE am = "installing"   -> "prepare"
                                 [] am = "uninstalling" -> "pvc"
                                 [] OTHER               -> "status"
           /\ am # "uninstalling" => go'["op"].share = FALSE
           /\ am = "uninstalling" /\ Head(go'["op"].todo) = "shared" => go'["op"].share
  <1>1. /\ am \in {"installing", "upgrading", "applyingEnv", "uninstalling"} /\ UNCHANGED am
        /\ Task = Idle /\ go \in [Actor -> Tasks]
    BY DEF Start, TypeInv, TasksInv, Task
  <1> DEFINE step == CASE am = "installing"   -> "prepare"
                       [] am = "uninstalling" -> "pvc"
                       [] OTHER               -> "status"
             todo == IF am = "uninstalling" THEN Removed(all) ELSE Charts
             share == am = "uninstalling" /\ multi /\ all
             t == [Idle EXCEPT !.kind = am, !.step = step, !.share = share, !.todo = todo]
  <1>2. step \in {"prepare", "pvc", "status"} /\ todo \in Todos \ {<<>>} /\ share \in BOOLEAN
    BY <1>1, RemovedTodos DEF Charts, Todos, TypeInv, OwnerInv
  <1>3. go' = [go EXCEPT !["op"] = t]
    BY DEF Start
  <1>4. /\ am # "uninstalling" => share = FALSE
        /\ am = "uninstalling" /\ Head(todo) = "shared" => share
    BY DEF Removed
  <1>5. /\ t.kind = am /\ t.step = step /\ t.alive = TRUE /\ t.share = share /\ t.todo = todo
        /\ t \in Tasks
    <2> HIDE DEF step, todo, share
    <2> QED
      BY <1>1, <1>2 DEF Idle, Tasks, Kinds, Steps
  <1>6. go' \in [Actor -> Tasks] /\ go'["op"] = t /\ go'["reconciler"] = go["reconciler"]
    <2> HIDE DEF t
    <2> QED
      BY <1>1, <1>3, <1>5 DEF Actor
  <1> QED
    <2> HIDE DEF todo, share, t
    <2> QED
      BY <1>1, <1>2, <1>4, <1>5, <1>6

\* A removal that the reconciler starts.
Begins(kind, todo) ==
    /\ go'["reconciler"] \in Tasks /\ go'["reconciler"].alive
    /\ go'["reconciler"].kind = kind /\ go'["reconciler"].step = "pvc" /\ go'["reconciler"].todo = todo

\* The task of a removal by the reconciler is well-formed.
LEMMA BeginsLemma ==
    ASSUME NEW kind \in {"installingCanceling", "forceDelete"}, NEW todo \in Todos,
           NEW t, t = [Idle EXCEPT !.kind = kind, !.step = "pvc", !.todo = todo]
    PROVE  t \in Tasks /\ t.alive /\ t.kind = kind /\ t.step = "pvc" /\ t.todo = todo
  BY DEF Idle, Tasks, Kinds, Steps

\* Whether the shared chart is removed is decided by the label, and something is.
LEMMA ShareIsOursLemma ==
    ASSUME TypeInv
    PROVE  ShareIsOurs \in BOOLEAN /\ Removed(ShareIsOurs) \in Todos \ {<<>>}
  <1>1. ShareIsOurs \in BOOLEAN
    BY DEF ShareIsOurs
  <1> QED
    BY <1>1, RemovedTodos DEF TypeInv, OwnerInv

\* InstallingCancelingApp: the operation is cancelled and the reconciler removes.
LEMMA CancelInstallEffect ==
    ASSUME TypeInv, CancelInstall
    PROVE  /\ am = "installingCanceling" /\ go["reconciler"] = Idle
           /\ go' \in [Actor -> Tasks] /\ Cancels
           /\ \/ UNCHANGED am /\ Begins("installingCanceling", Removed(ShareIsOurs))
              \/ am' = "installingCancelFailed" /\ go'["reconciler"] = Idle
  <1>1. am = "installingCanceling" /\ go["reconciler"] = Idle /\ TasksInv
    BY DEF CancelInstall, TypeInv
  <1> DEFINE t == [Idle EXCEPT !.kind = "installingCanceling", !.step = "pvc",
                              !.todo = Removed(ShareIsOurs)]
  <1>2. /\ t \in Tasks /\ t.alive /\ t.kind = "installingCanceling" /\ t.step = "pvc"
        /\ t.todo = Removed(ShareIsOurs)
    BY ShareIsOursLemma, BeginsLemma
  <1>3. \/ UNCHANGED am /\ go' = [Cancelled EXCEPT !["reconciler"] = t]
        \/ am' = "installingCancelFailed" /\ go' = Cancelled
    BY <1>1 DEF CancelInstall
  <1> HIDE DEF t
  <1> QED
    BY <1>1, <1>2, <1>3, CancelledCancels DEF Begins

\* The other cancels: the operation loses its context, the state is written at once.
LEMMA CancelEffect ==
    ASSUME TypeInv, CancelUpgrade \/ CancelUninstall
    PROVE  /\ go' \in [Actor -> Tasks] /\ Cancels /\ go'["reconciler"] = go["reconciler"]
           /\ \/ am \in {"upgradingCanceling", "applyingEnvCanceling"} /\ am' = "stopping"
              \/ am = "uninstalling" /\ am' = "uninstallFailed"
  BY CancelledCancels DEF CancelUpgrade, CancelUninstall, TypeInv

\* The forced deletion begins, with the chart of the application only.
LEMMA ForceDeleteEffect ==
    ASSUME TypeInv, ForceDelete
    PROVE  /\ am \in ForceDeleteStates /\ UNCHANGED am /\ go["reconciler"] = Idle
           /\ go' \in [Actor -> Tasks] /\ go'["op"] = go["op"]
           /\ Begins("forceDelete", <<"main">>)
  <1> DEFINE t == [Idle EXCEPT !.kind = "forceDelete", !.step = "pvc", !.todo = <<"main">>]
  <1>1. t \in Tasks /\ t.alive /\ t.kind = "forceDelete" /\ t.step = "pvc" /\ t.todo = <<"main">>
    BY BeginsLemma DEF Todos
  <1>2. go' = [go EXCEPT !["reconciler"] = t] /\ go \in [Actor -> Tasks]
    BY DEF ForceDelete, Removed, TypeInv, TasksInv
  <1> HIDE DEF t
  <1> QED
    BY <1>1, <1>2 DEF ForceDelete, Begins, Actor

\* After a restart nobody works, and the state is what it was.
LEMMA CrashEffect ==
    ASSUME Crash
    PROVE  go' \in [Actor -> Tasks] /\ (\A x \in Actor : go'[x] = Idle) /\ UNCHANGED am
  <1>1. Idle \in Tasks
    BY DEF Idle, Tasks, Kinds, Steps, Todos
  <1> QED
    BY <1>1 DEF Crash

-----------------------------------------------------------------------------
(***************************************************************************)
(* The types.                                                              *)
(***************************************************************************)
\* The steps that leave the tasks alone.
Still == \/ \E op \in OpType : Request(op)
         \/ Pending \/ InstallFailed \/ Settle \/ LateEnds \/ PodStarts
         \/ \E c \in Chart : NamespaceGone(c)
         \/ OtherInstalls \/ UNCHANGED vars

\* The steps of others leave the tasks alone.
LEMMA StillTasks == Still => UNCHANGED go
  BY DEF Still, Request, Pending, InstallFailed, Settle, LateEnds, PodStarts, NamespaceGone,
         OtherInstalls, vars

\* The steps, by who takes them.
LEMMA NextCases ==
    ASSUME [Next]_vars
    PROVE  \/ Still
           \/ OpStep
           \/ \E x \in Actor : RemovalStep(x)
           \/ Start \/ CancelInstall \/ CancelUpgrade \/ CancelUninstall \/ ForceDelete \/ Crash
  BY DEF Next, Reconcile, Still

\* A failure keeps the tasks well-formed.
LEMMA FailsInv ==
    ASSUME TypeInv, FailsOnce
    PROVE  TasksInv'
  <1>1. CASE Task.kind = "installing" /\ GoesOn("pvc", Removed(Task.share), Task.share)
    <2>1. Removed(Task.share) \in Todos \ {<<>>}
      BY RemovedTodos, TaskRange DEF TypeInv, OwnerInv
    <2>2. PlaceOf(Task.kind, "pvc", Removed(Task.share))
      BY <1>1, <2>1 DEF PlaceOf
    <2> QED
      BY <1>1, <2>1, <2>2, MovesInv, TaskRange DEF GoesOn, Steps, TypeInv
  <1>2. CASE EndsWith(Failed(Task.kind))
    BY <1>2, EndsInv, TaskRange DEF EndsWith, TypeInv
  <1> QED
    BY <1>1, <1>2 DEF FailsOnce

\* A step of the operation keeps the tasks well-formed.
LEMMA GoesOnInv ==
    ASSUME TypeInv, NEW s \in Steps \ {"idle"}, NEW td \in Todos, NEW sh \in BOOLEAN,
           GoesOn(s, td, sh), PlaceOf(Task.kind, s, td)
    PROVE  TasksInv'
  BY MovesInv, TaskRange DEF GoesOn, TypeInv

\* A result keeps the tasks well-formed.
LEMMA EndsWithInv ==
    ASSUME TypeInv, NEW state, EndsWith(state)
    PROVE  TasksInv'
  BY EndsInv, TaskRange DEF EndsWith, TypeInv

\* A failed removal keeps the tasks well-formed.
LEMMA RemovalFailsInv ==
    ASSUME TypeInv, NEW x \in Actor, RemovalFails(x)
    PROVE  TasksInv'
  BY EndsInv, EndsWithInv DEF RemovalFails, TypeInv

\* Install, Upgrade and ApplyEnv stay in the places of their kind.
LEMMA OpTasks ==
    ASSUME TypeInv, OpStep
    PROVE  TasksInv'
  <1> USE TaskRange DEF TypeInv
  <1>1. CASE Status
    BY <1>1, StatusEffect, GoesOnInv, EndsWithInv DEF PlaceOf, Steps, HelmKinds
  <1>2. CASE Prepare
    BY <1>2, PrepareEffect, GoesOnInv, EndsWithInv DEF PlaceOf, Steps, HelmKinds
  <1>3. CASE Share
    BY <1>3, ShareEffect, GoesOnInv, EndsWithInv DEF PlaceOf, Steps, HelmKinds
  <1>4. CASE Helm
    <2>1. CASE Task.todo = <<>> /\ GoesOn("labels", Task.todo, Task.share)
      BY <1>4, <2>1, HelmEffect, GoesOnInv DEF PlaceOf, Steps, HelmKinds
    <2>2. CASE Task.todo # <<>> /\ GoesOn("helm", Tail(Task.todo), Task.share)
      BY <1>4, <2>2, HelmEffect, TailTodos, GoesOnInv DEF PlaceOf, Steps, HelmKinds
    <2>3. CASE /\ Task.todo # <<>>
               /\ GoesOn("begin", Task.todo,
                         Task.share \/ (Task.kind = "installing" /\ Current = "shared"))
      <3> DEFINE sh == Task.share \/ (Task.kind = "installing" /\ Current = "shared")
      <3>1. sh \in BOOLEAN
        OBVIOUS
      <3> HIDE DEF sh
      <3>2. PlaceOf(Task.kind, "begin", Task.todo)
        BY <1>4, <2>3, HelmEffect DEF PlaceOf, HelmKinds
      <3>3. GoesOn("begin", Task.todo, sh)
        BY <2>3 DEF sh
      <3> QED
        BY <3>1, <3>2, <3>3, GoesOnInv DEF Steps
    <2> QED
      BY <1>4, <2>1, <2>2, <2>3, HelmEffect, FailsInv
  <1>5. CASE Begin
    BY <1>5, BeginEffect, GoesOnInv, FailsInv DEF PlaceOf, Steps, HelmKinds
  <1>6. CASE HelmEnds
    BY <1>6, HelmEndsEffect, TailTodos, GoesOnInv, EndsWithInv DEF PlaceOf, Steps, HelmKinds
  <1>7. CASE HelmFails \/ HelmGivenUp
    BY <1>7, HelmFailsEffect, FailsInv
  <1>8. CASE Labels
    BY <1>8, LabelsEffect, GoesOnInv, FailsInv DEF PlaceOf, Steps, HelmKinds
  <1>9. CASE Provider
    BY <1>9, ProviderEffect, GoesOnInv, FailsInv, EndsWithInv DEF PlaceOf, Steps, HelmKinds
  <1>10. CASE Wait
    BY <1>10, WaitEffect, FailsInv, EndsWithInv
  <1> QED
    BY <1>1, <1>2, <1>3, <1>4, <1>5, <1>6, <1>7, <1>8, <1>9, <1>10 DEF OpStep

\* The deletion of the last namespace keeps the tasks well-formed.
LEMMA RemovesInv ==
    ASSUME TypeInv, NEW x \in Actor, go[x].step = "namespace", Removes(x)
    PROVE  TasksInv'
  <1>1. CASE /\ go[x].kind \in {"uninstalling", "installingCanceling"}
             /\ Moves(x, "gone", go[x].todo, go[x].share)
    BY <1>1, TasksRange, MovesInv DEF PlaceOf, Steps, TypeInv
  <1>2. CASE EndsWith("installFailed")
    BY <1>2, EndsWithInv
  <1>3. CASE Ends(x)
    BY <1>3, EndsInv DEF TypeInv
  <1> QED
    BY <1>1, <1>2, <1>3 DEF Removes

\* UninstallAll and Uninstall stay in the places of their kind.
LEMMA RemovalTasks ==
    ASSUME TypeInv, NEW x \in Actor, RemovalStep(x)
    PROVE  TasksInv'
  <1>0. go[x].kind \in Kinds /\ go[x].todo \in Todos /\ go[x].share \in BOOLEAN
    BY TasksRange DEF TypeInv
  <1>1. CASE ListPvcs(x)
    <2>1. PlaceOf(go[x].kind, "release", go[x].todo)
      BY <1>1, ListPvcsEffect, RemovalPlace DEF PlaceOf, Actor
    <2> QED
      BY <1>0, <1>1, <2>1, ListPvcsEffect, MovesInv, RemovalFailsInv DEF Steps, TypeInv
  <1>2. CASE HelmUninstall(x)
    <2>1. PlaceOf(go[x].kind, "namespace", go[x].todo)
      BY <1>2, HelmUninstallEffect, RemovalPlace DEF PlaceOf, Actor
    <2> QED
      BY <1>0, <1>2, <2>1, HelmUninstallEffect, MovesInv, RemovalFailsInv DEF Steps, TypeInv
  <1>3. CASE DeleteNamespace(x)
    <2>1. CASE Head(go[x].todo) = "shared" /\ Moves(x, "pvc", Tail(go[x].todo), go[x].share)
      <3>1. Tail(go[x].todo) = <<"main">> /\ Tail(go[x].todo) \in Todos
        BY <1>0, <1>3, <2>1, DeleteNamespaceEffect, TailTodos
      <3>2. PlaceOf(go[x].kind, "pvc", Tail(go[x].todo))
        <4>1. go[x].step = "namespace"
          BY <1>3, DeleteNamespaceEffect
        <4>2. PlaceOf(go[x].kind, "namespace", go[x].todo)
          <5>1. Place(go[x])
            BY TasksRange DEF TypeInv
          <5> QED
            BY <4>1, <5>1 DEF Place
        <4>3. Tail(go[x].todo) # <<>>
          <5>1. <<"main">> # <<>>
            OBVIOUS
          <5> QED
            BY <3>1, <5>1
        <4> QED
          BY <4>2, <4>3 DEF PlaceOf
      <3> QED
        BY <1>0, <2>1, <3>1, <3>2, MovesInv DEF Steps, TypeInv
    <2> QED
      BY <1>3, <2>1, DeleteNamespaceEffect, RemovesInv, RemovalFailsInv
  <1>4. CASE Gone(x)
    BY <1>4, GoneEffect, EndsWithInv, EndsInv DEF TypeInv
  <1>5. CASE GoneTimeout(x)
    BY <1>5, GoneTimeoutEffect, RemovalFailsInv
  <1> QED
    BY <1>1, <1>2, <1>3, <1>4, <1>5 DEF RemovalStep

\* Every step keeps the tasks well-formed.
LEMMA TasksStep ==
    ASSUME TypeInv, [Next]_vars
    PROVE  TasksInv'
  <1>1. CASE Still
    <2>1. UNCHANGED go
      BY <1>1, StillTasks
    <2> QED
      BY <2>1 DEF TasksInv, TypeInv
  <1>2. CASE Start
    <2>1. PlaceOf(go'["op"].kind, go'["op"].step, go'["op"].todo) /\ go'["op"].step # "idle"
      BY <1>2, StartEffect DEF PlaceOf
    <2> QED
      BY <1>2, <2>1, StartEffect DEF TypeInv, TasksInv, Place, Actor, HelmKinds
  <1>3. ASSUME NEW kind \in {"installingCanceling", "forceDelete"}, NEW todo \in Todos \ {<<>>},
               Begins(kind, todo)
        PROVE  Place(go'["reconciler"])
    BY <1>3 DEF Begins, Place, PlaceOf
  <1>4. CASE CancelInstall
    <2>1. Place(Idle) /\ Idle.kind = "none" /\ Idle.alive
      BY IdlePlace DEF Idle
    <2>2. CASE Begins("installingCanceling", Removed(ShareIsOurs))
      <3>1. Place(go'["reconciler"])
        BY <1>3, <2>2, ShareIsOursLemma
      <3> QED
        BY <1>4, <2>2, <3>1, CancelInstallEffect, CancelsInv DEF Begins, TypeInv
    <2>3. CASE go'["reconciler"] = Idle
      BY <1>4, <2>1, <2>3, CancelInstallEffect, CancelsInv DEF TypeInv
    <2> QED
      BY <1>4, <2>2, <2>3, CancelInstallEffect
  <1>5. CASE CancelUpgrade \/ CancelUninstall
    <2>1. Place(go["reconciler"])
      BY DEF TypeInv, TasksInv, Actor
    <2> QED
      BY <1>5, <2>1, CancelEffect, CancelsInv DEF TypeInv, TasksInv
  <1>6. CASE ForceDelete
    <2>1. Place(go'["reconciler"])
      BY <1>3, <1>6, ForceDeleteEffect DEF Todos
    <2> QED
      BY <1>6, <2>1, ForceDeleteEffect DEF TypeInv, TasksInv, Begins, Actor
  <1>7. CASE Crash
    <2>1. Idle.kind = "none" /\ Idle.alive
      BY DEF Idle
    <2> QED
      BY <1>7, <2>1, CrashEffect, IdlePlace DEF TasksInv, Actor
  <1> QED
    BY <1>1, <1>2, <1>4, <1>5, <1>6, <1>7, NextCases, OpTasks, RemovalTasks

\* The failures are states that the operations lead to.
LEMMA FailedReached == \A kind \in HelmKinds \cup {"uninstalling"} : Failed(kind) \in Reached
  BY DEF Failed, HelmKinds, Reached

\* The state stays among those that the operations lead to.
LEMMA ReachedStep ==
    ASSUME TypeInv, [Next]_vars
    PROVE  am' \in Reached
  <1>1. CASE Still
    <2>1. CASE \E op \in OpType : Request(op)
      BY <2>1, RequestTargets DEF Request, TypeInv, OwnerInv, Reached
    <2> QED
      BY <1>1, <2>1 DEF Still, Pending, InstallFailed, Settle, LateEnds, PodStarts, NamespaceGone,
         OtherInstalls, vars, TypeInv, OwnerInv, Reached
  <1>3. ASSUME FailsOnce
        PROVE  am' \in Reached
    BY <1>3, FailedReached DEF FailsOnce, GoesOn, EndsWith, TypeInv, OwnerInv, HelmKinds
  <1>4. ASSUME Task.kind \in HelmKinds \cup {"uninstalling"}, EndsWith(Failed(Task.kind))
        PROVE  am' \in Reached
    BY <1>4, FailedReached DEF EndsWith, TypeInv, OwnerInv
  <1>5. CASE OpStep
    <2>1. CASE Status \/ Prepare \/ Share
      BY <1>4, <2>1, StatusEffect, PrepareEffect, ShareEffect DEF GoesOn, TypeInv, OwnerInv, HelmKinds
    <2>2. CASE Helm \/ Begin
      BY <1>3, <2>2, HelmEffect, BeginEffect DEF GoesOn, TypeInv, OwnerInv
    <2>3. CASE HelmEnds \/ HelmFails \/ HelmGivenUp
      BY <1>3, <1>4, <2>3, HelmEndsEffect, HelmFailsEffect DEF GoesOn, TypeInv, OwnerInv
    <2>4. CASE Labels \/ Provider
      BY <1>3, <1>4, <2>4, LabelsEffect, ProviderEffect DEF GoesOn, TypeInv, OwnerInv, HelmKinds
    <2>5. CASE Wait
      BY <1>3, <1>4, <2>5, WaitEffect DEF EndsWith, TypeInv, OwnerInv, Reached
    <2> QED
      BY <1>5, <2>1, <2>2, <2>3, <2>4, <2>5 DEF OpStep
  <1>6. CASE \E x \in Actor : RemovalStep(x)
    <2>1. PICK x \in Actor : RemovalStep(x)
      BY <1>6
    <2>2. go[x].step \in {"pvc", "release", "namespace", "gone"}
      BY <2>1 DEF RemovalStep, ListPvcs, HelmUninstall, DeleteNamespace, Gone, GoneTimeout, At
    <2>3. RemovalFails(x) => am' \in Reached
      <3>1. ASSUME x = "op", EndsWith(Failed(Task.kind))
            PROVE  am' \in Reached
        <4>1. Task.kind \in {"installing", "uninstalling"}
          BY <2>2, <3>1, RemovalPlace
        <4> QED
          BY <1>4, <3>1, <4>1 DEF HelmKinds
      <3>2. ASSUME am' = IF go[x].kind = "installingCanceling" THEN "installingCancelFailed" ELSE am
            PROVE  am' \in Reached
        BY <3>2 DEF TypeInv, OwnerInv, Reached
      <3> QED
        BY <3>1, <3>2 DEF RemovalFails
    <2>4. Removes(x) => am' \in Reached
      BY DEF Removes, EndsWith, TypeInv, OwnerInv, Reached
    <2>5. CASE Gone(x)
      BY <2>5, GoneEffect DEF EndsWith, TypeInv, OwnerInv, Reached
    <2> QED
      BY <2>1, <2>3, <2>4, <2>5, ListPvcsEffect, HelmUninstallEffect, DeleteNamespaceEffect, GoneTimeoutEffect
         DEF RemovalStep, TypeInv, OwnerInv
  <1>7. CASE Start \/ CancelInstall \/ CancelUpgrade \/ CancelUninstall \/ ForceDelete \/ Crash
    BY <1>7, StartEffect, CancelInstallEffect, CancelEffect, ForceDeleteEffect, CrashEffect
       DEF TypeInv, OwnerInv, Reached
  <1> QED
    BY <1>1, <1>5, <1>6, <1>7, NextCases

\* What the owner asked, and the bounds.
LEMMA OwnerStep ==
    ASSUME TypeInv, [Next]_vars
    PROVE  OwnerInv'
  <1>1. am' \in Reached
    BY ReachedStep
  <1>2. CASE \E op \in OpType : Request(op)
    <2>1. PICK op \in OpType : Request(op)
      BY <1>2
    <2>2. requests' \in 0 .. MaxRequests
      BY <2>1, BoundsAssumption DEF Request, TypeInv, OwnerInv
    <2>3. overtaken' \in BOOLEAN
      BY <2>1 DEF Request
    <2>4. all' \in BOOLEAN
      BY <2>1 DEF Request, TypeInv, OwnerInv
    <2>5. multi' = multi /\ admin' = admin /\ events' = events
      BY <2>1 DEF Request
    <2> QED
      BY <1>1, <2>2, <2>3, <2>4, <2>5 DEF TypeInv, OwnerInv
  <1>3. UNCHANGED events \/ Fault => events' \in 0 .. MaxEvents
    BY BoundsAssumption DEF Fault, TypeInv, OwnerInv
  <1>4. CASE \/ Pending \/ InstallFailed \/ Settle \/ LateEnds \/ PodStarts
             \/ \E c \in Chart : NamespaceGone(c)
             \/ OtherInstalls \/ UNCHANGED vars \/ Crash
    BY <1>1, <1>3, <1>4 DEF Pending, InstallFailed, Settle, LateEnds, PodStarts, NamespaceGone,
         OtherInstalls, vars, Crash, owner, asked, TypeInv, OwnerInv
  <1>7. CASE CancelInstall \/ CancelUpgrade \/ CancelUninstall \/ ForceDelete
    BY <1>1, <1>3, <1>7 DEF CancelInstall, CancelUpgrade, CancelUninstall, ForceDelete,
         owner, asked, NoFault, TypeInv, OwnerInv
  <1>8. CASE Start
    BY <1>1, <1>8 DEF Start, owner, TypeInv, OwnerInv
  <1>5. CASE OpStep
    BY <1>1, <1>3, <1>5 DEF OpStep, Status, Prepare, Share, Helm, Begin, HelmEnds, HelmFails,
         HelmGivenUp, Labels, Provider, Wait, CallWorks, CallFails,
         owner, asked, NoFault, TypeInv, OwnerInv
  <1>6. CASE \E x \in Actor : RemovalStep(x)
    BY <1>1, <1>3, <1>6 DEF RemovalStep, ListPvcs, HelmUninstall, DeleteNamespace, Gone, GoneTimeout,
         AliveCall, DeadCall, owner, asked, NoFault, TypeInv, OwnerInv
  <1> QED
    BY <1>2, <1>4, <1>5, <1>6, <1>7, <1>8, NextCases DEF Still

\* The chart that an actor removes.
LEMMA RemovedChart ==
    ASSUME TypeInv, NEW x \in Actor, go[x].step \in {"pvc", "release", "namespace"}
    PROVE  /\ Head(go[x].todo) \in Chart
           /\ Head(go[x].todo) = "shared" => Tail(go[x].todo) = <<"main">>
  BY RemovalPlace, TasksRange, TailTodos DEF TypeInv

\* There is a chart when helm works at one.
LEMMA CurrentChart ==
    ASSUME TypeInv, Task.step \in {"begin", "helming"}
    PROVE  Current \in Chart
  BY TaskRange, TailTodos DEF TypeInv, PlaceOf, Current

\* The releases, namespaces and objects of the cluster.
LEMMA ClusterStep ==
    ASSUME TypeInv, [Next]_vars
    PROVE  ClusterInv'
  <1>1. CASE \/ \E op \in OpType : Request(op)
             \/ UNCHANGED vars \/ Start \/ CancelInstall \/ CancelUpgrade \/ CancelUninstall \/ ForceDelete
             \/ Status \/ Prepare \/ Helm \/ Provider \/ Wait
             \/ \E x \in Actor : ListPvcs(x) \/ Gone(x) \/ GoneTimeout(x)
    BY ZenonT(40), <1>1 DEF Request, vars, Start, CancelInstall, CancelUpgrade, CancelUninstall, ForceDelete, Status,
         Prepare, Helm, Provider, Wait, ListPvcs, Gone, GoneTimeout, cluster, ghosts, TypeInv, ClusterInv
  <1>2. CASE Pending \/ InstallFailed \/ Settle \/ PodStarts
    BY <1>2 DEF Pending, InstallFailed, Settle, PodStarts, ghosts, TypeInv, ClusterInv, Chart, Phase
  <1>13. CASE LateEnds
    <2>1. PICK c \in late :
             /\ late' = late \ {c}
             /\ work' = [work EXCEPT ![c] = @ \/ ns[c] = "active"]
             /\ rel' \in {rel, [rel EXCEPT ![c] = IF @ = "none" \/ ns[c] # "active" THEN @ ELSE "deployed"]}
      BY <1>13 DEF LateEnds
    <2>2. rel' \in [Chart -> Release]
      BY <2>1 DEF TypeInv, ClusterInv, Release
    <2>3. work' \in [Chart -> BOOLEAN]
      BY <2>1 DEF TypeInv, ClusterInv
    <2> QED
      BY <1>13, <2>1, <2>2, <2>3 DEF LateEnds, ghosts, TypeInv, ClusterInv
  <1>3. CASE \E c \in Chart : NamespaceGone(c)
    BY <1>3 DEF NamespaceGone, TypeInv, ClusterInv, Release, Phase
  <1>4. CASE OtherInstalls
    BY <1>4 DEF OtherInstalls, TypeInv, ClusterInv, Chart, Release, Phase
  <1>5. CASE Crash
    BY <1>5, CurrentChart DEF Crash, At, Task, TypeInv, ClusterInv
  <1>6. CASE Share
    BY <1>6 DEF Share, ghosts, TypeInv, ClusterInv, Chart, Phase
  <1>7. CASE Begin
    BY <1>7, CurrentChart, BeginEffect DEF BeginsNew, BeginsUpgrade, Begin, TypeInv, ClusterInv,
         Release, Phase
  <1>8. CASE HelmEnds
    BY <1>8, CurrentChart, HelmEndsEffect DEF HelmEnds, ghosts, TypeInv, ClusterInv, Release
  <1>9. CASE HelmFails \/ HelmGivenUp
    BY <1>9, CurrentChart, HelmFailsEffect DEF HelmFails, HelmGivenUp, RecordFailed, TypeInv, ClusterInv,
         Release
  <1>10. CASE Labels
    BY <1>10 DEF Labels, ghosts, TypeInv, ClusterInv, Chart
  <1>11. ASSUME NEW x \in Actor, HelmUninstall(x)
         PROVE  ClusterInv'
    BY <1>11, RemovedChart, HelmUninstallEffect DEF HelmUninstall, TypeInv, ClusterInv, Chart, Release
  <1>12. ASSUME NEW x \in Actor, DeleteNamespace(x)
         PROVE  ClusterInv'
    BY ZenonT(40), <1>12, DeleteNamespaceEffect DEF DeleteNamespace, ghosts, TypeInv, ClusterInv, Chart, Phase
  <1> QED
    BY <1>1, <1>2, <1>3, <1>4, <1>5, <1>6, <1>7, <1>8, <1>9, <1>10, <1>11, <1>12, <1>13,
       NextCases DEF Still, OpStep, RemovalStep

\* Every step keeps the types.
LEMMA TypeStep ==
    ASSUME TypeInv, [Next]_vars
    PROVE  TypeInv'
  BY OwnerStep, ClusterStep, TasksStep DEF TypeInv

-----------------------------------------------------------------------------
(***************************************************************************)
(* Summaries: what the operation, and what the reconciler, does in a step. *)
(***************************************************************************)
\* The operation goes on, in the same context, or ends with a result.
Proceeds ==
    /\ UNCHANGED am /\ go'["op"].kind = Task.kind /\ go'["op"].alive = Task.alive
    /\ go'["op"] # Idle

\* An operation that goes on leaves the state and the reconciler alone.
LEMMA GoesOnSummary ==
    ASSUME TypeInv, NEW s \in Steps \ {"idle"}, NEW td, NEW sh, GoesOn(s, td, sh)
    PROVE  Proceeds /\ go'["reconciler"] = go["reconciler"] /\ go'["op"].step = s /\ go'["op"].todo = td
  BY DEF GoesOn, Moves, Proceeds, Task, Idle, Actor

\* An operation that ends leaves the reconciler alone.
LEMMA EndsWithSummary ==
    ASSUME TypeInv, NEW state, EndsWith(state)
    PROVE  go'["op"] = Idle /\ go'["reconciler"] = go["reconciler"]
  BY DEF EndsWith, Ends, Actor

\* A failing installation goes on in its context, the others end.
LEMMA FailsSummary ==
    ASSUME TypeInv, FailsOnce
    PROVE  /\ go'["reconciler"] = go["reconciler"]
           /\ \/ /\ Proceeds /\ Task.kind = "installing"
                 /\ go'["op"].step = "pvc" /\ go'["op"].todo = Removed(Task.share)
              \/ Task.kind # "installing" /\ go'["op"] = Idle /\ EndsWith(Failed(Task.kind))
  BY GoesOnSummary, EndsWithSummary DEF FailsOnce, Steps

\* The results of an operation.
Result(state) ==
    \/ state = Failed(Task.kind)
    \/ Task.step = "wait" /\ state = "initializing"
    \/ Task.step = "wait" /\ Task.kind = "installing" /\ state = "stopping"
    \/ Task.step = "gone" /\ state = "uninstalled" /\ ns["main"] = "absent" /\ Task.alive

\* A step of the operation: it goes on in its context, or ends with one of its results.
LEMMA OpSummary ==
    ASSUME TypeInv, OpStep \/ RemovalStep("op")
    PROVE  /\ go'["reconciler"] = go["reconciler"] /\ Task # Idle /\ Task.kind # "none"
           /\ \/ Proceeds
              \/ go'["op"] = Idle /\ \E state : EndsWith(state) /\ Result(state)
  <1>1. ASSUME FailsOnce
        PROVE  /\ go'["reconciler"] = go["reconciler"]
               /\ \/ Proceeds
                  \/ go'["op"] = Idle /\ \E state : EndsWith(state) /\ Result(state)
    BY <1>1, FailsSummary DEF Result
  <1>2. ASSUME NEW state, EndsWith(state), Result(state)
        PROVE  /\ go'["reconciler"] = go["reconciler"]
               /\ go'["op"] = Idle /\ \E st : EndsWith(st) /\ Result(st)
    BY <1>2, EndsWithSummary
  <1>3. Result(Failed(Task.kind))
    BY DEF Result
  <1>4. Idle.step = "idle" /\ Idle.kind = "none"
    BY DEF Idle
  <1> HIDE DEF Result
  <1>5. CASE Status \/ Prepare \/ Share
    BY <1>2, <1>3, <1>4, <1>5, StatusEffect, PrepareEffect, ShareEffect, GoesOnSummary DEF Steps
  <1>6. CASE Helm \/ Begin
    BY <1>1, <1>4, <1>6, HelmEffect, BeginEffect, GoesOnSummary DEF Steps, HelmKinds
  <1>7. CASE HelmEnds \/ HelmFails \/ HelmGivenUp
    BY <1>1, <1>2, <1>3, <1>4, <1>7, HelmEndsEffect, HelmFailsEffect, GoesOnSummary DEF Steps, HelmKinds
  <1>8. CASE Labels \/ Provider
    BY <1>1, <1>2, <1>3, <1>4, <1>8, LabelsEffect, ProviderEffect, GoesOnSummary DEF Steps, HelmKinds
  <1>9. CASE Wait
    <2>1. Result("initializing") /\ (Task.kind = "installing" => Result("stopping"))
      BY <1>9, WaitEffect DEF Result
    <2> QED
      BY <1>1, <1>2, <1>3, <1>4, <1>9, <2>1, WaitEffect DEF HelmKinds
  <1>10. CASE RemovalStep("op")
    <2>1. go["op"].step \in {"pvc", "release", "namespace", "gone"}
      BY <1>10 DEF RemovalStep, ListPvcs, HelmUninstall, DeleteNamespace, Gone, GoneTimeout, At
    <2>2. go["op"] = Task /\ Task.kind \in {"installing", "uninstalling"} /\ "op" \in Actor
      BY <2>1, RemovalPlace DEF Actor
    <2>3. Task # Idle
      BY <1>4, <2>1, <2>2
    <2>4. ASSUME NEW s \in Steps \ {"idle"}, NEW td, NEW sh, Moves("op", s, td, sh), UNCHANGED am
          PROVE  Proceeds /\ go'["reconciler"] = go["reconciler"]
      BY <2>4, GoesOnSummary DEF GoesOn
    <2>5. ASSUME RemovalFails("op")
          PROVE  EndsWith(Failed(Task.kind))
      BY <2>5 DEF RemovalFails
    <2>6. CASE ListPvcs("op")
      BY <1>2, <1>3, <2>2, <2>3, <2>4, <2>5, <2>6, ListPvcsEffect DEF Steps
    <2>7. CASE HelmUninstall("op")
      BY <1>2, <1>3, <2>2, <2>3, <2>4, <2>5, <2>7, HelmUninstallEffect DEF Steps
    <2>8. CASE DeleteNamespace("op")
      <3>1. ASSUME Removes("op")
            PROVE  \/ Moves("op", "gone", go["op"].todo, go["op"].share) /\ UNCHANGED am
                   \/ EndsWith(Failed(Task.kind))
        BY <3>1 DEF Removes, Failed
      <3> QED
        BY <1>2, <1>3, <2>2, <2>3, <2>4, <2>5, <2>8, <3>1, DeleteNamespaceEffect DEF Steps
    <2>9. CASE Gone("op")
      <3>1. EndsWith("uninstalled") /\ Result("uninstalled")
        BY <2>2, <2>9, GoneEffect DEF Result
      <3> QED
        BY <1>2, <2>2, <2>3, <3>1
    <2>10. CASE GoneTimeout("op")
      BY <1>2, <1>3, <2>2, <2>3, <2>5, <2>10, GoneTimeoutEffect
    <2> QED
      BY <1>10, <2>6, <2>7, <2>8, <2>9, <2>10 DEF RemovalStep
  <1> QED
    BY <1>5, <1>6, <1>7, <1>8, <1>9, <1>10 DEF OpStep

\* The reconciler goes on, or ends its removal with a result or without.
LEMMA ReconcilerSummary ==
    ASSUME TypeInv, RemovalStep("reconciler")
    PROVE  /\ go'["op"] = go["op"] /\ go["reconciler"].kind \in {"installingCanceling", "forceDelete"}
           /\ \/ UNCHANGED am /\ go'["reconciler"].kind = go["reconciler"].kind
              \/ /\ go'["reconciler"] = Idle
                 /\ \/ UNCHANGED am
                    \/ go["reconciler"].kind = "installingCanceling" /\ am' = "installingCancelFailed"
                    \/ /\ go["reconciler"].kind = "installingCanceling" /\ am' = "installingCanceled"
                       /\ ns["main"] = "absent" /\ UNCHANGED ns
                    \/ /\ go["reconciler"].kind = "forceDelete" /\ am' = "uninstalled"
                       /\ ns' = [ns EXCEPT !["main"] = IF @ = "active" THEN "terminating" ELSE @]
  <1> DEFINE q == go["reconciler"]
  <1>1. q.step \in {"pvc", "release", "namespace", "gone"}
    BY DEF RemovalStep, ListPvcs, HelmUninstall, DeleteNamespace, Gone, GoneTimeout, At
  <1>2. q.kind \in {"installingCanceling", "forceDelete"} /\ "reconciler" \in Actor
    BY <1>1, RemovalPlace DEF Actor
  <1>3. ASSUME NEW s, NEW td, NEW sh, Moves("reconciler", s, td, sh)
        PROVE  go'["op"] = go["op"] /\ go'["reconciler"].kind = q.kind
    BY <1>3 DEF Moves, Actor
  <1>4. ASSUME Ends("reconciler")
        PROVE  go'["op"] = go["op"] /\ go'["reconciler"] = Idle
    BY <1>4 DEF Ends, Actor
  <1>5. ASSUME RemovalFails("reconciler")
        PROVE  /\ go'["op"] = go["op"] /\ go'["reconciler"] = Idle
               /\ UNCHANGED am \/ (q.kind = "installingCanceling" /\ am' = "installingCancelFailed")
    BY <1>4, <1>5 DEF RemovalFails
  <1>6. CASE ListPvcs("reconciler")
    BY <1>2, <1>3, <1>5, <1>6, ListPvcsEffect
  <1>7. CASE HelmUninstall("reconciler")
    BY <1>2, <1>3, <1>5, <1>7, HelmUninstallEffect
  <1>8. CASE DeleteNamespace("reconciler")
    BY <1>2, <1>3, <1>4, <1>5, <1>8, DeleteNamespaceEffect DEF Removes
  <1>9. CASE Gone("reconciler")
    <2>1. q.kind = "installingCanceling"
      BY <1>2, <1>9, GoneEffect, RemovalPlace
    <2> QED
      BY <1>2, <1>4, <1>9, <2>1, GoneEffect DEF Gone, cluster
  <1>10. CASE GoneTimeout("reconciler")
    BY <1>2, <1>5, <1>10, GoneTimeoutEffect
  <1> QED
    BY <1>6, <1>7, <1>8, <1>9, <1>10 DEF RemovalStep

-----------------------------------------------------------------------------
(***************************************************************************)
(* Namespaces that are gone, and releases that helm left half done.        *)
(***************************************************************************)
LEMMA AbsentStep ==
    ASSUME TypeInv, AbsentInv, [Next]_vars
    PROVE  AbsentInv'
  <1>1. CASE \/ \E op \in OpType : Request(op)
             \/ UNCHANGED vars \/ Start \/ CancelInstall \/ CancelUpgrade \/ CancelUninstall \/ ForceDelete
             \/ Status \/ Prepare \/ Helm \/ Provider \/ Wait \/ Labels \/ Crash \/ Settle \/ PodStarts
             \/ \E x \in Actor : ListPvcs(x) \/ Gone(x) \/ GoneTimeout(x)
    <2>1. UNCHANGED <<rel, ns, work>>
      BY <1>1 DEF Request, vars, Start, CancelInstall, CancelUpgrade, CancelUninstall, ForceDelete, Status,
         Prepare, Helm, Provider, Wait, Labels, Crash, Settle, PodStarts, ListPvcs, Gone, GoneTimeout, cluster
    <2> QED
      BY <2>1 DEF AbsentInv
  <1>2. CASE Pending \/ InstallFailed
    BY <1>2 DEF Pending, InstallFailed, TypeInv, ClusterInv, AbsentInv
  <1>3. CASE LateEnds
    BY <1>3 DEF LateEnds, TypeInv, ClusterInv, AbsentInv
  <1>4. CASE \E c \in Chart : NamespaceGone(c)
    BY <1>4 DEF NamespaceGone, TypeInv, ClusterInv, AbsentInv
  <1>5. CASE OtherInstalls
    BY <1>5 DEF OtherInstalls, TypeInv, ClusterInv, AbsentInv
  <1>6. CASE Share
    BY <1>6 DEF Share, TypeInv, ClusterInv, AbsentInv
  <1>7. CASE Begin
    BY <1>7, CurrentChart, BeginEffect DEF BeginsNew, BeginsUpgrade, Begin, TypeInv, ClusterInv, AbsentInv
  <1>8. CASE HelmEnds
    BY <1>8, CurrentChart, HelmEndsEffect DEF HelmEnds, TypeInv, ClusterInv, AbsentInv
  <1>9. CASE HelmFails \/ HelmGivenUp
    BY <1>9, CurrentChart, HelmFailsEffect DEF HelmFails, HelmGivenUp, RecordFailed, TypeInv, ClusterInv,
         AbsentInv
  <1>10. ASSUME NEW x \in Actor, HelmUninstall(x)
         PROVE  AbsentInv'
    BY <1>10, RemovedChart, HelmUninstallEffect DEF HelmUninstall, TypeInv, ClusterInv, AbsentInv
  <1>11. ASSUME NEW x \in Actor, DeleteNamespace(x)
         PROVE  AbsentInv'
    <2>1. \/ \E c \in Chart : ns' = [ns EXCEPT ![c] = IF @ = "active" THEN "terminating" ELSE @]
          \/ UNCHANGED ns
      BY <1>11, DeleteNamespaceEffect DEF Chart
    <2>2. UNCHANGED <<rel, work>>
      BY <1>11 DEF DeleteNamespace
    <2>3. \A d \in Chart : ns'[d] = "absent" => ns[d] = "absent"
      BY <2>1 DEF TypeInv, ClusterInv
    <2> QED
      BY <2>2, <2>3 DEF AbsentInv
  <1> QED
    BY <1>1, <1>2, <1>3, <1>4, <1>5, <1>6, <1>7, <1>8, <1>9, <1>10, <1>11, NextCases
       DEF Still, OpStep, RemovalStep

\* Nothing that the invariant is about has changed.
LEMMA TornKept ==
    ASSUME TornInv, UNCHANGED <<rel, torn>>,
           HelmingMain => go'["op"].step = "helming" /\ go'["op"].todo = Task.todo
    PROVE  TornInv'
  BY DEF TornInv, HelmingMain, At, Task

\* A release that is neither deployed nor gone was left by helm, or is in its hands.
LEMMA TornStep ==
    ASSUME TypeInv, TornInv, [Next]_vars
    PROVE  TornInv'
  <1>1. CASE \/ \E op \in OpType : Request(op)
             \/ UNCHANGED vars \/ Pending \/ InstallFailed \/ Settle \/ PodStarts
    BY <1>1, TornKept DEF Request, vars, Pending, InstallFailed, Settle, PodStarts, ghosts, cluster,
         HelmingMain, At, Task
  <1>2. CASE LateEnds
    <2>1. rel'["main"] \in {rel["main"], "deployed"} /\ UNCHANGED <<go, torn>>
      BY <1>2 DEF LateEnds, ghosts, TypeInv, ClusterInv, Chart
    <2> QED
      BY <2>1 DEF TornInv, HelmingMain, At, Task
  <1>3. CASE \E c \in Chart : NamespaceGone(c)
    BY <1>3 DEF NamespaceGone, TornInv, TypeInv, ClusterInv, Chart, HelmingMain, At, Task
  <1>4. CASE OtherInstalls
    BY <1>4 DEF OtherInstalls, TornInv, TypeInv, ClusterInv, Chart, HelmingMain, At, Task
  <1>5. CASE Start
    <2>1. Task.step = "idle"
      BY <1>5, StartEffect DEF Idle
    <2>2. UNCHANGED <<rel, torn>>
      BY <1>5 DEF Start, cluster, ghosts
    <2> QED
      BY <2>1, <2>2, TornKept DEF HelmingMain, At, Task
  <1>6. CASE CancelInstall \/ CancelUpgrade \/ CancelUninstall \/ ForceDelete
    <2>1. UNCHANGED <<rel, torn>>
      BY <1>6 DEF CancelInstall, CancelUpgrade, CancelUninstall, ForceDelete, cluster, ghosts
    <2>2. go'["op"].step = Task.step /\ go'["op"].todo = Task.todo
      BY <1>6, CancelInstallEffect, CancelEffect, ForceDeleteEffect DEF Cancels, Task
    <2> QED
      BY <2>1, <2>2, TornKept DEF HelmingMain, At, Task
  <1>7. CASE Crash
    <2>1. UNCHANGED rel /\ (HelmingMain => "main" \in torn') /\ torn \subseteq torn'
      BY <1>7 DEF Crash, HelmingMain, Current
    <2> QED
      BY <2>1 DEF TornInv
  <1>8. CASE \/ Status \/ Prepare \/ Share \/ Helm \/ Labels \/ Provider \/ Wait
             \/ ListPvcs("op") \/ DeleteNamespace("op") \/ Gone("op") \/ GoneTimeout("op")
    <2>1. UNCHANGED <<rel, torn>> /\ ~HelmingMain
      BY <1>8 DEF Status, Prepare, Share, Helm, Labels, Provider, Wait, ListPvcs, DeleteNamespace, Gone,
         GoneTimeout, At, HelmingMain, cluster, ghosts
    <2> QED
      BY <2>1, TornKept
  <1>9. CASE Begin
    <2>1. CASE Current = "main" /\ GoesOn("helming", Task.todo, Task.share)
      BY <2>1, GoesOnSummary DEF TornInv, HelmingMain, At, Task, Current, Steps
    <2>2. CASE FailsOnce /\ UNCHANGED rel
      BY <1>9, <2>2, TornKept DEF Begin, HelmingMain, At
    <2>3. CASE Current = "shared"
      <3>1. rel'["main"] = rel["main"] /\ UNCHANGED torn /\ ~HelmingMain
        BY <1>9, <2>3, BeginEffect DEF Begin, BeginsNew, BeginsUpgrade, TypeInv, ClusterInv, Chart,
           HelmingMain, At
      <3> QED
        BY <3>1 DEF TornInv
    <2> QED
      BY <1>9, <2>1, <2>2, <2>3, BeginEffect, CurrentChart DEF Chart
  <1>10. CASE HelmEnds
    <2>1. CASE Current = "main"
      BY <1>10, <2>1 DEF HelmEnds, TornInv, TypeInv, ClusterInv, Chart
    <2>2. CASE Current # "main"
      <3>1. rel'["main"] = rel["main"] /\ UNCHANGED torn /\ ~HelmingMain
        BY <1>10, <2>2 DEF HelmEnds, ghosts, TypeInv, ClusterInv, Chart, HelmingMain, Current
      <3> QED
        BY <3>1 DEF TornInv
    <2> QED
      BY <2>1, <2>2
  <1>11. CASE HelmFails \/ HelmGivenUp
    <2>1. CASE Current = "main"
      BY <1>11, <2>1 DEF HelmFails, HelmGivenUp, TornInv
    <2>2. CASE Current # "main"
      <3>1. rel'["main"] = rel["main"] /\ torn \subseteq torn' /\ ~HelmingMain
        BY <1>11, <2>2 DEF HelmFails, HelmGivenUp, RecordFailed, TypeInv, ClusterInv, Chart, HelmingMain, Current
      <3> QED
        BY <3>1 DEF TornInv
    <2> QED
      BY <2>1, <2>2
  <1>12. CASE HelmUninstall("op")
    <2>1. CASE Head(go["op"].todo) = "main"
      BY <1>12, <2>1 DEF HelmUninstall, TornInv, TypeInv, ClusterInv, Chart
    <2>2. CASE Head(go["op"].todo) = "shared"
      <3>1. rel'["main"] = rel["main"] /\ ("main" \in torn => "main" \in torn') /\ ~HelmingMain
        BY <1>12, <2>2 DEF HelmUninstall, TypeInv, ClusterInv, Chart, HelmingMain, At
      <3> QED
        BY <3>1 DEF TornInv
    <2> QED
      BY <1>12, <2>1, <2>2, HelmUninstallEffect, RemovedChart DEF Chart, Actor
  <1>13. CASE RemovalStep("reconciler")
    <2>1. go'["op"] = go["op"]
      BY <1>13, ReconcilerSummary
    <2>2. \/ UNCHANGED <<rel, torn>>
          \/ rel'["main"] = "none"
          \/ rel'["main"] = rel["main"] /\ ("main" \in torn => "main" \in torn')
      <3>1. CASE HelmUninstall("reconciler")
        BY <3>1 DEF HelmUninstall, TypeInv, ClusterInv, Chart
      <3> QED
        BY <1>13, <3>1 DEF RemovalStep, ListPvcs, DeleteNamespace, Gone, GoneTimeout, cluster, ghosts
    <2> QED
      BY <2>1, <2>2 DEF TornInv, HelmingMain, At, Task
  <1> QED
    BY <1>1, <1>2, <1>3, <1>4, <1>5, <1>6, <1>7, <1>8, <1>9, <1>10, <1>11, <1>12, <1>13, NextCases
       DEF Still, OpStep, RemovalStep, Actor

-----------------------------------------------------------------------------
(***************************************************************************)
(* The state, while no request has overtaken a reconciler: who has its     *)
(* context, and what the reconciler relies on.                             *)
(***************************************************************************)
LEMMA Overtaken ==
    ASSUME TypeInv, [Next]_vars, ~overtaken'
    PROVE  \/ ~overtaken
           \/ Start /\ am \in {"installing", "uninstalling"} /\ go["reconciler"] = Idle
  <1>1. CASE Still
    BY <1>1 DEF Still, Request, Pending, InstallFailed, Settle, LateEnds, PodStarts, NamespaceGone,
       OtherInstalls, asked, vars
  <1>2. CASE OpStep
    BY <1>2 DEF OpStep, Status, Prepare, Share, Helm, Begin, HelmEnds, HelmFails, HelmGivenUp, Labels,
       Provider, Wait, asked
  <1>3. CASE \E x \in Actor : RemovalStep(x)
    BY <1>3 DEF RemovalStep, ListPvcs, HelmUninstall, DeleteNamespace, Gone, GoneTimeout, asked
  <1>4. CASE CancelInstall \/ CancelUpgrade \/ CancelUninstall \/ ForceDelete \/ Crash
    BY <1>4 DEF CancelInstall, CancelUpgrade, CancelUninstall, ForceDelete, Crash, asked
  <1>5. CASE Start
    BY <1>5 DEF Start
  <1> QED
    BY <1>1, <1>2, <1>3, <1>4, <1>5, NextCases

\* The steps of others: the state they leave alone, or settle.
LEMMA StillSummary ==
    ASSUME TypeInv, Still
    PROVE  /\ UNCHANGED go
           /\ \/ UNCHANGED am
              \/ am = "pending" /\ am' = "installing"
              \/ am = "initializing" /\ am' = "running"
              \/ am = "stopping" /\ am' = "stopped"
              \/ \E op \in OpType : Request(op)
  BY StillTasks DEF Still, Pending, InstallFailed, Settle, LateEnds, PodStarts, NamespaceGone,
     OtherInstalls, vars

\* A request that overtakes no reconciler finds none at work.
LEMMA RequestSummary ==
    ASSUME TypeInv, NEW op \in OpType, Request(op), ~overtaken'
    PROVE  /\ ~overtaken /\ go["reconciler"] = Idle
           /\ \/ am \in {"uninstalled", "installingCanceled", "installFailed"} /\ am' = "pending"
              \/ am \in {"installing", "installingCancelFailed"} /\ am' = "installingCanceling"
              \/ am = "upgrading" /\ am' = "upgradingCanceling"
              \/ am = "applyingEnv" /\ am' = "applyingEnvCanceling"
              \/ am \in {"running", "stopped", "upgradeFailed"} /\ am' = "upgrading"
              \/ am \in {"running", "stopped", "applyEnvFailed"} /\ am' = "applyingEnv"
              \/ /\ am \in {"running", "stopped", "upgradeFailed", "applyEnvFailed", "uninstallFailed",
                           "installingCancelFailed"}
                 /\ am' = "uninstalling"
  <1>1. ~overtaken /\ go["reconciler"] = Idle
    BY DEF Request
  <1> QED
    BY <1>1, RequestTargets DEF Request, TypeInv, OwnerInv

\* A cancelled operation has no context, or there is none.
LEMMA CancelsSummary ==
    ASSUME TypeInv, Cancels, TasksInv'
    PROVE  /\ go'["op"] = Idle \/ ~go'["op"].alive
           /\ go'["op"].kind = Task.kind /\ go'["op"].step = Task.step /\ go'["op"].todo = Task.todo
           /\ Task = Idle => go'["op"] = Idle
  <1>1. Task = Idle => go'["op"].step = "idle"
    BY DEF Cancels, Idle
  <1>2. Task = Idle => go'["op"] = Idle
    BY <1>1 DEF TasksInv, Place, Actor
  <1> QED
    BY <1>2 DEF Cancels

\* An operation that has its context has not been followed by another state.
LEMMA AliveFacts ==
    ASSUME TasksInv, AliveInv, Task # Idle, Task.alive
    PROVE  /\ am \in {"installing", "installingCanceling", "upgrading", "upgradingCanceling",
                      "applyingEnv", "applyingEnvCanceling", "uninstalling"}
           /\ am \notin ForceDeleteStates
           /\ am = "installingCanceling" => Task.kind = "installing"
  <1>1. Task.kind \in {"installing", "upgrading", "applyingEnv", "uninstalling", "none"}
    BY TaskRange DEF HelmKinds
  <1>2. am \in AliveStates(Task.kind)
    BY DEF AliveInv
  <1> QED
    BY <1>1, <1>2 DEF AliveStates, ForceDeleteStates

\* The state while an operation has its context: the one it began in, or its cancel.
LEMMA AliveStep ==
    ASSUME TypeInv, TypeInv', AliveInv, ReconcilerInv, [Next]_vars, ~overtaken'
    PROVE  AliveInv'
  <1>0. Task' = go'["op"]
    BY DEF Task
  <1>1. CASE Still
    <2>1. CASE \E op \in OpType : Request(op)
      <3>1. PICK op \in OpType : Request(op)
        BY <2>1
      <3>2. Task' = Task
        BY <1>1, StillSummary DEF Task
      <3>3. ASSUME Task # Idle, Task.alive
            PROVE  am' \in AliveStates(Task.kind)
        <4>1. am \in AliveStates(Task.kind) /\ Task.kind \in {"installing", "upgrading", "applyingEnv", "uninstalling", "none"}
          BY <3>3, TaskRange DEF AliveInv, TypeInv, HelmKinds
        <4> QED
          BY <3>1, <4>1, RequestSummary DEF AliveStates
      <3> QED
        BY <3>2, <3>3 DEF AliveInv
    <2>2. CASE UNCHANGED am
      BY <1>1, <2>2, StillSummary DEF AliveInv, Task
    <2>3. CASE am \in {"pending", "initializing", "stopping"}
      <3>1. ~(Task # Idle /\ Task.alive)
        BY <2>3, AliveFacts DEF TypeInv
      <3> QED
        BY <1>1, <3>1, StillSummary DEF AliveInv, Task
    <2> QED
      BY <1>1, <2>1, <2>2, <2>3, StillSummary
  <1>2. CASE OpStep \/ RemovalStep("op")
    <2>1. CASE Proceeds
      BY <1>0, <1>2, <2>1, OpSummary DEF Proceeds, AliveInv
    <2>2. CASE go'["op"] = Idle
      BY <1>0, <2>2 DEF AliveInv
    <2> QED
      BY <1>2, <2>1, <2>2, OpSummary
  <1>3. CASE RemovalStep("reconciler")
    <2>1. UNCHANGED am \/ am \in ForceDeleteStates \/ ~Task.alive \/ Task = Idle
      BY <1>3, ReconcilerSummary DEF ReconcilerInv
    <2>2. UNCHANGED am \/ ~(Task # Idle /\ Task.alive)
      BY <2>1, AliveFacts DEF TypeInv
    <2> QED
      BY <1>0, <1>3, <2>2, ReconcilerSummary DEF AliveInv, Task
  <1>4. CASE Start
    BY <1>0, <1>4, StartEffect DEF AliveInv, AliveStates
  <1>5. CASE CancelInstall \/ CancelUpgrade \/ CancelUninstall
    <2>1. Cancels
      BY <1>5, CancelInstallEffect, CancelEffect
    <2> QED
      BY <1>0, <2>1, CancelsSummary DEF AliveInv, TypeInv
  <1>6. CASE ForceDelete
    BY <1>0, <1>6, ForceDeleteEffect DEF AliveInv, Task
  <1>7. CASE Crash
    BY <1>0, <1>7, CrashEffect DEF AliveInv, Actor
  <1> QED
    BY <1>1, <1>2, <1>3, <1>4, <1>5, <1>6, <1>7, NextCases DEF Actor

\* The state while a reconciler removes: nobody else writes one.
LEMMA ReconcilerStep ==
    ASSUME TypeInv, TypeInv', AliveInv, ReconcilerInv, [Next]_vars, ~overtaken'
    PROVE  ReconcilerInv'
  <1>0. Task' = go'["op"] /\ Idle.kind = "none"
    BY DEF Task, Idle
  <1>1. CASE Still
    <2>1. CASE \E op \in OpType : Request(op)
      <3>1. UNCHANGED go /\ go["reconciler"] = Idle
        BY <1>1, <2>1, StillSummary, RequestSummary
      <3> QED
        BY <1>0, <3>1 DEF ReconcilerInv
    <2>2. CASE UNCHANGED am
      BY <1>1, <2>2, StillSummary DEF ReconcilerInv, Task
    <2>3. CASE am \in {"pending", "initializing", "stopping"}
      <3>1. go["reconciler"].kind \notin {"forceDelete", "installingCanceling"}
        BY <2>3 DEF ReconcilerInv, ForceDeleteStates
      <3> QED
        BY <1>1, <3>1, StillSummary DEF ReconcilerInv
    <2> QED
      BY <1>1, <2>1, <2>2, <2>3, StillSummary
  <1>2. CASE OpStep \/ RemovalStep("op")
    <2>1. CASE Proceeds
      BY <1>0, <1>2, <2>1, OpSummary DEF Proceeds, ReconcilerInv
    <2>2. CASE go'["op"] = Idle /\ \E state : EndsWith(state)
      <3>1. CASE Task.alive
        <4>1. am \notin ForceDeleteStates
          BY <1>2, <3>1, OpSummary, AliveFacts DEF TypeInv
        <4>2. go["reconciler"].kind \notin {"forceDelete", "installingCanceling"}
          BY <1>2, <3>1, <4>1, OpSummary DEF ReconcilerInv
        <4> QED
          BY <1>2, <4>2, OpSummary DEF ReconcilerInv
      <3>2. CASE ~Task.alive
        BY <1>0, <1>2, <2>2, <3>2, OpSummary DEF EndsWith, ReconcilerInv
      <3> QED
        BY <3>1, <3>2
    <2> QED
      BY <1>2, <2>1, <2>2, OpSummary
  <1>3. CASE RemovalStep("reconciler")
    <2>1. CASE UNCHANGED am /\ go'["reconciler"].kind = go["reconciler"].kind
      BY <1>0, <1>3, <2>1, ReconcilerSummary DEF ReconcilerInv, Task
    <2>2. CASE go'["reconciler"] = Idle
      BY <1>0, <2>2 DEF ReconcilerInv
    <2> QED
      BY <1>3, <2>1, <2>2, ReconcilerSummary
  <1>4. CASE Start
    BY <1>0, <1>4, StartEffect DEF ReconcilerInv, ForceDeleteStates
  <1>5. CASE CancelInstall
    BY <1>0, <1>5, CancelInstallEffect, CancelsSummary DEF ReconcilerInv, Begins, TypeInv
  <1>6. CASE CancelUpgrade \/ CancelUninstall
    <2>1. go["reconciler"].kind \notin {"forceDelete", "installingCanceling"}
      BY <1>6, CancelEffect DEF ReconcilerInv, ForceDeleteStates
    <2> QED
      BY <1>6, <2>1, CancelEffect DEF ReconcilerInv
  <1>7. CASE ForceDelete
    BY <1>7, ForceDeleteEffect DEF ReconcilerInv, Begins
  <1>8. CASE Crash
    BY <1>0, <1>8, CrashEffect DEF ReconcilerInv, Actor
  <1> QED
    BY <1>1, <1>2, <1>3, <1>4, <1>5, <1>6, <1>7, <1>8, NextCases DEF Actor

-----------------------------------------------------------------------------
(***************************************************************************)
(* What is gone stays so.                                                  *)
(***************************************************************************)
\* An operation is never about to uninstall after one of its other steps.
LEMMA OpNotRelease ==
    ASSUME TypeInv, OpStep
    PROVE  /\ go'["op"].step # "release"
           /\ UNCHANGED am \/ am' \in {"initializing", "stopping"} \/ am' = Failed(Task.kind)
           /\ am' \in GoneStates => UNCHANGED am
  <1>1. ASSUME FailsOnce
        PROVE  go'["op"].step # "release" /\ (UNCHANGED am \/ am' = Failed(Task.kind))
    BY <1>1, FailsSummary DEF Idle, Proceeds, EndsWith
  <1>2. ASSUME NEW state, EndsWith(state)
        PROVE  go'["op"].step # "release" /\ (UNCHANGED am \/ am' = state)
    BY <1>2, EndsWithSummary DEF Idle, EndsWith
  <1>3. ASSUME NEW s \in Steps \ {"idle", "release"}, NEW td, NEW sh, GoesOn(s, td, sh)
        PROVE  go'["op"].step # "release" /\ UNCHANGED am
    BY <1>3, GoesOnSummary DEF Proceeds
  <1>4. /\ go'["op"].step # "release"
        /\ UNCHANGED am \/ am' \in {"initializing", "stopping"} \/ am' = Failed(Task.kind)
    <2>1. CASE Status \/ Prepare \/ Share
      BY <1>2, <1>3, <2>1, StatusEffect, PrepareEffect, ShareEffect DEF Steps
    <2>2. CASE Helm \/ Begin
      BY <1>1, <1>3, <2>2, HelmEffect, BeginEffect DEF Steps
    <2>3. CASE HelmEnds \/ HelmFails \/ HelmGivenUp
      BY <1>1, <1>2, <1>3, <2>3, HelmEndsEffect, HelmFailsEffect DEF Steps
    <2>4. CASE Labels \/ Provider
      BY <1>1, <1>2, <1>3, <2>4, LabelsEffect, ProviderEffect DEF Steps
    <2>5. CASE Wait
      BY <1>1, <1>2, <2>5, WaitEffect
    <2> QED
      BY <2>1, <2>2, <2>3, <2>4, <2>5 DEF OpStep
  <1>5. Task.kind \in HelmKinds
    BY StatusEffect, PrepareEffect, ShareEffect, HelmEffect, BeginEffect, HelmEndsEffect, HelmFailsEffect,
       LabelsEffect, ProviderEffect, WaitEffect DEF OpStep, HelmKinds
  <1>6. Failed(Task.kind) \notin GoneStates
    BY <1>5 DEF Failed, HelmKinds, GoneStates
  <1> QED
    BY <1>4, <1>6 DEF GoneStates

\* What keeps the invariant of the states that are gone.
LEMMA GoneKept ==
    ASSUME GoneInv,
           am' \in GoneStates => am \in GoneStates,
           ns'["main"] = "active" => ns["main"] = "active",
           "main" \in orphan => "main" \in orphan' \/ ns'["main"] # "active",
           go'["op"].step = "release" => go["op"].step = "release" \/ ns'["main"] # "active"
    PROVE  GoneInv'
  BY DEF GoneInv, At

\* What installs after the cancel leaves its trace among the orphans.
LEMMA GoneOpStep ==
    ASSUME TypeInv, AliveInv, GoneInv, OpStep
    PROVE  GoneInv'
  <1>1. SUFFICES ASSUME am' \in GoneStates
                 PROVE  "main" \in orphan' \/ ns'["main"] # "active"
    BY OpNotRelease DEF GoneInv, At
  <1>2. am \in GoneStates
    BY <1>1, OpNotRelease
  <1>3. Task.kind # "none" /\ Task # Idle
    BY OpSummary
  <1>4. ~Task.alive
    BY <1>2, <1>3, AliveFacts DEF GoneStates, TypeInv
  <1>5. "main" \in orphan \/ ns["main"] # "active"
    BY <1>2 DEF GoneInv
  <1>6. CASE \/ Status \/ Prepare \/ Helm \/ HelmEnds \/ HelmFails \/ HelmGivenUp \/ Labels \/ Provider
             \/ Wait
    BY <1>5, <1>6 DEF Status, Prepare, Helm, HelmEnds, HelmFails, HelmGivenUp, Labels, Provider, Wait,
       cluster, ghosts
  <1>7. CASE Share
    <2>1. ns'["main"] = ns["main"] /\ UNCHANGED orphan
      BY <1>7 DEF Share, ghosts, TypeInv, ClusterInv, Chart
    <2> QED
      BY <1>5, <2>1
  <1>8. CASE Begin
    <2>1. CASE BeginsNew(Current)
      <3>1. CASE Current = "main"
        BY <1>4, <2>1, <3>1 DEF BeginsNew
      <3>2. CASE Current = "shared"
        <4>1. ns'["main"] = ns["main"] /\ orphan \subseteq orphan'
          BY <2>1, <3>2 DEF BeginsNew, TypeInv, ClusterInv, Chart
        <4> QED
          BY <1>5, <4>1
      <3> QED
        BY <1>8, <3>1, <3>2, BeginEffect, CurrentChart DEF Chart
    <2>2. CASE UNCHANGED <<ns, orphan>>
      BY <1>5, <2>2
    <2> QED
      BY <1>8, <2>1, <2>2, BeginEffect DEF BeginsUpgrade
  <1> QED
    BY <1>6, <1>7, <1>8 DEF OpStep

\* An installation or uninstallation that removes brings nothing back.
LEMMA GoneOpRemoval ==
    ASSUME TypeInv, AliveInv, GoneInv, RemovalStep("op")
    PROVE  GoneInv'
  <1>1. Task # Idle /\ Task = go["op"] /\ "op" \in Actor
    BY OpSummary DEF Task, Actor
  <1>2. Idle.step = "idle"
    BY DEF Idle
  <1>3. Task.alive => am \notin GoneStates
    BY <1>1, AliveFacts DEF GoneStates, TypeInv
  <1>4. CASE Gone("op")
    <2>1. ns["main"] = "absent" /\ UNCHANGED ns
      BY <1>1, <1>4, GoneEffect DEF Gone, cluster
    <2> QED
      BY <2>1 DEF GoneInv
  <1>5. Failed(Task.kind) \notin GoneStates
    <2>1. go["op"].step \in {"pvc", "release", "namespace", "gone"}
      BY DEF RemovalStep, ListPvcs, HelmUninstall, DeleteNamespace, Gone, GoneTimeout, At
    <2>2. Task.kind \in {"installing", "uninstalling"}
      BY <1>1, <2>1, RemovalPlace
    <2> QED
      BY <2>2 DEF Failed, GoneStates
  <1>6. ASSUME RemovalFails("op")
        PROVE  (am' \in GoneStates => am \in GoneStates /\ UNCHANGED am) /\ go'["op"].step = "idle"
    BY <1>2, <1>5, <1>6, EndsWithSummary DEF RemovalFails, EndsWith
  <1>7. ASSUME NEW s, NEW td, NEW sh, Moves("op", s, td, sh), UNCHANGED am
        PROVE  (am' \in GoneStates => am \in GoneStates /\ UNCHANGED am) /\ go'["op"].step = s
    BY <1>7 DEF Moves
  <1>8. CASE ListPvcs("op")
    <2>1. UNCHANGED <<ns, orphan>>
      BY <1>8 DEF ListPvcs, cluster, ghosts
    <2>2. \/ Task.alive /\ UNCHANGED am
          \/ (am' \in GoneStates => am \in GoneStates) /\ go'["op"].step = "idle"
      BY <1>1, <1>6, <1>8, ListPvcsEffect
    <2>3. CASE Task.alive /\ UNCHANGED am
      BY <1>3, <2>3 DEF GoneInv
    <2>4. CASE (am' \in GoneStates => am \in GoneStates) /\ go'["op"].step = "idle"
      BY <2>1, <2>4, GoneKept
    <2> QED
      BY <2>2, <2>3, <2>4
  <1>9. CASE HelmUninstall("op")
    <2>1. (am' \in GoneStates => am \in GoneStates) /\ go'["op"].step # "release"
      BY <1>1, <1>6, <1>7, <1>9, HelmUninstallEffect
    <2>2. UNCHANGED ns /\ At("op", "release")
      BY <1>9 DEF HelmUninstall
    <2> QED
      BY <2>1, <2>2 DEF GoneInv, At
  <1>10. CASE DeleteNamespace("op")
    <2>1. ASSUME Removes("op")
          PROVE  \/ Moves("op", "gone", go["op"].todo, go["op"].share) /\ UNCHANGED am
                 \/ RemovalFails("op")
      BY <2>1 DEF Removes, RemovalFails, Failed
    <2>2. (am' \in GoneStates => am \in GoneStates) /\ go'["op"].step # "release"
      BY <1>1, <1>6, <1>7, <1>10, <2>1, DeleteNamespaceEffect
    <2>3. ns'["main"] = "active" => ns["main"] = "active"
      BY <1>1, <1>10, DeleteNamespaceEffect DEF TypeInv, ClusterInv, Chart
    <2>4. UNCHANGED orphan
      BY <1>10 DEF DeleteNamespace, ghosts
    <2> QED
      BY <2>2, <2>3, <2>4, GoneKept
  <1>11. CASE GoneTimeout("op")
    <2>1. (am' \in GoneStates => am \in GoneStates) /\ go'["op"].step # "release"
      BY <1>1, <1>6, <1>11, GoneTimeoutEffect
    <2>2. UNCHANGED <<ns, orphan>>
      BY <1>11 DEF GoneTimeout, cluster, ghosts
    <2> QED
      BY <2>1, <2>2, GoneKept
  <1> QED
    BY <1>4, <1>8, <1>9, <1>10, <1>11 DEF RemovalStep

\* What the reconciler reports as gone is gone or going.
LEMMA GoneReconciler ==
    ASSUME TypeInv, ReconcilerInv, GoneInv, RemovalStep("reconciler")
    PROVE  GoneInv'
  <1>1. am \notin GoneStates
    BY ReconcilerSummary DEF ReconcilerInv, GoneStates, ForceDeleteStates
  <1>2. CASE am' \notin GoneStates
    BY <1>2 DEF GoneInv
  <1>3. CASE am' \in GoneStates
    <2>1. ns'["main"] # "active"
      BY <1>1, <1>3, ReconcilerSummary DEF GoneStates, TypeInv, ClusterInv, Chart
    <2> QED
      BY <2>1 DEF GoneInv
  <1> QED
    BY <1>2, <1>3

\* What is gone stays so, over every step.
LEMMA GoneStep ==
    ASSUME TypeInv, AliveInv, ReconcilerInv, GoneInv, [Next]_vars, ~overtaken'
    PROVE  GoneInv'
  <1>1. CASE Still
    <2>1. am' \in GoneStates => am \in GoneStates /\ UNCHANGED am
      BY <1>1, StillSummary, RequestSummary DEF GoneStates
    <2>2. UNCHANGED go
      BY <1>1, StillTasks
    <2>3. CASE \E c \in Chart : NamespaceGone(c)
      <3>1. /\ ns'["main"] = "active" => ns["main"] = "active"
            /\ "main" \in orphan => "main" \in orphan' \/ ns'["main"] # "active"
        BY <2>3 DEF NamespaceGone, TypeInv, ClusterInv, Chart
      <3> QED
        BY <2>1, <2>2, <3>1, GoneKept
    <2>4. CASE ~\E c \in Chart : NamespaceGone(c)
      <3>1. (ns'["main"] = "active" => ns["main"] = "active") /\ UNCHANGED orphan
        BY <1>1, <2>4 DEF Still, Request, Pending, InstallFailed, Settle, LateEnds, PodStarts, OtherInstalls,
           cluster, ghosts, vars, TypeInv, ClusterInv, Chart
      <3> QED
        BY <2>1, <2>2, <3>1, GoneKept
    <2> QED
      BY <2>3, <2>4
  <1>2. CASE Start \/ CancelInstall \/ CancelUpgrade \/ CancelUninstall \/ ForceDelete
    <2>1. am' \notin GoneStates
      BY <1>2, StartEffect, CancelInstallEffect, CancelEffect, ForceDeleteEffect DEF GoneStates, ForceDeleteStates
    <2> QED
      BY <2>1 DEF GoneInv
  <1>3. CASE Crash
    <2>1. go'["op"].step = "idle"
      BY <1>3, CrashEffect DEF Idle, Actor
    <2>2. UNCHANGED <<am, ns, orphan>>
      BY <1>3 DEF Crash
    <2> QED
      BY <2>1, <2>2, GoneKept
  <1> QED
    BY <1>1, <1>2, <1>3, NextCases, GoneOpStep, GoneOpRemoval, GoneReconciler DEF Actor

-----------------------------------------------------------------------------
(***************************************************************************)
(* What is installed has a release.                                        *)
(***************************************************************************)
\* The namespace is there, and the release is not.
Bare == ns["main"] = "active" /\ rel["main"] = "none"

\* Only an uninstallation makes it so.
LEMMA BareKept ==
    ASSUME TypeInv, Still \/ OpStep, Bare'
    PROVE  Bare
  <1>1. CASE \/ \E op \in OpType : Request(op)
             \/ UNCHANGED vars \/ Settle \/ PodStarts
             \/ Status \/ Prepare \/ Helm \/ Provider \/ Wait \/ Labels
    BY <1>1 DEF Bare, Request, vars, Settle, PodStarts, Status, Prepare, Helm, Provider, Wait, Labels, cluster
  <1>2. CASE Pending \/ InstallFailed
    BY <1>2 DEF Bare, Pending, InstallFailed, TypeInv, ClusterInv, Chart
  <1>3. CASE LateEnds
    BY <1>3 DEF Bare, LateEnds, TypeInv, ClusterInv, Chart
  <1>4. CASE \E c \in Chart : NamespaceGone(c)
    BY <1>4 DEF Bare, NamespaceGone, TypeInv, ClusterInv, Chart
  <1>5. CASE OtherInstalls
    BY <1>5 DEF Bare, OtherInstalls, TypeInv, ClusterInv, Chart
  <1>6. CASE Share
    BY <1>6 DEF Bare, Share, TypeInv, ClusterInv, Chart
  <1>7. CASE Begin
    BY <1>7, CurrentChart, BeginEffect DEF Bare, BeginsNew, BeginsUpgrade, TypeInv, ClusterInv, Chart
  <1>8. CASE HelmEnds
    BY <1>8, CurrentChart, HelmEndsEffect DEF Bare, HelmEnds, TypeInv, ClusterInv, Chart
  <1>9. CASE HelmFails \/ HelmGivenUp
    BY <1>9, CurrentChart, HelmFailsEffect DEF Bare, HelmFails, HelmGivenUp, RecordFailed, TypeInv,
       ClusterInv, Chart
  <1> QED
    BY <1>1, <1>2, <1>3, <1>4, <1>5, <1>6, <1>7, <1>8, <1>9 DEF Still, OpStep

\* The kinds of operation that work with helm.
LEMMA OpKind ==
    ASSUME TypeInv, OpStep
    PROVE  Task.kind \in HelmKinds
  BY StatusEffect, PrepareEffect, ShareEffect, HelmEffect, BeginEffect, HelmEndsEffect, HelmFailsEffect,
     LabelsEffect, ProviderEffect, WaitEffect DEF OpStep, HelmKinds

\* An operation that succeeds has a release, one that fails has not lost it.
LEMMA InstalledOpStep ==
    ASSUME TypeInv, AliveInv, InstalledInv, ThroughInv, OpStep
    PROVE  InstalledInv'
  <1>1. SUFFICES ASSUME am' \in InstalledStates
                 PROVE  ~Bare' /\ go'["op"].kind \in {"none", "upgrading", "applyingEnv"}
    BY DEF InstalledInv, Bare, Task
  <1>2. Task.kind \in HelmKinds /\ Task # Idle /\ Idle.kind = "none"
    BY OpKind, OpSummary DEF Idle
  <1>3. CASE am \in InstalledStates
    <2>1. ~Bare /\ Task.kind \in {"none", "upgrading", "applyingEnv"}
      BY <1>3 DEF InstalledInv, Bare
    <2> QED
      BY <1>2, <2>1, BareKept, OpSummary DEF Proceeds
  <1>4. CASE am \notin InstalledStates
    <2>1. PICK state : EndsWith(state) /\ Result(state) /\ go'["op"] = Idle
      BY <1>1, <1>4, OpSummary DEF Proceeds
    <2>2. Task.alive /\ am' = state
      BY <1>1, <1>4, <2>1 DEF EndsWith
    <2>3. Task.kind = "installing"
      <3>1. am \in AliveStates(Task.kind)
        BY <1>2, <2>2 DEF AliveInv
      <3> QED
        BY <1>2, <1>4, <3>1 DEF AliveStates, HelmKinds, InstalledStates
    <2>4. Task.step = "wait"
      BY <1>1, <2>1, <2>2, <2>3 DEF Result, Failed, InstalledStates
    <2>5. ~Bare
      BY <2>2, <2>3, <2>4 DEF ThroughInv, Through, Bare
    <2> QED
      BY <1>2, <2>1, <2>5, BareKept
  <1> QED
    BY <1>3, <1>4

\* What is installed has a release, over every step.
LEMMA InstalledStep ==
    ASSUME TypeInv, TypeInv', AliveInv, ReconcilerInv, InstalledInv, ThroughInv, [Next]_vars, ~overtaken'
    PROVE  InstalledInv'
  <1>0. Task' = go'["op"] /\ Idle.kind = "none"
    BY DEF Task, Idle
  <1>1. CASE Still
    <2>1. am' \in InstalledStates => am \in InstalledStates
      BY <1>1, StillSummary, RequestSummary DEF InstalledStates
    <2>2. UNCHANGED go
      BY <1>1, StillTasks
    <2> QED
      BY <1>1, <2>1, <2>2, BareKept DEF InstalledInv, Bare, Task
  <1>2. CASE RemovalStep("op")
    <2>1. Task.kind \in {"installing", "uninstalling"}
      <3>1. go["op"].step \in {"pvc", "release", "namespace", "gone"}
        BY <1>2 DEF RemovalStep, ListPvcs, HelmUninstall, DeleteNamespace, Gone, GoneTimeout, At
      <3> QED
        BY <3>1, RemovalPlace DEF Actor
    <2>2. Task.step # "wait"
      BY <1>2 DEF RemovalStep, ListPvcs, HelmUninstall, DeleteNamespace, Gone, GoneTimeout, At, Task
    <2>3. am \notin InstalledStates
      BY <2>1 DEF InstalledInv
    <2>4. am' \notin InstalledStates
      BY <1>2, <2>1, <2>2, <2>3, OpSummary DEF Proceeds, EndsWith, Result, Failed, InstalledStates
    <2> QED
      BY <2>4 DEF InstalledInv
  <1>3. CASE RemovalStep("reconciler")
    <2>1. am' \notin InstalledStates
      BY <1>3, ReconcilerSummary DEF ReconcilerInv, InstalledStates, ForceDeleteStates
    <2> QED
      BY <2>1 DEF InstalledInv
  <1>4. CASE Start
    <2>1. UNCHANGED <<am, ns, rel>>
      BY <1>4 DEF Start, cluster
    <2>2. am \in InstalledStates => go'["op"].kind \in {"upgrading", "applyingEnv"}
      BY <1>4, StartEffect DEF InstalledStates
    <2> QED
      BY <1>0, <2>1, <2>2 DEF InstalledInv
  <1>5. CASE CancelInstall \/ CancelUpgrade \/ CancelUninstall
    <2>1. am' \in InstalledStates => am \in InstalledStates
      BY <1>5, CancelInstallEffect, CancelEffect DEF InstalledStates
    <2>2. go'["op"].kind = Task.kind
      BY <1>5, CancelInstallEffect, CancelEffect DEF Cancels
    <2>3. UNCHANGED <<ns, rel>>
      BY <1>5 DEF CancelInstall, CancelUpgrade, CancelUninstall, cluster
    <2> QED
      BY <1>0, <2>1, <2>2, <2>3 DEF InstalledInv
  <1>6. CASE ForceDelete
    <2>1. am' \notin InstalledStates
      BY <1>6, ForceDeleteEffect DEF InstalledStates, ForceDeleteStates
    <2> QED
      BY <2>1 DEF InstalledInv
  <1>7. CASE Crash
    <2>1. go'["op"].kind = "none"
      BY <1>0, <1>7, CrashEffect DEF Actor
    <2>2. UNCHANGED <<am, ns, rel>>
      BY <1>7 DEF Crash
    <2> QED
      BY <1>0, <2>1, <2>2 DEF InstalledInv
  <1> QED
    BY <1>1, <1>2, <1>3, <1>4, <1>5, <1>6, <1>7, NextCases, InstalledOpStep DEF Actor

\* An installation that is through, after a step, was through before it, or
\* has just found or made the release.
LEMMA ThroughOpStep ==
    ASSUME TypeInv, ThroughInv, OpStep
    PROVE  ThroughInv'
  <1> DEFINE p == go'["op"]
             Past == p.step \in {"labels", "provider", "wait"} \/ (p.step = "helm" /\ p.todo = <<>>)
  <1>1. SUFFICES ASSUME p.kind = "installing", p.alive, ns'["main"] = "active", Past
                 PROVE  rel'["main"] # "none"
    BY DEF ThroughInv, Through, At, Task
  <1>2. /\ go'["op"] # Idle /\ UNCHANGED am /\ Task.kind = "installing" /\ Task.alive
        /\ p.step \notin {"idle", "pvc"}
    <2>1. Idle.kind = "none" /\ Idle.step = "idle"
      BY DEF Idle
    <2> QED
      BY <1>1, <2>1, OpSummary DEF Proceeds
  <1>3. ASSUME Through
        PROVE  rel'["main"] # "none"
    <2>1. Bare' => Bare
      BY BareKept
    <2> QED
      BY <1>1, <1>2, <1>3, <2>1 DEF Bare, ThroughInv
  <1>4. ~FailsOnce
    BY <1>2, FailsSummary
  <1>5. ASSUME NEW state, EndsWith(state)
        PROVE  FALSE
    BY <1>2, <1>5, EndsWithSummary
  <1>6. \A s \in Steps \ {"idle"} : \A td, sh : GoesOn(s, td, sh) => p.step = s /\ p.todo = td
    BY GoesOnSummary
  <1>7. CASE Status
    BY <1>2, <1>7, StatusEffect
  <1>8. CASE Prepare \/ Share
    <2>1. Task.todo # <<>>
      BY <1>2, <1>8, PrepareEffect, ShareEffect, TaskRange DEF TypeInv, PlaceOf
    <2>2. p.step \in {"share", "helm", "provider"} /\ p.todo = Task.todo /\ p.step # "provider"
      BY <1>2, <1>5, <1>6, <1>8, PrepareEffect, ShareEffect DEF Steps
    <2> QED
      BY <1>1, <2>1, <2>2
  <1>9. CASE Helm
    <2>1. CASE Task.todo = <<>>
      <3>1. Through
        BY <1>9, <2>1, HelmEffect DEF Through, At, Task
      <3> QED
        BY <1>3, <3>1
    <2>2. CASE Task.todo # <<>> /\ Skipped(Current) /\ GoesOn("helm", Tail(Task.todo), Task.share)
      <3>1. Tail(Task.todo) = <<>>
        BY <1>1, <1>6, <2>2 DEF Steps
      <3>2. Current = "main"
        <4>1. <<"main">> # <<>>
          OBVIOUS
        <4> QED
          BY <2>2, <3>1, <4>1, TaskRange, TailTodos DEF TypeInv, Current
      <3>3. rel["main"] # "none" /\ UNCHANGED rel
        BY <1>2, <1>9, <2>2, <3>2 DEF Skipped, Helm, cluster
      <3> QED
        BY <3>3
    <2>3. CASE \E sh : GoesOn("begin", Task.todo, sh)
      BY <1>1, <1>6, <2>3 DEF Steps
    <2> QED
      BY <1>4, <1>9, <2>1, <2>2, <2>3, HelmEffect
  <1>10. CASE Begin
    BY <1>1, <1>4, <1>6, <1>10, BeginEffect DEF Steps
  <1>11. CASE HelmEnds
    <2>1. GoesOn("helm", Tail(Task.todo), Task.share) /\ Task.todo # <<>>
      BY <1>5, <1>11, HelmEndsEffect
    <2>2. Tail(Task.todo) = <<>>
      BY <1>1, <1>6, <2>1 DEF Steps
    <2>3. Current = "main"
      <3>1. <<"main">> # <<>>
        OBVIOUS
      <3> QED
        BY <2>1, <2>2, <3>1, TaskRange, TailTodos DEF TypeInv, Current
    <2> QED
      BY <1>11, <2>3 DEF HelmEnds, TypeInv, ClusterInv, Chart
  <1>12. CASE HelmFails \/ HelmGivenUp
    BY <1>4, <1>12, HelmFailsEffect
  <1>13. CASE Labels \/ Provider \/ Wait
    <2>1. Through
      BY <1>13, LabelsEffect, ProviderEffect, WaitEffect DEF Through
    <2> QED
      BY <1>3, <2>1
  <1> QED
    BY <1>7, <1>8, <1>9, <1>10, <1>11, <1>12, <1>13 DEF OpStep

\* An installation that is through with helm has a release, over every step.
LEMMA ThroughStep ==
    ASSUME TypeInv, TypeInv', AliveInv, ReconcilerInv, ThroughInv, [Next]_vars, ~overtaken'
    PROVE  ThroughInv'
  <1>0. Task' = go'["op"] /\ Idle.kind = "none"
    BY DEF Task, Idle
  <1>1. CASE Still
    <2>1. UNCHANGED go
      BY <1>1, StillTasks
    <2>2. Bare' => Bare
      BY <1>1, BareKept
    <2> QED
      BY <2>1, <2>2 DEF ThroughInv, Through, At, Bare, Task
  <1>2. CASE RemovalStep("op")
    <2>1. go'["op"].step \in {"idle", "pvc", "release", "namespace", "gone"}
      <3>1. ASSUME NEW state, EndsWith(state)
            PROVE  go'["op"].step = "idle"
        BY <3>1, EndsWithSummary DEF Idle
      <3>2. RemovalFails("op") => go'["op"].step = "idle"
        BY <3>1 DEF RemovalFails
      <3>3. \A s, td, sh : Moves("op", s, td, sh) => go'["op"].step = s
        BY DEF Moves
      <3>4. CASE ListPvcs("op") \/ HelmUninstall("op")
        BY <3>2, <3>3, <3>4, ListPvcsEffect, HelmUninstallEffect DEF Actor
      <3>5. CASE DeleteNamespace("op")
        <4>1. Removes("op") => go'["op"].step \in {"gone", "idle"}
          BY <3>1, <3>3 DEF Removes
        <4> QED
          BY <3>2, <3>3, <3>5, <4>1, DeleteNamespaceEffect DEF Actor
      <3>6. CASE Gone("op") \/ GoneTimeout("op")
        BY <3>1, <3>2, <3>6, GoneEffect, GoneTimeoutEffect DEF Actor
      <3> QED
        BY <1>2, <3>4, <3>5, <3>6 DEF RemovalStep
    <2> QED
      BY <1>0, <2>1 DEF ThroughInv, Through, At
  <1>3. CASE RemovalStep("reconciler")
    <2>1. Task = Idle \/ ~Task.alive
      BY <1>3, ReconcilerSummary, AliveFacts DEF ReconcilerInv, TypeInv
    <2>2. go'["op"] = Task
      BY <1>3, ReconcilerSummary DEF Task
    <2> QED
      BY <1>0, <2>1, <2>2 DEF ThroughInv
  <1>4. CASE Start
    <2>1. go'["op"].step \in {"prepare", "pvc", "status"}
      BY <1>4, StartEffect
    <2> QED
      BY <1>0, <2>1 DEF ThroughInv, Through, At
  <1>5. CASE CancelInstall \/ CancelUpgrade \/ CancelUninstall
    <2>1. go'["op"] = Idle \/ ~go'["op"].alive
      BY <1>5, CancelInstallEffect, CancelEffect, CancelsSummary DEF TypeInv
    <2> QED
      BY <1>0, <2>1 DEF ThroughInv
  <1>6. CASE ForceDelete
    <2>1. go'["op"] = go["op"] /\ UNCHANGED <<ns, rel>>
      BY <1>6, ForceDeleteEffect DEF ForceDelete, cluster
    <2> QED
      BY <2>1 DEF ThroughInv, Through, At, Task
  <1>7. CASE Crash
    <2>1. go'["op"].kind = "none"
      BY <1>0, <1>7, CrashEffect DEF Actor
    <2> QED
      BY <1>0, <2>1 DEF ThroughInv
  <1> QED
    BY <1>1, <1>2, <1>3, <1>4, <1>5, <1>6, <1>7, NextCases, ThroughOpStep DEF Actor

\* An operation that begins when no reconciler is removing.
LEMMA StateStart ==
    ASSUME TypeInv, Start, am \in {"installing", "uninstalling"}, go["reconciler"] = Idle
    PROVE  AliveInv' /\ ReconcilerInv' /\ GoneInv' /\ InstalledInv' /\ ThroughInv'
  <1>1. /\ Task' = go'["op"] /\ Idle.kind = "none" /\ UNCHANGED am
        /\ go'["reconciler"] = Idle /\ go'["op"].kind = am
        /\ go'["op"].step \in {"prepare", "pvc"}
    BY StartEffect DEF Task, Idle
  <1> QED
    BY <1>1 DEF AliveInv, AliveStates, ReconcilerInv, GoneInv, GoneStates, InstalledInv, InstalledStates,
       ThroughInv, Through, At

\* The state, while no request has overtaken a reconciler, over every step.
LEMMA StateStep ==
    ASSUME TypeInv, StateInv, [Next]_vars
    PROVE  StateInv'
  <1>1. SUFFICES ASSUME ~overtaken'
                 PROVE  AliveInv' /\ ReconcilerInv' /\ GoneInv' /\ InstalledInv' /\ ThroughInv'
    BY DEF StateInv
  <1>2. CASE ~overtaken
    <2>1. AliveInv /\ ReconcilerInv /\ GoneInv /\ InstalledInv /\ ThroughInv
      BY <1>2 DEF StateInv
    <2>2. TypeInv'
      BY TypeStep
    <2> QED
      BY <1>1, <2>1, <2>2, AliveStep, ReconcilerStep, GoneStep, InstalledStep, ThroughStep
  <1>3. CASE Start /\ am \in {"installing", "uninstalling"} /\ go["reconciler"] = Idle
    BY <1>3, StateStart
  <1> QED
    BY <1>1, <1>2, <1>3, Overtaken

-----------------------------------------------------------------------------
(***************************************************************************)
(* The shared chart of another owner.                                      *)
(***************************************************************************)
\* Another owner's shared chart is neither removed in the step, nor does this
\* owner decide to install or to remove it.
LEMMA SharedFrame ==
    ASSUME SharedInv,
           sharedBy' = "other" =>
             /\ sharedBy = "other"
             /\ rel["shared"] # "none" => rel'["shared"] # "none"
             /\ installer = "owner" => installer' = "owner",
           sharedBy = "other" /\ sharedBy' = "other" =>
             /\ go'["op"].kind = "installing" /\ go'["op"].share => Installing("op")
             /\ go'["op"].step \in {"pvc", "release", "namespace"} /\ Head(go'["op"].todo) = "shared" =>
                  \/ go'["op"].kind = "uninstalling" /\ go'["op"].share
                  \/ go'["op"].kind = Task.kind /\ go'["op"].share = Task.share /\ Removing("op")
             /\ go'["reconciler"].step \in {"pvc", "release", "namespace"}
                  /\ Head(go'["reconciler"].todo) = "shared" =>
                  installer' = "owner" \/ Removing("reconciler")
    PROVE  SharedInv'
  <1>1. SUFFICES ASSUME sharedBy' = "other"
                 PROVE  /\ rel'["shared"] # "none"
                        /\ ~(go'["op"].kind = "installing" /\ go'["op"].share)
                        /\ go'["op"].step \in {"pvc", "release", "namespace"} /\ Head(go'["op"].todo) = "shared" =>
                             go'["op"].kind = "uninstalling" /\ go'["op"].share
                        /\ go'["reconciler"].step \in {"pvc", "release", "namespace"}
                             /\ Head(go'["reconciler"].todo) = "shared" => installer' = "owner"
    BY DEF SharedInv, Installing, Removing, UninstallsAll
  <1> QED
    BY <1>1 DEF SharedInv, UninstallsAll, Task

\* What is installed, and who installed it, over the steps of the operation.
LEMMA SharedCluster ==
    ASSUME TypeInv, OpStep, sharedBy' = "other"
    PROVE  /\ sharedBy = "other"
           /\ rel["shared"] # "none" => rel'["shared"] # "none"
           /\ installer = "owner" => installer' = "owner"
  <1>1. CASE Status \/ Prepare \/ Helm \/ Provider \/ Wait \/ Labels
    BY <1>1 DEF Status, Prepare, Helm, Provider, Wait, Labels, cluster, ghosts
  <1>2. CASE Share
    BY <1>2 DEF Share, ghosts
  <1>3. CASE Begin
    <2>1. UNCHANGED installer
      BY <1>3 DEF Begin
    <2> QED
      BY <1>3, <2>1, CurrentChart, BeginEffect DEF BeginsNew, BeginsUpgrade, TypeInv, ClusterInv, Chart
  <1>4. CASE HelmEnds
    BY <1>4, CurrentChart, HelmEndsEffect DEF HelmEnds, ghosts, TypeInv, ClusterInv, Chart
  <1>5. CASE HelmFails \/ HelmGivenUp
    BY <1>5, CurrentChart, HelmFailsEffect DEF HelmFails, HelmGivenUp, RecordFailed, TypeInv,
       ClusterInv, Chart
  <1> QED
    BY <1>1, <1>2, <1>3, <1>4, <1>5 DEF OpStep

\* Install does not decide for a shared chart that another owner has installed.
LEMMA SharedOpStep ==
    ASSUME TypeInv, SharedInv, OpStep
    PROVE  SharedInv'
  <1> DEFINE p == go'["op"]
             Safe == /\ go'["reconciler"] = go["reconciler"]
                     /\ p.kind = "installing" /\ p.share => Installing("op")
                     /\ ~(p.step \in {"pvc", "release", "namespace"} /\ Head(p.todo) = "shared")
  <1>1. ASSUME sharedBy = "other", FailsOnce
        PROVE  Safe
    <2>1. CASE Task.kind = "installing" /\ GoesOn("pvc", Removed(Task.share), Task.share)
      <3>1. Task.share = FALSE
        BY <1>1, <2>1, TaskRange DEF SharedInv, Installing, Task, TypeInv
      <3>2. Head(Removed(Task.share)) = "main"
        BY <3>1 DEF Removed
      <3>3. p.todo = Removed(Task.share) /\ p.share = FALSE /\ go'["reconciler"] = go["reconciler"]
        BY <2>1, <3>1 DEF GoesOn, Moves, Actor
      <3> QED
        BY <3>2, <3>3
    <2>2. CASE EndsWith(Failed(Task.kind))
      BY <2>2, EndsWithSummary DEF Idle
    <2> QED
      BY <1>1, <2>1, <2>2 DEF FailsOnce
  <1>2. ASSUME NEW state, EndsWith(state)
        PROVE  Safe
    BY <1>2, EndsWithSummary DEF Idle
  <1>3. ASSUME NEW s \in Steps \ {"idle", "pvc", "release", "namespace"}, NEW td, GoesOn(s, td, Task.share)
        PROVE  Safe
    BY <1>3 DEF GoesOn, Moves, Actor, Installing, Task
  <1>4. ASSUME sharedBy = "other"
        PROVE  Safe
    <2> HIDE DEF Safe
    <2>1. CASE Status \/ Prepare \/ Share
      BY <1>2, <1>3, <2>1, StatusEffect, PrepareEffect, ShareEffect DEF Steps
    <2>2. CASE Helm
      <3>1. CASE GoesOn("begin", Task.todo, Task.share \/ (Task.kind = "installing" /\ Current = "shared"))
                 /\ Startable(Current)
        <4>1. ~(Task.kind = "installing" /\ Current = "shared")
          BY <1>4, <3>1 DEF SharedInv, Startable
        <4>2. p.kind = Task.kind /\ p.step = "begin" /\ (p.share <=> Task.share)
              /\ go'["reconciler"] = go["reconciler"]
          BY <3>1, <4>1 DEF GoesOn, Moves, Actor, Task
        <4> QED
          BY <4>2 DEF Safe, Installing, Task
      <3> QED
        BY <1>1, <1>3, <1>4, <2>2, <3>1, HelmEffect DEF Steps
    <2>3. CASE Begin
      BY <1>1, <1>3, <1>4, <2>3, BeginEffect DEF Steps
    <2>4. CASE HelmEnds \/ HelmFails \/ HelmGivenUp
      BY <1>1, <1>2, <1>3, <1>4, <2>4, HelmEndsEffect, HelmFailsEffect DEF Steps
    <2>5. CASE Labels \/ Provider
      BY <1>1, <1>2, <1>3, <1>4, <2>5, LabelsEffect, ProviderEffect DEF Steps
    <2>6. CASE Wait
      BY <1>1, <1>2, <1>4, <2>6, WaitEffect
    <2> QED
      BY <2>1, <2>2, <2>3, <2>4, <2>5, <2>6 DEF OpStep
  <1> QED
    BY <1>4, SharedCluster, SharedFrame DEF Removing

\* A removal removes a shared chart only where the invariant allows it.
LEMMA SharedRemoval ==
    ASSUME TypeInv, SharedInv, NEW x \in Actor, RemovalStep(x)
    PROVE  SharedInv'
  <1> DEFINE Same(y)    == go'[y].kind = go[y].kind /\ go'[y].share = go[y].share
             Removes1(y) == go'[y].step \in {"pvc", "release", "namespace"} /\ Head(go'[y].todo) = "shared"
             Less(y)    == /\ go'[y].kind = "installing" /\ go'[y].share => Installing(y)
                           /\ Removes1(y) => Same(y) /\ Removing(y)
  <1>1. \A y \in Actor : go'[y] = go[y] => Less(y)
    BY DEF Installing, Removing
  <1>2. \A y \in Actor : go'[y] = Idle => Less(y)
    BY DEF Idle
  <1>3. ASSUME NEW s, NEW td, Moves(x, s, td, go[x].share),
               s \in {"pvc", "release", "namespace"} /\ Head(td) = "shared" => Removing(x)
        PROVE  \A y \in Actor : Less(y)
    <2>1. Less(x)
      BY <1>3 DEF Moves, Installing
    <2> QED
      BY <1>1, <1>3, <2>1 DEF Moves
  <1>4. ASSUME Ends(x)
        PROVE  \A y \in Actor : Less(y)
    BY <1>1, <1>2, <1>4 DEF Ends
  <1>5. ASSUME RemovalFails(x)
        PROVE  \A y \in Actor : Less(y)
    BY <1>4, <1>5 DEF RemovalFails, EndsWith
  <1> HIDE DEF Less
  <1>6. CASE ListPvcs(x)
    <2>1. \A y \in Actor : Less(y)
      BY <1>3, <1>5, <1>6, ListPvcsEffect DEF Removing
    <2>2. UNCHANGED <<sharedBy, rel, installer>>
      BY <1>6 DEF ListPvcs, cluster, ghosts
    <2> QED
      BY <2>1, <2>2, SharedFrame DEF Less, Task, Actor
  <1>7. CASE HelmUninstall(x)
    <2>1. \A y \in Actor : Less(y)
      BY <1>3, <1>5, <1>7, HelmUninstallEffect DEF Removing
    <2>2. /\ sharedBy' = "other" => sharedBy = "other" /\ rel'["shared"] = rel["shared"]
          /\ UNCHANGED installer
      BY <1>7, RemovedChart, HelmUninstallEffect DEF HelmUninstall, TypeInv, ClusterInv, Chart
    <2> QED
      BY <2>1, <2>2, SharedFrame DEF Less, Task, Actor
  <1>8. CASE DeleteNamespace(x)
    <2>1. ASSUME Head(go[x].todo) = "shared", Moves(x, "pvc", Tail(go[x].todo), go[x].share)
          PROVE  \A y \in Actor : Less(y)
      <3>1. Tail(go[x].todo) = <<"main">>
        BY <1>8, <2>1, RemovedChart, DeleteNamespaceEffect
      <3>2. Head(<<"main">>) = "main"
        OBVIOUS
      <3> QED
        BY <1>3, <2>1, <3>1, <3>2
    <2>2. ASSUME Removes(x)
          PROVE  \A y \in Actor : Less(y)
      <3>1. "gone" \notin {"pvc", "release", "namespace"}
        OBVIOUS
      <3> QED
        BY <1>3, <1>4, <2>2, <3>1 DEF Removes, EndsWith
    <2>3. \A y \in Actor : Less(y)
      BY <1>5, <1>8, <2>1, <2>2, DeleteNamespaceEffect
    <2>4. UNCHANGED <<sharedBy, rel, installer>>
      BY <1>8 DEF DeleteNamespace, ghosts
    <2> QED
      BY <2>3, <2>4, SharedFrame DEF Less, Task, Actor
  <1>9. CASE Gone(x) \/ GoneTimeout(x)
    <2>1. \A y \in Actor : Less(y)
      BY <1>4, <1>5, <1>9, GoneEffect, GoneTimeoutEffect DEF EndsWith
    <2>2. UNCHANGED <<sharedBy, rel, installer>>
      BY <1>9 DEF Gone, GoneTimeout, cluster, ghosts
    <2> QED
      BY <2>1, <2>2, SharedFrame DEF Less, Task, Actor
  <1> QED
    BY <1>6, <1>7, <1>8, <1>9 DEF RemovalStep

\* The shared chart of another owner, over every step.
LEMMA SharedStep ==
    ASSUME TypeInv, TypeInv', SharedInv, [Next]_vars
    PROVE  SharedInv'
  <1>1. CASE Still
    <2>1. UNCHANGED go
      BY <1>1, StillTasks
    <2>2. CASE OtherInstalls
      <3>1. CASE sharedBy' = "other"
        <4>1. \A x \in Actor : ~Installing(x) /\ ~Removing(x)
          BY <2>2, <3>1 DEF OtherInstalls
        <4>2. rel'["shared"] = "deployed"
          BY <2>2 DEF OtherInstalls, TypeInv, ClusterInv, Chart
        <4> QED
          BY <2>1, <4>1, <4>2 DEF SharedInv, Installing, Removing, Actor
      <3> QED
        BY <3>1 DEF SharedInv
    <2>3. CASE ~OtherInstalls
      <3>1. sharedBy' = "other" =>
              /\ sharedBy = "other" /\ (rel["shared"] # "none" => rel'["shared"] # "none")
              /\ UNCHANGED installer
        <4>1. CASE LateEnds
          <5>1. UNCHANGED <<sharedBy, installer>>
            BY <4>1 DEF LateEnds, ghosts
          <5>2. rel["shared"] # "none" => rel'["shared"] # "none"
            BY <4>1 DEF LateEnds, TypeInv, ClusterInv, Chart
          <5> QED
            BY <5>1, <5>2
        <4>2. CASE \E c \in Chart : NamespaceGone(c)
          BY <4>2 DEF NamespaceGone, TypeInv, ClusterInv, Chart
        <4> QED
          BY <1>1, <2>3, <4>1, <4>2 DEF Still, Request, Pending, InstallFailed, Settle, PodStarts, cluster,
             ghosts, vars
      <3> QED
        BY <2>1, <3>1, SharedFrame DEF Installing, Removing, Task
    <2> QED
      BY <2>2, <2>3
  <1>2. CASE Start
    <2>1. UNCHANGED <<sharedBy, rel, installer>>
      BY <1>2 DEF Start, cluster, ghosts
    <2>2. /\ go'["reconciler"] = go["reconciler"]
          /\ go'["op"].kind = "installing" => go'["op"].share = FALSE
          /\ go'["op"].step \in {"pvc", "release", "namespace"} /\ Head(go'["op"].todo) = "shared" =>
               go'["op"].kind = "uninstalling" /\ go'["op"].share
      BY <1>2, StartEffect
    <2> QED
      BY <2>1, <2>2, SharedFrame DEF Removing
  <1>3. CASE CancelInstall \/ CancelUpgrade \/ CancelUninstall
    <2>1. UNCHANGED <<sharedBy, rel, installer>>
      BY <1>3 DEF CancelInstall, CancelUpgrade, CancelUninstall, cluster, ghosts
    <2>2. /\ go'["op"].kind = Task.kind /\ go'["op"].step = Task.step
          /\ go'["op"].share = Task.share /\ go'["op"].todo = Task.todo
      BY <1>3, CancelInstallEffect, CancelEffect DEF Cancels
    <2>3. go'["reconciler"].step \in {"pvc", "release", "namespace"}
            /\ Head(go'["reconciler"].todo) = "shared" => installer = "owner" \/ Removing("reconciler")
      <3>1. CASE Begins("installingCanceling", Removed(ShareIsOurs))
        <4>1. Head(Removed(ShareIsOurs)) = "shared" => ShareIsOurs
          BY DEF Removed
        <4> QED
          BY <3>1, <4>1 DEF Begins, ShareIsOurs
      <3>2. CASE go'["reconciler"] = Idle
        BY <3>2 DEF Idle
      <3>3. CASE go'["reconciler"] = go["reconciler"]
        BY <3>3 DEF Removing
      <3> QED
        BY <1>3, <3>1, <3>2, <3>3, CancelInstallEffect, CancelEffect
    <2> QED
      BY <2>1, <2>2, <2>3, SharedFrame DEF Installing, Removing, Task
  <1>4. CASE ForceDelete
    <2>1. UNCHANGED <<sharedBy, rel, installer>>
      BY <1>4 DEF ForceDelete, cluster, ghosts
    <2>2. Head(<<"main">>) = "main"
      OBVIOUS
    <2>3. go'["op"] = go["op"] /\ Head(go'["reconciler"].todo) = "main"
      BY <1>4, <2>2, ForceDeleteEffect DEF Begins
    <2> QED
      BY <2>1, <2>3, SharedFrame DEF Installing, Removing, Task
  <1>5. CASE Crash
    <2>1. UNCHANGED <<sharedBy, rel, installer>>
      BY <1>5 DEF Crash
    <2>2. go'["op"].step = "idle" /\ go'["op"].kind = "none" /\ go'["reconciler"].step = "idle"
      BY <1>5, CrashEffect DEF Actor, Idle
    <2> QED
      BY <2>1, <2>2, SharedFrame
  <1> QED
    BY <1>1, <1>2, <1>3, <1>4, <1>5, NextCases, SharedOpStep, SharedRemoval

-----------------------------------------------------------------------------
(***************************************************************************)
(* The theorems.                                                           *)
(***************************************************************************)
\* The invariant holds when nothing is installed.
LEMMA InitInv == Init => IInv
  <1> SUFFICES ASSUME Init
               PROVE  IInv
    OBVIOUS
  <1>1. OwnerInv
    <2>1. requests \in 0 .. MaxRequests /\ events \in 0 .. MaxEvents
      <3>1. \A n \in Nat : 0 \in 0 .. n
        OBVIOUS
      <3>2. MaxRequests \in Nat /\ MaxEvents \in Nat /\ requests = 0 /\ events = 0
        BY BoundsAssumption DEF Init
      <3> QED
        BY <3>1, <3>2
    <2>2. multi \in BOOLEAN /\ admin \in BOOLEAN /\ all \in BOOLEAN /\ overtaken \in BOOLEAN
      BY BoundsAssumption DEF Init
    <2> QED
      BY <2>1, <2>2 DEF Init, OwnerInv, Reached
  <1>2. ClusterInv
    BY DEF Init, ClusterInv, Chart, Release, Phase
  <1>3. Idle \in Tasks
    BY DEF Idle, Tasks, Kinds, Steps, Todos
  <1>4. Idle.kind = "none" /\ Idle.step = "idle" /\ Idle.alive
    BY DEF Idle
  <1>5. (\A x \in Actor : go[x] = Idle) /\ Task = Idle
    BY DEF Init, Actor, Task
  <1>6. TasksInv
    BY <1>3, <1>4, <1>5, IdlePlace DEF Init, TasksInv, Actor
  <1>7. AbsentInv /\ TornInv
    BY DEF Init, AbsentInv, TornInv, Chart
  <1>8. AliveInv /\ ReconcilerInv /\ GoneInv /\ InstalledInv /\ ThroughInv
    BY <1>4, <1>5 DEF Init, AliveInv, ReconcilerInv, GoneInv, InstalledInv, InstalledStates, ThroughInv,
       At, Chart, Actor
  <1>9. SharedInv
    BY DEF Init, SharedInv
  <1> QED
    BY <1>1, <1>2, <1>6, <1>7, <1>8, <1>9 DEF IInv, TypeInv, StateInv

\* The invariant is inductive.
LEMMA NextInv == IInv /\ [Next]_vars => IInv'
  <1> SUFFICES ASSUME IInv, [Next]_vars
               PROVE  IInv'
    OBVIOUS
  <1>1. TypeInv'
    BY TypeStep DEF IInv
  <1> QED
    BY <1>1, AbsentStep, TornStep, StateStep, SharedStep DEF IInv

\* The inductive invariant holds whatever the owner asks for, whatever fails
\* and whenever the process restarts: one operation and one reconciler work at
\* the charts, and only the operation that has its context reports its result.
THEOREM Invariance == Spec => []IInv
  BY InitInv, NextInv, PTL DEF Spec

\* Every variable keeps its type, and an operation its place: the steps that
\* HelmOps.Install, Upgrade, ApplyEnv and UninstallAll can be at.
THEOREM TypeCorrect == Spec => []TypeOK
  <1>1. IInv => TypeOK
    BY DEF IInv, TypeInv, OwnerInv, ClusterInv, TasksInv, TypeOK, Tasks, Todos, Reached, State
  <1> QED
    BY <1>1, Invariance, PTL

\* What runs, or was stopped, has a deployed release, which HelmOps.Upgrade and
\* ApplyEnv insist on, unless helm was left half done.
THEOREM UpgradableHolds == Spec => []RunningIsUpgradable
  <1>1. IInv => RunningIsUpgradable
    <2>1. SUFFICES ASSUME IInv, am \in {"running", "stopped"}, ns["main"] = "active", ~overtaken,
                          "main" \notin torn, ~(At("op", "helming") /\ ~Task.alive)
                   PROVE  rel["main"] = "deployed"
      BY DEF RunningIsUpgradable
    <2>2. rel["main"] # "none"
      BY <2>1 DEF IInv, StateInv, InstalledInv, InstalledStates
    <2>3. ~HelmingMain
      <3>1. ASSUME At("op", "helming")
            PROVE  FALSE
        <4>1. Task # Idle /\ Task.alive
          BY <2>1, <3>1 DEF At, Task, Idle
        <4> QED
          BY <2>1, <4>1, AliveFacts DEF IInv, TypeInv, StateInv
      <3> QED
        BY <3>1 DEF HelmingMain
    <2> QED
      BY <2>1, <2>2, <2>3 DEF IInv, TornInv
  <1> QED
    BY <1>1, Invariance, PTL

\* What was uninstalled, or whose installation was cancelled, is gone or going:
\* its namespace, and with it the record and the objects of its release.
THEOREM GoneHolds == Spec => []GoneLeavesNothing
  <1>1. IInv => GoneLeavesNothing
    <2>1. SUFFICES ASSUME IInv, am \in GoneStates, ~overtaken, "main" \notin orphan,
                          ns["main"] # "terminating"
                   PROVE  ns["main"] = "absent" /\ rel["main"] = "none" /\ ~work["main"]
      BY DEF GoneLeavesNothing, GoneStates
    <2>2. ns["main"] # "active"
      BY <2>1 DEF IInv, StateInv, GoneInv
    <2>3. ns["main"] = "absent"
      BY <2>1, <2>2 DEF IInv, TypeInv, ClusterInv, Chart, Phase
    <2> QED
      BY <2>1, <2>3 DEF IInv, AbsentInv, Chart
  <1> QED
    BY <1>1, Invariance, PTL

\* No step removes the shared chart that another owner has installed, but the
\* uninstallation of everything that this owner asked for, the cleaning up of
\* what the label says this owner installed, and Kubernetes deleting a
\* namespace that it was told to.
THEOREM SharedKept == Spec => SharedIsKept
  <1> DEFINE Kept == sharedBy = "other" /\ sharedBy' # "other" =>
                       UninstallsAll \/ installer = "owner" \/ ns["shared"] = "terminating"
  <1>1. IInv /\ [Next]_vars => [Kept]_vars
    <2>1. SUFFICES ASSUME IInv, [Next]_vars, sharedBy = "other", sharedBy' # "other"
                   PROVE  UninstallsAll \/ installer = "owner" \/ ns["shared"] = "terminating"
      BY DEF Kept
    <2>2. TypeInv /\ SharedInv
      BY <2>1 DEF IInv
    <2>3. CASE \E c \in Chart : NamespaceGone(c)
      BY <2>1, <2>3 DEF NamespaceGone
    <2>4. CASE OtherInstalls
      BY <2>1, <2>2, <2>4 DEF OtherInstalls, SharedInv
    <2>5. CASE Begin
      <3>1. BeginsNew(Current) /\ Current = "shared"
        BY <2>1, <2>2, <2>5, BeginEffect DEF BeginsNew, BeginsUpgrade
      <3> QED
        BY <2>1, <2>2, <3>1 DEF BeginsNew, SharedInv
    <2>6. ASSUME NEW x \in Actor, HelmUninstall(x)
          PROVE  UninstallsAll \/ installer = "owner"
      <3>1. Removing(x)
        BY <2>1, <2>6 DEF HelmUninstall, Removing, At
      <3> QED
        BY <2>1, <2>2, <3>1 DEF SharedInv, Actor, Task
    <2>7. CASE Still /\ ~OtherInstalls /\ ~\E c \in Chart : NamespaceGone(c)
      BY <2>1, <2>7 DEF Still, Request, Pending, InstallFailed, Settle, LateEnds, PodStarts, ghosts, vars
    <2>8. CASE Start \/ CancelInstall \/ CancelUpgrade \/ CancelUninstall \/ ForceDelete \/ Crash
      BY <2>1, <2>8 DEF Start, CancelInstall, CancelUpgrade, CancelUninstall, ForceDelete, Crash, ghosts
    <2>9. CASE OpStep /\ ~Begin
      BY <2>1, <2>9 DEF OpStep, Status, Prepare, Share, Helm, HelmEnds, HelmFails, HelmGivenUp, Labels,
         Provider, Wait, ghosts
    <2>10. CASE \E x \in Actor : RemovalStep(x) /\ ~HelmUninstall(x)
      BY <2>1, <2>10 DEF RemovalStep, ListPvcs, DeleteNamespace, Gone, GoneTimeout, ghosts
    <2> QED
      BY <2>1, <2>3, <2>4, <2>5, <2>6, <2>7, <2>8, <2>9, <2>10, NextCases DEF RemovalStep
  <1> QED
    BY <1>1, Invariance, PTL DEF SharedIsKept, Spec, Kept
=============================================================================
