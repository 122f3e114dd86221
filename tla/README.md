# Verification of app-service

app-service is a Kubernetes operator and API server. It installs, runs, upgrades, stops and
removes the applications of the users of an Olares cluster. This directory holds TLA+ models
of its logic, TLC configurations that check them on small instances, and TLAPS proofs about
all eight component modules for instances of any size.

## 1. The system

| component | where | state it keeps | operations | modelled |
|---|---|---|---|---|
| ApplicationManager controller | `controllers/appmgr_controller.go`, `load.go` | work queue, informer cache | `Reconcile`, `ReconcileAll`, the event filter, `LoadStatefulApp` | `AppManager` |
| in-progress registry | `pkg/appstate/factory.go`, `types.go`, `errors.go` | `inProgress`, one goroutine per entry | `New`, `execAndWatch`, `waitForPolling`, `cancelOperation` | `AppManager` |
| states | `pkg/appstate/*_app.go` | the ApplicationManager's status | `Exec`, `Cancel`, `StateReconcile`, `Finally` of each state | `AppManager`, with Helm reduced to its outcomes |
| API handlers | `pkg/apiserver/handler_*.go` | none between calls | install, uninstall, upgrade, applyEnv, suspend, resume, cancel | the check and the write, in `AppManager` |
| HelmOps | `pkg/appinstaller`, `pkg/helm` | releases and namespaces | `Install`, `Upgrade`, `ApplyEnv`, `Uninstall`, `UninstallAll`, `WaitForStartUp`, `WaitForLaunch` | the steps in `HelmRelease`, the outcomes in `AppManager`; the update of the AppEnv in `Environment` |
| images | `pkg/images`, `controllers/image_controller.go` | ImageManager, map of cancel functions | create, pull, report, cancel, poll | `Images` |
| environment | `controllers/*env*_controller.go`, `handler_*env.go` | SystemEnv, UserEnv, AppEnv, batch lease | edit, batch, annotate, sync, apply, clear | `Environment` |
| applications and entrances | `controllers/application_controller.go`, `entrancestatus_controller.go` | Application and its status | create, update, delete, derive states | `Status` |
| users | `controllers/user_controller.go`, `pkg/users`, `userenv_sync_controller.go` | User, LLDAP account, namespaces, charts | create, delete, change groups, sync the base environment | `Users` |
| namespaces, network policies | `controllers/security_controller.go`, `namespace_controller.go`, `pkg/security` | labels, policies, finalizers | label, apply, remove, watch | `Security` |
| webhooks, sidecars | `pkg/webhook`, `pkg/sandbox`, `handler_webhook.go` | the proxy's configuration in variables of the package; ConfigMaps | register, admit requests, label workloads and limit their GPUs, inject sidecars | `Webhooks` |
| eviction, abnormal pods, tailscale ACLs, work queue, events | `controllers/eviction_*`, `pod_abnormal_*`, `tailscale_acl_*`, `pkg/task`, `pkg/event` | little | stop requests, merging lists, sending | no |
| queries, generated code, wrappers of other operators | `pkg/generated`, `pkg/kubesphere`, `pkg/argo`, ... | none of their own | | no |

**How they interact.** Everything meets in Kubernetes objects. The handlers check the state
of an ApplicationManager and write the state that starts an operation; its informer brings the
new version to the controller, whose event filter queues it only if `OpGeneration` grew. The
controller's worker and a goroutine that sweeps all applications every two minutes run the same
`Reconcile` without a lock between them. Execution starts a goroutine and enters it in the
registry; when it ends, its watcher or poller deletes the entry *by name* and then calls
`Finally`, which writes the next state. A download inside an operation creates an ImageManager,
which an image service on every node reconciles, and polls it. A change of the environment
reaches an application as one more request, ApplyEnv. What Helm deploys is a workload: the
application controller makes an Application of it, the entrance controller sets the states of
its entrances from pods, and the security controller labels its namespace and gives it network
policies, for which the user controller has made the user's own namespaces. Workloads and pods
pass the admission webhooks first, which look the application up and add labels and sidecars.

**What is hard.** Objects have several writers: four write one ApplicationManager, two one
Application status, every node one ImageManager. Reads come from informer caches that are
behind. Some writes check the resourceVersion, most do not, and a merge patch changes what
differs from the copy that was read, lists as a whole. Events are dropped by predicates or
handled before other caches show their object. Errors are swallowed, retried for ever, or end
a key. A cancelled context does not stop a goroutine, and Helm works on without it. The proxy's
configuration is built in variables that concurrent admissions share. Timeouts, cancels and
successes race. A restart loses every queue, registry and
goroutine. The hazards, each with its line, are listed in `PROJECT.json`.

## 2. Modules

**The core.** `AppStates`: the tables, without variables. The states, what each accepts, the
state a request asks for, how the controller dispatches, what `Cancel` and the `Exec` of each
state write, what the goroutine of each operation may report. `StateTransitions` is the table
of that name in the code, which no code path reads.

`AppManager`: the dynamics.

| variable | code |
|---|---|
| `versions[a]` | the ApplicationManager: a sequence of versions, the first in the informer cache, the last at the API server. A version is the state, `OpGeneration`, and whether `StatusTime` is older than the time to live |
| `queue` | the controller's work queue |
| `wk[w]` | a reconciler between its load and its last write |
| `fresh` | reconcilers whose copy still has the latest resourceVersion |
| `inProgress`, `ops` | the registry; its operations. `st` and `late` are what the object the operation holds says of itself, which `updateStatus` can change under it; `body` is its goroutine, `phase` its watcher or poller |
| `req` | handlers between check and write |
| `im`, `app` | which applications have an ImageManager; their Application resource with its namespace |
| `requests`, `faults`, `sweeps` | counters for the bounds |

An action is one stretch of code between two points where another actor can step in: the load
together with what `Exec` or `Cancel` does before the status write; the status write; the
removal of the registry entry; `Finally`; the two halves of a handler; one delivery of the
informer; the ends and the writes of a goroutine; the passing of a time to live; a crash.
`execAndWatch` and `New` hold the registry's mutex and are steps. `Become(w, a, "write", ...)`
is the point between the decision of a state and its write.

`AppLifecycle` is the abstract specification: what the controller promises of the status of
*one* application, without reconcilers, registry and queues. Its state is the stored state,
the state the cache shows, the states in between, the tasks under way and the results that are
owed. `Write` writes what is owed, `Decide` makes results of what the cache shows or of a task,
`Ask` of a request, `Download` starts only from `pending`. Deliberately it lets a result be
written late, over a state it does not follow from: the code does that. `AppRefinement` gives
the mapping (`Life(a)`) and states `ImplementsLifecycle`.

**The other components.** Each module follows one object or name, with the caches and writers
it has in the code.

`Environment`: SystemEnv and UserEnv (`src`), versions of each AppEnv, the two source
controllers (`annotator`), the AppEnv controller (`wk`), batches of UserEnvs under the lease,
the ApplyEnv operation (`am`, `op`, `deployed`). Everybody but the helm operation reads the
cached AppEnv and writes the difference to it as a merge patch.

`Images`: one ImageManager name, which successive downloads use (`gen`). `ims` are its
versions, `wk[n]` the pull of a node, `cancels` the calls on their way to the map of cancel
functions, `poll` the download of the application service, `onDisk` what nodes have, `ticks`
the last reports to come of pulls that ended in an error, which outlive their worker and go to
whatever object has the name, and `stopping` the nodes whose process was told to stop. An image
that may not be pulled (`Never`: its policy is Never, or none) is there or is an error.

`Users`: a name that can be used again, its User and cached copy, namespaces and the
controllers' views of them, the records of its charts and which of them were cut short
(`torn`), the LLDAP account, the worker as a chain of the calls that
`handleUserCreation` and `handleUserDeletion` make, and the sync of the base UserEnvs.

`Status`: the workloads, pods and Helm release of one application, its Application with one
entry per entrance, what the informers show, and the two controllers as steps between reads and
writes. A status patch carries the resourceVersion when something changed, so the API server
refuses it after another write.

`HelmRelease`: one application, of one chart or of two, the first shared by all users. `rel`,
`work` and `ns` are what Helm has recorded, the objects and the namespaces; `go["op"]` is the
goroutine of the operation with its context (`alive`), its step and the charts left to do, and
`go["reconciler"]` a removal by a cancelled installation or by force. Every call that can fail is
a step; `late` is what Helm goes on with after it was given up.

`Webhooks`: applications with their pods. `hooks` are the registrations of a start, `mgr` the
ApplicationManagers that requests from outside write (`WriteApplyingEnv` is the state a
handler writes for one of them), `workload` the labels of the workloads and the kinds of GPU among
their limits, `gpu` the kind that the nodes show, `injected` a pod that is taken for one with a
sidecar,
`adm[p]` an admission on its way through the steps of `getEnvoyConfig`; `httpFilters`,
`routeConfig` and `httpM` are the variables of package `sidecar`, pointers included, and `cm` the
ConfigMaps that a pod reads when it starts.

`Security`: one namespace of any kind, its labels and policies, the workload and configuration
that decide them, and `Reconcile` as the sequence of its writes. A policy is its name with the
peers it admits.

`MC*` modules hold the sets and constraints of the configurations, `*Proofs` the proofs. A definition after a comment "Mutant" is a variant that
a plausible bug would make of the definition it precedes; no specification uses it. Variables
called ghosts record that one of the ways to fail that the code has happened; no guard
depends on them.

## 3. Runs

| run | instance | checks | shows |
|---|---|---|---|
| `Lifecycle` | an ordinary application or a middleware, any request, all time limits, one fault; or two applications in the download queue, a cancel, a sweep | `TypeOK`, `NoImpossibleState`, `RegistryHasReleaser`, `DownloadOnlyFromPending`, `ImplementsLifecycle` | no race reaches a state that the controller cannot reconcile, no entry outlives the goroutine that removes it, `PendingApp.Exec` never overwrites a cancel, every status written is owed |
| `Settles` | an application or a middleware, any request, all time limits; or stop, resume, uninstall with two requests and two faults | `Settles`, `RegistryDrains`, `RunningIsDeployed`, `UninstalledIsGone` | every operation comes to an end, the registry is emptied, what runs is deployed, after crashes, failed writes and lost namespaces too |
| `Releases` | one or two charts, an administrator or not, three requests, two failing calls, restarts or other owners | `RunningIsUpgradable`, `GoneLeavesNothing`, `SharedIsKept`, `RemovalEnds` | what runs can be upgraded, what was uninstalled leaves nothing, the shared chart stays while others use it, removals end |
| `Webhooks` | two applications with two pods, six kinds of profile, four requests, two events, a fault | `EntranceIsGuarded`, `OneKindOfGpu`, `StateIsKept` | a pod behind an entrance runs with a proxy configured for its own application, no workload asks for two kinds of GPU however the nodes change, a request from outside does not take a state away |
| `Environment` | one user, an application with two variables, two batches at once, two events | `AppliedOrPending`, `NoApplyWithinBatch`, `EditsArrive` | no edit is forgotten, values arrive, `NeedApply` is cleared |
| `Images` | two nodes, two downloads of an image that may be pulled or not, a fault | `Truthful`, `ProgressMonotone`, `DownloadsEnd` | what counts as complete is there, progress does not go back, a cancelled pull stops and the poll ends |
| `Users` | one name used twice, two events | `CreatedIsComplete`, `RemovedLeavesNothing`, `CreatedOnce`, `RequestsEnd`, `ChangesArrive` | a created user is complete, with a current account, a removed one leaves nothing, creations and deletions end, groups and the base environment follow |
| `Status` | two entrances, two events | `ControllerKeepsEntries`, `PodsFollow`, `WorkloadFollows` | the two writers converge to what the pods and workloads are |
| `Security` | a namespace of every kind, three configurations, two events | `OpenIsPending`, `PolicyFollows`, `DeletedGoes` | no namespace stays open unnoticed; policies converge |
| `DuplicateExec` | an upgrade | `NoDuplicateExec` (violated) | initializing is carried out twice at once |
| `DownloadCancel` | install and cancel | `DownloadCancelEnds` (violated) | a cancel before the ImageManager exists is retried for ever |
| `InitCancel` | a cancel of initializing | `InitializingCancelStops` (violated) | the operation's `Finally` overwrites the cancel with `running` |

Every module also has its `TypeOK` checked. Every property of a passing run has a mutant of the
code that the run refutes.

**Bounds of the core.** `MaxLag = 1`: the cache is at most one version behind; that is what it
takes for a dropped event, a stale check and a lost conflict. Two operation slots: the
registry's entry and a replaced operation whose goroutine lives on; liveness is claimed only
while a slot is free infinitely often (`SlotsSuffice`). `MaxRequests`, `MaxFaults`,
`MaxSweeps` bound the number of surprises; the sweeps of an application at rest are not
counted. Constraints choose between the parts of a run: in `Lifecycle`, `AloneOrQueued` lets
either one application or middleware move alone or two be in the download queue, which the two
share with the registry only, and `SYMMETRY Alike` exchanges the two applications; in `Settles`
the variable `scenario` of `MCScenarios` is `calm`, any request without faults, or `recovery`,
faults with requests to stop, resume and uninstall, and never changes. The states explored are
complete for the one that moves, so the constraint cuts no behaviour short that liveness needs.

**Bounds of the other modules.** `MaxEvents = 2` counts what comes from outside together:
requests, edits, faults, crashes. Two is what a race with a fault takes. `Environment` skips
versions in its cache (an informer may), so one version of lag stands for any; `Images` has two
nodes, since its races are between nodes, and `MaxLag = 2`, so that a node can miss a
cancel that another's report follows. `Focus` of `MCImages` stops where a node, a poll
or a report acted on another object than the one it had seen, about which `Truthful` promises
nothing; it has one last report pending at a time, an image that may not be pulled without
another fault, no cancel after a stop, and caches one version behind in these and in a second
download. `Releases` needs three requests to install, remove and install again; two events are a
failure in the clean-up after a failure. In `Webhooks`, `Focus` admits
a manager and its workload without pods, up to variables that are applied and run out of time;
or an application with a GPU that is installed and replaced while the nodes change; or one pod
with one thing that others do or that
fails; or two pods while their applications are installed and no call fails: two pods are what
it takes for two builds to overlap. In `Users`, one name used for two users in
turn shows what the first leaves to the second; names are otherwise independent. `NotFound`
says whether LLDAP reports the deletion of a missing account so: the client is external, and
with `TRUE` a deletion that takes a second pass asks for ever (`DeletionEnds`, a half of
`RequestsEnd`, claims nothing then). In `Status`, `OneBehind` lets one informer be behind at a time. `Configs` of `Security`
are one application of each way to own a namespace.

**Deadlock** is checked where the system has always something to do. It is off where the
model comes to rest once the bounded events are used up.

**Fairness.** Weak fairness, for what the code or its environment keeps doing: reconcilers
and workers (`wait.Until`, controller-runtime), informers, time, watchers and pollers once
woken, handlers once begun, namespaces being deleted, and a goroutine whose context was
cancelled. The one strong fairness is `Pick(u)` in `Users`: a work queue is first in, first
out. Nothing is assumed of users, of faults, of pods becoming ready, of pulls, or of a
goroutine with a live context: `WaitForLaunch` may wait for ever. `PollEnds`, a half of
`DownloadsEnd`, states as its premise that the pulls end.

## 4. What the properties except

A property that the code cannot keep in some case names that case, so that the rest is a
claim. The exceptions are results in themselves.

- `Settles` excludes three ways to hang (`Hung`): a cancel that needs an ImageManager that
  does not exist; an overdue stop, whose `Cancel` is a FIXME that does nothing; and an
  operation whose object was overwritten by the `Get` of `updateStatus`, so that the registry
  returns the old operation for the new state. `RegistryDrains` also excludes `uninstalled`,
  the one load that never asks the registry.
- `RunningIsUpgradable` excludes `torn` (a release whose helm call failed or was interrupted:
  `Install` takes any release it finds for an installation), a helm call of a cancelled
  operation, a namespace on its way out, and `overtaken`. `GoneLeavesNothing` excludes `orphan`
  (helm began to install after the cancel) and `overtaken`. The last was found by a proof
  attempt: a forced deletion or a cancelled installation removes and then patches its result
  whatever the state has become (`updateStatus` of `appstate/types.go` compares nothing), so
  that a request accepted meanwhile starts an operation on what is still being removed; it
  takes five requests to show.
- `SharedIsKept` excludes an owner who asked for everything, a label that names the wrong
  installer, and `raced`: another owner installs the shared chart between the look at it and
  what follows.
- `EntranceIsGuarded` excludes `excused` pods (admitted without their Service or their
  manager); pods that are taken for injected (`webhook.go:160` and `:501`: an init container of
  the sidecar's name, or the annotation and a container called envoy), which are admitted as
  they are; the policy, not the listener, of the pods of a Deployment, since they share a
  ConfigMap that an admission without Service leaves without policy (`webhook.go:458`); and the
  listener of builds that overlapped (`mixed`): the builder keeps its filters in package
  variables (`envoy.go:438`). `StateIsKept` excludes a cancel of `applyingEnvCancelFailed`,
  for which the handler knows no next state (`handler_webhook.go:1265`). The run reaches it:
  an application of variables that ran out of time, whose cancel failed, and whose operation
  is still applyEnv.
- `AppliedOrPending` excludes `blind`: an AppEnv that a patch computed from an outdated copy
  changed (`appenv_controller.go:258` and its like) can lose an edit. The proof found one case
  more: variables changed and changed back between the look of the worker and its
  `markEnvApplied` look unchanged to the patch, but the operation has read what was between
  (`Restores`; it takes three requests to show). `NoApplyWithinBatch`
  excludes batches of one user that overlap: the second goes on under the lease of the first
  and deletes it. `RefsSettle`, a half of `EditsArrive`, excludes deleted sources, of which no
  AppEnv is told; `NeedApplyEnds`, the other, the states that allow no ApplyEnv.
- `Truthful` and both halves of `DownloadsEnd` exclude `crossed`: a node, a poll or a report
  that acts, from a busy worker or a stale cache, on another object than the one it had seen,
  since a new download takes the name of the old. That the poll and the reports belong there
  was found by the proof of `Truthful`. `Truthful` also excludes `feigned`: `PullImage` stops
  the progress of a pull whatever its result (`puller.go:172`), and the last tick of
  `showProgress` calls every layer done (`jobs.go:192`, `:264`), so an image of which the pull
  failed or was cancelled is reported in full, possibly to the object of the next download, and
  so is one whose policy forbids the pull (`:58`). A poll between that report and the state
  `failed` ends with success, in a few steps of the run; the property says that nothing else
  makes it do so. `PollEnds` also excludes `overwritten` (a node that begins writes
  `downloading` over a final state, `image_controller.go:134`), `lost` (a report given up) and
  `halted`: a process that is told to stop cancels its pulls and writes `downloadingCanceled`
  (`cmd/image-service/main.go:78`, `image_controller.go:145`), which it does not take up again
  when it is back, and on which no poll ends.
- `CreationEnds` and `DeletionEnds`, the halves of `RequestsEnd`, exclude `lost`: a failed
  update of the finalizer returns the nil error of the read before and drops the key
  (`user_controller.go:137`), and a restart drops the keys of Failed users (`:87`).
  `AccountIsCurrent`, a half of `CreatedIsComplete`, excludes `leaked` (`:373`): only NotFound
  stops a deletion, any other error leaves the account to the next user of the name.
  `ChartsAreWhole`, another part, names the charts whose installation for the user itself was
  cut short by a restart or an error (`torn`): the creation takes any release record, also a
  pending or failed one, for the chart (`create.go:293` and `:328`), nothing repairs it, and
  the last look before `Created`, at the first wizard pod of all namespaces (`:397`), says
  nothing about this user's charts. What was cut short for an earlier user of the name never
  passes for a chart of the next.
- `EntrancesFollow`, a half of `PodsFollow`, excludes `missed` (a pod's event handled before
  the caches show its Application or deployment is dropped) and `overwritten` (an entry patched
  from an older array). `ReleaseFollows`, a half of `WorkloadFollows`, excludes `leftover`:
  clearing the history failed after the Application was gone, and the retry finds none.
- `PolicyFollows` excludes `unasked` (a change of Application, ApplicationManager or workflows,
  which no watch reports) and `blind` (a failed list taken for an empty one), until the next
  pass.

## 5. Proofs

From the assumptions that each module states of its constants, and from nothing else: for
every number of applications, middlewares, operations, nodes, images, users, pods, requests
and faults, and every behaviour of the specification, not only those within a `CONSTRAINT`.

| theorem | property |
|---|---|
| `AppManagerProofs!Invariance` | the inductive invariant `IInv` |
| `AppManagerProofs!TypeCorrect` | `TypeOK` |
| `AppManagerProofs!StatesPossible` | `NoImpossibleState` |
| `AppManagerProofs!EntriesHaveReleasers` | `RegistryHasReleaser` |
| `AppManagerProofs!DownloadsFromPending` | `DownloadOnlyFromPending` |
| `AppManagerProofs!LifecycleImplemented` | `ImplementsLifecycle` |
| `HelmReleaseProofs!Invariance` | the inductive invariant of `HelmRelease` |
| `HelmReleaseProofs!TypeCorrect` | `TypeOK` |
| `HelmReleaseProofs!UpgradableHolds` | `RunningIsUpgradable` |
| `HelmReleaseProofs!GoneHolds` | `GoneLeavesNothing` |
| `HelmReleaseProofs!SharedKept` | `SharedIsKept` |
| `ImagesProofs!Invariance` | the inductive invariant of `Images` |
| `ImagesProofs!TypeCorrect` | `TypeOK` |
| `ImagesProofs!TruthfulHolds` | `Truthful` |
| `ImagesProofs!ProgressKept` | `ProgressMonotone` |
| `WebhooksProofs!Invariance` | the inductive invariant of `Webhooks` |
| `WebhooksProofs!TypeCorrect` | `TypeOK` |
| `WebhooksProofs!EntrancesGuarded` | `EntranceIsGuarded` |
| `WebhooksProofs!WorkloadsOfOneKind` | `OneKindOfGpu` |
| `WebhooksProofs!StatesKept` | `StateIsKept` |
| `EnvironmentProofs!Invariance` | the inductive invariant of `Environment` |
| `EnvironmentProofs!TypeCorrect` | `TypeOK` |
| `EnvironmentProofs!ValuesApplied` | `AppliedOrPending` |
| `EnvironmentProofs!BatchesUndisturbed` | `NoApplyWithinBatch` |
| `SecurityProofs!Invariance` | the inductive invariant of `Security` |
| `SecurityProofs!TypeCorrect` | `TypeOK` |
| `SecurityProofs!OpenIsNoticed` | `OpenIsPending` |
| `UsersProofs!Invariance` | the inductive invariant of `Users` |
| `UsersProofs!TypeCorrect` | `TypeOK` |
| `UsersProofs!CreatedComplete` | `CreatedIsComplete` |
| `UsersProofs!RemovedClean` | `RemovedLeavesNothing` |
| `UsersProofs!NeverBack` | `CreatedOnce` |
| `UsersProofs!TornKnown` | the invariant of `ChartsAreWhole` |
| `StatusProofs!Invariance` | the inductive invariant of `Status` |
| `StatusProofs!TypeCorrect` | `TypeOK` |
| `StatusProofs!EntriesKept` | `ControllerKeepsEntries` |

**The assumptions.** `ConstantsAssumption` of `AppManager` and of `Webhooks`: kinds and
profiles are those the code knows, `None` is no name, an application is no pod, bounds are
numbers. `ReadyAssumption` (some node is ready when a download begins), `RefsAssumption` (a
download has images) and `SizeAssumption` of `Images`. `UserAssumption`, `KindAssumption`,
`ConfigAssumption` and `BoundsAssumption` of `Security`. `SourceAssumption`, `AppAssumption`
and `LagAssumption` of `Environment`: sources have an owner and a name, references and defaults
are of their types, no user has the name of the cluster or `None`. `BoundsAssumption` of `HelmRelease`,
and that of `Users`: bounds are numbers, roles are Booleans, there is a name, which the idle
worker holds, and a chart besides the launcher. `BoundsAssumption` of `Status`: there is a number of entrances, and one of events.
Finiteness of the sets is assumed nowhere.

**`AppManager`.** None of the properties is inductive. `NoImpossibleState` needs to know what will be written
later: the targets that reconcilers hold, the states requests have been accepted for, and what
goroutines left in `finally` are all in `Writable`, the possible states without `downloading`
(`WorkersInv`, `RequestsInv`, `RegistryInv`). That in turn rests on the tables: the lemmas
`WritableTargets`, `RequestWritable` and `OutcomesWritable`. `RegistryHasReleaser` needs `None`
to be no operation and a free slot to be registered nowhere. `DownloadOnlyFromPending` needs
`FreshInv`: a reconciler whose copy has the latest resourceVersion holds the stored state; that
every write ends the freshness of all copies is `StoreLemma`. The proof has one lemma per
helper operator, then one per action or group of like actions, and combines them in `NextIInv`.

**The refinement** is proved for each application separately: initial states map to initial
states, and each action maps to one action of `AppLifecycle` or to a stutter. Loads map to
`Decide`, writes of reconcilers and `Finally` to `Write`, `WaitForStartUp`'s write to
`StartUp`, the first half of a handler to `Ask`, the start of a download to `Download`, an
informer's delivery to `Deliver` and a crash to `Restart`. Besides `IInv` it needs two
invariants: `TargetInv` (a reconciler about to write has something to write) and `StartedInv`
(only operations that wait for a start-up have seen one).

**`HelmRelease`.** `TypeInv` says more than types: which step each kind of task can be at, and
with what left to do (`Place`). `TornInv` says that a release that helm left half done is
marked `torn` or is still in the hands of a helm call. `StateInv`, of behaviours in which no
request overtook a reconciler, ties the state to who acts: a goroutine with its context lets
only its own state or its cancel be written (`AliveInv`), a reconciler that removes is the only
writer (`ReconcilerInv`), what is gone was removed to the last chart (`GoneInv`), and what is
installed has a release that nothing removes (`InstalledInv`, `ThroughInv`). Without
`overtaken` this is false, which is how the exception of section 4 came about. `SharedInv`
follows what an owner saw of the shared chart to the step that removes it. Every part was
model-checked before it was proved.

**`Images`.** The versions of one download differ in state and progress only, and none is of
a download to come (`GenInv`). As long as nothing `crossed`, a visible version is ahead of the
disks only in what is recorded as `feigned`, and a worker that has met no error has on its disk what it has not left to do
(`TruthInv`); `Truthful` is what this says of the stored version and the poll's answer.
`ProgressMonotone` needs each kind of step to leave the object, to replace it by the next
download, or to be an update that keeps the larger progress, whatever version it was computed
from (`ObjectMoves`).

**`Webhooks`.** The package variables of the builder, and what they point to, belong to the
one build under way unless another overlapped (`OwnInv`), so that each ConfigMap is fit for the
application it is named after, or marked `mixed` (`MapsInv`); a pod outside a Deployment has its
ConfigMap for itself, so that nobody takes its policy out (`OwnMapInv`). Pods have a workload and
workloads a manager, or are recorded (`OwnersInv`). So an admission past its decision knows the
entrance or its pod is `excused`, and an admitted pod has the sidecar and the servers of its
application (`GuardInv`). For `OneKindOfGpu`: a chart asks for one kind at most, and a pass
of the webhook leaves the limits alone or takes out every kind before it adds that of the nodes.

**`Security`.** A cache without an event on its way shows the namespace; an object read afresh
is the stored one; only what is being deleted is cleared (`Current`); a policy that a pass has
found is there, unless that it went is reported (`HitStays`). With these `OpenIsPending`, that
somebody is about to look at a namespace without policy, is inductive.

**`Environment`.** `AppliedOrPending` is not inductive: an operation may be about to deploy
other values than those that are deployed. `Arrives` says what will be deployed in the end, and
`AppliedInv` that it is what is stored unless NeedApply stands; that an operation whose copy is
the latest has the stored values (`Knows`); and that what the worker is about to mark as applied
arrives (`Marks`). `PatchApplied` is the lemma about merge patches: one that misses no edit
brings no news, or keeps NeedApply. For `NoApplyWithinBatch`, `LeaseInv`: a batch that is alone
and took the lease has it, and a controller past its look at the lease found none such.

**`Users`.** The worker acts on a copy that the informer had, of an object that others write
and that may have been deleted and made again. `Versions` orders them: the copy is not newer
than the cache, nor the cache than the object; a later version of the same object keeps its
finalizer and its deletion, loses nothing but its password and its groups, and has the same
state or one of a higher rank (`Grows`). `Pinned`: an object with the finalizer is still there,
because only the worker takes it off, on a version it compares, and then no queued key leads to
a second deletion. So the worker, from its first write on, has to do with the object it read,
and in the places from which it writes a state it knows the present one (`States`). `Making`
and `Removing` say what is there and what is gone at each place of the two chains; what the
informers did not show to a deletion is `missed`, and an account left in LLDAP `leaked`, so
that a free name is clean but for these (`Fresh`). `Torn` is an invariant of its own, on top of
it: a mark of `torn` has a record and is of the user that is there, because a user goes only
when no record is left. `CreatedOnce` follows step by step
(`ForwardStep`), with `States` for the writes of the worker.

**`Status`.** `ControllerKeepsEntries` holds although the patch of the status can hold every
entry: it does when the object moved between the read and the patch of the spec, and is refused
when it changed once more. `WorkerInv` says so: unless it was touched since, the object has the
entries that the patch of the spec returned. For `TypeOK`, the state of an application is that
of its first entrance that does not run, and `FirstEntrance` proves that there is a first, from
the theorem of the library that the order of the naturals is well-founded.

Only model-checked: the liveness properties (`Settles`, `RegistryDrains`, `RunningIsDeployed`
and `UninstalledIsGone` of `Settles`, `RemovalEnds`, `DownloadsEnd`, `PolicyFollows`,
`DeletedGoes`, `EditsArrive`, `RequestsEnd`, `ChangesArrive`, `PodsFollow`,
`WorkloadFollows`), which are beyond the proof
system; and the three violations, which are about existing behaviours. Every invariant and
action property of a passing run is proved.

## 6. Limits

Kubernetes and the pods are nondeterministic. In `AppManager` so is Helm: an operation may
report any outcome its code can, restricted by what the cluster shows (`Finals`); the steps of
`Install`, `Upgrade` and `Uninstall` with their roll-backs are those of `HelmRelease`. Messages, records, reasons and
the wording of charts are left out. Time is a flag per version or object. `Crash` restarts the
process at once. Each module follows one name where names do not interact.

Not modelled:
- inside `AppManager` an ApplicationManager that is gone while its Application exists:
  `LoadStatefulApp` then starts a goroutine that deletes the namespace and waits for it
  (`load.go:27-107`), outside the registry; ApplicationManagers of the model do not go;
- the validation of charts, permissions and resources by the handlers (pure functions of
  their input);
- inside `HelmRelease` namespaces that are protected, which neither `DeleteNamespace` nor the
  wait for it touches (`helm_ops_uninstall.go:151`, `uninstalling_app.go:100`), and an operation
  that starts while the goroutine of a cancelled one has not returned: `Start` waits for it,
  where `cancelOperation` of the registry does not (the two goroutines at once are in
  `AppManager`, without their steps);
- inside `Images` layers that come to be known one by one (a report sees all layers of an image
  from the start), the total of 56782302 that stands for an unknown one (`jobs.go:344`,
  `image_controller.go:251`; a progress that changes between it and the size of a layer is
  compared by its offset only), and the rounding of percentages, by which the poll takes 99.995
  for 100;
- inside `Users` the applications of a deleted user, the content of role bindings, pods,
  the copy of ConfigMaps and certificates; a creation assumes that its namespaces come to be
  shown in the caches, and that within the second it sleeps at its end (`user_controller.go:190`)
  they show all that it wrote (`Shown`): the code ensures neither, and without the latter
  `CreatedOnce` fails, as the mutant of `Rest` shows; namespaces that a deletion does not see
  (`missed`) are hardly reached within the bounds of the run, they are in the proof;
- inside `Status` a workload that names several applications, settings, ports and tailscale
  data, installations while a deletion is under way, and the protected release (`headscale`),
  whose history is kept (`application_controller.go:191`);
- inside `Security` ports and pod selectors of policies, the role bindings, the type
  label, which is never removed (a hazard without a property), and the search for the
  ApplicationManager of a reference in `tryToFindDependencyAppMgrOfSharedNamespace`
  (`security_controller.go:792`): a reference is found, as the peers of its owner's application;
- inside `Webhooks` the `runAsUser` webhook, the decisions of the validators of users,
  providers, argo resources, cron workflows and private namespaces, requests on an
  ApplicationManager that pass unchecked, because they are annotated as coming from app-service
  or leave the operation as it is (`handler_webhook.go:1190`), host network, the system
  namespaces, the wording of Envoy's configuration and of patches;
- eviction, abnormal pods and node alerts (they are further sources of stop requests, which
  `AppManager` admits in every state that allows one); tailscale ACLs; the work queue and event
  sender; argo, workflow and middleware wrappers; queries, metrics and generated clients.

## 7. Plan

1. Eviction, abnormal pods and node alerts as sources of stop requests of `AppManager`, if the
   reasons they write matter to resuming.
