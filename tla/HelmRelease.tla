----------------------------- MODULE HelmRelease -----------------------------
(***************************************************************************)
(* What the operations of an application do to the cluster: HelmOps and    *)
(* the states that call it.  An application is one chart, or two of which  *)
(* the first is shared by all users of the cluster.  Every chart has a     *)
(* namespace of its own, with the record that helm keeps of its release.   *)
(*                                                                         *)
(* An operation is a goroutine with a context.  A cancel ends the context, *)
(* not the goroutine: what it does next fails if it is handed the context, *)
(* and is done all the same if it is not.  Helm, given up, goes on in the  *)
(* background.  Who may write the state of the ApplicationManager, and     *)
(* when, is the subject of AppManager; here an operation writes its result *)
(* unless it was cancelled, and what precedes Installing and follows the   *)
(* start-up is left out.                                                   *)
(***************************************************************************)
EXTENDS AppStates, Naturals, Sequences, FiniteSets

CONSTANTS Multi,        \* an application may have one chart, or two
          Admin,        \* its owner may be an administrator, or not
          MaxRequests,  \* bound: requests of the owner
          MaxEvents     \* bound: failing calls, restarts, other owners

ASSUME BoundsAssumption ==
    Multi \subseteq BOOLEAN /\ Admin \subseteq BOOLEAN /\ MaxRequests \in Nat /\ MaxEvents \in Nat

Chart   == {"shared", "main"}
Release == {"none", "pendingInstall", "deployed", "failed", "pendingUpgrade"}
Phase   == {"absent", "active", "terminating"}
Actor   == {"op", "reconciler"}
Kinds   == {"none", "installing", "upgrading", "applyingEnv", "uninstalling",
            "installingCanceling", "forceDelete"}
Steps   == {"idle", "status", "prepare", "share", "helm", "begin", "helming", "labels",
            "provider", "wait", "pvc", "release", "namespace", "gone"}

\* todo: the charts that are left to install or upgrade, or to uninstall;
\* share: this installation has begun to install the shared chart, or this
\* uninstallation was asked to remove it.
Idle == [kind |-> "none", step |-> "idle", alive |-> TRUE, share |-> FALSE, todo |-> <<>>]

VARIABLES
    am,         \* the state of the ApplicationManager
    multi,      \* the chart has a shared part
    admin,      \* the owner is an administrator
    all,        \* the owner asked to uninstall the shared part as well
    rel,        \* the release that helm has recorded
    work,       \* the objects of the chart are there
    ns,         \* the namespaces
    installer,  \* the user that the label of the shared namespace names
    labelled,   \* the workload has the labels that make an Application of it
    up,         \* a pod of it has started
    go,         \* the operation, and a reconciler that uninstalls
    late,       \* charts that helm works at though it was given up
    torn,       \* ghost: charts of which helm's work was not finished
    orphan,     \* ghost: charts that helm began after the cancel
    sharedBy,   \* ghost: who has installed the shared chart, "raced" when
                \* this owner was about to install or to remove it
    overtaken,  \* ghost: a request came while a reconciler was removing
    requests, events

cluster == <<rel, work, ns, installer, labelled, up, late>>
owner   == <<multi, admin, all>>
ghosts  == <<torn, orphan, sharedBy>>
asked   == <<requests, overtaken>>
vars    == <<am, owner, cluster, go, ghosts, asked, events>>

Init ==
    /\ am = "uninstalled"
    /\ multi \in Multi /\ admin \in Admin /\ all = FALSE
    /\ rel = [c \in Chart |-> "none"] /\ work = [c \in Chart |-> FALSE]
    /\ ns = [c \in Chart |-> "absent"]
    /\ installer = "" /\ labelled = FALSE /\ up = FALSE
    /\ go = [x \in Actor |-> Idle] /\ late = {}
    /\ torn = {} /\ orphan = {} /\ sharedBy = ""
    /\ requests = 0 /\ overtaken = FALSE /\ events = 0

Fault == events < MaxEvents /\ events' = events + 1
NoFault == UNCHANGED events

At(x, step) == go[x].step = step
Goto(x, step) == go' = [go EXCEPT ![x].step = step]

Charts == IF multi THEN <<"shared", "main">> ELSE <<"main">>

\* Mutant: the shared chart is removed whether or not everything was asked for.
RemovedAlways(everything) == IF multi THEN <<"shared", "main">> ELSE <<"main">>

\* The charts that UninstallAll (everything) or Uninstall removes.
Removed(everything) == IF multi /\ everything THEN <<"shared", "main">> ELSE <<"main">>

-----------------------------------------------------------------------------
(***************************************************************************)
(* Results.                                                                *)
(***************************************************************************)
\* Mutant: an upgrade fails under another name.
FailedByName(kind) == IF kind = "upgrading" THEN "upgradingFailed" ELSE "installFailed"

Failed(kind) ==
    CASE kind = "installing"   -> "installFailed"
      [] kind = "upgrading"    -> "upgradeFailed"
      [] kind = "applyingEnv"  -> "applyEnvFailed"
      [] kind = "uninstalling" -> "uninstallFailed"

\* Mutant: a cancelled goroutine writes its result all the same.
EndAlways(state) ==
    /\ go' = [go EXCEPT !["op"] = Idle]
    /\ am' = state

\* The goroutine ends; a cancelled one leaves the state alone.
End(state) ==
    /\ go' = [go EXCEPT !["op"] = Idle]
    /\ am' = IF go["op"].alive THEN state ELSE am

EndFailed == End(Failed(go["op"].kind))

\* An installation that fails uninstalls what it may have installed, with the
\* context that it was given.
Clear ==
    /\ go' = [go EXCEPT !["op"].step = "pvc", !["op"].todo = Removed(go["op"].share)]
    /\ UNCHANGED am

\* Of the operations only an installation cleans up after itself.
HelmOpsFails == IF go["op"].kind = "installing" THEN Clear ELSE EndFailed

Succeeds == End("initializing")

\* A call that is handed the context fails once that is cancelled.
CallFails == \/ Fault
             \/ ~go["op"].alive /\ NoFault
CallWorks == go["op"].alive /\ NoFault

-----------------------------------------------------------------------------
(***************************************************************************)
(* Requests, and what the reconciler does for them.                        *)
(***************************************************************************)
Request(op) ==
    /\ requests < MaxRequests /\ requests' = requests + 1
    /\ IsOperationAllowed(am, op)
    /\ op \in {"install", "upgrade", "applyEnv", "uninstall", "cancel"}
    /\ am \notin {"pending", "initializing"}
    /\ am' = RequestedState(op, am)
    /\ overtaken' = (overtaken \/ go["reconciler"] # Idle)
    /\ all' \in IF op = "uninstall" THEN {FALSE, multi} ELSE {all}
    /\ UNCHANGED <<multi, admin, cluster, go, ghosts, events>>

\* PendingApp: an Application of that name is removed with its namespace first.
Pending ==
    /\ am = "pending"
    /\ \/ /\ labelled /\ ns["main"] = "active"
          /\ ns' = [ns EXCEPT !["main"] = "terminating"]
          /\ UNCHANGED am
       \/ /\ ~labelled
          /\ am' = "installing"
          /\ UNCHANGED ns
    /\ UNCHANGED <<owner, rel, work, installer, labelled, up, late, go, ghosts, asked, events>>

InstallFailed ==
    /\ am = "installFailed" /\ ns["main"] = "active"
    /\ ns' = [ns EXCEPT !["main"] = "terminating"]
    /\ UNCHANGED <<am, owner, rel, work, installer, labelled, up, late, go, ghosts, asked, events>>

Start ==
    /\ am \in {"installing", "upgrading", "applyingEnv", "uninstalling"}
    /\ go["op"] = Idle
    /\ go' = [go EXCEPT !["op"] =
                 [Idle EXCEPT !.kind = am,
                              !.step = CASE am = "installing"   -> "prepare"
                                         [] am = "uninstalling" -> "pvc"
                                         [] OTHER               -> "status",
                              !.share = am = "uninstalling" /\ multi /\ all,
                              !.todo = IF am = "uninstalling" THEN Removed(all) ELSE Charts]]
    /\ overtaken' = (overtaken /\ (am \notin {"installing", "uninstalling"} \/ go["reconciler"] # Idle))
    /\ UNCHANGED <<am, owner, cluster, ghosts, requests, events>>

\* The label of the shared namespace says that this owner installed the chart.
ShareIsOurs == multi /\ admin /\ ns["shared"] # "absent" /\ installer = "owner"

\* statefulAppFactory.cancelOperation.
Cancelled == [go EXCEPT !["op"].alive = (go["op"] = Idle)]

\* handleInstallCancel, up to the uninstall.
CancelInstall ==
    /\ am = "installingCanceling" /\ go["reconciler"] = Idle
    /\ \/ /\ NoFault
          /\ go' = [Cancelled EXCEPT !["reconciler"] = [Idle EXCEPT !.kind = am, !.step = "pvc",
                                                              !.todo = Removed(ShareIsOurs)]]
          /\ UNCHANGED am
       \/ /\ Fault
          /\ go' = Cancelled
          /\ am' = "installingCancelFailed"
    /\ UNCHANGED <<owner, cluster, ghosts, asked>>

\* A cancelled upgrade is not rolled back: what runs is suspended.
CancelUpgrade ==
    /\ am \in {"upgradingCanceling", "applyingEnvCanceling"}
    /\ go' = Cancelled
    /\ am' = "stopping"
    /\ UNCHANGED <<owner, cluster, ghosts, asked, events>>

\* The time limit of uninstalling.
CancelUninstall ==
    /\ am = "uninstalling" /\ Fault
    /\ go' = Cancelled
    /\ am' = "uninstallFailed"
    /\ UNCHANGED <<owner, cluster, ghosts, asked>>

ForceDelete ==
    /\ am \in ForceDeleteStates /\ go["reconciler"] = Idle
    /\ go' = [go EXCEPT !["reconciler"] = [Idle EXCEPT !.kind = "forceDelete", !.step = "pvc",
                                                      !.todo = Removed(FALSE)]]
    /\ UNCHANGED <<am, owner, cluster, ghosts, asked, events>>

\* InitializingApp and SuspendingApp, of which only the ends matter here.
Settle ==
    /\ \/ am = "initializing" /\ am' = "running" /\ UNCHANGED up
       \/ am = "stopping" /\ am' = "stopped" /\ up' = FALSE
    /\ UNCHANGED <<owner, rel, work, ns, installer, labelled, late, go, ghosts, asked, events>>

-----------------------------------------------------------------------------
(***************************************************************************)
(* Install, Upgrade and ApplyEnv.                                          *)
(***************************************************************************)
Task == go["op"]
Current == Head(Task.todo)
NextChart == [go EXCEPT !["op"].step = "helm", !["op"].todo = Tail(@)]

\* Upgrade and ApplyEnv insist on a release that is deployed.
Status ==
    /\ At("op", "status")
    /\ \/ /\ rel["main"] = "deployed" /\ NoFault
          /\ Goto("op", IF Task.kind = "upgrading" THEN "prepare" ELSE "helm")
          /\ UNCHANGED am
       \/ rel["main"] # "deployed" /\ NoFault /\ EndFailed
       \/ Fault /\ EndFailed
    /\ UNCHANGED <<owner, cluster, ghosts, asked>>

\* SetValues and TaprApply: nothing is installed yet, nothing is cleaned up.
Prepare ==
    /\ At("op", "prepare")
    /\ \/ /\ CallWorks
          /\ Goto("op", IF multi /\ Task.kind = "installing" THEN "share" ELSE "helm")
          /\ UNCHANGED am
       \/ CallFails /\ EndFailed
    /\ UNCHANGED <<owner, cluster, ghosts, asked>>

\* The first to label the shared namespace is the one who installed it.
Share ==
    /\ At("op", "share")
    /\ \/ /\ CallWorks
          /\ ns' = [ns EXCEPT !["shared"] = IF @ = "absent" THEN "active" ELSE @]
          /\ installer' = IF installer = "" THEN "owner" ELSE installer
          /\ Goto("op", IF Task.kind = "installing" THEN "helm" ELSE "provider")
          /\ UNCHANGED am
       \/ /\ CallFails /\ EndFailed
          /\ UNCHANGED <<ns, installer>>
    /\ UNCHANGED <<owner, rel, work, labelled, up, late, ghosts, asked>>

\* What is to be done about the next chart.  Only whether the owner is an
\* administrator is asked with the context.
Skipped(c) ==
    \/ c = "shared" /\ ~admin
    \/ Task.kind = "installing" /\ rel[c] # "none"

Startable(c) ==
    IF Task.kind = "installing" THEN rel[c] = "none"
    ELSE rel[c] = "deployed" \/ (c = "shared" /\ rel[c] = "none")

Helm ==
    /\ At("op", "helm")
    /\ \/ /\ Task.todo = <<>> /\ NoFault
          /\ Goto("op", "labels") /\ UNCHANGED am
       \/ /\ Task.todo # <<>> /\ (Current = "shared" => Task.alive) /\ NoFault
          /\ \/ /\ Skipped(Current)
                /\ go' = NextChart /\ UNCHANGED am
             \/ /\ ~Skipped(Current) /\ Startable(Current)
                /\ go' = [go EXCEPT !["op"].step = "begin",
                                   !["op"].share = @ \/ (Task.kind = "installing" /\ Current = "shared")]
                /\ UNCHANGED am
             \/ /\ ~Skipped(Current) /\ ~Startable(Current)
                /\ HelmOpsFails
       \/ /\ Task.todo # <<>> /\ Current = "shared" /\ CallFails
          /\ HelmOpsFails
    /\ UNCHANGED <<owner, cluster, ghosts, asked>>

\* Helm creates the namespace and records the release without a look at the
\* context; a name that has come into use is an error.
Begin ==
    /\ At("op", "begin")
    /\ LET c == Current
           new == Task.kind = "installing" \/ rel[c] = "none"
           works == IF new THEN rel[c] = "none" /\ ns[c] # "terminating" ELSE rel[c] = "deployed"
       IN  \/ /\ works /\ NoFault
              /\ rel' = [rel EXCEPT ![c] = IF new THEN "pendingInstall" ELSE "pendingUpgrade"]
              /\ ns' = [ns EXCEPT ![c] = IF new THEN "active" ELSE @]
              /\ sharedBy' = IF new /\ c = "shared" THEN "owner" ELSE sharedBy
              /\ orphan' = IF new /\ ~Task.alive THEN orphan \cup {c} ELSE orphan
              /\ Goto("op", "helming") /\ UNCHANGED am
           \/ /\ (~works /\ NoFault) \/ Fault
              /\ HelmOpsFails
              /\ UNCHANGED <<rel, ns, sharedBy, orphan>>
    /\ UNCHANGED <<owner, work, installer, labelled, up, late, torn, asked>>

\* Helm is done: the objects are there, an upgrade has them replaced.  An
\* upgrade that had to install the shared chart fails all the same.
HelmEnds ==
    /\ At("op", "helming") /\ NoFault
    /\ ns[Current] = "active" /\ rel[Current] \in {"pendingInstall", "pendingUpgrade"}
    /\ rel' = [rel EXCEPT ![Current] = "deployed"]
    /\ work' = [work EXCEPT ![Current] = TRUE]
    /\ IF rel[Current] = "pendingInstall" /\ Task.kind # "installing"
       THEN EndFailed
       ELSE go' = NextChart /\ UNCHANGED am
    /\ UNCHANGED <<owner, ns, installer, labelled, up, late, ghosts, asked>>

\* A release that failed is recorded as failed, if it has not been removed.
RecordFailed == rel' = [rel EXCEPT ![Current] = IF @ = "none" THEN @ ELSE "failed"]

HelmFails ==
    /\ At("op", "helming")
    /\ \/ Fault
       \/ (ns[Current] # "active" \/ rel[Current] = "none") /\ NoFault
    /\ RecordFailed /\ HelmOpsFails
    /\ torn' = torn \cup {Current}
    /\ UNCHANGED <<owner, work, ns, installer, labelled, up, late, orphan, sharedBy, asked>>

\* The context ends while helm works; helm goes on.
HelmGivenUp ==
    /\ At("op", "helming") /\ ~Task.alive
    /\ RecordFailed /\ HelmOpsFails
    /\ torn' = torn \cup {Current} /\ late' = late \cup {Current}
    /\ UNCHANGED <<owner, work, ns, installer, labelled, up, orphan, sharedBy, asked, events>>

LateEnds ==
    /\ \E c \in late :
          /\ late' = late \ {c}
          /\ work' = [work EXCEPT ![c] = @ \/ ns[c] = "active"]
          /\ rel' \in {rel, [rel EXCEPT ![c] = IF @ = "none" \/ ns[c] # "active" THEN @ ELSE "deployed"]}
    /\ UNCHANGED <<am, owner, ns, installer, labelled, up, go, ghosts, asked, events>>

\* AddApplicationLabelsToDeployment: the workload becomes an Application.
Labels ==
    /\ At("op", "labels")
    /\ \/ /\ CallWorks /\ ns["main"] # "absent"
          /\ labelled' = (labelled \/ work["main"])
          /\ Goto("op", CASE Task.kind = "installing" -> "provider"
                          [] Task.kind = "upgrading"  -> IF multi THEN "share" ELSE "provider"
                          [] OTHER                    -> "wait")
          /\ UNCHANGED am
       \/ /\ CallFails \/ (ns["main"] = "absent" /\ NoFault)
          /\ HelmOpsFails
          /\ UNCHANGED labelled
    /\ UNCHANGED <<owner, rel, work, ns, installer, up, late, ghosts, asked>>

\* The list of Applications, the labels of the namespace, the policy and the
\* provider: an installation that cannot list does not clean up.
Provider ==
    /\ At("op", "provider")
    /\ \/ CallWorks /\ Goto("op", "wait") /\ UNCHANGED am
       \/ CallFails /\ HelmOpsFails
       \/ CallFails /\ ~multi /\ EndFailed
    /\ UNCHANGED <<owner, cluster, ghosts, asked>>

\* WaitForStartUp: any pod that has started will do.  A pod that is not
\* scheduled for too long leaves an installation as it is, to be stopped.
Wait ==
    /\ At("op", "wait")
    /\ \/ up /\ NoFault /\ Succeeds
       \/ /\ ~up /\ Task.alive /\ Fault
          /\ IF Task.kind = "installing" THEN End("stopping") ELSE EndFailed
       \/ ~Task.alive /\ NoFault /\ HelmOpsFails
    /\ UNCHANGED <<owner, cluster, ghosts, asked>>

-----------------------------------------------------------------------------
(***************************************************************************)
(* UninstallAll and Uninstall: by the operation, or by the reconciler.     *)
(***************************************************************************)
NextRemoval(x) == [go EXCEPT ![x].step = "pvc", ![x].todo = Tail(@)]

\* An installation that was cleaned up has failed.
Uninstalled(x) ==
    CASE go[x].kind \in {"uninstalling", "installingCanceling"} -> Goto(x, "gone") /\ UNCHANGED am
      [] go[x].kind = "installing" -> EndFailed
      [] go[x].kind = "forceDelete" -> /\ go' = [go EXCEPT ![x] = Idle]
                                       /\ am' = "uninstalled"

UninstallFails(x) ==
    IF x = "op" THEN EndFailed
    ELSE /\ go' = [go EXCEPT ![x] = Idle]
         /\ am' = IF go[x].kind = "installingCanceling"
                  THEN "installingCancelFailed" ELSE am

AliveCall(x) == go[x].alive /\ NoFault
DeadCall(x)  == Fault \/ (~go[x].alive /\ NoFault)

ListPvcs(x) ==
    /\ At(x, "pvc")
    /\ \/ AliveCall(x) /\ Goto(x, "release") /\ UNCHANGED am
       \/ DeadCall(x) /\ UninstallFails(x)
    /\ UNCHANGED <<owner, cluster, ghosts, asked>>

\* Helm uninstalls without the context; the permissions are looked up with it.
HelmUninstall(x) ==
    /\ At(x, "release")
    /\ LET c == Head(go[x].todo) IN
       /\ rel'  = [rel EXCEPT ![c] = "none"]
       /\ work' = [work EXCEPT ![c] = FALSE]
       /\ up'   = (up /\ c # "main")
       /\ labelled' = (labelled /\ c # "main")
       /\ torn' = torn \ {c} /\ orphan' = orphan \ {c}
       /\ sharedBy' = IF c = "shared" THEN "" ELSE sharedBy
    /\ \/ NoFault /\ Goto(x, "namespace") /\ UNCHANGED am
       \/ DeadCall(x) /\ UninstallFails(x)
    /\ UNCHANGED <<owner, ns, installer, late, asked>>

\* Mutant: any namespace that cannot be deleted is only logged.
DeleteNamespaceLogged(x) ==
    /\ At(x, "namespace")
    /\ LET c == Head(go[x].todo) IN
       /\ \/ AliveCall(x) /\ ns' = [ns EXCEPT ![c] = IF @ = "active" THEN "terminating" ELSE @]
          \/ DeadCall(x) /\ UNCHANGED ns
       /\ IF c = "main" THEN Uninstalled(x) ELSE go' = NextRemoval(x) /\ UNCHANGED am
    /\ UNCHANGED <<owner, rel, work, installer, labelled, up, late, ghosts, asked>>

\* A shared namespace that cannot be deleted is only logged.
DeleteNamespace(x) ==
    /\ At(x, "namespace")
    /\ LET c == Head(go[x].todo)
           goOn == IF c = "main" THEN Uninstalled(x) ELSE go' = NextRemoval(x) /\ UNCHANGED am
       IN  \/ /\ AliveCall(x)
              /\ ns' = [ns EXCEPT ![c] = IF @ = "active" THEN "terminating" ELSE @]
              /\ goOn
           \/ /\ DeadCall(x)
              /\ IF c = "main" THEN UninstallFails(x) ELSE goOn
              /\ UNCHANGED ns
    /\ UNCHANGED <<owner, rel, work, installer, labelled, up, late, ghosts, asked>>

\* Uninstalling waits for what it removed, a cancelled installation for the
\* namespace of the application; a time limit ends either.
Awaited(x) == {"main"} \cup (IF go[x].share THEN {"shared"} ELSE {})

Gone(x) ==
    /\ At(x, "gone") /\ NoFault /\ go[x].alive
    /\ \A c \in Awaited(x) : ns[c] = "absent"
    /\ IF x = "op" THEN End("uninstalled")
       ELSE /\ go' = [go EXCEPT ![x] = Idle]
            /\ am' = "installingCanceled"
    /\ UNCHANGED <<owner, cluster, ghosts, asked>>

\* Mutant: the wait for the namespaces has no limit.
GoneTimeoutNever(x) ==
    /\ At(x, "gone") /\ NoFault
    /\ ~go[x].alive
    /\ UninstallFails(x)
    /\ UNCHANGED <<owner, cluster, ghosts, asked>>

GoneTimeout(x) ==
    /\ At(x, "gone") /\ NoFault
    /\ ~go[x].alive \/ \E c \in Awaited(x) : ns[c] # "absent"
    /\ UninstallFails(x)
    /\ UNCHANGED <<owner, cluster, ghosts, asked>>

-----------------------------------------------------------------------------
(***************************************************************************)
(* The cluster, the other owners of a shared chart, and restarts.          *)
(***************************************************************************)
PodStarts ==
    /\ work["main"] /\ ~up /\ am \notin {"stopping", "stopped"}
    /\ up' = TRUE
    /\ UNCHANGED <<am, owner, rel, work, ns, installer, labelled, late, go, ghosts, asked, events>>

\* With a namespace goes all that is in it, the record of helm included.
NamespaceGone(c) ==
    /\ ns[c] = "terminating"
    /\ ns' = [ns EXCEPT ![c] = "absent"]
    /\ rel' = [rel EXCEPT ![c] = "none"] /\ work' = [work EXCEPT ![c] = FALSE]
    /\ torn' = torn \ {c} /\ orphan' = orphan \ {c}
    /\ IF c = "shared"
       THEN installer' = "" /\ sharedBy' = "" /\ UNCHANGED <<labelled, up>>
       ELSE labelled' = FALSE /\ up' = FALSE /\ UNCHANGED <<installer, sharedBy>>
    /\ UNCHANGED <<am, owner, late, go, asked, events>>

\* This owner has decided to install, or to remove, the shared chart.
Removing(x) == go[x].step \in {"pvc", "release", "namespace"} /\ Head(go[x].todo) = "shared"

Installing(x) == go[x].kind = "installing" /\ go[x].share

\* Another administrator installs the application, with the shared chart.
OtherInstalls ==
    /\ Fault
    /\ multi /\ rel["shared"] = "none" /\ ns["shared"] # "terminating"
    /\ rel' = [rel EXCEPT !["shared"] = "deployed"] /\ work' = [work EXCEPT !["shared"] = TRUE]
    /\ ns' = [ns EXCEPT !["shared"] = "active"]
    /\ installer' = IF installer = "" THEN "other" ELSE installer
    /\ sharedBy' = IF \E x \in Actor : Installing(x) \/ Removing(x) THEN "raced" ELSE "other"
    /\ UNCHANGED <<am, owner, labelled, up, late, go, torn, orphan, asked>>

\* The process restarts: what it was doing, helm included, is not finished.
Crash ==
    /\ Fault
    /\ go' = [x \in Actor |-> Idle] /\ late' = {}
    /\ torn' = torn \cup late \cup (IF At("op", "helming") THEN {Current} ELSE {})
    /\ UNCHANGED <<am, owner, rel, work, ns, installer, labelled, up, orphan, sharedBy, asked>>

-----------------------------------------------------------------------------
OpStep == \/ Status \/ Prepare \/ Share \/ Helm \/ Begin \/ HelmEnds \/ HelmFails
          \/ HelmGivenUp \/ Labels \/ Provider \/ Wait

RemovalStep(x) == ListPvcs(x) \/ HelmUninstall(x) \/ DeleteNamespace(x) \/ Gone(x) \/ GoneTimeout(x)

Reconcile == Pending \/ InstallFailed \/ Start \/ CancelInstall \/ CancelUpgrade \/ ForceDelete \/ Settle

Next == \/ \E op \in OpType : Request(op)
        \/ Reconcile \/ CancelUninstall
        \/ OpStep
        \/ \E x \in Actor : RemovalStep(x)
        \/ LateEnds \/ PodStarts
        \/ \E c \in Chart : NamespaceGone(c)
        \/ OtherInstalls \/ Crash

Spec == Init /\ [][Next]_vars

\* The reconciler and the goroutines go on, and Kubernetes deletes what it is
\* told to; failing calls and restarts are bounded, starting a pod is not due.
FairSpec == /\ Spec
            /\ WF_vars(Reconcile) /\ WF_vars(OpStep)
            /\ \A x \in Actor : WF_vars(RemovalStep(x))
            /\ \A c \in Chart : WF_vars(NamespaceGone(c))

-----------------------------------------------------------------------------
(***************************************************************************)
(* Properties.                                                             *)
(***************************************************************************)
TypeOK ==
    /\ am \in State
    /\ multi \in BOOLEAN /\ admin \in BOOLEAN /\ all \in BOOLEAN
    /\ rel \in [Chart -> Release] /\ work \in [Chart -> BOOLEAN] /\ ns \in [Chart -> Phase]
    /\ installer \in {"", "owner", "other"} /\ sharedBy \in {"", "owner", "other", "raced"}
    /\ labelled \in BOOLEAN /\ up \in BOOLEAN
    /\ go \in [Actor -> [kind : Kinds, step : Steps, alive : BOOLEAN, share : BOOLEAN,
                         todo : {<<>>, <<"main">>, <<"shared", "main">>}]]
    /\ late \subseteq Chart /\ torn \subseteq Chart /\ orphan \subseteq Chart
    /\ requests \in 0..MaxRequests /\ overtaken \in BOOLEAN /\ events \in 0..MaxEvents

\* What runs, or was stopped, can be upgraded and given new variables: its
\* release is deployed, which both insist on.  The exceptions are a helm call
\* of an operation that was cancelled, a release whose helm call failed or was
\* interrupted, and a namespace that is being deleted: Install takes a release
\* that exists, in any state and anywhere, for an installation.  And a request
\* that overtakes a reconciler may start an operation while that still removes.
RunningIsUpgradable ==
    am \in {"running", "stopped"} /\ ns["main"] = "active" =>
        overtaken \/ rel["main"] = "deployed" \/ "main" \in torn \/ (At("op", "helming") /\ ~Task.alive)

\* What was uninstalled, or whose installation was cancelled, is gone or going,
\* unless helm began to install it after the cancel, or a request overtook the
\* reconciler: a forced deletion writes its result whatever was asked meanwhile.
GoneLeavesNothing ==
    am \in {"uninstalled", "installingCanceled"} =>
        \/ overtaken \/ "main" \in orphan \/ ns["main"] = "terminating"
        \/ ns["main"] = "absent" /\ rel["main"] = "none" /\ ~work["main"]

\* This operation is the uninstallation of everything, the shared chart too.
UninstallsAll == go["op"].kind = "uninstalling" /\ go["op"].share

\* Nobody removes the shared chart that another owner has installed without
\* having asked for everything to be uninstalled, but in two cases: the label
\* names the wrong installer, or the other owner installed the chart between
\* this one's look at it and what followed ("raced").
SharedIsKept ==
    [][sharedBy = "other" /\ sharedBy' # "other" =>
         UninstallsAll \/ installer = "owner" \/ ns["shared"] = "terminating"]_vars

\* An uninstallation and a cancelled installation come to an end, whatever
\* fails on the way, at the latest by force; an installation may be through, or
\* have failed, before the cancel is carried out.
RemovalEnds ==
    am \in {"uninstalling", "installingCanceling"} ~>
        am \in {"uninstalled", "installingCanceled", "running", "stopped", "installFailed"}

=============================================================================
