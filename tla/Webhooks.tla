------------------------------ MODULE Webhooks ------------------------------
(***************************************************************************)
(* The admission webhooks of app-service: their registration at every      *)
(* start, the requests for ApplicationManagers from outside, the labels    *)
(* and the GPU that a workload gets, and the injection of the sidecars     *)
(* into a pod, which builds the configuration of the proxy in variables of *)
(* the package while other admissions do the same, and stores it in a      *)
(* ConfigMap that the pods of a Deployment share and read when they start. *)
(***************************************************************************)
EXTENDS AppStates, Integers, Sequences

CONSTANTS
    App,          \* applications, each with a namespace and one workload
    Pod,          \* slots for pods
    Profiles,     \* the kinds of applications to choose from
    None,         \* no ConfigMap, no build
    MaxRequests,  \* bound: requests from outside
    MaxEvents,    \* bound: edits by others
    MaxFaults     \* bound: failing calls and restarts

\* What the configuration of an application and its charts say.
Profile ==
    [kind : {"app", "middleware", "shared"},   \* of the namespace
     routes : SUBSET {"ws", "upload"},         \* sidecars with routes of their own
     perms : BOOLEAN,                          \* uses providers
     selected : BOOLEAN,                       \* its other pods get the proxy too
     mounted : BOOLEAN,                        \* its pods mount where uploads go
     deployment : BOOLEAN,                     \* the workload is a Deployment
     gpu : BOOLEAN]                            \* needs a GPU

ASSUME ConstantsAssumption ==
    /\ Profiles \subseteq Profile
    /\ None \notin App \cup Pod /\ App \cap Pod = {}
    /\ MaxRequests \in Nat /\ MaxEvents \in Nat /\ MaxFaults \in Nat

VARIABLES
    prof, of,     \* App -> its profile, Pod -> its application
    gpu,          \* the kind of GPU that the nodes show, or None
    boot,         \* registrations done since the process started
    hooks,        \* webhooks that the API server knows
    mgr,          \* App -> the ApplicationManager, or NoManager
    workload,     \* App -> whether its workload is there, has its labels, and the
                  \* kinds of GPU among its limits
    svc,          \* applications whose entrance has its Service
    cm,           \* name -> ConfigMap of the sidecar
    pod,          \* the pods
    adm,          \* admissions in progress
    httpFilters,  \* package variable: whose policies the filters check
    routeConfig,  \* package variable: the build that made the routes it points to
    httpM,        \* package variable: the build that made the manager it points to
    routes,       \* build -> what the routes it made hold
    manager,      \* build -> the manager it made
    mixed,        \* ghost: builds that another build overlapped
    disowned,     \* ghost: applications whose manager was deleted at rest
    excused,      \* ghost: pods whose admission could not know the entrance
    requests, events, faults

globals == <<httpFilters, routeConfig, httpM, routes, manager, mixed>>
ghosts  == <<disowned, excused>>
counts  == <<requests, events, faults>>
vars == <<prof, of, gpu, boot, hooks, mgr, workload, svc, cm, pod, adm, globals, ghosts, counts>>

NoManager  == [state |-> NoState, op |-> ""]
NoWorkload == [there |-> FALSE, labels |-> FALSE, gpu |-> {}]
NoPod == [st |-> "none", injected |-> FALSE, side |-> "none", serves |-> {}, conf |-> None]
Idle  == [at |-> "idle", injected |-> FALSE, policy |-> FALSE, fresh |-> FALSE, listener |-> None]

Gpu == {"nvidia", "nvshare", "virtai"}

Exists(a) == mgr[a] # NoManager

\* A call may fail.
NoFault == UNCHANGED faults
Fault == faults < MaxFaults /\ faults' = faults + 1
Event == events < MaxEvents /\ events' = events + 1

-----------------------------------------------------------------------------
(***************************************************************************)
(* Registration.  Every start of the process creates or updates the        *)
(* webhooks one by one before it serves; an update may meet a conflict,    *)
(* any other error ends the start.                                         *)
(***************************************************************************)
Hook(calls, policy) == [calls |-> calls, policy |-> policy]

SandboxHook          == Hook({"create pod"}, "Fail")
AppNamespaceHook     == Hook({"create workload"}, "Fail")
GpuLimitHook         == Hook({"create workload", "update workload"}, "Fail")
ProviderRegistryHook == Hook({"create provider", "update provider"}, "Fail")
CronWorkflowHook     == Hook({"create cronworkflow", "update cronworkflow"}, "Ignore")
RunAsUserHook        == Hook({"create pod"}, "Ignore")
AppLabelHook         == Hook({"create workload"}, "Fail")
UserHook             == Hook({"create user"}, "Fail")
ManagerMutatingHook  == Hook({"create manager", "update manager"}, "Fail")
ManagerDeletionHook  == Hook({"delete manager"}, "Fail")
ArgoResourceHook     == Hook({"create cronworkflow"}, "Fail")

Hooks == <<SandboxHook, AppNamespaceHook, GpuLimitHook, ProviderRegistryHook, CronWorkflowHook,
           RunAsUserHook, AppLabelHook, UserHook, ManagerMutatingHook, ManagerDeletionHook,
           ArgoResourceHook>>

Serving == boot = Len(Hooks)

\* Nobody answers, and the API server does not go on without an answer.
Refused(call) ==
    ~Serving /\ \E i \in 1 .. hooks : call \in Hooks[i].calls /\ Hooks[i].policy = "Fail"

\* Mutant: an error does not end the start.
RegisterOnPaper ==
    /\ ~Serving
    /\ boot' = boot + 1
    /\ hooks' \in {hooks, IF hooks < boot' THEN boot' ELSE hooks}
    /\ UNCHANGED <<prof, of, gpu, mgr, workload, svc, cm, pod, adm, globals, ghosts, counts>>

Register ==
    /\ ~Serving
    /\ boot' = boot + 1
    /\ hooks' = IF hooks < boot' THEN boot' ELSE hooks
    /\ UNCHANGED <<prof, of, gpu, mgr, workload, svc, cm, pod, adm, globals, ghosts, counts>>

\* The process ends, and the admissions it was working at with it.
Restart ==
    /\ boot > 0 /\ Fault
    /\ boot' = 0
    /\ adm' = [p \in Pod |-> Idle]
    /\ pod' = [p \in Pod |-> IF pod[p].st = "asked" THEN NoPod ELSE pod[p]]
    /\ httpFilters' = {} /\ routeConfig' = None /\ httpM' = None
    /\ routes' = [p \in Pod |-> {}] /\ manager' = [p \in Pod |-> None] /\ mixed' = {}
    /\ UNCHANGED <<prof, of, gpu, hooks, mgr, workload, svc, cm, ghosts, requests, events>>

Init ==
    /\ prof \in [App -> Profiles] /\ of \in [Pod -> App] /\ gpu \in Gpu \cup {None}
    /\ boot = 0 /\ hooks = 0
    /\ mgr = [a \in App |-> NoManager] /\ workload = [a \in App |-> NoWorkload] /\ svc = {}
    /\ cm = [n \in App \cup Pod |-> None]
    /\ pod = [p \in Pod |-> NoPod] /\ adm = [p \in Pod |-> Idle]
    /\ httpFilters = {} /\ routeConfig = None /\ httpM = None
    /\ routes = [p \in Pod |-> {}] /\ manager = [p \in Pod |-> None] /\ mixed = {}
    /\ disowned = {} /\ excused = {}
    /\ requests = 0 /\ events = 0 /\ faults = 0

-----------------------------------------------------------------------------
(***************************************************************************)
(* ApplicationManagers that others than app-service create, change and     *)
(* delete.  The webhook turns a changed operation into a state.            *)
(***************************************************************************)
\* Mutant: a cancelled resume is forgotten.
CancelStateNoResume(s) == IF s = "resuming" THEN NoState ELSE CancelState(s)

getCancelState(s) == CancelState(s)

\* Applying variables has no case: the object keeps the state it came with.
StateWritten(op, s) ==
    CASE op = "applyEnv" -> s
      [] op = "cancel" -> getCancelState(s)
      [] OTHER -> RequestedState(op, s)

\* The operation must be a new one, and allowed.
Acceptable(a, op) ==
    /\ IF Exists(a) THEN op # mgr[a].op ELSE op = "install"
    /\ IsOperationAllowed(mgr[a].state, op)

\* A request whose operation is unchanged, or an object annotated as coming from
\* app-service, passes as it is.  What else is validated (the name, the owner,
\* the chart, its requirements) may refuse the request.
RequestManager(a, op) ==
    /\ Serving /\ requests < MaxRequests /\ Acceptable(a, op)
    /\ mgr' = [mgr EXCEPT ![a] = [state |-> StateWritten(op, mgr[a].state), op |-> op]]
    /\ disowned' = disowned \ {a}
    /\ requests' = requests + 1
    /\ UNCHANGED <<prof, of, gpu, boot, hooks, workload, svc, cm, pod, adm, globals, excused, events,
                   faults>>

\* After an operation applyEnv has passed so, its writer writes the state, if it
\* read one that allows it.
WriteApplyingEnv(a) ==
    /\ mgr[a].op = "applyEnv" /\ IsOperationAllowed(mgr[a].state, "applyEnv")
    /\ mgr' = [mgr EXCEPT ![a].state = "applyingEnv"]
    /\ UNCHANGED <<prof, of, gpu, boot, hooks, workload, svc, cm, pod, adm, globals, ghosts, counts>>

\* Mutant: any ApplicationManager may be deleted.
MayDeleteAny(a) == TRUE

MayDelete(a) == mgr[a].state \notin OperatingStates

DeleteManager(a) ==
    /\ Serving /\ Exists(a) /\ MayDelete(a) /\ requests < MaxRequests
    /\ mgr' = [mgr EXCEPT ![a] = NoManager]
    /\ disowned' = IF mgr[a].state \in OperatingStates THEN disowned ELSE disowned \cup {a}
    /\ requests' = requests + 1
    /\ UNCHANGED <<prof, of, gpu, boot, hooks, workload, svc, cm, pod, adm, globals, excused, events,
                   faults>>

\* What the controller owes in a state, and the failed write of a cancel.
Owed(s) ==
    IF s \notin OperatingStates THEN {}
    ELSE StateTransitions(s) \cup (IF s = "applyingEnvCanceling" THEN {"applyingEnvCancelFailed"} ELSE {})

\* Removed applications lose their namespace with all that is in it.
Removed(s) == s \in {"uninstalled", "installingCanceled"}

Carry(a) ==
    \E s \in Owed(mgr[a].state) \cap PossibleStates :
      /\ mgr' = [mgr EXCEPT ![a].state = s]
      /\ IF Removed(s)
         THEN /\ workload' = [workload EXCEPT ![a] = NoWorkload] /\ svc' = svc \ {a}
              /\ cm' = [n \in App \cup Pod |->
                          IF n = a \/ (n \in Pod /\ of[n] = a) THEN None ELSE cm[n]]
              /\ pod' = [p \in Pod |-> IF of[p] = a THEN NoPod ELSE pod[p]]
         ELSE UNCHANGED <<workload, svc, cm, pod>>
      /\ UNCHANGED <<prof, of, gpu, boot, hooks, adm, globals, disowned, excused, counts>>

-----------------------------------------------------------------------------
(***************************************************************************)
(* Workloads.  One webhook gives the pods the labels of the application    *)
(* when the workload is created, one the GPU of the nodes when it is       *)
(* created or changed.  Both let it pass when they cannot read the         *)
(* ApplicationManager.                                                     *)
(***************************************************************************)
\* The limits that the workload was sent with, of one kind of GPU at most; what
\* needs none has none.
Sent(a) == IF prof[a].gpu THEN {{}} \cup {{k} : k \in Gpu} ELSE {{}}

\* Mutant: a kind of GPU that was there before stays.
addResourceLimitsTo(limits, kind) == (limits \ {"nvidia", "nvshare"}) \cup {kind}

addResourceLimits(limits, kind) == (limits \ Gpu) \cup {kind}

\* Only what needs a GPU and says so is given one, if a node has one.
gpuLimitMutate(a, limits, annotated, read) ==
    IF read /\ prof[a].gpu /\ annotated /\ gpu # None
    THEN addResourceLimits(limits, gpu) ELSE limits

\* Either webhook may fail to read the manager, both do when there is none; a
\* list of nodes that fails, or no Terminus object, denies the workload.
Mark(a, old, limits) ==
    \/ \E annotated, labels, read \in BOOLEAN :
         /\ IF Exists(a) THEN IF labels /\ read THEN NoFault ELSE Fault
                         ELSE ~labels /\ ~read /\ NoFault
         /\ workload' = [workload EXCEPT ![a] =
                [there |-> TRUE, labels |-> IF old.there THEN old.labels ELSE labels,
                 gpu |-> gpuLimitMutate(a, limits, annotated, read)]]
    \/ Exists(a) /\ prof[a].gpu /\ Fault /\ workload' = [workload EXCEPT ![a] = old]

\* Helm creates the Services of the chart before its workloads.
InstallChart(a) ==
    /\ mgr[a].state = "installing" /\ ~workload[a].there /\ ~Refused("create workload")
    /\ svc' = svc \cup {a}
    /\ \E limits \in Sent(a) : Mark(a, NoWorkload, limits)
    /\ UNCHANGED <<prof, of, gpu, boot, hooks, mgr, cm, pod, adm, globals, ghosts, requests, events>>

\* Someone replaces a workload, with its pods.
ReplaceWorkload(a) ==
    /\ workload[a].there /\ ~Refused("create workload") /\ Event
    /\ \E limits \in Sent(a) : Mark(a, NoWorkload, limits)
    /\ pod' = [p \in Pod |-> IF of[p] = a THEN NoPod ELSE pod[p]]
    /\ UNCHANGED <<prof, of, gpu, boot, hooks, mgr, svc, cm, adm, globals, ghosts, requests>>

\* Someone changes it: the limits come back as they were read, or are set anew.
ChangeWorkload(a) ==
    /\ workload[a].there /\ ~Refused("update workload") /\ Event
    /\ \E limits \in Sent(a) \cup {workload[a].gpu} : Mark(a, workload[a], limits)
    /\ UNCHANGED <<prof, of, gpu, boot, hooks, mgr, svc, cm, pod, adm, globals, ghosts, requests>>

\* The nodes show another kind of GPU, or none.
GpuChanges ==
    /\ Event
    /\ gpu' \in (Gpu \cup {None}) \ {gpu}
    /\ UNCHANGED <<prof, of, boot, hooks, mgr, workload, svc, cm, pod, adm, globals, ghosts, requests,
                   faults>>

\* Someone deletes or restores the Service of the entrance.
ChangeService(a) ==
    /\ workload[a].there /\ Event
    /\ svc' = IF a \in svc THEN svc \ {a} ELSE svc \cup {a}
    /\ UNCHANGED <<prof, of, gpu, boot, hooks, mgr, workload, cm, pod, adm, globals, ghosts, requests, faults>>

-----------------------------------------------------------------------------
(***************************************************************************)
(* Pods.  An admission decides what to inject, stores the configuration    *)
(* of the proxy and answers; an error denies the pod.                      *)
(***************************************************************************)
At(p, step) == adm[p].at = step
Goto(p, step) == [adm EXCEPT ![p].at = step]

\* The template may hold what looks like an injection: an init container of
\* the sidecar's name, or the proxy's container and the annotation.
Ask(p) ==
    /\ pod[p] = NoPod /\ adm[p] = Idle /\ workload[of[p]].there /\ Serving
    /\ pod' = [pod EXCEPT ![p].st = "asked"]
    /\ \E injected \in BOOLEAN :
         adm' = [adm EXCEPT ![p].at = "manager", ![p].injected = injected]
    /\ excused' = excused \ {p}
    /\ UNCHANGED <<prof, of, gpu, boot, hooks, mgr, workload, svc, cm, globals, disowned, counts>>

\* The answer reaches a pod that may be gone.
Answer(p, answer) ==
    /\ pod' = [pod EXCEPT ![p] = IF @.st = "asked" THEN answer ELSE @]
    /\ adm' = [adm EXCEPT ![p] = Idle]

Deny(p) == Answer(p, NoPod)
Admit(p, side, serves) ==
    Answer(p, [NoPod EXCEPT !.st = "admitted", !.injected = adm[p].injected,
                            !.side = side, !.serves = serves])

\* Mutant: like other webhooks, this one lets pass what it cannot judge.
CallFailsOpen(p) ==
    /\ \E step \in {"manager", "entrance", "map", "write", "probes"} : At(p, step)
    /\ Admit(p, "none", {}) /\ Fault
    /\ UNCHANGED <<prof, of, gpu, boot, hooks, mgr, workload, svc, cm, globals, ghosts, requests, events>>

\* Any call may fail, and the pod is denied: what asks is asked again later.
CallFails(p) ==
    /\ \E step \in {"manager", "entrance", "map", "write", "probes"} : At(p, step)
    /\ Deny(p) /\ Fault
    /\ UNCHANGED <<prof, of, gpu, boot, hooks, mgr, workload, svc, cm, globals, ghosts, requests, events>>

\* A namespace without a manager, or of a middleware, is none of its business.
GetAppConfig(p) ==
    /\ At(p, "manager")
    /\ IF Exists(of[p]) /\ prof[of[p]].kind # "middleware"
       THEN adm' = Goto(p, "entrance") /\ UNCHANGED <<pod, excused>>
       ELSE /\ Admit(p, "none", {})
            /\ excused' = IF of[p] \in disowned THEN excused \cup {p} ELSE excused
    /\ UNCHANGED <<prof, of, gpu, boot, hooks, mgr, workload, svc, cm, globals, disowned, counts>>

\* MustInject: whether the pod is behind the entrance decides on the policy;
\* routes and providers ask for the proxy in any case.  A pod in a shared
\* namespace gets a label at most.
MustInject(p) ==
    LET a == of[p]
        policy == a \in svc
    IN
    /\ At(p, "entrance")
    /\ IF prof[a].kind = "app" /\ (policy \/ prof[a].routes # {} \/ prof[a].perms)
       THEN /\ adm' = [adm EXCEPT ![p].at = "map", ![p].policy = policy]
            /\ UNCHANGED pod
       ELSE Admit(p, "none", {})
    /\ excused' = IF policy THEN excused ELSE excused \cup {p}
    /\ UNCHANGED <<prof, of, gpu, boot, hooks, mgr, workload, svc, cm, globals, disowned, counts>>

\* A pod that is taken for an injected one is left as it is.
isInjectedPod(p) ==
    /\ At(p, "map") /\ adm[p].injected
    /\ Admit(p, "none", {})
    /\ UNCHANGED <<prof, of, gpu, boot, hooks, mgr, workload, svc, cm, globals, ghosts, counts>>

\* A ConfigMap is named after the Deployment of the pod, or unique.
MapOf(p) == IF prof[of[p]].deployment THEN of[p] ELSE p

\* The ConfigMap is read and the permissions are converted.
GetConfigMap(p) ==
    /\ At(p, "map") /\ ~adm[p].injected
    /\ adm' = [adm EXCEPT ![p].at = "new", ![p].fresh = TRUE]
    /\ UNCHANGED <<prof, of, gpu, boot, hooks, mgr, workload, svc, cm, pod, globals, ghosts, counts>>

\* The steps of getEnvoyConfig: policy and routes where they are asked for.
Route(p, x, else) == IF x \in prof[of[p]].routes THEN x ELSE else
Routing(p) == Route(p, "ws", Route(p, "upload", "write"))
Policing(p) == IF adm[p].policy THEN "policy" ELSE Routing(p)

\* One of them changes the listener, the variables of the package, and what they
\* point to.
Built(p, listener, next) == adm' = [adm EXCEPT ![p].at = next, ![p].listener = listener]
Build == UNCHANGED <<prof, of, gpu, boot, hooks, mgr, workload, svc, cm, pod, ghosts, counts>>

Building == {p \in Pod : \E step \in {"listener", "policy", "ws", "upload"} : At(p, step)}

\* Mutant: the filters of the last build are kept.
RouterAfterOthers == httpFilters

Router == {}

\* New: filters and routes ...
NewFilters(p) ==
    /\ At(p, "new")
    /\ httpFilters' = Router
    /\ routeConfig' = p /\ routes' = [routes EXCEPT ![p] = {}]
    /\ mixed' = IF Building = {} THEN mixed \ {p} ELSE mixed \cup Building \cup {p}
    /\ Built(p, None, "listener") /\ Build /\ UNCHANGED <<httpM, manager>>

\* What is serialised of a manager object.
Serialised(m) == [policies |-> m.policies, app |-> of[m.routes], routes |-> routes[m.routes]]

\* ... then a manager object that points to them, and the listener.
NewListener(p) ==
    /\ At(p, "listener")
    /\ httpM' = p
    /\ manager' = [manager EXCEPT ![p] = [routes |-> routeConfig, policies |-> httpFilters]]
    /\ Built(p, Serialised(manager'[p]), Policing(p))
    /\ Build /\ UNCHANGED <<httpFilters, routeConfig, routes, mixed>>

\* The policy is prepended, and the listener made anew of the manager object.
WithPolicy(p) ==
    /\ At(p, "policy")
    /\ httpFilters' = httpFilters \cup {of[p]}
    /\ manager' = [manager EXCEPT ![httpM].policies = httpFilters']
    /\ Built(p, Serialised(manager'[httpM]), Routing(p))
    /\ Build /\ UNCHANGED <<routeConfig, httpM, routes, mixed>>

\* A route is appended, and the listener gets a manager object of its own.
WithRoute(p, x, next) ==
    LET appended == [routes EXCEPT ![routeConfig] = @ \cup {x}] IN
    /\ At(p, x)
    /\ routes' = appended
    /\ Built(p, [policies |-> httpFilters, app |-> of[routeConfig], routes |-> appended[routeConfig]],
             next)
    /\ Build /\ UNCHANGED <<httpFilters, routeConfig, httpM, manager, mixed>>

WithWebSocket(p) == WithRoute(p, "ws", Route(p, "upload", "write"))
WithUpload(p) == WithRoute(p, "upload", "write")

\* The outbound listener is built in variables of its own.
OutBound(p) == of[p]

Content(p) == [policy |-> adm[p].policy, listener |-> adm[p].listener, outbound |-> OutBound(p),
               mixed |-> p \in mixed]

\* The ConfigMap is created or updated as it was read, or there is a conflict.
WriteConfigMap(p) ==
    /\ At(p, "write")
    /\ IF adm[p].fresh /\ workload[of[p]].there
       THEN /\ cm' = [cm EXCEPT ![MapOf(p)] = Content(p)]
            /\ adm' = [q \in Pod |-> IF q = p THEN [adm[p] EXCEPT !.at = "probes"]
                                     ELSE [adm[q] EXCEPT !.fresh = @ /\ MapOf(q) # MapOf(p)]]
            /\ UNCHANGED pod
       ELSE Deny(p) /\ UNCHANGED cm
    /\ UNCHANGED <<prof, of, gpu, boot, hooks, mgr, workload, svc, globals, ghosts, counts>>

\* Pods behind the entrance get the proxy with the policy, others, if they are
\* selected, the one for what goes out.
Proxy(p) == IF adm[p].policy THEN "full" ELSE IF prof[of[p]].selected THEN "outbound" ELSE "none"

\* The servers of the routes: uploads need a place in the pod to go to.
Servers(p) == {x \in prof[of[p]].routes : x = "upload" => prof[of[p]].mounted}

CreatePatch(p) ==
    /\ At(p, "probes")
    /\ Admit(p, Proxy(p), Servers(p))
    /\ UNCHANGED <<prof, of, gpu, boot, hooks, mgr, workload, svc, cm, globals, ghosts, counts>>

\* The pod starts: it renders what the ConfigMap holds by now.
Start(p) ==
    /\ pod[p].st = "admitted"
    /\ pod[p].side # "none" => cm[MapOf(p)] # None
    /\ pod' = [pod EXCEPT ![p].st = "running",
                          ![p].conf = IF pod[p].side = "none" THEN None ELSE cm[MapOf(p)]]
    /\ UNCHANGED <<prof, of, gpu, boot, hooks, mgr, workload, svc, cm, adm, globals, ghosts, counts>>

Delete(p) ==
    /\ pod[p].st = "running" /\ Event
    /\ pod' = [pod EXCEPT ![p] = NoPod]
    /\ UNCHANGED <<prof, of, gpu, boot, hooks, mgr, workload, svc, cm, adm, globals, ghosts, requests, faults>>

-----------------------------------------------------------------------------
Admission(p) ==
    \/ CallFails(p) \/ GetAppConfig(p) \/ MustInject(p) \/ isInjectedPod(p)
    \/ GetConfigMap(p)
    \/ NewFilters(p) \/ NewListener(p) \/ WithPolicy(p) \/ WithWebSocket(p) \/ WithUpload(p)
    \/ WriteConfigMap(p) \/ CreatePatch(p)

Next ==
    \/ Register \/ Restart \/ GpuChanges
    \/ \E a \in App :
         \/ \E op \in OpType : RequestManager(a, op)
         \/ WriteApplyingEnv(a) \/ DeleteManager(a) \/ Carry(a)
         \/ InstallChart(a) \/ ReplaceWorkload(a) \/ ChangeWorkload(a) \/ ChangeService(a)
    \/ \E p \in Pod : Ask(p) \/ Admission(p) \/ Start(p) \/ Delete(p)

Spec == Init /\ [][Next]_vars

-----------------------------------------------------------------------------
(***************************************************************************)
(* Properties.                                                             *)
(***************************************************************************)
Listener == [policies : SUBSET App, app : App, routes : SUBSET {"ws", "upload"}]
ConfigMap == [policy : BOOLEAN, listener : Listener, outbound : App, mixed : BOOLEAN]

\* Every variable has its type: no build follows a pointer that is not set, and
\* a process that serves has registered every webhook (apiserver/handler.go:78).
TypeOK ==
    /\ prof \in [App -> Profiles] /\ of \in [Pod -> App]
    /\ boot \in 0 .. hooks /\ hooks \in 0 .. Len(Hooks)
    /\ \A a \in App : Exists(a) => mgr[a].state \in State \cup {NoState} /\ mgr[a].op \in OpType
    /\ gpu \in Gpu \cup {None}
    /\ \A a \in App : workload[a].labels \in BOOLEAN /\ workload[a].gpu \subseteq Gpu
    /\ \A n \in App \cup Pod : cm[n] # None => cm[n] \in ConfigMap
    /\ \A p \in Pod : /\ pod[p].st \in {"none", "asked", "admitted", "running"}
                      /\ pod[p].injected \in BOOLEAN
                      /\ pod[p].side \in {"none", "outbound", "full"}
                      /\ pod[p].serves \subseteq {"ws", "upload"}
                      /\ pod[p].conf # None => pod[p].conf \in ConfigMap
                      /\ adm[p].listener # None => adm[p].listener \in Listener
                      /\ manager[p] # None => manager[p].routes \in Pod
    /\ httpFilters \subseteq App /\ {routeConfig, httpM} \subseteq Pod \cup {None}
    /\ svc \cup disowned \subseteq App /\ excused \cup mixed \subseteq Pod

\* A pod behind the entrance of an application runs with the proxy and a
\* configuration of its own: its policy, its routes, nobody else's, and servers
\* behind the routes, if its uploads have a place to go to.  The exceptions are
\* pods whose admission did not find the Service, or the manager after it was
\* deleted at rest; pods that are taken for injected (webhook.go:160); the
\* policy of the pods of a Deployment, which an admission that found no Service
\* takes out of the ConfigMap that they share (webhook.go:458); and the
\* listener of builds that overlapped (envoy.go:438).
EntranceIsGuarded ==
    \A p \in Pod :
        LET a == of[p]
            c == pod[p].conf
        IN
        /\ pod[p].st = "running" /\ prof[a].kind = "app"
        /\ p \notin excused /\ ~pod[p].injected
        =>  /\ pod[p].side = "full"
            /\ prof[a].mounted => pod[p].serves = prof[a].routes
            /\ c.policy \/ prof[a].deployment
            /\ c.policy /\ ~c.mixed =>
                 c.listener = [policies |-> {a}, app |-> a, routes |-> prof[a].routes]

\* A workload never asks for two kinds of GPU, which no node has: also when the
\* nodes change, and the limit of an earlier kind comes back with an update
\* (webhook.go:584).
OneKindOfGpu ==
    \A a \in App : \A k, l \in workload[a].gpu : k = l

\* A request from outside never takes the state away from an ApplicationManager
\* that has one, which would allow the installation of what is installed.  The
\* exception is applyingEnvCancelFailed, whose cancel is allowed and has no case
\* (handler_webhook.go:1265): an application of variables that ran out of time
\* gets there, and its operation is not a cancel yet.
StateIsKept ==
    [][\A a \in App :
         Exists(a) /\ mgr'[a] # NoManager /\ mgr'[a].state = NoState =>
            mgr[a].state \in {NoState, "applyingEnvCancelFailed"}]_vars
=============================================================================
