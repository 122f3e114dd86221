--------------------------- MODULE WebhooksProofs ---------------------------
(***************************************************************************)
(* What Webhooks guarantees for any number of applications and pods, of    *)
(* any profiles: its types, that no request takes a state away but in the  *)
(* named way, that no workload asks for two kinds of GPU, and that what    *)
(* runs behind an entrance is guarded by a configuration of its own, but   *)
(* in the named ways.                                                      *)
(***************************************************************************)
EXTENDS Webhooks, TLAPS

Step == {"idle", "manager", "entrance", "map", "new", "listener", "policy", "ws", "upload",
         "write", "probes"}

Extra == {"ws", "upload"}

Manager == [routes : Pod, policies : SUBSET App]

PodType == [st : {"none", "asked", "admitted", "running"}, injected : BOOLEAN,
            side : {"none", "outbound", "full"}, serves : SUBSET Extra,
            conf : ConfigMap \cup {None}]

AdmissionType == [at : Step, injected : BOOLEAN, policy : BOOLEAN, fresh : BOOLEAN,
                  listener : Listener \cup {None}]

WorkloadType == [there : BOOLEAN, labels : BOOLEAN, gpu : SUBSET Gpu]

-----------------------------------------------------------------------------
(***************************************************************************)
(* The inductive invariant, part by part.                                  *)
(***************************************************************************)
RegistrationInv ==
    hooks \in 0 .. Len(Hooks) /\ boot \in 0 .. hooks

ManagersInv ==
    /\ mgr \in [App -> [state : PossibleStates, op : OpType \cup {""}]]
    /\ \A a \in App : mgr[a].op = "" => mgr[a] = NoManager
    /\ disowned \subseteq App

WorkloadsInv ==
    /\ workload \in [App -> WorkloadType]
    /\ gpu \in Gpu \cup {None}
    /\ svc \subseteq App

PodsInv ==
    /\ prof \in [App -> Profiles] /\ of \in [Pod -> App]
    /\ pod \in [Pod -> PodType]
    /\ cm \in [App \cup Pod -> ConfigMap \cup {None}]
    /\ excused \subseteq Pod

BuildsInv ==
    /\ adm \in [Pod -> AdmissionType]
    /\ httpFilters \subseteq App
    /\ routeConfig \in Pod \cup {None} /\ httpM \in Pod \cup {None}
    /\ routes \in [Pod -> SUBSET Extra]
    /\ manager \in [Pod -> Manager \cup {None}]
    /\ mixed \subseteq Pod

\* What a step of a build needs is there: the pointers that it follows are set,
\* and what it hands to the next one is made.
PointersInv ==
    /\ httpM \in Pod => manager[httpM] \in Manager
    /\ \A p \in Pod :
         /\ adm[p].at \in {"listener", "policy", "ws", "upload"} => routeConfig \in Pod
         /\ adm[p].at \in {"policy", "ws", "upload"} => httpM \in Pod
         /\ adm[p].at \in {"policy", "ws", "upload", "write"} => adm[p].listener \in Listener

TypeInv ==
    RegistrationInv /\ ManagersInv /\ WorkloadsInv /\ PodsInv /\ BuildsInv /\ PointersInv

\* The policies that the build of p ends with, and its listener.
Policies(p) == IF adm[p].policy THEN {of[p]} ELSE {}

Right(a, policies) == [policies |-> policies, app |-> a, routes |-> prof[a].routes]

\* A build that no other overlaps has the variables of the package, and what
\* they point to, for itself.
OwnBuild(p) ==
    /\ p \in Building => Building = {p} /\ routeConfig = p
    /\ adm[p].at \in {"listener", "policy"} => httpFilters = {} /\ routes[p] = {}
    /\ adm[p].at = "policy" => /\ adm[p].policy
                               /\ httpM = p /\ manager[p] = [routes |-> p, policies |-> {}]
    /\ adm[p].at \in Extra => /\ httpFilters = Policies(p)
                              /\ adm[p].at \in prof[of[p]].routes
    /\ adm[p].at = "ws" => routes[p] = {}
    /\ adm[p].at = "upload" => routes[p] = prof[of[p]].routes \cap {"ws"}
    /\ adm[p].at = "write" => adm[p].listener = Right(of[p], Policies(p))

OwnInv == \A p \in Pod \ mixed : OwnBuild(p)

\* A configuration that its application may run with.
Fit(c, a) == c.policy /\ ~c.mixed => c.listener = Right(a, {a})

AppOf(n) == IF n \in App THEN n ELSE of[n]

MapsInv == \A n \in App \cup Pod : cm[n] # None => Fit(cm[n], AppOf(n))

\* Pods have a workload, and a workload a manager, unless it was deleted at rest.
OwnersInv ==
    /\ \A p \in Pod : pod[p].st # "none" => workload[of[p]].there
    /\ \A a \in App : workload[a].there /\ ~Exists(a) => a \in disowned

\* Past the decision, an admission knows the entrance or is excused.
Decided(p) ==
    adm[p].at \notin {"idle", "manager", "entrance"} /\ ~adm[p].policy => p \in excused

Served(p) ==
    pod[p].st \in {"admitted", "running"} /\ prof[of[p]].kind = "app" /\ p \notin excused
    /\ ~pod[p].injected =>
        /\ pod[p].side = "full"
        /\ prof[of[p]].mounted => pod[p].serves = prof[of[p]].routes

Rendered(p) == pod[p].st = "running" /\ pod[p].side = "full" => Fit(pod[p].conf, of[p])

Guard(p) == Decided(p) /\ Served(p) /\ Rendered(p)

GuardInv == \A p \in Pod : Guard(p)

\* A pod outside a Deployment has its ConfigMap for itself: from the end of its
\* admission on it holds what the admission decided.
OwnMap(p) ==
    /\ pod[p].st \in {"admitted", "running"} => adm[p].at = "idle"
    /\ ~prof[of[p]].deployment =>
         /\ adm[p].at = "probes" /\ cm[p] # None => cm[p].policy = adm[p].policy
         /\ pod[p].st = "admitted" /\ pod[p].side = "full" /\ cm[p] # None => cm[p].policy
         /\ pod[p].st = "running" /\ pod[p].side = "full" => pod[p].conf.policy

OwnMapInv == \A p \in Pod : OwnMap(p)

IInv ==
    TypeInv /\ OwnInv /\ MapsInv /\ OwnersInv /\ GuardInv /\ OwnMapInv /\ OneKindOfGpu

-----------------------------------------------------------------------------
(***************************************************************************)
(* The tables, and what is shorthand for parts of the state.               *)
(***************************************************************************)
LEMMA HooksLength == Len(Hooks) = 11
BY DEF Hooks

\* No state that the webhook writes or the controller owes is impossible.
LEMMA PossibleWritten ==
    ASSUME NEW s \in PossibleStates, NEW op \in OpType
    PROVE  StateWritten(op, s) \in PossibleStates
<1>1. {"pending", "uninstalling", "upgrading", "stopping", "resuming", NoState}
        \subseteq PossibleStates
  BY DEF PossibleStates, NoState, LoadedStates, ImpossibleStates, WatchedStates, PolledStates,
         DoNothingStates, SuspendAgainStates, ForceDeleteStates, CancelingStates
<1>2. CancelState(s) \in PossibleStates
  BY DEF PossibleStates, NoState, LoadedStates, ImpossibleStates, WatchedStates, PolledStates,
         DoNothingStates, SuspendAgainStates, ForceDeleteStates, CancelingStates, CancelState
<1>3. op \in {"install", "uninstall", "upgrade", "applyEnv", "stop", "resume", "cancel"}
  BY DEF OpType
<1> QED
  BY <1>1, <1>2, <1>3 DEF StateWritten, getCancelState, RequestedState

\* No possible state is outside the table of states.
LEMMA PossibleIsState == PossibleStates \subseteq State \cup {NoState}
BY DEF PossibleStates, State, NoState, LoadedStates, ImpossibleStates, WatchedStates,
       PolledStates, DoNothingStates, SuspendAgainStates, ForceDeleteStates, CancelingStates

\* What the controller owes is never the absence of a state.
LEMMA OwedIsState == ASSUME NEW s PROVE NoState \notin Owed(s)
BY DEF Owed, StateTransitions, NoState

\* An accepted request leaves a possible state without one only by cancelling a
\* cancel that failed.
LEMMA OnlyFailedCancel ==
    ASSUME NEW s \in PossibleStates, NEW op \in OpType,
           IsOperationAllowed(s, op), StateWritten(op, s) = NoState
    PROVE  s \in {NoState, "applyingEnvCancelFailed"}
<1>1. op \in {"install", "uninstall", "upgrade", "applyEnv", "stop", "resume", "cancel"}
  BY DEF OpType
<1>2. CASE op = "cancel"
  <2>1. CancelState(s) = NoState
    BY <1>2 DEF StateWritten, getCancelState
  <2>2. "cancel" \in OperationAllowedInState(s)
    BY <1>2 DEF IsOperationAllowed
  <2>3. s \in CancelableStates \cup {"pendingCancelFailed", "downloadingCancelFailed",
              "installingCancelFailed", "upgradingCancelFailed", "applyingEnvCancelFailed"}
    BY <2>2 DEF OperationAllowedInState, InstallableStates, CancelableStates, NoState
  <2>4. s # "upgradingCancelFailed"
    BY DEF PossibleStates, ImpossibleStates
  <2> QED
    BY <2>1, <2>3, <2>4 DEF CancelState, CancelableStates, NoState
<1>3. CASE op = "applyEnv"
  BY <1>3 DEF StateWritten
<1>4. CASE op \in {"install", "uninstall", "upgrade", "stop", "resume"}
  BY <1>4 DEF StateWritten, RequestedState, NoState
<1> QED
  BY <1>1, <1>2, <1>3, <1>4

-----------------------------------------------------------------------------
(***************************************************************************)
(* Which steps touch what.                                                 *)
(***************************************************************************)
RequestStep(a) ==
    (\E op \in OpType : RequestManager(a, op)) \/ WriteApplyingEnv(a) \/ DeleteManager(a)
WorkloadStep(a) == InstallChart(a) \/ ReplaceWorkload(a) \/ ChangeWorkload(a) \/ ChangeService(a)
BuildStep(p) == NewFilters(p) \/ NewListener(p) \/ WithPolicy(p) \/ WithWebSocket(p) \/ WithUpload(p)
AnswerStep(p) ==
    Ask(p) \/ CallFails(p) \/ GetAppConfig(p) \/ MustInject(p) \/ isInjectedPod(p)
    \/ GetConfigMap(p) \/ WriteConfigMap(p) \/ CreatePatch(p)

\* A step is one of the process, of an application or of a pod.
LEMMA StepKinds ==
    ASSUME Next
    PROVE  \/ Register \/ Restart \/ GpuChanges
           \/ \E a \in App : RequestStep(a) \/ Carry(a) \/ WorkloadStep(a)
           \/ \E p \in Pod : BuildStep(p) \/ AnswerStep(p) \/ Start(p) \/ Delete(p)
BY DEF Next, Admission, RequestStep, WorkloadStep, BuildStep, AnswerStep

\* What an application is, and of which application a pod is, never changes.
LEMMA ProfilesStay == ASSUME [Next]_vars PROVE UNCHANGED <<prof, of>>
<1>1. CASE UNCHANGED vars
  BY <1>1 DEF vars
<1>2. CASE Register \/ Restart \/ GpuChanges
  BY <1>2 DEF Register, Restart, GpuChanges
<1>3. ASSUME NEW a \in App, RequestStep(a) \/ Carry(a) \/ WorkloadStep(a)
      PROVE  UNCHANGED <<prof, of>>
  BY <1>3 DEF RequestStep, WorkloadStep, RequestManager, WriteApplyingEnv, DeleteManager, Carry, InstallChart,
              ReplaceWorkload, ChangeWorkload, ChangeService
<1>4. ASSUME NEW p \in Pod, BuildStep(p)
      PROVE  UNCHANGED <<prof, of>>
  BY <1>4 DEF BuildStep, NewFilters, NewListener, WithPolicy, WithWebSocket, WithUpload, WithRoute,
              Build
<1>5. ASSUME NEW p \in Pod, AnswerStep(p) \/ Start(p) \/ Delete(p)
      PROVE  UNCHANGED <<prof, of>>
  BY <1>5 DEF AnswerStep, Ask, CallFails, GetAppConfig, MustInject, isInjectedPod, GetConfigMap, WriteConfigMap,
              CreatePatch, Start, Delete
<1> QED
  BY <1>1, <1>2, <1>3, <1>4, <1>5, StepKinds

\* Builds change nothing but what admissions and the package remember.
LEMMA BuildsAlone ==
    ASSUME NEW p \in Pod, BuildStep(p)
    PROVE  UNCHANGED <<prof, of, gpu, boot, hooks, mgr, workload, svc, cm, pod, ghosts, counts>>
BY DEF BuildStep, NewFilters, NewListener, WithPolicy, WithWebSocket, WithUpload, WithRoute, Build

\* Other steps of a pod leave to others the managers, the workloads and what the
\* package remembers.
LEMMA PodsAlone ==
    ASSUME NEW p \in Pod, AnswerStep(p) \/ Start(p) \/ Delete(p)
    PROVE  UNCHANGED <<prof, of, gpu, boot, hooks, mgr, workload, svc, globals, disowned>>
BY DEF AnswerStep, Ask, CallFails, GetAppConfig, MustInject, isInjectedPod, GetConfigMap, WriteConfigMap,
       CreatePatch, Start, Delete, globals, ghosts

\* Requests change nothing but managers.
LEMMA RequestsAlone ==
    ASSUME NEW a \in App, RequestStep(a)
    PROVE  UNCHANGED <<prof, of, gpu, boot, hooks, workload, svc, cm, pod, adm, globals, excused>>
BY DEF RequestStep, RequestManager, WriteApplyingEnv, DeleteManager, ghosts

\* Changes of a workload leave the managers, the admissions and the ConfigMaps.
LEMMA WorkloadsAlone ==
    ASSUME NEW a \in App, WorkloadStep(a)
    PROVE  UNCHANGED <<prof, of, gpu, boot, hooks, mgr, cm, adm, globals, disowned, excused>>
BY DEF WorkloadStep, InstallChart, ReplaceWorkload, ChangeWorkload, ChangeService, ghosts

\* Nothing but the nodes changes with the GPU that they show.
LEMMA GpuAlone ==
    ASSUME GpuChanges
    PROVE  /\ UNCHANGED <<prof, of, boot, hooks, mgr, workload, svc, cm, pod, adm, globals, ghosts>>
           /\ gpu' \in Gpu \cup {None}
BY DEF GpuChanges

-----------------------------------------------------------------------------
(***************************************************************************)
(* Types.                                                                  *)
(***************************************************************************)
LEMMA RegistrationStep == ASSUME RegistrationInv, [Next]_vars PROVE RegistrationInv'
<1>1. CASE UNCHANGED vars
  BY <1>1 DEF vars, RegistrationInv
<1>2. CASE Register
  BY <1>2, HooksLength DEF Register, Serving, RegistrationInv
<1>3. CASE Restart \/ GpuChanges
  BY <1>3, HooksLength DEF Restart, GpuChanges, RegistrationInv
<1>4. ASSUME NEW a \in App, RequestStep(a) \/ Carry(a) \/ WorkloadStep(a)
      PROVE  RegistrationInv'
  BY <1>4, RequestsAlone, WorkloadsAlone DEF Carry, RegistrationInv
<1>5. ASSUME NEW p \in Pod, BuildStep(p) \/ AnswerStep(p) \/ Start(p) \/ Delete(p)
      PROVE  RegistrationInv'
  BY <1>5, BuildsAlone, PodsAlone DEF RegistrationInv
<1> QED
  BY <1>1, <1>2, <1>3, <1>4, <1>5, StepKinds

\* Managers have possible states: what a request writes, and what the controller owes.
LEMMA ManagersStep == ASSUME ManagersInv, [Next]_vars PROVE ManagersInv'
<1>1. CASE UNCHANGED vars
  BY <1>1 DEF vars, ghosts, ManagersInv
<1>2. CASE Register \/ Restart \/ GpuChanges
  BY <1>2 DEF Register, Restart, GpuChanges, ghosts, ManagersInv
<1>3. ASSUME NEW a \in App, NEW op \in OpType, RequestManager(a, op)
      PROVE  ManagersInv'
  <2>1. StateWritten(op, mgr[a].state) \in PossibleStates
    BY PossibleWritten DEF ManagersInv
  <2>2. op # ""
    BY DEF OpType
  <2> QED
    BY <1>3, <2>1, <2>2 DEF RequestManager, ManagersInv
<1>4. ASSUME NEW a \in App, DeleteManager(a)
      PROVE  ManagersInv'
  <2>1. NoState \in PossibleStates
    BY DEF PossibleStates, ImpossibleStates, NoState
  <2> QED
    BY <1>4, <2>1 DEF DeleteManager, NoManager, ManagersInv
<1>8. ASSUME NEW a \in App, WriteApplyingEnv(a)
      PROVE  ManagersInv'
  <2>1. "applyingEnv" \in PossibleStates
    BY DEF PossibleStates, LoadedStates, ImpossibleStates, WatchedStates
  <2>2. mgr' = [mgr EXCEPT ![a].state = "applyingEnv"] /\ mgr[a].op # "" /\ disowned' = disowned
    BY <1>8 DEF WriteApplyingEnv, ghosts
  <2> QED
    BY <2>1, <2>2 DEF ManagersInv
<1>5. ASSUME NEW a \in App, Carry(a)
      PROVE  ManagersInv'
  <2>1. mgr[a].state \in OperatingStates
    BY <1>5 DEF Carry, Owed
  <2>2. mgr[a] # NoManager
    <3>1. NoState \notin OperatingStates
      BY DEF NoState, OperatingStates, CancelableStates, CancelingStates
    <3>2. NoManager.state = NoState
      BY DEF NoManager
    <3> QED
      BY <2>1, <3>1, <3>2
  <2>3. disowned' = disowned
    BY <1>5 DEF Carry
  <2>4. PICK s \in PossibleStates : mgr' = [mgr EXCEPT ![a].state = s]
    BY <1>5 DEF Carry
  <2> QED
    BY <2>2, <2>3, <2>4 DEF ManagersInv
<1>6. ASSUME NEW a \in App, WorkloadStep(a)
      PROVE  ManagersInv'
  BY <1>6, WorkloadsAlone DEF ManagersInv
<1>7. ASSUME NEW p \in Pod, BuildStep(p) \/ AnswerStep(p) \/ Start(p) \/ Delete(p)
      PROVE  ManagersInv'
  BY <1>7, BuildsAlone, PodsAlone DEF ghosts, ManagersInv
<1> QED
  BY <1>1, <1>2, <1>3, <1>4, <1>5, <1>6, <1>7, <1>8, StepKinds DEF RequestStep

\* The limits that a workload is sent with are of kinds of GPU.
LEMMA SentTypes == ASSUME NEW a PROVE Sent(a) \subseteq SUBSET Gpu
BY DEF Sent

\* What the webhook leaves of them are kinds of GPU.
LEMMA LimitTypes ==
    ASSUME WorkloadsInv, NEW a, NEW limits \in SUBSET Gpu, NEW annotated, NEW read
    PROVE  gpuLimitMutate(a, limits, annotated, read) \in SUBSET Gpu
BY DEF gpuLimitMutate, addResourceLimits, WorkloadsInv

\* Two webhooks leave a workload with labels and limits, or as it was.
LEMMA MarkTypes ==
    ASSUME WorkloadsInv, NEW a \in App, NEW old \in WorkloadType,
           NEW limits \in SUBSET Gpu, Mark(a, old, limits)
    PROVE  workload' \in [App -> WorkloadType]
<1>1. CASE workload' = [workload EXCEPT ![a] = old]
  BY <1>1 DEF WorkloadsInv
<1>2. ASSUME NEW annotated \in BOOLEAN, NEW labels \in BOOLEAN, NEW read \in BOOLEAN,
             workload' = [workload EXCEPT ![a] =
               [there |-> TRUE, labels |-> IF old.there THEN old.labels ELSE labels,
                gpu |-> gpuLimitMutate(a, limits, annotated, read)]]
      PROVE  workload' \in [App -> WorkloadType]
  <2> DEFINE g == gpuLimitMutate(a, limits, annotated, read)
             l == IF old.there THEN old.labels ELSE labels
  <2>1. g \in SUBSET Gpu /\ l \in BOOLEAN
    BY LimitTypes DEF WorkloadType
  <2> HIDE DEF g, l
  <2>2. [there |-> TRUE, labels |-> l, gpu |-> g] \in WorkloadType
    BY <2>1 DEF WorkloadType
  <2>3. workload' = [workload EXCEPT ![a] = [there |-> TRUE, labels |-> l, gpu |-> g]]
    BY <1>2 DEF g, l
  <2> QED
    BY <2>2, <2>3 DEF WorkloadsInv
<1> QED
  BY <1>1, <1>2 DEF Mark

\* A workload that is not there has its type.
LEMMA NoWorkloadType == NoWorkload \in WorkloadType
BY DEF NoWorkload, WorkloadType

\* Workloads ask for kinds of GPU only.
LEMMA WorkloadsStep == ASSUME WorkloadsInv, [Next]_vars PROVE WorkloadsInv'
<1>1. CASE UNCHANGED vars
  BY <1>1 DEF vars, WorkloadsInv
<1>2. CASE Register \/ Restart \/ GpuChanges
  BY <1>2, GpuAlone DEF Register, Restart, WorkloadsInv
<1>3. ASSUME NEW a \in App, RequestStep(a)
      PROVE  WorkloadsInv'
  BY <1>3, RequestsAlone DEF WorkloadsInv
<1>4. ASSUME NEW a \in App, Carry(a)
      PROVE  WorkloadsInv'
  <2>1. workload' = [workload EXCEPT ![a] = NoWorkload] \/ workload' = workload
    BY <1>4 DEF Carry
  <2>2. svc' \in {svc, svc \ {a}} /\ gpu' = gpu
    BY <1>4 DEF Carry
  <2>3. workload' \in [App -> WorkloadType]
    BY <2>1, NoWorkloadType DEF WorkloadsInv
  <2> QED
    BY <2>2, <2>3 DEF WorkloadsInv
<1>5. ASSUME NEW a \in App, WorkloadStep(a)
      PROVE  WorkloadsInv'
  <2>1. CASE InstallChart(a) \/ ReplaceWorkload(a)
    <3>1. PICK limits \in Sent(a) : Mark(a, NoWorkload, limits)
      BY <2>1 DEF InstallChart, ReplaceWorkload
    <3>2. limits \in SUBSET Gpu
      BY <3>1, SentTypes
    <3>3. workload' \in [App -> WorkloadType]
      BY <3>1, <3>2, MarkTypes, NoWorkloadType
    <3>4. svc' \in {svc, svc \cup {a}} /\ gpu' = gpu
      BY <2>1 DEF InstallChart, ReplaceWorkload
    <3> QED
      BY <3>3, <3>4 DEF WorkloadsInv
  <2>2. CASE ChangeWorkload(a)
    <3>1. workload[a] \in WorkloadType /\ workload[a].gpu \in SUBSET Gpu
      BY DEF WorkloadsInv, WorkloadType
    <3>2. PICK limits \in Sent(a) \cup {workload[a].gpu} : Mark(a, workload[a], limits)
      BY <2>2 DEF ChangeWorkload
    <3>3. limits \in SUBSET Gpu
      BY <3>1, <3>2, SentTypes
    <3>4. workload' \in [App -> WorkloadType]
      BY <3>1, <3>2, <3>3, MarkTypes
    <3> QED
      BY <2>2, <3>4 DEF ChangeWorkload, WorkloadsInv
  <2>3. CASE ChangeService(a)
    BY <2>3 DEF ChangeService, WorkloadsInv
  <2> QED
    BY <1>5, <2>1, <2>2, <2>3 DEF WorkloadStep
<1>6. ASSUME NEW p \in Pod, BuildStep(p) \/ AnswerStep(p) \/ Start(p) \/ Delete(p)
      PROVE  WorkloadsInv'
  BY <1>6, BuildsAlone, PodsAlone DEF WorkloadsInv
<1> QED
  BY <1>1, <1>2, <1>3, <1>4, <1>5, <1>6, StepKinds

\* What steps make of pods, admissions and ConfigMaps has its type.
LEMMA PodTypes ==
    /\ NoPod \in PodType
    /\ \A x \in PodType : [x EXCEPT !.st = "asked"] \in PodType
    /\ \A injected \in BOOLEAN, side \in {"none", "outbound", "full"}, serves \in SUBSET Extra :
         [NoPod EXCEPT !.st = "admitted", !.injected = injected, !.side = side,
                       !.serves = serves] \in PodType
    /\ \A x \in PodType, c \in ConfigMap \cup {None} :
         [x EXCEPT !.st = "running", !.conf = c] \in PodType
<1> DEFINE Conf == ConfigMap \cup {None}
<1>1. None \in Conf
  OBVIOUS
<1>2. PodType = [st : {"none", "asked", "admitted", "running"}, injected : BOOLEAN,
                 side : {"none", "outbound", "full"}, serves : SUBSET Extra, conf : Conf]
  BY DEF PodType
<1> HIDE DEF Conf
<1> QED
  <2>1. NoPod \in PodType
    BY <1>1, <1>2 DEF NoPod
  <2>2. \A x \in PodType : [x EXCEPT !.st = "asked"] \in PodType
    BY <1>2
  <2>3. \A injected \in BOOLEAN, side \in {"none", "outbound", "full"}, serves \in SUBSET Extra :
          [NoPod EXCEPT !.st = "admitted", !.injected = injected, !.side = side,
                        !.serves = serves] \in PodType
    BY <1>1, <1>2 DEF NoPod
  <2>4. \A x \in PodType, c \in Conf : [x EXCEPT !.st = "running", !.conf = c] \in PodType
    BY <1>2
  <2> QED
    BY <2>1, <2>2, <2>3, <2>4 DEF Conf

\* What steps make of an admission has its type.
LEMMA AdmissionTypes ==
    /\ Idle \in AdmissionType
    /\ \A x \in AdmissionType, step \in Step : [x EXCEPT !.at = step] \in AdmissionType
    /\ \A x \in AdmissionType, step \in Step, injected \in BOOLEAN :
         [x EXCEPT !.at = step, !.injected = injected] \in AdmissionType
    /\ \A x \in AdmissionType, step \in Step, policy \in BOOLEAN :
         [x EXCEPT !.at = step, !.policy = policy] \in AdmissionType
    /\ \A x \in AdmissionType, step \in Step, fresh \in BOOLEAN :
         [x EXCEPT !.at = step, !.fresh = fresh] \in AdmissionType
    /\ \A x \in AdmissionType, fresh \in BOOLEAN : [x EXCEPT !.fresh = fresh] \in AdmissionType
    /\ \A x \in AdmissionType, step \in Step, l \in Listener \cup {None} :
         [x EXCEPT !.at = step, !.listener = l] \in AdmissionType
<1> DEFINE Maybe == Listener \cup {None}
<1>1. None \in Maybe
  OBVIOUS
<1>2. AdmissionType = [at : Step, injected : BOOLEAN, policy : BOOLEAN, fresh : BOOLEAN,
                       listener : Maybe]
  BY DEF AdmissionType
<1> HIDE DEF Maybe
<1>3. Idle \in AdmissionType
  BY <1>1, <1>2 DEF Idle, Step
<1>4. \A x \in AdmissionType, step \in Step, l \in Maybe :
        [x EXCEPT !.at = step, !.listener = l] \in AdmissionType
  BY <1>2
<1> QED
  BY <1>2, <1>3, <1>4 DEF Maybe

\* An answer leaves every pod what it is, or gives its pod what was answered.
LEMMA AnswerTypes ==
    ASSUME PodsInv, NEW p \in Pod, NEW answer \in PodType, Answer(p, answer)
    PROVE  pod' \in [Pod -> PodType]
BY DEF PodsInv, Answer

\* A denied pod leaves the types.
LEMMA DenyTypes ==
    ASSUME PodsInv, NEW p \in Pod, Deny(p)
    PROVE  pod' \in [Pod -> PodType]
BY PodTypes, AnswerTypes DEF Deny

\* So does an admitted one.
LEMMA AdmitTypes ==
    ASSUME PodsInv, NEW p \in Pod, NEW side \in {"none", "outbound", "full"},
           BuildsInv, NEW serves \in SUBSET Extra, Admit(p, side, serves)
    PROVE  pod' \in [Pod -> PodType]
<1>1. adm[p].injected \in BOOLEAN
  BY DEF BuildsInv, AdmissionType
<1> QED
  BY <1>1, PodTypes, AnswerTypes DEF Admit

\* A finished build makes a ConfigMap.
LEMMA ContentType ==
    ASSUME TypeInv, NEW p \in Pod, At(p, "write")
    PROVE  Content(p) \in ConfigMap
<1>1. adm[p].listener \in Listener
  BY DEF TypeInv, PointersInv, At
<1>2. adm[p].policy \in BOOLEAN /\ of[p] \in App
  BY DEF TypeInv, BuildsInv, PodsInv, AdmissionType
<1> QED
  BY <1>1, <1>2 DEF Content, OutBound, ConfigMap

\* A ConfigMap is named after an application or a pod.
LEMMA MapName == ASSUME PodsInv, NEW p \in Pod PROVE MapOf(p) \in App \cup Pod
BY DEF PodsInv, MapOf

\* Admissions give pods and ConfigMaps their types.
LEMMA AnswerStepPods ==
    ASSUME TypeInv, NEW p \in Pod, AnswerStep(p)
    PROVE  /\ pod' \in [Pod -> PodType]
           /\ cm' \in [App \cup Pod -> ConfigMap \cup {None}]
           /\ excused' \subseteq Pod
<1> USE DEF TypeInv
<1>1. CASE Ask(p)
  <2>1. pod' \in [Pod -> PodType]
    <3>1. [pod[p] EXCEPT !.st = "asked"] \in PodType
      BY PodTypes DEF PodsInv
    <3> QED
      BY <1>1, <3>1 DEF Ask, PodsInv
  <2> QED
    BY <1>1, <2>1 DEF Ask, PodsInv
<1>2. CASE CallFails(p)
  BY <1>2, DenyTypes DEF CallFails, ghosts, PodsInv
<1>3. CASE GetAppConfig(p)
  <2>1. pod' \in [Pod -> PodType]
    BY <1>3, AdmitTypes DEF GetAppConfig, PodsInv
  <2> QED
    BY <1>3, <2>1 DEF GetAppConfig, PodsInv
<1>4. CASE MustInject(p)
  <2>1. pod' \in [Pod -> PodType]
    BY <1>4, AdmitTypes DEF MustInject, PodsInv
  <2> QED
    BY <1>4, <2>1 DEF MustInject, PodsInv
<1>5. CASE GetConfigMap(p)
  BY <1>5 DEF GetConfigMap, ghosts, PodsInv
<1>6. CASE WriteConfigMap(p)
  <2>1. pod' \in [Pod -> PodType]
    BY <1>6, DenyTypes DEF WriteConfigMap, PodsInv
  <2>2. Content(p) \in ConfigMap
    BY <1>6, ContentType DEF WriteConfigMap
  <2>3. cm' = cm \/ cm' = [cm EXCEPT ![MapOf(p)] = Content(p)]
    BY <1>6 DEF WriteConfigMap
  <2>4. cm' \in [App \cup Pod -> ConfigMap \cup {None}]
    BY <2>2, <2>3 DEF PodsInv
  <2> QED
    BY <1>6, <2>1, <2>4 DEF WriteConfigMap, ghosts, PodsInv
<1>8. CASE isInjectedPod(p)
  <2>1. pod' \in [Pod -> PodType]
    BY <1>8, AdmitTypes DEF isInjectedPod, PodsInv
  <2> QED
    BY <1>8, <2>1 DEF isInjectedPod, ghosts, PodsInv
<1>7. CASE CreatePatch(p)
  <2>1. Proxy(p) \in {"none", "outbound", "full"}
    BY DEF Proxy
  <2>2. Servers(p) \in SUBSET Extra
    <3>1. prof[of[p]] \in Profile
      BY ConstantsAssumption DEF PodsInv
    <3> QED
      BY <3>1 DEF Servers, Profile, Extra
  <2> QED
    BY <1>7, <2>1, <2>2, AdmitTypes DEF CreatePatch, ghosts, PodsInv
<1> QED
  BY <1>1, <1>2, <1>3, <1>4, <1>5, <1>6, <1>7, <1>8 DEF AnswerStep

\* So does every step.
LEMMA PodsStep == ASSUME TypeInv, [Next]_vars PROVE PodsInv'
<1> USE DEF TypeInv
<1>1. CASE UNCHANGED vars
  BY <1>1 DEF vars, ghosts, PodsInv
<1>2. CASE Register \/ GpuChanges
  BY <1>2 DEF Register, GpuChanges, ghosts, PodsInv
<1>3. CASE Restart
  BY <1>3, PodTypes DEF Restart, ghosts, PodsInv
<1>4. ASSUME NEW a \in App, RequestStep(a)
      PROVE  PodsInv'
  BY <1>4, RequestsAlone DEF PodsInv
<1>5. ASSUME NEW a \in App, Carry(a)
      PROVE  PodsInv'
  <2>1. pod' = pod \/ pod' = [p \in Pod |-> IF of[p] = a THEN NoPod ELSE pod[p]]
    BY <1>5 DEF Carry
  <2>2. cm' = cm \/ cm' = [n \in App \cup Pod |->
                             IF n = a \/ (n \in Pod /\ of[n] = a) THEN None ELSE cm[n]]
    BY <1>5 DEF Carry
  <2>3. pod' \in [Pod -> PodType]
    BY <2>1, PodTypes DEF PodsInv
  <2>4. cm' \in [App \cup Pod -> ConfigMap \cup {None}]
    BY <2>2 DEF PodsInv
  <2> QED
    BY <1>5, <2>3, <2>4 DEF Carry, PodsInv
<1>6. ASSUME NEW a \in App, WorkloadStep(a)
      PROVE  PodsInv'
  <2>1. pod' = pod \/ pod' = [p \in Pod |-> IF of[p] = a THEN NoPod ELSE pod[p]]
    BY <1>6 DEF WorkloadStep, InstallChart, ReplaceWorkload, ChangeWorkload, ChangeService
  <2>2. pod' \in [Pod -> PodType]
    BY <2>1, PodTypes DEF PodsInv
  <2> QED
    BY <1>6, <2>2, WorkloadsAlone DEF PodsInv
<1>7. ASSUME NEW p \in Pod, BuildStep(p)
      PROVE  PodsInv'
  BY <1>7, BuildsAlone DEF ghosts, PodsInv
<1>8. ASSUME NEW p \in Pod, AnswerStep(p)
      PROVE  PodsInv'
  BY <1>8, AnswerStepPods, PodsAlone DEF PodsInv
<1>9. ASSUME NEW p \in Pod, Start(p) \/ Delete(p)
      PROVE  PodsInv'
  <2>1. CASE Start(p)
    <3> DEFINE c == IF pod[p].side = "none" THEN None ELSE cm[MapOf(p)]
    <3>1. c \in ConfigMap \cup {None}
      BY MapName DEF PodsInv
    <3> HIDE DEF c
    <3>2. pod' = [pod EXCEPT ![p] = [pod[p] EXCEPT !.st = "running", !.conf = c]]
      BY <2>1 DEF Start, PodsInv, c
    <3>3. pod' \in [Pod -> PodType]
      BY <3>1, <3>2, PodTypes DEF PodsInv
    <3> QED
      BY <2>1, <3>3 DEF Start, ghosts, PodsInv
  <2>2. CASE Delete(p)
    BY <2>2, PodTypes DEF Delete, ghosts, PodsInv
  <2> QED
    BY <1>9, <2>1, <2>2
<1> QED
  BY <1>1, <1>2, <1>3, <1>4, <1>5, <1>6, <1>7, <1>8, <1>9, StepKinds

\* Where a build goes next.
LEMMA NextSteps ==
    ASSUME NEW p \in Pod
    PROVE  /\ Route(p, "upload", "write") \in {"upload", "write"}
           /\ Routing(p) \in {"ws", "upload", "write"}
           /\ Policing(p) \in {"policy", "ws", "upload", "write"}
BY DEF Route, Routing, Policing

\* What a step of a build makes of its admission.
LEMMA BuiltTypes ==
    ASSUME BuildsInv, NEW p \in Pod, NEW l \in Listener \cup {None}, NEW next \in Step,
           Built(p, l, next)
    PROVE  adm' \in [Pod -> AdmissionType]
<1>1. [adm[p] EXCEPT !.at = next, !.listener = l] \in AdmissionType
  BY AdmissionTypes DEF BuildsInv
<1>2. adm' = [adm EXCEPT ![p] = [adm[p] EXCEPT !.at = next, !.listener = l]]
  BY DEF Built, BuildsInv
<1> QED
  BY <1>1, <1>2 DEF BuildsInv

\* What is serialised of a manager object is a listener.
LEMMA SerialisedType ==
    ASSUME PodsInv, BuildsInv, NEW m \in Manager
    PROVE  Serialised(m) \in Listener
<1>1. m.policies \in SUBSET App /\ m.routes \in Pod
  BY DEF Manager
<1>2. of[m.routes] \in App /\ routes[m.routes] \in SUBSET Extra
  BY <1>1 DEF PodsInv, BuildsInv
<1> QED
  BY <1>1, <1>2 DEF Serialised, Listener, Extra

\* A step of a build keeps its types and leaves a listener to the next step.
LEMMA BuildStepTypes ==
    ASSUME TypeInv, NEW p \in Pod, BuildStep(p)
    PROVE  BuildsInv' /\ PointersInv'
<1> USE DEF TypeInv
<1>1. CASE NewFilters(p)
  <2>1. adm' \in [Pod -> AdmissionType]
    BY <1>1, BuiltTypes DEF NewFilters, Step
  <2>2. mixed' \subseteq Pod /\ routes' \in [Pod -> SUBSET Extra] /\ routeConfig' = p
    BY <1>1 DEF NewFilters, Building, BuildsInv
  <2>3. httpFilters' = {} /\ httpM' = httpM /\ manager' = manager
    BY <1>1 DEF NewFilters, Router
  <2>4. BuildsInv'
    BY <2>1, <2>2, <2>3 DEF BuildsInv
  <2>5. /\ \A q \in Pod \ {p} : adm'[q] = adm[q]
        /\ adm'[p].at = "listener"
    BY <1>1 DEF NewFilters, Built, BuildsInv, AdmissionType
  <2> QED
    BY <2>2, <2>3, <2>4, <2>5 DEF PointersInv
<1>2. CASE NewListener(p)
  <2>1. routeConfig \in Pod
    BY <1>2 DEF NewListener, At, PointersInv
  <2> DEFINE m == [routes |-> routeConfig, policies |-> httpFilters]
  <2>2. m \in Manager
    BY <2>1 DEF Manager, BuildsInv
  <2>3. manager' = [manager EXCEPT ![p] = m] /\ manager'[p] = m
    BY <1>2 DEF NewListener, BuildsInv
  <2>4. manager' \in [Pod -> Manager \cup {None}]
    BY <2>2, <2>3 DEF BuildsInv
  <2>5. Serialised(m) \in Listener
    BY <2>2, SerialisedType
  <2>6. Built(p, Serialised(m), Policing(p))
    BY <1>2, <2>3 DEF NewListener
  <2> HIDE DEF m
  <2>7. adm' \in [Pod -> AdmissionType]
    BY <2>5, <2>6, NextSteps, BuiltTypes DEF Step
  <2>8. UNCHANGED <<httpFilters, routeConfig, routes, mixed>> /\ httpM' = p
    BY <1>2 DEF NewListener
  <2>9. BuildsInv'
    BY <2>4, <2>7, <2>8 DEF BuildsInv
  <2>10. /\ \A q \in Pod \ {p} : adm'[q] = adm[q]
         /\ adm'[p].listener = Serialised(m)
    BY <2>6 DEF Built, BuildsInv, AdmissionType
  <2> QED
    BY <2>1, <2>2, <2>3, <2>5, <2>8, <2>9, <2>10 DEF PointersInv
<1>3. CASE WithPolicy(p)
  <2>1. httpM \in Pod /\ manager[httpM] \in Manager /\ routeConfig \in Pod
    BY <1>3 DEF WithPolicy, At, PointersInv
  <2> DEFINE m == [manager[httpM] EXCEPT !.policies = httpFilters']
  <2>2. httpFilters' \in SUBSET App
    BY <1>3 DEF WithPolicy, BuildsInv, PodsInv
  <2>3. m \in Manager
    BY <2>1, <2>2 DEF Manager
  <2>4. manager' = [manager EXCEPT ![httpM] = m] /\ manager'[httpM] = m
    BY <1>3, <2>1 DEF WithPolicy, BuildsInv
  <2>5. manager' \in [Pod -> Manager \cup {None}]
    BY <2>3, <2>4 DEF BuildsInv
  <2>6. Serialised(m) \in Listener
    BY <2>3, SerialisedType
  <2>7. Built(p, Serialised(m), Routing(p))
    BY <1>3, <2>4 DEF WithPolicy
  <2> HIDE DEF m
  <2>8. adm' \in [Pod -> AdmissionType]
    BY <2>6, <2>7, NextSteps, BuiltTypes DEF Step
  <2>9. UNCHANGED <<routeConfig, httpM, routes, mixed>>
    BY <1>3 DEF WithPolicy
  <2>10. BuildsInv'
    BY <2>2, <2>5, <2>8, <2>9 DEF BuildsInv
  <2>11. /\ \A q \in Pod \ {p} : adm'[q] = adm[q]
         /\ adm'[p].listener = Serialised(m)
    BY <2>7 DEF Built, BuildsInv, AdmissionType
  <2> QED
    BY <2>1, <2>3, <2>4, <2>6, <2>9, <2>10, <2>11 DEF PointersInv
<1>4. ASSUME NEW x \in Extra, NEW next \in {"upload", "write"}, WithRoute(p, x, next)
      PROVE  BuildsInv' /\ PointersInv'
  <2>1. routeConfig \in Pod /\ httpM \in Pod
    BY <1>4 DEF WithRoute, At, PointersInv, Extra
  <2>2. routes' = [routes EXCEPT ![routeConfig] = @ \cup {x}]
    BY <1>4 DEF WithRoute
  <2>3. routes' \in [Pod -> SUBSET Extra]
    BY <2>2 DEF BuildsInv
  <2> DEFINE l == [policies |-> httpFilters, app |-> of[routeConfig], routes |-> routes'[routeConfig]]
  <2>4. l \in Listener
    BY <2>1, <2>3 DEF Listener, BuildsInv, PodsInv, Extra
  <2>5. Built(p, l, next)
    BY <1>4 DEF WithRoute
  <2> HIDE DEF l
  <2>6. adm' \in [Pod -> AdmissionType]
    BY <2>4, <2>5, BuiltTypes DEF Step
  <2>7. UNCHANGED <<httpFilters, routeConfig, httpM, manager, mixed>>
    BY <1>4 DEF WithRoute
  <2>8. BuildsInv'
    BY <2>3, <2>6, <2>7 DEF BuildsInv
  <2>9. /\ \A q \in Pod \ {p} : adm'[q] = adm[q]
        /\ adm'[p].listener = l
    BY <2>5 DEF Built, BuildsInv, AdmissionType
  <2> QED
    BY <2>1, <2>4, <2>7, <2>8, <2>9 DEF PointersInv
<1> QED
  BY <1>1, <1>2, <1>3, <1>4, NextSteps DEF BuildStep, WithWebSocket, WithUpload, Extra

\* The steps between the first and the last one of a build.
Inside == {"listener", "policy", "ws", "upload", "write"}

\* An admission as it was, for what a build is concerned.
SameBuild(q) == /\ adm'[q].at = adm[q].at /\ adm'[q].policy = adm[q].policy
                /\ adm'[q].listener = adm[q].listener

\* The steps before and after a build leave all builds alone.
LEMMA AnswerStepBuilds ==
    ASSUME TypeInv, NEW p \in Pod, AnswerStep(p)
    PROVE  /\ adm' \in [Pod -> AdmissionType]
           /\ \A q \in Pod : adm'[q].at \in Inside => SameBuild(q)
<1> USE DEF TypeInv
<1>1. ASSUME adm' = [adm EXCEPT ![p] = Idle]
      PROVE  /\ adm' \in [Pod -> AdmissionType]
             /\ \A q \in Pod : adm'[q].at \in Inside => SameBuild(q)
  <2>1. adm' \in [Pod -> AdmissionType]
    BY <1>1, AdmissionTypes DEF BuildsInv
  <2>2. Idle.at \notin Inside
    BY DEF Idle, Inside
  <2> QED
    BY <1>1, <2>1, <2>2 DEF BuildsInv, SameBuild
<1>2. ASSUME NEW step \in Step \ Inside, adm' = [adm EXCEPT ![p].at = step]
      PROVE  /\ adm' \in [Pod -> AdmissionType]
             /\ \A q \in Pod : adm'[q].at \in Inside => SameBuild(q)
  <2>1. adm' = [adm EXCEPT ![p] = [adm[p] EXCEPT !.at = step]]
    BY <1>2 DEF BuildsInv
  <2>2. [adm[p] EXCEPT !.at = step] \in AdmissionType
    BY AdmissionTypes DEF BuildsInv
  <2>3. [adm[p] EXCEPT !.at = step].at = step
    BY DEF BuildsInv, AdmissionType
  <2> QED
    BY <2>1, <2>2, <2>3 DEF BuildsInv, SameBuild
<1>3. CASE Ask(p)
  <2>1. PICK injected \in BOOLEAN :
          adm' = [adm EXCEPT ![p].at = "manager", ![p].injected = injected]
    BY <1>3 DEF Ask
  <2>2. adm' = [adm EXCEPT ![p] = [adm[p] EXCEPT !.at = "manager", !.injected = injected]]
    BY <2>1 DEF BuildsInv
  <2>3. [adm[p] EXCEPT !.at = "manager", !.injected = injected] \in AdmissionType
    BY AdmissionTypes DEF BuildsInv, Step
  <2>4. [adm[p] EXCEPT !.at = "manager", !.injected = injected].at = "manager"
    BY DEF BuildsInv, AdmissionType
  <2> QED
    BY <2>2, <2>3, <2>4 DEF BuildsInv, SameBuild, Inside
<1>10. CASE isInjectedPod(p)
  BY <1>1, <1>10 DEF isInjectedPod, Admit, Answer
<1>4. CASE CallFails(p)
  BY <1>1, <1>4 DEF CallFails, Deny, Answer
<1>5. CASE GetAppConfig(p)
  BY <1>1, <1>2, <1>5 DEF GetAppConfig, Goto, Admit, Answer, Step, Inside
<1>6. CASE MustInject(p)
  <2>1. CASE adm' = [adm EXCEPT ![p] = Idle]
    BY <1>1, <2>1
  <2> DEFINE policy == of[p] \in svc
  <2>2. CASE adm' = [adm EXCEPT ![p].at = "map", ![p].policy = policy]
    <3>0. policy \in BOOLEAN
      OBVIOUS
    <3> HIDE DEF policy
    <3>1. adm' = [adm EXCEPT ![p] = [adm[p] EXCEPT !.at = "map", !.policy = policy]]
      BY <2>2 DEF BuildsInv
    <3>2. [adm[p] EXCEPT !.at = "map", !.policy = policy] \in AdmissionType
      BY <3>0 DEF BuildsInv, AdmissionType, Step
    <3>3. [adm[p] EXCEPT !.at = "map", !.policy = policy].at = "map"
      BY DEF BuildsInv, AdmissionType
    <3> QED
      BY <3>1, <3>2, <3>3 DEF BuildsInv, SameBuild, Inside
  <2> QED
    BY <1>6, <2>1, <2>2 DEF MustInject, Admit, Answer
<1>7. CASE GetConfigMap(p)
  <2>1. adm' = [adm EXCEPT ![p] = [adm[p] EXCEPT !.at = "new", !.fresh = TRUE]]
    BY <1>7 DEF GetConfigMap, BuildsInv
  <2>2. [adm[p] EXCEPT !.at = "new", !.fresh = TRUE] \in AdmissionType
    BY AdmissionTypes DEF BuildsInv, Step
  <2>3. [adm[p] EXCEPT !.at = "new", !.fresh = TRUE].at = "new"
    BY DEF BuildsInv, AdmissionType
  <2> QED
    BY <2>1, <2>2, <2>3 DEF BuildsInv, SameBuild, Inside
<1>8. CASE WriteConfigMap(p)
  <2>1. CASE Deny(p)
    BY <1>1, <2>1 DEF Deny, Answer
  <2>2. CASE adm' = [q \in Pod |-> IF q = p THEN [adm[p] EXCEPT !.at = "probes"]
                                   ELSE [adm[q] EXCEPT !.fresh = @ /\ MapOf(q) # MapOf(p)]]
    <3>1. adm'[p] = [adm[p] EXCEPT !.at = "probes"] /\ adm'[p].at = "probes"
      BY <2>2 DEF BuildsInv, AdmissionType
    <3>2. adm'[p] \in AdmissionType
      BY <3>1 DEF BuildsInv, AdmissionType, Step
    <3>3. ASSUME NEW q \in Pod \ {p}
          PROVE  adm'[q] \in AdmissionType /\ SameBuild(q)
      <4> DEFINE fresh == adm[q].fresh /\ MapOf(q) # MapOf(p)
      <4>1. adm'[q] = [adm[q] EXCEPT !.fresh = fresh]
        BY <2>2 DEF BuildsInv, AdmissionType
      <4>2. adm[q].fresh \in BOOLEAN /\ fresh \in BOOLEAN
        BY DEF BuildsInv, AdmissionType
      <4> HIDE DEF fresh
      <4>3. adm'[q] \in AdmissionType
        BY <4>1, <4>2 DEF BuildsInv, AdmissionType
      <4> QED
        BY <4>1, <4>3 DEF BuildsInv, AdmissionType, SameBuild
    <3>4. adm' \in [Pod -> AdmissionType]
      BY <2>2, <3>2, <3>3
    <3> QED
      BY <3>1, <3>3, <3>4 DEF Inside
  <2> QED
    BY <1>8, <2>1, <2>2 DEF WriteConfigMap
<1>9. CASE CreatePatch(p)
  BY <1>1, <1>9 DEF CreatePatch, Admit, Answer
<1> QED
  BY <1>3, <1>4, <1>5, <1>6, <1>7, <1>8, <1>9, <1>10 DEF AnswerStep

\* The variables of the package keep their types, and pointers that are followed
\* are set.
LEMMA BuildsStep == ASSUME TypeInv, [Next]_vars PROVE BuildsInv' /\ PointersInv'
<1> USE DEF TypeInv
<1>1. ASSUME UNCHANGED <<adm, globals>>
      PROVE  BuildsInv' /\ PointersInv'
  BY <1>1 DEF globals, BuildsInv, PointersInv
<1>2. CASE UNCHANGED vars \/ Register \/ GpuChanges
  BY <1>1, <1>2, GpuAlone DEF vars, Register
<1>3. CASE Restart
  <2>1. adm' = [p \in Pod |-> Idle] /\ httpFilters' = {} /\ routeConfig' = None /\ httpM' = None
        /\ routes' = [p \in Pod |-> {}] /\ manager' = [p \in Pod |-> None] /\ mixed' = {}
    BY <1>3 DEF Restart
  <2>2. BuildsInv'
    BY <2>1, AdmissionTypes DEF BuildsInv
  <2>3. \A p \in Pod : adm'[p].at = "idle"
    BY <2>1 DEF Idle
  <2> QED
    BY <2>1, <2>2, <2>3, ConstantsAssumption DEF PointersInv
<1>4. ASSUME NEW a \in App, RequestStep(a) \/ Carry(a) \/ WorkloadStep(a)
      PROVE  BuildsInv' /\ PointersInv'
  BY <1>1, <1>4, RequestsAlone, WorkloadsAlone DEF Carry
<1>5. ASSUME NEW p \in Pod, BuildStep(p)
      PROVE  BuildsInv' /\ PointersInv'
  BY <1>5, BuildStepTypes
<1>6. ASSUME NEW p \in Pod, AnswerStep(p)
      PROVE  BuildsInv' /\ PointersInv'
  <2>1. UNCHANGED globals
    BY <1>6, PodsAlone
  <2>2. BuildsInv'
    BY <1>6, <2>1, AnswerStepBuilds DEF BuildsInv, globals
  <2> QED
    BY <1>6, <2>1, <2>2, AnswerStepBuilds DEF PointersInv, globals, Inside, SameBuild
<1>7. ASSUME NEW p \in Pod, Start(p) \/ Delete(p)
      PROVE  BuildsInv' /\ PointersInv'
  BY <1>1, <1>7 DEF Start, Delete
<1> QED
  BY <1>2, <1>3, <1>4, <1>5, <1>6, <1>7, StepKinds

\* The types are inductive.
LEMMA TypeStep == ASSUME TypeInv, [Next]_vars PROVE TypeInv'
BY RegistrationStep, ManagersStep, WorkloadsStep, PodsStep, BuildsStep DEF TypeInv

-----------------------------------------------------------------------------
(***************************************************************************)
(* A build that no other overlaps.                                         *)
(***************************************************************************)
LEMMA ProfileTypes ==
    ASSUME PodsInv, NEW a \in App
    PROVE  prof[a].routes \in SUBSET Extra
BY ConstantsAssumption DEF PodsInv, Profile, Extra

\* The builds in progress, by the step they are at.
LEMMA BuildingDef ==
    /\ Building = {p \in Pod : adm[p].at \in {"listener", "policy", "ws", "upload"}}
    /\ Building' = {p \in Pod : adm'[p].at \in {"listener", "policy", "ws", "upload"}}
BY DEF Building, At

\* A step of a build moves that build only.
LEMMA BuiltMoves ==
    ASSUME BuildsInv, NEW p \in Pod, NEW l, NEW next, Built(p, l, next)
    PROVE  /\ \A q \in Pod \ {p} : adm'[q] = adm[q]
           /\ adm'[p].at = next /\ adm'[p].listener = l /\ adm'[p].policy = adm[p].policy
BY DEF Built, BuildsInv, AdmissionType

\* The builds that are not at work keep what they have made.
LEMMA OthersOwn ==
    ASSUME TypeInv, OwnInv, NEW q \in Pod \ mixed, q \notin Building, adm'[q] = adm[q],
           UNCHANGED <<prof, of>>
    PROVE  OwnBuild(q)'
<1>1. adm[q].at \notin {"listener", "policy", "ws", "upload"}
  BY BuildingDef
<1>2. q \notin Building'
  BY <1>1, BuildingDef
<1>3. adm[q].at = "write" => adm[q].listener = Right(of[q], Policies(q))
  BY DEF OwnInv, OwnBuild
<1> QED
  BY <1>1, <1>2, <1>3 DEF OwnBuild, Extra, Right, Policies

\* A build that starts alone owns the variables; one that does not is mixed with
\* all it meets.
LEMMA NewFiltersOwn ==
    ASSUME TypeInv, OwnInv, NEW p \in Pod, NewFilters(p)
    PROVE  OwnInv'
<1> USE DEF TypeInv
<1>1. UNCHANGED <<prof, of>>
  BY DEF NewFilters, Build
<1>2. \A q \in Pod \ {p} : adm'[q] = adm[q]
  BY BuiltMoves DEF NewFilters
<1>3. adm'[p].at = "listener"
  BY BuiltMoves DEF NewFilters
<1>4. SUFFICES ASSUME NEW q \in Pod, q \notin mixed'
               PROVE  OwnBuild(q)'
  BY DEF OwnInv
<1>5. CASE q = p
  <2>1. Building = {}
    BY <1>4, <1>5 DEF NewFilters
  <2>2. Building' = {p}
    BY <1>2, <1>3, <2>1, BuildingDef
  <2>3. httpFilters' = {} /\ routes'[p] = {} /\ routeConfig' = p
    BY DEF NewFilters, Router, BuildsInv
  <2> QED
    BY <1>3, <1>5, <2>2, <2>3 DEF OwnBuild, Extra
<1>6. CASE q # p
  <2>1. q \notin mixed /\ q \notin Building
    BY <1>4, <1>6 DEF NewFilters
  <2> QED
    BY <1>1, <1>2, <1>6, <2>1, OthersOwn
<1> QED
  BY <1>5, <1>6

\* One step of a build on its own: what it leaves for the next one.
LEMMA OwnStep ==
    ASSUME TypeInv, OwnInv, NEW p \in Pod, p \in Building, p \notin mixed,
           BuildStep(p), ~NewFilters(p)
    PROVE  /\ routeConfig' = p
           /\ adm'[p].at = "policy" => /\ httpFilters' = {} /\ routes'[p] = {}
                                       /\ adm'[p].policy /\ httpM' = p
                                       /\ manager'[p] = [routes |-> p, policies |-> {}]
           /\ adm'[p].at \in Extra => httpFilters' = Policies(p) /\ adm'[p].at \in prof[of[p]].routes
           /\ adm'[p].at = "ws" => routes'[p] = {}
           /\ adm'[p].at = "upload" => routes'[p] = prof[of[p]].routes \cap {"ws"}
           /\ adm'[p].at = "write" => adm'[p].listener = Right(of[p], Policies(p))
           /\ adm'[p].at \in Inside \ {"listener"} /\ adm'[p].policy = adm[p].policy
<1> USE DEF TypeInv
<1>1. routeConfig = p /\ OwnBuild(p)
  BY DEF OwnInv, OwnBuild
<1>2. of[p] \in App /\ prof[of[p]].routes \in SUBSET Extra
  BY ProfileTypes DEF PodsInv
<1> DEFINE R == prof[of[p]].routes
<1>3. R \subseteq {"ws", "upload"}
  BY <1>2 DEF Extra
<1>4. CASE NewListener(p)
  <2> DEFINE m == [routes |-> p, policies |-> {}]
  <2>1. httpFilters = {} /\ routes[p] = {}
    BY <1>1, <1>4 DEF NewListener, At, OwnBuild
  <2>2. manager' = [manager EXCEPT ![p] = m] /\ manager'[p] = m
    BY <1>1, <1>4, <2>1 DEF NewListener, BuildsInv
  <2>3. Serialised(m) = [policies |-> {}, app |-> of[p], routes |-> {}]
    BY <2>1 DEF Serialised
  <2>4. Built(p, Serialised(m), Policing(p))
    BY <1>4, <2>2 DEF NewListener
  <2>5. UNCHANGED <<httpFilters, routeConfig, routes>> /\ httpM' = p
    BY <1>4 DEF NewListener
  <2> HIDE DEF m
  <2>6. /\ adm'[p].at = Policing(p) /\ adm'[p].listener = Serialised(m)
        /\ adm'[p].policy = adm[p].policy
    BY <2>4, BuiltMoves
  <2>7. CASE adm[p].policy
    <3>1. Policing(p) = "policy"
      BY <2>7 DEF Policing
    <3> QED
      BY <1>1, <2>1, <2>2, <2>5, <2>6, <2>7, <3>1 DEF Extra, Inside, m
  <2>8. CASE ~adm[p].policy
    <3>1. Policies(p) = {} /\ Policing(p) = Routing(p)
      BY <2>8 DEF Policies, Policing
    <3>2. Routing(p) = IF "ws" \in R THEN "ws" ELSE IF "upload" \in R THEN "upload" ELSE "write"
      BY DEF Routing, Route
    <3> QED
      BY <1>1, <1>3, <2>1, <2>3, <2>5, <2>6, <3>1, <3>2 DEF Extra, Inside, Right
  <2> QED
    BY <2>7, <2>8
<1>5. CASE WithPolicy(p)
  <2>1. httpFilters = {} /\ routes[p] = {} /\ adm[p].policy /\ httpM = p
        /\ manager[p] = [routes |-> p, policies |-> {}]
    BY <1>1, <1>5 DEF WithPolicy, At, OwnBuild
  <2>2. httpFilters' = {of[p]} /\ Policies(p) = {of[p]}
    BY <1>5, <2>1 DEF WithPolicy, Policies
  <2>3. manager'[p] = [routes |-> p, policies |-> {of[p]}]
    <3>1. manager'[p] = [manager[p] EXCEPT !.policies = {of[p]}]
      BY <1>5, <2>1, <2>2 DEF WithPolicy, BuildsInv
    <3> QED
      BY <2>1, <3>1
  <2>4. Serialised(manager'[p]) = [policies |-> {of[p]}, app |-> of[p], routes |-> {}]
    BY <2>1, <2>3 DEF Serialised
  <2>5. Built(p, Serialised(manager'[p]), Routing(p))
    BY <1>5, <2>1 DEF WithPolicy
  <2>6. /\ adm'[p].at = Routing(p) /\ adm'[p].listener = Serialised(manager'[p])
        /\ adm'[p].policy = adm[p].policy
    BY <2>5, BuiltMoves
  <2>7. Routing(p) = IF "ws" \in R THEN "ws" ELSE IF "upload" \in R THEN "upload" ELSE "write"
    BY DEF Routing, Route
  <2>8. UNCHANGED <<routeConfig, routes>>
    BY <1>5 DEF WithPolicy
  <2> QED
    BY <1>1, <1>3, <2>1, <2>2, <2>4, <2>6, <2>7, <2>8 DEF Extra, Inside, Right
<1>6. CASE WithWebSocket(p)
  <2> DEFINE next == IF "upload" \in R THEN "upload" ELSE "write"
             l == [policies |-> httpFilters, app |-> of[p], routes |-> {"ws"}]
  <2>1. httpFilters = Policies(p) /\ routes[p] = {} /\ "ws" \in R
    BY <1>1, <1>6 DEF WithWebSocket, WithRoute, At, OwnBuild, Extra
  <2>2. routes'[p] = {"ws"}
    BY <1>1, <1>6, <2>1 DEF WithWebSocket, WithRoute, BuildsInv
  <2>3. Built(p, l, next)
    BY <1>1, <1>6, <2>2 DEF WithWebSocket, WithRoute, Route
  <2>4. adm'[p].at = next /\ adm'[p].listener = l /\ adm'[p].policy = adm[p].policy
    BY <2>3, BuiltMoves
  <2>5. UNCHANGED <<httpFilters, routeConfig>>
    BY <1>6 DEF WithWebSocket, WithRoute
  <2> QED
    BY <1>1, <1>3, <2>1, <2>2, <2>4, <2>5 DEF Extra, Inside, Right
<1>7. CASE WithUpload(p)
  <2> DEFINE l == [policies |-> httpFilters, app |-> of[p], routes |-> R]
  <2>1. httpFilters = Policies(p) /\ routes[p] = R \cap {"ws"} /\ "upload" \in R
    BY <1>1, <1>7 DEF WithUpload, WithRoute, At, OwnBuild, Extra
  <2>2. routes'[p] = R
    BY <1>1, <1>3, <1>7, <2>1 DEF WithUpload, WithRoute, BuildsInv
  <2>3. Built(p, l, "write")
    BY <1>1, <1>7, <2>2 DEF WithUpload, WithRoute
  <2>4. adm'[p].at = "write" /\ adm'[p].listener = l /\ adm'[p].policy = adm[p].policy
    BY <2>3, BuiltMoves
  <2>5. UNCHANGED <<httpFilters, routeConfig>>
    BY <1>7 DEF WithUpload, WithRoute
  <2> QED
    BY <1>1, <2>1, <2>4, <2>5 DEF Extra, Inside, Right
<1> QED
  BY <1>4, <1>5, <1>6, <1>7 DEF BuildStep

\* A build that no other overlaps owns them to its end.
LEMMA OwnInvStep == ASSUME TypeInv, OwnInv, [Next]_vars PROVE OwnInv'
<1> USE DEF TypeInv
<1>1. UNCHANGED <<prof, of>>
  BY ProfilesStay
<1>2. ASSUME UNCHANGED globals, \A q \in Pod : adm'[q].at \in Inside => SameBuild(q)
      PROVE  OwnInv'
  <2>1. SUFFICES ASSUME NEW q \in Pod, q \notin mixed
                 PROVE  OwnBuild(q)'
    BY <1>2 DEF OwnInv, globals
  <2>2. CASE adm'[q].at \notin Inside
    BY <2>2, BuildingDef DEF OwnBuild, Inside, Extra
  <2>3. CASE adm'[q].at \in Inside
    <3>1. SameBuild(q) /\ OwnBuild(q)
      BY <1>2, <2>1, <2>3 DEF OwnInv
    <3>2. Building' \subseteq Building
      BY <1>2, BuildingDef DEF Inside, SameBuild
    <3>3. q \in Building' => Building' = {q} /\ routeConfig' = q
      BY <1>2, <3>1, <3>2 DEF OwnBuild, globals
    <3> QED
      BY <1>1, <1>2, <3>1, <3>3 DEF OwnBuild, SameBuild, globals, Policies, Right
  <2> QED
    BY <2>2, <2>3
<1>3. ASSUME UNCHANGED <<adm, globals>>
      PROVE  OwnInv'
  BY <1>2, <1>3 DEF SameBuild
<1>4. CASE UNCHANGED vars \/ Register \/ GpuChanges
  BY <1>3, <1>4, GpuAlone DEF vars, Register
<1>5. CASE Restart
  <2>1. \A q \in Pod : adm'[q].at = "idle"
    BY <1>5 DEF Restart, Idle
  <2> QED
    BY <2>1, BuildingDef DEF OwnInv, OwnBuild, Extra
<1>6. ASSUME NEW a \in App, RequestStep(a) \/ Carry(a) \/ WorkloadStep(a)
      PROVE  OwnInv'
  BY <1>3, <1>6, RequestsAlone, WorkloadsAlone DEF Carry
<1>7. ASSUME NEW p \in Pod, AnswerStep(p)
      PROVE  OwnInv'
  BY <1>2, <1>7, PodsAlone, AnswerStepBuilds
<1>8. ASSUME NEW p \in Pod, Start(p) \/ Delete(p)
      PROVE  OwnInv'
  BY <1>3, <1>8 DEF Start, Delete
<1>9. ASSUME NEW p \in Pod, BuildStep(p), ~NewFilters(p)
      PROVE  OwnInv'
  <2>1. p \in Building
    BY <1>9, BuildingDef
       DEF BuildStep, NewListener, WithPolicy, WithWebSocket, WithUpload, WithRoute, At
  <2>2. mixed' = mixed
    BY <1>9 DEF BuildStep, NewListener, WithPolicy, WithWebSocket, WithUpload, WithRoute
  <2>3. \A q \in Pod \ {p} : adm'[q] = adm[q]
    BY <1>9, BuiltMoves
       DEF BuildStep, NewListener, WithPolicy, WithWebSocket, WithUpload, WithRoute
  <2>4. SUFFICES ASSUME NEW q \in Pod, q \notin mixed
                 PROVE  OwnBuild(q)'
    BY <2>2 DEF OwnInv
  <2>5. CASE q # p
    <3>1. q \in Building => Building = {q}
      BY <2>4 DEF OwnInv, OwnBuild
    <3>2. q \notin Building
      BY <2>1, <2>5, <3>1
    <3> QED
      BY <1>1, <2>3, <2>4, <2>5, <3>2, OthersOwn
  <2>6. CASE q = p
    <3>1. Building = {p}
      BY <2>1, <2>4, <2>6 DEF OwnInv, OwnBuild
    <3>2. Building' \subseteq {p}
      BY <2>3, <3>1, BuildingDef
    <3>3. Policies(p)' = Policies(p) /\ Right(of[p], Policies(p))' = Right(of[p], Policies(p))
      BY <1>1, <1>9, <2>1, <2>4, <2>6, OwnStep DEF Policies, Right
    <3> QED
      BY <1>1, <1>9, <2>1, <2>4, <2>6, <3>2, <3>3, OwnStep DEF OwnBuild, Inside, Extra
  <2> QED
    BY <2>5, <2>6
<1> QED
  BY <1>4, <1>5, <1>6, <1>7, <1>8, <1>9, NewFiltersOwn, StepKinds

-----------------------------------------------------------------------------
(***************************************************************************)
(* ConfigMaps, and who has what.                                           *)
(***************************************************************************)
\* The ConfigMap of a pod is one of its application.
LEMMA MapOfApp == ASSUME PodsInv, NEW p \in Pod PROVE AppOf(MapOf(p)) = of[p]
BY ConstantsAssumption DEF PodsInv, MapOf, AppOf

\* What a ConfigMap holds fits the application it is named for.
LEMMA MapsStep == ASSUME TypeInv, OwnInv, MapsInv, [Next]_vars PROVE MapsInv'
<1> USE DEF TypeInv
<1>1. UNCHANGED <<prof, of>>
  BY ProfilesStay
<1>2. ASSUME \A n \in App \cup Pod : cm'[n] \in {None, cm[n]}
      PROVE  MapsInv'
  BY <1>1, <1>2 DEF MapsInv, Fit, Right, AppOf
<1>3. CASE UNCHANGED cm
  BY <1>2, <1>3
<1>4. CASE UNCHANGED vars \/ Register \/ Restart \/ GpuChanges
  BY <1>3, <1>4, GpuAlone DEF vars, Register, Restart
<1>5. ASSUME NEW a \in App, RequestStep(a) \/ WorkloadStep(a)
      PROVE  MapsInv'
  BY <1>3, <1>5, RequestsAlone, WorkloadsAlone
<1>6. ASSUME NEW a \in App, Carry(a)
      PROVE  MapsInv'
  BY <1>2, <1>6 DEF Carry
<1>7. ASSUME NEW p \in Pod, BuildStep(p) \/ Start(p) \/ Delete(p)
      PROVE  MapsInv'
  BY <1>3, <1>7, BuildsAlone DEF Start, Delete
<1>8. ASSUME NEW p \in Pod, AnswerStep(p), ~WriteConfigMap(p)
      PROVE  MapsInv'
  BY <1>3, <1>8 DEF AnswerStep, Ask, CallFails, GetAppConfig, MustInject, isInjectedPod, GetConfigMap, CreatePatch
<1>9. ASSUME NEW p \in Pod, WriteConfigMap(p)
      PROVE  MapsInv'
  <2>1. CASE UNCHANGED cm
    BY <1>3, <2>1
  <2>2. CASE cm' = [cm EXCEPT ![MapOf(p)] = Content(p)]
    <3>1. Fit(Content(p), of[p])
      <4>1. p \notin mixed => adm[p].listener = Right(of[p], Policies(p))
        BY <1>9 DEF WriteConfigMap, At, OwnInv, OwnBuild
      <4> QED
        BY <4>1 DEF Content, OutBound, Fit, Policies
    <3>2. \A n \in App \cup Pod : cm'[n] = IF n = MapOf(p) THEN Content(p) ELSE cm[n]
      BY <2>2 DEF PodsInv
    <3>3. \A n \in App \cup Pod : cm'[n] # None => Fit(cm'[n], AppOf(n))
      BY <3>1, <3>2, MapOfApp DEF MapsInv
    <3> QED
      BY <1>1, <3>3 DEF MapsInv, Fit, Right, AppOf
  <2> QED
    BY <1>9, <2>1, <2>2 DEF WriteConfigMap
<1> QED
  BY <1>4, <1>5, <1>6, <1>7, <1>8, <1>9, StepKinds

\* A workload that changes is there afterwards, unless it is denied: then none
\* was there, or its pods went with it.
LEMMA WorkloadChanges ==
    ASSUME WorkloadsInv, NEW a \in App, WorkloadStep(a)
    PROVE  \/ workload' = workload
           \/ \E w : w.there /\ workload' = [workload EXCEPT ![a] = w]
           \/ /\ workload' = [workload EXCEPT ![a] = NoWorkload]
              /\ \/ ~workload[a].there /\ pod' = pod
                 \/ pod' = [p \in Pod |-> IF of[p] = a THEN NoPod ELSE pod[p]]
<1>1. ASSUME NEW old, NEW limits, Mark(a, old, limits)
      PROVE  \/ \E w : w.there /\ workload' = [workload EXCEPT ![a] = w]
             \/ workload' = [workload EXCEPT ![a] = old]
  <2>1. CASE workload' = [workload EXCEPT ![a] = old]
    BY <2>1
  <2>2. ASSUME NEW annotated \in BOOLEAN, NEW labels \in BOOLEAN, NEW read \in BOOLEAN,
               workload' = [workload EXCEPT ![a] =
                 [there |-> TRUE, labels |-> IF old.there THEN old.labels ELSE labels,
                  gpu |-> gpuLimitMutate(a, limits, annotated, read)]]
        PROVE  \E w : w.there /\ workload' = [workload EXCEPT ![a] = w]
    <3> DEFINE w == [there |-> TRUE, labels |-> IF old.there THEN old.labels ELSE labels,
                     gpu |-> gpuLimitMutate(a, limits, annotated, read)]
    <3>1. w.there
      OBVIOUS
    <3>2. workload' = [workload EXCEPT ![a] = w]
      BY <2>2
    <3> HIDE DEF w
    <3> QED
      BY <3>1, <3>2
  <2> QED
    BY <1>1, <2>1, <2>2 DEF Mark
<1>2. CASE InstallChart(a)
  BY <1>1, <1>2 DEF InstallChart
<1>3. CASE ReplaceWorkload(a)
  BY <1>1, <1>3 DEF ReplaceWorkload
<1>4. CASE ChangeWorkload(a)
  <2>1. [workload EXCEPT ![a] = workload[a]] = workload
    BY DEF WorkloadsInv
  <2> QED
    BY <1>1, <1>4, <2>1 DEF ChangeWorkload
<1>5. CASE ChangeService(a)
  BY <1>5 DEF ChangeService
<1> QED
  BY <1>2, <1>3, <1>4, <1>5 DEF WorkloadStep

\* A pod keeps its workload, and a workload its manager, or it is disowned.
LEMMA OwnersStep == ASSUME TypeInv, OwnersInv, [Next]_vars PROVE OwnersInv'
<1> USE DEF TypeInv
<1>1. UNCHANGED <<prof, of>>
  BY ProfilesStay
<1>2. ASSUME UNCHANGED <<mgr, disowned, workload>>,
             \A p \in Pod : pod'[p].st # "none" => pod[p].st # "none" \/ workload[of[p]].there
      PROVE  OwnersInv'
  BY <1>1, <1>2 DEF OwnersInv, Exists
<1>3. CASE UNCHANGED vars \/ Register \/ GpuChanges
  BY <1>2, <1>3, GpuAlone DEF vars, ghosts, Register
<1>4. CASE Restart
  BY <1>2, <1>4 DEF Restart, ghosts, NoPod
<1>5. ASSUME NEW a \in App, NEW op \in OpType, RequestManager(a, op)
      PROVE  OwnersInv'
  <2>1. mgr' = [mgr EXCEPT ![a] = [state |-> StateWritten(op, mgr[a].state), op |-> op]]
        /\ disowned' = disowned \ {a} /\ UNCHANGED <<workload, pod>>
    BY <1>5 DEF RequestManager
  <2>2. Exists(a)'
    <3>1. mgr'[a].op # "" /\ NoManager.op = ""
      BY <2>1 DEF ManagersInv, OpType, NoManager
    <3> QED
      BY <3>1 DEF Exists, NoManager
  <2>3. \A b \in App \ {a} : mgr'[b] = mgr[b]
    BY <2>1 DEF ManagersInv
  <2> QED
    BY <1>1, <2>1, <2>2, <2>3 DEF OwnersInv, Exists
<1>6. ASSUME NEW a \in App, DeleteManager(a)
      PROVE  OwnersInv'
  <2>1. disowned' = disowned \cup {a}
    BY <1>6 DEF DeleteManager, MayDelete
  <2>2. \A b \in App \ {a} : mgr'[b] = mgr[b]
    BY <1>6 DEF DeleteManager, ManagersInv
  <2>3. UNCHANGED <<workload, pod>>
    BY <1>6 DEF DeleteManager
  <2> QED
    BY <1>1, <2>1, <2>2, <2>3 DEF OwnersInv, Exists
<1>10. ASSUME NEW a \in App, WriteApplyingEnv(a)
      PROVE  OwnersInv'
  <2>1. mgr' = [mgr EXCEPT ![a].state = "applyingEnv"] /\ UNCHANGED <<disowned, workload, pod>>
    BY <1>10 DEF WriteApplyingEnv, ghosts
  <2>2. \A b \in App : mgr'[b].op = mgr[b].op
    BY <2>1 DEF ManagersInv
  <2>3. NoManager.op = "" /\ NoManager' = NoManager
    BY DEF NoManager
  <2>4. \A b \in App : Exists(b) => Exists(b)'
    BY <2>2, <2>3 DEF Exists, ManagersInv
  <2> QED
    BY <1>1, <2>1, <2>4 DEF OwnersInv
<1>7. ASSUME NEW a \in App, Carry(a)
      PROVE  OwnersInv'
  <2>1. \A b \in App : Exists(b) => Exists(b)'
    <3>1. PICK s \in PossibleStates : mgr' = [mgr EXCEPT ![a].state = s]
      BY <1>7 DEF Carry
    <3>2. \A b \in App : mgr'[b].op = mgr[b].op
      BY <3>1 DEF ManagersInv
    <3>3. NoManager.op = "" /\ NoManager' = NoManager
      BY DEF NoManager
    <3> QED
      BY <3>2, <3>3 DEF Exists, ManagersInv
  <2>2. disowned' = disowned
    BY <1>7 DEF Carry
  <2>3. \/ UNCHANGED <<workload, pod>>
        \/ /\ workload' = [workload EXCEPT ![a] = NoWorkload]
           /\ pod' = [p \in Pod |-> IF of[p] = a THEN NoPod ELSE pod[p]]
    BY <1>7 DEF Carry
  <2>4. \A b \in App : workload'[b].there => workload[b].there
    BY <2>3 DEF WorkloadsInv, NoWorkload
  <2>5. \A p \in Pod : pod'[p].st # "none" => workload'[of[p]].there
    BY <2>3 DEF WorkloadsInv, PodsInv, NoPod, OwnersInv
  <2> QED
    BY <1>1, <2>1, <2>2, <2>4, <2>5 DEF OwnersInv
<1>8. ASSUME NEW a \in App, WorkloadStep(a)
      PROVE  OwnersInv'
  <2>1. UNCHANGED <<mgr, disowned>>
    BY <1>8, WorkloadsAlone
  <2>2. workload[a].there \/ Exists(a)
    <3>1. NoManager.state = NoState /\ NoState # "installing"
      BY DEF NoManager, NoState
    <3>2. workload[a].there \/ mgr[a].state = "installing"
      BY <1>8 DEF WorkloadStep, InstallChart, ReplaceWorkload, ChangeWorkload, ChangeService
    <3> QED
      BY <3>1, <3>2 DEF Exists
  <2>3. \A b \in App \ {a} : workload'[b] = workload[b]
    <3>1. ASSUME NEW w, workload' = [workload EXCEPT ![a] = w]
          PROVE  \A b \in App \ {a} : workload'[b] = workload[b]
      BY <3>1 DEF WorkloadsInv
    <3> QED
      BY <1>8, <3>1, WorkloadChanges
  <2>4. \A p \in Pod : pod'[p].st # "none" => pod'[p] = pod[p]
    <3>1. NoPod.st = "none"
      BY DEF NoPod
    <3>2. pod' = pod \/ pod' = [p \in Pod |-> IF of[p] = a THEN NoPod ELSE pod[p]]
      BY <1>8 DEF WorkloadStep, InstallChart, ReplaceWorkload, ChangeWorkload, ChangeService
    <3> QED
      BY <3>1, <3>2
  <2>5. ASSUME NEW p \in Pod, pod'[p].st # "none"
        PROVE  workload'[of[p]].there
    <3>1. workload[of[p]].there /\ of[p] \in App
      BY <2>4, <2>5 DEF OwnersInv, PodsInv
    <3>2. CASE of[p] # a
      BY <2>3, <3>1, <3>2
    <3>3. CASE of[p] = a
      <4>1. CASE workload' = workload
        BY <3>1, <4>1
      <4>2. ASSUME NEW w, w.there, workload' = [workload EXCEPT ![a] = w]
            PROVE  workload'[of[p]].there
        BY <3>3, <4>2 DEF WorkloadsInv
      <4>3. ~(pod' = [o \in Pod |-> IF of[o] = a THEN NoPod ELSE pod[o]])
        BY <2>5, <3>3 DEF NoPod
      <4> QED
        BY <1>8, <3>1, <3>3, <4>1, <4>2, <4>3, WorkloadChanges
    <3> QED
      BY <3>2, <3>3
  <2>6. \A b \in App : workload'[b].there => workload[b].there \/ Exists(b)
    BY <2>2, <2>3
  <2>8. \A b \in App : Exists(b)' = Exists(b)
    BY <2>1 DEF Exists, NoManager
  <2> QED
    BY <1>1, <2>1, <2>5, <2>6, <2>8 DEF OwnersInv
<1>9. ASSUME NEW p \in Pod, BuildStep(p) \/ AnswerStep(p) \/ Start(p) \/ Delete(p)
      PROVE  OwnersInv'
  <2>1. UNCHANGED <<mgr, disowned, workload>>
    BY <1>9, BuildsAlone, PodsAlone DEF ghosts
  <2>2. \A q \in Pod : pod'[q].st # "none" => pod[q].st # "none" \/ workload[of[q]].there
    <3>1. CASE BuildStep(p)
      BY <3>1, BuildsAlone
    <3>2. CASE AnswerStep(p)
      <4>1. CASE Ask(p)
        BY <4>1 DEF Ask, PodsInv
      <4>2. ASSUME NEW answer, Answer(p, answer)
            PROVE  \A q \in Pod : pod'[q].st # "none" => pod[q].st # "none"
        BY <4>2 DEF Answer, PodsInv
      <4>3. UNCHANGED pod \/ Ask(p) \/ \E answer : Answer(p, answer)
        BY <3>2 DEF AnswerStep, CallFails, GetAppConfig, MustInject, isInjectedPod, GetConfigMap,
                    WriteConfigMap, CreatePatch, Deny, Admit
      <4> QED
        BY <4>1, <4>2, <4>3
    <3>3. CASE Start(p)
      BY <3>3 DEF Start, PodsInv
    <3>4. CASE Delete(p)
      BY <3>4 DEF Delete, PodsInv, NoPod
    <3> QED
      BY <1>9, <3>1, <3>2, <3>3, <3>4
  <2> QED
    BY <1>2, <2>1, <2>2
<1> QED
  BY <1>3, <1>4, <1>5, <1>6, <1>7, <1>8, <1>9, <1>10, StepKinds DEF RequestStep

-----------------------------------------------------------------------------
(***************************************************************************)
(* The guard of the entrances.                                             *)
(***************************************************************************)
\* What a step leaves alone, or ends, stays guarded.
LEMMA GuardStays ==
    ASSUME NEW q \in Pod, Guard(q), UNCHANGED <<prof, of>>,
           pod'[q] = pod[q] \/ pod'[q] = NoPod,
           adm'[q] = Idle \/ (adm'[q].at = adm[q].at /\ adm'[q].policy = adm[q].policy),
           q \in excused => q \in excused'
    PROVE  Guard(q)'
<1>1. Decided(q)'
  BY DEF Guard, Decided, Idle
<1>2. Served(q)'
  BY DEF Guard, Served, NoPod
<1>3. Rendered(q)'
  BY DEF Guard, Rendered, NoPod, Fit, Right
<1> QED
  BY <1>1, <1>2, <1>3 DEF Guard

\* The steps of a pod leave the others as they are.
LEMMA OtherPods ==
    ASSUME TypeInv, NEW p \in Pod, NEW q \in Pod \ {p},
           BuildStep(p) \/ AnswerStep(p) \/ Start(p) \/ Delete(p)
    PROVE  /\ pod'[q] = pod[q]
           /\ adm'[q].at = adm[q].at /\ adm'[q].policy = adm[q].policy
           /\ q \in excused => q \in excused'
<1>1. CASE BuildStep(p)
  <2>1. PICK l, next : adm' = [adm EXCEPT ![p].at = next, ![p].listener = l]
    BY <1>1 DEF BuildStep, NewFilters, NewListener, WithPolicy, WithWebSocket, WithUpload, WithRoute,
                Built
  <2> QED
    BY <1>1, <2>1, BuildsAlone DEF TypeInv, BuildsInv, ghosts
<1>2. ASSUME NEW answer, Answer(p, answer), excused \subseteq excused'
      PROVE  /\ pod'[q] = pod[q]
             /\ adm'[q].at = adm[q].at /\ adm'[q].policy = adm[q].policy
             /\ q \in excused => q \in excused'
  BY <1>2 DEF Answer, TypeInv, PodsInv, BuildsInv
<1>3. CASE Ask(p)
  BY <1>3 DEF Ask, TypeInv, PodsInv, BuildsInv
<1>4. CASE CallFails(p) \/ CreatePatch(p) \/ isInjectedPod(p)
  BY <1>2, <1>4 DEF CallFails, CreatePatch, isInjectedPod, Deny, Admit, ghosts
<1>5. CASE GetAppConfig(p)
  BY <1>2, <1>5 DEF GetAppConfig, Admit, Goto, TypeInv, BuildsInv
<1>6. CASE MustInject(p)
  BY <1>2, <1>6 DEF MustInject, Admit, TypeInv, BuildsInv
<1>7. CASE GetConfigMap(p)
  BY <1>7 DEF GetConfigMap, ghosts, TypeInv, BuildsInv
<1>8. CASE WriteConfigMap(p)
  <2>1. CASE Deny(p) /\ excused' = excused
    BY <1>2, <2>1 DEF Deny
  <2>2. CASE /\ adm' = [o \in Pod |-> IF o = p THEN [adm[p] EXCEPT !.at = "probes"]
                                       ELSE [adm[o] EXCEPT !.fresh = @ /\ MapOf(o) # MapOf(p)]]
             /\ UNCHANGED <<pod, excused>>
    <3>1. adm'[q] = [adm[q] EXCEPT !.fresh = @ /\ MapOf(q) # MapOf(p)]
      BY <2>2
    <3>2. adm[q] \in AdmissionType
      BY DEF TypeInv, BuildsInv
    <3> QED
      BY <2>2, <3>1, <3>2 DEF AdmissionType
  <2> QED
    BY <1>8, <2>1, <2>2 DEF WriteConfigMap, ghosts
<1>9. CASE Start(p) \/ Delete(p)
  BY <1>9 DEF Start, Delete, ghosts, TypeInv, PodsInv
<1> QED
  BY <1>1, <1>3, <1>4, <1>5, <1>6, <1>7, <1>8, <1>9 DEF AnswerStep

\* An answer that guards the pod it reaches.
LEMMA AnswerGuards ==
    ASSUME TypeInv, NEW p \in Pod, Guard(p), UNCHANGED <<prof, of>>, excused \subseteq excused',
           NEW side, NEW serves, Admit(p, side, serves),
           pod[p].st = "asked" /\ prof[of[p]].kind = "app" /\ p \notin excused'
           /\ ~adm[p].injected =>
             side = "full" /\ (prof[of[p]].mounted => serves = prof[of[p]].routes)
    PROVE  Guard(p)'
<1> DEFINE answer == [NoPod EXCEPT !.st = "admitted", !.injected = adm[p].injected,
                                   !.side = side, !.serves = serves]
<1>1. answer.st = "admitted" /\ answer.injected = adm[p].injected /\ answer.side = side
      /\ answer.serves = serves
  BY DEF NoPod
<1>2. pod'[p] = IF pod[p].st = "asked" THEN answer ELSE pod[p]
  BY DEF Admit, Answer, TypeInv, PodsInv
<1>5. adm'[p] = Idle
  BY DEF Admit, Answer, TypeInv, BuildsInv
<1> HIDE DEF answer
<1>3. CASE pod[p].st # "asked"
  <2>1. pod'[p] = pod[p] /\ (p \in excused => p \in excused')
    BY <1>2, <1>3
  <2> QED
    BY <1>5, <2>1, GuardStays
<1>4. CASE pod[p].st = "asked"
  <2>1. Decided(p)'
    BY <1>5 DEF Decided, Idle
  <2>2. Served(p)'
    BY <1>1, <1>2, <1>4 DEF Served
  <2>3. Rendered(p)'
    BY <1>1, <1>2, <1>4 DEF Rendered
  <2> QED
    BY <2>1, <2>2, <2>3 DEF Guard
<1> QED
  BY <1>3, <1>4

\* The admission of a pod whose entrance it knows asks for the proxy, with the
\* servers of its routes.
LEMMA PatchGuards ==
    ASSUME TypeInv, NEW p \in Pod, Guard(p), At(p, "probes"), p \notin excused
    PROVE  Proxy(p) = "full" /\ (prof[of[p]].mounted => Servers(p) = prof[of[p]].routes)
<1>1. adm[p].policy
  BY DEF Guard, Decided, At
<1> QED
  BY <1>1 DEF Proxy, Servers

\* What renders the ConfigMap of its application has a fit configuration.
LEMMA StartGuards ==
    ASSUME TypeInv, MapsInv, NEW p \in Pod, Guard(p), Start(p)
    PROVE  Guard(p)'
<1> DEFINE conf == IF pod[p].side = "none" THEN None ELSE cm[MapOf(p)]
<1>1. /\ pod' = [pod EXCEPT ![p] = [pod[p] EXCEPT !.st = "running", !.conf = conf]]
      /\ pod[p].st = "admitted" /\ UNCHANGED <<prof, of, adm, excused>>
  BY DEF Start, ghosts
<1>2. pod[p].side = "full" => Fit(conf, of[p])
  <2>1. MapOf(p) \in App \cup Pod /\ AppOf(MapOf(p)) = of[p]
    BY MapName, MapOfApp DEF TypeInv
  <2>2. pod[p].side = "full" => cm[MapOf(p)] # None
    BY DEF Start
  <2> QED
    BY <2>1, <2>2 DEF MapsInv
<1> HIDE DEF conf
<1>3. pod[p] \in PodType /\ pod \in [Pod -> PodType]
  BY DEF TypeInv, PodsInv
<1>4. /\ pod'[p].st = "running" /\ pod'[p].conf = conf
      /\ pod'[p].side = pod[p].side /\ pod'[p].serves = pod[p].serves
      /\ pod'[p].injected = pod[p].injected
  BY <1>1, <1>3 DEF PodType
<1>5. Decided(p)'
  BY <1>1 DEF Guard, Decided
<1>6. Served(p)'
  BY <1>1, <1>4 DEF Guard, Served
<1>7. Rendered(p)'
  BY <1>1, <1>2, <1>4 DEF Rendered, Fit, Right
<1> QED
  BY <1>5, <1>6, <1>7 DEF Guard

\* Every step of a pod leaves it guarded.
LEMMA OwnPodGuarded ==
    ASSUME TypeInv, MapsInv, OwnersInv, NEW p \in Pod, Guard(p), UNCHANGED <<prof, of>>,
           BuildStep(p) \/ AnswerStep(p) \/ Start(p) \/ Delete(p)
    PROVE  Guard(p)'
<1>1. CASE BuildStep(p)
  <2>1. /\ \E l, next : adm' = [adm EXCEPT ![p].at = next, ![p].listener = l]
        /\ adm[p].at \in {"new", "listener", "policy", "ws", "upload"}
    BY <1>1 DEF BuildStep, NewFilters, NewListener, WithPolicy, WithWebSocket, WithUpload, WithRoute,
                Built, At
  <2>2. adm'[p].policy = adm[p].policy
    BY <2>1 DEF TypeInv, BuildsInv
  <2>3. UNCHANGED <<pod, excused>>
    BY <1>1, BuildsAlone DEF ghosts
  <2>4. Decided(p)'
    BY <2>1, <2>2, <2>3 DEF Guard, Decided
  <2>5. Served(p)' /\ Rendered(p)'
    BY <2>3 DEF Guard, Served, Rendered, Fit, Right
  <2> QED
    BY <2>4, <2>5 DEF Guard
<1>2. ASSUME Deny(p), excused' = excused
      PROVE  Guard(p)'
  BY <1>2, GuardStays DEF Deny, Answer, TypeInv, PodsInv, BuildsInv
<1>3. CASE Ask(p)
  <2>1. adm'[p].at = "manager" /\ pod'[p].st = "asked"
    BY <1>3 DEF Ask, TypeInv, PodsInv, BuildsInv, Idle, NoPod
  <2> QED
    BY <2>1 DEF Guard, Decided, Served, Rendered
<1>4. CASE CallFails(p)
  BY <1>2, <1>4 DEF CallFails, ghosts
<1>5. CASE GetAppConfig(p)
  <2>1. CASE adm' = Goto(p, "entrance") /\ UNCHANGED <<pod, excused>>
    <3>1. adm'[p].at = "entrance"
      BY <2>1 DEF Goto, TypeInv, BuildsInv
    <3> QED
      BY <2>1, <3>1 DEF Guard, Decided, Served, Rendered, Fit, Right
  <2>2. CASE /\ ~Exists(of[p]) \/ prof[of[p]].kind = "middleware"
             /\ Admit(p, "none", {})
             /\ excused' = IF of[p] \in disowned THEN excused \cup {p} ELSE excused
    <3>1. pod[p].st = "asked" /\ prof[of[p]].kind = "app" => p \in excused'
      BY <2>2 DEF OwnersInv, TypeInv, PodsInv
    <3> QED
      BY <2>2, <3>1, AnswerGuards
  <2> QED
    BY <1>5, <2>1, <2>2 DEF GetAppConfig
<1>6. CASE MustInject(p)
  <2> DEFINE policy == of[p] \in svc
  <2>1. excused' = IF policy THEN excused ELSE excused \cup {p}
    BY <1>6 DEF MustInject
  <2>2. CASE adm' = [adm EXCEPT ![p].at = "map", ![p].policy = policy] /\ UNCHANGED pod
    <3>1. adm'[p].policy = policy
      BY <2>2 DEF TypeInv, BuildsInv
    <3>2. Decided(p)'
      BY <2>1, <3>1 DEF Decided
    <3> QED
      BY <2>1, <2>2, <3>2 DEF Guard, Served, Rendered, Fit, Right
  <2>3. CASE Admit(p, "none", {}) /\ (prof[of[p]].kind = "app" => ~policy)
    BY <2>1, <2>3, AnswerGuards
  <2> QED
    BY <1>6, <2>2, <2>3 DEF MustInject
<1>7. CASE GetConfigMap(p)
  <2>1. adm'[p].policy = adm[p].policy /\ UNCHANGED <<pod, excused>> /\ adm[p].at = "map"
    BY <1>7 DEF GetConfigMap, ghosts, TypeInv, BuildsInv, At
  <2> QED
    BY <2>1 DEF Guard, Decided, Served, Rendered, Fit, Right
<1>8. CASE WriteConfigMap(p)
  <2>1. CASE Deny(p)
    BY <1>2, <1>8, <2>1 DEF WriteConfigMap, ghosts
  <2>2. CASE /\ adm' = [o \in Pod |-> IF o = p THEN [adm[p] EXCEPT !.at = "probes"]
                                       ELSE [adm[o] EXCEPT !.fresh = @ /\ MapOf(o) # MapOf(p)]]
             /\ UNCHANGED <<pod, excused>> /\ adm[p].at = "write"
    <3>1. adm'[p] = [adm[p] EXCEPT !.at = "probes"] /\ adm[p] \in AdmissionType
      BY <2>2 DEF TypeInv, BuildsInv
    <3>2. adm'[p].policy = adm[p].policy
      BY <3>1 DEF AdmissionType
    <3>3. Decided(p)'
      BY <2>2, <3>2 DEF Guard, Decided
    <3> QED
      BY <2>2, <3>3 DEF Guard, Served, Rendered, Fit, Right
  <2> QED
    BY <1>8, <2>1, <2>2 DEF WriteConfigMap, ghosts, At
<1>12. CASE isInjectedPod(p)
  <2>1. Admit(p, "none", {}) /\ adm[p].injected /\ excused' = excused
    BY <1>12 DEF isInjectedPod, ghosts
  <2> QED
    BY <2>1, AnswerGuards
<1>9. CASE CreatePatch(p)
  <2>1. Admit(p, Proxy(p), Servers(p)) /\ At(p, "probes") /\ excused' = excused
    BY <1>9 DEF CreatePatch, ghosts
  <2> QED
    BY <2>1, AnswerGuards, PatchGuards
<1>10. CASE Start(p)
  BY <1>10, StartGuards
<1>11. CASE Delete(p)
  BY <1>11, GuardStays DEF Delete, ghosts, TypeInv, PodsInv
<1> QED
  BY <1>1, <1>3, <1>4, <1>5, <1>6, <1>7, <1>8, <1>9, <1>10, <1>11, <1>12 DEF AnswerStep

\* Every step leaves every pod guarded.
LEMMA GuardStep ==
    ASSUME TypeInv, MapsInv, OwnersInv, GuardInv, [Next]_vars
    PROVE  GuardInv'
<1>1. UNCHANGED <<prof, of>>
  BY ProfilesStay
<1>2. SUFFICES ASSUME NEW q \in Pod PROVE Guard(q)'
  BY DEF GuardInv
<1>3. Guard(q)
  BY DEF GuardInv
<1>4. CASE UNCHANGED vars \/ Register \/ GpuChanges
  BY <1>1, <1>3, <1>4, GpuAlone, GuardStays DEF vars, ghosts, Register
<1>5. CASE Restart
  <2>1. adm'[q] = Idle /\ (pod'[q] = pod[q] \/ pod'[q] = NoPod) /\ excused' = excused
    BY <1>5 DEF Restart, ghosts, TypeInv, PodsInv
  <2> QED
    BY <1>1, <1>3, <2>1, GuardStays
<1>6. ASSUME NEW a \in App, RequestStep(a) \/ Carry(a) \/ WorkloadStep(a)
      PROVE  Guard(q)'
  <2>1. UNCHANGED <<adm, excused>>
    BY <1>6, RequestsAlone, WorkloadsAlone DEF Carry
  <2>2. pod' = pod \/ pod' = [p \in Pod |-> IF of[p] = a THEN NoPod ELSE pod[p]]
    BY <1>6, RequestsAlone DEF Carry, WorkloadStep, InstallChart, ReplaceWorkload, ChangeWorkload,
                               ChangeService
  <2>3. pod'[q] = pod[q] \/ pod'[q] = NoPod
    BY <2>2
  <2> QED
    BY <1>1, <1>3, <2>1, <2>3, GuardStays
<1>7. ASSUME NEW p \in Pod, BuildStep(p) \/ AnswerStep(p) \/ Start(p) \/ Delete(p)
      PROVE  Guard(q)'
  <2>1. CASE q = p
    BY <1>1, <1>3, <1>7, <2>1, OwnPodGuarded
  <2>2. CASE q # p
    BY <1>1, <1>3, <1>7, <2>2, OtherPods, GuardStays
  <2> QED
    BY <2>1, <2>2
<1> QED
  BY <1>4, <1>5, <1>6, <1>7, StepKinds

-----------------------------------------------------------------------------
(***************************************************************************)
(* The ConfigMaps of pods outside Deployments.                             *)
(***************************************************************************)
\* What a step leaves alone, or ends, keeps its ConfigMap.
LEMMA OwnMapStays ==
    ASSUME NEW q \in Pod, OwnMap(q), UNCHANGED <<prof, of>>,
           pod'[q] = pod[q] \/ pod'[q] = NoPod,
           adm'[q] = Idle \/ (adm'[q].at = adm[q].at /\ adm'[q].policy = adm[q].policy),
           cm'[q] = cm[q] \/ cm'[q] = None
    PROVE  OwnMap(q)'
<1>1. pod'[q].st \in {"admitted", "running"} => pod'[q] = pod[q]
  BY DEF NoPod
<1>2. adm'[q].at = "probes" => adm[q].at = "probes" /\ adm'[q].policy = adm[q].policy
  BY DEF Idle
<1>3. adm[q].at = "idle" => adm'[q].at = "idle"
  BY DEF Idle
<1> QED
  BY <1>1, <1>2, <1>3 DEF OwnMap

\* Nobody else writes the ConfigMap of such a pod.
LEMMA OthersMap ==
    ASSUME TypeInv, NEW p \in Pod, NEW q \in Pod \ {p}, ~prof[of[q]].deployment,
           BuildStep(p) \/ AnswerStep(p) \/ Start(p) \/ Delete(p)
    PROVE  cm'[q] = cm[q]
<1>1. CASE WriteConfigMap(p)
  <2>1. cm' = cm \/ cm' = [cm EXCEPT ![MapOf(p)] = Content(p)]
    BY <1>1 DEF WriteConfigMap
  <2>2. MapOf(p) # q
    BY ConstantsAssumption DEF MapOf, TypeInv, PodsInv
  <2> QED
    BY <2>1, <2>2 DEF TypeInv, PodsInv
<1>2. CASE ~WriteConfigMap(p)
  BY <1>2, BuildsAlone DEF AnswerStep, Ask, CallFails, GetAppConfig, MustInject, isInjectedPod,
                           GetConfigMap, CreatePatch, Start, Delete
<1> QED
  BY <1>1, <1>2

\* An answer with a policy finds its policy in the ConfigMap.
LEMMA AnswerOwnMap ==
    ASSUME TypeInv, NEW p \in Pod, OwnMap(p), UNCHANGED <<prof, of, cm>>,
           NEW side, NEW serves, Admit(p, side, serves), adm[p].at # "idle",
           side = "full" /\ ~prof[of[p]].deployment /\ cm[p] # None => cm[p].policy
    PROVE  OwnMap(p)'
<1> DEFINE answer == [NoPod EXCEPT !.st = "admitted", !.injected = adm[p].injected,
                                   !.side = side, !.serves = serves]
<1>1. answer.st = "admitted" /\ answer.side = side
  BY DEF NoPod
<1>2. pod'[p] = IF pod[p].st = "asked" THEN answer ELSE pod[p]
  BY DEF Admit, Answer, TypeInv, PodsInv
<1>3. adm'[p].at = "idle"
  BY DEF Admit, Answer, TypeInv, BuildsInv, Idle
<1> HIDE DEF answer
<1>4. pod[p].st \notin {"admitted", "running"}
  BY DEF OwnMap
<1> QED
  BY <1>1, <1>2, <1>3, <1>4 DEF OwnMap

\* A step of a pod keeps its own ConfigMap.
LEMMA OwnPodMap ==
    ASSUME TypeInv, NEW p \in Pod, OwnMap(p), UNCHANGED <<prof, of>>,
           BuildStep(p) \/ AnswerStep(p) \/ Start(p) \/ Delete(p)
    PROVE  OwnMap(p)'
<1> USE DEF TypeInv
<1>1. ASSUME UNCHANGED pod, adm[p].at # "idle", adm'[p].at # "probes"
      PROVE  OwnMap(p)'
  <2>1. pod[p].st \notin {"admitted", "running"}
    BY <1>1 DEF OwnMap
  <2> QED
    BY <1>1, <2>1 DEF OwnMap
<1>2. CASE BuildStep(p)
  <2>1. PICK l, next : /\ Built(p, l, next)
                       /\ next \in {"listener", "policy", "ws", "upload", "write"}
    BY <1>2, NextSteps DEF BuildStep, NewFilters, NewListener, WithPolicy, WithWebSocket, WithUpload,
                           WithRoute
  <2>2. adm'[p].at # "probes"
    BY <2>1, BuiltMoves
  <2>3. adm[p].at # "idle"
    BY <1>2 DEF BuildStep, NewFilters, NewListener, WithPolicy, WithWebSocket, WithUpload, WithRoute,
                At
  <2> QED
    BY <1>1, <1>2, <2>2, <2>3, BuildsAlone
<1>3. ASSUME Deny(p), UNCHANGED cm
      PROVE  OwnMap(p)'
  BY <1>3, OwnMapStays DEF Deny, Answer, PodsInv, BuildsInv
<1>4. CASE Ask(p)
  <2>1. adm'[p].at = "manager" /\ pod'[p].st = "asked"
    BY <1>4 DEF Ask, PodsInv, BuildsInv, Idle, NoPod
  <2> QED
    BY <2>1 DEF OwnMap
<1>5. CASE CallFails(p)
  BY <1>3, <1>5 DEF CallFails
<1>6. ASSUME Admit(p, "none", {}), UNCHANGED cm, adm[p].at # "idle"
      PROVE  OwnMap(p)'
  BY <1>6, AnswerOwnMap
<1>7. CASE GetAppConfig(p)
  <2>1. CASE adm' = Goto(p, "entrance") /\ UNCHANGED pod
    <3>1. adm'[p].at = "entrance" /\ adm[p].at # "idle"
      BY <1>7, <2>1 DEF GetAppConfig, At, Goto, BuildsInv
    <3> QED
      BY <1>1, <2>1, <3>1
  <2>2. CASE Admit(p, "none", {})
    BY <1>6, <1>7, <2>2 DEF GetAppConfig, At
  <2> QED
    BY <1>7, <2>1, <2>2 DEF GetAppConfig
<1>8. CASE MustInject(p)
  <2> DEFINE policy == of[p] \in svc
  <2>1. CASE adm' = [adm EXCEPT ![p].at = "map", ![p].policy = policy] /\ UNCHANGED pod
    <3>1. adm'[p].at = "map" /\ adm[p].at # "idle"
      BY <1>8, <2>1 DEF MustInject, At, BuildsInv
    <3> QED
      BY <1>1, <2>1, <3>1
  <2>2. CASE Admit(p, "none", {})
    BY <1>6, <1>8, <2>2 DEF MustInject, At
  <2> QED
    BY <1>8, <2>1, <2>2 DEF MustInject
<1>9. CASE isInjectedPod(p)
  BY <1>6, <1>9 DEF isInjectedPod, At
<1>10. CASE GetConfigMap(p)
  <2>1. adm'[p].at = "new" /\ adm[p].at # "idle" /\ UNCHANGED pod
    BY <1>10 DEF GetConfigMap, At, BuildsInv
  <2> QED
    BY <1>1, <2>1
<1>11. CASE WriteConfigMap(p)
  <2>1. CASE Deny(p) /\ UNCHANGED cm
    BY <1>3, <2>1
  <2>2. CASE /\ cm' = [cm EXCEPT ![MapOf(p)] = Content(p)]
             /\ adm' = [o \in Pod |-> IF o = p THEN [adm[p] EXCEPT !.at = "probes"]
                                       ELSE [adm[o] EXCEPT !.fresh = @ /\ MapOf(o) # MapOf(p)]]
             /\ UNCHANGED pod /\ adm[p].at = "write"
    <3>1. pod[p].st \notin {"admitted", "running"}
      BY <2>2 DEF OwnMap
    <3>2. adm'[p] = [adm[p] EXCEPT !.at = "probes"] /\ adm[p] \in AdmissionType
      BY <2>2 DEF BuildsInv
    <3>3. adm'[p].policy = adm[p].policy
      BY <3>2 DEF AdmissionType
    <3>4. ~prof[of[p]].deployment => cm'[p] = Content(p)
      BY <2>2 DEF MapOf, PodsInv
    <3>5. Content(p).policy = adm[p].policy
      BY DEF Content
    <3> QED
      BY <2>2, <3>1, <3>3, <3>4, <3>5 DEF OwnMap
  <2> QED
    BY <1>11, <2>1, <2>2 DEF WriteConfigMap, At
<1>12. CASE CreatePatch(p)
  <2>1. Admit(p, Proxy(p), Servers(p)) /\ adm[p].at = "probes" /\ UNCHANGED cm
    BY <1>12 DEF CreatePatch, At
  <2>2. Proxy(p) = "full" => adm[p].policy
    BY DEF Proxy
  <2>3. Proxy(p) = "full" /\ ~prof[of[p]].deployment /\ cm[p] # None => cm[p].policy
    BY <2>1, <2>2 DEF OwnMap
  <2> QED
    BY <2>1, <2>3, AnswerOwnMap
<1>13. CASE Start(p)
  <2> DEFINE conf == IF pod[p].side = "none" THEN None ELSE cm[MapOf(p)]
  <2>1. /\ pod' = [pod EXCEPT ![p].st = "running", ![p].conf = conf]
        /\ pod[p].st = "admitted" /\ UNCHANGED <<adm, cm>>
        /\ pod[p].side # "none" => cm[MapOf(p)] # None
    BY <1>13 DEF Start
  <2>2. pod[p].side = "full" /\ ~prof[of[p]].deployment => conf = cm[p] /\ cm[p] # None
    BY <2>1 DEF MapOf
  <2> HIDE DEF conf
  <2>3. pod'[p].st = "running" /\ pod'[p].conf = conf /\ pod'[p].side = pod[p].side
    BY <2>1 DEF PodsInv, PodType
  <2> QED
    BY <2>1, <2>2, <2>3 DEF OwnMap
<1>14. CASE Delete(p)
  BY <1>14, OwnMapStays DEF Delete, PodsInv
<1> QED
  BY <1>2, <1>4, <1>5, <1>7, <1>8, <1>9, <1>10, <1>11, <1>12, <1>13, <1>14 DEF AnswerStep

\* So does every step.
LEMMA OwnMapStep ==
    ASSUME TypeInv, OwnMapInv, [Next]_vars
    PROVE  OwnMapInv'
<1>1. UNCHANGED <<prof, of>>
  BY ProfilesStay
<1>2. SUFFICES ASSUME NEW q \in Pod PROVE OwnMap(q)'
  BY DEF OwnMapInv
<1>3. OwnMap(q)
  BY DEF OwnMapInv
<1>4. CASE UNCHANGED vars \/ Register \/ GpuChanges
  BY <1>1, <1>3, <1>4, GpuAlone, OwnMapStays DEF vars, Register
<1>5. CASE Restart
  <2>1. adm'[q] = Idle /\ (pod'[q] = pod[q] \/ pod'[q] = NoPod) /\ cm' = cm
    BY <1>5 DEF Restart, TypeInv, PodsInv
  <2> QED
    BY <1>1, <1>3, <2>1, OwnMapStays
<1>6. ASSUME NEW a \in App, RequestStep(a) \/ Carry(a) \/ WorkloadStep(a)
      PROVE  OwnMap(q)'
  <2>1. UNCHANGED adm
    BY <1>6, RequestsAlone, WorkloadsAlone DEF Carry
  <2>2. pod' = pod \/ pod' = [p \in Pod |-> IF of[p] = a THEN NoPod ELSE pod[p]]
    BY <1>6, RequestsAlone DEF Carry, WorkloadStep, InstallChart, ReplaceWorkload, ChangeWorkload,
                               ChangeService
  <2>3. cm' = cm \/ cm' = [n \in App \cup Pod |->
                             IF n = a \/ (n \in Pod /\ of[n] = a) THEN None ELSE cm[n]]
    BY <1>6, RequestsAlone, WorkloadsAlone DEF Carry
  <2>4. pod'[q] = pod[q] \/ pod'[q] = NoPod
    BY <2>2
  <2>5. cm'[q] = cm[q] \/ cm'[q] = None
    BY <2>3
  <2> QED
    BY <1>1, <1>3, <2>1, <2>4, <2>5, OwnMapStays
<1>7. ASSUME NEW p \in Pod, BuildStep(p) \/ AnswerStep(p) \/ Start(p) \/ Delete(p)
      PROVE  OwnMap(q)'
  <2>1. CASE q = p
    BY <1>1, <1>3, <1>7, <2>1, OwnPodMap
  <2>2. CASE q # p
    <3>1. /\ pod'[q] = pod[q]
          /\ adm'[q].at = adm[q].at /\ adm'[q].policy = adm[q].policy
      BY <1>7, <2>2, OtherPods
    <3>2. CASE prof[of[q]].deployment
      BY <1>1, <1>3, <3>1, <3>2 DEF OwnMap
    <3>3. CASE ~prof[of[q]].deployment
      BY <1>1, <1>3, <1>7, <2>2, <3>1, <3>3, OthersMap, OwnMapStays
    <3> QED
      BY <3>2, <3>3
  <2> QED
    BY <2>1, <2>2
<1> QED
  BY <1>4, <1>5, <1>6, <1>7, StepKinds

-----------------------------------------------------------------------------
(***************************************************************************)
(* The GPU of the workloads.                                               *)
(***************************************************************************)
OneKind(limits) == \A k, l \in limits : k = l

\* The webhook replaces every limit that there was, or leaves them as they are.
LEMMA LimitsOfOneKind ==
    ASSUME NEW a, NEW limits \in SUBSET Gpu, OneKind(limits), NEW annotated, NEW read
    PROVE  OneKind(gpuLimitMutate(a, limits, annotated, read))
<1>1. addResourceLimits(limits, gpu) = {gpu}
  BY DEF addResourceLimits
<1> QED
  BY <1>1 DEF gpuLimitMutate, OneKind

\* A workload that passes the webhooks, or is denied, asks for one kind.
LEMMA MarkOneKind ==
    ASSUME WorkloadsInv, OneKindOfGpu, NEW a \in App, NEW old \in WorkloadType, OneKind(old.gpu),
           NEW limits \in SUBSET Gpu, OneKind(limits), Mark(a, old, limits)
    PROVE  OneKindOfGpu'
<1>1. ASSUME NEW w, OneKind(w.gpu), workload' = [workload EXCEPT ![a] = w]
      PROVE  OneKindOfGpu'
  <2>1. ASSUME NEW b \in App
        PROVE  OneKind(workload'[b].gpu)
    BY <1>1 DEF WorkloadsInv, OneKindOfGpu, OneKind
  <2> QED
    BY <2>1 DEF OneKindOfGpu, OneKind
<1>2. CASE workload' = [workload EXCEPT ![a] = old]
  BY <1>1, <1>2
<1>3. ASSUME NEW annotated \in BOOLEAN, NEW labels \in BOOLEAN, NEW read \in BOOLEAN,
             workload' = [workload EXCEPT ![a] =
               [there |-> TRUE, labels |-> IF old.there THEN old.labels ELSE labels,
                gpu |-> gpuLimitMutate(a, limits, annotated, read)]]
      PROVE  OneKindOfGpu'
  <2> DEFINE w == [there |-> TRUE, labels |-> IF old.there THEN old.labels ELSE labels,
                   gpu |-> gpuLimitMutate(a, limits, annotated, read)]
  <2>1. w.gpu = gpuLimitMutate(a, limits, annotated, read)
    OBVIOUS
  <2>2. OneKind(w.gpu)
    BY <2>1, LimitsOfOneKind
  <2>3. workload' = [workload EXCEPT ![a] = w]
    BY <1>3
  <2> HIDE DEF w
  <2> QED
    BY <1>1, <2>2, <2>3
<1> QED
  BY <1>2, <1>3 DEF Mark

\* Every step leaves every workload with one kind of GPU at most.
LEMMA GpuStep ==
    ASSUME TypeInv, OneKindOfGpu, [Next]_vars
    PROVE  OneKindOfGpu'
<1> USE DEF TypeInv
<1>1. CASE UNCHANGED workload
  BY <1>1 DEF OneKindOfGpu
<1>2. CASE UNCHANGED vars \/ Register \/ Restart \/ GpuChanges
  BY <1>1, <1>2, GpuAlone DEF vars, Register, Restart
<1>3. ASSUME NEW a \in App, RequestStep(a)
      PROVE  OneKindOfGpu'
  BY <1>1, <1>3, RequestsAlone
<1>4. ASSUME NEW a \in App, Carry(a)
      PROVE  OneKindOfGpu'
  <2>1. workload' = [workload EXCEPT ![a] = NoWorkload] \/ workload' = workload
    BY <1>4 DEF Carry
  <2> QED
    BY <1>1, <2>1 DEF WorkloadsInv, OneKindOfGpu, NoWorkload
<1>5. ASSUME NEW a \in App, NEW limits \in Sent(a)
      PROVE  limits \in SUBSET Gpu /\ OneKind(limits)
  BY <1>5 DEF Sent, OneKind
<1>6. ASSUME NEW a \in App, WorkloadStep(a)
      PROVE  OneKindOfGpu'
  <2>1. CASE InstallChart(a) \/ ReplaceWorkload(a)
    <3>1. PICK limits \in Sent(a) : Mark(a, NoWorkload, limits)
      BY <2>1 DEF InstallChart, ReplaceWorkload
    <3>2. OneKind(NoWorkload.gpu)
      BY DEF NoWorkload, OneKind
    <3> QED
      BY <1>5, <3>1, <3>2, MarkOneKind, NoWorkloadType
  <2>2. CASE ChangeWorkload(a)
    <3>1. /\ workload[a] \in WorkloadType /\ workload[a].gpu \in SUBSET Gpu
          /\ OneKind(workload[a].gpu)
      BY DEF WorkloadsInv, WorkloadType, OneKindOfGpu, OneKind
    <3>2. PICK limits \in Sent(a) \cup {workload[a].gpu} : Mark(a, workload[a], limits)
      BY <2>2 DEF ChangeWorkload
    <3>3. limits \in SUBSET Gpu /\ OneKind(limits)
      BY <1>5, <3>1, <3>2
    <3> QED
      BY <3>1, <3>2, <3>3, MarkOneKind
  <2>3. CASE ChangeService(a)
    BY <1>1, <2>3 DEF ChangeService
  <2> QED
    BY <1>6, <2>1, <2>2, <2>3 DEF WorkloadStep
<1>7. ASSUME NEW p \in Pod, BuildStep(p) \/ AnswerStep(p) \/ Start(p) \/ Delete(p)
      PROVE  OneKindOfGpu'
  BY <1>1, <1>7, BuildsAlone, PodsAlone
<1> QED
  BY <1>2, <1>3, <1>4, <1>6, <1>7, StepKinds

-----------------------------------------------------------------------------
(***************************************************************************)
(* The invariant, and what follows from it.                                *)
(***************************************************************************)
LEMMA InitIInv == ASSUME Init PROVE IInv
<1>1. RegistrationInv
  BY HooksLength DEF Init, RegistrationInv
<1>2. ManagersInv
  <2>1. NoState \in PossibleStates
    BY DEF PossibleStates, ImpossibleStates, NoState
  <2> QED
    BY <2>1 DEF Init, ManagersInv, NoManager
<1>3. WorkloadsInv
  BY NoWorkloadType DEF Init, WorkloadsInv
<1>4. PodsInv
  <2> DEFINE Conf == ConfigMap \cup {None}
  <2>1. NoPod \in PodType /\ None \in Conf
    BY PodTypes
  <2> HIDE DEF Conf
  <2>2. pod \in [Pod -> PodType] /\ cm \in [App \cup Pod -> Conf]
    BY <2>1 DEF Init
  <2> QED
    BY <2>2 DEF Init, PodsInv, Conf
<1>5. \A p \in Pod : adm[p] = Idle /\ adm[p].at = "idle"
  BY DEF Init, Idle
<1>6. BuildsInv
  <2> DEFINE Maybe == Manager \cup {None}
  <2>1. Idle \in AdmissionType /\ None \in Maybe
    BY AdmissionTypes
  <2> HIDE DEF Maybe
  <2>2. adm \in [Pod -> AdmissionType] /\ manager \in [Pod -> Maybe]
    BY <2>1 DEF Init
  <2> QED
    BY <2>2 DEF Init, BuildsInv, Maybe
<1>7. PointersInv
  BY <1>5, ConstantsAssumption DEF Init, PointersInv
<1>8. OwnInv
  BY <1>5, BuildingDef DEF OwnInv, OwnBuild, Extra
<1>9. MapsInv /\ OwnersInv
  BY DEF Init, MapsInv, OwnersInv, NoPod, NoWorkload
<1>10. GuardInv
  BY <1>5 DEF Init, GuardInv, Guard, Decided, Served, Rendered, NoPod
<1>11. OneKindOfGpu
  BY DEF Init, OneKindOfGpu, NoWorkload
<1>12. OwnMapInv
  BY <1>5 DEF Init, OwnMapInv, OwnMap, NoPod
<1> QED
  BY <1>1, <1>2, <1>3, <1>4, <1>6, <1>7, <1>8, <1>9, <1>10, <1>11, <1>12 DEF IInv, TypeInv

\* The inductive invariant holds in every reachable state of Webhooks.tla: types,
\* owned builds, fit ConfigMaps, owners, guarded pods, ConfigMaps of one pod, and
\* workloads of one kind of GPU (pkg/sandbox/sidecar/envoy.go, pkg/webhook/webhook.go).
THEOREM Invariance == Spec => []IInv
<1>1. Init => IInv
  BY InitIInv
<1>2. IInv /\ [Next]_vars => IInv'
  BY TypeStep, OwnInvStep, MapsStep, OwnersStep, GuardStep, OwnMapStep, GpuStep DEF IInv
<1> QED
  BY <1>1, <1>2, PTL DEF Spec

\* Every variable has its type: the handlers that build the proxy never follow a
\* pointer that no build has set, and a process that serves has registered every
\* webhook (apiserver/handler.go:78).
THEOREM TypeCorrect == Spec => []TypeOK
<1>1. IInv => TypeOK
  <2> SUFFICES ASSUME IInv PROVE TypeOK
    OBVIOUS
  <2> USE DEF IInv, TypeInv
  <2>1. \A a \in App : Exists(a) => mgr[a].state \in State \cup {NoState} /\ mgr[a].op \in OpType
    BY PossibleIsState DEF ManagersInv, Exists
  <2>2. /\ gpu \in Gpu \cup {None}
        /\ \A a \in App : workload[a].labels \in BOOLEAN /\ workload[a].gpu \subseteq Gpu
    BY DEF WorkloadsInv, WorkloadType
  <2>3. \A n \in App \cup Pod : cm[n] # None => cm[n] \in ConfigMap
    BY DEF PodsInv
  <2>4. \A p \in Pod : /\ pod[p].st \in {"none", "asked", "admitted", "running"}
                       /\ pod[p].injected \in BOOLEAN
                       /\ pod[p].side \in {"none", "outbound", "full"}
                       /\ pod[p].serves \subseteq {"ws", "upload"}
                       /\ pod[p].conf # None => pod[p].conf \in ConfigMap
    BY DEF PodsInv, PodType, Extra
  <2>5. \A p \in Pod : adm[p].listener # None => adm[p].listener \in Listener
    BY DEF BuildsInv, AdmissionType
  <2>6. \A p \in Pod : manager[p] # None => manager[p].routes \in Pod
    BY DEF BuildsInv, Manager
  <2>7. /\ httpFilters \subseteq App /\ {routeConfig, httpM} \subseteq Pod \cup {None}
        /\ svc \cup disowned \subseteq App /\ excused \cup mixed \subseteq Pod
    BY DEF BuildsInv, WorkloadsInv, ManagersInv, PodsInv
  <2>8. /\ prof \in [App -> Profiles] /\ of \in [Pod -> App]
        /\ boot \in 0 .. hooks /\ hooks \in 0 .. Len(Hooks)
    BY DEF PodsInv, RegistrationInv
  <2> QED
    BY <2>1, <2>2, <2>3, <2>4, <2>5, <2>6, <2>7, <2>8 DEF TypeOK
<1> QED
  BY <1>1, Invariance, PTL

\* A pod behind an entrance runs with the proxy, a configuration of its own and
\* the servers of its routes, but in the named ways: an admission that found no
\* Service or manager, a pod taken for injected, the policy of a Deployment's pods,
\* and builds that overlapped (pkg/webhook/webhook.go:160, envoy.go:438).
THEOREM EntrancesGuarded == Spec => []EntranceIsGuarded
<1>1. ASSUME IInv PROVE EntranceIsGuarded
  <2>1. ASSUME NEW p \in Pod, pod[p].st = "running", prof[of[p]].kind = "app",
               p \notin excused, ~pod[p].injected
        PROVE  /\ pod[p].side = "full"
               /\ prof[of[p]].mounted => pod[p].serves = prof[of[p]].routes
               /\ pod[p].conf.policy \/ prof[of[p]].deployment
               /\ Fit(pod[p].conf, of[p])
    BY <1>1, <2>1 DEF IInv, GuardInv, Guard, Served, Rendered, OwnMapInv, OwnMap
  <2> QED
    BY <2>1 DEF EntranceIsGuarded, Fit, Right
<1> QED
  BY <1>1, Invariance, PTL

\* A workload never asks for two kinds of GPU, whatever the nodes show from one
\* admission to the next and whatever limits others send (webhook.go:584).
THEOREM WorkloadsOfOneKind == Spec => []OneKindOfGpu
<1>1. IInv => OneKindOfGpu
  BY DEF IInv
<1> QED
  BY <1>1, Invariance, PTL

\* Neither a request nor the controller takes the state away from a manager that
\* has one, but the cancel of a failed cancel (handler_webhook.go:1265).
THEOREM StatesKept == Spec => StateIsKept
<1> DEFINE Keeps == \A a \in App : Exists(a) /\ mgr'[a] # NoManager /\ mgr'[a].state = NoState =>
                                  mgr[a].state \in {NoState, "applyingEnvCancelFailed"}
<1>1. ASSUME ManagersInv, [Next]_vars
      PROVE  [Keeps]_vars
  <2> SUFFICES ASSUME Next PROVE Keeps
    BY <1>1
  <2>1. ASSUME UNCHANGED mgr
        PROVE  Keeps
    BY <2>1 DEF NoManager
  <2>2. CASE Register \/ Restart \/ GpuChanges
    BY <2>1, <2>2, GpuAlone DEF Register, Restart
  <2>3. ASSUME NEW b \in App, NEW op \in OpType, RequestManager(b, op)
        PROVE  Keeps
    <3>1. /\ mgr' = [mgr EXCEPT ![b] = [state |-> StateWritten(op, mgr[b].state), op |-> op]]
          /\ IsOperationAllowed(mgr[b].state, op)
      BY <2>3 DEF RequestManager, Acceptable
    <3>2. mgr[b].state \in PossibleStates
      BY <1>1 DEF ManagersInv
    <3>3. StateWritten(op, mgr[b].state) = NoState =>
            mgr[b].state \in {NoState, "applyingEnvCancelFailed"}
      BY <3>1, <3>2, OnlyFailedCancel
    <3>4. mgr'[b].state = StateWritten(op, mgr[b].state) /\ \A a \in App \ {b} : mgr'[a] = mgr[a]
      BY <1>1, <3>1 DEF ManagersInv
    <3> QED
      BY <3>3, <3>4
  <2>4. ASSUME NEW b \in App, DeleteManager(b)
        PROVE  Keeps
    <3>1. mgr'[b] = NoManager /\ \A a \in App \ {b} : mgr'[a] = mgr[a]
      BY <1>1, <2>4 DEF DeleteManager, ManagersInv
    <3> QED
      BY <3>1 DEF NoManager
  <2>8. ASSUME NEW b \in App, WriteApplyingEnv(b)
        PROVE  Keeps
    <3>1. mgr' = [mgr EXCEPT ![b].state = "applyingEnv"]
      BY <2>8 DEF WriteApplyingEnv
    <3>2. mgr'[b].state = "applyingEnv" /\ \A a \in App \ {b} : mgr'[a] = mgr[a]
      BY <1>1, <3>1 DEF ManagersInv
    <3> QED
      BY <3>2 DEF NoState
  <2>5. ASSUME NEW b \in App, Carry(b)
        PROVE  Keeps
    <3>1. PICK s \in Owed(mgr[b].state) : mgr' = [mgr EXCEPT ![b].state = s]
      BY <2>5 DEF Carry
    <3>2. s # NoState
      BY <3>1, OwedIsState
    <3>3. mgr'[b].state = s /\ \A a \in App \ {b} : mgr'[a] = mgr[a]
      BY <1>1, <3>1 DEF ManagersInv
    <3> QED
      BY <3>2, <3>3
  <2>6. ASSUME NEW b \in App, WorkloadStep(b)
        PROVE  Keeps
    BY <2>1, <2>6, WorkloadsAlone
  <2>7. ASSUME NEW p \in Pod, BuildStep(p) \/ AnswerStep(p) \/ Start(p) \/ Delete(p)
        PROVE  Keeps
    BY <2>1, <2>7, BuildsAlone, PodsAlone
  <2> QED
    BY <2>2, <2>3, <2>4, <2>5, <2>6, <2>7, <2>8, StepKinds DEF RequestStep
<1>2. IInv => ManagersInv
  BY DEF IInv, TypeInv
<1> QED
  BY <1>1, <1>2, Invariance, PTL DEF Spec, StateIsKept
=============================================================================
