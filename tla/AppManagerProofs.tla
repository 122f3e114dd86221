-------------------------- MODULE AppManagerProofs --------------------------
(***************************************************************************)
(* What AppManager guarantees for any number of applications, reconcilers, *)
(* operations and requests, and without bounds on lag, requests, sweeps    *)
(* and faults other than that they are numbers: its types, that only       *)
(* possible states occur, that every registry entry has a goroutine that   *)
(* removes it, that downloads begin only in pending, and that it           *)
(* implements AppLifecycle.                                                *)
(***************************************************************************)
EXTENDS AppRefinement, SequenceTheorems, TLAPS

\* The states that operations have.
OpKind == WatchedStates \cup PolledStates

\* What is written by anything but PendingApp.Exec.
Writable == PossibleStates \ {"downloading"}

PossibleVersion == [state : PossibleStates, gen : Int, late : BOOLEAN]

VersionsInv ==
    /\ versions \in [App -> Seq(PossibleVersion)]
    /\ \A a \in App : Len(versions[a]) \in 1 .. MaxLag + 1

WorkersInv ==
    /\ wk \in [Worker -> [pc : WorkerPC, app : App \cup {None}, kind : PossibleStates,
                          obj : Op \cup {None}, target : Writable]]
    /\ \A w \in Worker : /\ wk[w].pc # "idle" => wk[w].app \in App
                         /\ wk[w].pc = "poll" => wk[w].kind \in PolledStates
                         /\ wk[w].pc = "cleanup" => wk[w].obj \in Op

OpType0 ==
    [app : App \cup {None}, kind : OpKind \cup {NoState}, st : PossibleStates,
     late : BOOLEAN, body : {"run", "applied", "started", "end"}, cancelled : BOOLEAN,
     fin : Writable, phase : {"free", "wait", "released", "done"}]

RegistryInv ==
    /\ inProgress \in [App -> Op \cup {None}]
    /\ ops \in [Op -> OpType0]
    /\ \A o \in Op : ops[o].phase # "free" => ops[o].app \in App /\ ops[o].kind \in OpKind
    /\ RegistryHasReleaser

RequestsInv ==
    /\ req \in [Handler -> [app : App \cup {None}, target : Writable]]
    /\ \A h \in Handler : req[h] # NoRequest => req[h].app \in App

\* A reconciler that holds the latest version holds the state that is stored.
FreshInv ==
    /\ fresh \subseteq Worker
    /\ \A w \in fresh : wk[w].pc = "exec" /\ wk[w].kind = Stored(wk[w].app).state

RestInv ==
    /\ queue \subseteq App
    /\ im \subseteq App
    /\ app \in [App -> {"absent", "present", "deleting"}]
    /\ requests \in 0 .. MaxRequests
    /\ faults \in 0 .. MaxFaults
    /\ sweeps \in 0 .. MaxSweeps

\* The inductive invariant.
IInv ==
    VersionsInv /\ WorkersInv /\ RegistryInv /\ RequestsInv /\ FreshInv /\ RestInv

\* A step starts no download except from pending.
DownloadStep ==
    \A a \in App : Stored(a)'.state = "downloading" =>
        Stored(a).state \in {"downloading", "pending"}

-----------------------------------------------------------------------------
(***************************************************************************)
(* The tables.                                                             *)
(***************************************************************************)
\* Every state that a reconciler, a handler or an operation may write is one
\* that the controller reconciles, and is not downloading.
LEMMA WritableSets ==
    /\ Writable \subseteq PossibleStates
    /\ PossibleStates \subseteq State \cup {NoState}
    /\ LoadedStates \subseteq State
    /\ OpKind \subseteq PossibleStates
    /\ {NoState, "uninstalled", "initializing", "stopped", "stopFailed", "running",
        "applyingEnvCancelFailed", "installingCanceling", "installFailed"} \subseteq Writable
    /\ {"downloading", "stopping", "pending"} \subseteq PossibleStates
    /\ WatchedStates \subseteq OpKind /\ PolledStates \subseteq OpKind
    /\ NoState \notin OpKind
BY ZenonT(40) DEF Writable, PossibleStates, State, NoState, LoadedStates, ImpossibleStates, OpKind,
       WatchedStates, PolledStates, DoNothingStates, SuspendAgainStates, ForceDeleteStates,
       CancelingStates

\* The states that Cancel, Exec and the handlers choose may be written.
LEMMA WritableTargets ==
    /\ \A s \in TimedStates \cup OpKind : TimeoutState(s) \in Writable
    /\ \A s \in PolledStates : ExecFailedState(s) \in Writable
    /\ \A s \in CancelingStates : CanceledState(s) \in Writable
    /\ \A s : CancelState(s) \in Writable
BY DEF Writable, PossibleStates, State, NoState, LoadedStates, ImpossibleStates, OpKind,
       WatchedStates, PolledStates, DoNothingStates, SuspendAgainStates, ForceDeleteStates,
       CancelingStates, TimedStates, TimeoutState, ExecFailedState, CanceledState, CancelState

\* So may the state that an accepted request asks for.
LEMMA RequestWritable ==
    ASSUME NEW s, NEW op \in OpType
    PROVE  RequestedState(op, s) \in Writable
<1>1. {"pending", "uninstalling", "upgrading", "applyingEnv", "stopping", "resuming"}
        \subseteq Writable
  BY DEF Writable, PossibleStates, NoState, LoadedStates, ImpossibleStates,
         WatchedStates, PolledStates, DoNothingStates, SuspendAgainStates, ForceDeleteStates,
         CancelingStates
<1>2. CancelState(s) \in Writable
  BY WritableTargets
<1>3. op \in {"install", "uninstall", "upgrade", "applyEnv", "stop", "resume", "cancel"}
  BY DEF OpType
<1> QED
  BY <1>1, <1>2, <1>3 DEF RequestedState

\* And what an operation's goroutine reports.
LEMMA OutcomesWritable ==
    ASSUME NEW s \in OpKind, NEW mw \in BOOLEAN, NEW c \in BOOLEAN
    PROVE  Outcomes(s, mw, c) \subseteq Writable
BY ZenonT(40) DEF Writable, PossibleStates, NoState, LoadedStates, ImpossibleStates, OpKind,
       WatchedStates, PolledStates, DoNothingStates, SuspendAgainStates, ForceDeleteStates,
       CancelingStates, Outcomes, InstallingOutcomes, InitializingOutcomes, UpgradingOutcomes,
       ApplyingEnvOutcomes, UninstallingOutcomes, DownloadingOutcomes, ResumingOutcomes,
       InstallingCancelingOutcomes

-----------------------------------------------------------------------------
(***************************************************************************)
(* The helpers that actions are made of.                                   *)
(***************************************************************************)
\* The cached and the stored version are versions.
LEMMA VersionTypes ==
    ASSUME VersionsInv, NEW a \in App
    PROVE  Cached(a) \in PossibleVersion /\ Stored(a) \in PossibleVersion
<1>1. versions[a] \in Seq(PossibleVersion) /\ Len(versions[a]) \in 1 .. MaxLag + 1
  BY DEF VersionsInv
<1>2. MaxLag \in Nat
  BY ConstantsAssumption
<1>3. Len(versions[a]) \in 1 .. Len(versions[a]) /\ 1 \in 1 .. Len(versions[a])
  BY <1>1, <1>2
<1>4. \A i \in 1 .. Len(versions[a]) : versions[a][i] \in PossibleVersion
  BY <1>1, ElementOfSeq
<1>5. Head(versions[a]) = versions[a][1]
  BY <1>1
<1> QED
  BY <1>3, <1>4, <1>5 DEF Cached, Stored

\* A version that is stored is the last one; the other applications keep
\* theirs, and no copy of the application is fresh any more.
LEMMA StoreLemma ==
    ASSUME IInv, NEW a \in App, NEW v \in PossibleVersion, Store(a, v)
    PROVE  /\ VersionsInv'
           /\ Stored(a)' = v
           /\ \A b \in App : b # a => Stored(b)' = Stored(b)
           /\ fresh' = {w \in fresh : wk[w].app # a}
<1>1. versions \in [App -> Seq(PossibleVersion)] /\ Len(versions[a]) \in 1 .. MaxLag
  BY ConstantsAssumption DEF IInv, VersionsInv, Store
<1>2. /\ Append(versions[a], v) \in Seq(PossibleVersion)
      /\ Len(Append(versions[a], v)) = Len(versions[a]) + 1
      /\ Append(versions[a], v)[Len(versions[a]) + 1] = v
  BY <1>1, AppendProperties
<1>3. versions' = [versions EXCEPT ![a] = Append(versions[a], v)]
  BY DEF Store
<1>4. versions'[a] = Append(versions[a], v) /\ \A b \in App : b # a => versions'[b] = versions[b]
  BY <1>1, <1>3
<1>5. VersionsInv'
  BY <1>1, <1>2, <1>3, <1>4, ConstantsAssumption DEF IInv, VersionsInv
<1>6. Stored(a)' = v
  BY <1>2, <1>4 DEF Stored
<1> QED
  BY <1>4, <1>5, <1>6 DEF Stored, Store

\* What updateStatus and UpdateAppMgrStatus write.
LEMMA updateStatusLemma ==
    ASSUME IInv, NEW a \in App, NEW s \in Writable,
           updateStatus(a, s) \/ UpdateAppMgrStatus(a, s)
    PROVE  /\ VersionsInv' /\ DownloadStep
           /\ \A b \in App : b # a => Stored(b)' = Stored(b)
           /\ fresh' = {w \in fresh : wk[w].app # a}
<1> DEFINE u == [state |-> IF Cached(a).state = s THEN Stored(a).state ELSE s,
                 gen |-> Cached(a).gen + 1, late |-> FALSE]
           l == [state |-> IF s = NoState THEN Stored(a).state ELSE s,
                 gen |-> Stored(a).gen + 1, late |-> FALSE]
<1>1. Cached(a) \in PossibleVersion /\ Stored(a) \in PossibleVersion
  BY VersionTypes DEF IInv
<1>2. u \in PossibleVersion /\ l \in PossibleVersion
  BY <1>1, WritableSets DEF PossibleVersion
<1>3. PICK v \in PossibleVersion : Store(a, v) /\ v.state \in {Stored(a).state, s}
  BY <1>2 DEF updateStatus, UpdateAppMgrStatus
<1>4. /\ VersionsInv'
      /\ Stored(a)' = v
      /\ \A b \in App : b # a => Stored(b)' = Stored(b)
      /\ fresh' = {w \in fresh : wk[w].app # a}
  BY <1>3, StoreLemma
<1>5. DownloadStep
  BY <1>3, <1>4 DEF DownloadStep, Writable
<1> QED
  BY <1>4, <1>5

\* Steps that leave the versions alone start no download and keep copies fresh.
LEMMA VersionsUnchanged ==
    ASSUME IInv, UNCHANGED versions
    PROVE  /\ VersionsInv' /\ DownloadStep
           /\ \A a \in App : Stored(a)' = Stored(a)
BY DEF IInv, VersionsInv, DownloadStep, Stored

LEMMA FreshKept ==
    ASSUME IInv, fresh' \subseteq fresh,
           \A w \in fresh' : /\ wk'[w] = wk[w]
                             /\ Stored(wk[w].app)'.state = Stored(wk[w].app).state
    PROVE  FreshInv'
<1> SUFFICES ASSUME NEW w \in fresh'
             PROVE  wk'[w].pc = "exec" /\ wk'[w].kind = (Stored(wk[w].app)').state
  BY DEF IInv, FreshInv, Stored
<1> QED
  BY DEF IInv, FreshInv

\* A reconciler is fresh only between its load and its Exec.
LEMMA FreshWorker ==
    ASSUME IInv, NEW w \in fresh
    PROVE  w \in Worker /\ wk[w].pc = "exec" /\ wk[w].app \in App
BY DEF IInv, FreshInv, WorkersInv

\* Cancelling what is registered keeps the registry in order.
LEMMA cancelOperationLemma ==
    ASSUME IInv, NEW a \in App, cancelOperation(a)
    PROVE  RegistryInv'
<1>1. inProgress[a] = None \/ inProgress[a] \in Op
  BY DEF IInv, RegistryInv
<1>2. CASE inProgress[a] = None
  BY <1>2, ConstantsAssumption
     DEF IInv, RegistryInv, RegistryHasReleaser, cancelOperation
<1>3. CASE inProgress[a] \in Op
  <2> DEFINE o == inProgress[a]
  <2>1. ops' = [ops EXCEPT ![o].cancelled = TRUE] /\ o \in Op /\ o # None
    BY <1>3, ConstantsAssumption DEF cancelOperation
  <2>2. ops' \in [Op -> OpType0]
    <3>1. ops[o] \in OpType0 /\ ops \in [Op -> OpType0]
      BY <2>1 DEF IInv, RegistryInv
    <3>2. [ops[o] EXCEPT !.cancelled = TRUE] \in OpType0
      BY <3>1 DEF OpType0
    <3> QED
      BY <2>1, <3>1, <3>2
  <2>3. \A p \in Op : /\ ops'[p].phase = ops[p].phase /\ ops'[p].app = ops[p].app
                      /\ ops'[p].kind = ops[p].kind
    BY <2>1 DEF IInv, RegistryInv, OpType0
  <2> HIDE DEF o
  <2> QED
    BY <2>2, <2>3, ConstantsAssumption
       DEF IInv, RegistryInv, RegistryHasReleaser, cancelOperation
<1> QED
  BY <1>1, <1>2, <1>3

\* A slot that is free is not registered.
LEMMA registerLemma ==
    ASSUME IInv, NEW a \in App, NEW kind \in OpKind, register(a, kind)
    PROVE  RegistryInv'
<1>1. PICK o \in FreeOps :
        /\ inProgress' = [inProgress EXCEPT ![a] = o]
        /\ ops' = [ops EXCEPT ![o] = [FreeOp EXCEPT !.app = a, !.kind = kind, !.st = kind,
                                      !.body = "run", !.phase = "wait"]]
  BY DEF register
<1>2. o \in Op /\ ops[o] = FreeOp /\ ops[o].phase = "free"
  BY DEF FreeOps, FreeOp
<1>3. o # None /\ \A b \in App : inProgress[b] # o
  BY <1>2, ConstantsAssumption DEF IInv, RegistryInv, RegistryHasReleaser
<1>4. ops'[o] = [app |-> a, kind |-> kind, st |-> kind, late |-> FALSE, body |-> "run",
                 cancelled |-> FALSE, fin |-> NoState, phase |-> "wait"]
  BY <1>1, <1>2 DEF FreeOp, IInv, RegistryInv
<1>5. ops'[o] \in OpType0
  BY <1>4, WritableSets DEF OpType0
<1>6. \A p \in Op : p # o => ops'[p] = ops[p]
  BY <1>1, <1>2 DEF IInv, RegistryInv
<1>7. ops' \in [Op -> OpType0]
  BY <1>1, <1>5, <1>6 DEF IInv, RegistryInv
<1>8. inProgress' \in [App -> Op \cup {None}] /\ inProgress'[a] = o
      /\ \A b \in App : b # a => inProgress'[b] = inProgress[b]
  BY <1>1, <1>2 DEF IInv, RegistryInv
<1>9. \A p \in Op : ops'[p].phase # "free" => ops'[p].app \in App /\ ops'[p].kind \in OpKind
  BY <1>4, <1>6 DEF IInv, RegistryInv
<1>10. RegistryHasReleaser'
  BY <1>3, <1>4, <1>6, <1>8 DEF IInv, RegistryInv, RegistryHasReleaser
<1> QED
  BY <1>7, <1>8, <1>9, <1>10 DEF RegistryInv

\* One operation changes, and entries are at most removed.
LEMMA OperationChange ==
    ASSUME IInv, NEW o \in Op, NEW r \in OpType0, ops' = [ops EXCEPT ![o] = r],
           r.phase # "free" => r.app \in App /\ r.kind \in OpKind,
           inProgress' \in [App -> Op \cup {None}],
           \A b \in App : inProgress'[b] # None => inProgress'[b] = inProgress[b],
           \A b \in App : inProgress'[b] = o => r.phase = "wait" /\ r.app = b
    PROVE  RegistryInv'
<1>1. /\ ops' \in [Op -> OpType0] /\ ops'[o] = r
      /\ \A p \in Op : p # o => ops'[p] = ops[p]
  BY DEF IInv, RegistryInv
<1>2. \A p \in Op : ops'[p].phase # "free" => ops'[p].app \in App /\ ops'[p].kind \in OpKind
  BY <1>1 DEF IInv, RegistryInv
<1>3. RegistryHasReleaser'
  <2> SUFFICES ASSUME NEW b \in App, inProgress'[b] # None
               PROVE  ops'[inProgress'[b]].app = b /\ ops'[inProgress'[b]].phase = "wait"
    BY DEF RegistryHasReleaser
  <2>1. inProgress'[b] = inProgress[b] /\ inProgress[b] \in Op
    BY DEF IInv, RegistryInv
  <2>2. CASE inProgress'[b] = o
    BY <1>1, <2>2
  <2>3. CASE inProgress'[b] # o
    BY <1>1, <2>1, <2>3 DEF IInv, RegistryInv, RegistryHasReleaser
  <2> QED
    BY <2>2, <2>3
<1> QED
  BY <1>1, <1>2, <1>3 DEF RegistryInv

LEMMA RegistryUnchanged ==
    ASSUME IInv, UNCHANGED <<inProgress, ops>>
    PROVE  RegistryInv'
BY DEF IInv, RegistryInv, RegistryHasReleaser

\* One reconciler changes.
LEMMA WorkerChange ==
    ASSUME IInv, NEW w \in Worker,
           NEW r \in [pc : WorkerPC, app : App \cup {None}, kind : PossibleStates,
                      obj : Op \cup {None}, target : Writable],
           wk' = [wk EXCEPT ![w] = r],
           r.pc # "idle" => r.app \in App,
           r.pc = "poll" => r.kind \in PolledStates,
           r.pc = "cleanup" => r.obj \in Op
    PROVE  /\ WorkersInv' /\ wk'[w] = r
           /\ \A x \in Worker : x # w => wk'[x] = wk[x]
BY DEF IInv, WorkersInv

LEMMA ReturnLemma ==
    ASSUME IInv, NEW w \in Worker, Return(w)
    PROVE  /\ WorkersInv'
           /\ \A x \in Worker : x # w => wk'[x] = wk[x]
<1>1. IdleWorker \in [pc : WorkerPC, app : App \cup {None}, kind : PossibleStates,
                      obj : Op \cup {None}, target : Writable]
  BY WritableSets DEF IdleWorker, WorkerPC
<1> QED
  BY <1>1, WorkerChange DEF Return, IdleWorker

LEMMA BecomeLemma ==
    ASSUME IInv, NEW w \in Worker, NEW a \in App, NEW pc \in WorkerPC,
           NEW kind \in PossibleStates, NEW obj \in Op \cup {None}, NEW target \in Writable,
           Become(w, a, pc, kind, obj, target),
           pc = "poll" => kind \in PolledStates,
           pc = "cleanup" => obj \in Op
    PROVE  /\ WorkersInv'
           /\ wk'[w].pc = pc /\ wk'[w].kind = kind /\ wk'[w].app = a
           /\ \A x \in Worker : x # w => wk'[x] = wk[x]
<1> DEFINE r == [pc |-> pc, app |-> a, kind |-> kind, obj |-> obj, target |-> target]
<1>1. r \in [pc : WorkerPC, app : App \cup {None}, kind : PossibleStates,
             obj : Op \cup {None}, target : Writable]
  OBVIOUS
<1>2. wk' = [wk EXCEPT ![w] = r]
  BY DEF Become
<1>3. r.pc = pc /\ r.app = a /\ r.kind = kind /\ r.obj = obj
  OBVIOUS
<1> HIDE DEF r
<1>4. /\ WorkersInv' /\ wk'[w] = r
      /\ \A x \in Worker : x # w => wk'[x] = wk[x]
  BY <1>1, <1>2, <1>3, WorkerChange
<1> QED
  BY <1>3, <1>4

\* Taking up an application: the reconciler was idle, hence held no copy.
LEMMA TakeLemma ==
    ASSUME IInv, NEW w \in Worker, NEW a \in App, Take(w, a)
    PROVE  /\ queue' \subseteq App
           /\ sweeps' \in 0 .. MaxSweeps
           /\ w \notin fresh
           /\ Cached(a).state \in LoadedStates /\ Cached(a).state \in PossibleStates
<1>1. Cached(a) \in PossibleVersion
  BY VersionTypes DEF IInv
<1>2. wk[w].pc = "idle" /\ w \notin fresh
  BY FreshWorker DEF Take
<1>3. queue' \subseteq App /\ sweeps' \in 0 .. MaxSweeps
  BY ConstantsAssumption DEF IInv, RestInv, Take
<1> QED
  BY <1>1, <1>2, <1>3 DEF Take, PossibleVersion

LEMMA RemoveLemma ==
    ASSUME IInv, NEW a \in App, Remove(a)
    PROVE  app' \in [App -> {"absent", "present", "deleting"}]
BY DEF IInv, RestInv, Remove

-----------------------------------------------------------------------------
(***************************************************************************)
(* The reconcilers keep the invariant.                                     *)
(***************************************************************************)
\* What a step that neither writes the status nor freshens a copy has to keep.
LEMMA Frame ==
    ASSUME IInv, UNCHANGED versions, fresh' \subseteq fresh, WorkersInv', RegistryInv',
           RequestsInv', RestInv', \A x \in fresh' : wk'[x] = wk[x]
    PROVE  IInv' /\ DownloadStep
<1>1. VersionsInv' /\ DownloadStep /\ \A a \in App : Stored(a)' = Stored(a)
  BY VersionsUnchanged
<1>2. \A x \in fresh' : wk[x].app \in App
  BY FreshWorker
<1>3. FreshInv'
  BY <1>1, <1>2, FreshKept
<1> QED
  BY <1>1, <1>3 DEF IInv

LEMMA RequestsUnchanged ==
    ASSUME IInv, UNCHANGED req
    PROVE  RequestsInv'
BY DEF IInv, RequestsInv

LEMMA FaultLemma ==
    ASSUME IInv, Fault
    PROVE  faults' \in 0 .. MaxFaults
BY ConstantsAssumption DEF IInv, RestInv, Fault

LEMMA LoadFrame ==
    ASSUME IInv, NEW w \in Worker, NEW a \in App, Take(w, a), UNCHANGED <<versions, fresh>>,
           WorkersInv', \A x \in Worker : x # w => wk'[x] = wk[x],
           RegistryInv', UNCHANGED <<req, requests>>, im' \subseteq App,
           app' \in [App -> {"absent", "present", "deleting"}],
           faults' \in 0 .. MaxFaults
    PROVE  IInv' /\ DownloadStep
<1>1. queue' \subseteq App /\ sweeps' \in 0 .. MaxSweeps /\ w \notin fresh
  BY TakeLemma
<1>2. RestInv'
  BY <1>1 DEF IInv, RestInv
<1>3. fresh' \subseteq Worker /\ \A x \in fresh' : wk'[x] = wk[x]
  BY <1>1, FreshWorker
<1> QED
  BY <1>2, <1>3, Frame, RequestsUnchanged

LEMMA WorkersUnchanged ==
    ASSUME IInv, UNCHANGED wk
    PROVE  WorkersInv' /\ \A x \in Worker : wk'[x] = wk[x]
BY DEF IInv, WorkersInv

\* Loads that end in forceDeleteApp, in a clean-up or in nothing.
LEMMA LoadSteps ==
    ASSUME IInv, NEW w \in Worker, NEW a \in App,
           \/ LoadLeftOver(w, a) \/ LoadUnexpected(w, a) \/ LoadMismatch(w, a)
           \/ LoadInProgress(w, a) \/ LoadIdle(w, a)
    PROVE  IInv' /\ DownloadStep
<1> USE DEF IInv, RestInv
<1>1. CASE LoadLeftOver(w, a)
  <2>1. /\ Take(w, a) /\ Remove(a)
        /\ UNCHANGED <<versions, wk, fresh, inProgress, ops, req, im, requests, faults>>
    BY <1>1 DEF LoadLeftOver
  <2>2. app' \in [App -> {"absent", "present", "deleting"}] /\ WorkersInv' /\ RegistryInv'
    BY <2>1, RemoveLemma, WorkersUnchanged, RegistryUnchanged
  <2> QED
    BY <2>1, <2>2, LoadFrame
<1>2. CASE LoadUnexpected(w, a)
  <2>1. /\ Take(w, a) /\ Remove(a)
        /\ Become(w, a, "write", Cached(a).state, None, "uninstalled")
        /\ UNCHANGED <<versions, fresh, inProgress, ops, req, im, requests, faults>>
    BY <1>2 DEF LoadUnexpected
  <2>2. WorkersInv' /\ \A x \in Worker : x # w => wk'[x] = wk[x]
    BY <2>1, TakeLemma, WritableSets, BecomeLemma DEF WorkerPC
  <2>3. app' \in [App -> {"absent", "present", "deleting"}] /\ RegistryInv'
    BY <2>1, RemoveLemma, RegistryUnchanged
  <2> QED
    BY <2>1, <2>2, <2>3, LoadFrame
<1>3. CASE LoadMismatch(w, a)
  <2>1. /\ Take(w, a) /\ inProgress[a] # None
        /\ Become(w, a, "cleanup", Cached(a).state, inProgress[a], NoState)
        /\ UNCHANGED <<versions, fresh, inProgress, ops, req, im, app, requests, faults>>
    BY <1>3 DEF LoadMismatch, Mismatch
  <2>2. inProgress[a] \in Op
    BY <2>1 DEF RegistryInv
  <2>3. WorkersInv' /\ \A x \in Worker : x # w => wk'[x] = wk[x]
    BY <2>1, <2>2, TakeLemma, WritableSets, BecomeLemma DEF WorkerPC
  <2> QED
    BY <2>1, <2>3, LoadFrame, RegistryUnchanged
<1>4. CASE LoadInProgress(w, a) \/ LoadIdle(w, a)
  <2>1. /\ Take(w, a)
        /\ UNCHANGED <<versions, wk, fresh, inProgress, ops, req, im, app, requests, faults>>
    BY <1>4 DEF LoadInProgress, LoadIdle, New
  <2> QED
    BY <2>1, LoadFrame, WorkersUnchanged, RegistryUnchanged
<1> QED
  BY <1>1, <1>2, <1>3, <1>4

\* A new object of pending or of a watched state: its copy is fresh when the
\* cache is not behind.
LEMMA LoadNewStep ==
    ASSUME IInv, NEW w \in Worker, NEW a \in App, LoadNew(w, a)
    PROVE  IInv' /\ DownloadStep
<1>1. /\ Take(w, a)
      /\ Become(w, a, "exec", Cached(a).state, None, NoState)
      /\ fresh' = IF Len(versions[a]) = 1 THEN fresh \cup {w} ELSE fresh
      /\ UNCHANGED <<versions, inProgress, ops, req, im, app, requests, faults>>
  BY DEF LoadNew, New
<1>2. /\ queue' \subseteq App /\ sweeps' \in 0 .. MaxSweeps
      /\ w \notin fresh /\ Cached(a).state \in PossibleStates
  BY <1>1, TakeLemma
<1>3. /\ WorkersInv'
      /\ wk'[w].pc = "exec" /\ wk'[w].kind = Cached(a).state /\ wk'[w].app = a
      /\ \A x \in Worker : x # w => wk'[x] = wk[x]
  BY <1>1, <1>2, WritableSets, BecomeLemma DEF WorkerPC
<1>4. /\ VersionsInv' /\ DownloadStep
      /\ \A b \in App : Stored(b)' = Stored(b)
  BY <1>1, VersionsUnchanged
<1>5. Len(versions[a]) = 1 => Cached(a) = Stored(a)
  <2>1. versions[a] \in Seq(PossibleVersion) /\ Len(versions[a]) \in 1 .. MaxLag + 1
    BY DEF IInv, VersionsInv
  <2> QED
    BY <2>1 DEF Cached, Stored
<1>6. \A x \in fresh : /\ x \in Worker /\ x # w /\ wk[x].app \in App
                       /\ wk[x].pc = "exec" /\ wk[x].kind = Stored(wk[x].app).state
  BY <1>2, FreshWorker DEF IInv, FreshInv
<1>7. FreshInv'
  <2> SUFFICES ASSUME NEW x \in fresh'
               PROVE  /\ x \in Worker /\ wk'[x].pc = "exec"
                      /\ wk'[x].kind =
                           versions'[wk'[x].app][Len(versions'[wk'[x].app])].state
    BY DEF FreshInv, Stored
  <2>1. CASE x \in fresh
    BY <1>1, <1>3, <1>6, <2>1 DEF Stored
  <2>2. CASE x = w /\ Len(versions[a]) = 1
    BY <1>1, <1>3, <1>5, <2>2 DEF Stored
  <2> QED
    BY <1>1, <2>1, <2>2
<1>8. RegistryInv' /\ RequestsInv'
  BY <1>1, RegistryUnchanged, RequestsUnchanged
<1>9. RestInv'
  BY <1>1, <1>2 DEF IInv, RestInv
<1> QED
  BY <1>3, <1>4, <1>7, <1>8, <1>9 DEF IInv

\* Cancel of a timed-out object.
LEMMA CancelStep ==
    ASSUME IInv, NEW w \in Worker, NEW a \in App, Cancel(w, a)
    PROVE  IInv' /\ DownloadStep
<1> DEFINE old == Returned(a) /\ ops[inProgress[a]].late
           kind == IF old THEN ops[inProgress[a]].kind ELSE Cached(a).state
<1>1. /\ Take(w, a)
      /\ old \/ (Cached(a).state \in TimedStates)
      /\ IF kind \in CancelOnTimeout THEN cancelOperation(a) ELSE UNCHANGED <<inProgress, ops>>
      /\ \/ UNCHANGED wk
         \/ Become(w, a, "write", kind, IF old THEN inProgress[a] ELSE None, TimeoutState(kind))
      /\ UNCHANGED <<versions, fresh, req, im, app, requests, faults>>
  BY DEF Cancel, New
<1>2. old => inProgress[a] \in Op /\ ops[inProgress[a]].kind \in OpKind
  BY DEF Returned, Registered, IInv, RegistryInv, RegistryHasReleaser
<1>3. Cached(a).state \in PossibleStates
  BY <1>1, TakeLemma
<1>4. kind \in PossibleStates /\ TimeoutState(kind) \in Writable
  BY <1>1, <1>2, <1>3, WritableSets, WritableTargets
<1>5. (IF old THEN inProgress[a] ELSE None) \in Op \cup {None}
  BY <1>2
<1> HIDE DEF old, kind
<1>6. WorkersInv' /\ \A x \in Worker : x # w => wk'[x] = wk[x]
  <2>1. CASE UNCHANGED wk
    BY <2>1, WorkersUnchanged
  <2>2. CASE Become(w, a, "write", kind, IF old THEN inProgress[a] ELSE None, TimeoutState(kind))
    BY <1>4, <1>5, <2>2, BecomeLemma DEF WorkerPC
  <2> QED
    BY <1>1, <2>1, <2>2
<1>7. RegistryInv'
  BY <1>1, cancelOperationLemma, RegistryUnchanged
<1>8. im' \subseteq App /\ app' \in [App -> {"absent", "present", "deleting"}]
      /\ faults' \in 0 .. MaxFaults
  BY <1>1 DEF IInv, RestInv
<1> QED
  BY <1>1, <1>6, <1>7, <1>8, LoadFrame

\* The polled states: their synchronous part, and its failure.
LEMMA ExecPolledStep ==
    ASSUME IInv, NEW w \in Worker, NEW a \in App,
           ExecPolled(w, a) \/ ExecPolledFails(w, a)
    PROVE  IInv' /\ DownloadStep
<1> DEFINE kind == Cached(a).state
<1>1. /\ Take(w, a) /\ kind \in PolledStates
      /\ cancelOperation(a) \/ UNCHANGED <<inProgress, ops>>
      /\ \/ Become(w, a, "poll", kind, None, NoState)
         \/ Become(w, a, "write", kind, None, ExecFailedState(kind))
      /\ im' = im \/ im' = im \cup {a}
      /\ Remove(a) \/ UNCHANGED app
      /\ Fault \/ UNCHANGED faults
      /\ UNCHANGED <<versions, fresh, req, requests>>
  BY DEF ExecPolled, ExecPolledFails, New
<1>2. kind \in PossibleStates
  BY <1>1, TakeLemma
<1>3. WorkersInv' /\ \A x \in Worker : x # w => wk'[x] = wk[x]
  <2>1. CASE Become(w, a, "poll", kind, None, NoState)
    BY <1>1, <1>2, <2>1, BecomeLemma, WritableSets DEF WorkerPC
  <2>2. CASE Become(w, a, "write", kind, None, ExecFailedState(kind))
    BY <1>1, <1>2, <2>2, BecomeLemma, WritableTargets DEF WorkerPC
  <2> QED
    BY <1>1, <2>1, <2>2
<1>4. RegistryInv'
  BY <1>1, cancelOperationLemma, RegistryUnchanged
<1>5. im' \subseteq App /\ app' \in [App -> {"absent", "present", "deleting"}]
  BY <1>1, RemoveLemma DEF IInv, RestInv
<1>6. faults' \in 0 .. MaxFaults
  BY <1>1, FaultLemma DEF IInv, RestInv
<1> QED
  BY <1>1, <1>3, <1>4, <1>5, <1>6, LoadFrame

\* The other states whose Exec follows from the load.
LEMMA ExecSteps ==
    ASSUME IInv, NEW w \in Worker, NEW a \in App,
           \/ ExecCanceling(w, a) \/ ExecStopping(w, a)
           \/ ExecInstallFailed(w, a) \/ forceDeleteApp(w, a)
    PROVE  IInv' /\ DownloadStep
<1> DEFINE kind == Cached(a).state
<1>1. /\ Take(w, a)
      /\ cancelOperation(a) \/ UNCHANGED <<inProgress, ops>>
      /\ \/ UNCHANGED wk
         \/ Become(w, a, "retry", kind, None, NoState)
         \/ kind \in CancelingStates /\ Become(w, a, "write", kind, None, CanceledState(kind))
         \/ Become(w, a, "write", "stopping", None, "stopped")
         \/ Become(w, a, "write", "stopping", None, "stopFailed")
         \/ Become(w, a, "write", kind, None, "uninstalled")
      /\ Remove(a) \/ UNCHANGED app
      /\ Fault \/ UNCHANGED faults
      /\ UNCHANGED <<versions, fresh, req, im, requests>>
  BY DEF ExecCanceling, ExecStopping, ExecInstallFailed, forceDeleteApp, New
<1>2. kind \in PossibleStates
  BY <1>1, TakeLemma
<1>3. WorkersInv' /\ \A x \in Worker : x # w => wk'[x] = wk[x]
  <2>1. {"retry", "write"} \subseteq WorkerPC
    BY DEF WorkerPC
  <2>2. CASE UNCHANGED wk
    BY <2>2, WorkersUnchanged
  <2>3. CASE Become(w, a, "retry", kind, None, NoState)
    BY <1>2, <2>1, <2>3, BecomeLemma, WritableSets
  <2>4. CASE kind \in CancelingStates /\ Become(w, a, "write", kind, None, CanceledState(kind))
    BY <1>2, <2>1, <2>4, BecomeLemma, WritableTargets
  <2>5. CASE \/ Become(w, a, "write", "stopping", None, "stopped")
             \/ Become(w, a, "write", "stopping", None, "stopFailed")
    BY <2>1, <2>5, BecomeLemma, WritableSets
  <2>6. CASE Become(w, a, "write", kind, None, "uninstalled")
    BY ZenonT(40), <1>2, <2>1, <2>6, BecomeLemma, WritableSets
  <2> QED
    BY <1>1, <2>2, <2>3, <2>4, <2>5, <2>6
<1>4. RegistryInv'
  BY <1>1, cancelOperationLemma, RegistryUnchanged
<1>5. im' \subseteq App /\ app' \in [App -> {"absent", "present", "deleting"}]
  BY <1>1, RemoveLemma DEF IInv, RestInv
<1>6. faults' \in 0 .. MaxFaults
  BY <1>1, FaultLemma DEF IInv, RestInv
<1> QED
  BY <1>1, <1>3, <1>4, <1>5, <1>6, LoadFrame

\* The same for a step that writes the status of one application.
LEMMA StatusFrame ==
    ASSUME IInv, NEW a \in App, NEW s \in Writable,
           updateStatus(a, s) \/ UpdateAppMgrStatus(a, s),
           WorkersInv', RegistryInv', RequestsInv', RestInv',
           \A x \in Worker : wk[x].app # a => wk'[x] = wk[x]
    PROVE  IInv' /\ DownloadStep
<1>1. /\ VersionsInv' /\ DownloadStep
      /\ \A b \in App : b # a => Stored(b)' = Stored(b)
      /\ fresh' = {w \in fresh : wk[w].app # a}
  BY updateStatusLemma
<1>2. \A x \in fresh' : x \in Worker /\ wk[x].app \in App /\ wk[x].app # a
  BY <1>1, FreshWorker
<1>3. FreshInv'
  BY <1>1, <1>2, FreshKept
<1> QED
  BY <1>1, <1>3 DEF IInv

LEMMA RequeueLemma ==
    ASSUME IInv, NEW w \in Worker, NEW a \in App
    PROVE  Requeue(w, a) \subseteq App
BY DEF IInv, RestInv, Requeue

\* Cleaning up a mismatch.
LEMMA CleanUpStep ==
    ASSUME IInv, NEW w \in Worker, CleanUp(w)
    PROVE  IInv' /\ DownloadStep
<1>1. /\ wk[w].pc = "cleanup" /\ Return(w)
      /\ UNCHANGED <<versions, fresh, req, im, app, requests, faults, sweeps>>
  BY DEF CleanUp
<1>2. PICK a \in App, o \in Op : a = wk[w].app /\ o = wk[w].obj
  BY <1>1 DEF IInv, WorkersInv
<1>3. w \notin fresh
  BY <1>1, FreshWorker
<1>4. /\ ops' = [ops EXCEPT ![o].cancelled = ops[o] # FreeOp]
      /\ inProgress' = [inProgress EXCEPT ![a] = None]
      /\ queue' = Requeue(w, a)
  BY <1>2 DEF CleanUp
<1>5. ops[o] \in OpType0
  BY <1>2 DEF IInv, RegistryInv
<1>6. PICK r : r = [ops[o] EXCEPT !.cancelled = ops[o] # FreeOp]
  OBVIOUS
<1>7. r \in OpType0 /\ r.phase = ops[o].phase /\ r.app = ops[o].app /\ r.kind = ops[o].kind
  BY <1>5, <1>6 DEF OpType0
<1>8. /\ r.phase # "free" => r.app \in App /\ r.kind \in OpKind
      /\ \A b \in App : inProgress[b] = o => r.phase = "wait" /\ r.app = b
  BY <1>2, <1>7, ConstantsAssumption DEF IInv, RegistryInv, RegistryHasReleaser
<1>9. /\ inProgress' \in [App -> Op \cup {None}]
      /\ \A b \in App : inProgress'[b] # None => inProgress'[b] = inProgress[b]
      /\ \A b \in App : inProgress'[b] = o => inProgress[b] = o
  BY <1>2, <1>4, ConstantsAssumption DEF IInv, RegistryInv
<1>10. ops' = [ops EXCEPT ![o] = r]
  BY <1>4, <1>6
<1>11. RegistryInv'
  BY <1>2, <1>7, <1>8, <1>9, <1>10, OperationChange
<1>12. RestInv'
  BY <1>1, <1>2, <1>4, RequeueLemma DEF IInv, RestInv
<1>13. WorkersInv' /\ \A x \in fresh' : wk'[x] = wk[x]
  BY <1>1, <1>3, ReturnLemma, FreshWorker
<1> QED
  BY <1>1, <1>11, <1>12, <1>13, Frame, RequestsUnchanged

\* PendingApp.Exec starts the download only when the stored state is still the
\* pending that the reconciler has read.
LEMMA ExecPendingStep ==
    ASSUME IInv, NEW w \in Worker, ExecPending(w)
    PROVE  IInv' /\ DownloadStep
<1>1. PICK a \in App : a = wk[w].app
  BY DEF ExecPending, Executes, IInv, WorkersInv
<1>2. /\ wk[w].pc = "exec" /\ wk[w].kind = "pending" /\ Return(w)
      /\ UNCHANGED <<inProgress, ops, req, im, app, requests, faults, sweeps>>
      /\ \/ w \in fresh /\ UpdateAppMgrStatus(a, "downloading") /\ UNCHANGED queue
         \/ queue' = Requeue(w, a) /\ fresh' = fresh \ {w} /\ UNCHANGED versions
  BY <1>1 DEF ExecPending, Executes
<1>3. WorkersInv' /\ \A x \in Worker : x # w => wk'[x] = wk[x]
  BY <1>2, ReturnLemma
<1>4. RegistryInv' /\ RequestsInv'
  BY <1>2, RegistryUnchanged, RequestsUnchanged
<1>5. RestInv'
  BY <1>2, RequeueLemma DEF IInv, RestInv
<1>6. CASE queue' = Requeue(w, a) /\ fresh' = fresh \ {w} /\ UNCHANGED versions
  BY <1>3, <1>4, <1>5, <1>6, Frame, FreshWorker
<1>7. CASE w \in fresh /\ UpdateAppMgrStatus(a, "downloading")
  <2> DEFINE v == [state |-> "downloading", gen |-> Stored(a).gen + 1, late |-> FALSE]
  <2>1. Stored(a).state = "pending"
    BY <1>1, <1>2, <1>7 DEF IInv, FreshInv
  <2>2. v \in PossibleVersion /\ v.state = "downloading"
    BY VersionTypes, WritableSets DEF IInv, PossibleVersion
  <2>3. PICK u \in PossibleVersion : Store(a, u) /\ u.state = "downloading"
    BY <1>7, <2>2 DEF UpdateAppMgrStatus, NoState
  <2>4. /\ VersionsInv' /\ Stored(a)' = u
        /\ \A b \in App : b # a => Stored(b)' = Stored(b)
        /\ fresh' = {x \in fresh : wk[x].app # a}
    BY <2>3, StoreLemma
  <2>5. DownloadStep
    BY <2>1, <2>4 DEF DownloadStep
  <2>6. \A x \in fresh' : x \in Worker /\ x # w /\ wk[x].app \in App /\ wk[x].app # a
    BY <1>1, <2>4, FreshWorker
  <2>7. FreshInv'
    BY <1>3, <2>4, <2>6, FreshKept
  <2> QED
    BY <1>3, <1>4, <1>5, <2>4, <2>5, <2>7 DEF IInv
<1> QED
  BY <1>2, <1>6, <1>7

\* Registering an operation, and giving up until the next reconciliation.
LEMMA RegisterSteps ==
    ASSUME IInv, NEW w \in Worker, ExecWatched(w) \/ WaitAsync(w) \/ Retry(w)
    PROVE  IInv' /\ DownloadStep
<1>1. wk[w].pc \in {"exec", "poll", "retry"} /\ Return(w)
      /\ UNCHANGED <<versions, req, im, app, requests, sweeps>>
  BY DEF ExecWatched, WaitAsync, Retry, Executes
<1>2. PICK a \in App : a = wk[w].app
  BY <1>1 DEF IInv, WorkersInv
<1>3. PICK kind \in PossibleStates : kind = wk[w].kind
  BY DEF IInv, WorkersInv
<1>4. UNCHANGED <<inProgress, ops>> \/ (kind \in OpKind /\ register(a, kind))
  BY <1>2, <1>3, WritableSets DEF ExecWatched, WaitAsync, Retry, Executes, IInv, WorkersInv
<1>5. RegistryInv'
  BY <1>4, registerLemma, RegistryUnchanged
<1>6. fresh' \subseteq fresh /\ w \notin fresh'
  BY <1>1, FreshWorker DEF ExecWatched, WaitAsync, Retry
<1>7. queue' \in {queue, Requeue(w, a)}
  BY <1>2 DEF ExecWatched, WaitAsync, Retry
<1>8. UNCHANGED faults \/ Fault
  BY DEF ExecWatched, WaitAsync, Retry
<1>9. faults' \in 0 .. MaxFaults
  BY <1>8, FaultLemma DEF IInv, RestInv
<1>10. RestInv'
  BY <1>1, <1>7, <1>9, RequeueLemma DEF IInv, RestInv
<1>11. WorkersInv' /\ \A x \in fresh' : wk'[x] = wk[x]
  BY <1>1, <1>6, ReturnLemma, FreshWorker
<1> QED
  BY <1>1, <1>5, <1>6, <1>10, <1>11, Frame, RequestsUnchanged

\* Re-reading the object that a registered operation holds.
LEMMA RereadLemma ==
    ASSUME IInv, NEW w \in Worker, wk[w].app \in App, Reread(w), UNCHANGED inProgress
    PROVE  RegistryInv'
<1>1. PICK a \in App, o \in Op \cup {None} : a = wk[w].app /\ o = wk[w].obj
  BY DEF IInv, WorkersInv
<1>2. CASE o # None /\ inProgress[a] = o
  <2>1. PICK v \in PossibleVersion : v = Cached(a)
    BY VersionTypes DEF IInv
  <2>2. o \in Op /\ ops[o] \in OpType0
    BY <1>2 DEF IInv, RegistryInv
  <2>3. PICK r : r = [ops[o] EXCEPT !.st = v.state, !.late = v.late]
    OBVIOUS
  <2>4. ops' = [ops EXCEPT ![o] = r]
    <3>1. ops' = [ops EXCEPT ![o].st = v.state, ![o].late = v.late]
      BY <1>1, <1>2, <2>1 DEF Reread
    <3>2. ops \in [Op -> OpType0]
      BY DEF IInv, RegistryInv
    <3>3. ops'[o] = r /\ \A p \in Op : p # o => ops'[p] = ops[p]
      BY <2>2, <2>3, <3>1, <3>2 DEF OpType0
    <3>4. ops' = [p \in Op |-> ops'[p]]
      BY <3>1, <3>2
    <3> QED
      BY <2>2, <3>2, <3>3, <3>4
  <2>5. r \in OpType0 /\ r.phase = ops[o].phase /\ r.app = ops[o].app /\ r.kind = ops[o].kind
    BY <2>1, <2>2, <2>3 DEF OpType0, PossibleVersion
  <2>6. /\ r.phase # "free" => r.app \in App /\ r.kind \in OpKind
        /\ \A b \in App : inProgress[b] = o => r.phase = "wait" /\ r.app = b
    BY <2>2, <2>5, ConstantsAssumption DEF IInv, RegistryInv, RegistryHasReleaser
  <2>7. inProgress' \in [App -> Op \cup {None}] /\ \A b \in App : inProgress'[b] = inProgress[b]
    BY DEF IInv, RegistryInv
  <2>8. \A b \in App : inProgress'[b] = o => r.phase = "wait" /\ r.app = b
    BY <2>6, <2>7
  <2>9. o \in Op /\ r \in OpType0 /\ (r.phase # "free" => r.app \in App /\ r.kind \in OpKind)
    BY <2>2, <2>5, <2>6
  <2>10. /\ inProgress' \in [App -> Op \cup {None}]
         /\ \A b \in App : inProgress'[b] # None => inProgress'[b] = inProgress[b]
    BY <2>7
  <2> QED
    BY ONLY IInv, <2>4, <2>8, <2>9, <2>10, OperationChange
<1>3. CASE ~(o # None /\ inProgress[a] = o)
  BY <1>1, <1>3, RegistryUnchanged DEF Reread
<1> QED
  BY <1>2, <1>3

\* The reconciler writes the state it has chosen.
LEMMA WriteStep ==
    ASSUME IInv, NEW w \in Worker, Write(w)
    PROVE  IInv' /\ DownloadStep
<1>1. /\ wk[w].pc = "write" /\ Return(w) /\ Reread(w)
      /\ UNCHANGED <<queue, inProgress, req, im, app, requests, faults, sweeps>>
  BY DEF Write
<1>2. PICK a \in App, s \in Writable : a = wk[w].app /\ s = wk[w].target
  BY <1>1 DEF IInv, WorkersInv
<1>3. updateStatus(a, s)
  BY <1>2 DEF Write
<1>4. WorkersInv' /\ \A x \in Worker : wk[x].app # a => wk'[x] = wk[x]
  BY <1>1, <1>2, ReturnLemma
<1>5. RegistryInv' /\ RequestsInv'
  BY <1>1, <1>2, RereadLemma, RequestsUnchanged
<1>6. RestInv'
  BY <1>1 DEF IInv, RestInv
<1> QED
  BY <1>3, <1>4, <1>5, <1>6, StatusFrame

\* The write fails.
LEMMA WriteFailsStep ==
    ASSUME IInv, NEW w \in Worker, WriteFails(w)
    PROVE  IInv' /\ DownloadStep
<1>1. /\ wk[w].pc = "write" /\ Fault /\ Reread(w)
      /\ UNCHANGED <<versions, fresh, inProgress, req, im, app, requests, sweeps>>
  BY DEF WriteFails
<1>2. PICK a \in App : a = wk[w].app
  BY <1>1 DEF IInv, WorkersInv
<1>3. \/ Return(w) /\ queue' = Requeue(w, a)
      \/ wk' = [wk EXCEPT ![w].target = "applyingEnvCancelFailed"] /\ UNCHANGED queue
  BY <1>2 DEF WriteFails
<1>4. w \notin fresh
  BY <1>1, FreshWorker
<1>5. WorkersInv' /\ \A x \in Worker : x # w => wk'[x] = wk[x]
  <2>1. CASE Return(w)
    BY <2>1, ReturnLemma
  <2>2. CASE wk' = [wk EXCEPT ![w].target = "applyingEnvCancelFailed"]
    <3>1. PICK r : r = [wk[w] EXCEPT !.target = "applyingEnvCancelFailed"]
      OBVIOUS
    <3>2. r \in [pc : WorkerPC, app : App \cup {None}, kind : PossibleStates,
                 obj : Op \cup {None}, target : Writable]
          /\ r.pc = "write" /\ r.app = a
      BY <1>1, <1>2, <3>1, WritableSets DEF IInv, WorkersInv
    <3>3. wk' = [wk EXCEPT ![w] = r]
      BY <2>2, <3>1 DEF IInv, WorkersInv
    <3> QED
      BY <3>2, <3>3, WorkerChange
  <2> QED
    BY <1>3, <2>1, <2>2
<1>6. RegistryInv' /\ RequestsInv'
  BY <1>1, <1>2, RereadLemma, RequestsUnchanged
<1>7. RestInv'
  BY <1>1, <1>3, FaultLemma, RequeueLemma DEF IInv, RestInv
<1> QED
  BY <1>1, <1>4, <1>5, <1>6, <1>7, Frame, FreshWorker

-----------------------------------------------------------------------------
(***************************************************************************)
(* The operations keep the invariant.                                      *)
(***************************************************************************)
\* An operation changes and is not freed while it is registered.
LEMMA OperationLemma ==
    ASSUME IInv, NEW o \in Op, NEW r \in OpType0, ops' = [ops EXCEPT ![o] = r],
           UNCHANGED inProgress,
           r.phase # "free" => r.app \in App /\ r.kind \in OpKind,
           ops[o].phase = "wait" => r.phase = "wait" /\ r.app = ops[o].app
    PROVE  RegistryInv'
<1>1. /\ inProgress' \in [App -> Op \cup {None}]
      /\ \A b \in App : inProgress'[b] # None => inProgress'[b] = inProgress[b]
  BY DEF IInv, RegistryInv
<1>2. \A b \in App : inProgress[b] = o => ops[o].phase = "wait" /\ ops[o].app = b
  BY ConstantsAssumption DEF IInv, RegistryInv, RegistryHasReleaser
<1>3. \A b \in App : inProgress'[b] = o => r.phase = "wait" /\ r.app = b
  BY <1>2
<1>4. /\ ops' = [ops EXCEPT ![o] = r]
      /\ r.phase # "free" => r.app \in App /\ r.kind \in OpKind
  OBVIOUS
<1> QED
  BY ONLY IInv, o \in Op, r \in OpType0, <1>1, <1>3, <1>4, OperationChange

\* An operation is freed only after its final status was written.
LEMMA SettledLemma ==
    ASSUME NEW r \in OpType0
    PROVE  /\ Settled(r) \in OpType0
           /\ Settled(r) # r => Settled(r).phase = "free" /\ r.phase = "done"
<1>1. FreeOp \in OpType0 /\ FreeOp.phase = "free"
  BY WritableSets DEF FreeOp, OpType0
<1> QED
  BY <1>1 DEF Settled

\* A goroutine leaves a state that may be written.
LEMMA FinalsWritable ==
    ASSUME IInv, NEW o \in Op, Running(o)
    PROVE  Finals(o) \subseteq Writable
<1> DEFINE all == Outcomes(ops[o].kind, ops[o].app \in Middleware, ops[o].cancelled)
<1>1. ops[o].kind \in OpKind /\ ops[o].cancelled \in BOOLEAN
  BY DEF Running, IInv, RegistryInv, OpType0
<1>2. all \subseteq Writable
  <2>1. (ops[o].app \in Middleware) \in BOOLEAN
    OBVIOUS
  <2> QED
    BY <1>1, <2>1, OutcomesWritable, Zenon
<1>3. {"running", "installingCanceling", "initializing", "installFailed"} \subseteq Writable
  BY WritableSets
<1> HIDE DEF all
<1>4. \/ Finals(o) \subseteq {"running", "installingCanceling"}
      \/ Finals(o) = {"initializing"} \/ Finals(o) = {"installFailed"}
      \/ Finals(o) = all \ {"initializing"}
      \/ Finals(o) = all \ {"uninstalled", "installingCanceled"}
      \/ Finals(o) = all
  BY DEF Finals, all
<1> QED
  BY <1>2, <1>3, <1>4

\* Helm at work: the Application or the ImageManager appears, or is removed.
LEMMA HelmSteps ==
    ASSUME IInv, NEW o \in Op, Deploy(o) \/ Uninstall(o)
    PROVE  IInv' /\ DownloadStep
<1>1. /\ UNCHANGED <<versions, queue, wk, fresh, inProgress, req, requests, faults, sweeps>>
      /\ ops' = [ops EXCEPT ![o].body = "applied"]
  BY DEF Deploy, Uninstall
<1>2. PICK a \in App : a = ops[o].app
  BY DEF Deploy, Uninstall, Running, IInv, RegistryInv
<1>3. \/ app' = [app EXCEPT ![a] = "present"] /\ UNCHANGED im
      \/ im' = im \cup {a} /\ UNCHANGED app
      \/ Remove(a) /\ UNCHANGED im
  BY <1>2 DEF Deploy, Uninstall
<1>4. app' \in [App -> {"absent", "present", "deleting"}] /\ im' \subseteq App
  BY <1>3, RemoveLemma DEF IInv, RestInv
<1>5. RestInv'
  BY <1>1, <1>4 DEF IInv, RestInv
<1>6. PICK r : r = [ops[o] EXCEPT !.body = "applied"] /\ ops' = [ops EXCEPT ![o] = r]
  BY <1>1
<1>7. ops[o] \in OpType0 /\ (ops[o].phase # "free" => ops[o].app \in App /\ ops[o].kind \in OpKind)
  BY DEF IInv, RegistryInv
<1>8. /\ r \in OpType0 /\ r.phase = ops[o].phase /\ r.app = ops[o].app
      /\ r.phase # "free" => r.app \in App /\ r.kind \in OpKind
  BY <1>6, <1>7 DEF OpType0
<1>9. RegistryInv'
  BY <1>1, <1>6, <1>8, OperationLemma
<1> QED
  BY <1>1, <1>5, <1>9, Frame, RequestsUnchanged, WorkersUnchanged

\* The pods run, and WaitForStartUp writes initializing.
LEMMA WaitForStartUpStep ==
    ASSUME IInv, NEW o \in Op, WaitForStartUp(o)
    PROVE  IInv' /\ DownloadStep
<1>1. UNCHANGED <<queue, wk, inProgress, req, im, app, requests, faults, sweeps>>
  BY DEF WaitForStartUp
<1>2. PICK a \in App : a = ops[o].app
  BY DEF WaitForStartUp, Running, IInv, RegistryInv
<1>3. /\ RequestsInv' /\ WorkersInv' /\ RestInv'
      /\ \A x \in Worker : wk'[x] = wk[x]
  BY <1>1, RequestsUnchanged, WorkersUnchanged DEF IInv, RestInv
<1>4. ops[o] \in OpType0 /\ ops \in [Op -> OpType0]
  BY DEF IInv, RegistryInv
<1>5. PICK r : /\ \/ r = [ops[o] EXCEPT !.body = "started", !.fin = "initializing"]
                  \/ r = [ops[o] EXCEPT !.body = "started"]
               /\ ops' = [ops EXCEPT ![o] = r]
  <2>1. CASE a \in Middleware
    <3>1. ops' = [ops EXCEPT ![o].body = "started", ![o].fin = "initializing"]
      BY <1>2, <2>1 DEF WaitForStartUp
    <3>2. PICK r : r = [ops[o] EXCEPT !.body = "started", !.fin = "initializing"]
      OBVIOUS
    <3>3. ops'[o] = r /\ \A p \in Op : p # o => ops'[p] = ops[p]
      BY <1>4, <3>1, <3>2 DEF OpType0
    <3>4. ops' = [p \in Op |-> ops'[p]]
      BY <1>4, <3>1
    <3>5. ops' = [ops EXCEPT ![o] = r]
      BY <1>4, <3>3, <3>4
    <3> QED
      BY <3>2, <3>5
  <2>2. CASE a \notin Middleware
    BY <1>2, <2>2 DEF WaitForStartUp
  <2> QED
    BY <2>1, <2>2
<1>6. /\ r \in OpType0 /\ r.phase = ops[o].phase
      /\ r.app = ops[o].app /\ r.kind = ops[o].kind
  BY ZenonT(40), <1>4, <1>5, WritableSets DEF OpType0
<1>7. RegistryInv'
  <2>1. r.phase # "free" => r.app \in App /\ r.kind \in OpKind
    BY <1>6 DEF IInv, RegistryInv
  <2> QED
    BY <1>1, <1>5, <1>6, <2>1, OperationLemma
<1>8. UNCHANGED <<versions, fresh>> \/ UpdateAppMgrStatus(a, "initializing")
  BY <1>2 DEF WaitForStartUp
<1>9. CASE UNCHANGED <<versions, fresh>>
  BY <1>3, <1>7, <1>9, Frame, FreshWorker
<1>10. CASE UpdateAppMgrStatus(a, "initializing")
  BY <1>3, <1>7, <1>10, StatusFrame, WritableSets
<1> QED
  BY <1>8, <1>9, <1>10

\* A settled operation takes the place of one that was neither free nor registered
\* without being in wait.
LEMMA SettleLemma ==
    ASSUME IInv, NEW o \in Op, NEW r \in OpType0, ops' = [ops EXCEPT ![o] = Settled(r)],
           UNCHANGED inProgress, ops[o].phase # "free",
           r.app = ops[o].app, r.kind = ops[o].kind,
           ops[o].phase = "wait" => r.phase = "wait"
    PROVE  RegistryInv'
<1>1. PICK q : q = Settled(r)
  OBVIOUS
<1>2. q \in OpType0 /\ (q # r => q.phase = "free" /\ r.phase = "done")
  BY <1>1, SettledLemma
<1>3. ops[o].app \in App /\ ops[o].kind \in OpKind
  BY DEF IInv, RegistryInv
<1>4. q.phase # "free" => q.app \in App /\ q.kind \in OpKind
  BY <1>2, <1>3
<1>5. ops[o].phase = "wait" => q.phase = "wait" /\ q.app = ops[o].app
  BY <1>2
<1>6. ops' = [ops EXCEPT ![o] = q] /\ UNCHANGED inProgress
  BY <1>1
<1> QED
  BY ONLY IInv, o \in Op, <1>2, <1>4, <1>5, <1>6, OperationLemma

\* The body ends.
LEMMA BodyEndStep ==
    ASSUME IInv, NEW o \in Op, BodyEnd(o)
    PROVE  IInv' /\ DownloadStep
<1>1. Running(o) /\ UNCHANGED <<versions, queue, wk, fresh, inProgress, req, im, requests,
                                faults, sweeps>>
  BY DEF BodyEnd
<1>2. PICK a \in App : a = ops[o].app
  BY <1>1 DEF Running, IInv, RegistryInv
<1>3. PICK fin \in Finals(o) :
        /\ ops' = [ops EXCEPT ![o] = Settled([@ EXCEPT !.body = "end", !.cancelled = TRUE,
                                                       !.fin = fin])]
        /\ Remove(a) \/ UNCHANGED app
  BY <1>2 DEF BodyEnd
<1>4. PICK r : r = [ops[o] EXCEPT !.body = "end", !.cancelled = TRUE, !.fin = fin]
  OBVIOUS
<1>5. ops[o] \in OpType0 /\ ops \in [Op -> OpType0]
  BY DEF IInv, RegistryInv
<1>6. fin \in Writable
  BY <1>1, <1>3, FinalsWritable
<1>7. /\ r \in OpType0 /\ r.app = ops[o].app /\ r.kind = ops[o].kind
      /\ r.phase = ops[o].phase
  BY <1>4, <1>5, <1>6 DEF OpType0
<1>8. ops' = [ops EXCEPT ![o] = Settled(r)]
  BY <1>3, <1>4, <1>5
<1>9. RegistryInv'
  BY <1>1, <1>7, <1>8, SettleLemma DEF Running
<1>10. app' \in [App -> {"absent", "present", "deleting"}]
  BY <1>3, RemoveLemma DEF IInv, RestInv
<1>11. RestInv'
  BY <1>1, <1>10 DEF IInv, RestInv
<1> QED
  BY <1>1, <1>9, <1>11, Frame, RequestsUnchanged, WorkersUnchanged

\* The registry entry goes first: whatever is registered under the name.
LEMMA ReleaseStep ==
    ASSUME IInv, NEW o \in Op, Release(o)
    PROVE  IInv' /\ DownloadStep
<1>1. /\ ops[o].phase = "wait"
      /\ UNCHANGED <<versions, queue, wk, fresh, req, im, app, requests, faults, sweeps>>
  BY DEF Release
<1>2. PICK a \in App : a = ops[o].app
  BY <1>1 DEF IInv, RegistryInv
<1>3. /\ inProgress' = [inProgress EXCEPT ![a] = None]
      /\ ops' = [ops EXCEPT ![o].phase = "released"]
  BY <1>2 DEF Release
<1>4. ops[o] \in OpType0 /\ ops[o].kind \in OpKind
  BY <1>1 DEF IInv, RegistryInv
<1>5. PICK r : r = [ops[o] EXCEPT !.phase = "released"]
  OBVIOUS
<1>6. r \in OpType0 /\ r.app \in App /\ r.kind \in OpKind
  BY <1>2, <1>4, <1>5 DEF OpType0
<1>7. ops' = [ops EXCEPT ![o] = r]
  BY <1>3, <1>5
<1>8. /\ inProgress' \in [App -> Op \cup {None}]
      /\ \A b \in App : inProgress'[b] # None => inProgress'[b] = inProgress[b]
  BY <1>3 DEF IInv, RegistryInv
<1>9. \A b \in App : inProgress'[b] # o
  <2>1. \A b \in App : inProgress[b] = o => b = a
    BY <1>2, ConstantsAssumption DEF IInv, RegistryInv, RegistryHasReleaser
  <2> QED
    BY <1>3, <2>1, ConstantsAssumption DEF IInv, RegistryInv
<1>10. RegistryInv'
  BY <1>6, <1>7, <1>8, <1>9, OperationChange
<1>11. RestInv'
  BY <1>1 DEF IInv, RestInv
<1> QED
  BY <1>1, <1>10, <1>11, Frame, RequestsUnchanged, WorkersUnchanged

\* ... then the final status is written, or that fails.
LEMMA FinallySteps ==
    ASSUME IInv, NEW o \in Op, Finally(o) \/ FinallyFails(o)
    PROVE  IInv' /\ DownloadStep
<1>1. /\ ops[o].phase = "released"
      /\ ops' = [ops EXCEPT ![o] = Settled([@ EXCEPT !.phase = "done"])]
      /\ UNCHANGED <<queue, wk, inProgress, req, im, app, requests, sweeps>>
      /\ Fault \/ UNCHANGED faults
  BY DEF Finally, FinallyFails
<1>2. PICK a \in App, s \in Writable : a = ops[o].app /\ s = ops[o].fin
  BY <1>1 DEF IInv, RegistryInv, OpType0
<1>3. PICK r : r = [ops[o] EXCEPT !.phase = "done"]
  OBVIOUS
<1>4. ops[o] \in OpType0 /\ ops \in [Op -> OpType0]
  BY DEF IInv, RegistryInv
<1>5. r \in OpType0 /\ r.app = ops[o].app /\ r.kind = ops[o].kind
  BY <1>3, <1>4 DEF OpType0
<1>6. ops' = [ops EXCEPT ![o] = Settled(r)]
  BY <1>1, <1>3, <1>4
<1>7. RegistryInv'
  BY <1>1, <1>5, <1>6, SettleLemma
<1>8. RestInv'
  BY <1>1, FaultLemma DEF IInv, RestInv
<1>9. WorkersInv' /\ RequestsInv' /\ \A x \in Worker : wk'[x] = wk[x]
  BY <1>1, WorkersUnchanged, RequestsUnchanged
<1>10. UNCHANGED <<versions, fresh>> \/ updateStatus(a, s)
  BY <1>2 DEF Finally, FinallyFails
<1>11. CASE UNCHANGED <<versions, fresh>>
  BY <1>7, <1>8, <1>9, <1>11, Frame, FreshWorker
<1>12. CASE updateStatus(a, s)
  BY <1>7, <1>8, <1>9, <1>12, StatusFrame
<1> QED
  BY <1>10, <1>11, <1>12

-----------------------------------------------------------------------------
(***************************************************************************)
(* The handlers and the cluster keep the invariant.                        *)
(***************************************************************************)
\* A request is accepted.
LEMMA AcceptStep ==
    ASSUME IInv, NEW h \in Handler, NEW op \in UserOps, NEW a \in App, Accept(h, op, a)
    PROVE  IInv' /\ DownloadStep
<1>1. /\ requests < MaxRequests /\ requests' = requests + 1
      /\ req' = [req EXCEPT ![h] = [app |-> a, target |-> RequestedState(op, Checked(a, op))]]
      /\ fresh' \subseteq fresh
      /\ UNCHANGED <<versions, queue, wk, inProgress, ops, im, app, faults, sweeps>>
  BY DEF Accept
<1>2. RequestedState(op, Checked(a, op)) \in Writable
  BY ConstantsAssumption, RequestWritable
<1>3. RequestsInv'
  BY <1>1, <1>2 DEF IInv, RequestsInv
<1>4. RestInv'
  BY <1>1, ConstantsAssumption DEF IInv, RestInv
<1>5. WorkersInv' /\ RegistryInv' /\ \A x \in fresh' : wk'[x] = wk[x]
  BY <1>1, WorkersUnchanged, RegistryUnchanged, FreshWorker
<1> QED
  BY <1>1, <1>3, <1>4, <1>5, Frame

\* The handler writes the state that it has accepted, or fails to.
LEMMA CommitSteps ==
    ASSUME IInv, NEW h \in Handler, Commit(h) \/ HandlerFails(h)
    PROVE  IInv' /\ DownloadStep
<1>1. /\ req[h] # NoRequest /\ req' = [req EXCEPT ![h] = NoRequest]
      /\ UNCHANGED <<queue, wk, inProgress, ops, im, app, requests, sweeps>>
      /\ Fault \/ UNCHANGED faults
  BY DEF Commit, HandlerFails
<1>2. PICK a \in App, s \in Writable : a = req[h].app /\ s = req[h].target
  BY <1>1 DEF IInv, RequestsInv
<1>3. RequestsInv'
  BY <1>1, WritableSets DEF IInv, RequestsInv, NoRequest
<1>4. RestInv'
  BY <1>1, FaultLemma DEF IInv, RestInv
<1>5. WorkersInv' /\ RegistryInv' /\ \A x \in Worker : wk'[x] = wk[x]
  BY <1>1, WorkersUnchanged, RegistryUnchanged
<1>6. UNCHANGED <<versions, fresh>> \/ UpdateAppMgrStatus(a, s)
  BY <1>2 DEF Commit, HandlerFails
<1>7. CASE UNCHANGED <<versions, fresh>>
  BY <1>3, <1>4, <1>5, <1>7, Frame, FreshWorker
<1>8. CASE UpdateAppMgrStatus(a, s)
  BY <1>3, <1>4, <1>5, <1>8, StatusFrame
<1> QED
  BY <1>6, <1>7, <1>8

\* Versions change, but not the states that are stored.
LEMMA SameStates ==
    ASSUME IInv, VersionsInv', \A b \in App : Stored(b)'.state = Stored(b).state,
           fresh' \subseteq fresh, \A x \in fresh' : wk'[x] = wk[x]
    PROVE  FreshInv' /\ DownloadStep
<1>1. \A x \in fresh' : x \in Worker /\ wk[x].app \in App
  BY FreshWorker
<1>2. FreshInv'
  BY <1>1, FreshKept
<1> QED
  BY <1>2 DEF DownloadStep

\* The cache advances by a version.
LEMMA DeliverStep ==
    ASSUME IInv, NEW a \in App, Deliver(a)
    PROVE  IInv' /\ DownloadStep
<1> DEFINE v == versions[a]
           n == Len(v) - 1
           u == [i \in 1 .. n |-> [v[i + 1] EXCEPT !.gen = @ - v[2].gen]]
<1>1. /\ Len(v) > 1 /\ versions' = [versions EXCEPT ![a] = u]
      /\ queue' \in {queue, queue \cup {a}}
      /\ UNCHANGED <<wk, fresh, inProgress, ops, req, im, app, requests, faults, sweeps>>
  BY DEF Deliver
<1>2. v \in Seq(PossibleVersion) /\ Len(v) \in 1 .. MaxLag + 1
      /\ versions \in [App -> Seq(PossibleVersion)]
  BY DEF IInv, VersionsInv
<1>3. n \in Nat \ {0} /\ n \in 1 .. MaxLag
  BY <1>1, <1>2, ConstantsAssumption
<1>4. \A i \in 1 .. n : v[i + 1] \in PossibleVersion /\ v[2] \in PossibleVersion
  <2>1. \A i \in 1 .. n : i + 1 \in 1 .. Len(v)
    BY <1>2, <1>3
  <2>2. 2 \in 1 .. Len(v)
    BY <1>1, <1>2
  <2> QED
    BY <1>2, <2>1, <2>2, ElementOfSeq
<1>5. \A i \in 1 .. n : u[i] \in PossibleVersion /\ u[i].state = v[i + 1].state
  BY SMTT(30), <1>4 DEF PossibleVersion
<1>6. u \in Seq(PossibleVersion) /\ Len(u) = n
  <2>1. u \in [1 .. n -> PossibleVersion]
    BY <1>5
  <2> HIDE DEF u, n
  <2> QED
    BY <1>3, <2>1, SeqDef, LenProperties
<1>7. versions'[a] = u /\ \A b \in App : b # a => versions'[b] = versions[b]
  BY <1>1, <1>2
<1>8. VersionsInv'
  BY SMTT(30), <1>1, <1>2, <1>3, <1>6, <1>7, ConstantsAssumption DEF IInv, VersionsInv
<1>9. \A b \in App : Stored(b)'.state = Stored(b).state
  <2>1. u[n].state = v[n + 1].state /\ n + 1 = Len(v)
    BY <1>2, <1>3, <1>5
  <2> HIDE DEF u, n, v
  <2>2. Stored(a)'.state = Stored(a).state
    BY <1>6, <1>7, <2>1 DEF Stored, v
  <2> QED
    BY <1>7, <2>2 DEF Stored
<1>10. WorkersInv' /\ RegistryInv' /\ RequestsInv' /\ RestInv'
  BY <1>1, WorkersUnchanged, RegistryUnchanged, RequestsUnchanged DEF IInv, RestInv
<1>11. FreshInv' /\ DownloadStep
  BY <1>1, <1>8, <1>9, SameStates
<1> QED
  BY <1>8, <1>10, <1>11 DEF IInv

\* The time to live of the stored state passes.
LEMMA OverdueStep ==
    ASSUME IInv, NEW a \in App, Overdue(a)
    PROVE  IInv' /\ DownloadStep
<1> DEFINE v == versions[a]
           u == [i \in DOMAIN v |-> [v[i] EXCEPT !.late = TRUE]]
<1>1. /\ versions' = [versions EXCEPT ![a] = u]
      /\ ops' = [o \in Op |-> IF ops[o].app = a THEN [ops[o] EXCEPT !.late = TRUE] ELSE ops[o]]
      /\ UNCHANGED <<queue, wk, fresh, inProgress, req, im, app, requests, faults, sweeps>>
  BY DEF Overdue
<1>2. /\ v \in Seq(PossibleVersion) /\ Len(v) \in 1 .. MaxLag + 1
      /\ versions \in [App -> Seq(PossibleVersion)]
      /\ MaxLag \in Nat
  BY ConstantsAssumption DEF IInv, VersionsInv
<1>3. DOMAIN v = 1 .. Len(v) /\ Len(v) \in Nat /\ Len(v) \in DOMAIN v
  BY <1>2, LenProperties
<1>4. \A i \in DOMAIN v : v[i] \in PossibleVersion
  BY <1>2, <1>3, ElementOfSeq
<1>5. \A i \in DOMAIN v : u[i] \in PossibleVersion /\ u[i].state = v[i].state
  BY <1>4 DEF PossibleVersion
<1>6. u \in Seq(PossibleVersion) /\ Len(u) = Len(v)
  <2>1. u \in [1 .. Len(v) -> PossibleVersion]
    BY <1>3, <1>5
  <2> HIDE DEF u, v
  <2> QED
    BY <1>3, <2>1, SeqDef, LenProperties
<1>7. versions'[a] = u /\ \A b \in App : b # a => versions'[b] = versions[b]
  BY <1>1, <1>2
<1>8. VersionsInv'
  BY <1>1, <1>2, <1>6, <1>7 DEF IInv, VersionsInv
<1>9. \A b \in App : Stored(b)'.state = Stored(b).state
  <2>1. u[Len(v)].state = v[Len(v)].state
    BY <1>3, <1>5
  <2> HIDE DEF u, v
  <2>2. Stored(a)'.state = Stored(a).state
    BY <1>6, <1>7, <2>1 DEF Stored, v
  <2> QED
    BY <1>7, <2>2 DEF Stored
<1>10. RegistryInv'
  <2>1. \A o \in Op : /\ ops[o] \in OpType0 => ops'[o] \in OpType0
                      /\ ops[o] \in OpType0 => /\ ops'[o].phase = ops[o].phase
                                               /\ ops'[o].app = ops[o].app
                                               /\ ops'[o].kind = ops[o].kind
    BY <1>1 DEF OpType0
  <2>2. ops' = [o \in Op |-> ops'[o]]
    BY <1>1
  <2>3. ops \in [Op -> OpType0] /\ UNCHANGED inProgress
    BY <1>1 DEF IInv, RegistryInv
  <2>4. ops' \in [Op -> OpType0]
    BY <2>1, <2>2, <2>3
  <2>5. \A o \in Op : ops'[o].phase = ops[o].phase /\ ops'[o].app = ops[o].app
                      /\ ops'[o].kind = ops[o].kind
    BY <2>1, <2>3
  <2> QED
    BY <2>3, <2>4, <2>5 DEF IInv, RegistryInv, RegistryHasReleaser
<1>11. WorkersInv' /\ RequestsInv' /\ RestInv'
  BY <1>1, WorkersUnchanged, RequestsUnchanged DEF IInv, RestInv
<1>12. FreshInv' /\ DownloadStep
  BY <1>1, <1>8, <1>9, SameStates
<1> QED
  BY <1>8, <1>10, <1>11, <1>12 DEF IInv

\* A namespace goes away.
LEMMA NamespaceSteps ==
    ASSUME IInv, NEW a \in App, NamespaceGone(a) \/ NamespaceLost(a)
    PROVE  IInv' /\ DownloadStep
<1>1. /\ UNCHANGED <<versions, queue, wk, fresh, inProgress, ops, req, im, requests, sweeps>>
      /\ Fault \/ UNCHANGED faults
      /\ app' \in {[app EXCEPT ![a] = "absent"], [app EXCEPT ![a] = "deleting"]}
  BY DEF NamespaceGone, NamespaceLost
<1>2. RestInv'
  BY <1>1, FaultLemma DEF IInv, RestInv
<1> QED
  BY <1>1, <1>2, Frame, WorkersUnchanged, RegistryUnchanged, RequestsUnchanged

\* The process dies and starts again.
LEMMA CrashStep ==
    ASSUME IInv, Crash
    PROVE  IInv' /\ DownloadStep
<1>1. /\ Fault
      /\ versions' = [a \in App |-> <<[Stored(a) EXCEPT !.gen = 0]>>]
      /\ queue' \subseteq App
      /\ wk' = [w \in Worker |-> IdleWorker]
      /\ fresh' = {}
      /\ inProgress' = [a \in App |-> None]
      /\ ops' = [o \in Op |-> FreeOp]
      /\ req' = [h \in Handler |-> NoRequest]
      /\ UNCHANGED <<im, app, requests, sweeps>>
  BY DEF Crash
<1>2. \A a \in App : /\ [Stored(a) EXCEPT !.gen = 0] \in PossibleVersion
                     /\ [Stored(a) EXCEPT !.gen = 0].state = Stored(a).state
  BY VersionTypes DEF IInv, PossibleVersion
<1>3. VersionsInv'
  BY <1>1, <1>2, ConstantsAssumption DEF VersionsInv
<1>4. \A a \in App : Stored(a)'.state = Stored(a).state
  BY <1>1, <1>2 DEF Stored
<1>5. FreshInv' /\ DownloadStep
  BY <1>1, <1>3, <1>4, SameStates
<1>6. WorkersInv'
  BY <1>1, WritableSets DEF WorkersInv, IdleWorker, WorkerPC
<1>7. RegistryInv'
  BY <1>1, WritableSets DEF RegistryInv, RegistryHasReleaser, FreeOp, OpType0
<1>8. RequestsInv'
  BY <1>1, WritableSets DEF RequestsInv, NoRequest
<1>9. RestInv'
  BY <1>1, FaultLemma DEF IInv, RestInv
<1> QED
  BY <1>3, <1>5, <1>6, <1>7, <1>8, <1>9 DEF IInv

-----------------------------------------------------------------------------
(***************************************************************************)
(* The theorems.                                                           *)
(***************************************************************************)
\* The invariant holds where histories start.
LEMMA InitIInv == Init => IInv
<1> SUFFICES ASSUME Init PROVE IInv
  OBVIOUS
<1>1. PICK s \in [App -> InitStates] :
        /\ versions = [a \in App |-> <<[state |-> s[a], gen |-> 0, late |-> FALSE]>>]
        /\ queue = {a \in App : s[a] # NoState}
  BY DEF Init
<1>2. /\ wk = [w \in Worker |-> IdleWorker]
      /\ fresh = {}
      /\ inProgress = [a \in App |-> None]
      /\ ops = [o \in Op |-> FreeOp]
      /\ req = [h \in Handler |-> NoRequest]
      /\ app \in [App -> {"absent", "present", "deleting"}]
      /\ im = {} /\ requests = 0 /\ faults = 0 /\ sweeps = 0
  BY DEF Init
<1>3. VersionsInv
  <2>1. \A a \in App : [state |-> s[a], gen |-> 0, late |-> FALSE] \in PossibleVersion
    BY ConstantsAssumption DEF PossibleVersion
  <2> QED
    BY <1>1, <2>1, ConstantsAssumption DEF VersionsInv
<1>4. WorkersInv
  BY <1>2, WritableSets DEF WorkersInv, IdleWorker, WorkerPC
<1>5. RegistryInv
  BY <1>2, WritableSets DEF RegistryInv, RegistryHasReleaser, FreeOp, OpType0
<1>6. RequestsInv
  BY <1>2, WritableSets DEF RequestsInv, NoRequest
<1>7. FreshInv /\ RestInv
  BY <1>1, <1>2, ConstantsAssumption DEF FreshInv, RestInv
<1> QED
  BY <1>3, <1>4, <1>5, <1>6, <1>7 DEF IInv

\* Every step keeps the invariant and starts no download but from pending.
LEMMA NextIInv ==
    ASSUME IInv, [Next]_vars
    PROVE  IInv' /\ DownloadStep
<1>1. ASSUME NEW w \in Worker, NEW a \in App, Load(w, a) \/ ExecPolledFails(w, a)
      PROVE  IInv' /\ DownloadStep
  BY <1>1, LoadSteps, LoadNewStep, CancelStep, ExecPolledStep, ExecSteps DEF Load
<1>2. ASSUME NEW w \in Worker, Step(w) \/ WriteFails(w)
      PROVE  IInv' /\ DownloadStep
  BY <1>2, CleanUpStep, ExecPendingStep, RegisterSteps, WriteStep, WriteFailsStep DEF Step
<1>3. ASSUME NEW o \in Op, OpNext(o)
      PROVE  IInv' /\ DownloadStep
  BY <1>3, HelmSteps, WaitForStartUpStep, BodyEndStep, ReleaseStep, FinallySteps DEF OpNext
<1>4. ASSUME NEW h \in Handler, HandlerNext(h)
      PROVE  IInv' /\ DownloadStep
  BY <1>4, AcceptStep, CommitSteps DEF HandlerNext
<1>5. ASSUME NEW a \in App, ClusterNext(a)
      PROVE  IInv' /\ DownloadStep
  BY <1>5, DeliverStep, OverdueStep, NamespaceSteps DEF ClusterNext
<1>6. CASE UNCHANGED vars
  <2>1. UNCHANGED <<versions, queue, wk, fresh, inProgress, ops, req, im, app, requests,
                    faults, sweeps>>
    BY <1>6 DEF vars
  <2>2. RestInv'
    BY <2>1 DEF IInv, RestInv
  <2> QED
    BY <2>1, <2>2, Frame, FreshWorker, WorkersUnchanged, RegistryUnchanged, RequestsUnchanged
<1> QED
  BY <1>1, <1>2, <1>3, <1>4, <1>5, <1>6, CrashStep DEF Next

\* The invariant is inductive.
THEOREM Invariance == Spec => []IInv
<1>1. IInv /\ [Next]_vars => IInv'
  BY NextIInv
<1> QED
  BY InitIInv, <1>1, PTL DEF Spec

\* Every variable has its type, and the cache is at most MaxLag versions
\* behind, whatever the numbers of applications, operations and requests.
THEOREM TypeCorrect == Spec => []TypeOK
<1>1. IInv => TypeOK
  <2> SUFFICES ASSUME IInv PROVE TypeOK
    OBVIOUS
  <2>1. PossibleVersion \subseteq Version /\ Writable \subseteq State \cup {NoState}
        /\ PossibleStates \subseteq State \cup {NoState}
        /\ OpKind \subseteq State \cup {NoState}
    BY WritableSets DEF PossibleVersion, Version
  <2>2. versions \in [App -> Seq(Version)]
        /\ \A a \in App : Len(versions[a]) \in 1 .. MaxLag + 1
    <3>1. \A a \in App : versions[a] \in Seq(Version)
      BY <2>1, SeqMonotonic DEF IInv, VersionsInv
    <3> QED
      BY <3>1 DEF IInv, VersionsInv
  <2>3. /\ wk \in [Worker -> [pc : WorkerPC, app : App \cup {None}, kind : State \cup {NoState},
                              obj : Op \cup {None}, target : State \cup {NoState}]]
        /\ \A w \in Worker : wk[w].pc # "idle" => wk[w].app \in App
    BY <2>1 DEF IInv, WorkersInv
  <2>4. inProgress \in [App -> Op \cup {None}]
        /\ ops \in [Op -> [app : App \cup {None}, kind : State \cup {NoState},
                           st : State \cup {NoState}, late : BOOLEAN,
                           body : {"run", "applied", "started", "end"}, cancelled : BOOLEAN,
                           fin : State \cup {NoState},
                           phase : {"free", "wait", "released", "done"}]]
        /\ \A o \in Op : ops[o].phase # "free" => ops[o].app \in App
    BY <2>1 DEF IInv, RegistryInv, OpType0
  <2>5. req \in [Handler -> [app : App \cup {None}, target : State \cup {NoState}]]
        /\ \A h \in Handler : req[h] # NoRequest => req[h].app \in App
    BY <2>1 DEF IInv, RequestsInv
  <2> QED
    BY <2>2, <2>3, <2>4, <2>5 DEF IInv, FreshInv, RestInv, TypeOK
<1> QED
  BY Invariance, <1>1, PTL

\* No ApplicationManager ever enters a state that is marked impossible or that
\* LoadStatefulApp has no case for.
THEOREM StatesPossible == Spec => []NoImpossibleState
<1>1. IInv => NoImpossibleState
  BY VersionTypes DEF IInv, NoImpossibleState, PossibleVersion
<1> QED
  BY Invariance, <1>1, PTL

\* Whatever the registry holds still has a watcher or poller that will remove it.
THEOREM EntriesHaveReleasers == Spec => []RegistryHasReleaser
<1>1. IInv => RegistryHasReleaser
  BY DEF IInv, RegistryInv
<1> QED
  BY Invariance, <1>1, PTL

\* No race between the reconcilers, the handlers and the operations starts a
\* download other than from pending.
THEOREM DownloadsFromPending == Spec => DownloadOnlyFromPending
<1>1. IInv /\ [Next]_vars => [DownloadStep]_vars
  BY NextIInv
<1>2. IInv /\ [Next]_vars =>
        [\A a \in App : Stored(a)'.state = "downloading" =>
           Stored(a).state \in {"downloading", "pending"}]_vars
  BY <1>1 DEF DownloadStep
<1> QED
  BY Invariance, <1>2, PTL DEF Spec, DownloadOnlyFromPending

-----------------------------------------------------------------------------
(* AppManager implements AppLifecycle, for any number of applications,     *)
(* reconcilers, operations and requests: every step of the controller is,  *)
(* for each application, a step of AppLifecycle or leaves it alone.  The   *)
(* proof rests on the inductive invariant.                                 *)

\* What a reconciler, an operation, a request adds to the tasks T and to the
\* results O of application b.
WorkerWithin(r, b, T, O) ==
    r.app = b => /\ r.pc \in {"exec", "poll", "write"} => r.kind \in T
                 /\ r.pc = "write" => r.target \in O

OpWithin(r, b, T, O) == r.app = b /\ r.phase # "free" => r.kind \in T /\ r.fin \in O

RequestWithin(r, b, O) == r # NoRequest /\ r.app = b => r.target \in O

\* After the step, application b has no more than the tasks T and the results O.
Within(b, T, O) ==
    /\ \A w \in Worker : WorkerWithin(wk'[w], b, T, O)
    /\ \A o \in Op : OpWithin(ops'[o], b, T, O)
    /\ \A h \in Handler : RequestWithin(req'[h], b, O)

OpKept(p, q) ==
    p.app = q.app /\ p.kind = q.kind /\ p.fin = q.fin /\ (p.phase # "free" => q.phase # "free")

StatesKept(b) ==
    /\ Stored(b)'.state = Stored(b).state
    /\ Cached(b)'.state = Cached(b).state
    /\ {versions[b][i].state : i \in DOMAIN versions[b]}'
         = {versions[b][i].state : i \in DOMAIN versions[b]}

LifeStep(b) == [Life(b)!Next]_(Life(b)!vars)

-----------------------------------------------------------------------------
\* What is there before the step is within the tasks and the results.
LEMMA WithinLemma ==
    ASSUME NEW b \in App, NEW T, NEW O, Tasks(b) \subseteq T, Owed(b) \subseteq O,
           \A w \in Worker : wk'[w] = wk[w] \/ WorkerWithin(wk'[w], b, T, O),
           \A o \in Op : OpKept(ops'[o], ops[o]) \/ OpWithin(ops'[o], b, T, O),
           \A h \in Handler : req'[h] \in {req[h], NoRequest} \/ RequestWithin(req'[h], b, O)
    PROVE  Within(b, T, O)
<1>1. ASSUME NEW w \in Worker
      PROVE  WorkerWithin(wk'[w], b, T, O)
  BY <1>1 DEF WorkerWithin, Tasks, Owed
<1>2. ASSUME NEW o \in Op
      PROVE  OpWithin(ops'[o], b, T, O)
  BY <1>2 DEF OpWithin, OpKept, Tasks, Owed
<1>3. ASSUME NEW h \in Handler
      PROVE  RequestWithin(req'[h], b, O)
  BY <1>3 DEF RequestWithin, Owed
<1> QED
  BY <1>1, <1>2, <1>3 DEF Within

LEMMA WithinMeans ==
    ASSUME NEW b \in App, NEW T, NEW O, Within(b, T, O)
    PROVE  Tasks(b)' \subseteq T /\ Owed(b)' \subseteq O
BY DEF Within, WorkerWithin, OpWithin, RequestWithin, Tasks, Owed

\* A step that writes nothing is a decision about one task, or none.
LEMMA DecideLemma ==
    ASSUME NEW b \in App, StatesKept(b), NEW t \in Tasks(b) \cup {Cached(b).state},
           Within(b, Tasks(b) \cup {t}, Owed(b) \cup Life(b)!Results(t))
    PROVE  LifeStep(b)
<1>1. Tasks(b)' \subseteq Tasks(b) \cup {t} /\ Owed(b)' \subseteq Owed(b) \cup Life(b)!Results(t)
  BY WithinMeans
<1>2. Life(b)!Decide
  BY <1>1 DEF Life!Decide, StatesKept
<1> QED
  BY <1>2 DEF LifeStep, Life!Next

LEMMA QuietLemma ==
    ASSUME NEW b \in App, StatesKept(b), Within(b, Tasks(b), Owed(b))
    PROVE  LifeStep(b)
<1>1. Within(b, Tasks(b) \cup {Cached(b).state},
             Owed(b) \cup Life(b)!Results(Cached(b).state))
  BY DEF Within, WorkerWithin, OpWithin, RequestWithin
<1> QED
  BY <1>1, DecideLemma

LEMMA SameVersions ==
    ASSUME NEW b \in App, versions'[b] = versions[b]
    PROVE  StatesKept(b)
BY DEF StatesKept, Stored, Cached

\* A write appends a version.
LEMMA AppendLemma ==
    ASSUME IInv, NEW b \in App, NEW v \in PossibleVersion, Store(b, v),
           Within(b, Tasks(b), Owed(b))
    PROVE  Life(b)!Become(v.state)
<1>1. versions[b] \in Seq(PossibleVersion) /\ Len(versions[b]) \in Nat \ {0}
  BY ConstantsAssumption DEF IInv, VersionsInv
<1>2. versions'[b] = Append(versions[b], v)
  BY DEF IInv, VersionsInv, Store
<1>3. /\ DOMAIN Append(versions[b], v) = (DOMAIN versions[b]) \cup {Len(versions[b]) + 1}
      /\ Len(Append(versions[b], v)) = Len(versions[b]) + 1
      /\ Append(versions[b], v)[Len(versions[b]) + 1] = v
      /\ \A i \in DOMAIN versions[b] : Append(versions[b], v)[i] = versions[b][i]
      /\ 1 \in DOMAIN versions[b]
  BY <1>1
<1>4. Head(versions[b]) = versions[b][1] /\ Head(Append(versions[b], v)) = versions[b][1]
  BY <1>1, <1>3
<1>5. Stored(b)'.state = v.state /\ Cached(b)'.state = Cached(b).state
  BY <1>2, <1>3, <1>4 DEF Stored, Cached
<1>6. {versions[b][i].state : i \in DOMAIN versions[b]}'
        = {versions[b][i].state : i \in DOMAIN versions[b]} \cup {v.state}
  BY <1>2, <1>3
<1>7. Tasks(b)' \subseteq Tasks(b) /\ Owed(b)' \subseteq Owed(b)
  BY WithinMeans
<1> QED
  BY <1>5, <1>6, <1>7 DEF Life!Become

-----------------------------------------------------------------------------
\* The tables that AppLifecycle reads are those that AppManager reads.
LEMMA TablesAgree ==
    ASSUME NEW a \in App, NEW s
    PROVE  /\ Life(a)!TimeoutState(s) = TimeoutState(s)
           /\ Life(a)!CanceledState(s) = CanceledState(s)
           /\ Life(a)!ExecFailedState(s) = ExecFailedState(s)
           /\ Life(a)!ForceDeleteStates = ForceDeleteStates
BY DEF Life!TimeoutState, Life!CanceledState, Life!ExecFailedState, Life!ForceDeleteStates,
       TimeoutState, CanceledState, ExecFailedState, ForceDeleteStates, NoState, Life!NoState

LEMMA OutcomesAgree ==
    ASSUME NEW a \in App, NEW s
    PROVE  Life(a)!Outcomes(s, a \in Middleware, TRUE) = Outcomes(s, a \in Middleware, TRUE)
BY DEF Life!Outcomes, Life!InstallingOutcomes, Life!InitializingOutcomes,
       Life!UpgradingOutcomes, Life!ApplyingEnvOutcomes, Life!UninstallingOutcomes,
       Life!DownloadingOutcomes, Life!ResumingOutcomes, Life!InstallingCancelingOutcomes,
       Outcomes, InstallingOutcomes, InitializingOutcomes,
       UpgradingOutcomes, ApplyingEnvOutcomes, UninstallingOutcomes,
       DownloadingOutcomes, ResumingOutcomes, InstallingCancelingOutcomes, NoState, Life!NoState

\* What the controller may make of a state that it is shown.
LEMMA ResultsLemma ==
    ASSUME NEW a \in App, NEW s
    PROVE  /\ {TimeoutState(s), CanceledState(s), ExecFailedState(s)} \subseteq Life(a)!Results(s)
           /\ Outcomes(s, a \in Middleware, TRUE) \subseteq Life(a)!Results(s)
           /\ s \in StartUpKinds => "initializing" \in Life(a)!Results(s)
           /\ s = "stopping" => {"stopped", "stopFailed"} \subseteq Life(a)!Results(s)
           /\ s = "applyingEnvCanceling" => "applyingEnvCancelFailed" \in Life(a)!Results(s)
           /\ s \in ForceDeleteStates \cup {"running", "uninstalled"}
              => "uninstalled" \in Life(a)!Results(s)
<1>1. Life(a)!Outcomes(s, a \in Middleware, TRUE) = Outcomes(s, a \in Middleware, TRUE)
  BY OutcomesAgree
<1>2. Life(a)!StartUpTasks = StartUpKinds
  BY DEF Life!StartUpTasks, StartUpKinds
<1> QED
  BY <1>1, <1>2, TablesAgree DEF Life!Results

-----------------------------------------------------------------------------
(***************************************************************************)
(* The steps of reconcilers.                                               *)
(***************************************************************************)
LEMMA MoveLemma ==
    ASSUME IInv, NEW b \in App, NEW w \in Worker, NEW r, wk' = [wk EXCEPT ![w] = r],
           UNCHANGED <<versions, req>>, \A o \in Op : OpKept(ops'[o], ops[o]),
           NEW t \in Tasks(b) \cup {Cached(b).state},
           WorkerWithin(r, b, Tasks(b) \cup {t}, Owed(b) \cup Life(b)!Results(t))
    PROVE  LifeStep(b)
<1>1. \A v \in Worker : wk'[v] = IF v = w THEN r ELSE wk[v]
  BY DEF IInv, WorkersInv
<1>2. Within(b, Tasks(b) \cup {t}, Owed(b) \cup Life(b)!Results(t))
  BY <1>1, WithinLemma
<1> QED
  BY <1>2, SameVersions, DecideLemma

LEMMA StutterLemma ==
    ASSUME IInv, NEW b \in App, UNCHANGED <<versions, wk, req>>,
           \A o \in Op : OpKept(ops'[o], ops[o])
    PROVE  LifeStep(b)
<1>1. Within(b, Tasks(b), Owed(b))
  BY WithinLemma
<1> QED
  BY <1>1, SameVersions, QuietLemma

LEMMA OpsKept ==
    ASSUME IInv, NEW a \in App, UNCHANGED ops \/ cancelOperation(a)
    PROVE  \A o \in Op : OpKept(ops'[o], ops[o])
<1>1. ops \in [Op -> OpType0]
  BY DEF IInv, RegistryInv
<1>2. CASE UNCHANGED ops
  BY <1>2 DEF OpKept
<1>3. CASE cancelOperation(a)
  BY <1>1, <1>3 DEF cancelOperation, OpKept, OpType0
<1> QED
  BY <1>2, <1>3

\* A reconciler that goes to sleep, or reports an error, takes up nothing.
LEMMA RestLemma ==
    ASSUME IInv, NEW b \in App, NEW w \in Worker, NEW r, wk' = [wk EXCEPT ![w] = r],
           r.pc \notin {"exec", "poll", "write"},
           UNCHANGED <<versions, req>>, \A o \in Op : OpKept(ops'[o], ops[o])
    PROVE  LifeStep(b)
<1>1. WorkerWithin(r, b, Tasks(b) \cup {Cached(b).state},
                   Owed(b) \cup Life(b)!Results(Cached(b).state))
  BY DEF WorkerWithin
<1> QED
  BY <1>1, MoveLemma

LEMMA LoadsImplement ==
    ASSUME IInv, NEW b \in App, NEW w \in Worker, NEW a \in App,
           Load(w, a) \/ ExecPolledFails(w, a)
    PROVE  LifeStep(b)
<1> DEFINE s == Cached(a).state
           After(pc, kind, obj, target) ==
               [pc |-> pc, app |-> a, kind |-> kind, obj |-> obj, target |-> target]
<1>1. UNCHANGED <<versions, req>>
  BY DEF Load, LoadLeftOver, LoadUnexpected, LoadMismatch, LoadInProgress, LoadIdle, LoadNew,
         Cancel, ExecPolled, ExecPolledFails, ExecCanceling, ExecStopping, ExecInstallFailed,
         forceDeleteApp
<1>2. UNCHANGED ops \/ cancelOperation(a)
  BY DEF Load, LoadLeftOver, LoadUnexpected, LoadMismatch, LoadInProgress, LoadIdle, LoadNew,
         Cancel, ExecPolled, ExecPolledFails, ExecCanceling, ExecStopping, ExecInstallFailed,
         forceDeleteApp
<1>3. \A o \in Op : OpKept(ops'[o], ops[o])
  BY <1>2, OpsKept
<1>4. CASE UNCHANGED wk
  BY <1>1, <1>3, <1>4, StutterLemma
<1>5. ASSUME NEW kind, kind \in Tasks(a) \cup {s}, NEW pc, NEW obj, NEW target,
             pc = "write" => target \in Life(a)!Results(kind),
             wk' = [wk EXCEPT ![w] = After(pc, kind, obj, target)]
      PROVE  LifeStep(b)
  <2>1. CASE b = a
    <3>1. WorkerWithin(After(pc, kind, obj, target), b, Tasks(b) \cup {kind},
                       Owed(b) \cup Life(b)!Results(kind))
      BY <1>5, <2>1 DEF WorkerWithin
    <3> QED
      BY <1>1, <1>3, <1>5, <2>1, <3>1, MoveLemma
  <2>2. CASE b # a
    <3>1. WorkerWithin(After(pc, kind, obj, target), b, Tasks(b) \cup {Cached(b).state},
                       Owed(b) \cup Life(b)!Results(Cached(b).state))
      BY <2>2 DEF WorkerWithin
    <3> QED
      BY <1>1, <1>3, <1>5, <3>1, MoveLemma
  <2> QED
    BY <2>1, <2>2
<1>6. CASE LoadUnexpected(w, a) \/ forceDeleteApp(w, a)
  <2>1. s \in ForceDeleteStates \cup {"running", "uninstalled"}
    BY <1>6 DEF LoadUnexpected, Unexpected, forceDeleteApp, New
  <2>2. "uninstalled" \in Life(a)!Results(s)
    BY <2>1, ResultsLemma
  <2>3. wk' = [wk EXCEPT ![w] = After("write", s, None, "uninstalled")]
    BY <1>6 DEF LoadUnexpected, forceDeleteApp, Become
  <2> QED
    BY <1>5, <2>2, <2>3
<1>7. CASE LoadMismatch(w, a)
  <2>1. wk' = [wk EXCEPT ![w] = After("cleanup", s, inProgress[a], NoState)]
    BY <1>7 DEF LoadMismatch, Become
  <2>2. "cleanup" = "write" => NoState \in Life(a)!Results(s)
    OBVIOUS
  <2> QED
    BY <1>5, <2>1, <2>2
<1>8. CASE LoadNew(w, a)
  <2>1. wk' = [wk EXCEPT ![w] = After("exec", s, None, NoState)]
    BY <1>8 DEF LoadNew, Become
  <2>2. "exec" = "write" => NoState \in Life(a)!Results(s)
    OBVIOUS
  <2> QED
    BY <1>5, <2>1, <2>2
<1>9. CASE Cancel(w, a) /\ wk' # wk
  <2>1. PICK kind, obj :
            /\ wk' = [wk EXCEPT ![w] = After("write", kind, obj, TimeoutState(kind))]
            /\ \/ Returned(a) /\ kind = ops[inProgress[a]].kind
               \/ kind = s
    BY <1>9 DEF Cancel, Become
  <2>2. ASSUME Returned(a)
        PROVE  ops[inProgress[a]].kind \in Tasks(a)
    <3>1. inProgress[a] # None /\ inProgress[a] \in Op
      BY <2>2 DEF Returned, Registered, IInv, RegistryInv
    <3> QED
      BY <3>1 DEF IInv, RegistryInv, RegistryHasReleaser, Tasks
  <2>3. kind \in Tasks(a) \cup {s}
    BY <2>1, <2>2
  <2>4. TimeoutState(kind) \in Life(a)!Results(kind)
    BY ResultsLemma
  <2> QED
    BY <1>5, <2>1, <2>3, <2>4
<1>10. CASE ExecPolled(w, a)
  <2>1. wk' = [wk EXCEPT ![w] = After("poll", s, None, NoState)]
    BY <1>10 DEF ExecPolled, Become
  <2>2. "poll" = "write" => NoState \in Life(a)!Results(s)
    OBVIOUS
  <2> QED
    BY <1>5, <2>1, <2>2
<1>11. CASE ExecPolledFails(w, a)
  <2>1. wk' = [wk EXCEPT ![w] = After("write", s, None, ExecFailedState(s))]
    BY <1>11 DEF ExecPolledFails, Become
  <2>2. ExecFailedState(s) \in Life(a)!Results(s)
    BY ResultsLemma
  <2> QED
    BY <1>5, <2>1, <2>2
<1>12. CASE ExecCanceling(w, a)
  <2>1. CanceledState(s) \in Life(a)!Results(s)
    BY ResultsLemma
  <2>2. \/ wk' = [wk EXCEPT ![w] = After("retry", s, None, NoState)]
        \/ wk' = [wk EXCEPT ![w] = After("write", s, None, CanceledState(s))]
    BY <1>12 DEF ExecCanceling, Become
  <2> QED
    BY <1>5, <2>1, <2>2
<1>13. CASE ExecStopping(w, a)
  <2>1. s = "stopping"
    BY <1>13 DEF ExecStopping, New
  <2>2. {"stopped", "stopFailed"} \subseteq Life(a)!Results(s)
    BY <2>1, ResultsLemma
  <2>3. \/ wk' = [wk EXCEPT ![w] = After("write", s, None, "stopped")]
        \/ wk' = [wk EXCEPT ![w] = After("write", s, None, "stopFailed")]
    BY <1>13, <2>1 DEF ExecStopping, Become
  <2> QED
    BY <1>5, <2>2, <2>3
<1> QED
  BY <1>4, <1>6, <1>7, <1>8, <1>9, <1>10, <1>11, <1>12, <1>13
     DEF Load, LoadLeftOver, LoadInProgress, LoadIdle, ExecInstallFailed

-----------------------------------------------------------------------------
\* A reconciler that is about to write has something to write.
TargetInv == \A w \in Worker : wk[w].pc = "write" => wk[w].target # NoState

LEMMA TargetSets ==
    /\ \A s \in PolledStates : ExecFailedState(s) # NoState
    /\ \A s \in CancelingStates \ PolledStates : CanceledState(s) # NoState
BY DEF PolledStates, CancelingStates, ExecFailedState, CanceledState, NoState

LEMMA TargetStep ==
    ASSUME IInv, TargetInv, [Next]_vars
    PROVE  TargetInv'
<1>1. ASSUME NEW w \in Worker, NEW r, wk' = [wk EXCEPT ![w] = r],
             r.pc = "write" => r.target # NoState
      PROVE  TargetInv'
  BY <1>1 DEF IInv, WorkersInv, TargetInv
<1>2. ASSUME UNCHANGED wk
      PROVE  TargetInv'
  BY <1>2 DEF TargetInv
<1>3. ASSUME NEW w \in Worker, NEW a \in App, NEW pc, NEW kind, NEW obj, NEW target,
             Become(w, a, pc, kind, obj, target), pc = "write" => target # NoState
      PROVE  TargetInv'
  BY <1>1, <1>3 DEF Become
<1>4. ASSUME NEW w \in Worker, Return(w)
      PROVE  TargetInv'
  BY <1>1, <1>4 DEF Return, IdleWorker
<1>5. ASSUME NEW w \in Worker, NEW a \in App, Load(w, a) \/ ExecPolledFails(w, a)
      PROVE  TargetInv'
  <2>1. CASE ExecPolledFails(w, a)
    <3>1. Become(w, a, "write", Cached(a).state, None, ExecFailedState(Cached(a).state))
      BY <2>1 DEF ExecPolledFails
    <3>2. ExecFailedState(Cached(a).state) # NoState
      BY <2>1, TargetSets DEF ExecPolledFails, New
    <3> QED
      BY <1>3, <3>1, <3>2
  <2>2. CASE ExecCanceling(w, a)
    <3>1. \/ Become(w, a, "retry", Cached(a).state, None, NoState)
          \/ Become(w, a, "write", Cached(a).state, None, CanceledState(Cached(a).state))
      BY <2>2 DEF ExecCanceling
    <3>2. CanceledState(Cached(a).state) # NoState
      BY <2>2, TargetSets DEF ExecCanceling, New
    <3>3. "retry" # "write"
      OBVIOUS
    <3> QED
      BY <1>3, <3>1, <3>2, <3>3
  <2>3. CASE Cancel(w, a) /\ wk' # wk
    <3>1. PICK kind, obj : /\ TimeoutState(kind) # NoState
                           /\ Become(w, a, "write", kind, obj, TimeoutState(kind))
      BY <2>3 DEF Cancel
    <3> QED
      BY <1>3, <3>1
  <2>4. CASE LoadUnexpected(w, a) \/ forceDeleteApp(w, a) \/ ExecStopping(w, a)
    <3>1. \/ Become(w, a, "write", Cached(a).state, None, "uninstalled")
          \/ Become(w, a, "write", "stopping", None, "stopped")
          \/ Become(w, a, "write", "stopping", None, "stopFailed")
      BY <2>4 DEF LoadUnexpected, forceDeleteApp, ExecStopping
    <3>2. "uninstalled" # NoState /\ "stopped" # NoState /\ "stopFailed" # NoState
      BY DEF NoState
    <3> QED
      BY <1>3, <3>1, <3>2
  <2>5. CASE LoadMismatch(w, a) \/ LoadNew(w, a) \/ ExecPolled(w, a)
    <3>1. PICK pc, kind, obj : /\ pc \in {"cleanup", "exec", "poll"}
                               /\ Become(w, a, pc, kind, obj, NoState)
      BY <2>5 DEF LoadMismatch, LoadNew, ExecPolled
    <3>2. pc # "write"
      BY <3>1
    <3> QED
      BY <1>3, <3>1, <3>2
  <2> QED
    BY <1>2, <1>5, <2>1, <2>2, <2>3, <2>4, <2>5
       DEF Load, LoadLeftOver, LoadInProgress, LoadIdle, ExecInstallFailed
<1>6. ASSUME NEW w \in Worker, Step(w)
      PROVE  TargetInv'
  BY <1>4, <1>6 DEF Step, CleanUp, ExecPending, ExecWatched, WaitAsync, Retry, Write
<1>7. ASSUME NEW w \in Worker, WriteFails(w)
      PROVE  TargetInv'
  <2>1. CASE Return(w)
    BY <1>4, <2>1
  <2>2. CASE wk' = [wk EXCEPT ![w].target = "applyingEnvCancelFailed"]
    <3>1. "applyingEnvCancelFailed" # NoState
      BY DEF NoState
    <3> QED
      BY <2>2, <3>1 DEF TargetInv, IInv, WorkersInv
  <2> QED
    BY <1>7, <2>1, <2>2 DEF WriteFails
<1>8. CASE Crash
  BY <1>8 DEF Crash, IdleWorker, TargetInv
<1>9. ASSUME NEW o \in Op, OpNext(o)
      PROVE  UNCHANGED wk
  BY <1>9 DEF OpNext, Deploy, WaitForStartUp, Uninstall, BodyEnd, Release, Finally, FinallyFails
<1>10. ASSUME NEW h \in Handler, HandlerNext(h)
       PROVE  UNCHANGED wk
  BY <1>10 DEF HandlerNext, Accept, Commit, HandlerFails
<1>11. ASSUME NEW a \in App, ClusterNext(a)
       PROVE  UNCHANGED wk
  BY <1>11 DEF ClusterNext, Deliver, Overdue, NamespaceGone, NamespaceLost
<1> QED
  BY <1>2, <1>5, <1>6, <1>7, <1>8, <1>9, <1>10, <1>11 DEF Next, vars

-----------------------------------------------------------------------------
(***************************************************************************)
(* Writing the status.                                                     *)
(***************************************************************************)
\* A version that is stored is, for its application, a step to its state; for
\* the others, nothing happens.
LEMMA StoreImplements ==
    ASSUME IInv, NEW a \in App, NEW b \in App, NEW v \in PossibleVersion, Store(a, v),
           Within(b, Tasks(b), Owed(b)),
           Life(a)!Become(v.state) => Life(a)!Next
    PROVE  LifeStep(b)
<1>1. CASE b = a
  BY <1>1, AppendLemma DEF LifeStep
<1>2. CASE b # a
  <2>1. versions'[b] = versions[b]
    BY <1>2 DEF Store, IInv, VersionsInv
  <2> QED
    BY <2>1, SameVersions, QuietLemma
<1> QED
  BY <1>1, <1>2

LEMMA StatusImplements ==
    ASSUME IInv, NEW a \in App, NEW b \in App, NEW s \in Writable, s \in Owed(a),
           \/ updateStatus(a, s) /\ s # NoState
           \/ UpdateAppMgrStatus(a, s),
           Within(b, Tasks(b), Owed(b))
    PROVE  LifeStep(b)
<1> DEFINE u == [state |-> IF Cached(a).state = s THEN Stored(a).state ELSE s,
                 gen |-> Cached(a).gen + 1, late |-> FALSE]
           l == [state |-> IF s = NoState THEN Stored(a).state ELSE s,
                 gen |-> Stored(a).gen + 1, late |-> FALSE]
<1>1. Cached(a) \in PossibleVersion /\ Stored(a) \in PossibleVersion
  BY VersionTypes DEF IInv
<1>2. u \in PossibleVersion /\ l \in PossibleVersion
  BY <1>1, WritableSets DEF PossibleVersion
<1>3. PICK v \in PossibleVersion :
        Store(a, v) /\ (v.state = Stored(a).state \/ (v.state = s /\ s # NoState))
  BY <1>2 DEF updateStatus, UpdateAppMgrStatus
<1>4. Life(a)!Become(v.state) => Life(a)!Next
  <2>1. NoState = Life(a)!NoState
    BY DEF NoState, Life!NoState
  <2>2. v.state \in (Owed(a) \ {Life(a)!NoState}) \cup {Stored(a).state}
    BY <1>3, <2>1
  <2> QED
    BY <2>2 DEF Life!Next, Life!Write
<1> QED
  BY <1>3, <1>4, StoreImplements

\* Operations come and go with what reconcilers have already taken up.
LEMMA NothingResults ==
    ASSUME NEW a \in App, NEW s
    PROVE  NoState \in Life(a)!Results(s)
<1>1. CanceledState(s) = NoState \/ ExecFailedState(s) = NoState
  BY DEF CanceledState, ExecFailedState
<1> QED
  BY <1>1, ResultsLemma

LEMMA RegisterImplements ==
    ASSUME IInv, NEW w \in Worker, NEW b \in App, wk[w].pc \in {"exec", "poll"},
           \/ UNCHANGED ops
           \/ register(wk[w].app, wk[w].kind),
           UNCHANGED <<versions, req>>, Return(w)
    PROVE  LifeStep(b)
<1> DEFINE a == wk[w].app
           t == IF b = a THEN wk[w].kind ELSE Cached(b).state
<1>1. wk' = [wk EXCEPT ![w] = IdleWorker] /\ wk \in [Worker -> [pc : WorkerPC,
         app : App \cup {None}, kind : PossibleStates, obj : Op \cup {None}, target : Writable]]
  BY DEF Return, IInv, WorkersInv
<1>2. t \in Tasks(b) \cup {Cached(b).state}
  BY DEF Tasks
<1>3. ASSUME NEW v \in Worker
      PROVE  wk'[v] = wk[v] \/ WorkerWithin(wk'[v], b, Tasks(b) \cup {t},
                                            Owed(b) \cup Life(b)!Results(t))
  BY <1>1, <1>3 DEF WorkerWithin, IdleWorker
<1>4. ASSUME NEW o \in Op
      PROVE  OpKept(ops'[o], ops[o]) \/ OpWithin(ops'[o], b, Tasks(b) \cup {t},
                                                 Owed(b) \cup Life(b)!Results(t))
  <2>1. NoState \in Life(b)!Results(t)
    BY NothingResults
  <2>2. CASE ops' = ops
    BY <2>2 DEF OpKept
  <2>3. CASE register(a, wk[w].kind)
    <3>1. ops'[o] = ops[o] \/ (ops'[o].app = a /\ ops'[o].kind = wk[w].kind
                               /\ ops'[o].fin = NoState)
      BY <2>3 DEF register, FreeOp, IInv, RegistryInv
    <3> QED
      BY <2>1, <3>1 DEF OpKept, OpWithin
  <2> QED
    BY <2>2, <2>3
<1>5. Within(b, Tasks(b) \cup {t}, Owed(b) \cup Life(b)!Results(t))
  BY <1>3, <1>4, WithinLemma
<1> QED
  BY <1>2, <1>5, SameVersions, DecideLemma

LEMMA ReturnWithin ==
    ASSUME IInv, NEW w \in Worker, NEW b \in App, Return(w), UNCHANGED req,
           \A o \in Op : OpKept(ops'[o], ops[o])
    PROVE  Within(b, Tasks(b), Owed(b))
<1>1. \A v \in Worker : wk'[v] = wk[v] \/ wk'[v] = IdleWorker
  BY DEF Return, IInv, WorkersInv
<1>2. \A v \in Worker : wk'[v] = wk[v] \/ WorkerWithin(wk'[v], b, Tasks(b), Owed(b))
  BY <1>1 DEF WorkerWithin, IdleWorker
<1> QED
  BY <1>2, WithinLemma

LEMMA RereadKeeps ==
    ASSUME IInv, NEW w \in Worker, Reread(w)
    PROVE  \A o \in Op : OpKept(ops'[o], ops[o])
<1>1. ops \in [Op -> OpType0]
  BY DEF IInv, RegistryInv
<1> QED
  BY <1>1 DEF Reread, OpKept, OpType0

LEMMA StepsImplement ==
    ASSUME IInv, TargetInv, NEW w \in Worker, NEW b \in App, Step(w) \/ WriteFails(w)
    PROVE  LifeStep(b)
<1> DEFINE a == wk[w].app
<1>1. /\ wk \in [Worker -> [pc : WorkerPC, app : App \cup {None}, kind : PossibleStates,
                            obj : Op \cup {None}, target : Writable]]
      /\ ops \in [Op -> OpType0]
      /\ wk[w].pc # "idle" => a \in App
  BY DEF IInv, WorkersInv, RegistryInv
<1>2. ASSUME UNCHANGED ops
      PROVE  \A o \in Op : OpKept(ops'[o], ops[o])
  BY <1>2 DEF OpKept
<1>3. CASE CleanUp(w)
  <2>1. \A o \in Op : OpKept(ops'[o], ops[o])
    BY <1>1, <1>3 DEF CleanUp, OpKept, OpType0
  <2>2. Return(w) /\ UNCHANGED <<versions, req>>
    BY <1>3 DEF CleanUp
  <2> QED
    BY <2>1, <2>2, ReturnWithin, SameVersions, QuietLemma
<1>4. CASE Retry(w)
  <2>1. Return(w) /\ UNCHANGED <<versions, req, ops>>
    BY <1>4 DEF Retry
  <2> QED
    BY <1>2, <2>1, ReturnWithin, SameVersions, QuietLemma
<1>5. CASE ExecWatched(w) \/ WaitAsync(w)
  <2>1. wk[w].pc \in {"exec", "poll"} /\ UNCHANGED <<versions, req>> /\ Return(w)
    BY <1>5 DEF ExecWatched, WaitAsync, Executes
  <2>2. UNCHANGED ops \/ register(wk[w].app, wk[w].kind)
    BY <1>5 DEF ExecWatched, WaitAsync
  <2> QED
    BY <2>1, <2>2, RegisterImplements
<1>6. CASE ExecPending(w)
  <2>1. Return(w) /\ UNCHANGED <<req, ops>> /\ wk[w].pc = "exec" /\ wk[w].kind = "pending"
    BY <1>6 DEF ExecPending, Executes
  <2>2. Within(b, Tasks(b), Owed(b))
    BY <1>2, <2>1, ReturnWithin
  <2>3. CASE UNCHANGED versions
    BY <2>2, <2>3, SameVersions, QuietLemma
  <2>4. CASE w \in fresh /\ UpdateAppMgrStatus(a, "downloading")
    <3>1. PICK c \in App : c = a
      BY <1>1, <2>1
    <3>2. Stored(c) \in PossibleVersion /\ Stored(c).state = "pending"
      BY <2>1, <2>4, <3>1, VersionTypes DEF IInv, FreshInv
    <3>3. "downloading" # NoState /\ "downloading" \in PossibleStates
      BY DEF NoState, PossibleStates, LoadedStates, ImpossibleStates, PolledStates
    <3>4. [state |-> "downloading", gen |-> Stored(c).gen + 1, late |-> FALSE]
            \in PossibleVersion
      BY <3>2, <3>3 DEF PossibleVersion
    <3>5. PICK u \in PossibleVersion : Store(c, u) /\ u.state = "downloading"
      BY <2>4, <3>1, <3>3, <3>4 DEF UpdateAppMgrStatus
    <3>6. Life(c)!Become(u.state) => Life(c)!Next
      BY <3>2, <3>5 DEF Life!Next, Life!Download
    <3> QED
      BY <2>2, <3>5, <3>6, StoreImplements
  <2> QED
    BY <1>6, <2>3, <2>4 DEF ExecPending
<1>7. CASE Write(w)
  <2>1. Return(w) /\ UNCHANGED req /\ Reread(w) /\ wk[w].pc = "write"
    BY <1>7 DEF Write
  <2>2. Within(b, Tasks(b), Owed(b))
    BY <2>1, RereadKeeps, ReturnWithin
  <2>3. a \in App /\ wk[w].target \in Writable /\ wk[w].target # NoState
    BY <1>1, <2>1 DEF TargetInv
  <2>4. wk[w].target \in Owed(a) /\ updateStatus(a, wk[w].target)
    BY <1>7, <2>1 DEF Write, Owed
  <2> QED
    BY <2>2, <2>3, <2>4, StatusImplements
<1>8. CASE WriteFails(w)
  <2>1. UNCHANGED <<versions, req>> /\ Reread(w) /\ wk[w].pc = "write"
    BY <1>8 DEF WriteFails
  <2>2. \A o \in Op : OpKept(ops'[o], ops[o])
    BY <2>1, RereadKeeps
  <2>3. CASE Return(w)
    BY <2>1, <2>2, <2>3, ReturnWithin, SameVersions, QuietLemma
  <2>4. CASE /\ wk[w].kind = "applyingEnvCanceling"
             /\ wk' = [wk EXCEPT ![w].target = "applyingEnvCancelFailed"]
    <3> DEFINE r == [wk[w] EXCEPT !.target = "applyingEnvCancelFailed"]
               t == IF a = b THEN wk[w].kind ELSE Cached(b).state
    <3>1. wk' = [wk EXCEPT ![w] = r]
      BY <1>1, <2>4
    <3>2. t \in Tasks(b) \cup {Cached(b).state}
      BY <2>1 DEF Tasks
    <3>3. r.app = a /\ r.pc = "write" /\ r.kind = wk[w].kind
          /\ r.target = "applyingEnvCancelFailed"
      BY <1>1, <2>1
    <3>4. a = b => "applyingEnvCancelFailed" \in Life(b)!Results(t)
      BY <2>4, ResultsLemma
    <3>5. WorkerWithin(r, b, Tasks(b) \cup {t}, Owed(b) \cup Life(b)!Results(t))
      BY <3>3, <3>4 DEF WorkerWithin
    <3> QED
      BY <2>1, <2>2, <3>1, <3>2, <3>5, MoveLemma
  <2> QED
    BY <1>8, <2>3, <2>4 DEF WriteFails
<1> QED
  BY <1>3, <1>4, <1>5, <1>6, <1>7, <1>8 DEF Step

-----------------------------------------------------------------------------
(***************************************************************************)
(* The steps of operations.                                                *)
(***************************************************************************)
\* Only operations that wait for a start-up have seen one.
StartedInv ==
    \A o \in Op : ops[o].body = "started" =>
        /\ ops[o].kind \in StartUpKinds
        /\ ops[o].app \in Middleware => ops[o].kind = "installing"

LEMMA StartedStep ==
    ASSUME IInv, StartedInv, [Next]_vars
    PROVE  StartedInv'
<1>1. ops \in [Op -> OpType0]
  BY DEF IInv, RegistryInv
<1>2. ASSUME \A o \in Op : ops'[o].body = "started" =>
               ops[o].body = "started" /\ ops'[o].kind = ops[o].kind /\ ops'[o].app = ops[o].app
      PROVE  StartedInv'
  BY <1>2 DEF StartedInv
<1>3. CASE UNCHANGED ops
  BY <1>2, <1>3
<1>4. ASSUME NEW a \in App, cancelOperation(a)
      PROVE  StartedInv'
  BY <1>1, <1>2, <1>4 DEF cancelOperation, OpType0
<1>5. ASSUME NEW a \in App, NEW kind, register(a, kind)
      PROVE  StartedInv'
  BY <1>1, <1>2, <1>5 DEF register, FreeOp
<1>6. ASSUME NEW w \in Worker, Reread(w)
      PROVE  StartedInv'
  BY <1>1, <1>2, <1>6 DEF Reread, OpType0
<1>7. ASSUME NEW w \in Worker, NEW a \in App, Load(w, a) \/ ExecPolledFails(w, a)
      PROVE  StartedInv'
  <2>1. UNCHANGED ops \/ cancelOperation(a)
    BY <1>7 DEF Load, LoadLeftOver, LoadUnexpected, LoadMismatch, LoadInProgress, LoadIdle,
         LoadNew, Cancel, ExecPolled, ExecPolledFails, ExecCanceling, ExecStopping,
         ExecInstallFailed, forceDeleteApp
  <2> QED
    BY <1>3, <1>4, <2>1
<1>8. ASSUME NEW w \in Worker, Step(w) \/ WriteFails(w)
      PROVE  StartedInv'
  <2>1. CASE CleanUp(w)
    BY <1>1, <1>2, <2>1 DEF CleanUp, OpType0
  <2>2. CASE ExecWatched(w) \/ WaitAsync(w)
    <3>1. wk[w].app \in App
      BY <2>2 DEF ExecWatched, WaitAsync, Executes, IInv, WorkersInv
    <3> QED
      BY <1>3, <1>5, <2>2, <3>1 DEF ExecWatched, WaitAsync
  <2> QED
    BY <1>3, <1>6, <1>8, <2>1, <2>2 DEF Step, ExecPending, Retry, Write, WriteFails
<1>9. ASSUME NEW o \in Op, OpNext(o)
      PROVE  StartedInv'
  <2>1. CASE WaitForStartUp(o)
    <3>1. ops[o].kind \in StartUpKinds /\ (ops[o].app \in Middleware => ops[o].kind = "installing")
      BY <2>1 DEF WaitForStartUp
    <3>2. \A p \in Op : ops'[p].kind = ops[p].kind /\ ops'[p].app = ops[p].app
                        /\ (p # o => ops'[p] = ops[p])
      BY <1>1, <2>1 DEF WaitForStartUp, OpType0
    <3> QED
      BY <3>1, <3>2 DEF StartedInv
  <2>2. CASE Deploy(o) \/ Uninstall(o) \/ Release(o)
    BY <1>1, <1>2, <2>2 DEF Deploy, Uninstall, Release, OpType0
  <2>3. CASE BodyEnd(o) \/ Finally(o) \/ FinallyFails(o)
    <3>1. PICK r \in OpType0 : /\ ops' = [ops EXCEPT ![o] = Settled(r)]
                               /\ r.kind = ops[o].kind /\ r.app = ops[o].app
                               /\ r.body \in {"end", ops[o].body}
      <4>1. CASE BodyEnd(o)
        <5>1. PICK fin \in Finals(o) :
                ops' = [ops EXCEPT ![o] = Settled([@ EXCEPT !.body = "end", !.cancelled = TRUE,
                                                            !.fin = fin])]
          BY <4>1 DEF BodyEnd
        <5>2. fin \in Writable
          BY <4>1, FinalsWritable DEF BodyEnd
        <5>3. [ops[o] EXCEPT !.body = "end", !.cancelled = TRUE, !.fin = fin] \in OpType0
          BY <1>1, <5>2 DEF OpType0
        <5> QED
          BY <1>1, <5>1, <5>3 DEF OpType0
      <4>2. CASE Finally(o) \/ FinallyFails(o)
        <5>1. ops' = [ops EXCEPT ![o] = Settled([ops[o] EXCEPT !.phase = "done"])]
          BY <1>1, <4>2 DEF Finally, FinallyFails
        <5>2. [ops[o] EXCEPT !.phase = "done"] \in OpType0
          BY <1>1 DEF OpType0
        <5> QED
          BY <1>1, <5>1, <5>2 DEF OpType0
      <4> QED
        BY <2>3, <4>1, <4>2
    <3>2. Settled(r) = r \/ Settled(r).body = "end"
      BY DEF Settled, FreeOp
    <3> QED
      BY <1>1, <1>2, <3>1, <3>2
  <2> QED
    BY <1>9, <2>1, <2>2, <2>3 DEF OpNext
<1>10. ASSUME NEW h \in Handler, HandlerNext(h)
       PROVE  UNCHANGED ops
  BY <1>10 DEF HandlerNext, Accept, Commit, HandlerFails
<1>11. ASSUME NEW a \in App, ClusterNext(a)
       PROVE  StartedInv'
  <2>1. CASE Overdue(a)
    BY <1>1, <1>2, <2>1 DEF Overdue, OpType0
  <2> QED
    BY <1>3, <1>11, <2>1 DEF ClusterNext, Deliver, NamespaceGone, NamespaceLost
<1>12. CASE Crash
  BY <1>2, <1>12 DEF Crash, FreeOp
<1> QED
  BY <1>3, <1>7, <1>8, <1>9, <1>10, <1>11, <1>12 DEF Next, vars

\* What is left in `finally` is a result of the operation's state.
LEMMA FinalsAreResults ==
    ASSUME IInv, StartedInv, NEW o \in Op, NEW a \in App, a = ops[o].app, NEW fin \in Finals(o)
    PROVE  fin \in Life(a)!Results(ops[o].kind)
<1> DEFINE s == ops[o].kind
           mw == a \in Middleware
           all == Outcomes(s, mw, ops[o].cancelled)
<1>1. all \subseteq Outcomes(s, mw, TRUE)
  BY DEF Outcomes, InstallingOutcomes, InitializingOutcomes, UpgradingOutcomes,
         ApplyingEnvOutcomes, UninstallingOutcomes, DownloadingOutcomes, ResumingOutcomes,
         InstallingCancelingOutcomes
<1>2. mw /\ s = "installing" =>
        {"running", "installingCanceling", "installFailed"} \subseteq Outcomes(s, mw, TRUE)
  BY DEF Outcomes, InstallingOutcomes
<1>3. \/ fin \in all
      \/ mw /\ s = "installing" /\ fin \in {"running", "installingCanceling", "installFailed"}
      \/ s \in StartUpKinds /\ fin = "initializing"
  BY DEF Finals, StartedInv
<1> QED
  BY <1>1, <1>2, <1>3, ResultsLemma

\* An operation changes alone.
LEMMA OperationWithin ==
    ASSUME IInv, NEW o \in Op, NEW b \in App, NEW r, ops' = [ops EXCEPT ![o] = r],
           UNCHANGED <<wk, req>>, NEW T, NEW O, Tasks(b) \subseteq T, Owed(b) \subseteq O,
           OpKept(r, ops[o]) \/ OpWithin(r, b, T, O)
    PROVE  Within(b, T, O)
<1>1. \A p \in Op : ops'[p] = IF p = o THEN r ELSE ops[p]
  BY DEF IInv, RegistryInv
<1>2. \A p \in Op : OpKept(ops'[p], ops[p]) \/ OpWithin(ops'[p], b, T, O)
  BY <1>1 DEF OpKept
<1> QED
  BY <1>2, WithinLemma

\* The operation reaches a result.
LEMMA ResultImplements ==
    ASSUME IInv, NEW o \in Op, NEW b \in App, NEW r, ops' = [ops EXCEPT ![o] = r],
           UNCHANGED <<versions, wk, req>>, ops[o].phase # "free",
           r.app = ops[o].app, r.kind = ops[o].kind,
           ops[o].app = b => r.fin \in Life(b)!Results(ops[o].kind)
    PROVE  LifeStep(b)
<1> DEFINE t == IF ops[o].app = b THEN ops[o].kind ELSE Cached(b).state
<1>1. t \in Tasks(b) \cup {Cached(b).state}
  BY DEF Tasks
<1>2. OpWithin(r, b, Tasks(b) \cup {t}, Owed(b) \cup Life(b)!Results(t))
  BY DEF OpWithin
<1>3. Within(b, Tasks(b) \cup {t}, Owed(b) \cup Life(b)!Results(t))
  BY <1>2, OperationWithin
<1> QED
  BY <1>1, <1>3, SameVersions, DecideLemma

LEMMA StartUpImplements ==
    ASSUME IInv, NEW o \in Op, NEW b \in App, WaitForStartUp(o)
    PROVE  LifeStep(b)
<1>1. ops \in [Op -> OpType0] /\ ops[o].phase # "free" /\ UNCHANGED <<wk, req>>
      /\ ops[o].kind \in StartUpKinds
  BY DEF WaitForStartUp, Running, IInv, RegistryInv
<1>2. PICK a \in App : a = ops[o].app
  BY <1>1 DEF IInv, RegistryInv
<1>3. CASE a \in Middleware
  <2> DEFINE r == [ops[o] EXCEPT !.body = "started", !.fin = "initializing"]
  <2>1. ops' = [ops EXCEPT ![o] = r] /\ UNCHANGED versions
    BY <1>1, <1>2, <1>3 DEF WaitForStartUp
  <2>2. r.app = ops[o].app /\ r.kind = ops[o].kind /\ r.fin = "initializing"
    BY <1>1 DEF OpType0
  <2>3. "initializing" \in Life(b)!Results(ops[o].kind)
    BY <1>1, ResultsLemma
  <2> QED
    BY <1>1, <2>1, <2>2, <2>3, ResultImplements
<1>4. CASE a \notin Middleware
  <2>1. ops' = [ops EXCEPT ![o] = [ops[o] EXCEPT !.body = "started"]]
        /\ UpdateAppMgrStatus(a, "initializing")
    BY <1>1, <1>2, <1>4 DEF WaitForStartUp
  <2>2. OpKept([ops[o] EXCEPT !.body = "started"], ops[o])
    BY <1>1 DEF OpKept, OpType0
  <2>3. Within(b, Tasks(b), Owed(b))
    BY <1>1, <2>1, <2>2, OperationWithin
  <2>4. "initializing" # NoState /\ "initializing" \in PossibleStates
    BY DEF NoState, PossibleStates, LoadedStates, ImpossibleStates, WatchedStates
  <2>5. [state |-> "initializing", gen |-> Stored(a).gen + 1, late |-> FALSE]
          \in PossibleVersion
    BY <2>4, VersionTypes DEF IInv, PossibleVersion
  <2>6. PICK v \in PossibleVersion : Store(a, v) /\ v.state = "initializing"
    BY <2>1, <2>4, <2>5 DEF UpdateAppMgrStatus
  <2>7. ops[o].kind \in Tasks(a) \cap Life(a)!StartUpTasks
    BY <1>1, <1>2 DEF Tasks, StartUpKinds, Life!StartUpTasks
  <2>8. Life(a)!Become(v.state) => Life(a)!Next
    BY <2>6, <2>7 DEF Life!Next, Life!StartUp
  <2> QED
    BY <2>3, <2>6, <2>8, StoreImplements
<1> QED
  BY <1>3, <1>4

LEMMA FinallyImplements ==
    ASSUME IInv, NEW o \in Op, NEW b \in App, Finally(o) \/ FinallyFails(o)
    PROVE  LifeStep(b)
<1> DEFINE r == Settled([ops[o] EXCEPT !.phase = "done"])
<1>1. ops \in [Op -> OpType0] /\ ops[o].phase = "released" /\ UNCHANGED <<wk, req>>
      /\ ops' = [ops EXCEPT ![o] = r]
  BY DEF Finally, FinallyFails, IInv, RegistryInv
<1>2. PICK a \in App : a = ops[o].app
  BY <1>1 DEF IInv, RegistryInv
<1>3. OpKept(r, ops[o]) \/ OpWithin(r, b, Tasks(b), Owed(b))
  BY <1>1 DEF Settled, OpKept, OpWithin, FreeOp, OpType0
<1>4. Within(b, Tasks(b), Owed(b))
  BY <1>1, <1>3, OperationWithin
<1>5. CASE UNCHANGED versions
  BY <1>4, <1>5, SameVersions, QuietLemma
<1>6. CASE updateStatus(a, ops[o].fin) /\ ops[o].fin # NoState
  <2>1. ops[o].fin \in Writable /\ ops[o].fin \in Owed(a)
    BY <1>1, <1>2 DEF Owed, OpType0
  <2> QED
    BY <1>4, <1>6, <2>1, StatusImplements
<1> QED
  BY <1>2, <1>5, <1>6 DEF Finally, FinallyFails

LEMMA OpsImplement ==
    ASSUME IInv, StartedInv, NEW o \in Op, NEW b \in App, OpNext(o)
    PROVE  LifeStep(b)
<1>1. ops \in [Op -> OpType0]
  BY DEF IInv, RegistryInv
<1>2. CASE Deploy(o) \/ Uninstall(o) \/ Release(o)
  <2>1. UNCHANGED <<versions, wk, req>> /\ \A p \in Op : OpKept(ops'[p], ops[p])
    BY <1>1, <1>2 DEF Deploy, Uninstall, Release, OpKept, OpType0
  <2> QED
    BY <2>1, StutterLemma
<1>3. CASE BodyEnd(o)
  <2>1. PICK fin \in Finals(o) :
          ops' = [ops EXCEPT ![o] = Settled([@ EXCEPT !.body = "end", !.cancelled = TRUE,
                                                      !.fin = fin])]
    BY <1>3 DEF BodyEnd
  <2> DEFINE q == [ops[o] EXCEPT !.body = "end", !.cancelled = TRUE, !.fin = fin]
  <2>2. /\ UNCHANGED <<versions, wk, req>> /\ ops[o].phase # "free"
        /\ ops' = [ops EXCEPT ![o] = Settled(q)]
        /\ q.app = ops[o].app /\ q.kind = ops[o].kind /\ q.fin = fin
    <3>1. UNCHANGED <<versions, wk, req>> /\ ops[o].phase # "free"
      BY <1>3 DEF BodyEnd, Running
    <3>2. ops' = [ops EXCEPT ![o] = Settled(q)]
      BY <1>1, <2>1
    <3>3. q.app = ops[o].app /\ q.kind = ops[o].kind /\ q.fin = fin
      BY <1>1 DEF OpType0
    <3> QED
      BY <3>1, <3>2, <3>3
  <2>3. PICK a \in App : a = ops[o].app
    BY <2>2 DEF IInv, RegistryInv
  <2>4. CASE Settled(q) = q
    <3>1. ops[o].app = b => q.fin \in Life(b)!Results(ops[o].kind)
      BY <2>2, FinalsAreResults
    <3> QED
      BY <2>2, <2>4, <3>1, ResultImplements
  <2>5. CASE Settled(q) = FreeOp
    <3>1. OpWithin(FreeOp, b, Tasks(b), Owed(b))
      BY DEF OpWithin, FreeOp
    <3>2. ops' = [ops EXCEPT ![o] = FreeOp]
      BY <2>2, <2>5
    <3>3. Within(b, Tasks(b), Owed(b))
      BY <2>2, <3>1, <3>2, OperationWithin
    <3> QED
      BY <2>2, <3>3, SameVersions, QuietLemma
  <2> QED
    BY <2>4, <2>5 DEF Settled
<1> QED
  BY <1>2, <1>3, StartUpImplements, FinallyImplements DEF OpNext

-----------------------------------------------------------------------------
(***************************************************************************)
(* The steps of API handlers and of the cluster.                           *)
(***************************************************************************)
LEMMA RequestedAgrees ==
    ASSUME NEW a \in App, NEW s, NEW op \in OperationAllowedInState(s)
    PROVE  RequestedState(op, s) \in Life(a)!Requested(s)
<1>1. Life(a)!OperationAllowedInState(s) = OperationAllowedInState(s)
  BY DEF Life!OperationAllowedInState, OperationAllowedInState, InstallableStates,
         Life!InstallableStates, CancelableStates, Life!CancelableStates, NoState, Life!NoState
<1>2. Life(a)!CancelState(s) = CancelState(s)
  BY DEF Life!CancelState, CancelState, NoState, Life!NoState
<1>3. Life(a)!RequestedState(op, s) = RequestedState(op, s)
  BY <1>2 DEF Life!RequestedState, RequestedState
<1> QED
  BY <1>1, <1>3 DEF Life!Requested

LEMMA AcceptImplements ==
    ASSUME IInv, NEW h \in Handler, NEW b \in App, NEW op \in UserOps, NEW a \in App,
           Accept(h, op, a)
    PROVE  LifeStep(b)
<1> DEFINE s == RequestedState(op, Checked(a, op))
           R == IF a = b THEN {s} ELSE {}
<1>1. UNCHANGED <<versions, wk, ops>> /\ req' = [req EXCEPT ![h] = [app |-> a, target |-> s]]
      /\ op \in OperationAllowedInState(Checked(a, op))
  BY DEF Accept, IsOperationAllowed
<1>2. Checked(a, op) \in {Cached(a).state, Stored(a).state}
  BY DEF Checked
<1>3. \A g \in Handler : req'[g] = req[g] \/ req'[g] = [app |-> a, target |-> s]
  BY <1>1 DEF IInv, RequestsInv
<1>4. \A g \in Handler : req'[g] \in {req[g], NoRequest}
                         \/ RequestWithin(req'[g], b, Owed(b) \cup R)
  BY <1>3 DEF RequestWithin
<1>5. Within(b, Tasks(b), Owed(b) \cup R)
  <2>1. \A o \in Op : OpKept(ops'[o], ops[o])
    BY <1>1 DEF OpKept
  <2> HIDE DEF R
  <2> QED
    BY <1>1, <1>4, <2>1, WithinLemma
<1>6. CASE a = b
  <2>1. s \in Life(b)!Requested(Cached(b).state) \cup Life(b)!Requested(Stored(b).state)
    BY <1>1, <1>2, <1>6, RequestedAgrees
  <2>2. Owed(b)' \subseteq Owed(b) \cup {s} /\ Tasks(b)' = Tasks(b)
    BY <1>1, <1>5, <1>6, WithinMeans DEF Tasks
  <2>3. StatesKept(b)
    BY <1>1, SameVersions
  <2>4. Life(b)!Ask
    BY <2>1, <2>2, <2>3 DEF Life!Ask, StatesKept
  <2> QED
    BY <2>4 DEF LifeStep, Life!Next
<1>7. CASE a # b
  BY <1>1, <1>5, <1>7, SameVersions, QuietLemma
<1> QED
  BY <1>6, <1>7

LEMMA HandlersImplement ==
    ASSUME IInv, NEW h \in Handler, NEW b \in App, HandlerNext(h)
    PROVE  LifeStep(b)
<1>1. CASE Commit(h) \/ HandlerFails(h)
  <2>1. /\ UNCHANGED <<wk, ops>> /\ req[h] # NoRequest
        /\ req' = [req EXCEPT ![h] = NoRequest]
        /\ req \in [Handler -> [app : App \cup {None}, target : Writable]]
    BY <1>1 DEF Commit, HandlerFails, IInv, RequestsInv
  <2>2. \A o \in Op : OpKept(ops'[o], ops[o])
    BY <2>1 DEF OpKept
  <2>3. \A g \in Handler : req'[g] \in {req[g], NoRequest}
    BY <2>1
  <2>4. Within(b, Tasks(b), Owed(b))
    BY <2>1, <2>2, <2>3, WithinLemma
  <2>5. CASE HandlerFails(h)
    BY <2>4, <2>5, SameVersions, QuietLemma DEF HandlerFails
  <2>6. CASE Commit(h)
    <3>1. PICK a \in App : a = req[h].app
      BY <2>1 DEF IInv, RequestsInv
    <3>2. req[h].target \in Writable /\ req[h].target \in Owed(a)
      BY <2>1, <3>1 DEF Owed
    <3>3. UpdateAppMgrStatus(a, req[h].target)
      BY <2>6, <3>1 DEF Commit
    <3> QED
      BY <2>4, <3>2, <3>3, StatusImplements
  <2> QED
    BY <1>1, <2>5, <2>6
<1> QED
  BY <1>1, AcceptImplements DEF HandlerNext

\* A cache that catches up shows one of the states that it has yet to show.
LEMMA DeliverImplements ==
    ASSUME IInv, NEW a \in App, NEW b \in App, Deliver(a)
    PROVE  LifeStep(b)
<1> DEFINE v == versions[a]
           n == Len(v) - 1
           u == [i \in 1 .. n |-> [v[i + 1] EXCEPT !.gen = @ - v[2].gen]]
<1>1. /\ Len(v) > 1 /\ versions' = [versions EXCEPT ![a] = u]
      /\ UNCHANGED <<wk, ops, req>>
  BY DEF Deliver
<1>2. v \in Seq(PossibleVersion) /\ versions \in [App -> Seq(PossibleVersion)]
  BY DEF IInv, VersionsInv
<1>3. n \in Nat \ {0} /\ n + 1 = Len(v) /\ DOMAIN v = 1 .. n + 1
  BY <1>1, <1>2
<1>4. \A i \in 1 .. n : v[i + 1] \in PossibleVersion
  <2>1. \A i \in 1 .. n : i + 1 \in 1 .. Len(v)
    BY <1>3
  <2> QED
    BY <1>2, <2>1, ElementOfSeq
<1>5. \A i \in 1 .. n : u[i].state = v[i + 1].state
  BY <1>4 DEF PossibleVersion
<1>6. DOMAIN u = 1 .. n /\ Len(u) = n /\ Head(u) = u[1]
  <2>1. u \in [1 .. n -> {u[i] : i \in 1 .. n}]
    OBVIOUS
  <2>2. u \in Seq({u[i] : i \in 1 .. n})
    BY <1>3, <2>1, SeqDef
  <2> HIDE DEF u, n
  <2> QED
    BY <1>3, <2>1, <2>2, LenProperties
<1>7. versions'[a] = u /\ \A c \in App : c # a => versions'[c] = versions[c]
  BY <1>1, <1>2
<1>8. Tasks(b)' = Tasks(b) /\ Owed(b)' = Owed(b)
  BY <1>1 DEF Tasks, Owed
<1>9. CASE b # a
  <2>1. StatesKept(b)
    BY <1>7, <1>9, SameVersions
  <2> QED
    BY <1>8, <2>1 DEF StatesKept, LifeStep, Life!vars
<1>10. CASE b = a
  <2> HIDE DEF u, n, v
  <2>1. u[n].state = v[n + 1].state
    BY <1>3, <1>5
  <2>2. Stored(a)'.state = Stored(a).state
    BY <1>3, <1>6, <1>7, <2>1 DEF Stored, v
  <2>3. {versions[a][i].state : i \in DOMAIN versions[a]}' = {u[i].state : i \in 1 .. n}
    BY <1>6, <1>7
  <2>4. Cached(a)'.state = u[1].state
    BY <1>6, <1>7 DEF Cached
  <2>5. /\ Cached(a)'.state \in {u[i].state : i \in 1 .. n}
        /\ Stored(a).state \in {u[i].state : i \in 1 .. n}
    BY <1>3, <1>6, <1>7, <2>2, <2>4 DEF Stored
  <2>6. \A i \in 1 .. n : i + 1 \in DOMAIN versions[a] /\ u[i].state = versions[a][i + 1].state
    BY <1>3, <1>5 DEF v
  <2>7. {u[i].state : i \in 1 .. n} \subseteq {versions[a][i].state : i \in DOMAIN versions[a]}
    BY <2>6
  <2>8. Life(a)!Deliver
    BY <1>8, <1>10, <2>2, <2>3, <2>5, <2>7 DEF Life!Deliver
  <2> QED
    BY <1>10, <2>8 DEF LifeStep, Life!Next
<1> QED
  BY <1>9, <1>10

LEMMA ClusterImplements ==
    ASSUME IInv, NEW a \in App, NEW b \in App, ClusterNext(a)
    PROVE  LifeStep(b)
<1>1. CASE Overdue(a)
  <2>1. ops \in [Op -> OpType0] /\ versions \in [App -> Seq(PossibleVersion)]
        /\ \A c \in App : Len(versions[c]) \in Nat \ {0}
    BY ConstantsAssumption DEF IInv, RegistryInv, VersionsInv
  <2>2. UNCHANGED <<wk, req>> /\ \A o \in Op : OpKept(ops'[o], ops[o])
    BY <1>1, <2>1 DEF Overdue, OpKept, OpType0
  <2>3. Within(b, Tasks(b), Owed(b))
    BY <2>2, WithinLemma
  <2>4. CASE b # a
    <3>1. versions'[b] = versions[b]
      BY <1>1, <2>1, <2>4 DEF Overdue
    <3> QED
      BY <2>3, <3>1, SameVersions, QuietLemma
  <2>5. CASE b = a
    <3> DEFINE v == versions[b]
               u == [i \in DOMAIN v |-> [v[i] EXCEPT !.late = TRUE]]
    <3>1. versions'[b] = u
      BY <1>1, <2>1, <2>5 DEF Overdue
    <3>2. v \in Seq(PossibleVersion) /\ Len(v) \in Nat \ {0} /\ DOMAIN v = 1 .. Len(v)
      BY <2>1
    <3>3. \A i \in DOMAIN v : v[i] \in PossibleVersion
      BY <3>2, ElementOfSeq
    <3>4. \A i \in DOMAIN v : u[i] \in PossibleVersion /\ u[i].state = v[i].state
      BY <3>3 DEF PossibleVersion
    <3>5. DOMAIN u = DOMAIN v
      OBVIOUS
    <3>6. u \in [1 .. Len(v) -> PossibleVersion]
      BY <3>2, <3>4
    <3> HIDE DEF u, v
    <3>7. u \in Seq(PossibleVersion) /\ Len(u) = Len(v)
      BY <3>2, <3>6, SeqDef, LenProperties
    <3>8. Head(u) = u[1] /\ Head(v) = v[1]
      BY <3>2, <3>7
    <3>9. StatesKept(b)
      <4>1. Stored(b)'.state = Stored(b).state
        BY <3>1, <3>2, <3>4, <3>7 DEF Stored, v
      <4>2. Cached(b)'.state = Cached(b).state
        BY <3>1, <3>2, <3>4, <3>8 DEF Cached, v
      <4>3. {versions[b][i].state : i \in DOMAIN versions[b]}'
              = {versions[b][i].state : i \in DOMAIN versions[b]}
        BY <3>1, <3>4, <3>5 DEF v
      <4> QED
        BY <4>1, <4>2, <4>3 DEF StatesKept
    <3> QED
      BY <2>3, <3>9, QuietLemma
  <2> QED
    BY <2>4, <2>5
<1>2. CASE NamespaceGone(a) \/ NamespaceLost(a)
  <2>1. UNCHANGED <<versions, wk, req, ops>>
    BY <1>2 DEF NamespaceGone, NamespaceLost
  <2>2. \A o \in Op : OpKept(ops'[o], ops[o])
    BY <2>1 DEF OpKept
  <2> QED
    BY <2>1, <2>2, StutterLemma
<1> QED
  BY <1>1, <1>2, DeliverImplements DEF ClusterNext

LEMMA CrashImplements ==
    ASSUME IInv, NEW b \in App, Crash
    PROVE  LifeStep(b)
<1> DEFINE v == [Stored(b) EXCEPT !.gen = 0]
<1>1. versions'[b] = <<v>> /\ v.state = Stored(b).state
  BY VersionTypes DEF IInv, Crash, PossibleVersion
<1>2. wk' = [w \in Worker |-> IdleWorker] /\ ops' = [o \in Op |-> FreeOp]
      /\ req' = [h \in Handler |-> NoRequest]
  BY DEF Crash
<1>3. Tasks(b)' = {} /\ Owed(b)' = {}
  BY <1>2 DEF Tasks, Owed, IdleWorker, FreeOp
<1> HIDE DEF v
<1>4. Stored(b)'.state = v.state /\ Cached(b)'.state = v.state
  BY <1>1 DEF Stored, Cached
<1>5. {versions[b][i].state : i \in DOMAIN versions[b]}' = {v.state}
  BY <1>1
<1>6. Life(b)!Restart
  BY <1>1, <1>3, <1>4, <1>5 DEF Life!Restart
<1> QED
  BY <1>6 DEF LifeStep, Life!Next

LEMMA NextImplements ==
    ASSUME IInv, TargetInv, StartedInv, [Next]_vars, NEW b \in App
    PROVE  LifeStep(b)
<1>1. CASE UNCHANGED vars
  <2>1. UNCHANGED <<versions, wk, req, ops>>
    BY <1>1 DEF vars
  <2>2. \A o \in Op : OpKept(ops'[o], ops[o])
    BY <2>1 DEF OpKept
  <2> QED
    BY <2>1, <2>2, StutterLemma
<1> QED
  BY <1>1, LoadsImplement, StepsImplement, OpsImplement, HandlersImplement, ClusterImplements,
     CrashImplements DEF Next

LEMMA InitImplements ==
    ASSUME Init, NEW b \in App
    PROVE  Life(b)!Init /\ TargetInv /\ StartedInv
<1>1. PICK s \in [App -> InitStates] :
        versions = [a \in App |-> <<[state |-> s[a], gen |-> 0, late |-> FALSE]>>]
  BY DEF Init
<1>2. s[b] \in Life(b)!PossibleStates
  <2>1. s[b] \in PossibleStates
    BY ConstantsAssumption
  <2>2. Life(b)!PossibleStates = PossibleStates
    BY DEF Life!PossibleStates, Life!LoadedStates, Life!ImpossibleStates, Life!NoState,
           Life!DoNothingStates, Life!WatchedStates, Life!PolledStates, Life!SuspendAgainStates,
           Life!ForceDeleteStates, Life!CancelingStates,
           PossibleStates, LoadedStates, ImpossibleStates, NoState,
           DoNothingStates, WatchedStates, PolledStates, SuspendAgainStates,
           ForceDeleteStates, CancelingStates
  <2> QED
    BY <2>1, <2>2
<1>3. wk = [w \in Worker |-> IdleWorker] /\ ops = [o \in Op |-> FreeOp]
      /\ req = [h \in Handler |-> NoRequest]
  BY DEF Init
<1>4. Tasks(b) = {} /\ Owed(b) = {} /\ TargetInv /\ StartedInv
  BY <1>3 DEF Tasks, Owed, IdleWorker, FreeOp, TargetInv, StartedInv
<1>5. Stored(b).state = s[b] /\ Cached(b).state = s[b]
      /\ {versions[b][i].state : i \in DOMAIN versions[b]} = {s[b]}
  BY <1>1 DEF Stored, Cached
<1> QED
  BY <1>2, <1>4, <1>5 DEF Life!Init

-----------------------------------------------------------------------------
\* AppManager implements AppLifecycle: whatever reconcilers, operations,
\* requests, stale caches, timeouts, failing writes and restarts do together,
\* a status is only written that is owed, and a download begins in pending.
THEOREM LifecycleImplemented == Spec => ImplementsLifecycle
<1>1. Init => (\A a \in App : Life(a)!Init) /\ TargetInv /\ StartedInv
  <2>1. Init => TargetInv /\ StartedInv
    BY DEF Init, TargetInv, StartedInv, IdleWorker, FreeOp
  <2> QED
    BY <2>1, InitImplements
<1>2. IInv /\ TargetInv /\ StartedInv /\ [Next]_vars
        => /\ TargetInv' /\ StartedInv'
           /\ [\A a \in App : [Life(a)!Next]_(Life(a)!vars)]_vars
  BY TargetStep, StartedStep, NextImplements DEF LifeStep
<1> QED
  BY Invariance, <1>1, <1>2, PTL DEF Spec, ImplementsLifecycle
=============================================================================
