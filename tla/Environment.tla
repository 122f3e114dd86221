----------------------------- MODULE Environment -----------------------------
(***************************************************************************)
(* Environment variables of applications.  A SystemEnv belongs to the      *)
(* cluster and a UserEnv to a user; an AppEnv lists the variables of one   *)
(* application, of which some refer to a SystemEnv or UserEnv by name.     *)
(* Users and administrators edit all three through the API server.  The    *)
(* controllers of the sources annotate the AppEnvs that refer to a changed *)
(* source; the AppEnv controller copies the values, and asks for an        *)
(* ApplyEnv operation when a variable has to be applied on change.  The    *)
(* operation hands the values to helm.                                     *)
(*                                                                         *)
(* Everybody but the helm operation reads an informer's cache and writes a *)
(* JSON merge patch: the fields in which the new object differs from the   *)
(* object that was read, a list as a whole, whatever the server holds.     *)
(***************************************************************************)
EXTENDS AppStates, Integers, Sequences

CONSTANTS
    User, System,       \* the owners of sources: the users, and the cluster
    Name,               \* names of UserEnvs and SystemEnvs
    Source,             \* the sources there may be: pairs of an owner and a name
    Base,               \* the UserEnvs that users with applications begin with
    Value,              \* the values besides the empty one
    Edit,               \* the values that requests ask for
    App,                \* the applications
    Owner,              \* the user each belongs to
    FirstRefs, Refs,    \* names each refers to when installed, and once upgraded
    OnChange,           \* the variables of each with applyOnChange
    Required,           \* names of which the source is required
    Default,            \* the default of each name, or Empty
    Handler,            \* requests for a batch of UserEnvs in progress
    MaxLag,             \* bound: versions that the cache has yet to receive
    MaxRequests,        \* bound: accepted requests of users
    MaxFaults,          \* bound: failing calls and crashes
    MaxEvents           \* bound: requests and faults together

Empty == ""
None == "none"
Own == "own"

ASSUME SourceAssumption ==
    /\ {System, None} \cap User = {}
    /\ Source \subseteq (User \cup {System}) \X Name
    /\ Base \subseteq Source
    /\ Own \notin Name
    /\ {Empty, None} \cap Value = {}
    /\ Edit \subseteq Value \cup {Empty}

ASSUME AppAssumption ==
    /\ Owner \in [App -> User]
    /\ Refs \in [App -> SUBSET Name]
    /\ FirstRefs \in [App -> SUBSET Name]
    /\ OnChange \in [App -> SUBSET (Name \cup {Own})]
    /\ Default \in [Name -> Value \cup {Empty}]

ASSUME LagAssumption == MaxLag \in Nat

VARIABLES
    src,        \* the sources
    appEnv,     \* versions of an AppEnv: the cached one first, the stored one last
    srcQueue,   \* work queues of the SystemEnv and the UserEnv controller
    annotator,  \* worker of each of the two: the AppEnvs it still has to annotate
    appQueue,   \* work queue of the AppEnv controller
    wk,         \* its worker
    lease,      \* the batch lease of a user: "free", "held" or "expired"
    batch,      \* the batch requests in progress
    am,         \* state of the application's ApplicationManager
    op,         \* the helm operation of the application
    deployed,   \* the values helm deployed
    blind,      \* ghost: AppEnvs with an edit that a patch has missed, or will
    deleted,    \* ghost: sources deleted by a request
    requests, faults

sources == <<src, srcQueue>>
workers == <<annotator, appQueue, wk>>
clients == <<lease, batch, requests, deleted>>
helm == <<am, op, deployed>>
vars == <<appEnv, sources, workers, clients, helm, blind, faults>>

-----------------------------------------------------------------------------
(***************************************************************************)
(* Objects.                                                                *)
(***************************************************************************)
Spec0 == [value |-> None, default |-> Empty]
Latest(v) == v[Len(v)]

SourceExists(spec) == spec.value # None

GetEffectiveValue(spec) == IF spec.value # Empty THEN spec.value ELSE spec.default

Systems == {s \in Source : s[1] = System}

NoEnv == [env |-> <<>>, need |-> FALSE, sync |-> FALSE, present |-> FALSE]
Cached(a) == Head(appEnv[a])
Stored(a) == Latest(appEnv[a])

Pending == [value |-> Empty, status |-> "pending"]

IdleWorker == [pc |-> "idle", app |-> None, obj |-> NoEnv]
IdleAnnotator == [source |-> <<>>, todo |-> {}, failed |-> FALSE]
IdleBatch == [user |-> None, todo |-> {}, value |-> Empty, locks |-> FALSE, safe |-> FALSE]
NoOp == [pc |-> "none", values |-> <<>>, fresh |-> FALSE]

\* The owner whose controller has this source in its queue.
KindOf(s) == IF s[1] = System THEN "system" ELSE "user"

-----------------------------------------------------------------------------
(***************************************************************************)
(* Writes.                                                                 *)
(***************************************************************************)
\* Every change of a source wakes the controllers of the source.
WriteSource(s, spec) ==
    /\ src' = [src EXCEPT ![s] = spec]
    /\ srcQueue' = srcQueue \cup {s}

\* An operation that read the AppEnv before holds an outdated resource version.
\* A cache that would fall further behind skips the version before.
WriteAppEnv(a, object) ==
    appEnv' = [appEnv EXCEPT ![a] = Append(IF Len(@) > MaxLag THEN SubSeq(@, 1, MaxLag) ELSE @, object)]

Outdate(a) == op' = [op EXCEPT ![a].fresh = FALSE]

\* client.MergeFrom(base): only what differs from the object that was read.
Merged(stored, base, new) ==
    [env |-> IF new.env # base.env THEN new.env ELSE stored.env,
     need |-> IF new.need # base.need THEN new.need ELSE stored.need,
     sync |-> IF new.sync # base.sync THEN new.sync ELSE stored.sync,
     present |-> TRUE]

\* The patch undoes, or hides from the next apply, an edit it did not read.
Misses(stored, base, new) ==
    \/ /\ stored.env # base.env
       /\ new.env # base.env \/ (base.need /\ ~new.need)
    \/ base.need /\ new.need /\ ~stored.need

\* An edit brings back the variables that the worker has read, and is about to
\* mark as applied: the edit between, which the operation has read, is missed.
Restores(a, env) ==
    wk.pc = "mark" /\ wk.app = a /\ Stored(a).env # env /\ env = wk.obj.env

PatchAppEnv(a, base, new) ==
    LET object == Merged(Stored(a), base, new) IN
    /\ Stored(a).present
    /\ WriteAppEnv(a, object)
    /\ Outdate(a)
    /\ blind' = IF Misses(Stored(a), base, new) \/ Restores(a, object.env) THEN blind \cup {a} ELSE blind

Events == requests + faults

Fault == faults < MaxFaults /\ Events < MaxEvents /\ faults' = faults + 1

Request == requests < MaxRequests /\ Events < MaxEvents /\ requests' = requests + 1

-----------------------------------------------------------------------------
(***************************************************************************)
(* Sources: the requests on SystemEnvs and UserEnvs.                       *)
(***************************************************************************)
CreateEnv(s, value) ==
    /\ Request
    /\ ~SourceExists(src[s])
    /\ WriteSource(s, [Spec0 EXCEPT !.value = value])
    /\ deleted' = deleted \ {s}
    /\ UNCHANGED <<workers, helm, appEnv, lease, batch, blind, faults>>

\* A SystemEnv that is required may be emptied when it has a default, a UserEnv
\* when it has an effective value.
KeepsRequired(s, spec, value) ==
    \/ s[2] \notin Required
    \/ value # Empty
    \/ IF s[1] = System THEN spec.default # Empty ELSE GetEffectiveValue(spec) # Empty

\* The write of the value, which has no effect when it is already the present one.
SetValue(s, value) ==
    /\ SourceExists(src[s])
    /\ KeepsRequired(s, src[s], value)
    /\ IF src[s].value = value
       THEN UNCHANGED sources
       ELSE WriteSource(s, [src[s] EXCEPT !.value = value])

UpdateEnv(s, value) ==
    /\ Request
    /\ src[s].value # value
    /\ SetValue(s, value)
    /\ UNCHANGED <<workers, helm, appEnv, lease, batch, deleted, blind, faults>>

DeleteEnv(s) ==
    /\ Request
    /\ SourceExists(src[s])
    /\ s[2] \notin Required
    /\ WriteSource(s, Spec0)
    /\ deleted' = deleted \cup {s}
    /\ UNCHANGED <<workers, helm, appEnv, lease, batch, blind, faults>>

-----------------------------------------------------------------------------
(***************************************************************************)
(* A batch of UserEnvs.  It takes the user's lease when that is free or    *)
(* expired, goes on without it otherwise, and deletes whatever lease there *)
(* is at the end.                                                          *)
(***************************************************************************)
BatchesOf(u) == {h \in Handler : batch[h].user = u}

\* The controller has found the lease free and is about to ask for the apply.
Passed(u) == wk.pc = "trigger" /\ Owner[wk.app] = u

Several(names) == \E n, m \in names : n # m

acquireUserEnvBatchLease(u) == lease' = [lease EXCEPT ![u] = "held"]

releaseLease(u) == lease' = [lease EXCEPT ![u] = "free"]

\* Taking the lease may fail: the batch then goes on, and releases none.
StartBatch(h, u, names, value) ==
    /\ Request
    /\ batch[h] = IdleBatch
    /\ names # {}
    /\ \E locks \in BOOLEAN :
         /\ batch' = [g \in Handler |->
                       IF g = h THEN [user |-> u, todo |-> names, value |-> value,
                                      locks |-> locks, safe |-> BatchesOf(u) = {} /\ ~Passed(u)]
                       ELSE IF batch[g].user = u THEN [batch[g] EXCEPT !.safe = FALSE]
                       ELSE batch[g]]
         /\ IF locks
            THEN Several(names) /\ acquireUserEnvBatchLease(u) /\ UNCHANGED faults
            ELSE IF Several(names) THEN Fault /\ UNCHANGED lease ELSE UNCHANGED <<lease, faults>>
    /\ UNCHANGED <<sources, workers, helm, appEnv, deleted, blind>>

EndBatch(h) ==
    /\ batch' = [batch EXCEPT ![h] = IdleBatch]
    /\ IF batch[h].locks THEN releaseLease(batch[h].user) ELSE UNCHANGED lease

\* One iteration of the loop; the request ends with the first refusal.
BatchStep(h) ==
    /\ batch[h].user # None
    /\ \/ \E n \in batch[h].todo :
            LET s == <<batch[h].user, n>> IN
            /\ \/ /\ SetValue(s, batch[h].value)
                  /\ IF batch[h].todo = {n}
                     THEN EndBatch(h)
                     ELSE /\ batch' = [batch EXCEPT ![h].todo = @ \ {n}]
                          /\ UNCHANGED lease
               \/ /\ ~(SourceExists(src[s]) /\ KeepsRequired(s, src[s], batch[h].value))
                  /\ EndBatch(h)
                  /\ UNCHANGED sources
            /\ UNCHANGED faults
       \/ Fault /\ EndBatch(h) /\ UNCHANGED sources
    /\ UNCHANGED <<workers, helm, appEnv, requests, deleted, blind>>

\* Five seconds after it was taken.
ExpireLease(u) ==
    /\ lease[u] = "held"
    /\ lease' = [lease EXCEPT ![u] = "expired"]
    /\ batch' = [h \in Handler |-> IF batch[h].user = u THEN [batch[h] EXCEPT !.safe = FALSE] ELSE batch[h]]
    /\ UNCHANGED <<sources, workers, helm, appEnv, requests, deleted, blind, faults>>

-----------------------------------------------------------------------------
(***************************************************************************)
(* Requests on an application: its own variable, its installation, an      *)
(* upgrade, and ApplyEnv.                                                  *)
(***************************************************************************)
\* The variables an AppEnv begins with: those that refer to a source have no
\* value yet.
Declared(names) == [v \in names \cup {Own} |->
                      IF v = Own THEN [value |-> Empty, status |-> "own"] ELSE Pending]

updateAppEnv(a, value) ==
    LET base == Cached(a) IN
    /\ Request
    /\ base.present
    /\ base.env[Own].value # value
    /\ PatchAppEnv(a, base,
                   [base EXCEPT !.env[Own].value = value,
                                !.need = @ \/ Own \in OnChange[a]])
    /\ UNCHANGED <<sources, workers, lease, batch, deleted, am, deployed, faults>>

\* The value a name refers to: a UserEnv hides a SystemEnv, also an empty one.
Referred(u, n) ==
    LET present == {s \in Source : s[2] = n /\ s[1] \in {u, System} /\ SourceExists(src[s])} IN
    IF present = {} THEN None
    ELSE GetEffectiveValue(src[CHOOSE s \in present : <<u, n>> \in present => s[1] = u])

CheckAppEnvs(a) == \A n \in FirstRefs[a] \cap Required : Referred(Owner[a], n) \notin {None, Empty}

StartOp(a) == op' = [op EXCEPT ![a] = [pc |-> "get", values |-> <<>>, fresh |-> FALSE]]

\* ApplyAppEnv: an AppEnv that is missing is created, one that is there gets the
\* variables it lacks, added to the list that was read.
ApplyAppEnv(a, names) ==
    LET base == Cached(a)
        added == names \ DOMAIN base.env
        new == [base EXCEPT !.env = [v \in DOMAIN @ \cup added |->
                                       IF v \in added THEN Pending ELSE base.env[v]]] IN
    IF ~base.present
    THEN /\ ~Stored(a).present
         /\ WriteAppEnv(a, [NoEnv EXCEPT !.env = Declared(names), !.present = TRUE])
         /\ UNCHANGED blind
    ELSE IF added = {}
    THEN UNCHANGED <<appEnv, blind>>
    ELSE /\ WriteAppEnv(a, Merged(Stored(a), base, new))
         /\ blind' = IF Misses(Stored(a), base, new) THEN blind \cup {a} ELSE blind

\* The AppEnv is written before the ApplicationManager asks for the operation.
Install(a) ==
    /\ Request
    /\ IsOperationAllowed(am[a], "install")
    /\ CheckAppEnvs(a)
    /\ ApplyAppEnv(a, FirstRefs[a])
    /\ am' = [am EXCEPT ![a] = "installing"]
    /\ StartOp(a)
    /\ UNCHANGED <<sources, workers, lease, batch, deleted, deployed, faults>>

Upgrade(a) ==
    /\ Request
    /\ IsOperationAllowed(am[a], "upgrade")
    /\ ApplyAppEnv(a, Refs[a])
    /\ am' = [am EXCEPT ![a] = "upgrading"]
    /\ StartOp(a)
    /\ UNCHANGED <<sources, workers, lease, batch, deleted, deployed, faults>>

appApplyEnv(a) ==
    /\ Request
    /\ IsOperationAllowed(am[a], "applyEnv")
    /\ am' = [am EXCEPT ![a] = "applyingEnv"]
    /\ StartOp(a)
    /\ UNCHANGED <<sources, workers, appEnv, lease, batch, deleted, deployed, blind, faults>>

-----------------------------------------------------------------------------
(***************************************************************************)
(* The helm operation.  It reads the AppEnv from the server, and clears    *)
(* NeedApply with an update that fails when somebody wrote it since.       *)
(***************************************************************************)
AddEnvironmentVariables(a) ==
    /\ op[a].pc = "get"
    /\ op' = [op EXCEPT ![a] =
                [pc |-> IF Stored(a).need THEN "update" ELSE "upgrade",
                 values |-> [v \in DOMAIN Stored(a).env |-> Stored(a).env[v].value],
                 fresh |-> TRUE]]
    /\ UNCHANGED <<sources, workers, clients, appEnv, am, deployed, blind, faults>>

\* Mutant: NeedApply is patched away whatever was written since.
ClearNeedApplyBlindly(a) ==
    /\ op[a].pc = "update"
    /\ op' = [op EXCEPT ![a].pc = "upgrade"]
    /\ WriteAppEnv(a, [Stored(a) EXCEPT !.need = FALSE])
    /\ UNCHANGED <<sources, workers, clients, am, deployed, blind, faults>>

ClearNeedApply(a) ==
    /\ op[a].pc = "update"
    /\ op' = [op EXCEPT ![a].pc = "upgrade"]
    /\ IF op[a].fresh
       THEN WriteAppEnv(a, [Stored(a) EXCEPT !.need = FALSE])
       ELSE UNCHANGED appEnv
    /\ UNCHANGED <<sources, workers, clients, am, deployed, blind, faults>>

\* Mutant: the name is put together.
FailedStateMisspelled(s) == s \o "Failed"

FailedState(s) ==
    CASE s = "installing" -> "installFailed"
      [] s = "upgrading" -> "upgradeFailed"
      [] s = "applyingEnv" -> "applyEnvFailed"

\* The chart is installed or upgraded with the values, and comes up or does not.
ApplyEnv(a) ==
    /\ op[a].pc = "upgrade"
    /\ op' = [op EXCEPT ![a] = NoOp]
    /\ \/ /\ am' = [am EXCEPT ![a] = "initializing"]
          /\ deployed' = [deployed EXCEPT ![a] = op[a].values]
          /\ UNCHANGED faults
       \/ /\ Fault
          /\ am' = [am EXCEPT ![a] = FailedState(@)]
          /\ UNCHANGED deployed
    /\ UNCHANGED <<sources, workers, clients, appEnv, blind>>

Initialized(a) ==
    /\ am[a] = "initializing"
    /\ am' = [am EXCEPT ![a] = "running"]
    /\ UNCHANGED <<sources, workers, clients, appEnv, op, deployed, blind, faults>>

-----------------------------------------------------------------------------
(***************************************************************************)
(* The controllers of SystemEnvs and UserEnvs: for a source that exists,   *)
(* annotate every AppEnv that refers to it and is not annotated yet.       *)
(***************************************************************************)
isReferenced(a, n) == n \in DOMAIN Cached(a).env \ {Own}

References(s) ==
    {a \in App : /\ isReferenced(a, s[2])
                 /\ s[1] # System => Owner[a] = s[1]
                 /\ ~Cached(a).sync}

ReconcileSource(s) ==
    LET k == KindOf(s) IN
    /\ s \in srcQueue
    /\ annotator[k] = IdleAnnotator
    /\ srcQueue' = srcQueue \ {s}
    /\ annotator' = IF SourceExists(src[s]) /\ References(s) # {}
                    THEN [annotator EXCEPT ![k] = [source |-> s, todo |-> References(s), failed |-> FALSE]]
                    ELSE annotator
    /\ UNCHANGED <<clients, helm, src, appEnv, appQueue, wk, blind, faults>>

\* Mutant: the failures are only logged.
KeysWithoutRetry(s, failed) == srcQueue

\* After the last AppEnv the key goes back to the queue when a patch failed.
KeysAfter(s, failed) == IF failed THEN srcQueue \cup {s} ELSE srcQueue

annotateAppEnvForSync(k, a) ==
    LET x == annotator[k]
        Finish(failed) ==
            IF x.todo = {a}
            THEN /\ annotator' = [annotator EXCEPT ![k] = IdleAnnotator]
                 /\ srcQueue' = KeysAfter(x.source, failed)
            ELSE /\ annotator' = [annotator EXCEPT ![k].todo = @ \ {a}, ![k].failed = failed]
                 /\ UNCHANGED srcQueue IN
    /\ a \in x.todo
    /\ \/ /\ PatchAppEnv(a, [Cached(a) EXCEPT !.sync = FALSE], [Cached(a) EXCEPT !.sync = TRUE])
          /\ Finish(x.failed)
          /\ UNCHANGED faults
       \/ Fault /\ Finish(TRUE) /\ UNCHANGED <<appEnv, op, blind>>
    /\ UNCHANGED <<clients, src, appQueue, wk, am, deployed>>

-----------------------------------------------------------------------------
(***************************************************************************)
(* The controller of AppEnvs.                                              *)
(***************************************************************************)
Take(a) == a \in appQueue /\ wk = IdleWorker

\* Mutant: what was postponed waits for the next event.
RequeueNever(a) == appQueue' = appQueue /\ wk' = IdleWorker

\* An error, or RequeueAfter, brings the key back.
Requeue(a) == appQueue' = appQueue \cup {a} /\ wk' = IdleWorker

\* An annotated AppEnv only loses the annotation: that write brings it back.
clearSyncAnnotation(a) ==
    /\ Take(a)
    /\ Cached(a).sync
    /\ \/ /\ PatchAppEnv(a, Cached(a), [Cached(a) EXCEPT !.sync = FALSE])
          /\ appQueue' = appQueue \ {a}
          /\ UNCHANGED faults
       \/ Fault /\ UNCHANGED <<appEnv, op, blind, appQueue>>
    /\ UNCHANGED <<sources, clients, annotator, wk, am, deployed>>

\* A variable copied from its source, or marked when there is no source: the
\* value it had stays.
SyncedVar(a, v) ==
    LET value == Referred(Owner[a], v) IN
    IF v = Own THEN Cached(a).env[v]
    ELSE IF value = None THEN [Cached(a).env[v] EXCEPT !.status = "notFound"]
    ELSE [value |-> value, status |-> "synced"]

Synced(a) ==
    LET base == Cached(a)
        env == [v \in DOMAIN base.env |-> SyncedVar(a, v)] IN
    [base EXCEPT !.env = env,
                 !.need = @ \/ \E v \in OnChange[a] \cap DOMAIN env :
                                  env[v].status = "synced" /\ env[v] # base.env[v]]

\* The worker goes on with the object the server returned, when it wrote one.
syncEnvValues(a) ==
    LET obj == IF Synced(a) = Cached(a) THEN Cached(a)
               ELSE Merged(Stored(a), Cached(a), Synced(a)) IN
    /\ Take(a)
    /\ ~Cached(a).sync
    /\ \/ /\ IF Synced(a) = Cached(a)
             THEN UNCHANGED <<appEnv, op, blind>>
             ELSE PatchAppEnv(a, Cached(a), Synced(a))
          /\ appQueue' = appQueue \ {a}
          /\ wk' = IF obj.need THEN [pc |-> "apply", app |-> a, obj |-> obj] ELSE wk
          /\ UNCHANGED faults
       \/ Fault /\ UNCHANGED <<appEnv, op, blind, appQueue, wk>>
    /\ UNCHANGED <<sources, clients, annotator, am, deployed>>

\* Mutant: a lease is taken for one that ran out.
isLeaseExpired(u) == lease[u] = "expired"

isLeaseActive(u) == lease[u] = "held"

\* Not while a batch holds the lease.
PostponeApply(a) ==
    /\ wk.pc = "apply" /\ wk.app = a
    /\ IF isLeaseActive(Owner[a])
       THEN Requeue(a)
       ELSE wk' = [wk EXCEPT !.pc = "trigger"] /\ UNCHANGED appQueue
    /\ UNCHANGED <<sources, clients, helm, appEnv, annotator, blind, faults>>

\* The state that does not allow the operation is an error, too.
triggerApplyEnv(a) ==
    /\ wk.pc = "trigger" /\ wk.app = a
    /\ \/ /\ IsOperationAllowed(am[a], "applyEnv")
          /\ am' = [am EXCEPT ![a] = "applyingEnv"]
          /\ StartOp(a)
          /\ wk' = [wk EXCEPT !.pc = "mark"]
          /\ UNCHANGED <<appQueue, faults>>
       \/ /\ ~IsOperationAllowed(am[a], "applyEnv")
          /\ Requeue(a)
          /\ UNCHANGED <<am, op, faults>>
       \/ Fault /\ Requeue(a) /\ UNCHANGED <<am, op>>
    /\ UNCHANGED <<sources, clients, appEnv, annotator, deployed, blind>>

markEnvApplied(a) ==
    /\ wk.pc = "mark" /\ wk.app = a
    /\ \/ /\ PatchAppEnv(a, wk.obj, [wk.obj EXCEPT !.need = FALSE])
          /\ wk' = IdleWorker
          /\ UNCHANGED <<appQueue, faults>>
       \/ Fault /\ Requeue(a) /\ UNCHANGED <<appEnv, op, blind>>
    /\ UNCHANGED <<sources, clients, annotator, am, deployed>>

-----------------------------------------------------------------------------
(***************************************************************************)
(* The caches, and the process.                                            *)
(***************************************************************************)
DeliverAppEnv(a) ==
    /\ Len(appEnv[a]) > 1
    /\ appEnv' = [appEnv EXCEPT ![a] = Tail(@)]
    /\ appQueue' = appQueue \cup {a}
    /\ UNCHANGED <<sources, clients, helm, annotator, wk, blind, faults>>

\* A new process lists every object and executes the
\* operations of the applications again; requests in progress are lost.
Restart ==
    /\ Fault
    /\ appEnv' = [a \in App |-> <<Stored(a)>>]
    /\ srcQueue' = {s \in Source : SourceExists(src[s])}
    /\ appQueue' = {a \in App : Stored(a).present}
    /\ annotator' = [k \in DOMAIN annotator |-> IdleAnnotator]
    /\ wk' = IdleWorker
    /\ batch' = [h \in Handler |-> IdleBatch]
    /\ op' = [a \in App |-> IF op[a] = NoOp THEN NoOp
                            ELSE [pc |-> "get", values |-> <<>>, fresh |-> FALSE]]
    /\ UNCHANGED <<src, lease, requests, deleted, am, deployed, blind>>

-----------------------------------------------------------------------------
\* The variable of an application that was installed with the sources of Init.
InitialVar(a, v) ==
    LET value == Referred(Owner[a], v) IN
    IF v = Own THEN [value |-> Empty, status |-> "own"]
    ELSE IF value = None THEN [value |-> Empty, status |-> "notFound"]
    ELSE [value |-> value, status |-> "synced"]

\* A process at rest: the SystemEnvs are there; so may be users with their base
\* UserEnvs and applications that run with the values they were installed with.
Init ==
    /\ \E installed \in SUBSET App :
         LET env(a) == [v \in DOMAIN Declared(FirstRefs[a]) |-> InitialVar(a, v)] IN
         /\ src = [s \in Source |->
                    IF s \in Systems \/ \E a \in installed : s \in Base /\ s[1] = Owner[a]
                    THEN [value |-> Empty, default |-> Default[s[2]]] ELSE Spec0]
         /\ appEnv = [a \in App |->
                       <<IF a \in installed
                         THEN [NoEnv EXCEPT !.env = env(a), !.present = TRUE] ELSE NoEnv>>]
         /\ deployed = [a \in App |-> IF a \in installed
                                       THEN [v \in DOMAIN env(a) |-> env(a)[v].value] ELSE <<>>]
         /\ am = [a \in App |-> IF a \in installed THEN "running" ELSE NoState]
    /\ srcQueue = {} /\ appQueue = {}
    /\ annotator = [k \in {"system", "user"} |-> IdleAnnotator]
    /\ wk = IdleWorker
    /\ lease = [u \in User |-> "free"]
    /\ batch = [h \in Handler |-> IdleBatch]
    /\ op = [a \in App |-> NoOp]
    /\ blind = {} /\ deleted = {}
    /\ requests = 0 /\ faults = 0

-----------------------------------------------------------------------------
SourceNext(s) ==
    \/ \E v \in Edit : CreateEnv(s, v) \/ UpdateEnv(s, v)
    \/ DeleteEnv(s)
    \/ ReconcileSource(s)

UserNext(u) ==
    \/ ExpireLease(u)
    \/ \E h \in Handler, names \in SUBSET {s[2] : s \in {t \in Source : t[1] = u}},
          v \in Edit : StartBatch(h, u, names, v)

Controller(a) ==
    \/ clearSyncAnnotation(a) \/ syncEnvValues(a)
    \/ PostponeApply(a) \/ triggerApplyEnv(a) \/ markEnvApplied(a)

Helm(a) == AddEnvironmentVariables(a) \/ ClearNeedApply(a) \/ ApplyEnv(a) \/ Initialized(a)

AppNext(a) ==
    \/ \E v \in Edit : updateAppEnv(a, v)
    \/ Install(a) \/ Upgrade(a) \/ appApplyEnv(a)
    \/ \E k \in DOMAIN annotator : annotateAppEnvForSync(k, a)
    \/ Controller(a) \/ Helm(a) \/ DeliverAppEnv(a)

Next ==
    \/ \E s \in Source : SourceNext(s)
    \/ \E u \in User : UserNext(u)
    \/ \E a \in App : AppNext(a)
    \/ \E h \in Handler : BatchStep(h)
    \/ Restart

Spec == Init /\ [][Next]_vars

\* Caches catch up, the workers go on as long as they have a key, helm ends, and
\* a lease expires.  Requests, users and crashes come as they like.
Fairness ==
    /\ WF_vars(\E s \in Source : ReconcileSource(s))
    /\ WF_vars(\E a \in App : \E k \in DOMAIN annotator : annotateAppEnvForSync(k, a))
    /\ WF_vars(\E a \in App : Controller(a))
    /\ \A a \in App : WF_vars(DeliverAppEnv(a)) /\ WF_vars(Helm(a))
    /\ \A u \in User : WF_vars(ExpireLease(u))
    /\ \A h \in Handler : WF_vars(BatchStep(h))

FairSpec == Spec /\ Fairness

-----------------------------------------------------------------------------
(***************************************************************************)
(* Properties.                                                             *)
(***************************************************************************)
IsSpec(spec) == spec \in [value : Value \cup {Empty, None}, default : Value \cup {Empty}]

EnvObject(a, o) ==
    /\ DOMAIN o = {"env", "need", "sync", "present"}
    /\ DOMAIN o.env \subseteq Refs[a] \cup FirstRefs[a] \cup {Own}
    /\ \A v \in DOMAIN o.env : o.env[v] \in [value : Value \cup {Empty},
                                             status : {"own", "pending", "synced", "notFound"}]
    /\ {o.need, o.sync, o.present} \subseteq BOOLEAN
    /\ o.present <=> DOMAIN o.env # {}

\* The variables hold objects of the API types, no cache is further behind than
\* MaxLag, and every worker is at a place of its reconciliation.
TypeOK ==
    /\ \A s \in Source : IsSpec(src[s])
    /\ \A a \in App : Len(appEnv[a]) \in 1 .. MaxLag + 1 /\ \A i \in DOMAIN appEnv[a] : EnvObject(a, appEnv[a][i])
    /\ srcQueue \subseteq Source /\ appQueue \subseteq App
    /\ wk.pc \in {"idle", "apply", "trigger", "mark"} /\ wk.app \in App \cup {None}
    /\ wk.pc # "idle" => wk.app \in App /\ EnvObject(wk.app, wk.obj) /\ wk.obj.need
    /\ \A k \in DOMAIN annotator : annotator[k].todo \subseteq App
    /\ lease \in [User -> {"free", "held", "expired"}]
    /\ am \in [App -> State \cup {NoState}]
    /\ \A a \in App : op[a].pc \in {"none", "get", "update", "upgrade"}

\* A variable to apply on change whose value the given deployment does not have.
Differs(a, values) ==
    \E v \in OnChange[a] \cap DOMAIN Stored(a).env :
        /\ Stored(a).env[v].status \in {"own", "synced"}
        /\ v \notin DOMAIN values \/ values[v] # Stored(a).env[v].value

\* A value to apply on change that is not deployed is not forgotten: NeedApply
\* stands, or an operation will deploy it, or one failed and the state shows it.
\* Crashes, failing calls and repeated applies do not break this; an AppEnv
\* that was patched from an outdated copy is the one exception: also when the
\* copy is equal to what is stored, because an edit was taken back.
AppliedOrPending ==
    \A a \in App \ blind :
        Stored(a).present /\ Differs(a, deployed[a]) =>
            \/ Stored(a).need
            \/ op[a].pc = "get"
            \/ op[a].pc \in {"update", "upgrade"} /\ ~Differs(a, op[a].values)
            \/ am[a] \in {"installFailed", "upgradeFailed", "applyEnvFailed"}

\* The controller asks for no apply while a batch that took the lease is still
\* writing, unless the lease ran out, another batch of the user overlapped, or
\* the batch began after the controller had looked at the lease.
NoApplyWithinBatch ==
    [][wk.pc = "trigger" /\ wk'.pc = "mark" =>
        ~\E h \in Handler : batch[h].user = Owner[wk.app] /\ batch[h].locks /\ batch[h].safe]_vars

\* In the end every variable has the value of the source it refers to, unless a
\* source of that name was deleted: nothing tells the AppEnvs about a deletion.
RefsSettle ==
    \A a \in App : \A v \in Refs[a] :
        <>[](LET value == Referred(Owner[a], v) IN
             /\ Stored(a).present /\ v \in DOMAIN Stored(a).env
             /\ value # None /\ \A s \in deleted : s[2] # v
             => Stored(a).env[v] = [value |-> value, status |-> "synced"])

\* NeedApply is cleared in the end, though a batch that died left the lease
\* behind, unless the application is in a state that allows no ApplyEnv.
NeedApplyEnds ==
    \A a \in App : Stored(a).need ~> \/ ~Stored(a).need
                                     \/ am[a] \in {"installFailed", "upgradeFailed"}

\* Edits reach the variables and the applications in the end, in spite of lost
\* events, failing calls and batches that die (appenv_controller.go:62 and 87).
EditsArrive == RefsSettle /\ NeedApplyEnds
=============================================================================
