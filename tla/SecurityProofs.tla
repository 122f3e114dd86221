--------------------------- MODULE SecurityProofs ---------------------------
(***************************************************************************)
(* What Security guarantees for any users, configurations and number of    *)
(* events: its types, that no two policies of a namespace have one name,   *)
(* and that a namespace does not stay open unnoticed.                      *)
(***************************************************************************)
EXTENDS Security, TLAPS

Owner == [owner : User \cup {""}, known : BOOLEAN, internal : BOOLEAN, system : BOOLEAN,
          shared : BOOLEAN, middleware : BOOLEAN]

-----------------------------------------------------------------------------
(***************************************************************************)
(* The inductive invariant, part by part.                                  *)
(***************************************************************************)
\* What is true of the application and its namespace, and of the events.
TruthInv ==
    /\ kind \in Kind /\ named \in BOOLEAN
    /\ config \in AppConfig /\ work \in Workload /\ ns \in Namespace
    /\ unasked \in BOOLEAN /\ blind \in BOOLEAN /\ events \in 0 .. MaxEvents

CacheInv ==
    /\ nsSeen \in Namespace /\ workSeen \in Workload
    /\ queue \in BOOLEAN /\ nsNews \in BOOLEAN /\ npNews \in BOOLEAN
    /\ workNews \in BOOLEAN /\ nodeNews \in BOOLEAN

\* The policies in a listing, and those still to write, are of no account here.
IsPass(p) ==
    p \in [step : Steps, ns : Namespace, fresh : BOOLEAN, found : Owner,
           rest : {p.rest}, items : {p.items}, hit : BOOLEAN]

PassInv == IsPass(pass)

NamesInv == \A p, q \in np : p.name = q.name => p = q

TypeInv == TruthInv /\ CacheInv /\ PassInv /\ NamesInv

\* A cache without an event on its way shows the namespace, a fresh object is
\* the stored one, and only what was being deleted is cleared.
Current ==
    /\ ~nsNews => nsSeen = ns
    /\ pass.fresh => pass.ns = ns
    /\ pass.step = "clear" => pass.ns.phase = "terminating"

\* A policy that the pass has found is there, unless that it went is reported.
HitStays == pass.step = "write" /\ pass.hit /\ np = {} => queue \/ npNews

IInv == TypeInv /\ Current /\ HitStays /\ OpenIsPending

-----------------------------------------------------------------------------
(***************************************************************************)
(* The types.                                                              *)
(***************************************************************************)
\* What is found of an owner has its type, and so have the labels it leads to.
LEMMA OwnerType ==
    ASSUME TruthInv, NEW w \in Workload
    PROVE  findOwnerOfNamespace(w) \in Owner
<1>1. w.owner \in User \cup {""}
  <2>1. CASE w = Nobody
    BY <2>1 DEF Nobody
  <2>2. CASE w \in [via : {"deployment", "cronworkflow", "cluster"}, owner : User]
    BY <2>2
  <2> QED
    BY <2>1, <2>2 DEF Workload
<1> QED
  BY <1>1 DEF TruthInv, AppConfig, findOwnerOfNamespace, Owner

\* The labels stay of their type.
LEMMA LabelsType ==
    ASSUME TruthInv, NEW l \in Labels, NEW f \in Owner
    PROVE  LabelsAfter(l, f) \in Labels
<1>1. Resident \in User
  BY UserAssumption DEF Resident
<1>2. OtherLabels(l, f) \in Labels
  BY DEF OtherLabels, Labels, Owner
<1>3. \A t \in {"system", "network", "protected"} : [l EXCEPT !.type = t] \in Labels
  BY DEF Labels
<1>4. \A t \in {"user-internal", "user-space"} : [l EXCEPT !.type = t, !.owner = Resident] \in Labels
  BY <1>1 DEF Labels
<1> QED
  BY <1>2, <1>3, <1>4, KindAssumption DEF TruthInv, LabelsAfter

\* The constants of the cluster have the types of what they stand for.
LEMMA Constants ==
    /\ Gone \in Namespace /\ Nobody \in Workload /\ IsPass(Idle)
    /\ \A ph \in {"absent", "active", "terminating"}, o \in Namespace :
         [o EXCEPT !.phase = ph] \in Namespace
<1>1. Unlabelled \in Labels
  BY DEF Unlabelled, Labels
<1>2. Gone \in Namespace
  BY <1>1 DEF Gone, Namespace
<1>3. NoOwner \in Owner
  BY DEF NoOwner, Owner
<1>4. IsPass(Idle)
  BY <1>2, <1>3 DEF IsPass, Idle, Steps
<1>5. Nobody \in Workload
  BY DEF Workload
<1> QED
  BY <1>2, <1>4, <1>5 DEF Namespace

\* An event is one of those there may be.
LEMMA Events ==
    ASSUME TruthInv, UNCHANGED events \/ Event
    PROVE  events' \in 0 .. MaxEvents
BY BoundsAssumption DEF TruthInv, Event

\* A pass with other contents is a pass.
LEMMA PassChanges ==
    ASSUME NEW p, IsPass(p)
    PROVE  /\ IsPass([p EXCEPT !.fresh = FALSE])
           /\ \A n \in Namespace : IsPass([p EXCEPT !.ns = n])
           /\ \A s \in Steps : IsPass([p EXCEPT !.step = s])
           /\ \A s \in Steps : \A r : IsPass([p EXCEPT !.step = s, !.rest = r])
           /\ \A i : IsPass([p EXCEPT !.step = "write", !.items = i, !.hit = FALSE])
           /\ \A i : \A h \in BOOLEAN : IsPass([p EXCEPT !.items = i, !.hit = h])
           /\ \A i : IsPass([p EXCEPT !.items = i])
<1>1. IsPass([p EXCEPT !.fresh = FALSE])
  BY DEF IsPass
<1>2. ASSUME NEW n \in Namespace PROVE IsPass([p EXCEPT !.ns = n])
  BY DEF IsPass
<1>3. ASSUME NEW s \in Steps PROVE IsPass([p EXCEPT !.step = s])
  BY DEF IsPass
<1>4. ASSUME NEW s \in Steps, NEW r PROVE IsPass([p EXCEPT !.step = s, !.rest = r])
  BY DEF IsPass
<1>5. ASSUME NEW i PROVE IsPass([p EXCEPT !.step = "write", !.items = i, !.hit = FALSE])
  BY DEF IsPass, Steps
<1>6. ASSUME NEW i, NEW h \in BOOLEAN PROVE IsPass([p EXCEPT !.items = i, !.hit = h])
  BY DEF IsPass
<1>7. ASSUME NEW i PROVE IsPass([p EXCEPT !.items = i])
  BY DEF IsPass
<1> QED
  BY <1>1, <1>2, <1>3, <1>4, <1>5, <1>6, <1>7

\* The namespace is updated to what it should be, or the pass begins again.
LEMMA UpdateTypes ==
    ASSUME TypeInv, NEW n \in Namespace, NEW next, IsPass(next), UpdateNamespace(n, next)
    PROVE  /\ ns' \in Namespace /\ nsNews' \in BOOLEAN /\ queue' \in BOOLEAN
           /\ events' \in 0 .. MaxEvents /\ IsPass(pass')
<1>1. events' \in 0 .. MaxEvents
  BY Events DEF TypeInv, UpdateNamespace
<1>2. ns' \in Namespace /\ nsNews' \in BOOLEAN /\ queue' \in BOOLEAN
  BY DEF TypeInv, TruthInv, CacheInv, UpdateNamespace, NsBecomes, Retry
<1>3. IsPass(pass')
  <2>1. CASE /\ pass.fresh /\ ns.phase # "absent"
             /\ pass' = (IF next = Idle THEN Idle ELSE [next EXCEPT !.ns = n])
    BY <2>1, Constants, PassChanges
  <2>2. CASE Retry
    BY <2>2, Constants DEF Retry
  <2> QED
    BY <2>1, <2>2 DEF UpdateNamespace
<1> QED
  BY <1>1, <1>2, <1>3

\* The updates that the worker makes.
LEMMA WorkerUpdates ==
    ASSUME TypeInv
    PROVE  /\ [pass.ns EXCEPT !.labels = LabelsAfter(@, pass.found)] \in Namespace
           /\ \A b \in BOOLEAN : [pass.ns EXCEPT !.finalizer = b] \in Namespace
           /\ IsPass([pass EXCEPT !.step = "finalizer"])
           /\ \A l : IsPass(Policies(l))
<1>1. pass.ns \in Namespace /\ pass.found \in Owner
  BY DEF TypeInv, PassInv, IsPass
<1>2. LabelsAfter(pass.ns.labels, pass.found) \in Labels
  BY <1>1, LabelsType DEF TypeInv, Namespace
<1>3. [pass.ns EXCEPT !.labels = LabelsAfter(@, pass.found)] \in Namespace
  BY <1>1, <1>2 DEF Namespace
<1>4. \A b \in BOOLEAN : [pass.ns EXCEPT !.finalizer = b] \in Namespace
  BY <1>1 DEF Namespace
<1>5. "finalizer" \in Steps /\ "list" \in Steps
  BY DEF Steps
<1> QED
  BY <1>3, <1>4, <1>5, PassChanges DEF Policies, TypeInv, PassInv

\* The namespace may be gone, there, or on its way.
LEMMA ReconcileCases ==
    ASSUME TypeInv, Reconcile
    PROVE  \/ nsSeen.phase = "absent" /\ UNCHANGED <<pass, ghosts, events>>
           \/ nsSeen.phase = "active" /\ Lookup
           \/ /\ nsSeen.phase = "terminating" /\ UNCHANGED <<ghosts, events>>
              /\ pass' = IF kind = "gpu" THEN Idle
                         ELSE [Idle EXCEPT !.step = "clear", !.ns = nsSeen,
                                           !.fresh = ~nsNews, !.items = npSeen]
<1>1. nsSeen.phase \in {"absent", "active", "terminating"}
  BY DEF TypeInv, CacheInv, Namespace
<1>2. CASE nsSeen.phase = "absent"
  BY <1>2 DEF Reconcile
<1>3. CASE nsSeen.phase = "active"
  BY <1>3 DEF Reconcile
<1>4. CASE nsSeen.phase = "terminating"
  BY <1>4 DEF Reconcile
<1> QED
  BY <1>1, <1>2, <1>3, <1>4

\* What is true, and what others make of it.
LEMMA TruthStep == ASSUME TypeInv, [Next]_vars PROVE TruthInv'
<1> USE DEF TypeInv
<1>1. events' \in 0 .. MaxEvents
  <2>1. CASE Cluster \/ Informers \/ UNCHANGED vars
    <3>1. UNCHANGED events \/ Event
      BY <2>1 DEF vars, Cluster, Informers, Deploy, Upgrade, NodeChanges, OtherWriter, PolicyDeleted,
                  DeleteNamespace, CreateNamespace, NamespaceGone, Restart,
                  NsCacheCatchesUp, NpCacheCatchesUp, WorkCacheCatchesUp, NodeEvent
    <3> QED
      BY <3>1, Events
  <2>2. CASE createOrUpdateNetworkPolicy
    <3>1. UNCHANGED events \/ Event
      BY <2>2 DEF createOrUpdateNetworkPolicy, UpdatePolicy, DeletePolicy, KeepPolicy, CreatePolicy,
                  CreateRefused, Listed
    <3> QED
      BY <3>1, Events
  <2>3. CASE Reconcile \/ ListPolicies \/ ClearPolicies
    <3>1. CASE Reconcile
      <4>1. UNCHANGED events \/ Lookup
        BY <3>1, ReconcileCases
      <4> QED
        BY <4>1, Events DEF Lookup
    <3>2. CASE ListPolicies \/ ClearPolicies
      BY <3>2, Events DEF ListPolicies, ClearPolicies
    <3> QED
      BY <2>3, <3>1, <3>2
  <2>4. CASE reconcileNamespaceLabels
    BY <2>4, UpdateTypes, WorkerUpdates DEF reconcileNamespaceLabels, TruthInv
  <2>5. CASE AddFinalizer
    BY <2>5, UpdateTypes, WorkerUpdates DEF AddFinalizer, TruthInv
  <2>6. CASE RemoveFinalizer
    BY <2>6, UpdateTypes, WorkerUpdates, Constants DEF RemoveFinalizer, TruthInv
  <2> QED
    BY <2>1, <2>2, <2>3, <2>4, <2>5, <2>6 DEF Next, Worker
<1>2. kind' \in Kind /\ named' \in BOOLEAN /\ config' \in AppConfig
  BY ConfigAssumption
     DEF Next, vars, truth, TruthInv, Cluster, Informers, Worker, Deploy, Upgrade, NodeChanges, OtherWriter,
         PolicyDeleted, DeleteNamespace, CreateNamespace, NamespaceGone, Restart,
         NsCacheCatchesUp, NpCacheCatchesUp, WorkCacheCatchesUp, NodeEvent, Reconcile,
         reconcileNamespaceLabels, AddFinalizer, ListPolicies,
         createOrUpdateNetworkPolicy, ClearPolicies, RemoveFinalizer
<1>3. work' \in Workload
  BY Constants
     DEF Next, vars, truth, TruthInv, Cluster, Informers, Worker, Deploy, Upgrade, NodeChanges, OtherWriter,
         PolicyDeleted, DeleteNamespace, CreateNamespace, NamespaceGone, Restart, WorkBecomes,
         NsCacheCatchesUp, NpCacheCatchesUp, WorkCacheCatchesUp, NodeEvent, Reconcile,
         reconcileNamespaceLabels, AddFinalizer, ListPolicies,
         createOrUpdateNetworkPolicy, ClearPolicies, RemoveFinalizer
<1>4. unasked' \in BOOLEAN /\ blind' \in BOOLEAN
  <2>1. CASE Cluster \/ Informers \/ UNCHANGED vars
    BY <2>1 DEF vars, truth, ghosts, TruthInv, Cluster, Informers, Deploy, Upgrade, NodeChanges, OtherWriter,
                PolicyDeleted, DeleteNamespace, CreateNamespace, NamespaceGone, Restart,
                NsCacheCatchesUp, NpCacheCatchesUp, WorkCacheCatchesUp, NodeEvent
  <2>2. CASE createOrUpdateNetworkPolicy
    BY <2>2 DEF TruthInv, createOrUpdateNetworkPolicy, UpdatePolicy, DeletePolicy, KeepPolicy, CreatePolicy,
                CreateRefused, Listed
  <2>3. CASE reconcileNamespaceLabels \/ AddFinalizer \/ ListPolicies
                \/ ClearPolicies \/ RemoveFinalizer
    BY <2>3 DEF TruthInv, ghosts, reconcileNamespaceLabels, AddFinalizer,
                ListPolicies, ClearPolicies, RemoveFinalizer
  <2>4. CASE Reconcile
    <3>1. UNCHANGED ghosts \/ Lookup
      BY <2>4, ReconcileCases
    <3> QED
      BY <3>1 DEF TruthInv, ghosts, Lookup
  <2> QED
    BY <2>1, <2>2, <2>3, <2>4 DEF Next, Worker
<1>5. ns' \in Namespace
  <2>1. CASE reconcileNamespaceLabels
    BY <2>1, UpdateTypes, WorkerUpdates DEF reconcileNamespaceLabels, TruthInv
  <2>2. CASE AddFinalizer
    BY <2>2, UpdateTypes, WorkerUpdates DEF AddFinalizer, TruthInv
  <2>3. CASE RemoveFinalizer
    BY <2>3, UpdateTypes, WorkerUpdates, Constants DEF RemoveFinalizer, TruthInv
  <2>4. CASE Cluster \/ Informers \/ UNCHANGED vars
    BY <2>4, Constants
       DEF vars, TruthInv, NsBecomes, Cluster, Informers, Deploy, Upgrade, NodeChanges, OtherWriter,
           PolicyDeleted, DeleteNamespace, CreateNamespace, NamespaceGone, Restart,
           NsCacheCatchesUp, NpCacheCatchesUp, WorkCacheCatchesUp, NodeEvent
  <2>5. CASE Reconcile \/ ListPolicies \/ createOrUpdateNetworkPolicy \/ ClearPolicies
    BY <2>5 DEF TruthInv, Reconcile, ListPolicies, createOrUpdateNetworkPolicy, ClearPolicies
  <2> QED
    BY <2>1, <2>2, <2>3, <2>4, <2>5 DEF Next, Worker
<1> QED
  BY <1>1, <1>2, <1>3, <1>4, <1>5 DEF TruthInv

\* What the informers show, and the queue.
LEMMA CacheStep == ASSUME TypeInv, [Next]_vars PROVE CacheInv'
<1> USE DEF TypeInv
<1>1. CASE Cluster \/ Informers \/ UNCHANGED vars
  <2>1. nsSeen' \in Namespace /\ workSeen' \in Workload
    BY <1>1 DEF vars, caches, TruthInv, CacheInv, Cluster, Informers, Deploy, Upgrade, NodeChanges, OtherWriter,
                PolicyDeleted, DeleteNamespace, CreateNamespace, NamespaceGone, Restart,
                NsCacheCatchesUp, NpCacheCatchesUp, WorkCacheCatchesUp, NodeEvent
  <2>2. queue' \in BOOLEAN
    BY <1>1 DEF vars, caches, CacheInv, Cluster, Informers, Deploy, Upgrade, NodeChanges, OtherWriter,
                PolicyDeleted, DeleteNamespace, CreateNamespace, NamespaceGone, Restart,
                NsCacheCatchesUp, NpCacheCatchesUp, WorkCacheCatchesUp, NodeEvent
  <2>3. nsNews' \in BOOLEAN /\ nodeNews' \in BOOLEAN
    BY <1>1 DEF vars, caches, CacheInv, NsBecomes, Cluster, Informers, Deploy, Upgrade, NodeChanges, OtherWriter,
                PolicyDeleted, DeleteNamespace, CreateNamespace, NamespaceGone, Restart,
                NsCacheCatchesUp, NpCacheCatchesUp, WorkCacheCatchesUp, NodeEvent
  <2>4. npNews' \in BOOLEAN /\ workNews' \in BOOLEAN
    BY <1>1 DEF vars, caches, policies, CacheInv, NpBecomes, WorkBecomes, Cluster, Informers, Deploy, Upgrade,
                NodeChanges, OtherWriter, PolicyDeleted, DeleteNamespace, CreateNamespace, NamespaceGone,
                Restart, NsCacheCatchesUp, NpCacheCatchesUp, WorkCacheCatchesUp, NodeEvent
  <2> QED
    BY <2>1, <2>2, <2>3, <2>4 DEF CacheInv
<1>2. CASE Reconcile \/ ListPolicies
  BY <1>2 DEF CacheInv, caches, policies, Reconcile, ListPolicies
<1>3. CASE createOrUpdateNetworkPolicy
  <2>1. queue' \in BOOLEAN /\ npNews' \in BOOLEAN
    BY <1>3 DEF CacheInv, policies, NpBecomes, Retry, createOrUpdateNetworkPolicy, UpdatePolicy, DeletePolicy,
                KeepPolicy, CreatePolicy, CreateRefused
  <2> QED
    BY <1>3, <2>1 DEF CacheInv, caches, createOrUpdateNetworkPolicy
<1>4. CASE ClearPolicies
  <2>1. queue' \in BOOLEAN /\ npNews' \in BOOLEAN
    BY <1>4 DEF CacheInv, policies, NpBecomes, Retry, ClearPolicies
  <2> QED
    BY <1>4, <2>1 DEF CacheInv, caches, ClearPolicies
<1>5. CASE reconcileNamespaceLabels \/ AddFinalizer \/ RemoveFinalizer
  <2>1. queue' \in BOOLEAN /\ nsNews' \in BOOLEAN
    <3>1. CASE reconcileNamespaceLabels
      BY <3>1, UpdateTypes, WorkerUpdates DEF reconcileNamespaceLabels, CacheInv
    <3>2. CASE AddFinalizer
      BY <3>2, UpdateTypes, WorkerUpdates DEF AddFinalizer, CacheInv, Done
    <3>3. CASE RemoveFinalizer
      BY <3>3, UpdateTypes, WorkerUpdates, Constants DEF RemoveFinalizer, CacheInv
    <3> QED
      BY <1>5, <3>1, <3>2, <3>3
  <2> QED
    BY <1>5, <2>1 DEF CacheInv, policies, reconcileNamespaceLabels, AddFinalizer, RemoveFinalizer
<1> QED
  BY <1>1, <1>2, <1>3, <1>4, <1>5 DEF Next, Worker

\* A step of a pass that writes policies.
LEMMA WriteSteps ==
    ASSUME createOrUpdateNetworkPolicy
    PROVE  \/ Retry \/ pass' = Written
           \/ \E q, h : h \in BOOLEAN /\ Handled(q, h)
BY DEF createOrUpdateNetworkPolicy, UpdatePolicy, DeletePolicy, KeepPolicy, CreatePolicy, CreateRefused

\* The pass of the worker.
LEMMA PassStep == ASSUME TypeInv, [Next]_vars PROVE PassInv'
<1> SUFFICES IsPass(pass')
  BY DEF PassInv, IsPass
<1>1. IsPass(pass)
  BY DEF TypeInv, PassInv
<1>2. CASE UNCHANGED pass \/ OutOfHand \/ pass' = Idle
  BY <1>1, <1>2, Constants, PassChanges DEF OutOfHand
<1>3. CASE Reconcile
  <2>1. CASE Lookup
    <3>1. PICK w \in Workload, b \in BOOLEAN :
            pass' = [Idle EXCEPT !.step = "labels", !.ns = nsSeen, !.fresh = b,
                                 !.found = findOwnerOfNamespace(w)]
      BY <2>1, Constants DEF Lookup, TypeInv, TruthInv, CacheInv
    <3>2. findOwnerOfNamespace(w) \in Owner /\ nsSeen \in Namespace
      BY OwnerType DEF TypeInv, CacheInv
    <3> QED
      BY <3>1, <3>2, Constants DEF IsPass, Steps
  <2>2. CASE pass' = [Idle EXCEPT !.step = "clear", !.ns = nsSeen, !.fresh = ~nsNews, !.items = npSeen]
    BY <2>2, Constants DEF IsPass, Steps, TypeInv, CacheInv
  <2> QED
    BY <1>2, <1>3, <2>1, <2>2, ReconcileCases
<1>4. CASE reconcileNamespaceLabels \/ AddFinalizer \/ RemoveFinalizer
  <2>1. CASE reconcileNamespaceLabels
    BY <2>1, UpdateTypes, WorkerUpdates DEF reconcileNamespaceLabels
  <2>2. CASE AddFinalizer
    BY <2>2, UpdateTypes, WorkerUpdates, Constants DEF AddFinalizer, Done
  <2>3. CASE RemoveFinalizer
    BY <2>3, UpdateTypes, WorkerUpdates, Constants DEF RemoveFinalizer
  <2> QED
    BY <1>4, <2>1, <2>2, <2>3
<1>5. CASE ListPolicies
  BY <1>1, <1>5, PassChanges DEF ListPolicies
<1>6. CASE createOrUpdateNetworkPolicy
  <2>1. ASSUME NEW q, NEW h \in BOOLEAN, Handled(q, h)
        PROVE  IsPass(pass')
    <3>1. pass' = [pass EXCEPT !.items = pass.items \ {q}, !.hit = (pass.hit \/ h)]
      BY <2>1 DEF Handled
    <3>2. (pass.hit \/ h) \in BOOLEAN
      OBVIOUS
    <3> QED
      BY <1>1, <3>1, <3>2, PassChanges, Zenon
  <2>2. CASE pass' = Written
    <3>1. [pass EXCEPT !.step = "list", !.rest = Tail(@)] = [pass EXCEPT !.step = "list", !.rest = Tail(pass.rest)]
      OBVIOUS
    <3>2. "list" \in Steps
      BY DEF Steps
    <3> QED
      BY <1>1, <2>2, <3>1, <3>2, PassChanges, Constants DEF Written
  <2>3. CASE Retry
    BY <2>3, Constants DEF Retry
  <2> QED
    BY <1>6, <2>1, <2>2, <2>3, WriteSteps
<1>7. CASE ClearPolicies
  <2>1. \/ Retry
        \/ \E q \in pass.items : pass' = [pass EXCEPT !.items = @ \ {q}]
    BY <1>7, Zenon DEF ClearPolicies
  <2>2. CASE Retry
    BY <1>2, <2>2 DEF Retry
  <2> QED
    <3>1. ASSUME NEW q, pass' = [pass EXCEPT !.items = @ \ {q}] PROVE IsPass(pass')
      <4>1. pass' = [pass EXCEPT !.items = pass.items \ {q}]
        BY <3>1
      <4> QED
        BY <1>1, <4>1, PassChanges
    <3> QED
      BY <2>1, <2>2, <3>1
<1>8. CASE Cluster \/ Informers \/ UNCHANGED vars
  BY <1>2, <1>8
     DEF vars, Cluster, Informers, Deploy, Upgrade, NodeChanges, OtherWriter, PolicyDeleted,
         DeleteNamespace, CreateNamespace, NamespaceGone, Restart,
         NsCacheCatchesUp, NpCacheCatchesUp, WorkCacheCatchesUp, NodeEvent
<1> QED
  BY <1>3, <1>4, <1>5, <1>6, <1>7, <1>8 DEF Next, Worker

\* No two policies get the same name.
LEMMA NamesStep == ASSUME TypeInv, [Next]_vars PROVE NamesInv'
<1> USE DEF TypeInv
<1>1. CASE np' \subseteq np
  BY <1>1 DEF NamesInv
<1>2. CASE createOrUpdateNetworkPolicy
  <2>1. \A ips : Fixed(ips).name = Head(pass.rest)
    BY DEF Fixed, Policy
  <2>2. ASSUME NEW p \in pass.items, UpdatePolicy(p) PROVE NamesInv'
    BY <2>1, <2>2 DEF UpdatePolicy, NamesInv, NpBecomes, policies
  <2>3. ASSUME CreatePolicy PROVE NamesInv'
    BY <2>1, <2>3 DEF CreatePolicy, NamesInv, NpBecomes, policies
  <2>4. ASSUME NEW p \in pass.items, DeletePolicy(p) \/ KeepPolicy(p) PROVE np' \subseteq np
    BY <2>4 DEF DeletePolicy, KeepPolicy, NpBecomes, policies
  <2> QED
    BY <1>1, <1>2, <2>2, <2>3, <2>4 DEF createOrUpdateNetworkPolicy, CreateRefused, policies
<1>3. CASE Cluster \/ Informers \/ UNCHANGED vars
  BY <1>1, <1>3
     DEF vars, policies, NpBecomes, Cluster, Informers, Deploy, Upgrade, NodeChanges, OtherWriter, PolicyDeleted,
         DeleteNamespace, CreateNamespace, NamespaceGone, Restart,
         NsCacheCatchesUp, NpCacheCatchesUp, WorkCacheCatchesUp, NodeEvent
<1>4. CASE Reconcile \/ reconcileNamespaceLabels \/ AddFinalizer \/ ListPolicies
             \/ ClearPolicies \/ RemoveFinalizer
  BY <1>1, <1>4 DEF policies, NpBecomes, Reconcile, reconcileNamespaceLabels, AddFinalizer, ListPolicies,
                    ClearPolicies, RemoveFinalizer
<1> QED
  BY <1>2, <1>3, <1>4 DEF Next, Worker

-----------------------------------------------------------------------------
(***************************************************************************)
(* What the worker has in hand, and what is pending.                       *)
(***************************************************************************)
\* After an update the object in hand is the stored one, or the namespace is
\* asked for again.
LEMMA UpdateMeans ==
    ASSUME TypeInv, Current, NEW n \in Namespace, NEW next, IsPass(next), UpdateNamespace(n, next)
    PROVE  /\ ns' = ns \/ nsNews'
           /\ nsNews => nsNews'
           /\ queue => queue'
           /\ \/ queue' /\ pass' = Idle
              \/ ns' = n /\ pass.fresh /\ next = Idle /\ pass' = Idle
              \/ ns' = n /\ pass' = [next EXCEPT !.ns = n]
<1>1. CASE /\ pass.fresh /\ ns.phase # "absent"
           /\ IF n = ns THEN UNCHANGED <<ns, nsNews>> ELSE NsBecomes(n)
           /\ pass' = (IF next = Idle THEN Idle ELSE [next EXCEPT !.ns = n])
           /\ UNCHANGED <<queue, events>>
  <2>1. ns' = n /\ (ns' = ns \/ nsNews') /\ (nsNews => nsNews')
    BY <1>1 DEF NsBecomes
  <2> QED
    BY <1>1, <2>1
<1>2. CASE Retry /\ UNCHANGED <<ns, nsNews>>
  BY <1>2 DEF Retry
<1> QED
  BY <1>1, <1>2 DEF UpdateNamespace

\* An update leaves a worker with the stored object.
LEMMA UpdateCurrent ==
    ASSUME TypeInv, Current, NEW n \in Namespace, NEW next, IsPass(next), UpdateNamespace(n, next),
           next.step # "clear", UNCHANGED nsSeen
    PROVE  Current'
<1>1. ~nsNews' => nsSeen' = ns'
  BY UpdateMeans DEF Current
<1>2. Idle.fresh = FALSE /\ Idle.step = "idle"
  BY DEF Idle
<1>3. CASE pass' = Idle
  BY <1>1, <1>2, <1>3 DEF Current
<1>4. CASE ns' = n /\ pass' = [next EXCEPT !.ns = n]
  <2>1. pass'.ns = n /\ pass'.step = next.step
    BY <1>4 DEF IsPass
  <2> QED
    BY <1>1, <1>4, <2>1 DEF Current
<1> QED
  BY <1>3, <1>4, UpdateMeans

\* The object in hand stays the one it was, and so does what the cache shows.
LEMMA CurrentStep == ASSUME TypeInv, Current, [Next]_vars PROVE Current'
<1>1. Idle.fresh = FALSE /\ Idle.step = "idle"
  BY DEF Idle
<1>2. IsPass(pass) /\ ns \in Namespace
  BY DEF TypeInv, PassInv, TruthInv
<1>3. CASE /\ pass' = Idle \/ UNCHANGED pass
           /\ UNCHANGED <<ns, nsSeen, nsNews>>
  BY <1>1, <1>3 DEF Current
<1>4. CASE OtherWriter \/ DeleteNamespace \/ CreateNamespace \/ NamespaceGone
  <2>1. nsNews' /\ OutOfHand
    BY <1>4 DEF NsBecomes, OtherWriter, DeleteNamespace, CreateNamespace, NamespaceGone
  <2>2. pass'.fresh = FALSE /\ pass'.step = pass.step /\ pass'.ns = pass.ns
    BY <1>2, <2>1 DEF OutOfHand, IsPass
  <2> QED
    BY <2>1, <2>2 DEF Current
<1>5. CASE Restart \/ NsCacheCatchesUp
  BY <1>1, <1>5 DEF Current, Restart, NsCacheCatchesUp
<1>6. CASE Deploy \/ Upgrade \/ NodeChanges \/ PolicyDeleted \/ NpCacheCatchesUp \/ WorkCacheCatchesUp
             \/ NodeEvent \/ UNCHANGED vars
  BY <1>3, <1>6 DEF vars, caches, Deploy, Upgrade, NodeChanges, PolicyDeleted, NpCacheCatchesUp,
                    WorkCacheCatchesUp, NodeEvent
<1>7. CASE Reconcile
  <2>1. UNCHANGED <<ns, nsSeen, nsNews>>
    BY <1>7 DEF Reconcile, caches
  <2>2. CASE Lookup
    <3>1. PICK f : pass' = [Idle EXCEPT !.step = "labels", !.ns = nsSeen, !.fresh = ~nsNews, !.found = f]
      BY <2>2 DEF Lookup
    <3>2. pass'.ns = nsSeen /\ pass'.fresh = ~nsNews /\ pass'.step = "labels"
      BY <3>1 DEF Idle
    <3> QED
      BY <2>1, <3>2 DEF Current
  <2>3. CASE /\ nsSeen.phase = "terminating"
             /\ pass' = [Idle EXCEPT !.step = "clear", !.ns = nsSeen, !.fresh = ~nsNews, !.items = npSeen]
    <3>1. pass'.ns = nsSeen /\ pass'.fresh = ~nsNews
      BY <2>3 DEF Idle
    <3> QED
      BY <2>1, <2>3, <3>1 DEF Current
  <2> QED
    BY <1>3, <1>7, <2>1, <2>2, <2>3, ReconcileCases
<1>8. CASE reconcileNamespaceLabels
  <2>1. [pass EXCEPT !.step = "finalizer"].step = "finalizer"
    BY <1>2 DEF IsPass
  <2>2. CASE /\ pass' = [pass EXCEPT !.step = "finalizer"]
             /\ UNCHANGED <<ns, nsSeen, nsNews>>
    <3>1. pass'.ns = pass.ns /\ pass'.fresh = pass.fresh
      BY <1>2, <2>2 DEF IsPass
    <3> QED
      BY <2>1, <2>2, <3>1 DEF Current
  <2> QED
    BY <1>8, <2>1, <2>2, UpdateCurrent, WorkerUpdates DEF reconcileNamespaceLabels
<1>9. CASE AddFinalizer
  <2>1. \A l : Policies(l).step = "list"
    BY <1>2 DEF IsPass, Policies
  <2>2. CASE /\ pass' = Policies(pass.ns.labels)
             /\ UNCHANGED <<ns, nsSeen, nsNews>>
    <3>1. pass'.ns = pass.ns /\ pass'.fresh = pass.fresh
      BY <1>2, <2>2 DEF IsPass, Policies
    <3> QED
      BY <2>1, <2>2, <3>1 DEF Current
  <2>3. CASE UpdateNamespace([pass.ns EXCEPT !.finalizer = TRUE], Policies(pass.ns.labels))
             /\ UNCHANGED nsSeen
    BY <2>1, <2>3, UpdateCurrent, WorkerUpdates
  <2> QED
    BY <1>3, <1>9, <2>2, <2>3 DEF AddFinalizer, Done
<1>10. CASE RemoveFinalizer
  BY <1>1, <1>10, UpdateCurrent, WorkerUpdates, Constants DEF RemoveFinalizer
<1>11. CASE ListPolicies \/ createOrUpdateNetworkPolicy \/ ClearPolicies
  <2>1. UNCHANGED <<ns, nsSeen, nsNews>>
    BY <1>11 DEF ListPolicies, createOrUpdateNetworkPolicy, ClearPolicies, caches
  <2>2. CASE pass'.ns = pass.ns /\ pass'.fresh = pass.fresh /\ pass'.step \in {pass.step, "list", "write"}
    BY <2>1, <2>2 DEF Current
  <2>3. CASE ListPolicies
    BY <1>2, <2>2, <2>3 DEF IsPass, ListPolicies
  <2>4. CASE createOrUpdateNetworkPolicy
    <3>1. ASSUME NEW q, NEW h, Handled(q, h) PROVE Current'
      BY <1>2, <2>2, <3>1 DEF IsPass, Handled
    <3>2. CASE pass' = Written
      <4>1. CASE pass' = [pass EXCEPT !.step = "list", !.rest = Tail(@)]
        BY <1>2, <2>2, <4>1 DEF IsPass
      <4> QED
        BY <1>3, <2>1, <3>2, <4>1 DEF Written
    <3>3. CASE Retry
      BY <1>3, <2>1, <3>3 DEF Retry
    <3> QED
      BY <2>4, <3>1, <3>2, <3>3, WriteSteps
  <2>5. CASE ClearPolicies
    <3>1. ASSUME NEW q, pass' = [pass EXCEPT !.items = @ \ {q}] PROVE Current'
      BY <1>2, <2>2, <3>1 DEF IsPass
    <3>2. CASE Retry
      BY <1>3, <2>1, <3>2 DEF Retry
    <3>3. \/ Retry
          \/ \E q \in pass.items : pass' = [pass EXCEPT !.items = @ \ {q}]
      BY <2>5, Zenon DEF ClearPolicies
    <3> QED
      BY <3>1, <3>2, <3>3
  <2> QED
    BY <1>11, <2>3, <2>4, <2>5
<1> QED
  BY <1>4, <1>5, <1>6, <1>7, <1>8, <1>9, <1>10, <1>11 DEF Next, Cluster, Informers, Worker

\* Whatever takes the last policy away is reported.
LEMMA NpReported ==
    ASSUME TypeInv, [Next]_vars, np' = {}, ~npNews'
    PROVE  (np = {} /\ ~npNews) \/ NpCacheCatchesUp \/ Restart
<1>1. CASE UNCHANGED policies \/ (\E ps : NpBecomes(ps))
  BY <1>1 DEF policies, NpBecomes
<1>2. CASE createOrUpdateNetworkPolicy
  <2>1. UNCHANGED policies \/ (\E ps : NpBecomes(ps))
    BY <1>2 DEF createOrUpdateNetworkPolicy, UpdatePolicy, DeletePolicy, KeepPolicy, CreatePolicy, CreateRefused
  <2> QED
    BY <1>1, <2>1
<1>3. CASE Cluster \/ Informers \/ UNCHANGED vars
  BY <1>1, <1>3
     DEF vars, Cluster, Informers, Deploy, Upgrade, NodeChanges, OtherWriter, PolicyDeleted,
         DeleteNamespace, CreateNamespace, NamespaceGone, NsCacheCatchesUp, WorkCacheCatchesUp, NodeEvent
<1>4. CASE Reconcile \/ reconcileNamespaceLabels \/ AddFinalizer \/ ListPolicies \/ RemoveFinalizer
  BY <1>1, <1>4 DEF Reconcile, reconcileNamespaceLabels, AddFinalizer, ListPolicies, RemoveFinalizer
<1>5. CASE ClearPolicies
  BY <1>1, <1>5 DEF ClearPolicies
<1> QED
  BY <1>2, <1>3, <1>4, <1>5 DEF Next, Worker

\* Only the worker takes the namespace out of the queue.
LEMMA Asked ==
    ASSUME TypeInv, [Next]_vars, queue, ~queue'
    PROVE  Reconcile \/ Restart
<1>1. ~(Cluster /\ ~Restart) /\ ~Informers /\ ~UNCHANGED vars
  BY DEF vars, Cluster, Informers, Deploy, Upgrade, NodeChanges, OtherWriter, PolicyDeleted,
         DeleteNamespace, CreateNamespace, NamespaceGone,
         NsCacheCatchesUp, NpCacheCatchesUp, WorkCacheCatchesUp, NodeEvent
<1>2. ~createOrUpdateNetworkPolicy
  BY DEF createOrUpdateNetworkPolicy, UpdatePolicy, DeletePolicy, KeepPolicy, CreatePolicy, CreateRefused, Retry
<1>3. ~ListPolicies /\ ~ClearPolicies
  BY DEF ListPolicies, ClearPolicies, Retry
<1>4. \A n, next : ~UpdateNamespace(n, next)
  BY DEF UpdateNamespace, Retry
<1>5. ~reconcileNamespaceLabels /\ ~AddFinalizer /\ ~RemoveFinalizer
  BY <1>4 DEF reconcileNamespaceLabels, AddFinalizer, Done, RemoveFinalizer
<1> QED
  BY <1>1, <1>2, <1>3, <1>5 DEF Next, Worker

\* Whatever changes the namespace is reported.
LEMMA NsReported ==
    ASSUME TypeInv, [Next]_vars, ~nsNews'
    PROVE  (ns' = ns /\ ~nsNews) \/ NsCacheCatchesUp \/ Restart
<1>1. CASE UNCHANGED <<ns, nsNews>> \/ (\E n : NsBecomes(n))
  BY <1>1 DEF NsBecomes
<1>2. CASE Cluster \/ Informers \/ UNCHANGED vars
  BY <1>1, <1>2
     DEF vars, caches, Cluster, Informers, Deploy, Upgrade, NodeChanges, OtherWriter, PolicyDeleted,
         DeleteNamespace, CreateNamespace, NamespaceGone, NpCacheCatchesUp, WorkCacheCatchesUp, NodeEvent
<1>3. CASE Reconcile \/ ListPolicies \/ createOrUpdateNetworkPolicy \/ ClearPolicies
  BY <1>1, <1>3 DEF caches, Reconcile, ListPolicies, createOrUpdateNetworkPolicy, ClearPolicies
<1>4. ASSUME NEW n, NEW next, UpdateNamespace(n, next)
      PROVE  UNCHANGED <<ns, nsNews>> \/ (\E m : NsBecomes(m))
  BY <1>4 DEF UpdateNamespace
<1>5. CASE reconcileNamespaceLabels \/ AddFinalizer \/ RemoveFinalizer
  BY <1>1, <1>4, <1>5 DEF reconcileNamespaceLabels, AddFinalizer, RemoveFinalizer
<1> QED
  BY <1>2, <1>3, <1>5 DEF Next, Worker

\* The others leave the worker where it is.
LEMMA OthersLeave ==
    ASSUME TypeInv, Cluster \/ Informers \/ UNCHANGED vars
    PROVE  (pass'.step = pass.step /\ pass'.hit = pass.hit) \/ Restart
<1>1. UNCHANGED pass \/ OutOfHand \/ Restart
  BY DEF vars, Cluster, Informers, Deploy, Upgrade, NodeChanges, OtherWriter, PolicyDeleted,
         DeleteNamespace, CreateNamespace, NamespaceGone,
         NsCacheCatchesUp, NpCacheCatchesUp, WorkCacheCatchesUp, NodeEvent
<1> QED
  BY <1>1 DEF OutOfHand, TypeInv, PassInv, IsPass

\* Where an update leads.
LEMMA UpdateLeads ==
    ASSUME TypeInv, Current, NEW n \in Namespace, NEW next, IsPass(next), UpdateNamespace(n, next)
    PROVE  \/ queue' /\ pass' = Idle
           \/ ns' = n /\ pass'.step = next.step
<1>1. \A p : IsPass(p) => [p EXCEPT !.ns = n].step = p.step
  BY DEF IsPass
<1> QED
  BY <1>1, UpdateMeans

\* A pass that writes does not end before there is a policy, or that it went is
\* reported.
LEMMA WriteLeads ==
    ASSUME TypeInv, HitStays, createOrUpdateNetworkPolicy, np' = {}, ~queue', ~npNews'
    PROVE  pass'.step = "write" /\ ~pass'.hit
<1>1. IsPass(pass) /\ pass.step = "write"
  BY DEF TypeInv, PassInv, createOrUpdateNetworkPolicy
<1>2. ~Retry
  BY DEF Retry
<1>3. ~queue
  BY <1>2 DEF createOrUpdateNetworkPolicy, UpdatePolicy, DeletePolicy, KeepPolicy, CreatePolicy, CreateRefused
<1>4. np = {} /\ ~npNews
  <2>1. UNCHANGED policies \/ (\E ps : NpBecomes(ps))
    BY DEF createOrUpdateNetworkPolicy, UpdatePolicy, DeletePolicy, KeepPolicy, CreatePolicy, CreateRefused
  <2>2. CASE UNCHANGED policies
    BY <2>2 DEF policies
  <2>3. ASSUME NEW ps, NpBecomes(ps)
        PROVE  np = {} /\ ~npNews
    BY <2>3 DEF NpBecomes
  <2> QED
    BY <2>1, <2>2, <2>3
<1>5. ~pass.hit
  BY <1>1, <1>3, <1>4 DEF HitStays
<1>6. ASSUME NEW p \in pass.items, UpdatePolicy(p)
      PROVE  FALSE
  BY <1>2, <1>6 DEF UpdatePolicy, NpBecomes
<1>7. ASSUME NEW p \in pass.items, DeletePolicy(p) \/ KeepPolicy(p)
      PROVE  Handled(p, FALSE)
  BY <1>2, <1>7 DEF DeletePolicy, KeepPolicy
<1>8. ASSUME NEW p, Handled(p, FALSE)
      PROVE  pass'.step = "write" /\ ~pass'.hit
  BY <1>1, <1>5, <1>8 DEF Handled, IsPass
<1>9. ~CreatePolicy /\ ~CreateRefused
  BY <1>2, <1>5 DEF CreatePolicy, CreateRefused, NpBecomes
<1> QED
  BY <1>2, <1>6, <1>7, <1>8, <1>9 DEF createOrUpdateNetworkPolicy

\* A policy that was found is there until it is reported that it went.
LEMMA HitStep == ASSUME TypeInv, Current, HitStays, [Next]_vars PROVE HitStays'
<1>1. SUFFICES ASSUME pass'.step = "write", pass'.hit, np' = {}, ~queue', ~npNews'
               PROVE  FALSE
  BY DEF HitStays
<1>2. Idle.step = "idle" /\ IsPass(pass)
  BY DEF Idle, TypeInv, PassInv
<1>3. CASE (Cluster \/ Informers \/ UNCHANGED vars) /\ ~Restart
  <2>1. pass.step = "write" /\ pass.hit
    BY <1>1, <1>3, OthersLeave
  <2>2. ~NpCacheCatchesUp
    BY <1>1 DEF NpCacheCatchesUp
  <2>3. np = {} /\ ~npNews
    BY <1>1, <1>3, <2>2, NpReported
  <2>4. ~queue
    BY <1>1, <1>3, <2>1, Asked DEF Reconcile
  <2> QED
    BY <2>1, <2>3, <2>4 DEF HitStays
<1>4. ~Restart
  BY <1>1, <1>2 DEF Restart
<1>5. CASE Reconcile
  <2>1. CASE Lookup
    <3>1. pass'.step = "labels"
      BY <2>1 DEF Lookup, Idle
    <3> QED
      BY <1>1, <3>1
  <2>2. CASE UNCHANGED pass
    BY <1>1, <1>5, <2>2 DEF Reconcile
  <2>3. CASE pass' = Idle \/ pass' = [Idle EXCEPT !.step = "clear", !.ns = nsSeen,
                                                  !.fresh = ~nsNews, !.items = npSeen]
    <3>1. CASE pass' = Idle
      BY <1>1, <1>2, <3>1
    <3>2. CASE pass' = [Idle EXCEPT !.step = "clear", !.ns = nsSeen, !.fresh = ~nsNews, !.items = npSeen]
      <4>1. pass'.step = "clear"
        BY <3>2 DEF Idle
      <4> QED
        BY <1>1, <4>1
    <3> QED
      BY <2>3, <3>1, <3>2
  <2> QED
    BY <1>5, <2>1, <2>2, <2>3, ReconcileCases
<1>6. CASE reconcileNamespaceLabels
  <2>1. [pass EXCEPT !.step = "finalizer"].step = "finalizer"
    BY <1>2 DEF IsPass
  <2>2. pass'.step = "finalizer" \/ queue'
    BY <1>6, <2>1, UpdateLeads, WorkerUpdates DEF reconcileNamespaceLabels
  <2> QED
    BY <1>1, <2>2
<1>7. CASE AddFinalizer
  <2>1. \A l : Policies(l).step = "list"
    BY <1>2 DEF IsPass, Policies
  <2>2. pass'.step \in {"idle", "list"} \/ queue'
    BY <1>2, <1>7, <2>1, UpdateLeads, WorkerUpdates DEF AddFinalizer, Done
  <2> QED
    BY <1>1, <2>2
<1>8. CASE RemoveFinalizer
  <2>1. pass'.step = "idle" \/ queue'
    BY <1>2, <1>8, UpdateLeads, WorkerUpdates, Constants DEF RemoveFinalizer
  <2> QED
    BY <1>1, <2>1
<1>9. CASE ListPolicies
  BY <1>1, <1>2, <1>9 DEF ListPolicies, IsPass
<1>10. CASE createOrUpdateNetworkPolicy
  BY <1>1, <1>10, WriteLeads
<1>11. CASE ClearPolicies
  <2>1. pass.step = "clear" /\ ~Retry
    BY <1>1, <1>11 DEF ClearPolicies, Retry
  <2>2. \/ Retry
        \/ \E q \in pass.items : pass' = [pass EXCEPT !.items = @ \ {q}]
    BY <1>11, Zenon DEF ClearPolicies
  <2> QED
    BY <1>1, <1>2, <2>1, <2>2 DEF IsPass
<1> QED
  BY <1>3, <1>4, <1>5, <1>6, <1>7, <1>8, <1>9, <1>10, <1>11 DEF Next, Worker

\* An open namespace stays in somebody's hands.
LEMMA OpenStep == ASSUME TypeInv, Current, HitStays, OpenIsPending, [Next]_vars PROVE OpenIsPending'
<1>1. SUFFICES ASSUME ns'.phase = "active", kind' # "gpu", np' = {}, ~queue', pass'.step = "idle",
                      ~nsNews', ~npNews'
               PROVE  FALSE
  BY DEF OpenIsPending
<1>2. Idle.step = "idle" /\ IsPass(pass)
  BY DEF Idle, TypeInv, PassInv
<1>3. ~Restart /\ ~NsCacheCatchesUp /\ ~NpCacheCatchesUp
  BY <1>1 DEF Restart, NsCacheCatchesUp, NpCacheCatchesUp
<1>4. np = {} /\ ~npNews /\ ns' = ns /\ ~nsNews
  BY <1>1, <1>3, NpReported, NsReported
<1>5. kind' = kind
  BY DEF Next, vars, truth, Cluster, Informers, Worker, Deploy, Upgrade, NodeChanges, OtherWriter,
         PolicyDeleted, DeleteNamespace, CreateNamespace, NamespaceGone, Restart,
         NsCacheCatchesUp, NpCacheCatchesUp, WorkCacheCatchesUp, NodeEvent, Reconcile,
         reconcileNamespaceLabels, AddFinalizer, ListPolicies,
         createOrUpdateNetworkPolicy, ClearPolicies, RemoveFinalizer
<1>6. queue \/ pass.step # "idle"
  BY <1>1, <1>4, <1>5 DEF OpenIsPending
<1>7. ~Reconcile
  <2>1. SUFFICES ASSUME Reconcile PROVE FALSE
    OBVIOUS
  <2>2. nsSeen.phase = "active"
    BY <1>1, <1>4 DEF Current
  <2>3. Lookup
    BY <2>1, <2>2, ReconcileCases
  <2>4. pass'.step = "labels"
    BY <2>3 DEF Lookup, Idle
  <2> QED
    BY <1>1, <2>4
<1>8. pass.step # "idle"
  BY <1>1, <1>3, <1>6, <1>7, Asked
<1>9. CASE Cluster \/ Informers \/ UNCHANGED vars
  BY <1>1, <1>3, <1>8, <1>9, OthersLeave
<1>10. CASE reconcileNamespaceLabels
  <2>1. [pass EXCEPT !.step = "finalizer"].step = "finalizer"
    BY <1>2 DEF IsPass
  <2>2. pass'.step = "finalizer" \/ queue'
    BY <1>10, <2>1, UpdateLeads, WorkerUpdates DEF reconcileNamespaceLabels
  <2> QED
    BY <1>1, <2>2
<1>11. CASE AddFinalizer
  <2>1. \A l : Policies(l).step = "list"
    BY <1>2 DEF IsPass, Policies
  <2>2. pass'.step = "list" \/ queue'
    BY <1>1, <1>5, <1>11, <2>1, UpdateLeads, WorkerUpdates DEF AddFinalizer
  <2> QED
    BY <1>1, <2>2
<1>12. CASE RemoveFinalizer
  <2>1. ns' = [pass.ns EXCEPT !.finalizer = FALSE] \/ queue'
    BY <1>12, UpdateLeads, UpdateMeans, WorkerUpdates, Constants DEF RemoveFinalizer
  <2>2. pass.ns.phase = "terminating" /\ pass.ns \in Namespace
    BY <1>2, <1>12 DEF Current, RemoveFinalizer, IsPass
  <2>3. [pass.ns EXCEPT !.finalizer = FALSE].phase = "terminating"
    BY <2>2 DEF Namespace
  <2> QED
    BY <1>1, <2>1, <2>3
<1>13. CASE ListPolicies
  BY <1>1, <1>2, <1>13 DEF ListPolicies, IsPass
<1>14. CASE createOrUpdateNetworkPolicy
  BY <1>1, <1>14, WriteLeads
<1>15. CASE ClearPolicies
  <2>1. pass.step = "clear" /\ ~Retry
    BY <1>1, <1>15 DEF ClearPolicies, Retry
  <2>2. \/ Retry
        \/ \E q \in pass.items : pass' = [pass EXCEPT !.items = @ \ {q}]
    BY <1>15, Zenon DEF ClearPolicies
  <2> QED
    BY <1>1, <1>2, <2>1, <2>2 DEF IsPass
<1> QED
  BY <1>7, <1>9, <1>10, <1>11, <1>12, <1>13, <1>14, <1>15 DEF Next, Worker

-----------------------------------------------------------------------------
(***************************************************************************)
(* The theorems.                                                           *)
(***************************************************************************)
\* A new namespace is on its way to the controller.
LEMMA InitIInv == Init => IInv
<1> SUFFICES ASSUME Init PROVE IInv
  OBVIOUS
<1>1. TruthInv
  <2>1. kind \in Kind /\ named \in BOOLEAN /\ config \in AppConfig
    BY ConfigAssumption DEF Init
  <2>2. ns \in Namespace
    <3>1. Unlabelled \in Labels
      BY DEF Unlabelled, Labels
    <3> QED
      BY <3>1 DEF Init, Namespace
  <2>3. work \in Workload
    BY Constants DEF Init
  <2>4. unasked \in BOOLEAN /\ blind \in BOOLEAN /\ events \in 0 .. MaxEvents
    <3>1. unasked \in BOOLEAN /\ blind \in BOOLEAN
      BY Zenon DEF Init
    <3>2. events \in 0 .. MaxEvents
      <4>1. events = 0
        BY Zenon DEF Init
      <4> QED
        BY <4>1, BoundsAssumption
    <3> QED
      BY <3>1, <3>2
  <2> QED
    BY <2>1, <2>2, <2>3, <2>4 DEF TruthInv
<1>2. CacheInv
  BY Constants DEF Init, CacheInv
<1>3. PassInv /\ NamesInv
  BY Constants DEF Init, PassInv, NamesInv
<1>4. Current /\ HitStays /\ OpenIsPending
  <2>1. pass.step = "idle" /\ ~pass.fresh
    BY DEF Init, Idle
  <2>2. nsNews
    BY DEF Init
  <2> QED
    BY <2>1, <2>2 DEF Current, HitStays, OpenIsPending
<1> QED
  BY <1>1, <1>2, <1>3, <1>4 DEF IInv, TypeInv

\* The inductive invariant: types, the object the worker has in hand, the
\* policy it has found, and the open namespace that is in somebody's hands.
THEOREM Invariance == Spec => []IInv
<1>1. IInv /\ [Next]_vars => IInv'
  BY TruthStep, CacheStep, PassStep, NamesStep, CurrentStep, HitStep, OpenStep DEF IInv, TypeInv
<1> QED
  BY <1>1, InitIInv, PTL DEF Spec

\* The types of the variables, and one policy of a name, whatever is read late,
\* refused or repeated.
THEOREM TypeCorrect == Spec => []TypeOK
<1>1. IInv => TypeOK
  <2> SUFFICES ASSUME TypeInv PROVE TypeOK
    BY DEF IInv
  <2>1. {queue, pass.fresh, pass.hit, nsNews, npNews, workNews, nodeNews, unasked, blind} \subseteq BOOLEAN
    <3>1. pass.fresh \in BOOLEAN /\ pass.hit \in BOOLEAN
      BY DEF TypeInv, PassInv, IsPass
    <3> QED
      BY <3>1, Zenon DEF TypeInv, TruthInv, CacheInv
  <2>2. pass.step \in Steps /\ pass.ns \in Namespace
    BY DEF TypeInv, PassInv, IsPass
  <2> QED
    BY <2>1, <2>2 DEF TypeInv, TruthInv, CacheInv, NamesInv, TypeOK
<1> QED
  BY <1>1, Invariance, PTL

\* A namespace without policies does not stay so unnoticed.
THEOREM OpenIsNoticed == Spec => []OpenIsPending
<1>1. IInv => OpenIsPending
  BY DEF IInv
<1> QED
  BY <1>1, Invariance, PTL
=============================================================================
