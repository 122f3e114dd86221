------------------------------ MODULE Security ------------------------------
(***************************************************************************)
(* Network policies.  The security controller labels a namespace with its  *)
(* owner and its kind, and keeps in it the policies that say which other   *)
(* namespaces may reach its pods.  A namespace without a policy is open to *)
(* every one.                                                              *)
(*                                                                         *)
(* The module follows one namespace.  What its name says of it is the      *)
(* constant kind; a namespace of kind "other" belongs to an application or *)
(* is shared by several, and what it is depends on the workload deployed   *)
(* in it and on the configuration of the application.  The controller has  *)
(* one worker; it reads the namespace, its policies and its deployments    *)
(* from informer caches that may be behind, workflows and middleware       *)
(* clusters from the API server.                                           *)
(*                                                                         *)
(* A label that is not set has the value "" or FALSE.  A policy is its     *)
(* name and the peers it admits; a peer is a pair: what its namespace is   *)
(* labelled, and with which owner or application ("" for any).             *)
(***************************************************************************)
EXTENDS Naturals, Sequences, SequencesExt

CONSTANTS User,        \* the users, as strings
          Kind,        \* the kinds of namespaces that are considered
          Config,      \* the configurations an application may have
          MaxEvents    \* bound: deployments, edits, failing calls, restarts

ASSUME BoundsAssumption == MaxEvents \in Nat
ASSUME UserAssumption == User # {}
ASSUME KindAssumption ==
    Kind \subseteq {"underlayer", "osSystem", "gpu", "network", "protected",
                    "userSystem", "userSpace", "other"}

\* internal: runs for its owner; system: cluster scoped system service;
\* chart: the subchart that owns the namespace, if the chart has version 2.
AppConfig == [internal : BOOLEAN, system : BOOLEAN, middleware : BOOLEAN,
              chart : {"none", "private", "shared"}]

ASSUME ConfigAssumption == Config # {} /\ Config \subseteq AppConfig

Nobody  == [via |-> "none", owner |-> ""]
Workload == [via : {"deployment", "cronworkflow", "cluster"}, owner : User]
               \cup {Nobody}

Labels == [owner : User \cup {""}, shared : BOOLEAN, middleware : BOOLEAN,
           type : {"", "system", "network", "protected", "user-internal", "user-space"}]
Unlabelled == [owner |-> "", shared |-> FALSE, middleware |-> FALSE, type |-> ""]
Namespace == [phase : {"absent", "active", "terminating"},
              labels : Labels, finalizer : BOOLEAN]
Gone == [phase |-> "absent", labels |-> Unlabelled, finalizer |-> FALSE]

VARIABLES
    kind,       \* what the name says of the namespace
    named,      \* it carries the name of an application that is installed
    config,     \* the configuration of the application
    work,       \* the workload deployed in the namespace
    refs,       \* the applications that the application says depend on it
    tunnels,    \* the addresses of the tunnels of the nodes
    ns, np,     \* the namespace and its policies
    nsSeen, npSeen, workSeen,         \* the same, as the informers show them
    nsNews, npNews, workNews, nodeNews,    \* an event of them is on its way
    queue,      \* the namespace is in the queue of the controller
    pass,       \* what the worker does, and the objects it holds
    unasked,    \* ghost: something has changed that no watch reports
    blind,      \* ghost: a list that failed was taken for an empty one
    events

truth  == <<kind, named, config, work, refs, tunnels>>
caches == <<nsSeen, npSeen, workSeen, nsNews, workNews, nodeNews>>
ghosts == <<unasked, blind>>
policies == <<np, npNews>>
vars   == <<truth, ns, policies, caches, queue, pass, ghosts, events>>

-----------------------------------------------------------------------------
(* The peers of a policy, after its template and its fix.                  *)

AnySource == <<"any", "">>
Self == <<"self", "">>
System == <<"system", "">>
Internal(o) == <<"user-internal", o>>
Bfl(o) == <<"bfl", o>>                    \* the gateway in a user's space
SharedNs == <<"shared", "">>
Kube == {<<"kube-system", "">>, <<"kubesphere-system", "">>}

\* A rule without a source admits every one.
NodeTunnelRule(ips) == IF ips = {} THEN {AnySource} ELSE {<<"tunnel", i>> : i \in ips}

\* The namespaces of the system, by the name of the policy.
UnderLayerPeers == {Internal(""), System, <<"protected", "">>,
                    <<"kubesphere-system", "">>, Bfl(""), Self}
OSSystemPeers == {Internal(""), System, <<"protected", "">>, Self} \cup Kube
OSProtectedPeers == {Internal(""), System, <<"sysevent", "">>, Self}
OSNetworkPeers(ips) == {Internal(""), Self} \cup Kube \cup NodeTunnelRule(ips)

\* The namespaces of a user.
UserSystemPeers(o) == {<<"owned", o>>, System, SharedNs, Self}
UserSpacePeers(o, ips) ==
    {Internal(o), System, <<"network", "">>, <<"outside", "">>, Self}
       \cup NodeTunnelRule(ips)

\* The namespaces of applications: o their owner, rs those that depend on them.
AppPeers(o, rs) ==
    {Internal(o), System, Bfl(o), Self} \cup {<<"app", r>> : r \in rs}
SharedPeers(rs) ==
    {Internal(""), System, Self}
       \cup IF named THEN {<<"app", "itself">>} \cup {<<"app", r>> : r \in rs} ELSE {}

\* The policies for some pods only, which go with a main one.
AdditionalPeers == [
    files     |-> {Bfl("")},
    provider  |-> {SharedNs, System},
    middleware|-> {SharedNs},
    entrance  |-> {AnySource},
    ingress   |-> {<<"pods", "">>}]

\* The policy of a name for a namespace with labels l.
Peers(name, l, rs, ips) ==
    CASE name = "underlayer-system-np" -> UnderLayerPeers
      [] name = "os-system-np" -> OSSystemPeers
      [] name = "os-protected-np" -> OSProtectedPeers
      [] name = "os-network-np" -> OSNetworkPeers(ips)
      [] name = "user-system-np" -> UserSystemPeers(l.owner)
      [] name = "user-space-np" -> UserSpacePeers(l.owner, ips)
      [] name = "middleware-np" -> {AnySource}
      [] name = "app-np" -> AppPeers(l.owner, rs)
      [] name = "shared-np" -> SharedPeers(rs)
      [] name = "others-np" -> {Self}
      [] name = "files-np" -> AdditionalPeers.files
      [] name = "system-provider-np" -> AdditionalPeers.provider
      [] name = "system-middleware-np" -> AdditionalPeers.middleware
      [] name = "shared-entrance-np" -> AdditionalPeers.entrance
      [] name = "ingress-np" -> AdditionalPeers.ingress

\* The names of the policies a namespace has, the main one first.
NetworkPolicies(k, l) ==
    CASE k = "underlayer" -> <<"underlayer-system-np">>
      [] k = "osSystem" -> <<"os-system-np", "files-np", "system-provider-np",
                             "system-middleware-np">>
      [] k = "protected" -> <<"os-protected-np", "system-provider-np">>
      [] k = "network" -> <<"os-network-np">>
      [] k = "userSystem" -> <<"user-system-np">>
      [] k = "userSpace" -> <<"user-space-np", "ingress-np">>
      [] OTHER -> IF l.middleware THEN <<"middleware-np">>
                  ELSE IF l.owner # "" THEN <<"app-np">>
                  ELSE IF l.shared THEN <<"shared-np", "system-provider-np",
                                          "shared-entrance-np">>
                  ELSE <<"others-np">>

Policy(name, l, rs, ips) == [name |-> name, peers |-> Peers(name, l, rs, ips)]

-----------------------------------------------------------------------------
(* The labels.                                                             *)

NoOwner == [owner |-> "", known |-> FALSE, internal |-> FALSE, system |-> FALSE,
            shared |-> FALSE, middleware |-> FALSE]

\* What findOwnerOfNamespace finds when the workload is w.
findOwnerOfNamespace(w) ==
    [owner |-> w.owner,
     known |-> w.owner # "" \/ named,
     internal |-> config.internal,
     system |-> config.system /\ config.chart # "private",
     shared |-> config.chart = "shared",
     middleware |-> config.middleware /\ w.via # "cronworkflow"]
\* Mutant: the type of an internal application's namespace is misspelled.
OtherLabelsMisspelled(l, f) ==
    [owner |-> f.owner, shared |-> f.known /\ f.shared,
     middleware |-> f.known /\ f.middleware,
     type |-> IF f.owner # "" /\ f.internal THEN "internal" ELSE l.type]


OtherLabels(l, f) ==
    [owner |-> f.owner,
     shared |-> f.known /\ f.shared,
     middleware |-> f.known /\ f.middleware,
     type |-> IF f.known /\ f.system THEN "system"
              ELSE IF f.known /\ f.internal /\ f.owner \notin {"", l.owner}
                   THEN "user-internal" ELSE l.type]

Resident == CHOOSE u \in User : TRUE      \* whose name a user's namespace has

LabelsAfter(l, f) ==
    CASE kind \in {"underlayer", "osSystem", "gpu"} -> [l EXCEPT !.type = "system"]
      [] kind = "network" -> [l EXCEPT !.type = "network"]
      [] kind = "protected" -> [l EXCEPT !.type = "protected"]
      [] kind = "userSystem" -> [l EXCEPT !.type = "user-internal", !.owner = Resident]
      [] kind = "userSpace" -> [l EXCEPT !.type = "user-space", !.owner = Resident]
      [] kind = "other" -> OtherLabels(l, f)

\* The update is sent also when only the type of a system service is repeated.
UpdatesLabels(l, f) == LabelsAfter(l, f) # l \/ (kind = "other" /\ f.known /\ f.system)

-----------------------------------------------------------------------------
(* The cluster.                                                            *)

\* step: what comes next; ns, fresh: the namespace in hand, and whether it is
\* the stored one; found: its owner; rest: the policies still to write; items,
\* hit: what is left of a listing, and whether the policy was in it.
Idle == [step |-> "idle", ns |-> Gone, fresh |-> FALSE, found |-> NoOwner,
         rest |-> <<>>, items |-> {}, hit |-> FALSE]

Init ==
    /\ kind \in Kind
    /\ IF kind = "other"
       THEN config \in Config /\ named \in {FALSE, config.chart = "shared"}
       ELSE config = (CHOOSE c \in Config : TRUE) /\ named = FALSE
    /\ work = Nobody /\ refs = {} /\ tunnels = {"n1"}
    /\ ns = [phase |-> "active", labels |-> Unlabelled, finalizer |-> FALSE]
    /\ np = {} /\ npSeen = {} /\ nsSeen = Gone /\ workSeen = Nobody
    /\ nsNews = TRUE /\ npNews = FALSE /\ workNews = FALSE /\ nodeNews = FALSE
    /\ queue = FALSE /\ pass = Idle
    /\ unasked = FALSE /\ blind = FALSE /\ events = 0

Event == events < MaxEvents /\ events' = events + 1

\* Writing the namespace outdates the object that the worker holds.
NsBecomes(n) == ns' = n /\ nsNews' = TRUE

NpBecomes(ps) == np' = ps /\ npNews' = (npNews \/ ps # np)

OutOfHand == pass' = [pass EXCEPT !.fresh = FALSE]

\* Mutant: only the creation of a workload is reported.
OnlyNewWorkloads(was, is) == is.via \in {"deployment", "cluster"}

\* Deployments, stateful sets and middleware clusters are watched.
addWatch(was, is) == {was.via, is.via} \cap {"deployment", "cluster"} # {}

WorkBecomes(w) == work' = w /\ workNews' = (workNews \/ addWatch(work, w))

\* The application is installed in the namespace, replaced or removed.  No
\* watch reports workflows.
Deploy ==
    /\ Event /\ kind = "other" /\ ns.phase = "active"
    /\ \E w \in Workload \ {work} :
        /\ Nobody \in {w, work}
        /\ WorkBecomes(w)
        /\ unasked' = (unasked \/ "cronworkflow" \in {w.via, work.via})
    /\ UNCHANGED <<kind, named, config, refs, tunnels, ns, policies, nsSeen, npSeen,
                   workSeen, nsNews, nodeNews, queue, pass, blind>>

\* An upgrade changes the configuration or the applications that may ask; no
\* watch reports it.
Upgrade ==
    /\ Event /\ kind = "other"
    /\ \/ config' \in Config \ {config} /\ UNCHANGED refs
       \/ refs' = {"r"} \ refs /\ UNCHANGED config
    /\ unasked' = TRUE
    /\ UNCHANGED <<kind, named, work, tunnels, ns, policies, caches, queue, pass, blind>>

NodeChanges ==
    /\ Event
    /\ tunnels' = {"n1", "n2"} \ (IF tunnels = {"n1"} THEN {} ELSE {"n2"})
    /\ nodeNews' = TRUE
    /\ UNCHANGED <<kind, named, config, work, refs, ns, policies, nsSeen, npSeen,
                   workSeen, workNews, nsNews, queue, pass, ghosts>>

\* The namespace controller adds its own label and finalizer.
OtherWriter ==
    /\ Event /\ ns.phase = "active"
    /\ NsBecomes(ns) /\ OutOfHand
    /\ UNCHANGED <<truth, policies, nsSeen, npSeen, workSeen, workNews, nodeNews, queue, ghosts>>

\* Someone deletes a policy.
PolicyDeleted ==
    /\ Event
    /\ \E p \in np : NpBecomes(np \ {p})
    /\ UNCHANGED <<truth, ns, caches, queue, pass, ghosts>>

DeleteNamespace ==
    /\ Event /\ ns.phase = "active"
    /\ NsBecomes([ns EXCEPT !.phase = "terminating"]) /\ OutOfHand
    /\ UNCHANGED <<truth, policies, nsSeen, npSeen, workSeen, workNews, nodeNews, queue, ghosts>>

CreateNamespace ==
    /\ Event /\ ns.phase = "absent"
    /\ NsBecomes([Gone EXCEPT !.phase = "active"]) /\ OutOfHand
    /\ UNCHANGED <<truth, policies, nsSeen, npSeen, workSeen, workNews, nodeNews, queue, ghosts>>

\* Once nobody holds it back the namespace goes with all that is in it.
NamespaceGone ==
    /\ ns.phase = "terminating" /\ ~ns.finalizer
    /\ NsBecomes(Gone) /\ OutOfHand
    /\ NpBecomes({}) /\ WorkBecomes(Nobody)
    /\ UNCHANGED <<kind, named, config, refs, tunnels, nsSeen, npSeen, workSeen,
                   nodeNews, queue, ghosts, events>>

Restart ==
    /\ Event
    /\ queue' = (ns.phase # "absent") /\ pass' = Idle
    /\ nsSeen' = ns /\ npSeen' = np /\ workSeen' = work
    /\ nsNews' = FALSE /\ npNews' = FALSE /\ workNews' = FALSE /\ nodeNews' = FALSE
    /\ UNCHANGED <<truth, ns, np, ghosts>>

-----------------------------------------------------------------------------
(* The informers.                                                          *)

\* Mutant: updates of the namespace are let through while it is active.
NsCacheCatchesUpActive ==
    /\ nsNews
    /\ nsSeen' = ns /\ nsNews' = FALSE /\ queue' = (queue \/ ns.phase = "active")
    /\ UNCHANGED <<truth, ns, policies, npSeen, workSeen, workNews, nodeNews, pass,
                   ghosts, events>>

\* For: every event of the namespace.
NsCacheCatchesUp ==
    /\ nsNews
    /\ nsSeen' = ns /\ nsNews' = FALSE /\ queue' = TRUE
    /\ UNCHANGED <<truth, ns, policies, npSeen, workSeen, workNews, nodeNews, pass, ghosts, events>>

NpCacheCatchesUp ==
    /\ npNews
    /\ npSeen' = np /\ npNews' = FALSE /\ queue' = TRUE
    /\ UNCHANGED <<truth, ns, np, nsSeen, workSeen, workNews, nsNews, nodeNews, pass, ghosts, events>>

WorkCacheCatchesUp ==
    /\ workNews
    /\ workSeen' = work /\ workNews' = FALSE /\ queue' = TRUE
    /\ UNCHANGED <<truth, ns, policies, nsSeen, npSeen, nsNews, nodeNews, pass, ghosts, events>>

\* The users are listed to know the namespaces to ask for; if that fails the
\* event is dropped.
NodeEvent ==
    /\ nodeNews /\ nodeNews' = FALSE
    /\ \/ /\ queue' = (queue \/ kind \in {"network", "userSpace"})
          /\ UNCHANGED <<blind, events>>
       \/ Event /\ blind' = TRUE /\ UNCHANGED queue
    /\ UNCHANGED <<truth, ns, policies, nsSeen, npSeen, workSeen, workNews, nsNews, pass, unasked>>

-----------------------------------------------------------------------------
(* The worker.                                                             *)

Done == pass' = Idle /\ UNCHANGED queue

\* Mutant: an error is logged and dropped.
RetryNever == pass' = Idle /\ UNCHANGED queue

\* After an error or a conflict the namespace is asked for again.
Retry == pass' = Idle /\ queue' = TRUE

\* A deployment is looked up in the cache; a list from the API server that
\* fails is taken for an empty one.
Lookup ==
    \/ /\ unasked' = FALSE /\ blind' = FALSE /\ UNCHANGED events
       /\ pass' = [Idle EXCEPT !.step = "labels", !.ns = nsSeen, !.fresh = ~nsNews,
                               !.found = findOwnerOfNamespace(
                                   IF workSeen.via = "deployment" THEN workSeen
                                   ELSE IF work.via = "deployment" THEN Nobody ELSE work)]
    \/ /\ Event /\ kind = "other" /\ work.via \in {"cronworkflow", "cluster"}
       /\ workSeen.via # "deployment"
       /\ unasked' = FALSE /\ blind' = TRUE
       /\ pass' = [Idle EXCEPT !.step = "labels", !.ns = nsSeen, !.fresh = ~nsNews,
                               !.found = findOwnerOfNamespace(Nobody)]

\* The namespace is read; one that is being deleted is only cleared.
Reconcile ==
    /\ queue /\ pass.step = "idle"
    /\ queue' = FALSE
    /\ CASE nsSeen.phase = "absent" -> UNCHANGED <<pass, ghosts, events>>
         [] nsSeen.phase = "active" -> Lookup
         [] nsSeen.phase = "terminating" ->
              /\ pass' = IF kind = "gpu" THEN Idle
                         ELSE [Idle EXCEPT !.step = "clear", !.ns = nsSeen,
                                           !.fresh = ~nsNews, !.items = npSeen]
              /\ UNCHANGED <<ghosts, events>>
    /\ UNCHANGED <<truth, ns, policies, caches>>

\* The update of the object in hand to n, of which next is the continuation.
UpdateNamespace(n, next) ==
    \/ /\ pass.fresh /\ ns.phase # "absent"
       /\ IF n = ns THEN UNCHANGED <<ns, nsNews>> ELSE NsBecomes(n)
       /\ pass' = (IF next = Idle THEN Idle ELSE [next EXCEPT !.ns = n])
       /\ UNCHANGED <<queue, events>>
    \/ /\ ~pass.fresh /\ Retry /\ UNCHANGED <<ns, nsNews, events>>
    \/ /\ Event /\ pass.fresh /\ Retry /\ UNCHANGED <<ns, nsNews>>

reconcileNamespaceLabels ==
    /\ pass.step = "labels"
    /\ IF UpdatesLabels(pass.ns.labels, pass.found)
       THEN UpdateNamespace([pass.ns EXCEPT !.labels = LabelsAfter(@, pass.found)],
                            [pass EXCEPT !.step = "finalizer"])
       ELSE /\ pass' = [pass EXCEPT !.step = "finalizer"]
            /\ UNCHANGED <<ns, nsNews, queue, events>>
    /\ UNCHANGED <<truth, policies, nsSeen, npSeen, workSeen, workNews, nodeNews, ghosts>>

\* The public namespace has no policy, and no finalizer.
Policies(l) == [pass EXCEPT !.step = "list", !.rest = NetworkPolicies(kind, l)]

AddFinalizer ==
    /\ pass.step = "finalizer"
    /\ CASE kind = "gpu" -> Done /\ UNCHANGED <<ns, nsNews, events>>
         [] kind # "gpu" /\ pass.ns.finalizer ->
              /\ pass' = Policies(pass.ns.labels)
              /\ UNCHANGED <<ns, nsNews, queue, events>>
         [] kind # "gpu" /\ ~pass.ns.finalizer ->
              UpdateNamespace([pass.ns EXCEPT !.finalizer = TRUE], Policies(pass.ns.labels))
    /\ UNCHANGED <<truth, policies, nsSeen, npSeen, workSeen, workNews, nodeNews, ghosts>>

\* Every policy is written after a listing of its own.
ListPolicies ==
    /\ pass.step = "list"
    /\ pass' = [pass EXCEPT !.step = "write", !.items = npSeen, !.hit = FALSE]
    /\ UNCHANGED <<truth, ns, policies, caches, queue, ghosts, events>>

InClass(p) == p.name \in ToSet(NetworkPolicies(kind, pass.ns.labels))

\* The policy as the fix completes it, with the tunnels ips; a list of the
\* nodes that fails leaves a rule without a source.
Fixed(ips) == Policy(Head(pass.rest), pass.ns.labels, refs, ips)

Listed(ips) ==
    \/ ips = tunnels /\ UNCHANGED <<blind, events>>
    \/ /\ ips = {} /\ Head(pass.rest) \in {"os-network-np", "user-space-np"}
       /\ Event /\ blind' = TRUE

\* Nothing more to do with the policy p of the listing.
Handled(p, hit) == pass' = [pass EXCEPT !.items = @ \ {p}, !.hit = @ \/ hit]

UpdatePolicy(p) ==
    /\ p.name = Head(pass.rest)
    /\ IF p \in np
       THEN /\ \E ips \in {tunnels, {}} : Listed(ips) /\ NpBecomes((np \ {p}) \cup {Fixed(ips)})
            /\ Handled(p, TRUE) /\ UNCHANGED queue
       ELSE Retry /\ UNCHANGED <<policies, blind, events>>

DeletePolicy(p) ==
    /\ p.name # Head(pass.rest) /\ ~InClass(p)
    /\ IF \E q \in np : q.name = p.name
       THEN NpBecomes({q \in np : q.name # p.name}) /\ Handled(p, FALSE) /\ UNCHANGED queue
       ELSE Retry /\ UNCHANGED policies
    /\ UNCHANGED <<blind, events>>

KeepPolicy(p) ==
    /\ p.name # Head(pass.rest) /\ InClass(p)
    /\ Handled(p, FALSE) /\ UNCHANGED <<policies, queue, blind, events>>

\* The policy is written: the next one, or the end.
Written == IF Len(pass.rest) = 1 THEN Idle
           ELSE [pass EXCEPT !.step = "list", !.rest = Tail(@)]

CreatePolicy ==
    /\ pass.items = {} /\ UNCHANGED queue /\ pass' = Written
    /\ IF pass.hit THEN UNCHANGED <<policies, blind, events>>
       ELSE /\ ns.phase = "active" /\ \A q \in np : q.name # Head(pass.rest)
            /\ \E ips \in {tunnels, {}} : Listed(ips) /\ NpBecomes(np \cup {Fixed(ips)})

CreateRefused ==
    /\ pass.items = {} /\ ~pass.hit
    /\ ns.phase # "active" \/ \E q \in np : q.name = Head(pass.rest)
    /\ Retry /\ UNCHANGED <<policies, blind, events>>

createOrUpdateNetworkPolicy ==
    /\ pass.step = "write"
    /\ \/ \E p \in pass.items : UpdatePolicy(p) \/ DeletePolicy(p) \/ KeepPolicy(p)
       \/ CreatePolicy
       \/ CreateRefused
       \/ Event /\ Retry /\ UNCHANGED <<policies, blind>>
    /\ UNCHANGED <<truth, ns, caches, unasked>>

\* The namespace is being deleted: its policies go, then the finalizer.
ClearPolicies ==
    /\ pass.step = "clear" /\ pass.items # {}
    /\ \/ \E p \in pass.items :
            IF \E q \in np : q.name = p.name
            THEN /\ NpBecomes({q \in np : q.name # p.name})
                 /\ pass' = [pass EXCEPT !.items = @ \ {p}] /\ UNCHANGED <<queue, events>>
            ELSE Retry /\ UNCHANGED <<policies, events>>
       \/ Event /\ Retry /\ UNCHANGED policies
    /\ UNCHANGED <<truth, ns, caches, ghosts>>
RemoveFinalizer ==
    /\ pass.step = "clear" /\ pass.items = {}
    /\ UpdateNamespace([pass.ns EXCEPT !.finalizer = FALSE], Idle)
    /\ UNCHANGED <<truth, policies, nsSeen, npSeen, workSeen, workNews, nodeNews, ghosts>>

Cluster ==
    \/ Deploy \/ Upgrade \/ NodeChanges \/ OtherWriter \/ PolicyDeleted
    \/ CreateNamespace \/ DeleteNamespace \/ NamespaceGone \/ Restart

Informers ==
    NsCacheCatchesUp \/ NpCacheCatchesUp \/ WorkCacheCatchesUp \/ NodeEvent

Worker ==
    \/ Reconcile \/ reconcileNamespaceLabels \/ AddFinalizer \/ ListPolicies
    \/ createOrUpdateNetworkPolicy \/ ClearPolicies \/ RemoveFinalizer

Next == Cluster \/ Informers \/ Worker

Spec == Init /\ [][Next]_vars

\* The worker and the informers go on, and a namespace that nobody holds back
\* is removed.
FairSpec ==
    /\ Spec
    /\ WF_vars(Worker) /\ WF_vars(NsCacheCatchesUp) /\ WF_vars(NpCacheCatchesUp)
    /\ WF_vars(WorkCacheCatchesUp) /\ WF_vars(NodeEvent) /\ WF_vars(NamespaceGone)

-----------------------------------------------------------------------------
(* Properties.                                                             *)

Steps == {"idle", "labels", "finalizer", "list", "write", "clear"}

\* Every variable has its type, and the policies of a namespace have different
\* names.
TypeOK ==
    /\ config \in AppConfig /\ work \in Workload /\ ns \in Namespace
    /\ nsSeen \in Namespace /\ workSeen \in Workload
    /\ \A p, q \in np : p.name = q.name => p = q
    /\ pass.step \in Steps /\ pass.ns \in Namespace
    /\ {queue, pass.fresh, pass.hit, nsNews, npNews, workNews, nodeNews, unasked, blind} \subseteq BOOLEAN
    /\ events \in 0..MaxEvents

\* An open namespace does not stay open unnoticed: as long as a namespace that
\* should have policies has none (it is new, its class is being changed, a
\* create was refused, or someone deleted them), the controller is at work on
\* it, is asked to be, or will see a change that makes it so.
OpenIsPending ==
    ns.phase = "active" /\ kind # "gpu" /\ np = {} =>
        queue \/ pass.step # "idle" \/ nsNews \/ npNews

\* What the labels, and with them the policies, should be.
TrueLabels == LabelsAfter(Unlabelled, findOwnerOfNamespace(work))
WantedPolicies ==
    {Policy(name, TrueLabels, refs, tunnels) :
        name \in ToSet(NetworkPolicies(kind, TrueLabels))}

\* The policies of a namespace come to agree with the workload deployed in it,
\* the configuration of its application and the nodes, and no other policy
\* stays, whatever was read from behind, refused or deleted on the way: unless
\* no watch reports what changed (Application, ApplicationManager, workflows),
\* or a list failed without a trace.
PolicyFollows ==
    <>[](ns.phase = "active" /\ kind # "gpu" =>
            unasked \/ blind \/ np = WantedPolicies)

\* A namespace that is being deleted goes: its policies and the finalizer are
\* removed also when caches are behind and calls fail.
DeletedGoes == ns.phase = "terminating" ~> ns.phase = "absent"
=============================================================================
