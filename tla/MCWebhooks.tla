----------------------------- MODULE MCWebhooks -----------------------------
(***************************************************************************)
(* Model checking of Webhooks: applications of several kinds, and a bound  *)
(* on what happens at once.                                                *)
(***************************************************************************)
EXTENDS Webhooks, TLC, FiniteSets

Plain == [kind |-> "app", routes |-> {}, perms |-> FALSE, selected |-> FALSE,
          mounted |-> TRUE, deployment |-> TRUE, gpu |-> FALSE]

Routed == [Plain EXCEPT !.routes = {"ws", "upload"}, !.selected = TRUE]
Middleware == [Plain EXCEPT !.kind = "middleware"]
Unmounted == [Routed EXCEPT !.mounted = FALSE]
Bare == [Plain EXCEPT !.perms = TRUE, !.mounted = FALSE, !.deployment = FALSE]
SharedWithGpu == [Plain EXCEPT !.kind = "shared", !.gpu = TRUE]

MCProfiles == {Plain, Routed, Unmounted, Bare, Middleware, SharedWithGpu}

\* Applications are alike, and so are pods.
Alike == Permutations(App) \cup Permutations(Pod)

Managers == {a \in App : Exists(a)}
States == {mgr[a].state : a \in Managers}
Installed == {a \in App : workload[a].there}
Pods == {p \in Pod : pod[p] # NoPod \/ adm[p] # Idle}

\* One application, and another that nobody installs.
Alone == \E a \in App : Managers \cup Installed \subseteq {a} /\ \A b \in App \ {a} : prof[b] = Plain

\* A manager and its workload, without pods.
WithoutPods ==
    /\ Pods = {} /\ Alone /\ gpu = None /\ events = 0
    /\ Installed # {} => States \subseteq {"installing", "installed", "initializing", "running"}

\* The GPU of a workload, which the nodes and others change.
WithGpu ==
    /\ Pods = {} /\ Alone
    /\ \E a \in App : prof[a] = SharedWithGpu
    /\ States \subseteq {"pending", "downloading", "installing", "running"}
    /\ Installed # {} => Serving /\ requests <= 2

\* A pod, with one thing that others do or that fails.
WithOnePod ==
    /\ Cardinality(Pods) <= 1 /\ Alone /\ Serving /\ gpu = None
    /\ States \subseteq {"installing", "running"} /\ requests <= 2 /\ events + faults <= 1

\* Two pods while their applications are installed and no call fails: both of
\* one application with routes, or one of an application without.
WithTwoPods ==
    /\ \A p \in Pod : prof[of[p]] \in {Plain, Routed}
    /\ gpu = None
    /\ \E p \in Pod : prof[of[p]] = Routed
    /\ States \subseteq {"pending", "downloading", "installing"}
    /\ Managers # {} => Serving
    /\ requests = Cardinality(Managers) /\ faults = 0
    /\ events <= 1 /\ (events > 0 => Cardinality(Managers) = 1)
    /\ \A p \in Pod : ~pod[p].injected /\ ~adm[p].injected
    /\ Installed # {} => \A a \in Managers : mgr[a].state = "installing"

Focus == WithoutPods \/ WithGpu \/ WithOnePod \/ WithTwoPods

=============================================================================
