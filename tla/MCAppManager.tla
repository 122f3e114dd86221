---------------------------- MODULE MCAppManager ----------------------------
(***************************************************************************)
(* Model checking of AppManager: the sets that several configurations      *)
(* share, and a horizon for the one with two applications.                 *)
(***************************************************************************)
EXTENDS AppRefinement, TLC, FiniteSets

AllTimedStates == TimedStates

AllUserOps == OpType

\* Applications that are not middlewares are alike.
Alike == Permutations(App \ Middleware)

Moving == {a \in App : Stored(a).state # NoState}

\* The states of the queue for downloads, up to the beginning of Installing.
AdmissionStates ==
    {"uninstalled", "pending", "downloading", "pendingCanceling", "pendingCanceled",
     "downloadingCanceling", "downloadingCanceled", "downloadFailed"}

\* An ordinary application or a middleware is followed alone, wherever one
\* request and one fault lead it.
Alone ==
    /\ Cardinality(Moving) <= 1 /\ sweeps = 0
    /\ \A h \in Handler : req[h] # NoRequest => Moving \subseteq {req[h].app}
    /\ requests = 0 => \A a \in Moving : Stored(a).state # "pending"

\* Two ordinary applications are followed together, with a sweep, as long as
\* both are in the queue for downloads.
Queued ==
    /\ Moving = App \ Middleware
    /\ \A a \in Moving : Stored(a).state \in AdmissionStates
    /\ \A a \in Moving : Stored(a).late => Stored(a).state = "pending"
    /\ faults = 0

\* Either of the two.
AloneOrQueued == Alone \/ Queued

=============================================================================
