---------------------------- MODULE AppRefinement ----------------------------
(***************************************************************************)
(* AppManager implements AppLifecycle: where the controller keeps, for one *)
(* application, what the abstract specification speaks of.                 *)
(***************************************************************************)
EXTENDS AppManager

\* What is under way is held by reconcilers between load and write, and by
\* the goroutines of operations.
Tasks(a) ==
    {wk[w].kind : w \in {v \in Worker : wk[v].app = a /\ wk[v].pc \in {"exec", "poll", "write"}}}
    \cup {ops[o].kind : o \in {p \in Op : ops[p].app = a /\ ops[p].phase # "free"}}

\* What is owed are the targets that reconcilers and accepted requests are
\* about to write, and what goroutines have left in `finally`.
Owed(a) ==
    {wk[w].target : w \in {v \in Worker : wk[v].app = a /\ wk[v].pc = "write"}}
    \cup {ops[o].fin : o \in {p \in Op : ops[p].app = a /\ ops[p].phase # "free"}}
    \cup {req[h].target : h \in {g \in Handler : req[g] # NoRequest /\ req[g].app = a}}

Life(a) ==
    INSTANCE AppLifecycle WITH
        IsMiddleware <- a \in Middleware,
        state <- Stored(a).state,
        view <- Cached(a).state,
        recent <- {versions[a][i].state : i \in DOMAIN versions[a]},
        tasks <- Tasks(a),
        owed <- Owed(a)

\* The controller keeps the promises of AppLifecycle for every application
\* (this is Life(a)!Spec for every a, with the quantifier inside the box): no
\* status is written that was not owed to a request, or to a state that the
\* cache has shown since the process started, however reconcilers, operations,
\* requests, stale reads, timeouts and restarts interleave; and a download
\* begins in pending.
ImplementsLifecycle ==
    /\ \A a \in App : Life(a)!Init
    /\ [][\A a \in App : [Life(a)!Next]_(Life(a)!vars)]_vars
=============================================================================
