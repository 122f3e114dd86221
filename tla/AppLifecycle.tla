---------------------------- MODULE AppLifecycle ----------------------------
(***************************************************************************)
(* What the ApplicationManager controller promises of the status of one    *)
(* application, without its reconcilers, registry, goroutines and queues:  *)
(* a status that is written is owed, and it is owed because a user asked   *)
(* for it in a state that allows it, or because the controller was shown   *)
(* the state that it follows from.  What is owed may be forgotten, and may *)
(* be written late, over a state that it does not follow from; beginning a *)
(* download is the one write that never is.                                *)
(***************************************************************************)
EXTENDS AppStates

CONSTANT IsMiddleware

VARIABLES
    state,    \* the state that the API server holds
    view,     \* the state that the controller's cache shows
    recent,   \* the states of the versions from the cache's to the server's
    tasks,    \* states whose operation is under way, or has been decided on
    owed      \* results that are known and not yet written

vars == <<state, view, recent, tasks, owed>>

Init ==
    /\ state \in PossibleStates
    /\ view = state
    /\ recent = {state}
    /\ tasks = {}
    /\ owed = {}

\* Operations that wait for the start-up of the application, and write
\* initializing before they end.
StartUpTasks == {"installing", "upgrading", "applyingEnv"}

\* What can come of the controller's seeing the application in state s: the
\* results of the operation of that state, however it ends.
Results(s) ==
    Outcomes(s, IsMiddleware, TRUE)
    \cup {TimeoutState(s), CanceledState(s), ExecFailedState(s)}
    \cup (IF s \in StartUpTasks THEN {"initializing"} ELSE {})
    \cup (IF s = "stopping" THEN {"stopped", "stopFailed"} ELSE {})
    \cup (IF s = "applyingEnvCanceling" THEN {"applyingEnvCancelFailed"} ELSE {})
    \cup (IF s \in ForceDeleteStates \cup {"running", "uninstalled"} THEN {"uninstalled"} ELSE {})

Requested(s) == {RequestedState(op, s) : op \in OperationAllowedInState(s)}

\* The controller takes up the state it is shown, or gets on with a task.
Decide ==
    \E t \in tasks \cup {view} :
      /\ tasks' \subseteq tasks \cup {t}
      /\ owed' \subseteq owed \cup Results(t)
      /\ UNCHANGED <<state, view, recent>>

\* A user asks, in the present state or in the one that the cache still shows.
Ask ==
    /\ owed' \subseteq owed \cup Requested(view) \cup Requested(state)
    /\ UNCHANGED <<state, view, recent, tasks>>

\* The state is s from now on.
Become(s) ==
    /\ state' = s
    /\ recent' = recent \cup {s}
    /\ owed' \subseteq owed
    /\ tasks' \subseteq tasks
    /\ UNCHANGED view

\* A result is written, be it of a state that the application has left; a
\* write may turn out to keep the state.
Write == \E s \in (owed \ {NoState}) \cup {state} : Become(s)

\* An operation that has seen the application start says so before it ends.
StartUp == tasks \cap StartUpTasks # {} /\ Become("initializing")

Download == state = "pending" /\ Become("downloading")

\* The cache catches up with a later version.
Deliver ==
    /\ view' \in recent'
    /\ recent' \subseteq recent
    /\ state \in recent'
    /\ UNCHANGED <<state, tasks, owed>>

\* The process restarts and remembers nothing.
Restart ==
    /\ view' = state
    /\ recent' = {state}
    /\ tasks' = {}
    /\ owed' = {}
    /\ UNCHANGED state

Next ==
    \/ Decide
    \/ Ask
    \/ Write
    \/ StartUp
    \/ Download
    \/ Deliver
    \/ Restart

Spec == Init /\ [][Next]_vars
=============================================================================
