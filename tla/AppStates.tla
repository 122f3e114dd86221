------------------------------ MODULE AppStates ------------------------------
(***************************************************************************)
(* The tables of the ApplicationManager state machine: the states an       *)
(* ApplicationManager can be in, the user operations, which operation a    *)
(* state accepts, which state an accepted operation asks for, how the      *)
(* controller dispatches on the state, and what each state's operation may *)
(* report.  No variables: AppManager.tla gives these tables their dynamics.*)
(***************************************************************************)

\* An ApplicationManager object without a state, or no object yet: the code
\* treats both as the empty string.
NoState == ""

\* Every ApplicationManagerState of the API type.
State ==
    {"pending", "downloading", "installing", "initializing", "running",
     "upgrading", "applyingEnv", "stopping", "resuming", "uninstalling",
     "pendingCanceling", "downloadingCanceling", "installingCanceling",
     "initializingCanceling", "upgradingCanceling", "applyingEnvCanceling",
     "resumingCanceling",
     "pendingCancelFailed", "downloadingCancelFailed",
     "installingCancelFailed", "upgradingCancelFailed",
     "applyingEnvCancelFailed", "resumingCancelFailed",
     "pendingCanceled", "downloadingCanceled", "installingCanceled",
     "initializingCanceled", "upgradingCanceled", "applyingEnvCanceled",
     "resumingCanceled",
     "stopped", "uninstalled",
     "downloadFailed", "installFailed", "stopFailed", "upgradeFailed",
     "applyEnvFailed", "resumeFailed", "uninstallFailed"}

OpType == {"install", "uninstall", "upgrade", "applyEnv", "stop", "resume", "cancel"}

CancelingStates ==
    {"pendingCanceling", "downloadingCanceling", "installingCanceling",
     "initializingCanceling", "resumingCanceling", "upgradingCanceling",
     "applyingEnvCanceling"}

CancelableStates ==
    {"pending", "downloading", "installing", "initializing", "resuming",
     "upgrading", "applyingEnv"}

\* The states in which some operation of the controller is still owed.
OperatingStates == CancelableStates \cup CancelingStates \cup {"stopping", "uninstalling"}

-----------------------------------------------------------------------------
(***************************************************************************)
(* What the API accepts and what it asks for.                              *)
(***************************************************************************)

InstallableStates ==
    {NoState, "pendingCanceled", "downloadingCanceled", "installingCanceled",
     "uninstalled", "downloadFailed", "installFailed"}

\* The operations that OperationAllowedInState lists for a state.
OperationAllowedInState(s) ==
    IF s \in InstallableStates THEN {"install"}
    ELSE IF s \in CancelableStates \cup {"pendingCancelFailed", "downloadingCancelFailed"}
         THEN {"cancel"}
    ELSE CASE s = "stopFailed"      -> {"stop", "upgrade", "uninstall"}
           [] s = "resumeFailed"    -> {"resume", "upgrade", "applyEnv", "uninstall"}
           [] s = "uninstallFailed" -> {"uninstall"}
           [] s = "upgradeFailed"   -> {"uninstall", "upgrade"}
           [] s = "applyEnvFailed"  -> {"uninstall", "applyEnv"}
           [] s \in {"installingCancelFailed", "upgradingCancelFailed",
                     "applyingEnvCancelFailed"} -> {"cancel", "uninstall"}
           [] s = "running" -> {"uninstall", "upgrade", "applyEnv", "stop"}
           [] s = "stopped" -> {"uninstall", "upgrade", "applyEnv", "resume"}
           [] OTHER -> {}

IsOperationAllowed(s, op) == op \in OperationAllowedInState(s)

\* The canceling state that the cancel handler chooses for the state it read.
\* Two states accept a cancel without having a case: the empty string then
\* makes the status update keep the state.
CancelState(s) ==
    CASE s \in {"pending", "pendingCancelFailed"}         -> "pendingCanceling"
      [] s \in {"downloading", "downloadingCancelFailed"} -> "downloadingCanceling"
      [] s \in {"installing", "installingCancelFailed"}   -> "installingCanceling"
      [] s = "initializing" -> "initializingCanceling"
      [] s = "resuming"     -> "resumingCanceling"
      [] s = "upgrading"    -> "upgradingCanceling"
      [] s = "applyingEnv"  -> "applyingEnvCanceling"
      [] OTHER -> NoState

\* The state a handler writes once it has accepted op in state s.
RequestedState(op, s) ==
    CASE op = "install"   -> "pending"
      [] op = "uninstall" -> "uninstalling"
      [] op = "upgrade"   -> "upgrading"
      [] op = "applyEnv"  -> "applyingEnv"
      [] op = "stop"      -> "stopping"
      [] op = "resume"    -> "resuming"
      [] op = "cancel"    -> CancelState(s)

\* The handlers that store the accepted operation with Update, which fails
\* when the copy they checked is not the latest one; upgrade, applyEnv and
\* install store it with a Patch, which never does.
LockedOps == {"uninstall", "stop", "resume", "cancel"}

-----------------------------------------------------------------------------
(***************************************************************************)
(* How the controller dispatches.                                          *)
(***************************************************************************)

DoNothingStates ==
    {"downloadFailed", "pendingCanceled", "downloadingCanceled",
     "installingCanceled", "initializingCanceled", "upgradingCanceled",
     "applyingEnvCanceled", "resumingCanceled", "stopped",
     "pendingCancelFailed", "downloadingCancelFailed", "upgradingCancelFailed",
     "applyingEnvCancelFailed", "applyEnvFailed"}

\* States whose Exec starts a goroutine under statefulAppFactory.execAndWatch.
WatchedStates == {"installing", "initializing", "upgrading", "applyingEnv", "uninstalling"}

\* States whose Exec returns a pollable application.
PolledStates == {"downloading", "resuming", "installingCanceling"}

\* States whose Exec suspends the workloads again and leaves the state alone.
SuspendAgainStates == {"stopFailed", "upgradeFailed", "resumeFailed"}

\* States whose Exec runs forceDeleteApp.
ForceDeleteStates == {"uninstallFailed", "installingCancelFailed"}

\* States that LoadStatefulApp has a case for; any other one makes it return
\* ErrorUnknownState without a way to reconcile it.
LoadedStates ==
    DoNothingStates \cup WatchedStates \cup PolledStates \cup SuspendAgainStates
    \cup ForceDeleteStates \cup CancelingStates
    \cup {"pending", "running", "stopping", "installFailed", "uninstalled"}

\* States that the code declares but, by the comments on the first two, never
\* enters: no time to live leads to the cancel failures, and cancellations end
\* in stopping.
ImpossibleStates ==
    {"pendingCancelFailed", "downloadingCancelFailed", "upgradingCancelFailed",
     "resumingCancelFailed", "initializingCanceled", "upgradingCanceled",
     "applyingEnvCanceled", "resumingCanceled"}

\* The states that the controller reconciles and really enters, and no state.
PossibleStates == (LoadedStates \cup {NoState}) \ ImpossibleStates

\* States that LoadStatefulApp gives a positive time to live.
TimedStates ==
    {"pending", "downloading", "installing", "initializing", "stopping",
     "upgrading", "applyingEnv", "resuming", "installingCanceling", "uninstalling"}

\* The state that Cancel writes when an operation is found timed out; the
\* Cancel of stopping writes nothing.
TimeoutState(s) ==
    CASE s = "pending"      -> "pendingCanceled"
      [] s = "downloading"  -> "downloadingCanceling"
      [] s = "installing"   -> "installingCanceling"
      [] s = "initializing" -> "initializingCanceling"
      [] s = "upgrading"    -> "upgradingCanceling"
      [] s = "applyingEnv"  -> "applyingEnvCanceling"
      [] s = "resuming"     -> "resumingCanceling"
      [] s = "uninstalling" -> "uninstallFailed"
      [] s = "installingCanceling"   -> "installingCancelFailed"
      [] s = "pendingCanceling"      -> "pendingCancelFailed"
      [] s = "downloadingCanceling"  -> "downloadingCancelFailed"
      [] s = "initializingCanceling" -> "installingCancelFailed"
      [] s = "resumingCanceling"     -> "resumingCancelFailed"
      [] OTHER -> NoState

\* The Cancel methods that also cancel the running operation.
CancelOnTimeout == {"uninstalling", "installingCanceling"}

\* Mutant of CanceledState: every cancellation ends in the canceled state of its name.
CanceledStateByName(s) ==
    CASE s = "pendingCanceling"      -> "pendingCanceled"
      [] s = "downloadingCanceling"  -> "downloadingCanceled"
      [] s = "initializingCanceling" -> "initializingCanceled"
      [] s = "resumingCanceling"     -> "resumingCanceled"
      [] s = "upgradingCanceling"    -> "upgradingCanceled"
      [] s = "applyingEnvCanceling"  -> "applyingEnvCanceled"
      [] OTHER -> NoState

\* Mutant of CanceledState: a misspelled state.
CanceledStateMisspelled(s) ==
    CASE s = "pendingCanceling"     -> "pendingCancelled"
      [] s = "downloadingCanceling" -> "downloadingCancelled"
      [] s \in {"initializingCanceling", "resumingCanceling",
                "upgradingCanceling", "applyingEnvCanceling"} -> "stopping"
      [] OTHER -> NoState

\* The state that the Exec of a canceling state writes after it cancelled
\* the running operation.
CanceledState(s) ==
    CASE s = "pendingCanceling"     -> "pendingCanceled"
      [] s = "downloadingCanceling" -> "downloadingCanceled"
      [] s \in {"initializingCanceling", "resumingCanceling",
                "upgradingCanceling", "applyingEnvCanceling"} -> "stopping"
      [] OTHER -> NoState

\* The canceling states that first mark the ImageManager as canceled, and
\* give up with an error when it does not exist.
ImageCancelStates == {"downloadingCanceling", "upgradingCanceling"}

\* The failure that the synchronous part of a polled state's Exec records.
ExecFailedState(s) ==
    CASE s = "downloading" -> "downloadFailed"
      [] s = "resuming"    -> "resumeFailed"
      [] s = "installingCanceling" -> "installingCancelFailed"
      [] OTHER -> NoState

-----------------------------------------------------------------------------
(***************************************************************************)
(* What the goroutine of an operation leaves in `finally` (NoState: it     *)
(* leaves nothing), as long as its context is live and after its context   *)
(* was cancelled.  A wait for the launch or the start-up of an application *)
(* ends only with success or with the cancellation.                        *)
(***************************************************************************)
\* Installing an application ends with the start-up of its pods; installing a
\* middleware goes on to wait for its launch.
InstallingOutcomes(mw, cancelled) ==
    {"installFailed"}
    \cup (IF mw THEN {"running"} ELSE {"initializing", "stopping"})
    \cup (IF mw /\ cancelled THEN {"installingCanceling"} ELSE {})

InitializingOutcomes(cancelled) ==
    {"running"} \cup (IF cancelled THEN {"initializingCanceling"} ELSE {})

UpgradingOutcomes == {"initializing", "upgradeFailed"}

ApplyingEnvOutcomes == {"initializing", "applyEnvFailed"}

UninstallingOutcomes == {"uninstalled", "uninstallFailed"}

\* A cancelled download records nothing; the other pollers take the
\* cancellation for a failure.
DownloadingOutcomes(cancelled) ==
    {"installing", "downloadFailed"} \cup (IF cancelled THEN {NoState} ELSE {})

ResumingOutcomes(cancelled) ==
    {"initializing"} \cup (IF cancelled THEN {"resumeFailed"} ELSE {})

InstallingCancelingOutcomes(cancelled) ==
    {"installingCanceled"} \cup (IF cancelled THEN {"installingCancelFailed"} ELSE {})

Outcomes(s, mw, cancelled) ==
    CASE s = "installing"   -> InstallingOutcomes(mw, cancelled)
      [] s = "initializing" -> InitializingOutcomes(cancelled)
      [] s = "upgrading"    -> UpgradingOutcomes
      [] s = "applyingEnv"  -> ApplyingEnvOutcomes
      [] s = "uninstalling" -> UninstallingOutcomes
      [] s = "downloading"  -> DownloadingOutcomes(cancelled)
      [] s = "resuming"     -> ResumingOutcomes(cancelled)
      [] s = "installingCanceling" -> InstallingCancelingOutcomes(cancelled)
      [] OTHER -> {}

-----------------------------------------------------------------------------
(***************************************************************************)
(* The table StateTransitions, which the code keeps as documentation: no   *)
(* code path reads it.                                                     *)
(***************************************************************************)
StateTransitions(s) ==
    CASE s = "pending"      -> {"downloading", "pendingCanceling"}
      [] s = "downloading"  -> {"installing", "downloadFailed", "downloadingCanceling"}
      [] s = "installing"   -> {"initializing", "installFailed", "installingCanceling", "stopping"}
      [] s = "initializing" -> {"running", "initializingCanceling"}
      [] s = "running"      -> {"stopping", "upgrading", "applyingEnv", "uninstalling"}
      [] s = "stopping"     -> {"stopped", "stopFailed"}
      [] s = "upgrading"    -> {"initializing", "upgradeFailed", "upgradingCanceling"}
      [] s = "applyingEnv"  -> {"initializing", "applyEnvFailed", "applyingEnvCanceling"}
      [] s = "uninstalling" -> {"uninstalled", "uninstallFailed"}
      [] s = "pendingCanceling"     -> {"pendingCanceled", "pendingCancelFailed"}
      [] s = "downloadingCanceling" -> {"downloadingCanceled", "downloadingCancelFailed"}
      [] s = "installingCanceling"  -> {"installingCanceled", "installingCancelFailed"}
      [] s \in {"initializingCanceling", "resumingCanceling", "upgradingCanceling",
                "applyingEnvCanceling"} -> {"stopping"}
      [] s = "resuming"     -> {"resumingCanceling", "resumeFailed", "initializing"}
      [] s = "stopped"      -> {"resuming", "uninstalling", "upgrading", "applyingEnv"}
      [] s \in {"downloadFailed", "installFailed"} -> {"pending"}
      [] s = "stopFailed"   -> {"stopping", "upgrading", "applyingEnv", "uninstalling"}
      [] s = "upgradeFailed"   -> {"stopping", "upgrading", "uninstalling"}
      [] s = "applyEnvFailed"  -> {"stopping", "applyingEnv", "uninstalling"}
      [] s = "resumeFailed"    -> {"resuming", "uninstalling"}
      [] s = "uninstallFailed" -> {"uninstalling"}
      [] s = "pendingCancelFailed"     -> {"pendingCanceling"}
      [] s = "downloadingCancelFailed" -> {"downloadingCanceling"}
      [] s = "installingCancelFailed"  -> {"installingCanceling"}
      [] OTHER -> {}
=============================================================================
