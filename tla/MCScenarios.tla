----------------------------- MODULE MCScenarios -----------------------------
(***************************************************************************)
(* Two ways to follow one application to its rest: without faults through  *)
(* any request, or with faults through stops, resumes and uninstallations. *)
(***************************************************************************)
EXTENDS MCAppManager

VARIABLE scenario   \* "calm" or "recovery"

ScenarioInit ==
    /\ Init
    /\ scenario \in {"calm", "recovery"}
    /\ scenario = "recovery" =>
         \A a \in Moving : a \notin Middleware /\ Stored(a).state = "running"

ScenarioSpec ==
    ScenarioInit /\ [][Next /\ UNCHANGED scenario]_<<vars, scenario>> /\ Fairness

\* One request of any kind, on an ordinary application or a middleware.
Calm == requests <= 1 /\ faults = 0

\* Only requests to stop, resume and uninstall.
Recovering ==
    \A h \in Handler :
        req[h] # NoRequest => req[h].target \in {"stopping", "resuming", "uninstalling"}

InScenario ==
    /\ Cardinality(Moving) = 1
    /\ IF scenario = "calm" THEN Calm ELSE Recovering

=============================================================================
