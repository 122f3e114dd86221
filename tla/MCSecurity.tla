----------------------------- MODULE MCSecurity -----------------------------
(* A small instance of Security for TLC.                                    *)
EXTENDS Security

Cfg(i, s, m, c) == [internal |-> i, system |-> s, middleware |-> m, chart |-> c]

\* The private part of an application that runs for its owner, the shared part
\* of a system service, and a middleware that is a system service.
Configs == {Cfg(TRUE, FALSE, FALSE, "private"), Cfg(FALSE, TRUE, FALSE, "shared"),
            Cfg(FALSE, TRUE, TRUE, "none")}
=============================================================================
