--------------------------- MODULE MCConsoleShell ---------------------------
(* Two hosts that differ in status, a search that finds one of them, two   *)
(* alerts that differ in state and severity, two tabs of the host page.    *)
EXTENDS ConsoleShell, TLC

CONSTANTS h1, h2, t1

MCHost == {h1, h2}
MCMatching == t1 :> {h1}
MCHostStatus == (h1 :> "healthy") @@ (h2 :> "degraded")
MCAlert == {[host |-> h1, state |-> "active", severity |-> "critical"],
            [host |-> h2, state |-> "acknowledged", severity |-> "warning"]}
=============================================================================
