--------------------------- MODULE MCConsoleSession ---------------------------
(* Two tabs of one browser, the second of them a preview frame; the owner  *)
(* and a person without a name.                                            *)
EXTENDS ConsoleSession
=============================================================================
