--------------------------- MODULE MCSequenceStore ---------------------------
(* The service alone on its state directory; for NumberIsFresh with an     *)
(* operator's "--once" run beside it.                                      *)
EXTENDS SequenceStore
=============================================================================
