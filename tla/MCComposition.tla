--------------------------- MODULE MCComposition ----------------------------
(* Both browsers, both fields, up to MaxSends messages and as many         *)
(* compositions as one likes: the flags and timers are finite.             *)
EXTENDS Composition
=============================================================================
