---------------------------- MODULE MCFencedBackup ----------------------------
(* A replica whose timer and operator both start a backup, and a second    *)
(* replica.  The first two are interchangeable.                            *)
EXTENDS FencedBackup, TLC

CONSTANTS timer, operator, other, A, B

MCWorker    == {timer, operator, other}
MCReplicaOf == (timer :> A) @@ (operator :> A) @@ (other :> B)
MCSymmetry  == Permutations({timer, operator})
=============================================================================
