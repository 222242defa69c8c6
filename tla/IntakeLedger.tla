----------------------------- MODULE IntakeLedger -----------------------------
(***************************************************************************)
(* What telemetry ingestion promises, whatever replica serves a request.   *)
(*                                                                         *)
(* The replicas together behave as one ledger of envelope keys.  A request *)
(* is decided at one instant: its key is entered and counted, or it is     *)
(* already there, or it is refused without effect.  A key is entered again *)
(* only after retention has forgotten it.                                  *)
(***************************************************************************)
EXTENDS Naturals

CONSTANTS Request, Key

VARIABLES
    held,     \* keys the ledger knows
    accepts,  \* accepts[k]: how often k has been entered
    asked,    \* asked[r]: the key request r submits
    phase     \* phase[r]: "idle", "pending" or the answer r was given

ledgerVars == <<held, accepts, asked, phase>>

LedgerInit ==
    /\ held = {}
    /\ accepts = [k \in Key |-> 0]
    /\ asked \in [Request -> Key]
    /\ phase = [r \in Request |-> "idle"]

Ask(r, k) ==
    /\ phase[r] = "idle"
    /\ asked' = [asked EXCEPT ![r] = k]
    /\ phase' = [phase EXCEPT ![r] = "pending"]
    /\ UNCHANGED <<held, accepts>>

(* The answer to an entered key can be lost on its way back to the server. *)
Enter(r) ==
    /\ phase[r] = "pending"
    /\ asked[r] \notin held
    /\ held' = held \cup {asked[r]}
    /\ accepts' = [accepts EXCEPT ![asked[r]] = @ + 1]
    /\ \E a \in {"accepted", "refused", "idle"} :
          phase' = [phase EXCEPT ![r] = a]
    /\ UNCHANGED asked

Repeat(r) ==
    /\ phase[r] = "pending"
    /\ asked[r] \in held
    /\ phase' = [phase EXCEPT ![r] = "duplicate"]
    /\ UNCHANGED <<held, accepts, asked>>

Refuse(r) ==
    /\ phase[r] = "pending"
    /\ phase' = [phase EXCEPT ![r] = "refused"]
    /\ UNCHANGED <<held, accepts, asked>>

Finish(r) ==
    /\ phase[r] # "idle"
    /\ phase' = [phase EXCEPT ![r] = "idle"]
    /\ UNCHANGED <<held, accepts, asked>>

Forget ==
    /\ held' \subseteq held
    /\ UNCHANGED <<accepts, asked, phase>>

LedgerNext ==
    \/ \E r \in Request :
          \/ \E k \in Key : Ask(r, k)
          \/ Enter(r) \/ Repeat(r) \/ Refuse(r) \/ Finish(r)
    \/ Forget

LedgerSpec == LedgerInit /\ [][LedgerNext]_ledgerVars
=============================================================================
