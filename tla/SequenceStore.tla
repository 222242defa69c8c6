---------------------------- MODULE SequenceStore ----------------------------
(***************************************************************************)
(* The agent's durable sequence number: internal/agent/state_linux.go.     *)
(*                                                                         *)
(* The server deduplicates envelopes on (agent, boot, sequence), so a pair *)
(* (boot, sequence) that the store hands out twice makes the server drop   *)
(* the second envelope silently.  The store keeps the last number in       *)
(* sequence.json and replaces it through sequence.json.tmp and a rename.   *)
(* It never syncs either file, so a power loss can leave them truncated;   *)
(* the boot identifier changes at the same time.                           *)
(*                                                                         *)
(* Each file is modelled by its decoded contents: the state it holds, or   *)
(* NoFile when it does not exist, or Truncated when its bytes are no JSON  *)
(* document.  A process is one nodescope-agent; several of them share the  *)
(* files when an operator runs "nodescope-agent --once" beside the         *)
(* service (SharedDirectory).                                              *)
(***************************************************************************)
EXTENDS Naturals

CONSTANTS
    Process,          \* the agent processes that use one state directory
    BootID,           \* the kernel's boot identifiers, one per boot
    SharedDirectory,  \* TRUE: processes may run at the same time
    MaxSequence       \* bound on the numbers explored

NoFile    == "no file"
Truncated == "truncated"

ASSUME BootAssumption == {NoFile, Truncated} \cap BootID = {}
ASSUME DirectoryAssumption == SharedDirectory \in BOOLEAN
ASSUME MaxSequenceAssumption == MaxSequence \in Nat

VARIABLES
    boot,       \* the host's current boot identifier
    pastBoots,  \* boot identifiers used so far, the current one included
    stage,      \* stage[p]: where process p is
    state,      \* state[p]: SequenceStore.state, the in-memory persistedState
    file,       \* contents of sequence.json
    temporary,  \* contents of sequence.json.tmp
    issued,     \* history: the states Next has returned to its callers
    powerLost   \* history: the host has lost power at least once

storeVars == <<boot, pastBoots, stage, state, file, temporary, issued, powerLost>>

PersistedState == [bootId : BootID, sequence : Nat]
Contents(id)   == [bootId |-> id, sequence |-> 0]
FileContents   == PersistedState \cup {Contents(NoFile), Contents(Truncated)}

\* The steps of Next: number taken, temporary opened, written, renamed.
InNext  == {"taken", "opened", "written", "renamed"}
Running == {"idle"} \cup InNext

StoreTypeOK ==
    /\ boot \in BootID
    /\ pastBoots \in SUBSET BootID
    /\ stage \in [Process -> Running \cup {"down"}]
    /\ state \in [Process -> PersistedState]
    /\ file \in FileContents
    /\ temporary \in FileContents
    /\ issued \in SUBSET PersistedState
    /\ powerLost \in BOOLEAN

StoreInit ==
    /\ boot \in BootID
    /\ pastBoots = {boot}
    /\ stage = [p \in Process |-> "down"]
    /\ state = [p \in Process |-> Contents(boot)]
    /\ file = Contents(NoFile)
    /\ temporary = Contents(NoFile)
    /\ issued = {}
    /\ powerLost = FALSE

-----------------------------------------------------------------------------
(* OpenSequenceStore: a missing file, or one of another boot, starts at    *)
(* zero; one that does not decode makes the agent exit.                    *)

LoadedStateIgnoresFile == Contents(boot)  \* mutant: the file is not read

LoadedState ==
    IF file.bootId = boot THEN file ELSE Contents(boot)

OpenSequenceStore(p) ==
    /\ stage[p] = "down"
    /\ SharedDirectory \/ \A q \in Process : stage[q] = "down"
    /\ file.bootId # Truncated
    /\ stage' = [stage EXCEPT ![p] = "idle"]
    /\ state' = [state EXCEPT ![p] = LoadedState]
    /\ UNCHANGED <<boot, pastBoots, file, temporary, issued, powerLost>>

(* Next: the number is taken in memory first and never given back.         *)

TakeNumber(p) ==
    /\ stage[p] = "idle"
    /\ state[p].sequence < MaxSequence
    /\ stage' = [stage EXCEPT ![p] = "taken"]
    /\ state' = [state EXCEPT ![p].sequence = @ + 1]
    /\ UNCHANGED <<boot, pastBoots, file, temporary, issued, powerLost>>

\* mutant: sequence.json itself is opened and truncated
OpenTemporaryInPlace(p) ==
    /\ stage[p] = "taken"
    /\ stage' = [stage EXCEPT ![p] = "opened"]
    /\ temporary' = Contents(Truncated)
    /\ file' = Contents(Truncated)
    /\ UNCHANGED <<boot, pastBoots, state, issued, powerLost>>

OpenTemporary(p) ==
    /\ stage[p] = "taken"
    /\ stage' = [stage EXCEPT ![p] = "opened"]
    /\ temporary' = Contents(Truncated)
    /\ UNCHANGED <<boot, pastBoots, state, file, issued, powerLost>>

WriteTemporary(p) ==
    /\ stage[p] = "opened"
    /\ stage' = [stage EXCEPT ![p] = "written"]
    /\ temporary' = state[p]
    /\ UNCHANGED <<boot, pastBoots, state, file, issued, powerLost>>

RenameTemporary(p) ==
    /\ stage[p] = "written"
    /\ temporary.bootId # NoFile
    /\ stage' = [stage EXCEPT ![p] = "renamed"]
    /\ file' = temporary
    /\ temporary' = Contents(NoFile)
    /\ UNCHANGED <<boot, pastBoots, state, issued, powerLost>>

ReturnNumber(p) ==
    /\ stage[p] = "renamed"
    /\ stage' = [stage EXCEPT ![p] = "idle"]
    /\ issued' = issued \cup {state[p]}
    /\ UNCHANGED <<boot, pastBoots, state, file, temporary, powerLost>>

(* The checks, the open, the write, the close, the chmod and the rename    *)
(* can each fail; Next returns an error and keeps the number it took.      *)
NextFails(p) ==
    /\ stage[p] \in {"taken", "opened", "written"}
    /\ stage' = [stage EXCEPT ![p] = "idle"]
    /\ UNCHANGED <<boot, pastBoots, state, file, temporary, issued, powerLost>>

-----------------------------------------------------------------------------
(* The process dies (or exits) between any two steps; what it has written  *)
(* stays in the page cache.                                                *)
ProcessStops(p) ==
    /\ stage[p] # "down"
    /\ stage' = [stage EXCEPT ![p] = "down"]
    /\ UNCHANGED <<boot, pastBoots, state, file, temporary, issued, powerLost>>

(* The host starts again under a boot identifier never used before.  An    *)
(* orderly reboot keeps the files.                                         *)
NewBoot ==
    /\ boot' \in BootID \ pastBoots
    /\ pastBoots' = pastBoots \cup {boot'}
    /\ stage' = [p \in Process |-> "down"]
    /\ UNCHANGED <<state, issued>>

Reboot == NewBoot /\ UNCHANGED <<file, temporary, powerLost>>

(* A power loss drops or truncates what was never synced.                  *)
PowerLoss ==
    /\ NewBoot
    /\ powerLost' = TRUE
    /\ file' \in {file, Contents(NoFile), Contents(Truncated)}
    /\ temporary' \in {temporary, Contents(NoFile), Contents(Truncated)}

StoreNext ==
    \/ \E p \in Process :
          \/ OpenSequenceStore(p) \/ TakeNumber(p) \/ OpenTemporary(p)
          \/ WriteTemporary(p) \/ RenameTemporary(p) \/ ReturnNumber(p)
          \/ NextFails(p) \/ ProcessStops(p)
    \/ Reboot
    \/ PowerLoss

StoreSpec == StoreInit /\ [][StoreNext]_storeVars
-----------------------------------------------------------------------------
(* Whatever crashes, failed writes, reboots and power losses came before,  *)
(* the number Next is about to return is greater than every number it      *)
(* returned in the same boot: no envelope reuses an idempotency key.       *)
IssuesInOrder ==
    \A p \in Process : stage[p] = "renamed" =>
        \A n \in issued :
            n.bootId = state[p].bootId => n.sequence < state[p].sequence

(* The number Next is about to return has not been returned before.        *)
NumberIsFresh ==
    \A p \in Process : stage[p] = "renamed" => state[p] \notin issued

(* An agent that is killed at any step of Next can open its state again:   *)
(* only a power loss can leave a sequence.json that does not decode.       *)
StopKeepsFileReadable == ~powerLost => file.bootId # Truncated
=============================================================================
