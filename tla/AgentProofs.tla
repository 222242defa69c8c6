----------------------------- MODULE AgentProofs -----------------------------
(***************************************************************************)
(* Proofs about the agent's two components.                                *)
(*                                                                         *)
(* SequenceStore: what the store guarantees for every set of boots and     *)
(* every number of restarts, when one agent at a time uses the state       *)
(* directory.                                                              *)
(*                                                                         *)
(* AgentSender: for any number of replicas, any threshold, cooldown and    *)
(* number of attempts.                                                     *)
(***************************************************************************)
EXTENDS SequenceStore, AgentSender, TLAPS

(* At most one process runs.                                               *)
OneProcess ==
    \A p, q \in Process : stage[p] # "down" /\ stage[q] # "down" => p = q

(* Every boot that ever issued a number has been a boot of the host.       *)
BootsRecorded ==
    /\ boot \in pastBoots
    /\ \A n \in issued : n.bootId \in pastBoots

(* What a running process has in memory is never behind sequence.json, and *)
(* is ahead of it between taking a number and committing it.               *)
MemoryAhead ==
    \A p \in Process :
        /\ stage[p] # "down" =>
              /\ state[p].bootId = boot
              /\ file.bootId = boot => file.sequence <= state[p].sequence
        /\ stage[p] \in {"taken", "opened", "written"} =>
              (file.bootId = boot => file.sequence < state[p].sequence)
        /\ stage[p] = "written" => temporary = state[p]
        /\ stage[p] = "renamed" => file = state[p]

(* sequence.json covers every number of this boot that has been returned.  *)
FileCoversIssued ==
    \A n \in issued : n.bootId = boot =>
        file.bootId = boot /\ n.sequence <= file.sequence

Safe ==
    /\ StoreTypeOK
    /\ OneProcess
    /\ BootsRecorded
    /\ MemoryAhead
    /\ FileCoversIssued
    /\ IssuesInOrder
    /\ StopKeepsFileReadable

-----------------------------------------------------------------------------
(* A decoded state is neither a missing nor a truncated file.              *)
LEMMA ContentsType ==
    /\ \A id \in BootID : Contents(id) \in PersistedState
    /\ \A s \in PersistedState : s.bootId # NoFile /\ s.bootId # Truncated
BY BootAssumption DEF Contents, PersistedState, NoFile, Truncated

(* The number in sequence.json is a number, whatever state the file is in. *)
LEMMA FileSequenceType == StoreTypeOK => file.sequence \in Nat
BY DEF StoreTypeOK, FileContents, PersistedState, Contents

(* The strengthened invariant holds when the agent is installed.           *)
LEMMA InitSafe == StoreInit => Safe
<1> SUFFICES ASSUME StoreInit PROVE Safe
  OBVIOUS
<1> USE DEF StoreInit
<1>1. Contents(boot) \in PersistedState
  BY ContentsType
<1>2. StoreTypeOK
  BY <1>1 DEF StoreTypeOK, FileContents, Running
<1>3. Contents(NoFile).bootId = NoFile
  BY DEF Contents
<1>4. StopKeepsFileReadable
  BY <1>3 DEF StopKeepsFileReadable, NoFile, Truncated
<1>5. OneProcess /\ BootsRecorded /\ FileCoversIssued /\ IssuesInOrder
  BY DEF OneProcess, BootsRecorded, FileCoversIssued, IssuesInOrder
<1>6. MemoryAhead
  BY DEF MemoryAhead
<1> QED
  BY <1>2, <1>4, <1>5, <1>6 DEF Safe

(* Every step keeps the store well typed.                                  *)
LEMMA StepType == StoreTypeOK /\ [StoreNext]_storeVars => StoreTypeOK'
<1> SUFFICES ASSUME StoreTypeOK, [StoreNext]_storeVars PROVE StoreTypeOK'
  OBVIOUS
<1> USE DEF StoreTypeOK, FileContents
<1>1. ASSUME NEW p \in Process, OpenSequenceStore(p) PROVE StoreTypeOK'
  <2>1. CASE file.bootId = boot
    <3>1. file # Contents(NoFile) /\ file # Contents(Truncated)
      BY <2>1, BootAssumption DEF Contents
    <3> QED BY <1>1, <2>1, <3>1 DEF OpenSequenceStore, LoadedState, Running
  <2>2. CASE file.bootId # boot
    <3>1. Contents(boot) \in PersistedState
      BY ContentsType
    <3> QED BY <1>1, <2>2, <3>1 DEF OpenSequenceStore, LoadedState, Running
  <2> QED BY <2>1, <2>2
<1>2. ASSUME NEW p \in Process, TakeNumber(p) PROVE StoreTypeOK'
  BY <1>2 DEF TakeNumber, Running, InNext, PersistedState
<1>3. ASSUME NEW p \in Process, OpenTemporary(p) PROVE StoreTypeOK'
  BY <1>3 DEF OpenTemporary, Running, InNext
<1>4. ASSUME NEW p \in Process, WriteTemporary(p) PROVE StoreTypeOK'
  BY <1>4 DEF WriteTemporary, Running, InNext
<1>5. ASSUME NEW p \in Process, RenameTemporary(p) PROVE StoreTypeOK'
  BY <1>5 DEF RenameTemporary, Running, InNext
<1>6. ASSUME NEW p \in Process, ReturnNumber(p) PROVE StoreTypeOK'
  BY <1>6 DEF ReturnNumber, Running
<1>7. ASSUME NEW p \in Process, NextFails(p) PROVE StoreTypeOK'
  BY <1>7 DEF NextFails, Running
<1>8. ASSUME NEW p \in Process, ProcessStops(p) PROVE StoreTypeOK'
  BY <1>8 DEF ProcessStops
<1>9. CASE Reboot
  BY <1>9 DEF Reboot, NewBoot
<1>10. CASE PowerLoss
  BY <1>10 DEF PowerLoss, NewBoot
<1>11. CASE UNCHANGED storeVars
  BY <1>11 DEF storeVars
<1> QED
  BY <1>1, <1>2, <1>3, <1>4, <1>5, <1>6, <1>7, <1>8, <1>9, <1>10, <1>11
     DEF StoreNext

(* With one agent at a time, every step keeps the strengthened invariant.  *)
LEMMA StepSafe ==
    ASSUME ~SharedDirectory PROVE Safe /\ [StoreNext]_storeVars => Safe'
<1> SUFFICES ASSUME Safe, [StoreNext]_storeVars PROVE Safe'
  OBVIOUS
<1>T. StoreTypeOK /\ StoreTypeOK'
  BY StepType DEF Safe
<1> DEFINE Rest == /\ OneProcess /\ BootsRecorded /\ MemoryAhead
                   /\ FileCoversIssued /\ IssuesInOrder
                   /\ StopKeepsFileReadable
<1> SUFFICES Rest'
  BY <1>T DEF Safe
<1> USE DEF Safe, OneProcess, BootsRecorded, MemoryAhead, FileCoversIssued,
        IssuesInOrder, StopKeepsFileReadable
<1>1. ASSUME NEW p \in Process, OpenSequenceStore(p) PROVE Rest'
  <2>1. \A q \in Process : stage[q] = "down"
    BY <1>1 DEF OpenSequenceStore
  <2>2. /\ LoadedState.bootId = boot
        /\ file.bootId = boot => LoadedState = file
    BY DEF LoadedState, Contents
  <2>3. file.sequence \in Nat
    BY <1>T, FileSequenceType
  <2>4. /\ state' = [state EXCEPT ![p] = LoadedState]
        /\ stage' = [stage EXCEPT ![p] = "idle"]
        /\ UNCHANGED <<boot, pastBoots, file, temporary, issued, powerLost>>
    BY <1>1 DEF OpenSequenceStore
  <2>5. OneProcess' /\ IssuesInOrder'
    BY <2>1, <2>4, <1>T DEF StoreTypeOK
  <2>6. MemoryAhead'
    BY <2>1, <2>2, <2>3, <2>4, <1>T DEF StoreTypeOK
  <2> QED
    BY <2>4, <2>5, <2>6
<1>2. ASSUME NEW p \in Process, TakeNumber(p) PROVE Rest'
  <2>1. /\ stage[p] = "idle"
        /\ stage' = [stage EXCEPT ![p] = "taken"]
        /\ state' = [state EXCEPT ![p].sequence = @ + 1]
        /\ UNCHANGED <<boot, pastBoots, file, temporary, issued, powerLost>>
    BY <1>2 DEF TakeNumber
  <2>2. /\ state'[p].bootId = state[p].bootId
        /\ state'[p].sequence = state[p].sequence + 1
        /\ state[p].sequence \in Nat
        /\ \A q \in Process : q # p => state'[q] = state[q] /\ stage'[q] = stage[q]
        /\ stage'[p] = "taken"
    BY <2>1, <1>T DEF StoreTypeOK, PersistedState
  <2>3. file.sequence \in Nat
    BY <1>T, FileSequenceType
  <2>4. OneProcess' /\ IssuesInOrder'
    BY <2>1, <2>2
  <2>5. MemoryAhead'
    BY <2>1, <2>2, <2>3
  <2> QED
    BY <2>1, <2>4, <2>5
<1>3. ASSUME NEW p \in Process, OpenTemporary(p) PROVE Rest'
  BY <1>3, <1>T DEF OpenTemporary, StoreTypeOK, PersistedState
<1>4. ASSUME NEW p \in Process, WriteTemporary(p) PROVE Rest'
  BY <1>4, <1>T DEF WriteTemporary, StoreTypeOK, PersistedState
<1>5. ASSUME NEW p \in Process, RenameTemporary(p) PROVE Rest'
  <2>1. /\ stage[p] = "written" /\ file' = temporary /\ temporary = state[p]
        /\ stage' = [stage EXCEPT ![p] = "renamed"]
        /\ UNCHANGED <<boot, pastBoots, state, issued, powerLost>>
    BY <1>5 DEF RenameTemporary
  <2>2. /\ file' = state[p] /\ state[p].bootId = boot
        /\ state[p] \in PersistedState
        /\ \A q \in Process : q # p => stage[q] = "down" /\ stage'[q] = "down"
        /\ stage'[p] = "renamed"
    BY <2>1, <1>T DEF StoreTypeOK
  <2>3. \A n \in issued : n.bootId = boot =>
           n.sequence \in Nat /\ n.sequence < state[p].sequence
    BY <2>1, <2>2, <1>T, FileSequenceType DEF StoreTypeOK, PersistedState
  <2>4. FileCoversIssued'
    BY <2>1, <2>2, <2>3 DEF PersistedState
  <2>5. MemoryAhead'
    BY <2>1, <2>2 DEF PersistedState
  <2>6. OneProcess' /\ BootsRecorded' /\ IssuesInOrder'
    BY <2>1, <2>2, <2>3
  <2>7. StopKeepsFileReadable'
    BY <2>2, ContentsType
  <2> QED
    BY <2>4, <2>5, <2>6, <2>7
<1>6. ASSUME NEW p \in Process, ReturnNumber(p) PROVE Rest'
  BY <1>6, <1>T DEF ReturnNumber, StoreTypeOK, PersistedState
<1>7. ASSUME NEW p \in Process, NextFails(p) PROVE Rest'
  BY <1>7, <1>T DEF NextFails, StoreTypeOK, PersistedState
<1>8. ASSUME NEW p \in Process, ProcessStops(p) PROVE Rest'
  BY <1>8, <1>T DEF ProcessStops, StoreTypeOK, PersistedState
<1>9. CASE Reboot
  BY <1>9, <1>T DEF Reboot, NewBoot, StoreTypeOK, PersistedState
<1>10. CASE PowerLoss
  BY <1>10, <1>T DEF PowerLoss, NewBoot, StoreTypeOK, PersistedState
<1>11. CASE UNCHANGED storeVars
  BY <1>11 DEF storeVars
<1> QED
  BY <1>1, <1>2, <1>3, <1>4, <1>5, <1>6, <1>7, <1>8, <1>9, <1>10, <1>11
     DEF StoreNext

-----------------------------------------------------------------------------
(* Every state of the store is well typed, however many agents share it.   *)
THEOREM TypeCorrect == StoreSpec => []StoreTypeOK
<1>1. StoreInit => StoreTypeOK
  BY InitSafe DEF Safe
<1> QED
  BY <1>1, StepType, PTL DEF StoreSpec

(* With one agent on the state directory, SequenceStore.Next never returns *)
(* a number that is not greater than all it returned in the same boot.     *)
THEOREM SequenceNeverReused ==
    ASSUME ~SharedDirectory PROVE StoreSpec => []IssuesInOrder
<1>1. Safe => IssuesInOrder
  BY DEF Safe
<1> QED
  BY <1>1, InitSafe, StepSafe, PTL DEF StoreSpec

(* With one agent on the state directory, killing it between any two steps *)
(* of SequenceStore.Next leaves a sequence.json that opens again.          *)
THEOREM FileStaysReadable ==
    ASSUME ~SharedDirectory PROVE StoreSpec => []StopKeepsFileReadable
<1>1. Safe => StopKeepsFileReadable
  BY DEF Safe
<1> QED
  BY <1>1, InitSafe, StepSafe, PTL DEF StoreSpec
-----------------------------------------------------------------------------
(* Failures is the streak, but for a circuit that has just tripped.        *)
CountsStreak ==
    \A e \in Replica :
        failures[e] = IF streak[e] = Threshold THEN 0 ELSE streak[e]

(* Every replica the pass has left behind failed when last asked.          *)
PassJustified ==
    pc \in {"choosing", "requesting"} => \A e \in Replica : e < at => streak[e] > 0

(* A request is only outstanding at a replica whose circuit is closed.      *)
AskedIsClosed == pc = "requesting" => at \in Replica /\ openFor[at] = 0

(* The agent only sleeps when it will try again.                           *)
SleepsToRetry == pc = "sleeping" => attempt < MaxAttempts - 1

SenderInv ==
    /\ TypeOK /\ BreakerExact /\ CountsStreak
    /\ PassJustified /\ AskedIsClosed /\ SleepsToRetry

LEMMA InitSender == Init => SenderInv
<1> SUFFICES ASSUME Init PROVE SenderInv
  OBVIOUS
<1>1. TypeOK
  <2>1. /\ 0 \in 0..(Threshold - 1) /\ 0 \in 0..Cooldown /\ 0 \in 0..Threshold
        /\ 0 \in 0..(MaxAttempts - 1) /\ 1 \in 1..(Last + 1) /\ 0 \in 0..Last
    BY SenderAssumption
  <2>2. pc \in Places /\ outcome \in Outcomes
    BY DEF Init, Places, Outcomes
  <2> QED BY <2>1, <2>2 DEF Init, TypeOK
<1>2. BreakerExact /\ CountsStreak
  BY SenderAssumption DEF Init, BreakerExact, CountsStreak
<1>3. PassJustified
  BY DEF Init, PassJustified, Replica
<1>4. AskedIsClosed /\ SleepsToRetry
  BY DEF Init, AskedIsClosed, SleepsToRetry
<1> QED BY <1>1, <1>2, <1>3, <1>4 DEF SenderInv

(* A failure keeps the breaker exact and lengthens the streak.             *)
LEMMA FailureRecorded ==
    ASSUME SenderInv, NEW e \in Replica, openFor[e] = 0, RecordTransientFailure(e)
    PROVE  /\ failures' \in [Replica -> 0..(Threshold - 1)]
           /\ openFor' \in [Replica -> 0..Cooldown]
           /\ streak' \in [Replica -> 0..Threshold]
           /\ quiet' \in [Replica -> 0..Cooldown]
           /\ BreakerExact' /\ CountsStreak'
           /\ streak'[e] > 0
           /\ \A d \in Replica : streak[d] > 0 => streak'[d] > 0
<1> USE SenderAssumption DEF SenderInv, TypeOK
<1> DEFINE trips == failures[e] + 1 >= Threshold
           s == IF streak[e] = Threshold THEN 1 ELSE streak[e] + 1
           f == IF trips THEN 0 ELSE failures[e] + 1
           o == IF trips THEN Cooldown ELSE openFor[e]
<1>1. /\ failures' = [failures EXCEPT ![e] = f]
      /\ openFor' = [openFor EXCEPT ![e] = o]
      /\ streak' = [streak EXCEPT ![e] = s]
      /\ quiet' = [quiet EXCEPT ![e] = 0]
  BY DEF RecordTransientFailure
<1>2. failures[e] = IF streak[e] = Threshold THEN 0 ELSE streak[e]
  BY DEF CountsStreak
<1>3. /\ s \in 1..Threshold /\ f \in 0..(Threshold - 1) /\ o \in 0..Cooldown
      /\ f = IF s = Threshold THEN 0 ELSE s
      /\ o = IF s = Threshold THEN Cooldown ELSE 0
  BY <1>2
<1> HIDE DEF s, f, o
<1>4. /\ failures' \in [Replica -> 0..(Threshold - 1)]
      /\ openFor' \in [Replica -> 0..Cooldown]
      /\ streak' \in [Replica -> 0..Threshold]
      /\ quiet' \in [Replica -> 0..Cooldown]
  BY <1>1, <1>3
<1>5. /\ failures'[e] = f /\ openFor'[e] = o /\ streak'[e] = s /\ quiet'[e] = 0
      /\ \A d \in Replica \ {e} :
            /\ failures'[d] = failures[d] /\ openFor'[d] = openFor[d]
            /\ streak'[d] = streak[d] /\ quiet'[d] = quiet[d]
  BY <1>1
<1>6. BreakerExact'
  BY <1>3, <1>5 DEF BreakerExact
<1>7. CountsStreak'
  BY <1>3, <1>5 DEF CountsStreak
<1> QED BY <1>3, <1>4, <1>5, <1>6, <1>7

LEMMA SuccessRecorded ==
    ASSUME SenderInv, NEW e \in Replica, RecordSuccess(e)
    PROVE  /\ failures' \in [Replica -> 0..(Threshold - 1)]
           /\ openFor' \in [Replica -> 0..Cooldown]
           /\ streak' \in [Replica -> 0..Threshold]
           /\ BreakerExact' /\ CountsStreak'
<1> USE SenderAssumption DEF SenderInv, TypeOK
<1>1. /\ failures'[e] = 0 /\ openFor'[e] = 0 /\ streak'[e] = 0 /\ quiet' = quiet
      /\ \A d \in Replica \ {e} :
            /\ failures'[d] = failures[d] /\ openFor'[d] = openFor[d]
            /\ streak'[d] = streak[d]
  BY DEF RecordSuccess
<1>2. BreakerExact'
  BY <1>1 DEF BreakerExact
<1>3. CountsStreak'
  BY <1>1 DEF CountsStreak
<1> QED BY <1>2, <1>3 DEF RecordSuccess

(* A step that leaves circuits and histories alone.                        *)
LEMMA CircuitsKept ==
    ASSUME SenderInv, UNCHANGED <<failures, openFor, streak, quiet>>
    PROVE  BreakerExact' /\ CountsStreak'
BY DEF SenderInv, BreakerExact, CountsStreak

LEMMA StepSender == SenderInv /\ [Next]_vars => SenderInv'
<1> SUFFICES ASSUME SenderInv, [Next]_vars PROVE SenderInv'
  OBVIOUS
<1> USE SenderAssumption
<1>e. ASSUME NEW how \in Outcomes, EndCycle(how)
      PROVE  pc' \in {"waiting", "stopped"} /\ outcome' \in Outcomes
  BY <1>e DEF EndCycle
<1>w. \A h \in {"delivered", "denied", "unavailable", "uncollected", "cancelled"} : h \in Outcomes
  BY DEF Outcomes
<1>1. CASE CollectSucceeds
  <2>1. TypeOK'
    <3>1. 1 \in 1..(Last + 1) /\ 0 \in 0..(MaxAttempts - 1)
      OBVIOUS
    <3> QED BY <1>1, <3>1 DEF SenderInv, TypeOK, CollectSucceeds, StartPass, circuit, result, Places
  <2>2. PassJustified' /\ AskedIsClosed' /\ SleepsToRetry'
    BY <1>1 DEF PassJustified, AskedIsClosed, SleepsToRetry, CollectSucceeds, StartPass, Replica
  <2> QED BY <1>1, <2>1, <2>2, CircuitsKept DEF SenderInv, CollectSucceeds, circuit
<1>2. CASE CollectFails
  <2>1. pc' \in {"waiting", "stopped"} /\ outcome' \in Outcomes
    BY <1>2, <1>e, <1>w DEF CollectFails
  <2>2. TypeOK'
    BY <1>2, <2>1 DEF SenderInv, TypeOK, CollectFails, circuit, past, Places
  <2> QED BY <1>2, <2>1, <2>2, CircuitsKept
      DEF SenderInv, CollectFails, circuit, past, PassJustified, AskedIsClosed, SleepsToRetry
<1>3. CASE PassOver
  <2>1. at \in Replica /\ at' = at + 1 /\ pc' = pc /\ pc = "choosing" /\ streak' = streak
    BY <1>3 DEF PassOver, past
  <2>2. streak[at] > 0
    BY <1>3 DEF PassOver, SenderInv, BreakerExact, TypeOK
  <2>3. TypeOK'
    <3>1. at + 1 \in 1..(Last + 1)
      BY <2>1 DEF Replica
    <3> QED BY <1>3, <3>1 DEF SenderInv, TypeOK, PassOver, circuit, past, result
  <2>4. PassJustified'
    <3> SUFFICES ASSUME NEW e \in Replica, e < at + 1 PROVE streak[e] > 0
      BY <2>1 DEF PassJustified
    <3>1. e < at \/ e = at
      BY <2>1 DEF Replica
    <3> QED BY <2>1, <2>2, <3>1 DEF SenderInv, PassJustified
  <2>5. AskedIsClosed' /\ SleepsToRetry'
    BY <2>1 DEF AskedIsClosed, SleepsToRetry
  <2> QED BY <1>3, <2>3, <2>4, <2>5, CircuitsKept DEF SenderInv, PassOver, circuit, past
<1>4. CASE Contact
  <2>1. /\ at \in Replica /\ at' = at /\ pc' = "requesting" /\ pc = "choosing"
        /\ streak' = streak /\ openFor' = openFor /\ openFor[at] = 0
    BY <1>4 DEF Contact, circuit
  <2>2. tried' \in BOOLEAN
    BY <1>4 DEF Contact
  <2>3. TypeOK'
    BY <1>4, <2>2 DEF SenderInv, TypeOK, Contact, circuit, result, Places
  <2>4. PassJustified' /\ AskedIsClosed' /\ SleepsToRetry'
    BY <2>1 DEF PassJustified, AskedIsClosed, SleepsToRetry, SenderInv
  <2> QED BY <1>4, <2>3, <2>4, CircuitsKept DEF SenderInv, Contact, circuit
<1>5. CASE Accepted
  <2>1. at \in Replica
    BY <1>5 DEF Accepted, SenderInv, AskedIsClosed
  <2>2. pc' \in {"waiting", "stopped"} /\ outcome' \in Outcomes
    BY <1>5, <1>e, <1>w DEF Accepted
  <2>3. RecordSuccess(at)
    BY <1>5 DEF Accepted
  <2>4. /\ failures' \in [Replica -> 0..(Threshold - 1)]
        /\ openFor' \in [Replica -> 0..Cooldown]
        /\ streak' \in [Replica -> 0..Threshold]
        /\ BreakerExact' /\ CountsStreak'
    BY <2>1, <2>3, SuccessRecorded
  <2>5. TypeOK'
    <3>1. at \in 0..Last
      BY <2>1 DEF Replica
    <3> QED BY <1>5, <2>2, <2>3, <2>4, <3>1 DEF SenderInv, TypeOK, Accepted, RecordSuccess, Places
  <2> QED BY <2>2, <2>4, <2>5 DEF SenderInv, PassJustified, AskedIsClosed, SleepsToRetry
<1>6. CASE Refused
  <2>1. pc' \in {"waiting", "stopped"} /\ outcome' \in Outcomes
    BY <1>6, <1>e, <1>w DEF Refused
  <2>2. TypeOK'
    BY <1>6, <2>1 DEF SenderInv, TypeOK, Refused, circuit, Places
  <2> QED BY <1>6, <2>1, <2>2, CircuitsKept
      DEF SenderInv, Refused, circuit, PassJustified, AskedIsClosed, SleepsToRetry
<1>7. CASE TransientlyFailed
  <2>1. /\ at \in Replica /\ openFor[at] = 0 /\ RecordTransientFailure(at)
        /\ at' = at + 1 /\ pc' = "choosing" /\ pc = "requesting"
    BY <1>7 DEF TransientlyFailed, SenderInv, AskedIsClosed
  <2>2. /\ failures' \in [Replica -> 0..(Threshold - 1)]
        /\ openFor' \in [Replica -> 0..Cooldown]
        /\ streak' \in [Replica -> 0..Threshold]
        /\ quiet' \in [Replica -> 0..Cooldown]
        /\ BreakerExact' /\ CountsStreak'
        /\ streak'[at] > 0
        /\ \A d \in Replica : streak[d] > 0 => streak'[d] > 0
    BY <2>1, FailureRecorded
  <2>3. TypeOK'
    <3>1. at + 1 \in 1..(Last + 1)
      BY <2>1 DEF Replica
    <3> QED BY <1>7, <2>1, <2>2, <3>1 DEF SenderInv, TypeOK, TransientlyFailed, result, Places
  <2>4. PassJustified'
    <3> SUFFICES ASSUME NEW e \in Replica, e < at + 1 PROVE streak'[e] > 0
      BY <2>1 DEF PassJustified
    <3>1. e < at \/ e = at
      BY <2>1 DEF Replica
    <3> QED BY <2>1, <2>2, <3>1 DEF SenderInv, PassJustified
  <2> QED BY <2>1, <2>2, <2>3, <2>4 DEF SenderInv, AskedIsClosed, SleepsToRetry
<1>8. CASE PassEnds
  <2>1. /\ pc' \in {"waiting", "stopped", "sleeping"} /\ outcome' \in Outcomes
        /\ pc' = "sleeping" => attempt < MaxAttempts - 1
    <3>1. CASE mode # "preflight" /\ attempt < MaxAttempts - 1
      BY <1>8, <3>1 DEF PassEnds, SenderInv, TypeOK
    <3>2. CASE ~ (mode # "preflight" /\ attempt < MaxAttempts - 1)
      BY <1>8, <3>2, <1>e, <1>w DEF PassEnds
    <3> QED BY <3>1, <3>2
  <2>2. TypeOK'
    BY <1>8, <2>1 DEF SenderInv, TypeOK, PassEnds, circuit, past, Places
  <2> QED BY <1>8, <2>1, <2>2, CircuitsKept
      DEF SenderInv, PassEnds, circuit, past, PassJustified, AskedIsClosed, SleepsToRetry
<1>9. CASE Retry
  <2>1. attempt + 1 \in 0..(MaxAttempts - 1)
    BY <1>9 DEF SenderInv, SleepsToRetry, Retry, TypeOK
  <2>2. TypeOK'
    BY <1>9, <2>1 DEF SenderInv, TypeOK, Retry, StartPass, circuit, past, result, Places
  <2>3. PassJustified' /\ AskedIsClosed' /\ SleepsToRetry'
    BY <1>9 DEF PassJustified, AskedIsClosed, SleepsToRetry, Retry, StartPass, Replica
  <2> QED BY <1>9, <2>2, <2>3, CircuitsKept DEF SenderInv, Retry, circuit, past
<1>10. CASE SleepCancelled
  <2>1. pc' \in {"waiting", "stopped"} /\ outcome' \in Outcomes
    BY <1>10, <1>e, <1>w DEF SleepCancelled
  <2>2. TypeOK'
    BY <1>10, <2>1 DEF SenderInv, TypeOK, SleepCancelled, circuit, past, Places
  <2> QED BY <1>10, <2>1, <2>2, CircuitsKept
      DEF SenderInv, SleepCancelled, circuit, past, PassJustified, AskedIsClosed, SleepsToRetry
<1>11. CASE NextCycle
  <2>1. TypeOK'
    BY <1>11 DEF SenderInv, TypeOK, NextCycle, circuit, past, result, Places
  <2> QED BY <1>11, <2>1, CircuitsKept
      DEF SenderInv, NextCycle, circuit, past, PassJustified, AskedIsClosed, SleepsToRetry
<1>12. CASE Stop
  <2>1. TypeOK'
    BY <1>12 DEF SenderInv, TypeOK, Stop, circuit, past, result, Places
  <2> QED BY <1>12, <2>1, CircuitsKept
      DEF SenderInv, Stop, circuit, past, PassJustified, AskedIsClosed, SleepsToRetry
<1>13. CASE TickerFires
  <2>1. TypeOK'
    BY <1>13 DEF SenderInv, TypeOK, TickerFires, circuit, past, result
  <2> QED BY <1>13, <2>1, CircuitsKept
      DEF SenderInv, TickerFires, circuit, past, PassJustified, AskedIsClosed, SleepsToRetry
<1>14. CASE Cancel
  <2>1. TypeOK'
    BY <1>14 DEF SenderInv, TypeOK, Cancel, circuit, past, result
  <2> QED BY <1>14, <2>1, CircuitsKept
      DEF SenderInv, Cancel, circuit, past, PassJustified, AskedIsClosed, SleepsToRetry
<1>15. CASE ChangeHealth
  <2>1. TypeOK'
    BY <1>15 DEF SenderInv, TypeOK, ChangeHealth, agent, circuit, past, result
  <2> QED BY <1>15, <2>1, CircuitsKept
      DEF SenderInv, ChangeHealth, agent, circuit, past, PassJustified, AskedIsClosed, SleepsToRetry
<1>16. CASE Tick
  <2>1. \A e \in Replica :
          /\ openFor'[e] = (IF openFor[e] > 0 THEN openFor[e] - 1 ELSE 0)
          /\ quiet'[e] = (IF quiet[e] < Cooldown THEN quiet[e] + 1 ELSE Cooldown)
          /\ openFor[e] \in 0..Cooldown /\ quiet[e] \in 0..Cooldown
    BY <1>16 DEF Tick, SenderInv, TypeOK
  <2>2. openFor' \in [Replica -> 0..Cooldown] /\ quiet' \in [Replica -> 0..Cooldown]
    BY <1>16, <2>1 DEF Tick
  <2>3. TypeOK'
    BY <1>16, <2>2 DEF Tick, SenderInv, TypeOK, agent, result
  <2>4. BreakerExact'
    BY <1>16, <2>1 DEF Tick, SenderInv, BreakerExact
  <2>5. CountsStreak'
    BY <1>16 DEF Tick, SenderInv, CountsStreak
  <2>6. PassJustified' /\ AskedIsClosed' /\ SleepsToRetry'
    BY <1>16, <2>1 DEF Tick, SenderInv, PassJustified, AskedIsClosed, SleepsToRetry, agent
  <2> QED BY <2>3, <2>4, <2>5, <2>6 DEF SenderInv
<1>17. CASE UNCHANGED vars
  <2>1. TypeOK'
    BY <1>17 DEF SenderInv, TypeOK, vars, agent, circuit, past, result
  <2> QED BY <1>17, <2>1, CircuitsKept
      DEF SenderInv, vars, agent, circuit, past, PassJustified, AskedIsClosed, SleepsToRetry
<1> QED
  BY <1>1, <1>2, <1>3, <1>4, <1>5, <1>6, <1>7, <1>8, <1>9, <1>10, <1>11, <1>12,
     <1>13, <1>14, <1>15, <1>16, <1>17 DEF Next

(* The agent's state stays well typed.                                     *)
THEOREM SenderTypeCorrect == Spec => []TypeOK
<1>1. SenderInv => TypeOK
  BY DEF SenderInv
<1> QED BY <1>1, InitSender, StepSender, PTL DEF Spec

(* For any threshold and cooldown a circuit is open exactly during the     *)
(* cooldown after Threshold consecutive failures.                          *)
THEOREM BreakerIsExact == Spec => []BreakerExact
<1>1. SenderInv => BreakerExact
  BY DEF SenderInv
<1> QED BY <1>1, InitSender, StepSender, PTL DEF Spec

(* In a list of any length, no replica is contacted unless each one before *)
(* it failed transiently when it was last asked.                           *)
THEOREM FailoverIsJustified == Spec => []FailoverJustified
<1>1. SenderInv => FailoverJustified
  BY DEF SenderInv, PassJustified, FailoverJustified
<1> QED BY <1>1, InitSender, StepSender, PTL DEF Spec

(* An envelope under way has not been refused.                             *)
NotYetDenied == pc \in {"choosing", "requesting", "sleeping"} => denied = FALSE

(* An envelope refused with a client error is not offered again.           *)
THEOREM DenialStaysFinal == Spec => []DenialIsFinal
<1>1. Init => NotYetDenied
  BY DEF Init, NotYetDenied
<1>2. NotYetDenied /\ [Next]_vars => NotYetDenied'
  <2> SUFFICES ASSUME NotYetDenied, [Next]_vars PROVE NotYetDenied'
    OBVIOUS
  <2>1. CASE CollectSucceeds
    BY <2>1 DEF NotYetDenied, CollectSucceeds
  <2>2. CASE CollectFails \/ Refused \/ Accepted \/ SleepCancelled
    BY <2>2 DEF NotYetDenied, CollectFails, Refused, Accepted, SleepCancelled, EndCycle
  <2>3. CASE PassOver \/ Contact \/ TransientlyFailed \/ Retry
    BY <2>3 DEF NotYetDenied, PassOver, Contact, TransientlyFailed, Retry, past
  <2>4. CASE PassEnds
    BY <2>4 DEF NotYetDenied, PassEnds, past
  <2>5. CASE NextCycle \/ Stop
    BY <2>5 DEF NotYetDenied, NextCycle, Stop
  <2>6. CASE TickerFires \/ Cancel \/ ChangeHealth \/ Tick \/ UNCHANGED vars
    BY <2>6 DEF NotYetDenied, TickerFires, Cancel, ChangeHealth, Tick, vars, agent, past
  <2> QED BY <2>1, <2>2, <2>3, <2>4, <2>5, <2>6 DEF Next
<1>3. NotYetDenied => DenialIsFinal
  BY DEF NotYetDenied, DenialIsFinal
<1> QED BY <1>1, <1>2, <1>3, PTL DEF Spec
==============================================================================
