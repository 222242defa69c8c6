------------------------- MODULE TelemetryStoreProofs -------------------------
(***************************************************************************)
(* Proofs about TelemetryStore for any number of concurrent requests,      *)
(* envelopes and rows.                                                     *)
(***************************************************************************)
EXTENDS TelemetryStore, TLAPS

LEMMA RankIsNat == \A q \in Quality : Rank[q] \in Nat
BY DEF Rank, Quality

LEMMA NoEvidenceIsReading == NoEvidence \in Reading
BY DEF NoEvidence, Reading, Quality, Rank

(* What a request writes is well typed.                                    *)
LEMMA UpsertsType ==
    ASSUME TypeOK, NEW r \in Request
    PROVE  /\ Upserts(r) \in Seq(Evidence)
           /\ Len(Upserts(r)) = Len(Sample[key[r]]) + 1
           /\ Len(Upserts(r)) \in Nat
           /\ \A i \in 1..Len(Upserts(r)) : Upserts(r)[i] \in Evidence
<1>1. Sample[key[r]] \in Seq(Evidence)
  BY SampleAssumption DEF TypeOK
<1>2. ClockSample(key[r], arrived[r]) \in Evidence
  BY RowAssumption DEF TypeOK, ClockSample, Evidence, Quality, Rank
<1> QED
  BY <1>1, <1>2 DEF Upserts

LEMMA SeenType ==
    ASSUME TypeOK, NEW r \in Request, NEW row \in Row
    PROVE  Seen(r, row) \in Reading
BY DEF TypeOK, Seen

LEMMA KeepType ==
    ASSUME NEW row, NEW new \in Evidence, NEW old \in Reading
    PROVE  Keep(row, new, old) \in Reading
BY DEF Keep, Evidence, Reading

LEMMA EndWorkType ==
    ASSUME TypeOK, NEW r \in Request, EndWork(r)
    PROVE  /\ arrived' \in [Request -> Nat]
           /\ raw' \in [Request -> BOOLEAN]
           /\ upserted' \in [Request -> Nat]
           /\ draft' \in [Request -> [Row -> Reading]]
<1>1. NoDraft \in [Row -> Reading]
  BY NoEvidenceIsReading DEF NoDraft
<1> QED
  BY <1>1 DEF TypeOK, EndWork

LEMMA InitTyped == Init => TypeOK
<1> SUFFICES ASSUME Init PROVE TypeOK
  OBVIOUS
<1>1. NoDraft \in [Row -> Reading]
  BY NoEvidenceIsReading DEF NoDraft
<1> QED
  BY <1>1 DEF Init, TypeOK, Capacity, Before, Locked, Answers

LEMMA StepTyped == TypeOK /\ [Next]_vars => TypeOK'
<1> SUFFICES ASSUME TypeOK, [Next]_vars PROVE TypeOK'
  OBVIOUS
<1> USE DEF Before, Locked, Answers
<1>1. ASSUME NEW r \in Request, NEW k \in Key, Arrive(r, k) PROVE TypeOK'
  BY <1>1 DEF TypeOK, Arrive, Goto, tables, work, history
<1>2. ASSUME NEW r \in Request, AuthenticationFails(r) PROVE TypeOK'
  BY <1>2 DEF TypeOK, AuthenticationFails, Goto, tables, work, history
<1>3. ASSUME NEW r \in Request, RefuseEnvelope(r) PROVE TypeOK'
  BY <1>3 DEF TypeOK, RefuseEnvelope, Goto, tables, work, history
<1>4. ASSUME NEW r \in Request, Authenticated(r) PROVE TypeOK'
  <2>1. CASE TimesPlausible(key[r])
    BY <1>4, <2>1 DEF TypeOK, Authenticated, Goto, tables, history
  <2>2. CASE ~ TimesPlausible(key[r])
    BY <1>4, <2>2 DEF TypeOK, Authenticated, Goto, tables, history
  <2> QED BY <2>1, <2>2
<1>5. ASSUME NEW r \in Request, LockKey(r) PROVE TypeOK'
  BY <1>5 DEF TypeOK, LockKey, Goto, tables, work, history
<1>6. ASSUME NEW r \in Request, CheckIdempotency(r) PROVE TypeOK'
  BY <1>6 DEF TypeOK, CheckIdempotency, Goto, tables, work, history
<1>7. ASSUME NEW r \in Request, AdmitRaw(r) PROVE TypeOK'
  <2>1. (capacity = "raw") \in BOOLEAN
    OBVIOUS
  <2>2. raw' \in [Request -> BOOLEAN]
    BY <1>7, <2>1 DEF TypeOK, AdmitRaw
  <2> QED BY <1>7, <2>2 DEF TypeOK, AdmitRaw, Goto, tables, history
<1>8. ASSUME NEW r \in Request, InsertReceipt(r) PROVE TypeOK'
  BY <1>8 DEF TypeOK, InsertReceipt, Goto, tables, work, history
<1>9. ASSUME NEW r \in Request, Upsert(r) PROVE TypeOK'
  <2> DEFINE next == Upserts(r)[upserted[r] + 1]
  <2>1. next \in Evidence
    BY <1>9, UpsertsType DEF Upsert, TypeOK
  <2>2. next.row \in Row
    BY <2>1 DEF Evidence
  <2>3. Keep(next.row, next, Seen(r, next.row)) \in Reading
    BY <2>1, <2>2, SeenType, KeepType
  <2>4. draft' \in [Request -> [Row -> Reading]]
    BY <1>9, <2>2, <2>3 DEF TypeOK, Upsert
  <2> QED BY <1>9, <2>4 DEF TypeOK, Upsert, tables, history
<1>10. ASSUME NEW r \in Request, Commit(r) PROVE TypeOK'
  <2>1. batches' \in SUBSET Key /\ receipts' \in SUBSET Key
    BY <1>10 DEF TypeOK, Commit, Apply
  <2>2. expires' \in [Key -> Nat] /\ accepts' \in [Key -> Nat]
    BY <1>10, TimeAssumption DEF TypeOK, Commit, Apply
  <2>3. latest' \in [Row -> Reading]
    BY <1>10, SeenType DEF Commit, Apply
  <2>4. evidence' \in SUBSET Evidence
    BY <1>10, UpsertsType DEF TypeOK, Commit, Apply
  <2>5. pc' \in [Request -> {"idle"} \cup Before \cup Locked \cup Answers]
    BY <1>10 DEF TypeOK, Commit, Goto
  <2>6. UNCHANGED <<now, capacity, key>> /\ EndWork(r)
    BY <1>10 DEF Commit
  <2> QED BY <2>1, <2>2, <2>3, <2>4, <2>5, <2>6, EndWorkType DEF TypeOK
<1>11. ASSUME NEW r \in Request, StatementFails(r) PROVE TypeOK'
  BY <1>11, EndWorkType DEF TypeOK, StatementFails, Goto, tables, history
<1>12. ASSUME NEW r \in Request, RequestEnds(r) PROVE TypeOK'
  BY <1>12, EndWorkType DEF TypeOK, RequestEnds, Goto, tables, history
<1>13. CASE SetCapacity
  BY <1>13 DEF TypeOK, SetCapacity, tables, local, work, history
<1>14. CASE PruneExpired
  BY <1>14 DEF TypeOK, PruneExpired, local, work, history
<1>15. CASE Tick
  BY <1>15 DEF TypeOK, Tick, tables, local, work, history
<1>16. CASE UNCHANGED vars
  BY <1>16 DEF TypeOK, vars, tables, local, work, history
<1> QED
  BY <1>1, <1>2, <1>3, <1>4, <1>5, <1>6, <1>7, <1>8, <1>9, <1>10, <1>11,
     <1>12, <1>13, <1>14, <1>15, <1>16 DEF Next, Step

(* The tables, the handlers' local state and the history stay well typed.  *)
THEOREM StoreTypeCorrect == Spec => []TypeOK
BY InitTyped, StepTyped, PTL DEF Spec
-----------------------------------------------------------------------------
(* The advisory lock: two transactions that hold the lock of one key are   *)
(* one, and from the check to the commit the key is in neither table.      *)
LockExclusive ==
    \A r, q \in Request :
        pc[r] \in Locked /\ pc[q] \in Locked /\ key[r] = key[q] => r = q

Writing == {"admitting", "inserting", "upserting"}

WritingIsNew == \A r \in Request : pc[r] \in Writing => key[r] \notin Held

LockInv == TypeOK /\ LockExclusive /\ WritingIsNew /\ OneTablePerKey

LEMMA InitLocked == Init => LockInv
<1> SUFFICES ASSUME Init PROVE LockInv
  OBVIOUS
<1>1. LockExclusive /\ WritingIsNew /\ OneTablePerKey
  BY DEF Init, LockExclusive, WritingIsNew, OneTablePerKey, Locked, Writing, Held
<1> QED BY <1>1, InitTyped DEF LockInv

LEMMA StepLocked == LockInv /\ [Next]_vars => LockInv'
<1> SUFFICES ASSUME LockInv, [Next]_vars
             PROVE  LockExclusive' /\ WritingIsNew' /\ OneTablePerKey'
  BY StepTyped DEF LockInv
<1> USE DEF LockInv, LockExclusive, WritingIsNew, OneTablePerKey, Locked, Writing
<1> DEFINE Goal == LockExclusive' /\ WritingIsNew' /\ OneTablePerKey'
<1>1. ASSUME NEW r \in Request, NEW k \in Key, Arrive(r, k) PROVE Goal
  BY <1>1 DEF TypeOK, Arrive, Goto, Held, tables
<1>2. ASSUME NEW r \in Request, AuthenticationFails(r) PROVE Goal
  BY <1>2 DEF TypeOK, AuthenticationFails, Goto, Held, tables
<1>3. ASSUME NEW r \in Request, RefuseEnvelope(r) PROVE Goal
  BY <1>3 DEF TypeOK, RefuseEnvelope, Goto, Held, tables
<1>4. ASSUME NEW r \in Request, Authenticated(r) PROVE Goal
  BY <1>4 DEF TypeOK, Authenticated, Goto, Held, tables
<1>5. ASSUME NEW r \in Request, LockKey(r) PROVE Goal
  BY <1>5 DEF TypeOK, LockKey, Goto, Held, tables
<1>6. ASSUME NEW r \in Request, CheckIdempotency(r) PROVE Goal
  BY <1>6 DEF TypeOK, CheckIdempotency, Goto, Held, tables
<1>7. ASSUME NEW r \in Request, AdmitRaw(r) PROVE Goal
  BY <1>7 DEF TypeOK, AdmitRaw, Goto, Held, tables
<1>8. ASSUME NEW r \in Request, InsertReceipt(r) PROVE Goal
  BY <1>8 DEF TypeOK, InsertReceipt, Goto, Held, tables
<1>9. ASSUME NEW r \in Request, Upsert(r) PROVE Goal
  BY <1>9 DEF TypeOK, Upsert, Held, tables
<1>10. ASSUME NEW r \in Request, Commit(r) PROVE Goal
  <2>1. key[r] \notin Held /\ key' = key
    BY <1>10 DEF Commit
  <2>2. \A q \in Request \ {r} : pc'[q] = pc[q] /\ (pc[q] \in Writing => key[q] # key[r])
    BY <1>10 DEF Commit, Goto, TypeOK
  <2>3. pc'[r] \notin Locked
    BY <1>10 DEF Commit, Goto, TypeOK
  <2>4. Held' = Held \cup {key[r]}
    BY <1>10 DEF Commit, Apply, Held
  <2>5. LockExclusive'
    BY <2>1, <2>2, <2>3
  <2>6. WritingIsNew'
    BY <2>1, <2>2, <2>3, <2>4
  <2>7. OneTablePerKey'
    BY <1>10, <2>1 DEF Commit, Apply, Held
  <2> QED BY <2>5, <2>6, <2>7
<1>11. ASSUME NEW r \in Request, StatementFails(r) PROVE Goal
  BY <1>11 DEF TypeOK, StatementFails, Goto, Held, tables
<1>12. ASSUME NEW r \in Request, RequestEnds(r) PROVE Goal
  BY <1>12 DEF TypeOK, RequestEnds, Goto, Held, tables
<1>13. CASE SetCapacity
  BY <1>13 DEF SetCapacity, Held, tables, local
<1>14. CASE PruneExpired
  BY <1>14 DEF PruneExpired, Held, local
<1>15. CASE Tick
  BY <1>15 DEF Tick, Held, tables, local
<1>16. CASE UNCHANGED vars
  BY <1>16 DEF vars, Held, tables, local
<1> QED
  BY <1>1, <1>2, <1>3, <1>4, <1>5, <1>6, <1>7, <1>8, <1>9, <1>10, <1>11,
     <1>12, <1>13, <1>14, <1>15, <1>16 DEF Next, Step

(* No change of the capacity mode, no interleaving of replicas and no run  *)
(* of the retention job puts one idempotency key into both tables.         *)
THEOREM KeyInOneTable == Spec => []OneTablePerKey
<1>1. LockInv => OneTablePerKey
  BY DEF LockInv
<1> QED BY <1>1, InitLocked, StepLocked, PTL DEF Spec
-----------------------------------------------------------------------------
(* The refinement: each step of a replica is a step of the ledger or leaves*)
(* it alone.                                                               *)
LEMMA LedgerStutters ==
    ASSUME Held' = Held, accepts' = accepts, key' = key, pc' = pc
    PROVE  UNCHANGED Ledger!ledgerVars
BY DEF Ledger!ledgerVars, Phase

(* A request that changes its place and not its phase leaves the ledger    *)
(* alone.                                                                  *)
LEMMA MoveStutters ==
    ASSUME TypeOK, NEW r \in Request, NEW where,
           pc[r] \in Before \cup Locked, where \in Before \cup Locked,
           Goto(r, where), Held' = Held, accepts' = accepts, key' = key
    PROVE  UNCHANGED Ledger!ledgerVars
<1>1. \A q \in Request : Phase(q)' = Phase(q)
  BY DEF TypeOK, Goto, Phase
<1> QED BY <1>1 DEF Ledger!ledgerVars

LEMMA PhaseMoves ==
    ASSUME TypeOK, NEW r \in Request, NEW where, Goto(r, where)
    PROVE  [q \in Request |-> Phase(q)]' =
              [[q \in Request |-> Phase(q)] EXCEPT ![r] =
                  IF where \in Before \cup Locked THEN "pending"
                  ELSE IF where \in {"rejected", "unauthorized"} THEN "refused" ELSE where]
BY DEF TypeOK, Goto, Phase

LEMMA LedgerInitially == Init => Ledger!LedgerInit
BY DEF Init, Ledger!LedgerInit, Held, Phase, Before, Locked

LEMMA LedgerStep ==
    LockInv /\ [Next]_vars => [Ledger!LedgerNext]_Ledger!ledgerVars
<1> SUFFICES ASSUME LockInv, [Next]_vars
             PROVE  [Ledger!LedgerNext]_Ledger!ledgerVars
  OBVIOUS
<1> USE DEF LockInv
<1> DEFINE Goal == [Ledger!LedgerNext]_Ledger!ledgerVars
           phase == [q \in Request |-> Phase(q)]
<1>1. ASSUME NEW r \in Request, NEW k \in Key, Arrive(r, k) PROVE Goal
  <2>1. Ledger!Ask(r, k)
    BY <1>1, PhaseMoves DEF Arrive, Ledger!Ask, Held, tables, history, Phase, Before, Locked
  <2> QED BY <2>1 DEF Ledger!LedgerNext
<1>2. ASSUME NEW r \in Request, AuthenticationFails(r) PROVE Goal
  <2>1. Ledger!Refuse(r)
    BY <1>2, PhaseMoves DEF AuthenticationFails, Ledger!Refuse, Held, tables, history, Phase, Before, Locked
  <2> QED BY <2>1 DEF Ledger!LedgerNext
<1>3. ASSUME NEW r \in Request, RefuseEnvelope(r) PROVE Goal
  <2>1. Ledger!Refuse(r)
    BY <1>3, PhaseMoves DEF RefuseEnvelope, Ledger!Refuse, Held, tables, history, Phase, Before, Locked
  <2> QED BY <2>1 DEF Ledger!LedgerNext
<1>4. ASSUME NEW r \in Request, Authenticated(r) PROVE Goal
  <2>1. CASE TimesPlausible(key[r])
    BY <1>4, <2>1, MoveStutters DEF Authenticated, Held, tables, history, Before, Locked
  <2>2. CASE ~ TimesPlausible(key[r])
    <3>1. Ledger!Refuse(r)
      BY <1>4, <2>2, PhaseMoves DEF Authenticated, Ledger!Refuse, Held, tables, history, Phase, Before, Locked
    <3> QED BY <3>1 DEF Ledger!LedgerNext
  <2> QED BY <2>1, <2>2
<1>5. ASSUME NEW r \in Request, LockKey(r) PROVE Goal
  BY <1>5, MoveStutters DEF LockKey, Held, tables, history, Before, Locked
<1>6. ASSUME NEW r \in Request, CheckIdempotency(r) PROVE Goal
  <2>1. CASE key[r] \in Held
    <3>1. Ledger!Repeat(r)
      BY <1>6, <2>1, PhaseMoves DEF CheckIdempotency, Ledger!Repeat, Held, tables, history, Phase, Before, Locked
    <3> QED BY <3>1 DEF Ledger!LedgerNext
  <2>2. CASE key[r] \notin Held
    BY <1>6, <2>2, MoveStutters DEF CheckIdempotency, Held, tables, history, Before, Locked
  <2> QED BY <2>1, <2>2
<1>7. ASSUME NEW r \in Request, AdmitRaw(r) PROVE Goal
  BY <1>7, MoveStutters DEF AdmitRaw, Held, tables, history, Before, Locked
<1>8. ASSUME NEW r \in Request, InsertReceipt(r) PROVE Goal
  BY <1>8, MoveStutters DEF InsertReceipt, Held, tables, history, Before, Locked
<1>9. ASSUME NEW r \in Request, Upsert(r) PROVE Goal
  BY <1>9, LedgerStutters DEF Upsert, Held, tables, history
<1>10. ASSUME NEW r \in Request, Commit(r) PROVE Goal
  <2>1. key[r] \notin Held
    BY <1>10 DEF Commit, WritingIsNew, Writing
  <2>2. phase[r] = "pending"
    BY <1>10 DEF Commit, Phase, Before, Locked
  <2>3. Held' = Held \cup {key[r]} /\ key' = key
    BY <1>10 DEF Commit, Apply, Held
  <2>4. accepts' = [accepts EXCEPT ![key[r]] = @ + 1]
    BY <1>10 DEF Commit, Apply
  <2>5. PICK a \in {"accepted", "rejected", "idle"} : Goto(r, a)
    BY <1>10 DEF Commit
  <2>6. \E a1 \in {"accepted", "refused", "idle"} : phase' = [phase EXCEPT ![r] = a1]
    <3> DEFINE b == IF a = "rejected" THEN "refused" ELSE a
    <3>1. phase' = [phase EXCEPT ![r] = b]
      BY <2>5, PhaseMoves DEF Before, Locked
    <3>2. b \in {"accepted", "refused", "idle"}
      OBVIOUS
    <3> QED BY <3>1, <3>2
  <2>7. Ledger!Enter(r)
    BY <2>1, <2>2, <2>3, <2>4, <2>6 DEF Ledger!Enter
  <2> QED BY <2>7 DEF Ledger!LedgerNext
<1>11. ASSUME NEW r \in Request, StatementFails(r) PROVE Goal
  <2>1. Ledger!Refuse(r)
    BY <1>11, PhaseMoves DEF StatementFails, Ledger!Refuse, Held, tables, history, Phase, Before, Locked
  <2> QED BY <2>1 DEF Ledger!LedgerNext
<1>12. ASSUME NEW r \in Request, RequestEnds(r) PROVE Goal
  <2>1. Ledger!Finish(r)
    BY <1>12, PhaseMoves DEF RequestEnds, Ledger!Finish, Held, tables, history, Phase, Before, Locked
  <2> QED BY <2>1 DEF Ledger!LedgerNext
<1>13. CASE SetCapacity
  BY <1>13, LedgerStutters DEF SetCapacity, Held, tables, local, history
<1>14. CASE PruneExpired
  <2>1. Held' \subseteq Held
    BY <1>14 DEF PruneExpired, Held
  <2>2. accepts' = accepts /\ key' = key /\ pc' = pc
    BY <1>14 DEF PruneExpired, local, history
  <2>3. phase' = phase
    BY <2>2 DEF Phase
  <2>4. Ledger!Forget
    BY <2>1, <2>2, <2>3 DEF Ledger!Forget
  <2> QED BY <2>4 DEF Ledger!LedgerNext
<1>15. CASE Tick
  BY <1>15, LedgerStutters DEF Tick, Held, tables, local, history
<1>16. CASE UNCHANGED vars
  BY <1>16, LedgerStutters DEF vars, Held, tables, local, history
<1> QED
  BY <1>1, <1>2, <1>3, <1>4, <1>5, <1>6, <1>7, <1>8, <1>9, <1>10, <1>11,
     <1>12, <1>13, <1>14, <1>15, <1>16 DEF Next, Step

(* Any number of replicas serving any number of requests behave as one     *)
(* ledger: a key is entered only when it is not there, and every request   *)
(* takes effect at one instant or not at all.                              *)
THEOREM ReplicasImplementLedger == Spec => LedgerSpec
BY InitLocked, StepLocked, LedgerInitially, LedgerStep, PTL
   DEF Spec, LedgerSpec, Ledger!LedgerSpec
-----------------------------------------------------------------------------
(* Times: a request past validation arrived in the past with plausible     *)
(* times, so neither it nor the tables hold a reading of the far future.   *)
ArrivedPlausible ==
    \A r \in Request : pc[r] \in Locked \cup {"locking"} =>
        arrived[r] <= now /\ TimesPlausible(key[r])

DraftPlausible ==
    \A r \in Request : \A row \in Row : draft[r][row].at <= now + FutureSkew

TimeInv == TypeOK /\ ArrivedPlausible /\ DraftPlausible /\ NoFutureLatest

LEMMA EmptyDraftPlausible ==
    ASSUME NEW t \in Nat, NEW row \in Row PROVE NoDraft[row].at <= t + FutureSkew
BY TimeAssumption DEF NoDraft, NoEvidence

LEMMA WritesPlausible ==
    ASSUME TimeInv, NEW r \in Request, pc[r] = "upserting",
           NEW i \in 1..Len(Upserts(r))
    PROVE  Upserts(r)[i].at <= now + FutureSkew
<1>1. arrived[r] <= now /\ TimesPlausible(key[r])
  BY DEF TimeInv, ArrivedPlausible, Locked
<1>2. /\ Sample[key[r]] \in Seq(Evidence)
      /\ arrived[r] \in Nat /\ now \in Nat
  BY SampleAssumption DEF TimeInv, TypeOK
<1>3. CASE i \in 1..Len(Sample[key[r]])
  <2>1. Upserts(r)[i] = Sample[key[r]][i]
    BY <1>2, <1>3 DEF Upserts
  <2> QED BY <1>1, <1>3, <2>1 DEF TimesPlausible
<1>4. CASE i = Len(Sample[key[r]]) + 1
  <2>1. Upserts(r)[i] = ClockSample(key[r], arrived[r])
    BY <1>2, <1>4 DEF Upserts
  <2> QED BY <1>1, <1>2, <2>1, TimeAssumption DEF ClockSample
<1> QED BY <1>2, <1>3, <1>4, UpsertsType DEF TimeInv

LEMMA InitPlausible == Init => TimeInv
<1> SUFFICES ASSUME Init PROVE TimeInv
  OBVIOUS
<1>1. ArrivedPlausible
  BY DEF Init, ArrivedPlausible, Locked
<1>2. DraftPlausible /\ NoFutureLatest
  BY EmptyDraftPlausible DEF Init, DraftPlausible, NoFutureLatest
<1> QED BY <1>1, <1>2, InitTyped DEF TimeInv

LEMMA StepPlausible == TimeInv /\ [Next]_vars => TimeInv'
<1> SUFFICES ASSUME TimeInv, [Next]_vars
             PROVE  ArrivedPlausible' /\ DraftPlausible' /\ NoFutureLatest'
  BY StepTyped DEF TimeInv
<1> USE DEF TimeInv, Locked
<1> DEFINE Goal == ArrivedPlausible' /\ DraftPlausible' /\ NoFutureLatest'
<1>a. ASSUME now' = now, latest' = latest, draft' = draft
      PROVE  DraftPlausible' /\ NoFutureLatest'
  BY <1>a DEF DraftPlausible, NoFutureLatest
<1>b. ASSUME NEW r \in Request, now' = now, EndWork(r)
      PROVE  DraftPlausible'
  <2>1. NoDraft \in [Row -> Reading]
    BY NoEvidenceIsReading DEF NoDraft
  <2> QED BY <1>b, <2>1, EmptyDraftPlausible DEF DraftPlausible, EndWork, TypeOK
<1>1. ASSUME NEW r \in Request, NEW k \in Key, Arrive(r, k) PROVE Goal
  <2>1. ArrivedPlausible'
    BY <1>1 DEF TypeOK, Arrive, Goto, work, ArrivedPlausible, TimesPlausible
  <2> QED BY <1>1, <1>a, <2>1 DEF Arrive, tables, work
<1>2. ASSUME NEW r \in Request, AuthenticationFails(r) PROVE Goal
  <2>1. ArrivedPlausible'
    BY <1>2 DEF TypeOK, AuthenticationFails, Goto, work, ArrivedPlausible, TimesPlausible
  <2> QED BY <1>2, <1>a, <2>1 DEF AuthenticationFails, tables, work
<1>3. ASSUME NEW r \in Request, RefuseEnvelope(r) PROVE Goal
  <2>1. ArrivedPlausible'
    BY <1>3 DEF TypeOK, RefuseEnvelope, Goto, work, ArrivedPlausible, TimesPlausible
  <2> QED BY <1>3, <1>a, <2>1 DEF RefuseEnvelope, tables, work
<1>4. ASSUME NEW r \in Request, Authenticated(r) PROVE Goal
  <2>1. ArrivedPlausible'
    <3>1. CASE TimesPlausible(key[r])
      BY <1>4, <3>1 DEF TypeOK, Authenticated, Goto, ArrivedPlausible, TimesPlausible
    <3>2. CASE ~ TimesPlausible(key[r])
      BY <1>4, <3>2 DEF TypeOK, Authenticated, Goto, ArrivedPlausible, TimesPlausible
    <3> QED BY <3>1, <3>2
  <2> QED BY <1>4, <1>a, <2>1 DEF Authenticated, tables
<1>5. ASSUME NEW r \in Request, LockKey(r) PROVE Goal
  <2>1. ArrivedPlausible'
    BY <1>5 DEF TypeOK, LockKey, Goto, work, ArrivedPlausible, TimesPlausible
  <2> QED BY <1>5, <1>a, <2>1 DEF LockKey, tables, work
<1>6. ASSUME NEW r \in Request, CheckIdempotency(r) PROVE Goal
  <2>1. ArrivedPlausible'
    BY <1>6 DEF TypeOK, CheckIdempotency, Goto, work, ArrivedPlausible, TimesPlausible
  <2> QED BY <1>6, <1>a, <2>1 DEF CheckIdempotency, tables, work
<1>7. ASSUME NEW r \in Request, AdmitRaw(r) PROVE Goal
  <2>1. ArrivedPlausible'
    BY <1>7 DEF TypeOK, AdmitRaw, Goto, ArrivedPlausible, TimesPlausible
  <2> QED BY <1>7, <1>a, <2>1 DEF AdmitRaw, tables
<1>8. ASSUME NEW r \in Request, InsertReceipt(r) PROVE Goal
  <2>1. ArrivedPlausible'
    BY <1>8 DEF TypeOK, InsertReceipt, Goto, work, ArrivedPlausible, TimesPlausible
  <2> QED BY <1>8, <1>a, <2>1 DEF InsertReceipt, tables, work
<1>9. ASSUME NEW r \in Request, Upsert(r) PROVE Goal
  <2> DEFINE i == upserted[r] + 1
             new == Upserts(r)[i]
  <2>1. i \in 1..Len(Upserts(r)) /\ pc[r] = "upserting"
    BY <1>9, UpsertsType DEF Upsert, TypeOK
  <2>2. new \in Evidence /\ new.row \in Row
    BY <2>1, UpsertsType DEF Evidence
  <2>3. new.at <= now + FutureSkew
    BY <2>1, WritesPlausible
  <2>4. Seen(r, new.row).at <= now + FutureSkew
    BY <2>2 DEF Seen, DraftPlausible, NoFutureLatest
  <2>5. Keep(new.row, new, Seen(r, new.row)).at <= now + FutureSkew
    BY <2>3, <2>4 DEF Keep
  <2>6. DraftPlausible'
    BY <1>9, <2>2, <2>5 DEF DraftPlausible, Upsert, TypeOK
  <2>7. ArrivedPlausible'
    BY <1>9 DEF Upsert, ArrivedPlausible, TimesPlausible
  <2> QED BY <1>9, <2>6, <2>7 DEF Upsert, tables, NoFutureLatest
<1>10. ASSUME NEW r \in Request, Commit(r) PROVE Goal
  <2>1. ArrivedPlausible'
    BY <1>10 DEF TypeOK, Commit, Goto, EndWork, ArrivedPlausible, TimesPlausible
  <2>2. NoFutureLatest'
    BY <1>10 DEF Commit, Apply, Seen, DraftPlausible, NoFutureLatest
  <2> QED BY <1>10, <1>b, <2>1, <2>2 DEF Commit
<1>11. ASSUME NEW r \in Request, StatementFails(r) PROVE Goal
  <2>1. ArrivedPlausible'
    BY <1>11 DEF TypeOK, StatementFails, Goto, EndWork, ArrivedPlausible, TimesPlausible
  <2> QED BY <1>11, <1>b, <2>1 DEF StatementFails, tables, NoFutureLatest
<1>12. ASSUME NEW r \in Request, RequestEnds(r) PROVE Goal
  <2>1. ArrivedPlausible'
    BY <1>12 DEF TypeOK, RequestEnds, Goto, EndWork, ArrivedPlausible, TimesPlausible
  <2> QED BY <1>12, <1>b, <2>1 DEF RequestEnds, tables, NoFutureLatest
<1>13. CASE SetCapacity
  BY <1>13, <1>a DEF SetCapacity, tables, local, work, ArrivedPlausible, TimesPlausible
<1>14. CASE PruneExpired
  BY <1>14, <1>a DEF PruneExpired, local, work, ArrivedPlausible, TimesPlausible
<1>15. CASE Tick
  <2>1. now' = now + 1 /\ now \in Nat /\ FutureSkew \in Nat
    BY <1>15, TimeAssumption DEF Tick, TypeOK
  <2>2. \A row \in Row : latest[row].at \in Nat /\ \A r \in Request : draft[r][row].at \in Nat
    BY DEF TypeOK, Reading
  <2>3. draft' = draft /\ latest' = latest /\ key' = key /\ pc' = pc /\ arrived' = arrived
    BY <1>15 DEF Tick, tables, local, work
  <2>6. \A t \in Nat : t <= now + FutureSkew => t <= now' + FutureSkew
    BY <2>1
  <2>7. DraftPlausible'
    BY <2>2, <2>3, <2>6 DEF DraftPlausible
  <2>8. NoFutureLatest'
    BY <2>2, <2>3, <2>6 DEF NoFutureLatest
  <2>4. \A k \in Key : TimesPlausible(k) => TimesPlausible(k)'
    <3> SUFFICES ASSUME NEW k \in Key, TimesPlausible(k) PROVE TimesPlausible(k)'
      OBVIOUS
    <3>0. Sample[k] \in Seq(Evidence)
      BY SampleAssumption
    <3>1. ASSUME NEW j \in 1..Len(Sample[k]) PROVE Sample[k][j].at \in Nat
      <4>1. Sample[k][j] \in Evidence
        BY <3>0
      <4> QED BY <4>1 DEF Evidence
    <3> QED BY <2>6, <3>1, TimeAssumption DEF TimesPlausible
  <2>5. ArrivedPlausible'
    BY <2>1, <2>3, <2>4 DEF ArrivedPlausible, TypeOK
  <2> QED BY <2>5, <2>7, <2>8
<1>16. CASE UNCHANGED vars
  BY <1>16, <1>a DEF vars, tables, local, work, ArrivedPlausible, TimesPlausible
<1> QED
  BY <1>1, <1>2, <1>3, <1>4, <1>5, <1>6, <1>7, <1>8, <1>9, <1>10, <1>11,
     <1>12, <1>13, <1>14, <1>15, <1>16 DEF Next, Step

(* No row of the latest state is dated further ahead of the server's clock *)
(* than ValidateReceiptTimes tolerates, however late a request commits.    *)
THEOREM LatestNotInFuture == Spec => []NoFutureLatest
<1>1. TimeInv => NoFutureLatest
  BY DEF TimeInv
<1> QED BY <1>1, InitPlausible, StepPlausible, PTL DEF Spec
-----------------------------------------------------------------------------
(* The latest state.  A transaction's draft covers the committed reading   *)
(* of every row it has locked and everything it has written there, and     *)
(* comes from one of the two; no row is locked twice.                      *)
RowsExclusive ==
    \A r, q \in Request : r # q => RowsLocked(r) \cap RowsLocked(q) = {}

Counted ==
    \A r \in Request :
        /\ pc[r] # "upserting" => upserted[r] = 0
        /\ upserted[r] <= Len(Upserts(r))

DraftCovers(r, i) ==
    LET row == Upserts(r)[i].row
    IN  /\ Covers(row, draft[r][row], Upserts(r)[i])
        /\ Covers(row, draft[r][row], latest[row])
        /\ \/ draft[r][row] = latest[row]
           \/ \E j \in 1..upserted[r] :
                 Upserts(r)[j] = [row |-> row, at |-> draft[r][row].at,
                                  quality |-> draft[r][row].quality]

DraftIsBest == \A r \in Request : \A i \in 1..upserted[r] : DraftCovers(r, i)

BestInv ==
    TypeOK /\ RowsExclusive /\ Counted /\ DraftIsBest /\ LatestIsBestEvidence

LEMMA CoversTransitive ==
    ASSUME NEW row, NEW a, NEW b, NEW c,
           a.at \in Nat, b.at \in Nat, c.at \in Nat,
           a.quality \in Quality, b.quality \in Quality, c.quality \in Quality,
           Covers(row, a, b), Covers(row, b, c)
    PROVE  Covers(row, a, c)
<1>1. Rank[a.quality] \in Nat /\ Rank[b.quality] \in Nat /\ Rank[c.quality] \in Nat
  BY RankIsNat
<1> QED BY <1>1 DEF Covers

LEMMA CoversReflexive ==
    ASSUME NEW row, NEW a, a.at \in Nat, a.quality \in Quality
    PROVE  Covers(row, a, a)
<1>1. Rank[a.quality] \in Nat
  BY RankIsNat
<1> QED BY <1>1 DEF Covers

(* What an upsert keeps covers what it was given and what it found.        *)
LEMMA KeepCovers ==
    ASSUME NEW row, NEW new \in Evidence, NEW old \in Reading
    PROVE  /\ Covers(row, Keep(row, new, old), new)
           /\ Covers(row, Keep(row, new, old), old)
<1>1. /\ new.at \in Nat /\ old.at \in Nat
      /\ new.quality \in Quality /\ old.quality \in Quality
  BY DEF Evidence, Reading
<1>2. Rank[new.quality] \in Nat /\ Rank[old.quality] \in Nat
  BY <1>1, RankIsNat
<1>3. CASE Replaces(row, new, old)
  BY <1>1, <1>2, <1>3 DEF Keep, Replaces, Covers
<1>4. CASE ~ Replaces(row, new, old)
  BY <1>1, <1>2, <1>4 DEF Keep, Replaces, Covers
<1> QED BY <1>3, <1>4

LEMMA UpsertsStable ==
    ASSUME NEW q, key'[q] = key[q], arrived'[q] = arrived[q]
    PROVE  Upserts(q)' = Upserts(q)
BY DEF Upserts, ClockSample

(* A step that leaves the tables alone and, of every request, either leaves*)
(* its work alone or drops it.                                             *)
LEMMA BestFrame ==
    ASSUME BestInv, TypeOK', latest' = latest, evidence' = evidence,
           \A q \in Request :
              \/ /\ pc'[q] = pc[q] /\ key'[q] = key[q] /\ arrived'[q] = arrived[q]
                 /\ upserted'[q] = upserted[q] /\ draft'[q] = draft[q]
              \/ upserted'[q] = 0
    PROVE  BestInv'
<1> DEFINE Same(q) == /\ pc'[q] = pc[q] /\ key'[q] = key[q] /\ arrived'[q] = arrived[q]
                      /\ upserted'[q] = upserted[q] /\ draft'[q] = draft[q]
<1>1. \A q \in Request : Same(q) => Upserts(q)' = Upserts(q)
  BY UpsertsStable
<1>2. \A q \in Request : RowsLocked(q)' \subseteq RowsLocked(q)
  <2> SUFFICES ASSUME NEW q \in Request PROVE RowsLocked(q)' \subseteq RowsLocked(q)
    OBVIOUS
  <2>1. CASE Same(q)
    BY <1>1, <2>1 DEF RowsLocked
  <2>2. CASE upserted'[q] = 0
    BY <2>2 DEF RowsLocked
  <2> QED BY <2>1, <2>2
<1>3. RowsExclusive'
  BY <1>2 DEF BestInv, RowsExclusive
<1>4. Counted'
  <2> SUFFICES ASSUME NEW q \in Request
               PROVE  /\ pc'[q] # "upserting" => upserted'[q] = 0
                      /\ upserted'[q] <= Len(Upserts(q)')
    BY DEF Counted
  <2>1. CASE Same(q)
    BY <1>1, <2>1 DEF BestInv, Counted
  <2>2. CASE upserted'[q] = 0
    <3>1. Sample[key'[q]] \in Seq(Evidence)
      BY SampleAssumption DEF TypeOK
    <3>2. Len(Upserts(q)') \in Nat
      BY <3>1 DEF Upserts
    <3> QED BY <2>2, <3>2
  <2> QED BY <2>1, <2>2
<1>5. DraftIsBest'
  <2> SUFFICES ASSUME NEW q \in Request, NEW i \in 1..upserted'[q]
               PROVE  DraftCovers(q, i)'
    BY DEF DraftIsBest
  <2>1. Same(q)
    OBVIOUS
  <2>2. DraftCovers(q, i)
    BY <2>1 DEF BestInv, DraftIsBest
  <2> QED BY <1>1, <2>1, <2>2 DEF DraftCovers
<1>6. LatestIsBestEvidence'
  BY DEF BestInv, LatestIsBestEvidence
<1> QED BY <1>3, <1>4, <1>5, <1>6 DEF BestInv

LEMMA UpsertKeepsBest ==
    ASSUME BestInv, TypeOK', NEW r \in Request, Upsert(r)
    PROVE  BestInv'
<1> USE DEF BestInv
<1> DEFINE n == upserted[r] + 1
           new == Upserts(r)[n]
           old == Seen(r, new.row)
           kept == Keep(new.row, new, old)
<1>1. /\ pc[r] = "upserting" /\ pc' = pc /\ key' = key /\ arrived' = arrived
      /\ latest' = latest /\ evidence' = evidence
      /\ upserted' = [upserted EXCEPT ![r] = n]
      /\ draft' = [draft EXCEPT ![r][new.row] = kept]
      /\ upserted[r] < Len(Upserts(r))
      /\ \A q \in Request \ {r} : new.row \notin RowsLocked(q)
  BY DEF Upsert, tables, history
<1>2. /\ Len(Upserts(r)) \in Nat /\ upserted[r] \in Nat /\ n \in 1..Len(Upserts(r))
      /\ new \in Evidence /\ new.row \in Row /\ old \in Reading /\ kept \in Reading
  <2>1. Len(Upserts(r)) \in Nat /\ upserted[r] \in Nat /\ n \in 1..Len(Upserts(r))
    BY <1>1, UpsertsType DEF TypeOK
  <2>2. new \in Evidence /\ new.row \in Row
    BY <2>1, UpsertsType DEF Evidence
  <2>3. old \in Reading /\ kept \in Reading
    BY <2>2, SeenType, KeepType
  <2> QED BY <2>1, <2>2, <2>3
<1>3. \A q \in Request : Upserts(q)' = Upserts(q)
  BY <1>1, UpsertsStable
<1>4. /\ upserted'[r] = n
      /\ \A q \in Request \ {r} : upserted'[q] = upserted[q] /\ draft'[q] = draft[q]
      /\ draft'[r] = [draft[r] EXCEPT ![new.row] = kept]
  BY <1>1 DEF TypeOK
<1>5. RowsLocked(r)' = RowsLocked(r) \cup {new.row}
  <2>1. RowsLocked(r)' = {Upserts(r)[i].row : i \in 1..n}
    BY <1>1, <1>3, <1>4 DEF RowsLocked
  <2>2. RowsLocked(r) = {Upserts(r)[i].row : i \in 1..upserted[r]}
    BY <1>1 DEF RowsLocked
  <2>3. 1..n = (1..upserted[r]) \cup {n}
    BY <1>2
  <2> QED BY <2>1, <2>2, <2>3
<1>6. \A q \in Request \ {r} : RowsLocked(q)' = RowsLocked(q)
  <2> SUFFICES ASSUME NEW q \in Request \ {r} PROVE RowsLocked(q)' = RowsLocked(q)
    OBVIOUS
  <2>1. pc'[q] = pc[q] /\ upserted'[q] = upserted[q] /\ Upserts(q)' = Upserts(q)
    BY <1>1, <1>3, <1>4
  <2> QED BY <2>1 DEF RowsLocked
<1>7. RowsExclusive'
  BY <1>1, <1>5, <1>6 DEF RowsExclusive
<1>8. Counted'
  BY <1>1, <1>2, <1>3, <1>4 DEF Counted
<1>9. DraftIsBest'
  <2> SUFFICES ASSUME NEW q \in Request, NEW i \in 1..upserted'[q]
               PROVE  DraftCovers(q, i)'
    BY DEF DraftIsBest
  <2>1. CASE q # r
    <3>1. DraftCovers(q, i)
      BY <1>4, <2>1 DEF DraftIsBest
    <3> QED BY <1>1, <1>3, <1>4, <2>1, <3>1 DEF DraftCovers
  <2>2. CASE q = r
    <3> DEFINE e == Upserts(r)[i]
    <3>1. i \in 1..n /\ e \in Evidence /\ e.row \in Row
      <4>1. i \in 1..n
        BY <1>4, <2>2
      <4>2. e \in Evidence
        BY <1>2, <4>1, UpsertsType
      <4> QED BY <4>1, <4>2 DEF Evidence
    <3>2. CASE e.row # new.row
      <4>1. i \in 1..upserted[r]
        BY <1>2, <3>1, <3>2
      <4>2. DraftCovers(r, i)
        BY <4>1 DEF DraftIsBest
      <4>3. draft'[r][e.row] = draft[r][e.row]
        BY <1>4, <3>1, <3>2 DEF TypeOK
      <4>4. \A j \in 1..upserted[r] : j \in 1..n
        BY <1>2
      <4> QED BY <1>1, <1>3, <1>4, <2>2, <4>2, <4>3, <4>4 DEF DraftCovers
    <3>3. CASE e.row = new.row
      <4>1. draft'[r][new.row] = kept
        <5>1. draft[r] \in [Row -> Reading]
          BY DEF TypeOK
        <5> HIDE DEF new, kept
        <5> QED BY <1>2, <1>4, <5>1
      <4>2. Covers(new.row, kept, new) /\ Covers(new.row, kept, old)
        BY <1>2, KeepCovers
      <4>3. /\ kept.at \in Nat /\ old.at \in Nat /\ e.at \in Nat /\ latest[new.row].at \in Nat
            /\ kept.quality \in Quality /\ old.quality \in Quality
            /\ e.quality \in Quality /\ latest[new.row].quality \in Quality
        BY <1>2, <3>1 DEF Evidence, Reading, TypeOK
      <4>4. Covers(new.row, old, latest[new.row])
        <5>1. CASE new.row \in RowsLocked(r)
          <6>1. PICK j \in 1..upserted[r] : Upserts(r)[j].row = new.row
            BY <1>1, <5>1 DEF RowsLocked
          <6>2. DraftCovers(r, j)
            BY DEF DraftIsBest
          <6> QED BY <5>1, <6>1, <6>2 DEF DraftCovers, Seen
        <5>2. CASE new.row \notin RowsLocked(r)
          BY <4>3, <5>2, CoversReflexive DEF Seen
        <5> QED BY <5>1, <5>2
      <4>5. Covers(new.row, kept, latest[new.row])
        BY <4>2, <4>3, <4>4, CoversTransitive
      <4>6. Covers(new.row, kept, e)
        <5>1. CASE i = n
          BY <4>2, <5>1
        <5>2. CASE i \in 1..upserted[r]
          <6>1. new.row \in RowsLocked(r)
            BY <1>1, <3>3, <5>2 DEF RowsLocked
          <6>2. Covers(new.row, old, e)
            BY <3>3, <5>2, <6>1 DEF DraftIsBest, DraftCovers, Seen
          <6> QED BY <4>2, <4>3, <6>2, CoversTransitive
        <5> QED BY <1>2, <3>1, <5>1, <5>2
      <4>7. \/ kept = latest[new.row]
            \/ \E j \in 1..n : Upserts(r)[j] = [row |-> new.row, at |-> kept.at,
                                                quality |-> kept.quality]
        <5>1. CASE Replaces(new.row, new, old)
          <6>1. kept = [at |-> new.at, quality |-> new.quality]
            BY <5>1 DEF Keep
          <6>2. new = [row |-> new.row, at |-> kept.at, quality |-> kept.quality]
            BY <1>2, <6>1 DEF Evidence
          <6> QED BY <1>2, <6>2
        <5>2. CASE ~ Replaces(new.row, new, old) /\ new.row \notin RowsLocked(r)
          BY <5>2 DEF Keep, Seen
        <5>3. CASE ~ Replaces(new.row, new, old) /\ new.row \in RowsLocked(r)
          <6>1. PICK j \in 1..upserted[r] : Upserts(r)[j].row = new.row
            BY <1>1, <5>3 DEF RowsLocked
          <6>2. DraftCovers(r, j)
            BY DEF DraftIsBest
          <6>3. kept = draft[r][new.row]
            BY <5>3 DEF Keep, Seen
          <6>4. \A m \in 1..upserted[r] : m \in 1..n
            BY <1>2
          <6> QED BY <6>1, <6>2, <6>3, <6>4 DEF DraftCovers
        <5> QED BY <5>1, <5>2, <5>3
      <4>8. /\ Upserts(q)' = Upserts(r) /\ latest' = latest
            /\ upserted'[q] = n /\ draft'[q][e.row] = kept
        BY <1>1, <1>3, <1>4, <2>2, <3>3, <4>1
      <4>9. /\ Covers(e.row, kept, e) /\ Covers(e.row, kept, latest[e.row])
            /\ \/ kept = latest[e.row]
               \/ \E j \in 1..n : Upserts(r)[j] = [row |-> e.row, at |-> kept.at,
                                                   quality |-> kept.quality]
        BY <3>3, <4>5, <4>6, <4>7
      <4> HIDE DEF n, new, kept
      <4> QED BY <4>8, <4>9 DEF DraftCovers
    <3> QED BY <3>2, <3>3
  <2> QED BY <2>1, <2>2
<1>10. LatestIsBestEvidence'
  BY <1>1 DEF LatestIsBestEvidence
<1> QED BY <1>7, <1>8, <1>9, <1>10

LEMMA CommitKeepsBest ==
    ASSUME BestInv, TypeOK', NEW r \in Request, Commit(r)
    PROVE  BestInv'
<1> USE DEF BestInv
<1>1. /\ pc[r] = "upserting" /\ key' = key
      /\ upserted[r] = Len(Upserts(r))
      /\ latest' = [row \in Row |-> Seen(r, row)]
      /\ evidence' = evidence \cup {Upserts(r)[i] : i \in 1..Len(Upserts(r))}
  BY DEF Commit, Apply
<1>2. /\ upserted'[r] = 0 /\ pc'[r] # "upserting"
      /\ \A q \in Request \ {r} :
            /\ pc'[q] = pc[q] /\ key'[q] = key[q] /\ arrived'[q] = arrived[q]
            /\ upserted'[q] = upserted[q] /\ draft'[q] = draft[q]
  BY DEF Commit, EndWork, Goto, TypeOK
<1>3. \A q \in Request \ {r} : Upserts(q)' = Upserts(q)
  BY <1>2, UpsertsStable
<1>4. RowsLocked(r)' = {} /\ \A q \in Request \ {r} : RowsLocked(q)' = RowsLocked(q)
  <2>1. RowsLocked(r)' = {}
    BY <1>2 DEF RowsLocked
  <2>2. ASSUME NEW q \in Request \ {r} PROVE RowsLocked(q)' = RowsLocked(q)
    <3>1. pc'[q] = pc[q] /\ upserted'[q] = upserted[q] /\ Upserts(q)' = Upserts(q)
      BY <1>2, <1>3
    <3> QED BY <3>1 DEF RowsLocked
  <2> QED BY <2>1, <2>2
<1>5. RowsLocked(r) = {Upserts(r)[i].row : i \in 1..Len(Upserts(r))}
  BY <1>1 DEF RowsLocked
<1>6. RowsExclusive'
  BY <1>4 DEF RowsExclusive
<1>7. Counted'
  <2> SUFFICES ASSUME NEW q \in Request
               PROVE  /\ pc'[q] # "upserting" => upserted'[q] = 0
                      /\ upserted'[q] <= Len(Upserts(q)')
    BY DEF Counted
  <2>1. CASE q # r
    BY <1>2, <1>3, <2>1 DEF Counted
  <2>2. CASE q = r
    <3>1. Sample[key'[q]] \in Seq(Evidence)
      BY SampleAssumption DEF TypeOK
    <3>2. Len(Upserts(q)') \in Nat
      BY <3>1 DEF Upserts
    <3> QED BY <1>2, <2>2, <3>2
  <2> QED BY <2>1, <2>2
<1>8. DraftIsBest'
  <2> SUFFICES ASSUME NEW q \in Request, NEW i \in 1..upserted'[q]
               PROVE  DraftCovers(q, i)'
    BY DEF DraftIsBest
  <2>1. q # r
    BY <1>2
  <2>2. i \in 1..upserted[q] /\ i \in 1..Len(Upserts(q)) /\ pc[q] = "upserting"
    <3>1. i \in 1..upserted[q] /\ upserted[q] \in Nat
      BY <1>2, <2>1 DEF TypeOK
    <3>2. upserted[q] # 0 /\ upserted[q] <= Len(Upserts(q)) /\ Len(Upserts(q)) \in Nat
      BY <3>1, UpsertsType DEF Counted
    <3>3. pc[q] = "upserting"
      BY <3>2 DEF Counted
    <3> QED BY <3>1, <3>2, <3>3
  <2> DEFINE row == Upserts(q)[i].row
  <2>3. row \in RowsLocked(q) /\ row \in Row
    <3>1. row \in RowsLocked(q)
      BY <2>2 DEF RowsLocked
    <3>2. Upserts(q)[i] \in Evidence
      BY <2>2, UpsertsType
    <3> QED BY <3>1, <3>2 DEF Evidence
  <2>4. row \notin RowsLocked(r)
    BY <2>1, <2>3 DEF RowsExclusive
  <2>5. latest'[row] = latest[row]
    BY <1>1, <2>3, <2>4 DEF Seen
  <2>6. DraftCovers(q, i)
    BY <2>2 DEF DraftIsBest
  <2> QED BY <1>2, <1>3, <2>1, <2>5, <2>6 DEF DraftCovers
<1>9. LatestIsBestEvidence'
  <2>1. ASSUME NEW row \in Row
        PROVE  Covers(row, latest'[row], latest[row])
    <3>1. CASE row \notin RowsLocked(r)
      BY <1>1, <3>1, CoversReflexive DEF Seen, TypeOK, Reading
    <3>2. CASE row \in RowsLocked(r)
      <4>1. PICK i \in 1..Len(Upserts(r)) : Upserts(r)[i].row = row
        BY <1>5, <3>2
      <4>2. DraftCovers(r, i)
        BY <1>1 DEF DraftIsBest
      <4> QED BY <1>1, <3>2, <4>1, <4>2 DEF DraftCovers, Seen
    <3> QED BY <3>1, <3>2
  <2>2. ASSUME NEW e \in evidence' PROVE Covers(e.row, latest'[e.row], e)
    <3>1. e \in Evidence /\ e.row \in Row
      BY DEF TypeOK, Evidence
    <3>2. CASE e \in evidence
      <4>1. Covers(e.row, latest[e.row], e)
        BY <3>2 DEF LatestIsBestEvidence
      <4>2. latest'[e.row] \in Reading /\ latest[e.row] \in Reading
        BY <3>1 DEF TypeOK
      <4> QED BY <2>1, <3>1, <4>1, <4>2, CoversTransitive DEF Reading, Evidence
    <3>3. CASE e \notin evidence
      <4>1. PICK i \in 1..Len(Upserts(r)) : e = Upserts(r)[i]
        BY <1>1, <3>3
      <4>2. DraftCovers(r, i)
        BY <1>1 DEF DraftIsBest
      <4>3. latest'[e.row] = draft[r][e.row]
        BY <1>1, <1>5, <3>1, <4>1 DEF Seen
      <4> QED BY <4>1, <4>2, <4>3 DEF DraftCovers
    <3> QED BY <3>2, <3>3
  <2>3. ASSUME NEW row \in Row, latest'[row] # NoEvidence
        PROVE  [row |-> row, at |-> latest'[row].at, quality |-> latest'[row].quality] \in evidence'
    <3>1. CASE latest'[row] = latest[row]
      BY <1>1, <2>3, <3>1 DEF LatestIsBestEvidence
    <3>2. CASE latest'[row] # latest[row]
      <4>1. row \in RowsLocked(r) /\ latest'[row] = draft[r][row]
        BY <1>1, <3>2 DEF Seen
      <4>2. PICK i \in 1..Len(Upserts(r)) : Upserts(r)[i].row = row
        BY <1>5, <4>1
      <4>3. DraftCovers(r, i)
        BY <1>1 DEF DraftIsBest
      <4> QED BY <1>1, <3>2, <4>1, <4>2, <4>3 DEF DraftCovers
    <3> QED BY <3>1, <3>2
  <2> QED BY <2>2, <2>3 DEF LatestIsBestEvidence
<1> QED BY <1>6, <1>7, <1>8, <1>9

LEMMA InitBest == Init => BestInv
<1> SUFFICES ASSUME Init PROVE BestInv
  OBVIOUS
<1>1. TypeOK
  BY InitTyped
<1>2. RowsExclusive /\ DraftIsBest
  BY DEF Init, RowsExclusive, RowsLocked, DraftIsBest
<1>3. Counted
  <2> SUFFICES ASSUME NEW q \in Request
               PROVE  upserted[q] = 0 /\ upserted[q] <= Len(Upserts(q))
    BY DEF Counted
  <2>1. Len(Upserts(q)) \in Nat
    BY <1>1, UpsertsType
  <2> QED BY <2>1 DEF Init
<1>4. LatestIsBestEvidence
  BY DEF Init, LatestIsBestEvidence, NoDraft
<1> QED BY <1>1, <1>2, <1>3, <1>4 DEF BestInv

LEMMA StepBest == BestInv /\ [Next]_vars => BestInv'
<1> SUFFICES ASSUME BestInv, [Next]_vars PROVE BestInv'
  OBVIOUS
<1>0. TypeOK'
  BY StepTyped DEF BestInv
<1>a. ASSUME NEW r \in Request, EndWork(r), latest' = latest, evidence' = evidence,
             key' = key, \A q \in Request \ {r} : pc'[q] = pc[q]
      PROVE  BestInv'
  BY <1>0, <1>a, BestFrame DEF EndWork, BestInv, TypeOK
<1>b. \A r \in Request : pc[r] # "upserting" => upserted[r] = 0
  BY DEF BestInv, Counted
<1>1. ASSUME NEW r \in Request, NEW k \in Key, Arrive(r, k) PROVE BestInv'
  BY <1>0, <1>1, <1>b, BestFrame DEF Arrive, Goto, BestInv, TypeOK, tables, work, history
<1>2. ASSUME NEW r \in Request, AuthenticationFails(r) PROVE BestInv'
  BY <1>0, <1>2, <1>b, BestFrame DEF AuthenticationFails, Goto, BestInv, TypeOK, tables, work, history
<1>3. ASSUME NEW r \in Request, RefuseEnvelope(r) PROVE BestInv'
  BY <1>0, <1>3, <1>b, BestFrame DEF RefuseEnvelope, Goto, BestInv, TypeOK, tables, work, history
<1>4. ASSUME NEW r \in Request, Authenticated(r) PROVE BestInv'
  BY <1>0, <1>4, <1>b, BestFrame DEF Authenticated, Goto, BestInv, TypeOK, tables, history
<1>5. ASSUME NEW r \in Request, LockKey(r) PROVE BestInv'
  BY <1>0, <1>5, <1>b, BestFrame DEF LockKey, Goto, BestInv, TypeOK, tables, work, history
<1>6. ASSUME NEW r \in Request, CheckIdempotency(r) PROVE BestInv'
  BY <1>0, <1>6, <1>b, BestFrame DEF CheckIdempotency, Goto, BestInv, TypeOK, tables, work, history
<1>7. ASSUME NEW r \in Request, AdmitRaw(r) PROVE BestInv'
  BY <1>0, <1>7, <1>b, BestFrame DEF AdmitRaw, Goto, BestInv, TypeOK, tables, history
<1>8. ASSUME NEW r \in Request, InsertReceipt(r) PROVE BestInv'
  BY <1>0, <1>8, <1>b, BestFrame DEF InsertReceipt, Goto, BestInv, TypeOK, tables, work, history
<1>9. ASSUME NEW r \in Request, Upsert(r) PROVE BestInv'
  BY <1>0, <1>9, UpsertKeepsBest
<1>10. ASSUME NEW r \in Request, Commit(r) PROVE BestInv'
  BY <1>0, <1>10, CommitKeepsBest
<1>11. ASSUME NEW r \in Request, StatementFails(r) PROVE BestInv'
  BY <1>11, <1>a DEF StatementFails, Goto, BestInv, TypeOK, tables, history
<1>12. ASSUME NEW r \in Request, RequestEnds(r) PROVE BestInv'
  BY <1>12, <1>a DEF RequestEnds, Goto, BestInv, TypeOK, tables, history
<1>13. CASE SetCapacity
  BY <1>0, <1>13, BestFrame DEF SetCapacity, tables, local, work, history
<1>14. CASE PruneExpired
  BY <1>0, <1>14, BestFrame DEF PruneExpired, local, work, history
<1>15. CASE Tick
  BY <1>0, <1>15, BestFrame DEF Tick, tables, local, work, history
<1>16. CASE UNCHANGED vars
  BY <1>0, <1>16, BestFrame DEF vars, tables, local, work, history
<1> QED
  BY <1>1, <1>2, <1>3, <1>4, <1>5, <1>6, <1>7, <1>8, <1>9, <1>10, <1>11,
     <1>12, <1>13, <1>14, <1>15, <1>16 DEF Next, Step

(* However envelopes are ordered, delayed, interleaved or rolled back, each*)
(* row of the latest state is the best reading ever committed for it.      *)
THEOREM LatestStateIsBest == Spec => []LatestIsBestEvidence
<1>1. BestInv => LatestIsBestEvidence
  BY DEF BestInv
<1> QED BY <1>1, InitBest, StepBest, PTL DEF Spec
-----------------------------------------------------------------------------
(* A key leaves the tables only when it has expired, and its expiry moves  *)
(* only with a commit, which enters it.                                    *)
LEMMA HeldFrame ==
    ASSUME TypeOK, AcknowledgedIsHeld, key' = key, now' = now,
           Held \subseteq Held', expires' = expires,
           \A q \in Request : pc'[q] \in {"accepted", "duplicate"} =>
               pc[q] = pc'[q] \/ key[q] \in Held'
    PROVE  AcknowledgedIsHeld'
BY DEF AcknowledgedIsHeld

LEMMA StepAcknowledged == TypeOK /\ AcknowledgedIsHeld /\ [Next]_vars => AcknowledgedIsHeld'
<1> SUFFICES ASSUME TypeOK, AcknowledgedIsHeld, [Next]_vars PROVE AcknowledgedIsHeld'
  OBVIOUS
<1>1. ASSUME NEW r \in Request, NEW k \in Key, Arrive(r, k) PROVE AcknowledgedIsHeld'
  BY <1>1 DEF Arrive, Goto, TypeOK, AcknowledgedIsHeld, Held, tables
<1>2. ASSUME NEW r \in Request, AuthenticationFails(r) PROVE AcknowledgedIsHeld'
  BY <1>2, HeldFrame DEF AuthenticationFails, Goto, TypeOK, Held, tables
<1>3. ASSUME NEW r \in Request, RefuseEnvelope(r) PROVE AcknowledgedIsHeld'
  BY <1>3, HeldFrame DEF RefuseEnvelope, Goto, TypeOK, Held, tables
<1>4. ASSUME NEW r \in Request, Authenticated(r) PROVE AcknowledgedIsHeld'
  BY <1>4, HeldFrame DEF Authenticated, Goto, TypeOK, Held, tables
<1>5. ASSUME NEW r \in Request, LockKey(r) PROVE AcknowledgedIsHeld'
  BY <1>5, HeldFrame DEF LockKey, Goto, TypeOK, Held, tables
<1>6. ASSUME NEW r \in Request, CheckIdempotency(r) PROVE AcknowledgedIsHeld'
  BY <1>6, HeldFrame DEF CheckIdempotency, Goto, TypeOK, Held, tables
<1>7. ASSUME NEW r \in Request, AdmitRaw(r) PROVE AcknowledgedIsHeld'
  BY <1>7, HeldFrame DEF AdmitRaw, Goto, TypeOK, Held, tables
<1>8. ASSUME NEW r \in Request, InsertReceipt(r) PROVE AcknowledgedIsHeld'
  BY <1>8, HeldFrame DEF InsertReceipt, Goto, TypeOK, Held, tables
<1>9. ASSUME NEW r \in Request, Upsert(r) PROVE AcknowledgedIsHeld'
  BY <1>9, HeldFrame DEF Upsert, TypeOK, Held, tables
<1>10. ASSUME NEW r \in Request, Commit(r) PROVE AcknowledgedIsHeld'
  <2>1. Held' = Held \cup {key[r]}
    BY <1>10 DEF Commit, Apply, Held
  <2>2. \A k \in Key \ {key[r]} : expires'[k] = expires[k]
    BY <1>10 DEF Commit, Apply, TypeOK
  <2>3. \A q \in Request \ {r} : pc'[q] = pc[q]
    BY <1>10 DEF Commit, Goto, TypeOK
  <2>4. key' = key /\ now' = now
    BY <1>10 DEF Commit
  <2> QED BY <2>1, <2>2, <2>3, <2>4 DEF AcknowledgedIsHeld, TypeOK
<1>11. ASSUME NEW r \in Request, StatementFails(r) PROVE AcknowledgedIsHeld'
  BY <1>11, HeldFrame DEF StatementFails, Goto, TypeOK, Held, tables
<1>12. ASSUME NEW r \in Request, RequestEnds(r) PROVE AcknowledgedIsHeld'
  BY <1>12, HeldFrame DEF RequestEnds, Goto, TypeOK, Held, tables
<1>13. CASE SetCapacity
  BY <1>13, HeldFrame DEF SetCapacity, tables, local, work, Held
<1>14. CASE PruneExpired
  <2>1. \A k \in Held \ Held' : expires[k] <= now
    BY <1>14 DEF PruneExpired, Held, TypeOK
  <2>2. UNCHANGED <<now, expires, pc, key>>
    BY <1>14 DEF PruneExpired, local, work
  <2> QED BY <2>1, <2>2 DEF AcknowledgedIsHeld
<1>15. CASE Tick
  <2>1. Held' = Held /\ UNCHANGED <<expires, pc, key>> /\ now' = now + 1
    BY <1>15 DEF Tick, tables, local, work, Held
  <2> QED BY <2>1 DEF AcknowledgedIsHeld, TypeOK
<1>16. CASE UNCHANGED vars
  BY <1>16, HeldFrame DEF vars, tables, local, work, history, Held
<1> QED
  BY <1>1, <1>2, <1>3, <1>4, <1>5, <1>6, <1>7, <1>8, <1>9, <1>10, <1>11,
     <1>12, <1>13, <1>14, <1>15, <1>16 DEF Next, Step

(* handleIngest answers 202 or 200 only for an envelope the database has,  *)
(* and still has until it expires, whatever commits, fails or is pruned    *)
(* between the commit and the answer.                                      *)
THEOREM AcknowledgedStaysHeld == Spec => []AcknowledgedIsHeld
<1>1. Init => AcknowledgedIsHeld
  BY DEF Init, AcknowledgedIsHeld
<1> QED BY <1>1, InitTyped, StepTyped, StepAcknowledged, PTL DEF Spec
=============================================================================
