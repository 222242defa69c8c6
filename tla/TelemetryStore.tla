---------------------------- MODULE TelemetryStore ----------------------------
(***************************************************************************)
(* Telemetry ingestion on the server replicas: handleIngest in             *)
(* internal/app/server.go, AuthenticateAgent and PersistEnvelope in        *)
(* internal/telemetry/postgres_store.go, the tables they write             *)
(* (supabase/migrations/0006, 0011, 0012, 0013) and the retention job      *)
(* (0009).                                                                 *)
(*                                                                         *)
(* A request is one run of the handler on some replica with its database   *)
(* transaction; every SQL statement is a step, since PostgreSQL runs them  *)
(* at READ COMMITTED and other transactions, the capacity record and the   *)
(* retention job move in between.  What a transaction writes is in draft    *)
(* until it commits.                                                       *)
(*                                                                         *)
(* An envelope is its idempotency key, its observation time and the rows   *)
(* it writes, in order: metric_latest rows for its samples, then           *)
(* container_inventory rows.  The server appends the agent-clock sample.   *)
(***************************************************************************)
EXTENDS Integers, Sequences

CONSTANTS
    Request,        \* concurrent handler runs, over all replicas
    Key,            \* envelopes, by idempotency key
    Row,            \* rows of metric_latest and container_inventory
    ContainerRow,   \* those of container_inventory
    ClockRow,       \* the agent-clock row of metric_latest
    ObservedAt,     \* ObservedAt[k]: the envelope's observation time
    Sample,         \* Sample[k]: what envelope k writes, in order
    Retention,      \* 48 hours
    FutureSkew,     \* MaxFutureObservationSkew, one minute
    StaleOffset,    \* clock offset beyond which agent-clock is stale
    MaxTime         \* bound on the clock explored

Capacity == {"missing", "raw", "compact"}  \* the capacity_status singleton

(* latestQualityRank: which of two readings of one instant is kept.        *)
Rank == [fresh |-> 6, stale |-> 5, experimental |-> 4, estimated |-> 3,
         unavailable |-> 2, unsupported |-> 1, none |-> 0]
Quality    == DOMAIN Rank
Evidence   == [row : Row, at : Nat, quality : Quality]
Reading    == [at : Nat, quality : Quality]
NoEvidence == [at |-> 0, quality |-> "none"]
NoDraft    == [row \in Row |-> NoEvidence]

ASSUME RowAssumption == ContainerRow \subseteq Row /\ ClockRow \in Row \ ContainerRow
ASSUME TimeAssumption ==
    /\ Retention \in Nat \ {0} /\ FutureSkew \in Nat /\ StaleOffset \in Nat
    /\ MaxTime \in Nat
    /\ ObservedAt \in [Key -> Nat]
(* Containers follow the samples and carry the envelope's time.            *)
ASSUME SampleAssumption ==
    /\ Sample \in [Key -> Seq(Evidence)]
    /\ \A k \in Key : \A i \in 1..Len(Sample[k]) :
          Sample[k][i].row \in ContainerRow =>
              /\ Sample[k][i].at = ObservedAt[k]
              /\ \A j \in i..Len(Sample[k]) : Sample[k][j].row \in ContainerRow

VARIABLES
    now,        \* the replicas' clock
    capacity,   \* capacity_status
    batches,    \* keys in telemetry_batches
    receipts,   \* keys in ingest_receipts
    expires,    \* expires[k]: expires_at of k's row in either table
    latest,     \* latest[r]: the reading in row r
    pc,         \* pc[r]: the statement request r is at, or its answer
    key,        \* key[r]: the envelope it carries
    arrived,    \* arrived[r]: PersistEnvelope's now
    raw,        \* raw[r]: PersistEnvelope's rawRetained
    upserted,   \* upserted[r]: number of upserts done so far
    draft,      \* draft[r]: the uncommitted readings of the rows r has locked
    accepts,    \* history: how often each key was committed
    evidence    \* history: every reading committed

tables     == <<batches, receipts, expires, latest>>
history    == <<accepts, evidence>>
work       == <<arrived, raw, upserted, draft>>
local      == <<pc, key, work>>
vars       == <<now, capacity, tables, local, history>>

Before  == {"authenticating", "locking"}                \* holds no lock
Locked  == {"checking", "admitting", "inserting", "upserting"}
Answers == {"accepted", "duplicate", "rejected", "unauthorized"}

TypeOK ==
    /\ now \in Nat
    /\ capacity \in Capacity
    /\ batches \in SUBSET Key
    /\ receipts \in SUBSET Key
    /\ expires \in [Key -> Nat]
    /\ latest \in [Row -> Reading]
    /\ pc \in [Request -> {"idle"} \cup Before \cup Locked \cup Answers]
    /\ key \in [Request -> Key]
    /\ arrived \in [Request -> Nat]
    /\ raw \in [Request -> BOOLEAN]
    /\ upserted \in [Request -> Nat]
    /\ draft \in [Request -> [Row -> Reading]]
    /\ accepts \in [Key -> Nat]
    /\ evidence \in SUBSET Evidence

Init ==
    /\ now = 1
    /\ capacity \in Capacity
    /\ batches = {} /\ receipts = {}
    /\ expires = [k \in Key |-> 0]
    /\ latest = NoDraft
    /\ pc = [r \in Request |-> "idle"]
    /\ key \in [Request -> Key]
    /\ arrived = [r \in Request |-> 0]
    /\ raw = [r \in Request |-> FALSE]
    /\ upserted = [r \in Request |-> 0]
    /\ draft = [r \in Request |-> NoDraft]
    /\ accepts = [k \in Key |-> 0]
    /\ evidence = {}
-----------------------------------------------------------------------------
Held == batches \cup receipts

Goto(r, where) == pc' = [pc EXCEPT ![r] = where]

(* clockOffsetSample: the server's own reading, observed at receipt.       *)
ClockSample(k, t) ==
    LET offset == t - ObservedAt[k]
    IN  [row |-> ClockRow, at |-> t,
         quality |-> IF offset > StaleOffset \/ -offset > StaleOffset
                     THEN "stale" ELSE "fresh"]

(* Every row the request writes, in the order of the statements.           *)
Upserts(r) == Append(Sample[key[r]], ClockSample(key[r], arrived[r]))

RowsLocked(r) ==
    IF pc[r] = "upserting"
    THEN {Upserts(r)[i].row : i \in 1..upserted[r]}
    ELSE {}

(* upsertLatest and upsertContainer: the ON CONFLICT ... WHERE clauses.    *)
Replaces(row, new, old) ==
    \/ new.at > old.at
    \/ new.at = old.at /\ (row \in ContainerRow \/ Rank[new.quality] > Rank[old.quality])

Keep(row, new, old) ==
    IF Replaces(row, new, old) THEN [at |-> new.at, quality |-> new.quality] ELSE old

(* The reading transaction r sees in a row.                                *)
Seen(r, row) == IF row \in RowsLocked(r) THEN draft[r][row] ELSE latest[row]

(* What the CHECKs and primary keys of metric_samples and metric_latest    *)
(* refuse: an experimental reading, and with raw retention a metric that   *)
(* the same envelope carries twice.                                        *)
Storable(r, e) ==
    \/ e.row \in ContainerRow
    \/ /\ e.quality # "experimental"
       /\ ~ (/\ raw[r]
             /\ upserted[r] < Len(Sample[key[r]])
             /\ e.row \in RowsLocked(r))

\* mutant: only the envelope's own time is compared with the clock
EnvelopeTimePlausible(k) == ObservedAt[k] <= now + FutureSkew

(* ValidateReceiptTimes                                                    *)
TimesPlausible(k) ==
    /\ ObservedAt[k] <= now + FutureSkew
    /\ \A i \in 1..Len(Sample[k]) : Sample[k][i].at <= now + FutureSkew
-----------------------------------------------------------------------------
(* handleIngest has decoded an envelope and asks who sent it.              *)
Arrive(r, k) ==
    /\ pc[r] = "idle"
    /\ Goto(r, "authenticating")
    /\ key' = [key EXCEPT ![r] = k]
    /\ UNCHANGED <<now, capacity, tables, work, history>>

(* Unknown, revoked, or the database did not answer: all are a 401.        *)
AuthenticationFails(r) ==
    /\ pc[r] = "authenticating"
    /\ Goto(r, "unauthorized")
    /\ UNCHANGED <<now, capacity, tables, key, work, history>>

(* The identity does not match, or Validate refuses the envelope.          *)
RefuseEnvelope(r) ==
    /\ pc[r] = "authenticating"
    /\ Goto(r, "rejected")
    /\ UNCHANGED <<now, capacity, tables, key, work, history>>

(* PersistEnvelope up to BeginTx.                                          *)
Authenticated(r) ==
    /\ pc[r] = "authenticating"
    /\ IF TimesPlausible(key[r])
       THEN /\ Goto(r, "locking")
            /\ arrived' = [arrived EXCEPT ![r] = now]
       ELSE /\ Goto(r, "rejected")
            /\ UNCHANGED arrived
    /\ UNCHANGED <<now, capacity, tables, key, raw, upserted, draft, history>>

\* mutant: the key is checked without the advisory lock
LockKeyUnguarded(r) ==
    /\ pc[r] = "locking"
    /\ Goto(r, "checking")
    /\ UNCHANGED <<now, capacity, tables, key, work, history>>

(* pg_advisory_xact_lock on the key, held until the transaction ends.      *)
LockKey(r) ==
    /\ pc[r] = "locking"
    /\ \A q \in Request : pc[q] \in Locked => key[q] # key[r]
    /\ Goto(r, "checking")
    /\ UNCHANGED <<now, capacity, tables, key, work, history>>

\* mutant: only telemetry_batches is searched for the key
CheckBatchesOnly(r) ==
    /\ pc[r] = "checking"
    /\ Goto(r, IF key[r] \in batches THEN "duplicate" ELSE "admitting")
    /\ UNCHANGED <<now, capacity, tables, key, work, history>>

CheckIdempotency(r) ==
    /\ pc[r] = "checking"
    /\ Goto(r, IF key[r] \in Held THEN "duplicate" ELSE "admitting")
    /\ UNCHANGED <<now, capacity, tables, key, work, history>>

(* acceptRawBatches: a missing capacity record admits no raw batch.        *)
AdmitRaw(r) ==
    /\ pc[r] = "admitting"
    /\ Goto(r, "inserting")
    /\ raw' = [raw EXCEPT ![r] = (capacity = "raw")]
    /\ UNCHANGED <<now, capacity, tables, key, arrived, upserted, draft, history>>

(* insertRawBatch, or the compact receipt; the key is unique in each table.*)
InsertReceipt(r) ==
    /\ pc[r] = "inserting"
    /\ key[r] \notin (IF raw[r] THEN batches ELSE receipts)
    /\ Goto(r, "upserting")
    /\ UNCHANGED <<now, capacity, tables, key, work, history>>

\* mutant: an older reading replaces a newer one
UpsertUnordered(r) ==
    LET next == Upserts(r)[upserted[r] + 1]
    IN  /\ pc[r] = "upserting"
        /\ upserted[r] < Len(Upserts(r))
        /\ Storable(r, next)
        /\ \A q \in Request \ {r} : next.row \notin RowsLocked(q)
        /\ upserted' = [upserted EXCEPT ![r] = @ + 1]
        /\ draft' = [draft EXCEPT ![r][next.row] =
                        [at |-> next.at, quality |-> next.quality]]
        /\ UNCHANGED <<now, capacity, tables, pc, key, arrived, raw, history>>

\* mutant: a row the transaction has locked itself blocks it too
UpsertSelfBlocking(r) ==
    LET next == Upserts(r)[upserted[r] + 1]
    IN  /\ pc[r] = "upserting"
        /\ upserted[r] < Len(Upserts(r))
        /\ Storable(r, next)
        /\ \A q \in Request : next.row \notin RowsLocked(q)
        /\ upserted' = [upserted EXCEPT ![r] = @ + 1]
        /\ draft' = [draft EXCEPT ![r][next.row] =
                        Keep(next.row, next, Seen(r, next.row))]
        /\ UNCHANGED <<now, capacity, tables, pc, key, arrived, raw, history>>

(* insertRawSample and upsertLatest for the next sample, or upsertContainer*)
(* for the next container: it waits for its row until another holder ends. *)
Upsert(r) ==
    LET next == Upserts(r)[upserted[r] + 1]
    IN  /\ pc[r] = "upserting"
        /\ upserted[r] < Len(Upserts(r))
        /\ Storable(r, next)
        /\ \A q \in Request \ {r} : next.row \notin RowsLocked(q)
        /\ upserted' = [upserted EXCEPT ![r] = @ + 1]
        /\ draft' = [draft EXCEPT ![r][next.row] =
                        Keep(next.row, next, Seen(r, next.row))]
        /\ UNCHANGED <<now, capacity, tables, pc, key, arrived, raw, history>>

(* What a committed transaction leaves in the tables.                      *)
Apply(r) ==
    /\ batches' = IF raw[r] THEN batches \cup {key[r]} ELSE batches
    /\ receipts' = IF raw[r] THEN receipts ELSE receipts \cup {key[r]}
    /\ expires' = [expires EXCEPT ![key[r]] = arrived[r] + Retention]
    /\ latest' = [row \in Row |-> Seen(r, row)]
    /\ accepts' = [accepts EXCEPT ![key[r]] = @ + 1]
    /\ evidence' = evidence \cup {Upserts(r)[i] : i \in 1..Len(Upserts(r))}

EndWork(r) ==
    /\ arrived' = [arrived EXCEPT ![r] = 0]
    /\ raw' = [raw EXCEPT ![r] = FALSE]
    /\ upserted' = [upserted EXCEPT ![r] = 0]
    /\ draft' = [draft EXCEPT ![r] = NoDraft]

(* The commit takes effect.  The handler learns of it and answers 202, or  *)
(* its connection breaks and it answers 400, or it dies with no answer.    *)
Commit(r) ==
    /\ pc[r] = "upserting"
    /\ upserted[r] = Len(Upserts(r))
    /\ Apply(r)
    /\ \E answer \in {"accepted", "rejected", "idle"} : Goto(r, answer)
    /\ EndWork(r)
    /\ UNCHANGED <<now, capacity, key>>

(* Any statement fails: the transaction rolls back and the answer is 400.  *)
StatementFails(r) ==
    /\ pc[r] \in Locked \cup {"locking"}
    /\ Goto(r, "rejected")
    /\ EndWork(r)
    /\ UNCHANGED <<now, capacity, tables, key, history>>

(* The answer goes out, or the replica or the connection dies before.      *)
RequestEnds(r) ==
    /\ pc[r] # "idle"
    /\ Goto(r, "idle")
    /\ EndWork(r)
    /\ UNCHANGED <<now, capacity, tables, key, history>>
-----------------------------------------------------------------------------
SetCapacity ==
    /\ capacity' \in Capacity \ {capacity}
    /\ UNCHANGED <<now, tables, local, history>>

\* mutant: a batch is deleted one instant before it expires
PruneEarly ==
    /\ \E k \in batches : expires[k] <= now + 1
    /\ batches' = {k \in batches : expires[k] > now + 1}
    /\ UNCHANGED <<now, capacity, receipts, expires, latest, local, history>>

(* prune_expired_telemetry deletes batches; compact receipts stay.         *)
PruneExpired ==
    /\ \E k \in batches : expires[k] <= now
    /\ batches' = {k \in batches : expires[k] > now}
    /\ UNCHANGED <<now, capacity, receipts, expires, latest, local, history>>

Tick ==
    /\ now < MaxTime
    /\ now' = now + 1
    /\ UNCHANGED <<capacity, tables, local, history>>

Step(r) ==
    \/ AuthenticationFails(r) \/ RefuseEnvelope(r) \/ Authenticated(r)
    \/ LockKey(r) \/ CheckIdempotency(r) \/ AdmitRaw(r) \/ InsertReceipt(r) \/ Upsert(r)
    \/ Commit(r)

Next ==
    \/ \E r \in Request :
          \/ \E k \in Key : Arrive(r, k)
          \/ Step(r) \/ StatementFails(r) \/ RequestEnds(r)
    \/ SetCapacity \/ PruneExpired \/ Tick

Spec == Init /\ [][Next]_vars

(* r waits for a row or key that q holds until its transaction ends.       *)
WaitsFor(r, q) ==
    /\ q # r
    /\ \/ pc[r] = "locking" /\ pc[q] \in Locked /\ key[q] = key[r]
       \/ /\ pc[r] = "upserting" /\ upserted[r] < Len(Upserts(r))
          /\ Upserts(r)[upserted[r] + 1].row \in RowsLocked(q)

Deadlocked(r) ==
    \E S \in SUBSET Request :
        r \in S /\ \A x \in S : \E y \in S : WaitsFor(x, y)

(* PostgreSQL's deadlock detector fails the statement of one member.       *)
DeadlockVictim(r) == Deadlocked(r) /\ StatementFails(r)

(* A statement the tables refuse fails.                                    *)
ConstraintFails(r) ==
    /\ pc[r] = "upserting" /\ upserted[r] < Len(Upserts(r))
    /\ ~ Storable(r, Upserts(r)[upserted[r] + 1])
    /\ StatementFails(r)

(* A handler runs to its end; PostgreSQL grants locks in arrival order.    *)
Fairness ==
    \A r \in Request :
        /\ WF_vars(Authenticated(r)) /\ WF_vars(CheckIdempotency(r))
        /\ WF_vars(AdmitRaw(r)) /\ WF_vars(InsertReceipt(r))
        /\ WF_vars(Commit(r)) /\ WF_vars(DeadlockVictim(r))
        /\ WF_vars(ConstraintFails(r))
        /\ SF_vars(LockKey(r)) /\ SF_vars(Upsert(r))

FairSpec == Spec /\ Fairness
-----------------------------------------------------------------------------
(* A 202 or 200 means the database has the envelope until it expires.      *)
AcknowledgedIsHeld ==
    \A r \in Request : pc[r] \in {"accepted", "duplicate"} =>
        key[r] \in Held \/ expires[key[r]] <= now

(* "A capacity mode change must never allow the same idempotency key to be *)
(* accepted twice" (postgres_store.go): no key has a raw batch and a       *)
(* compact receipt.                                                        *)
OneTablePerKey == batches \cap receipts = {}

Covers(row, a, b) ==
    \/ a.at > b.at
    \/ a.at = b.at /\ (row \in ContainerRow \/ Rank[a.quality] >= Rank[b.quality])

(* Whatever order envelopes arrive and commit in, a row holds the best of  *)
(* all committed readings: the newest, and of one instant the most         *)
(* trustworthy; and it holds nothing that no envelope said.                *)
LatestIsBestEvidence ==
    /\ \A e \in evidence : Covers(e.row, latest[e.row], e)
    /\ \A row \in Row : latest[row] # NoEvidence =>
          [row |-> row, at |-> latest[row].at, quality |-> latest[row].quality] \in evidence

(* A future-dated agent cannot block later updates of a row for longer     *)
(* than the tolerated skew (ValidateReceiptTimes).                         *)
NoFutureLatest == \A row \in Row : latest[row].at <= now + FutureSkew

Phase(r) ==
    IF pc[r] \in Before \cup Locked THEN "pending"
    ELSE IF pc[r] \in {"rejected", "unauthorized"} THEN "refused" ELSE pc[r]

Ledger == INSTANCE IntakeLedger
    WITH held <- Held, asked <- key, phase <- [r \in Request |-> Phase(r)]

(* The replicas implement one ledger in which every request is decided at  *)
(* one instant and a key is entered at most once until it is forgotten.    *)
LedgerSpec == Ledger!LedgerSpec

(* Every request is answered, or its connection dies: no request waits for *)
(* ever on the key lock, on a row, or on a request that waits for it.      *)
EveryRequestEnds ==
    \A r \in Request :
        pc[r] = "authenticating" ~> pc[r] \in Answers \cup {"idle"}
=============================================================================
