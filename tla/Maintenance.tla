------------------------------ MODULE Maintenance ------------------------------
(***************************************************************************)
(* The maintenance functions of migrations 0009 and 0010 as pg_cron runs   *)
(* them: rollup_recent_samples, refresh_high_water_marks and               *)
(* prune_expired_telemetry, while replicas keep storing samples.           *)
(*                                                                         *)
(* One time series (host, device, metric) is modelled; the functions treat *)
(* each apart.  now() is the start of a job's transaction, but each of its *)
(* statements sees what is committed when it runs.  A row of metric_rollups*)
(* is kept as the set of samples it aggregates: count, minimum, maximum,   *)
(* average, last value and p95 are functions of that set.                  *)
(***************************************************************************)
EXTENDS Integers, Sequences, FiniteSetsExt

CONSTANTS
    Resolutions,     \* bucket widths, in the order of the loop
    Windows,         \* high-water windows, in the order of the loop
    Horizon,         \* how far back a rollup looks: 3 hours
    RawRetention,    \* of a sample, from its receipt
    RollupRetention, \* of the rows of each tier, from the start of their bucket
    Skew,            \* how far ahead of its receipt a sample may be dated
    JobTime,         \* the longest run of a job
    Value,           \* numeric values
    MaxTime,         \* bound on the clock explored
    MaxSamples       \* bound on the samples stored

Tier   == DOMAIN Resolutions
Window == DOMAIN Windows
Time   == 0 .. (MaxTime + Skew)

(* Each tier divides the next and is kept longer than it, and raw samples  *)
(* outlive what a job looks at.                                            *)
ASSUME MaintenanceAssumption ==
    /\ Resolutions \in Seq(Nat \ {0}) /\ Windows \in Seq(Nat)
    /\ Horizon \in Nat /\ RawRetention \in Nat /\ Skew \in Nat /\ JobTime \in Nat
    /\ RollupRetention \in [Tier -> Nat]
    /\ Value \subseteq Nat
    /\ MaxTime \in Nat \ {0} /\ MaxSamples \in Nat
    /\ \A i \in Tier \ {1} :
          /\ Resolutions[i] % Resolutions[i - 1] = 0
          /\ RollupRetention[i] >= RollupRetention[i - 1] + Resolutions[i]
    /\ \A i \in Window \ {1} : Windows[i - 1] < Windows[i]
    /\ RawRetention > Horizon + Skew + JobTime
    /\ \A i \in Window : RawRetention > Windows[i] + Skew + JobTime
    /\ \A i \in Tier : RollupRetention[i] > Horizon + JobTime

VARIABLES
    now,        \* the database's clock
    samples,    \* metric_samples that have a value and a usable quality
    stored,     \* how many samples were stored so far
    rows,       \* rows[i][b]: what the row of tier i and bucket b aggregates
    marks,      \* metric_high_water, by window; ended is 0 if there is none
    rollup,     \* the rollup under way: now(), its next tier, its rows, and
                \* the samples there were when it began
    refresh,    \* the refresh under way: now(), its next window, its marks
    done        \* the last rollup: last_success_at, and what it had to see

vars == <<now, samples, stored, rows, marks, rollup, refresh, done>>

Sample == [id : 1 .. MaxSamples, at : Time, value : Value, expires : Nat]
Rows   == [Tier -> [Time -> SUBSET Sample]]
Mark   == [ended : Nat, max : Nat]

NoRows  == [i \in Tier |-> [b \in Time |-> {}]]
NoMarks == [i \in Window |-> [ended |-> 0, max |-> 0]]
Idle    == 0

NoRollup  == [began |-> 0, step |-> Idle, rows |-> NoRows, seen |-> {}]
NoRefresh == [began |-> 0, step |-> Idle, marks |-> NoMarks]

(* A row holds samples of its own bucket only.                             *)
TypeOK ==
    /\ now \in Nat
    /\ samples \subseteq Sample
    /\ stored \in 0 .. MaxSamples
    /\ rows \in Rows
    /\ \A i \in Tier : \A b \in Time : \A x \in rows[i][b] :
          b <= x.at /\ x.at < b + Resolutions[i]
    /\ marks \in [Window -> Mark]
    /\ rollup \in [began : Nat, step : 0 .. (Len(Resolutions) + 1), rows : Rows,
                   seen : SUBSET Sample]
    /\ refresh \in [began : Nat, step : 0 .. (Len(Windows) + 1), marks : [Window -> Mark]]
    /\ done \in [began : Nat, seen : SUBSET Sample]

Init ==
    /\ now = 1
    /\ samples = {} /\ stored = 0
    /\ rows = NoRows
    /\ marks = NoMarks
    /\ rollup = NoRollup
    /\ refresh = NoRefresh
    /\ done = [began |-> 0, seen |-> {}]
-----------------------------------------------------------------------------
(* date_bin                                                                *)
Bin(i, t) == (t \div Resolutions[i]) * Resolutions[i]

\* mutant: the horizon is exclusive
InHorizonStrictly(x, began) == began - Horizon < x.at /\ x.at <= began

InHorizon(x, began) == began - Horizon <= x.at /\ x.at <= began

\* mutant: the coarse tiers come first
TierAtReversed(step) == Len(Resolutions) + 1 - step

TierAt(step) == step

\* mutant: the long windows come first
WindowAtReversed(step) == Len(Windows) + 1 - step

WindowAt(step) == step

(* A batch commits on a replica; its sample may be late.                   *)
Store ==
    /\ stored < MaxSamples
    /\ stored' = stored + 1
    /\ \E t \in 1 .. (now + Skew), v \in Value :
          samples' = samples \cup
              {[id |-> stored', at |-> t, value |-> v, expires |-> now + RawRetention]}
    /\ UNCHANGED <<now, rows, marks, rollup, refresh, done>>

RollupBegin ==
    /\ rollup.step = Idle
    /\ rollup' = [began |-> now, step |-> 1, rows |-> NoRows, seen |-> samples]
    /\ UNCHANGED <<now, samples, stored, rows, marks, refresh, done>>

(* The insert of one resolution.                                           *)
RollupTier ==
    /\ rollup.step \in 1 .. Len(Resolutions)
    /\ LET i     == TierAt(rollup.step)
           fresh == {x \in samples : InHorizon(x, rollup.began)}
       IN  rollup' = [rollup EXCEPT
               !.step = @ + 1,
               !.rows[i] = [b \in Time |-> {x \in fresh : Bin(i, x.at) = b}]]
    /\ UNCHANGED <<now, samples, stored, rows, marks, refresh, done>>

(* "on conflict do update": a bucket with samples replaces its row.        *)
RollupCommit ==
    /\ rollup.step = Len(Resolutions) + 1
    /\ rows' = [i \in Tier |-> [b \in Time |->
                   IF rollup.rows[i][b] # {} THEN rollup.rows[i][b] ELSE rows[i][b]]]
    /\ done' = [began |-> rollup.began, seen |-> rollup.seen]
    /\ rollup' = NoRollup
    /\ UNCHANGED <<now, samples, stored, marks, refresh>>

RollupFails ==
    /\ rollup.step # Idle
    /\ rollup' = NoRollup
    /\ UNCHANGED <<now, samples, stored, rows, marks, refresh, done>>

RefreshBegin ==
    /\ refresh.step = Idle
    /\ refresh' = [began |-> now, step |-> 1, marks |-> marks]
    /\ UNCHANGED <<now, samples, stored, rows, marks, rollup, done>>

(* The insert of one window; without samples the old mark stays.           *)
RefreshWindow ==
    /\ refresh.step \in 1 .. Len(Windows)
    /\ LET i      == WindowAt(refresh.step)
           values == {x.value : x \in {y \in samples :
                         refresh.began - Windows[i] <= y.at /\ y.at <= refresh.began}}
       IN  refresh' = [refresh EXCEPT
               !.step = @ + 1,
               !.marks[i] = IF values = {} THEN @
                            ELSE [ended |-> refresh.began, max |-> Max(values)]]
    /\ UNCHANGED <<now, samples, stored, rows, marks, rollup, done>>

RefreshCommit ==
    /\ refresh.step = Len(Windows) + 1
    /\ marks' = refresh.marks
    /\ refresh' = NoRefresh
    /\ UNCHANGED <<now, samples, stored, rows, rollup, done>>

RefreshFails ==
    /\ refresh.step # Idle
    /\ refresh' = NoRefresh
    /\ UNCHANGED <<now, samples, stored, rows, marks, rollup, done>>

(* prune_expired_telemetry: samples go with their batches.                 *)
PruneExpired ==
    /\ samples' = {x \in samples : x.expires > now}
    /\ rows' = [i \in Tier |-> [b \in Time |->
                   IF b + RollupRetention[i] > now THEN rows[i][b] ELSE {}]]
    /\ UNCHANGED <<now, stored, marks, rollup, refresh, done>>

Tick ==
    /\ now < MaxTime
    /\ rollup.step # Idle => now < rollup.began + JobTime
    /\ refresh.step # Idle => now < refresh.began + JobTime
    /\ now' = now + 1
    /\ UNCHANGED <<samples, stored, rows, marks, rollup, refresh, done>>

Next ==
    \/ Store \/ PruneExpired \/ Tick
    \/ RollupBegin \/ RollupTier \/ RollupCommit \/ RollupFails
    \/ RefreshBegin \/ RefreshWindow \/ RefreshCommit \/ RefreshFails

Spec == Init /\ [][Next]_vars
-----------------------------------------------------------------------------
(* Nothing is lost near the present: every sample that was stored when the *)
(* last successful rollup began, and whose bucket the rollup's horizon     *)
(* contains, is in the row of that bucket in every tier.                   *)
RecentIsComplete ==
    \A x \in done.seen : \A i \in Tier :
        /\ Bin(i, x.at) >= done.began - Horizon
        /\ x.at <= done.began
        /\ Bin(i, x.at) + RollupRetention[i] > now
        => x \in rows[i][Bin(i, x.at)]

(* A row never holds a sample of another bucket (which TypeOK says), and   *)
(* near the present it holds all of its own.                               *)
RowsAreExact == TypeOK /\ RecentIsComplete

(* Where the horizon of the last rollup contains a bucket, its row covers  *)
(* whatever the rows of the next finer tier cover in it, although samples  *)
(* are stored between the statements of a rollup.                          *)
TiersNested ==
    \A i \in Tier \ {1} : \A b, c \in Time :
        /\ b >= done.began - Horizon
        /\ Bin(i, c) = b
        => rows[i - 1][c] \subseteq rows[i][b]

(* Of marks refreshed together, that of a longer window is no lower.       *)
MarksNested ==
    \A i \in Window \ {1} :
        /\ marks[i - 1].ended = marks[i].ended
        => marks[i - 1].max <= marks[i].max

(* "Repeated worker execution is idempotent and cannot corrupt p95/rollup  *)
(* data" (release-1-work-plan.md): a rollup drops no sample from a row.    *)
(* The code recomputes a bucket that began before the horizon from the     *)
(* samples after the horizon only.                                         *)
RepeatKeepsRows ==
    [][RollupCommit => \A i \in Tier : \A b \in Time : rows[i][b] \subseteq rows'[i][b]]_vars
=============================================================================
