-------------------------- MODULE MaintenanceProofs --------------------------
(***************************************************************************)
(* The safety invariants of Maintenance, for every choice of bucket        *)
(* widths, windows and retention times that MaintenanceAssumption allows   *)
(* and for any number of samples.                                          *)
(*                                                                         *)
(* The argument is about time: what a job has to look at was received less *)
(* than RawRetention before the job can end, so no prune that interleaves  *)
(* with the job's statements removes it (InHorizonKept, InWindowKept).     *)
(* Each statement therefore sees at least what the earlier ones saw, and   *)
(* the tiers and the windows come out nested.                              *)
(***************************************************************************)
EXTENDS Maintenance, TLAPS

(* The clock only moves on, and stays within the bound explored.           *)
ClockInv == now \in 1 .. MaxTime /\ done.began <= now

(* No sample is dated further ahead of its receipt than ingestion allows.  *)
Dated(x) == x.at + RawRetention <= x.expires + Skew

(* Every non-empty set of samples has a highest one.                       *)
Peaked ==
    \A S \in SUBSET samples : S # {} => \E x \in S : \A y \in S : y.value <= x.value

SampleInv == Peaked /\ \A x \in samples : Dated(x)

(* A row holds samples of its own bucket, and those it does not share with *)
(* metric_samples any more have expired.                                   *)
RowsInv ==
    \A i \in Tier : \A b \in Time : \A x \in rows[i][b] :
        /\ Bin(i, x.at) = b
        /\ x.at <= done.began
        /\ Dated(x)
        /\ x \in samples \/ x.expires <= now

(* What a rollup has to look at does not expire while it runs; each tier   *)
(* it has written agrees with the samples there were when it began, covers *)
(* what the rows to be replaced hold of its horizon, and is covered by the *)
(* next coarser tier.                                                      *)
TierWritten(i) ==
    /\ \A x \in rollup.seen :
          InHorizon(x, rollup.began) => x \in rollup.rows[i][Bin(i, x.at)]
    /\ \A b \in Time : \A x \in rollup.rows[i][b] :
          x \in samples /\ InHorizon(x, rollup.began) /\ Bin(i, x.at) = b
    /\ \A b \in Time : \A x \in rows[i][b] :
          InHorizon(x, rollup.began) => x \in rollup.rows[i][b]
    /\ i # 1 => \A c \in Time : rollup.rows[i - 1][c] \subseteq rollup.rows[i][Bin(i, c)]

RollupInv ==
    rollup.step # Idle =>
        /\ rollup.began <= now /\ now <= rollup.began + JobTime
        /\ done.began <= rollup.began
        /\ \A x \in rollup.seen : InHorizon(x, rollup.began) => x \in samples
        /\ \A i \in Tier : i < rollup.step => TierWritten(i)

(* While a mark is as young as a job may be long, the sample that set it   *)
(* is still there.                                                         *)
InWindow(x, i, t) == t - Windows[i] <= x.at /\ x.at <= t

Witnessed(m, i) ==
    /\ m.ended # 0
    /\ now <= m.ended + JobTime
    => \E x \in samples : InWindow(x, i, m.ended) /\ x.value = m.max

MarksInv == \A i \in Window : Witnessed(marks[i], i)

(* A refresh has replaced the marks of the windows it passed, or left the  *)
(* old ones where there was no sample.                                     *)
RefreshInv ==
    refresh.step # Idle =>
        /\ 1 <= refresh.began
        /\ refresh.began <= now /\ now <= refresh.began + JobTime
        /\ \A i \in Window : Witnessed(refresh.marks[i], i)
        /\ \A i \in Window :
              refresh.step <= i \/ refresh.marks[i].ended # refresh.began
                  => refresh.marks[i] = marks[i]
        /\ \A i \in Window \ {1} :
              i < refresh.step /\ refresh.marks[i - 1].ended = refresh.marks[i].ended
                  => refresh.marks[i - 1].max <= refresh.marks[i].max

IndInv ==
    /\ TypeOK /\ ClockInv /\ SampleInv
    /\ RowsInv /\ RollupInv /\ RecentIsComplete /\ TiersNested
    /\ MarksInv /\ RefreshInv /\ MarksNested
-----------------------------------------------------------------------------
(* What the assumption says of each constant.                              *)
LEMMA Constants ==
    /\ Tier = 1 .. Len(Resolutions) /\ Len(Resolutions) \in Nat
    /\ Window = 1 .. Len(Windows) /\ Len(Windows) \in Nat
    /\ \A i \in Tier : Resolutions[i] \in Nat \ {0} /\ RollupRetention[i] \in Nat
    /\ \A i \in Window : Windows[i] \in Nat
    /\ Horizon \in Nat /\ RawRetention \in Nat /\ Skew \in Nat /\ JobTime \in Nat
    /\ MaxTime \in Nat \ {0} /\ MaxSamples \in Nat
  BY MaintenanceAssumption DEF Tier, Window

LEMMA SampleFields ==
    ASSUME NEW x \in Sample
    PROVE  x.at \in Time /\ x.at \in Nat /\ x.expires \in Nat /\ x.value \in Nat
<1>1. Value \subseteq Nat
  BY MaintenanceAssumption
<1>2. x.at \in Time /\ x.expires \in Nat /\ x.value \in Value
  BY DEF Sample
<1>3. Time \subseteq Nat
  BY Constants DEF Time
<1> QED
  BY <1>1, <1>2, <1>3

(* Division, as date_bin uses it.                                          *)
LEMMA ScaledOrder ==
    ASSUME NEW a \in Int, NEW b \in Int, NEW r \in Nat, a <= b
    PROVE  a * r <= b * r
  OBVIOUS

LEMMA QuotientBounds ==
    ASSUME NEW t \in Nat, NEW r \in Nat \ {0}
    PROVE  /\ t \div r \in Nat
           /\ (t \div r) * r <= t
           /\ t < ((t \div r) * r) + r
<1>1. t \div r \in Nat /\ t = ((t \div r) * r) + (t % r) /\ t % r \in 0 .. (r - 1)
  OBVIOUS
<1> QED
  BY <1>1

LEMMA QuotientUnique ==
    ASSUME NEW q \in Nat, NEW r \in Nat \ {0}, NEW m \in Nat,
           m * r <= q, q < (m * r) + r
    PROVE  q \div r = m
<1> DEFINE n == q \div r
<1>1. n \in Nat /\ n * r <= q /\ q < (n * r) + r
  BY QuotientBounds
<1> HIDE DEF n
<1>2. ASSUME n >= m + 1 PROVE FALSE
  <2>1. (m + 1) * r <= n * r
    BY <1>1, <1>2, ScaledOrder
  <2>2. (m + 1) * r = (m * r) + r
    OBVIOUS
  <2> QED
    BY <1>1, <2>1, <2>2
<1>3. ASSUME m >= n + 1 PROVE FALSE
  <2>1. (n + 1) * r <= m * r
    BY <1>1, <1>3, ScaledOrder
  <2>2. (n + 1) * r = (n * r) + r
    BY <1>1
  <2> QED
    BY <1>1, <2>1, <2>2
<1>4. n = m
  BY <1>1, <1>2, <1>3
<1> QED
  BY <1>4 DEF n

(* A coarse bucket is made of whole fine ones: binning the start of a fine *)
(* bucket gives the coarse bucket of every time in it.                     *)
LEMMA BinOfBin ==
    ASSUME NEW t \in Nat, NEW r \in Nat \ {0}, NEW s \in Nat \ {0}, s % r = 0
    PROVE  ((t \div r) * r) \div s = t \div s
<1> DEFINE k == s \div r
           m == t \div s
           n == t \div r
<1>1. k \in Nat /\ s = k * r
  OBVIOUS
<1>2. m \in Nat /\ m * s <= t /\ t < (m * s) + s
  BY QuotientBounds
<1>3. n \in Nat /\ n * r <= t /\ t < (n * r) + r
  BY QuotientBounds
<1> HIDE DEF k, m, n
<1>4. m * s = (m * k) * r /\ m * k \in Nat
  BY <1>1, <1>2
<1>5. m * k <= n
  <2> SUFFICES ASSUME n + 1 <= m * k PROVE FALSE
    BY <1>3, <1>4
  <2>1. (n + 1) * r <= (m * k) * r
    BY <1>3, <1>4, ScaledOrder
  <2>2. (n + 1) * r = (n * r) + r
    BY <1>3
  <2> QED
    BY <1>2, <1>3, <1>4, <2>1, <2>2
<1>6. m * s <= n * r
  BY <1>3, <1>4, <1>5, ScaledOrder
<1>7. n * r < (m * s) + s
  BY <1>2, <1>3
<1>8. n * r \in Nat
  BY <1>3
<1>9. (n * r) \div s = m
  BY <1>2, <1>6, <1>7, <1>8, QuotientUnique
<1> QED
  BY <1>9 DEF n, m

LEMMA BinBounds ==
    ASSUME NEW i \in Tier, NEW t \in Time
    PROVE  /\ t \in Nat
           /\ Bin(i, t) \in Time /\ Bin(i, t) \in Nat
           /\ Bin(i, t) <= t /\ t < Bin(i, t) + Resolutions[i]
<1>1. t \in Nat /\ t <= MaxTime + Skew
  BY Constants DEF Time
<1>2. Resolutions[i] \in Nat \ {0}
  BY Constants
<1>3. /\ t \div Resolutions[i] \in Nat
      /\ (t \div Resolutions[i]) * Resolutions[i] <= t
      /\ t < ((t \div Resolutions[i]) * Resolutions[i]) + Resolutions[i]
  BY <1>1, <1>2, QuotientBounds
<1>4. (t \div Resolutions[i]) * Resolutions[i] \in Nat
  BY <1>2, <1>3
<1> QED
  BY <1>1, <1>3, <1>4, Constants DEF Bin, Time

LEMMA BinNested ==
    ASSUME NEW i \in Tier \ {1}, NEW t \in Time
    PROVE  i - 1 \in Tier /\ Bin(i, Bin(i - 1, t)) = Bin(i, t)
<1>1. i - 1 \in Tier /\ t \in Nat
  BY Constants DEF Time
<1>2. /\ Resolutions[i] \in Nat \ {0} /\ Resolutions[i - 1] \in Nat \ {0}
      /\ Resolutions[i] % Resolutions[i - 1] = 0
  BY <1>1, Constants, MaintenanceAssumption
<1>3. ((t \div Resolutions[i - 1]) * Resolutions[i - 1]) \div Resolutions[i]
          = t \div Resolutions[i]
  BY <1>1, <1>2, BinOfBin
<1> QED
  BY <1>1, <1>3 DEF Bin
-----------------------------------------------------------------------------
(* What a job looks at has not expired before the job ends.                *)
LEMMA InHorizonKept ==
    ASSUME NEW x \in Sample, Dated(x), NEW began \in Nat, NEW t \in Nat,
           InHorizon(x, began), t <= began + JobTime
    PROVE  x.expires > t
  BY SampleFields, Constants, MaintenanceAssumption DEF Dated, InHorizon

LEMMA InWindowKept ==
    ASSUME NEW x \in Sample, Dated(x), NEW began \in Nat, NEW t \in Nat,
           NEW i \in Window, InWindow(x, i, began), t <= began + JobTime
    PROVE  x.expires > t
<1>1. RawRetention > Windows[i] + Skew + JobTime /\ Windows[i] \in Nat
  BY Constants, MaintenanceAssumption
<1> QED
  BY <1>1, SampleFields, Constants DEF Dated, InWindow

(* The longer window holds what the shorter one holds.                     *)
LEMMA WindowsWiden ==
    ASSUME NEW i \in Window \ {1}, NEW x \in Sample, NEW t \in Nat,
           InWindow(x, i - 1, t)
    PROVE  InWindow(x, i, t)
<1>1. i - 1 \in Window /\ Windows[i - 1] \in Nat /\ Windows[i] \in Nat
      /\ Windows[i - 1] < Windows[i]
  BY Constants, MaintenanceAssumption
<1> QED
  BY <1>1, SampleFields DEF InWindow

(* Max is the highest of the values of a set of samples that has a highest.*)
LEMMA MaxOfValues ==
    ASSUME NEW S \in SUBSET Sample, S # {},
           \E x \in S : \A y \in S : y.value <= x.value
    PROVE  /\ Max({x.value : x \in S}) \in Nat
           /\ \E x \in S : x.value = Max({y.value : y \in S})
           /\ \A x \in S : x.value <= Max({y.value : y \in S})
<1> DEFINE V == {x.value : x \in S}
<1>1. PICK p \in S : \A y \in S : y.value <= p.value
  OBVIOUS
<1>2. \A x \in S : x.value \in Nat
  BY SampleFields
<1>3. p.value \in V /\ \A v \in V : p.value >= v
  BY <1>1, <1>2
<1>4. Max(V) \in V /\ \A v \in V : Max(V) >= v
  BY <1>3 DEF Max
<1> QED
  BY <1>2, <1>4
-----------------------------------------------------------------------------
(* The invariant holds at the start and through every action.              *)
LEMMA InitIndInv == Init => IndInv
<1> SUFFICES ASSUME Init PROVE IndInv
  OBVIOUS
<1> USE Constants DEF Init
<1>1. NoRows \in Rows /\ NoMarks \in [Window -> Mark]
  BY DEF NoRows, NoMarks, Rows, Mark
<1>2. \A i \in Tier : \A b \in Time : rows[i][b] = {}
  BY DEF NoRows
<1>3. rollup.step = Idle /\ refresh.step = Idle /\ done.seen = {} /\ done.began = 0
  BY DEF NoRollup, NoRefresh
<1>4. TypeOK
  BY <1>1, <1>2 DEF TypeOK, NoRollup, NoRefresh, Idle
<1>5. \A i \in Window : marks[i].ended = 0 /\ marks[i].max = 0
  BY DEF NoMarks
<1>6. MarksInv /\ MarksNested
  <2>1. \A i \in Window \ {1} : i - 1 \in Window
    OBVIOUS
  <2> QED
    BY <1>5, <2>1 DEF MarksInv, MarksNested, Witnessed
<1>7. TiersNested
  <2> SUFFICES ASSUME NEW i \in Tier \ {1}, NEW b \in Time, NEW c \in Time
               PROVE  rows[i - 1][c] \subseteq rows[i][b]
    BY DEF TiersNested
  <2>1. i - 1 \in Tier
    OBVIOUS
  <2> QED
    BY <1>2, <2>1
<1> QED
  BY <1>2, <1>3, <1>4, <1>6, <1>7
  DEF IndInv, ClockInv, SampleInv, Peaked, RowsInv, RollupInv, RecentIsComplete, RefreshInv

(* A replica stores a sample: jobs under way may or may not see it.        *)
LEMMA StoreStep == IndInv /\ Store => IndInv'
<1> SUFFICES ASSUME IndInv, Store PROVE IndInv'
  OBVIOUS
<1> USE DEF IndInv
<1>1. PICK t \in 1 .. (now + Skew), v \in Value :
          samples' = samples \cup
              {[id |-> stored', at |-> t, value |-> v, expires |-> now + RawRetention]}
  BY DEF Store
<1> DEFINE s == [id |-> stored', at |-> t, value |-> v, expires |-> now + RawRetention]
<1>2. s \in Sample /\ Dated(s)
  <2>1. stored' \in 1 .. MaxSamples
    BY Constants DEF Store, TypeOK
  <2>2. t \in Time /\ now + RawRetention \in Nat /\ t <= now + Skew /\ t \in Nat /\ now \in Nat
    BY Constants DEF ClockInv, Time
  <2>3. s \in Sample
    BY <2>1, <2>2 DEF Sample
  <2>4. t + RawRetention <= (now + RawRetention) + Skew
    BY <2>2, Constants
  <2> QED
    BY <2>3, <2>4 DEF Dated
<1>3. samples' = samples \cup {s}
  BY <1>1
<1> HIDE DEF s
<1> USE DEF Store
<1>4. TypeOK'
  <2>1. stored' \in 0 .. MaxSamples
    BY Constants DEF TypeOK
  <2> QED
    BY <1>2, <1>3, <2>1 DEF TypeOK
<1>5. SampleInv'
  <2>1. \A x \in samples' : Dated(x)'
    BY <1>2, <1>3 DEF SampleInv, Dated
  <2>2. Peaked'
    <3> SUFFICES ASSUME NEW S \in SUBSET (samples \cup {s}), S # {}
                 PROVE  \E x \in S : \A y \in S : y.value <= x.value
      BY <1>3 DEF Peaked
    <3> DEFINE T == S \ {s}
    <3>1. \A y \in S : y.value \in Nat
      BY <1>2, SampleFields DEF TypeOK
    <3>2. CASE T = {}
      <4>1. S = {s}
        BY <3>2
      <4> QED
        BY <3>1, <4>1
    <3>3. CASE T # {}
      <4>1. T \in SUBSET samples
        OBVIOUS
      <4>2. PICK p \in T : \A y \in T : y.value <= p.value
        BY <3>3, <4>1 DEF SampleInv, Peaked
      <4>3. CASE s \in S /\ p.value <= s.value
        BY <3>1, <4>2, <4>3
      <4>4. CASE ~(s \in S /\ p.value <= s.value)
        BY <3>1, <4>2, <4>4
      <4> QED
        BY <4>3, <4>4
    <3> QED
      BY <3>2, <3>3
  <2> QED
    BY <2>1, <2>2 DEF SampleInv
<1>6. RowsInv'
  BY <1>3 DEF RowsInv, Dated
<1>7. RollupInv'
  BY <1>3 DEF RollupInv, TierWritten
<1>8. MarksInv' /\ RefreshInv'
  BY <1>3 DEF MarksInv, RefreshInv, Witnessed
<1> QED
  BY <1>4, <1>5, <1>6, <1>7, <1>8
  DEF ClockInv, RecentIsComplete, TiersNested, MarksNested

LEMMA TickStep == IndInv /\ Tick => IndInv'
<1> SUFFICES ASSUME IndInv, Tick PROVE IndInv'
  OBVIOUS
<1> USE DEF IndInv, Tick
<1>1. now \in Nat /\ now' = now + 1 /\ now' \in 1 .. MaxTime
  BY Constants DEF ClockInv
<1>2. TypeOK' /\ ClockInv' /\ SampleInv'
  <2>1. TypeOK'
    BY <1>1 DEF TypeOK
  <2>2. ClockInv'
    BY <1>1 DEF ClockInv, TypeOK
  <2>3. SampleInv'
    BY DEF SampleInv, Peaked, Dated
  <2> QED
    BY <2>1, <2>2, <2>3
<1>3. RowsInv'
  <2> SUFFICES ASSUME NEW i \in Tier, NEW b \in Time, NEW x \in rows[i][b]
               PROVE  /\ Bin(i, x.at) = b /\ x.at <= done.began /\ Dated(x)
                      /\ x \in samples \/ x.expires <= now'
    BY DEF RowsInv, Dated
  <2>1. x \in Sample
    BY DEF TypeOK, Rows
  <2> QED
    BY <1>1, <2>1, SampleFields DEF RowsInv
<1>4. RollupInv'
  <2> SUFFICES ASSUME rollup.step # Idle PROVE now' <= rollup.began + JobTime /\ rollup.began <= now'
    BY DEF RollupInv, TierWritten
  <2> QED
    BY <1>1, Constants DEF RollupInv, TypeOK
<1>5. \A m \in Mark, i \in Window : Witnessed(m, i) => Witnessed(m, i)'
  BY <1>1, Constants DEF Witnessed, Mark
<1>6. MarksInv'
  BY <1>5 DEF MarksInv, TypeOK
<1>7. RefreshInv'
  <2> SUFFICES ASSUME refresh.step # Idle
               PROVE  /\ now' <= refresh.began + JobTime /\ refresh.began <= now'
                      /\ \A i \in Window : Witnessed(refresh.marks[i], i)'
    BY DEF RefreshInv
  <2>1. \A i \in Window : refresh.marks[i] \in Mark
    BY DEF TypeOK
  <2> QED
    BY <1>1, <1>5, <2>1, Constants DEF RefreshInv, TypeOK
<1>8. RecentIsComplete'
  <2> SUFFICES ASSUME NEW x \in done.seen, NEW i \in Tier,
                      Bin(i, x.at) + RollupRetention[i] > now'
               PROVE  Bin(i, x.at) + RollupRetention[i] > now
    BY DEF RecentIsComplete
  <2>1. Bin(i, x.at) \in Nat /\ RollupRetention[i] \in Nat
    BY SampleFields, BinBounds, Constants DEF TypeOK
  <2> QED
    BY <1>1, <2>1
<1> QED
  BY <1>2, <1>3, <1>4, <1>6, <1>7, <1>8 DEF TiersNested, MarksNested

(* Retention removes nothing that a job under way still has to look at,    *)
(* and a fine row never outlives the coarse row over it.                   *)
LEMMA PruneStep == IndInv /\ PruneExpired => IndInv'
<1> SUFFICES ASSUME IndInv, PruneExpired PROVE IndInv'
  OBVIOUS
<1> USE DEF IndInv
<1>1. /\ samples' = {x \in samples : x.expires > now}
      /\ now' = now /\ marks' = marks /\ rollup' = rollup /\ refresh' = refresh
      /\ done' = done /\ stored' = stored /\ now \in Nat /\ samples \subseteq Sample
  BY DEF PruneExpired, TypeOK
<1>2. \A i \in Tier : \A b \in Time :
          rows'[i][b] = IF b + RollupRetention[i] > now THEN rows[i][b] ELSE {}
  BY DEF PruneExpired
<1>3. TypeOK'
  <2>1. rows' \in Rows
    BY DEF PruneExpired, TypeOK, Rows
  <2>2. \A i \in Tier : \A b \in Time : \A x \in rows'[i][b] :
            b <= x.at /\ x.at < b + Resolutions[i]
    BY <1>2 DEF TypeOK
  <2> QED
    BY <1>1, <2>1, <2>2 DEF TypeOK
<1>4. ClockInv' /\ SampleInv'
  <2>1. samples' \subseteq samples
    BY <1>1
  <2>2. SUBSET samples' \subseteq SUBSET samples
    BY <2>1
  <2> QED
    BY <1>1, <2>1, <2>2 DEF ClockInv, SampleInv, Peaked, Dated
<1>5. RowsInv'
  <2> SUFFICES ASSUME NEW i \in Tier, NEW b \in Time, NEW x \in rows'[i][b]
               PROVE  /\ Bin(i, x.at) = b /\ x.at <= done.began /\ Dated(x)
                      /\ x \in samples' \/ x.expires <= now
    BY <1>1 DEF RowsInv, Dated
  <2>1. x \in rows[i][b]
    BY <1>2
  <2>2. x \in Sample
    BY <2>1 DEF TypeOK, Rows
  <2> QED
    BY <1>1, <2>1, <2>2, SampleFields DEF RowsInv
<1>6. RollupInv'
  <2> SUFFICES ASSUME rollup.step # Idle PROVE RollupInv'
    BY <1>1 DEF RollupInv
  <2>1. /\ rollup.began \in Nat /\ rollup.began <= now /\ now <= rollup.began + JobTime
        /\ done.began <= rollup.began
    BY DEF RollupInv, TypeOK
  <2>2. ASSUME NEW x \in samples, InHorizon(x, rollup.began)
        PROVE  x \in samples'
    BY <1>1, <2>1, <2>2, InHorizonKept DEF SampleInv
  <2>3. \A x \in rollup.seen : InHorizon(x, rollup.began) => x \in samples'
    BY <2>2 DEF RollupInv
  <2>4. ASSUME NEW i \in Tier, i < rollup.step
        PROVE  TierWritten(i)'
    <3>1. TierWritten(i)
      BY <2>4 DEF RollupInv
    <3>2. \A b \in Time : rows'[i][b] \subseteq rows[i][b]
      BY <1>2
    <3> QED
      BY <1>1, <2>2, <3>1, <3>2 DEF TierWritten
  <2> QED
    BY <1>1, <2>1, <2>3, <2>4 DEF RollupInv
<1>7. ASSUME NEW m \in Mark, NEW i \in Window, Witnessed(m, i)
      PROVE  Witnessed(m, i)'
  <2> SUFFICES ASSUME m.ended # 0, now <= m.ended + JobTime
               PROVE  \E x \in samples' : InWindow(x, i, m.ended) /\ x.value = m.max
    BY <1>1 DEF Witnessed
  <2>1. PICK x \in samples : InWindow(x, i, m.ended) /\ x.value = m.max
    BY <1>7 DEF Witnessed
  <2>2. m.ended \in Nat
    BY DEF Mark
  <2>3. x.expires > now
    BY <1>1, <2>1, <2>2, InWindowKept DEF SampleInv
  <2> QED
    BY <1>1, <2>1, <2>3
<1>8. MarksInv'
  BY <1>1, <1>7 DEF MarksInv, TypeOK
<1>9. RefreshInv'
  <2>1. \A i \in Window : refresh.marks[i] \in Mark
    BY DEF TypeOK
  <2> QED
    BY <1>1, <1>7, <2>1 DEF RefreshInv
<1>10. RecentIsComplete'
  <2> SUFFICES ASSUME NEW x \in done.seen, NEW i \in Tier,
                      Bin(i, x.at) >= done.began - Horizon, x.at <= done.began,
                      Bin(i, x.at) + RollupRetention[i] > now
               PROVE  x \in rows'[i][Bin(i, x.at)]
    BY <1>1 DEF RecentIsComplete
  <2>1. Bin(i, x.at) \in Time
    BY SampleFields, BinBounds DEF TypeOK
  <2>2. x \in rows[i][Bin(i, x.at)]
    BY DEF RecentIsComplete
  <2> QED
    BY <1>2, <2>1, <2>2
<1>11. TiersNested'
  <2> SUFFICES ASSUME NEW i \in Tier \ {1}, NEW b \in Time, NEW c \in Time,
                      b >= done.began - Horizon, Bin(i, c) = b, NEW x \in rows'[i - 1][c]
               PROVE  x \in rows'[i][b]
    BY <1>1 DEF TiersNested
  <2>1. i - 1 \in Tier
    BY Constants
  <2>2. c + RollupRetention[i - 1] > now /\ x \in rows[i - 1][c]
    BY <1>2, <2>1
  <2>3. x \in rows[i][b]
    BY <2>2 DEF TiersNested
  <2>4. c < b + Resolutions[i] /\ b \in Nat /\ c \in Nat
    BY BinBounds
  <2>5. /\ RollupRetention[i] >= RollupRetention[i - 1] + Resolutions[i]
        /\ RollupRetention[i] \in Nat /\ RollupRetention[i - 1] \in Nat
        /\ Resolutions[i] \in Nat
    BY <2>1, Constants, MaintenanceAssumption
  <2>6. b + RollupRetention[i] > now
    BY <1>1, <2>2, <2>4, <2>5
  <2> QED
    BY <1>2, <2>3, <2>6
<1>12. MarksNested'
  BY <1>1 DEF MarksNested
<1> QED
  BY <1>3, <1>4, <1>5, <1>6, <1>8, <1>9, <1>10, <1>11, <1>12

LEMMA RollupBeginStep == IndInv /\ RollupBegin => IndInv'
<1> SUFFICES ASSUME IndInv, RollupBegin PROVE IndInv'
  OBVIOUS
<1> USE DEF IndInv, RollupBegin
<1>1. NoRows \in Rows
  BY DEF NoRows, Rows
<1>2. TypeOK'
  BY <1>1, Constants DEF TypeOK
<1>3. RollupInv'
  <2>1. now \in Nat /\ now <= now + JobTime /\ done.began <= now
    BY Constants DEF TypeOK, ClockInv
  <2>2. \A i \in Tier : ~(i < 1)
    BY Constants
  <2> QED
    BY <2>1, <2>2 DEF RollupInv
<1> QED
  BY <1>2, <1>3 DEF ClockInv, SampleInv, Peaked, Dated, RowsInv, RecentIsComplete,
     TiersNested, MarksInv, Witnessed, RefreshInv, MarksNested

LEMMA RollupTierStep == IndInv /\ RollupTier => IndInv'
<1> SUFFICES ASSUME IndInv, RollupTier PROVE IndInv'
  OBVIOUS
<1> USE DEF IndInv
<1>0. PICK k \in Tier : k = rollup.step
  BY Constants DEF RollupTier
<1> DEFINE fresh == {x \in samples : InHorizon(x, rollup.began)}
           row   == [b \in Time |-> {x \in fresh : Bin(k, x.at) = b}]
<1>1. /\ k \in Tier /\ k \in Nat /\ k # Idle /\ k + 1 # Idle
      /\ k + 1 \in 0 .. (Len(Resolutions) + 1)
  BY <1>0, Constants DEF RollupTier, Idle
<1>2. /\ rollup' = [rollup EXCEPT !.step = k + 1, !.rows[k] = row]
      /\ now' = now /\ samples' = samples /\ stored' = stored /\ rows' = rows
      /\ marks' = marks /\ refresh' = refresh /\ done' = done
  BY <1>0 DEF RollupTier, TierAt
<1>3. row \in [Time -> SUBSET Sample]
  BY DEF TypeOK
<1> HIDE DEF row
<1>4. /\ rollup'.step = k + 1 /\ rollup'.began = rollup.began /\ rollup'.seen = rollup.seen
      /\ rollup'.rows = [rollup.rows EXCEPT ![k] = row]
  BY <1>2 DEF TypeOK
<1>5. /\ rollup.rows \in Rows /\ rollup.began \in Nat /\ samples \subseteq Sample
      /\ now \in Nat
  BY DEF TypeOK
<1>6. /\ rollup'.rows[k] = row
      /\ \A i \in Tier : i # k => rollup'.rows[i] = rollup.rows[i]
  BY <1>1, <1>4, <1>5 DEF Rows
<1>7. TypeOK'
  <2>1. [rollup.rows EXCEPT ![k] = row] \in Rows
    BY <1>3, <1>5 DEF Rows
  <2>2. rollup' \in [began : Nat, step : 0 .. (Len(Resolutions) + 1), rows : Rows,
                     seen : SUBSET Sample]
    BY <1>1, <1>2, <2>1 DEF TypeOK
  <2> QED
    BY <1>2, <2>2 DEF TypeOK
<1>8. /\ rollup.began <= now /\ now <= rollup.began + JobTime
      /\ done.began <= rollup.began
      /\ \A x \in rollup.seen : InHorizon(x, rollup.began) => x \in samples
      /\ \A i \in Tier : i < k => TierWritten(i)
  BY <1>0, <1>1 DEF RollupInv
<1>9. \A x \in fresh : x.at \in Time /\ Bin(k, x.at) \in Time /\ x \in row[Bin(k, x.at)]
  BY <1>1, <1>5, SampleFields, BinBounds DEF row
<1>10. TierWritten(k)'
  <2>1. \A x \in rollup.seen :
            InHorizon(x, rollup.began) => x \in row[Bin(k, x.at)]
    BY <1>8, <1>9
  <2>2. \A b \in Time : \A x \in row[b] :
            x \in samples /\ InHorizon(x, rollup.began) /\ Bin(k, x.at) = b
    BY DEF row
  <2>3. ASSUME NEW b \in Time, NEW x \in rows[k][b], InHorizon(x, rollup.began)
        PROVE  x \in row[b]
    <3>1. x \in Sample
      BY <1>1 DEF TypeOK, Rows
    <3>2. Bin(k, x.at) = b /\ Dated(x) /\ (x \in samples \/ x.expires <= now)
      BY <1>1 DEF RowsInv
    <3>3. x.expires > now
      BY <1>5, <1>8, <2>3, <3>1, <3>2, InHorizonKept
    <3>4. x \in samples
      BY <1>5, <3>1, <3>2, <3>3, SampleFields
    <3> QED
      BY <1>9, <2>3, <3>2, <3>4
  <2>4. ASSUME k # 1, NEW c \in Time, NEW x \in rollup.rows[k - 1][c]
        PROVE  x \in row[Bin(k, c)]
    <3>1. k - 1 \in Tier /\ k - 1 < k /\ k \in Tier \ {1}
      BY <1>1, <2>4, Constants
    <3>2. x \in samples /\ InHorizon(x, rollup.began) /\ Bin(k - 1, x.at) = c
      BY <1>8, <2>4, <3>1 DEF TierWritten
    <3>3. x.at \in Time
      BY <1>5, <3>2, SampleFields
    <3>4. Bin(k, c) = Bin(k, x.at)
      BY <3>1, <3>2, <3>3, BinNested
    <3> QED
      BY <1>9, <3>2, <3>4
  <2>5. k # 1 => rollup'.rows[k - 1] = rollup.rows[k - 1]
    <3>1. k # 1 => k - 1 \in Tier /\ k - 1 # k
      BY <1>1, Constants
    <3> QED
      BY <1>6, <3>1
  <2> QED
    BY <1>2, <1>4, <1>6, <2>1, <2>2, <2>3, <2>4, <2>5 DEF TierWritten
<1>11. ASSUME NEW i \in Tier, i < k
       PROVE  TierWritten(i)'
  <2>1. rollup'.rows[i] = rollup.rows[i]
    BY <1>1, <1>6, <1>11, Constants
  <2>2. i # 1 => rollup'.rows[i - 1] = rollup.rows[i - 1]
    <3>1. i # 1 => i - 1 \in Tier /\ i - 1 # k
      BY <1>1, <1>11, Constants
    <3> QED
      BY <1>6, <3>1
  <2> QED
    BY <1>2, <1>4, <1>8, <1>11, <2>1, <2>2 DEF TierWritten
<1>12. RollupInv'
  <2>1. \A i \in Tier : i < k + 1 => i < k \/ i = k
    BY <1>1, Constants
  <2> QED
    BY <1>2, <1>4, <1>8, <1>10, <1>11, <2>1 DEF RollupInv
<1> QED
  BY <1>2, <1>7, <1>12 DEF ClockInv, SampleInv, Peaked, Dated, RowsInv, RecentIsComplete,
     TiersNested, MarksInv, Witnessed, RefreshInv, MarksNested

(* A bucket the rollup saw samples of replaces its row; that drops nothing *)
(* that lies within the horizon.                                           *)
LEMMA RollupCommitStep == IndInv /\ RollupCommit => IndInv'
<1> SUFFICES ASSUME IndInv, RollupCommit PROVE IndInv'
  OBVIOUS
<1> USE DEF IndInv
<1>1. /\ rollup' = NoRollup
      /\ done' = [began |-> rollup.began, seen |-> rollup.seen]
      /\ now' = now /\ samples' = samples /\ stored' = stored
      /\ marks' = marks /\ refresh' = refresh
  BY DEF RollupCommit
<1>2. \A i \in Tier : \A b \in Time :
          rows'[i][b] = IF rollup.rows[i][b] # {} THEN rollup.rows[i][b] ELSE rows[i][b]
  BY DEF RollupCommit
<1>3. /\ rollup.step # Idle
      /\ \A i \in Tier : i < rollup.step
  BY Constants DEF RollupCommit, Idle
<1>4. /\ rollup.began <= now /\ now <= rollup.began + JobTime
      /\ done.began <= rollup.began
      /\ \A i \in Tier : TierWritten(i)
  BY <1>3 DEF RollupInv
<1>5. /\ rollup.rows \in Rows /\ rollup.began \in Nat /\ samples \subseteq Sample
      /\ now \in Nat /\ rollup.seen \subseteq Sample /\ rows \in Rows
      /\ done.began \in Nat
  BY DEF TypeOK
<1>6. done'.began = rollup.began /\ done'.seen = rollup.seen /\ rollup'.step = Idle
  BY <1>1 DEF NoRollup
<1>7. \A i \in Tier : \A b \in Time : rows'[i][b] \subseteq Sample
  BY <1>2, <1>5 DEF Rows
<1>8. RowsInv'
  <2> SUFFICES ASSUME NEW i \in Tier, NEW b \in Time, NEW x \in rows'[i][b]
               PROVE  /\ Bin(i, x.at) = b /\ x.at <= rollup.began /\ Dated(x)
                      /\ x \in samples \/ x.expires <= now
    BY <1>1, <1>6 DEF RowsInv, Dated
  <2>1. x.at \in Nat
    BY <1>7, SampleFields
  <2>2. CASE x \in rollup.rows[i][b]
    BY <1>4, <2>2 DEF TierWritten, InHorizon, SampleInv
  <2>3. CASE x \in rows[i][b]
    BY <1>4, <1>5, <2>1, <2>3 DEF RowsInv
  <2> QED
    BY <1>2, <2>2, <2>3
<1>9. TypeOK'
  <2>1. rows' \in Rows
    BY <1>5 DEF RollupCommit, Rows
  <2>2. \A i \in Tier : \A b \in Time : \A x \in rows'[i][b] :
            b <= x.at /\ x.at < b + Resolutions[i]
    BY <1>7, <1>8, SampleFields, BinBounds DEF RowsInv
  <2>3. NoRollup \in [began : Nat, step : 0 .. (Len(Resolutions) + 1), rows : Rows,
                      seen : SUBSET Sample]
    BY Constants DEF NoRollup, NoRows, Rows, Idle
  <2> QED
    BY <1>1, <1>5, <2>1, <2>2, <2>3 DEF TypeOK
<1>10. RecentIsComplete'
  <2> SUFFICES ASSUME NEW x \in rollup.seen, NEW i \in Tier,
                      Bin(i, x.at) >= rollup.began - Horizon, x.at <= rollup.began
               PROVE  x \in rows'[i][Bin(i, x.at)]
    BY <1>1, <1>6 DEF RecentIsComplete
  <2>1. Bin(i, x.at) \in Time /\ Bin(i, x.at) \in Nat /\ Bin(i, x.at) <= x.at /\ x.at \in Nat
    BY <1>5, SampleFields, BinBounds
  <2>2. InHorizon(x, rollup.began)
    BY <1>5, <2>1, Constants DEF InHorizon
  <2>3. x \in rollup.rows[i][Bin(i, x.at)]
    BY <1>4, <2>2 DEF TierWritten
  <2> QED
    BY <1>2, <2>1, <2>3
<1>11. TiersNested'
  <2> SUFFICES ASSUME NEW i \in Tier \ {1}, NEW b \in Time, NEW c \in Time,
                      b >= rollup.began - Horizon, Bin(i, c) = b, NEW x \in rows'[i - 1][c]
               PROVE  x \in rows'[i][b]
    BY <1>6 DEF TiersNested
  <2>1. i - 1 \in Tier /\ i \in Tier /\ i # 1
    BY Constants
  <2>2. CASE x \in rollup.rows[i - 1][c]
    <3>1. x \in rollup.rows[i][b]
      BY <1>4, <2>1, <2>2 DEF TierWritten
    <3> QED
      BY <1>2, <2>1, <3>1
  <2>3. CASE rollup.rows[i - 1][c] = {} /\ x \in rows[i - 1][c]
    <3>1. x \in Sample /\ x.at \in Nat
      BY <1>5, <2>1, <2>3, SampleFields DEF Rows
    <3>2. x.at <= done.began /\ c <= x.at
      BY <2>1, <2>3 DEF RowsInv, TypeOK
    <3>3. b <= c /\ b \in Nat /\ c \in Nat
      BY <2>1, BinBounds
    <3>4. InHorizon(x, rollup.began)
      BY <1>4, <1>5, <3>1, <3>2, <3>3, Constants DEF InHorizon
    <3> QED
      BY <1>4, <2>1, <2>3, <3>4 DEF TierWritten
  <2> QED
    BY <1>2, <2>1, <2>2, <2>3
<1>12. ClockInv' /\ RollupInv'
  BY <1>1, <1>4, <1>6 DEF ClockInv, RollupInv
<1> QED
  BY <1>1, <1>8, <1>9, <1>10, <1>11, <1>12
  DEF SampleInv, Peaked, Dated, MarksInv, Witnessed, RefreshInv, MarksNested

LEMMA RollupFailsStep == IndInv /\ RollupFails => IndInv'
<1> SUFFICES ASSUME IndInv, RollupFails PROVE IndInv'
  OBVIOUS
<1> USE DEF IndInv, RollupFails
<1>1. NoRollup \in [began : Nat, step : 0 .. (Len(Resolutions) + 1), rows : Rows,
                    seen : SUBSET Sample]
  BY Constants DEF NoRollup, NoRows, Rows, Idle
<1>2. TypeOK'
  BY <1>1 DEF TypeOK
<1>3. RollupInv'
  BY DEF RollupInv, NoRollup
<1> QED
  BY <1>2, <1>3 DEF ClockInv, SampleInv, Peaked, Dated, RowsInv, RecentIsComplete,
     TiersNested, MarksInv, Witnessed, RefreshInv, MarksNested
-----------------------------------------------------------------------------
(* What the steps of a refresh leave alone.                                *)
LEMMA RefreshFrame ==
    ASSUME IndInv, UNCHANGED <<now, samples, stored, rows, rollup, done>>,
           marks' \in [Window -> Mark],
           refresh' \in [began : Nat, step : 0 .. (Len(Windows) + 1), marks : [Window -> Mark]]
    PROVE  /\ TypeOK' /\ ClockInv' /\ SampleInv'
           /\ RowsInv' /\ RollupInv' /\ RecentIsComplete' /\ TiersNested'
           /\ \A m, i : Witnessed(m, i)' = Witnessed(m, i)
<1>1. TypeOK'
  BY DEF IndInv, TypeOK
<1>2. RollupInv'
  BY DEF IndInv, RollupInv, TierWritten
<1> QED
  BY <1>1, <1>2
  DEF IndInv, ClockInv, SampleInv, Peaked, Dated, RowsInv, RecentIsComplete, TiersNested, Witnessed

LEMMA RefreshBeginStep == IndInv /\ RefreshBegin => IndInv'
<1> SUFFICES ASSUME IndInv, RefreshBegin PROVE IndInv'
  OBVIOUS
<1> USE DEF RefreshBegin
<1>1. /\ refresh' \in [began : Nat, step : 0 .. (Len(Windows) + 1), marks : [Window -> Mark]]
      /\ marks' \in [Window -> Mark]
  BY Constants DEF IndInv, TypeOK
<1>2. now \in Nat /\ 1 <= now /\ now <= now + JobTime
  BY Constants DEF IndInv, ClockInv
<1>3. \A i \in Window : ~(i < 1)
  BY Constants
<1>4. /\ TypeOK' /\ ClockInv' /\ SampleInv'
      /\ RowsInv' /\ RollupInv' /\ RecentIsComplete' /\ TiersNested'
      /\ \A m, i : Witnessed(m, i)' = Witnessed(m, i)
  BY <1>1, RefreshFrame
<1>5. MarksInv' /\ RefreshInv' /\ MarksNested'
  BY <1>2, <1>3, <1>4 DEF IndInv, MarksInv, RefreshInv, MarksNested
<1> QED
  BY <1>4, <1>5 DEF IndInv

(* The insert of one window: its new mark is no lower than that of the     *)
(* shorter window before it, whose sample is still there and lies in this  *)
(* window too.                                                             *)
LEMMA RefreshWindowStep == IndInv /\ RefreshWindow => IndInv'
<1> SUFFICES ASSUME IndInv, RefreshWindow PROVE IndInv'
  OBVIOUS
<1>0. PICK k \in Window : k = refresh.step
  BY Constants DEF RefreshWindow
<1> DEFINE began  == refresh.began
           inside == {y \in samples : InWindow(y, k, began)}
           values == {x.value : x \in inside}
           old    == refresh.marks[k]
           new    == IF values = {} THEN old ELSE [ended |-> began, max |-> Max(values)]
<1>1. /\ k \in Nat /\ k # Idle /\ k + 1 # Idle /\ k + 1 \in 0 .. (Len(Windows) + 1)
  BY <1>0, Constants DEF RefreshWindow, Idle
<1>2. /\ refresh' = [refresh EXCEPT !.step = k + 1, !.marks[k] = new]
      /\ UNCHANGED <<now, samples, stored, rows, marks, rollup, done>>
  BY <1>0 DEF RefreshWindow, WindowAt, InWindow
<1>3. /\ 1 <= began /\ began <= now /\ now <= began + JobTime
      /\ \A i \in Window : Witnessed(refresh.marks[i], i)
      /\ \A i \in Window :
            k <= i \/ refresh.marks[i].ended # began => refresh.marks[i] = marks[i]
      /\ \A i \in Window \ {1} :
            i < k /\ refresh.marks[i - 1].ended = refresh.marks[i].ended
                => refresh.marks[i - 1].max <= refresh.marks[i].max
  BY <1>0, <1>1 DEF IndInv, RefreshInv
<1>4. /\ began \in Nat /\ now \in Nat /\ samples \subseteq Sample
      /\ refresh.marks \in [Window -> Mark] /\ marks \in [Window -> Mark]
  BY DEF IndInv, TypeOK
<1>5. values # {} =>
         /\ Max(values) \in Nat
         /\ \E x \in inside : x.value = Max(values)
         /\ \A x \in inside : x.value <= Max(values)
  <2> SUFFICES ASSUME values # {}
               PROVE  /\ Max(values) \in Nat
                      /\ \E x \in inside : x.value = Max(values)
                      /\ \A x \in inside : x.value <= Max(values)
    OBVIOUS
  <2>1. inside # {} /\ inside \in SUBSET samples /\ inside \in SUBSET Sample
    BY <1>4
  <2>2. \E x \in inside : \A y \in inside : y.value <= x.value
    BY <2>1 DEF IndInv, SampleInv, Peaked
  <2> QED
    BY <2>1, <2>2, MaxOfValues
<1>6. values = {} => inside = {}
  OBVIOUS
<1> HIDE DEF values
<1>7. new \in Mark
  <2>1. old \in Mark
    BY <1>4
  <2>2. values # {} => [ended |-> began, max |-> Max(values)] \in Mark
    BY <1>4, <1>5 DEF Mark
  <2> QED
    BY <2>1, <2>2
<1>8. Witnessed(new, k)
  <2>1. CASE values = {}
    BY <1>3, <2>1
  <2>2. CASE values # {}
    <3>1. new.ended = began /\ new.max = Max(values)
      BY <2>2
    <3>2. \E x \in samples : InWindow(x, k, began) /\ x.value = Max(values)
      BY <1>5, <2>2
    <3> QED
      BY <3>1, <3>2 DEF Witnessed
  <2> QED
    BY <2>1, <2>2
<1>9. new.ended # began => new = marks[k]
  <2>1. old = marks[k]
    BY <1>1, <1>3
  <2> QED
    BY <2>1
<1>10. ASSUME k # 1, refresh.marks[k - 1].ended = new.ended
       PROVE  refresh.marks[k - 1].max <= new.max
  <2> DEFINE prev == refresh.marks[k - 1]
  <2>1. k - 1 \in Window /\ k - 1 < k /\ k \in Window \ {1}
    BY <1>1, <1>10, Constants
  <2>2. CASE new.ended = began
    <3>1. PICK x \in samples : InWindow(x, k - 1, began) /\ x.value = prev.max
      <4>1. Witnessed(prev, k - 1) /\ prev.ended = began
        BY <1>3, <1>10, <2>1, <2>2
      <4>2. began # 0
        BY <1>3, <1>4
      <4> QED
        BY <1>3, <4>1, <4>2 DEF Witnessed
    <3>2. x \in inside
      BY <1>4, <2>1, <3>1, WindowsWiden
    <3>3. values # {}
      BY <1>6, <3>2
    <3>4. new.max = Max(values)
      BY <3>3
    <3> QED
      BY <1>5, <3>1, <3>2, <3>3, <3>4
  <2>3. CASE new.ended # began
    <3>1. new = marks[k]
      BY <1>9, <2>3
    <3>2. prev = marks[k - 1]
      BY <1>3, <1>10, <2>1, <2>3
    <3> QED
      BY <1>10, <2>1, <3>1, <3>2 DEF IndInv, MarksNested
  <2> QED
    BY <2>2, <2>3
<1>11. \A i \in Window : k + 1 <= i => k <= i /\ i # k
  BY <1>1, Constants
<1> HIDE DEF new, inside
<1>12. /\ refresh'.step = k + 1 /\ refresh'.began = began
       /\ refresh'.marks = [refresh.marks EXCEPT ![k] = new]
  BY <1>2 DEF IndInv, TypeOK
<1>13. /\ refresh'.marks[k] = new
       /\ \A i \in Window : i # k => refresh'.marks[i] = refresh.marks[i]
  BY <1>4, <1>12
<1>14. /\ refresh' \in [began : Nat, step : 0 .. (Len(Windows) + 1), marks : [Window -> Mark]]
       /\ marks' \in [Window -> Mark]
  <2>1. [refresh.marks EXCEPT ![k] = new] \in [Window -> Mark]
    BY <1>4, <1>7
  <2> QED
    BY <1>1, <1>2, <2>1 DEF IndInv, TypeOK
<1>15. /\ TypeOK' /\ ClockInv' /\ SampleInv'
       /\ RowsInv' /\ RollupInv' /\ RecentIsComplete' /\ TiersNested'
       /\ \A m, i : Witnessed(m, i)' = Witnessed(m, i)
  BY <1>2, <1>14, RefreshFrame
<1>16. RefreshInv'
  <2>1. \A i \in Window : Witnessed(refresh'.marks[i], i)
    BY <1>3, <1>8, <1>13
  <2>2. \A i \in Window :
            k + 1 <= i \/ refresh'.marks[i].ended # began => refresh'.marks[i] = marks[i]
    BY <1>3, <1>9, <1>11, <1>13
  <2>3. ASSUME NEW i \in Window \ {1}, i < k + 1,
               refresh'.marks[i - 1].ended = refresh'.marks[i].ended
        PROVE  refresh'.marks[i - 1].max <= refresh'.marks[i].max
    <3>1. i - 1 \in Window /\ i - 1 # k /\ (i = k \/ (i < k /\ i # k))
      BY <1>1, <2>3, Constants
    <3>2. refresh'.marks[i - 1] = refresh.marks[i - 1]
      BY <1>13, <3>1
    <3>3. CASE i = k
      BY <1>10, <1>13, <2>3, <3>2, <3>3
    <3>4. CASE i < k /\ i # k
      BY <1>3, <1>13, <2>3, <3>2, <3>4
    <3> QED
      BY <3>1, <3>3, <3>4
  <2>4. \A i \in Window : Witnessed(refresh.marks[i], i)'
    BY <1>15, <2>1
  <2> QED
    BY <1>2, <1>3, <1>12, <2>2, <2>3, <2>4 DEF RefreshInv
<1>17. MarksInv' /\ MarksNested'
  BY <1>2, <1>15 DEF IndInv, MarksInv, MarksNested
<1> QED
  BY <1>15, <1>16, <1>17 DEF IndInv

LEMMA RefreshCommitStep == IndInv /\ RefreshCommit => IndInv'
<1> SUFFICES ASSUME IndInv, RefreshCommit PROVE IndInv'
  OBVIOUS
<1> USE DEF RefreshCommit
<1>1. /\ refresh' \in [began : Nat, step : 0 .. (Len(Windows) + 1), marks : [Window -> Mark]]
      /\ marks' \in [Window -> Mark]
  BY Constants DEF IndInv, TypeOK, NoRefresh, NoMarks, Mark, Idle
<1>2. /\ TypeOK' /\ ClockInv' /\ SampleInv'
      /\ RowsInv' /\ RollupInv' /\ RecentIsComplete' /\ TiersNested'
      /\ \A m, i : Witnessed(m, i)' = Witnessed(m, i)
  BY <1>1, RefreshFrame
<1>3. refresh.step # Idle /\ \A i \in Window : i < refresh.step
  BY Constants DEF Idle
<1>4. MarksInv' /\ MarksNested'
  BY <1>2, <1>3 DEF IndInv, RefreshInv, MarksInv, MarksNested
<1>5. RefreshInv'
  BY DEF RefreshInv, NoRefresh
<1> QED
  BY <1>2, <1>4, <1>5 DEF IndInv

LEMMA RefreshFailsStep == IndInv /\ RefreshFails => IndInv'
<1> SUFFICES ASSUME IndInv, RefreshFails PROVE IndInv'
  OBVIOUS
<1> USE DEF RefreshFails
<1>1. /\ refresh' \in [began : Nat, step : 0 .. (Len(Windows) + 1), marks : [Window -> Mark]]
      /\ marks' \in [Window -> Mark]
  BY Constants DEF IndInv, TypeOK, NoRefresh, NoMarks, Mark, Idle
<1>2. /\ TypeOK' /\ ClockInv' /\ SampleInv'
      /\ RowsInv' /\ RollupInv' /\ RecentIsComplete' /\ TiersNested'
      /\ \A m, i : Witnessed(m, i)' = Witnessed(m, i)
  BY <1>1, RefreshFrame
<1>3. MarksInv' /\ RefreshInv' /\ MarksNested'
  BY <1>2 DEF IndInv, MarksInv, RefreshInv, MarksNested, NoRefresh
<1> QED
  BY <1>2, <1>3 DEF IndInv

LEMMA StutterStep == IndInv /\ UNCHANGED vars => IndInv'
<1> SUFFICES ASSUME IndInv, UNCHANGED vars PROVE IndInv'
  OBVIOUS
<1> USE DEF vars
<1>1. marks' \in [Window -> Mark] /\
      refresh' \in [began : Nat, step : 0 .. (Len(Windows) + 1), marks : [Window -> Mark]]
  BY DEF IndInv, TypeOK
<1>2. /\ TypeOK' /\ ClockInv' /\ SampleInv'
      /\ RowsInv' /\ RollupInv' /\ RecentIsComplete' /\ TiersNested'
      /\ \A m, i : Witnessed(m, i)' = Witnessed(m, i)
  BY <1>1, RefreshFrame
<1>3. MarksInv' /\ RefreshInv' /\ MarksNested'
  BY <1>2 DEF IndInv, MarksInv, RefreshInv, MarksNested
<1> QED
  BY <1>2, <1>3 DEF IndInv
-----------------------------------------------------------------------------
(* The strengthened invariant holds throughout: whatever the order in      *)
(* which samples are stored, jobs run their statements, fail or commit and *)
(* retention prunes.                                                       *)
THEOREM MaintenanceInvariant == Spec => []IndInv
<1>1. IndInv /\ [Next]_vars => IndInv'
  BY StoreStep, PruneStep, TickStep, RollupBeginStep, RollupTierStep, RollupCommitStep,
     RollupFailsStep, RefreshBeginStep, RefreshWindowStep, RefreshCommitStep,
     RefreshFailsStep, StutterStep
  DEF Next
<1> QED
  BY <1>1, InitIndInv, PTL DEF Spec

(* rollup_recent_samples keeps its rows exact: a row of metric_rollups     *)
(* never aggregates a sample of another bucket, and after a rollup it      *)
(* aggregates every sample that was there when the rollup began and whose  *)
(* bucket lies in its horizon, whatever was pruned while it ran.           *)
THEOREM RowsStayExact == Spec => []RowsAreExact
<1>1. IndInv => RowsAreExact
  BY DEF IndInv, RowsAreExact
<1> QED
  BY <1>1, MaintenanceInvariant, PTL

(* The tiers agree: within the horizon of the last rollup a coarse row     *)
(* covers the fine rows under it, although each tier is computed by a      *)
(* statement of its own and samples arrive and are pruned in between.      *)
THEOREM TiersStayNested == Spec => []TiersNested
<1>1. IndInv => TiersNested
  BY DEF IndInv
<1> QED
  BY <1>1, MaintenanceInvariant, PTL

(* refresh_high_water_marks never reports a lower peak for a longer window *)
(* than for a shorter one refreshed with it, also when a refresh leaves    *)
(* the old mark of a window that has no sample.                            *)
THEOREM MarksStayNested == Spec => []MarksNested
<1>1. IndInv => MarksNested
  BY DEF IndInv
<1> QED
  BY <1>1, MaintenanceInvariant, PTL
=============================================================================
