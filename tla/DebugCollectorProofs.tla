------------------------- MODULE DebugCollectorProofs -------------------------
(***************************************************************************)
(* The safety properties of DebugCollector for any size of the buffers and *)
(* the files, any number of reports under way, any recordings and any      *)
(* choice of the huge ones.                                                *)
(*                                                                         *)
(* Every entry is in one place at a time: buffer, report or file.  It is   *)
(* put back only from a report, so that an entry in two places has been in *)
(* a report that was handled without an answer; those are doubted.  While  *)
(* at most one report is under way the places are in order: file before    *)
(* report before buffer.                                                   *)
(***************************************************************************)
EXTENDS DebugCollector, FiniteSetTheorems, WellFoundedInduction, TLAPS

(* A set of numbers has a least one.                                       *)
LEMMA NatHasLeast ==
    ASSUME NEW T \in SUBSET Nat, T # {}
    PROVE  \E x \in T : \A y \in T : x <= y
<1>1. PICK x \in T : \A y \in T : ~ (<<y, x>> \in OpToRel(<, Nat))
  BY NatLessThanWellFounded, WFMin
<1>2. \A y \in T : <<y, x>> \in OpToRel(<, Nat) <=> y < x
  BY DEF OpToRel
<1>3. \A y \in T : ~ (y < x)
  BY <1>1, <1>2, Zenon
<1> QED
  BY <1>3

(* A bounded set of numbers has a highest one, which is its Max.           *)
LEMMA BoundedHasMax ==
    ASSUME NEW N \in Nat, NEW T \in SUBSET (0 .. N), T # {}
    PROVE  Max(T) \in T /\ \A y \in T : Max(T) >= y
<1> DEFINE U == {N - t : t \in T}
<1>1. U \in SUBSET Nat /\ U # {}
  <2>1. \A t \in T : N - t \in Nat
    OBVIOUS
  <2> QED
    BY <2>1
<1>2. PICK u \in U : \A y \in U : u <= y
  BY <1>1, NatHasLeast
<1>3. PICK t \in T : u = N - t
  BY <1>2
<1>4. \A y \in T : t >= y
  <2> SUFFICES ASSUME NEW y \in T PROVE t >= y
    OBVIOUS
  <2>1. N - y \in U
    OBVIOUS
  <2>2. N - t <= N - y
    BY <1>2, <1>3, <2>1
  <2> QED
    BY <2>2
<1> QED
  BY <1>4 DEF Max
-----------------------------------------------------------------------------
(* An end part of a sequence.                                              *)
Ends(t, q) ==
    \E d \in 0 .. Len(q) : /\ Len(t) = Len(q) - d
                           /\ \A i \in 1 .. Len(t) : t[i] = q[i + d]

(* No entry is twice in a sequence but those of D.                         *)
Once(q, D) == \A i, j \in 1 .. Len(q) : i # j /\ q[i] = q[j] => q[i] \in D

(* Nothing of q was recorded after anything of r.                          *)
Before(q, r) == \A i \in 1 .. Len(q), j \in 1 .. Len(r) : q[i] <= r[j]

(* The same by index.                                                      *)
LEMMA ByIndex ==
    ASSUME NEW q \in Seq(Nat)
    PROVE  /\ Len(q) \in Nat
           /\ \A i \in 1 .. Len(q) : q[i] \in Nat
           /\ \A x : x \in Range(q) <=> \E i \in 1 .. Len(q) : x = q[i]
           /\ Ascending(q) <=> \A i, j \in 1 .. Len(q) : i < j => q[i] <= q[j]
           /\ \A D : Once(q, D) <=> \A i, j \in DOMAIN q : i # j /\ q[i] = q[j] => q[i] \in D
           /\ q = <<>> <=> Len(q) = 0
<1>1. DOMAIN q = 1 .. Len(q)
  OBVIOUS
<1>2. \A x : x \in Range(q) <=> \E i \in 1 .. Len(q) : x = q[i]
  BY <1>1, Zenon DEF Range
<1>3. Ascending(q) <=> \A i, j \in 1 .. Len(q) : i < j => q[i] <= q[j]
  BY <1>1, Zenon DEF Ascending
<1>4. \A D : Once(q, D) <=> \A i, j \in DOMAIN q : i # j /\ q[i] = q[j] => q[i] \in D
  BY <1>1, Zenon DEF Once
<1> QED
  BY <1>2, <1>3, <1>4

(* pruneBuffer leaves the newest entries, no more than a buffer may hold.  *)
LEMMA PruneKeepsTheEnd ==
    ASSUME NEW q \in Seq(Nat)
    PROVE  /\ pruneBuffer(q) \in Seq(Nat) /\ Len(pruneBuffer(q)) <= BufferSize
           /\ Ends(pruneBuffer(q), q)
<1> DEFINE d == IF Len(q) > BufferSize THEN Len(q) - BufferSize ELSE 0
           t == SubSeq(q, d + 1, Len(q))
<1>1. d \in 0 .. Len(q) /\ Len(q) - d <= BufferSize /\ Len(q) \in Nat
  BY CollectorAssumption
<1>2. Max({1, Len(q) - BufferSize + 1}) = d + 1
  BY CollectorAssumption DEF Max
<1>3. pruneBuffer(q) = t
  BY <1>2 DEF pruneBuffer
<1> HIDE DEF d
<1>4. t \in Seq(Nat) /\ Len(t) = Len(q) - d /\ \A i \in 1 .. Len(t) : t[i] = q[i + d]
  BY <1>1
<1> HIDE DEF t
<1> QED
  BY <1>1, <1>3, <1>4 DEF Ends

(* The lines a trimmed file keeps, of which there may be none.             *)
LEMMA SizeOfFewLines ==
    /\ Size(<<>>) = 0
    /\ \A q \in Seq(Nat) : (Len(q) = 1 /\ q[1] \notin Huge) => Size(q) = 1
<1>1. Size(<<>>) = 0
  <2>1. {i \in DOMAIN <<>> : <<>>[i] \in Huge} = {}
    OBVIOUS
  <2> QED
    BY <2>1, FS_EmptySet, CollectorAssumption DEF Size
<1>2. ASSUME NEW q \in Seq(Nat), Len(q) = 1, q[1] \notin Huge PROVE Size(q) = 1
  <2>1. {i \in DOMAIN q : q[i] \in Huge} = {}
    BY <1>2
  <2>2. Size(q) = 1 + 0 * TrimTarget
    BY <1>2, <2>1, FS_EmptySet DEF Size
  <2> QED
    BY <2>2, CollectorAssumption
<1> QED
  BY <1>1, <1>2

(* trimLogFile leaves the newest lines, and the last one at least unless   *)
(* it is huge.                                                             *)
LEMMA TrimKeepsTheEnd ==
    ASSUME NEW q \in Seq(Nat)
    PROVE  /\ trimLogFile(q) \in Seq(Nat)
           /\ Ends(trimLogFile(q), q)
           /\ q # <<>> /\ Last(q) \notin Huge => trimLogFile(q) # <<>>
<1> DEFINE Newest(n) == SubSeq(q, Len(q) - n + 1, Len(q))
           fit == {n \in 0 .. Len(q) : Size(Newest(n)) <= TrimTarget}
<1>1. Len(q) \in Nat
  OBVIOUS
<1>2. \A n \in 0 .. Len(q) : /\ Newest(n) \in Seq(Nat) /\ Len(Newest(n)) = n
                             /\ \A i \in 1 .. n : Newest(n)[i] = q[i + (Len(q) - n)]
  BY <1>1
<1>3. 0 \in fit
  <2>1. Newest(0) = <<>>
    BY <1>1, <1>2
  <2>2. Size(Newest(0)) = 0
    BY <2>1, SizeOfFewLines
  <2> HIDE DEF Newest
  <2> QED
    BY <1>1, <2>2, CollectorAssumption
<1>4. q # <<>> /\ Last(q) \notin Huge => 1 \in fit
  <2> SUFFICES ASSUME q # <<>>, Last(q) \notin Huge PROVE 1 \in fit
    OBVIOUS
  <2>1. 1 \in 0 .. Len(q)
    BY <1>1
  <2>2. Newest(1)[1] = Last(q) /\ Newest(1) \in Seq(Nat) /\ Len(Newest(1)) = 1
    BY <1>1, <1>2, <2>1 DEF Last
  <2>3. Size(Newest(1)) = 1
    BY <2>2, SizeOfFewLines
  <2> HIDE DEF Newest
  <2> QED
    BY <2>1, <2>3, CollectorAssumption
<1>5. Max(fit) \in fit /\ \A y \in fit : Max(fit) >= y
  <2>1. fit \in SUBSET (0 .. Len(q)) /\ fit # {}
    BY <1>3
  <2> HIDE DEF fit
  <2> QED
    BY <1>1, <2>1, BoundedHasMax
<1> DEFINE m == Max(fit)
<1>6. trimLogFile(q) = IF Size(q) <= LogLimit THEN q ELSE Newest(m)
  BY DEF trimLogFile
<1>7. m \in 0 .. Len(q) /\ (q # <<>> /\ Last(q) \notin Huge => m # 0)
  BY <1>4, <1>5
<1> HIDE DEF m, fit
<1>8. Newest(m) \in Seq(Nat) /\ Ends(Newest(m), q) /\ Len(Newest(m)) = m
  <2>1. Len(q) - m \in 0 .. Len(q) /\ Len(Newest(m)) = Len(q) - (Len(q) - m)
    BY <1>1, <1>2, <1>7
  <2> QED
    BY <1>2, <1>7, <2>1 DEF Ends
<1>9. Ends(q, q)
  BY <1>1 DEF Ends
<1>10. m # 0 => Newest(m) # <<>>
  BY <1>8
<1> HIDE DEF Newest
<1> QED
  BY <1>6, <1>7, <1>8, <1>9, <1>10

(* What an end part keeps of its sequence.                                 *)
LEMMA EndsKeep ==
    ASSUME NEW q \in Seq(Nat), NEW t \in Seq(Nat), Ends(t, q)
    PROVE  /\ Range(t) \subseteq Range(q)
           /\ \A D : Once(q, D) => Once(t, D)
           /\ Ascending(q) => Ascending(t)
           /\ t # <<>> => q # <<>> /\ Last(t) = Last(q)
           /\ \A r \in Seq(Nat) : /\ Before(q, r) => Before(t, r)
                                  /\ Before(r, q) => Before(r, t)
<1>1. PICK d \in 0 .. Len(q) : /\ Len(t) = Len(q) - d
                               /\ \A i \in 1 .. Len(t) : t[i] = q[i + d]
  BY DEF Ends
<1>2. /\ Len(q) \in Nat /\ Len(t) \in Nat /\ d \in Nat
      /\ \A i \in 1 .. Len(t) : i + d \in 1 .. Len(q)
      /\ \A i, j \in 1 .. Len(t) : i # j => i + d # j + d
      /\ \A i, j \in 1 .. Len(t) : i < j => i + d < j + d
  BY <1>1
<1>3. Range(t) \subseteq Range(q)
  <2> SUFFICES ASSUME NEW x \in Range(t) PROVE x \in Range(q)
    OBVIOUS
  <2>1. PICK i \in 1 .. Len(t) : x = t[i]
    BY ByIndex
  <2>2. i + d \in 1 .. Len(q) /\ x = q[i + d]
    BY <1>1, <1>2, <2>1
  <2> QED
    BY <2>2, ByIndex
<1>4. ASSUME NEW D, Once(q, D) PROVE Once(t, D)
  <2> SUFFICES ASSUME NEW i \in 1 .. Len(t), NEW j \in 1 .. Len(t), i # j, t[i] = t[j]
               PROVE  t[i] \in D
    BY DEF Once
  <2> QED
    BY <1>1, <1>2, <1>4 DEF Once
<1>5. Ascending(q) => Ascending(t)
  <2>1. Ascending(q) => \A i, j \in 1 .. Len(t) : i < j => t[i] <= t[j]
    <3> SUFFICES ASSUME Ascending(q), NEW i \in 1 .. Len(t), NEW j \in 1 .. Len(t), i < j
                 PROVE  t[i] <= t[j]
      OBVIOUS
    <3>1. q[i + d] <= q[j + d]
      BY <1>2, ByIndex
    <3> QED
      BY <1>1, <3>1
  <2> QED
    BY <2>1, ByIndex
<1>6. t # <<>> => q # <<>> /\ Last(t) = Last(q)
  <2> SUFFICES ASSUME t # <<>> PROVE q # <<>> /\ Last(t) = Last(q)
    OBVIOUS
  <2>1. Len(t) # 0 /\ Len(t) + d = Len(q)
    BY <1>1, <1>2, ByIndex
  <2>2. t[Len(t)] = q[Len(q)] /\ Len(q) # 0
    BY <1>1, <1>2, <2>1
  <2> QED
    BY <2>2, ByIndex DEF Last
<1>7. \A r \in Seq(Nat) : /\ Before(q, r) => Before(t, r)
                          /\ Before(r, q) => Before(r, t)
  BY <1>1, <1>2 DEF Before
<1> QED
  BY <1>3, <1>4, <1>5, <1>6, <1>7

(* What two sequences, one after the other, keep.                          *)
LEMMA Joined ==
    ASSUME NEW q \in Seq(Nat), NEW r \in Seq(Nat)
    PROVE  /\ q \o r \in Seq(Nat)
           /\ Range(q \o r) = Range(q) \cup Range(r)
           /\ \A D : Once(q, D) /\ Once(r, D) /\ Range(q) \cap Range(r) \subseteq D
                        => Once(q \o r, D)
           /\ Ascending(q) /\ Ascending(r) /\ Before(q, r) => Ascending(q \o r)
           /\ r # <<>> => q \o r # <<>> /\ Last(q \o r) = Last(r)
           /\ r = <<>> => q \o r = q
           /\ \A t \in Seq(Nat) : /\ Before(q, t) /\ Before(r, t) => Before(q \o r, t)
                                  /\ Before(t, q) /\ Before(t, r) => Before(t, q \o r)
<1>1. /\ Len(q) \in Nat /\ Len(r) \in Nat /\ q \o r \in Seq(Nat)
      /\ Len(q \o r) = Len(q) + Len(r)
      /\ \A i \in 1 .. Len(q) : (q \o r)[i] = q[i]
      /\ \A i \in 1 .. Len(r) : (q \o r)[Len(q) + i] = r[i]
  OBVIOUS
<1> DEFINE c == q \o r
<1>2. /\ Len(c) = Len(q) + Len(r) /\ c \in Seq(Nat)
      /\ \A i \in 1 .. Len(c) : \/ i \in 1 .. Len(q) /\ c[i] = q[i]
                                \/ i - Len(q) \in 1 .. Len(r) /\ c[i] = r[i - Len(q)]
  <2> SUFFICES ASSUME NEW i \in 1 .. Len(c), i \notin 1 .. Len(q)
               PROVE  i - Len(q) \in 1 .. Len(r) /\ c[i] = r[i - Len(q)]
    BY <1>1
  <2>1. i - Len(q) \in 1 .. Len(r) /\ Len(q) + (i - Len(q)) = i
    BY <1>1
  <2> QED
    BY <1>1, <2>1
<1>3. r = <<>> => c = q
  OBVIOUS
<1>4. /\ \A i \in 1 .. Len(q) : i \in 1 .. Len(c) /\ c[i] = q[i]
      /\ \A i \in 1 .. Len(r) : Len(q) + i \in 1 .. Len(c) /\ c[Len(q) + i] = r[i]
  BY <1>1
<1> HIDE DEF c
<1>5. Range(c) = Range(q) \cup Range(r)
  <2>0. \A x : /\ x \in Range(q) <=> \E i \in 1 .. Len(q) : x = q[i]
               /\ x \in Range(r) <=> \E i \in 1 .. Len(r) : x = r[i]
               /\ x \in Range(c) <=> \E i \in 1 .. Len(c) : x = c[i]
    <3>1. c \in Seq(Nat)
      BY <1>2
    <3> QED
      BY <3>1, ByIndex
  <2>1. ASSUME NEW x \in Range(c) PROVE x \in Range(q) \cup Range(r)
    <3>1. PICK i \in 1 .. Len(c) : x = c[i]
      BY <2>0
    <3> QED
      BY <1>2, <2>0, <3>1
  <2>2. ASSUME NEW x \in Range(q) \cup Range(r) PROVE x \in Range(c)
    BY <1>4, <2>0
  <2> QED
    BY <2>1, <2>2
<1>6. ASSUME NEW D, Once(q, D), Once(r, D), Range(q) \cap Range(r) \subseteq D
      PROVE  Once(c, D)
  <2>1. \A i \in 1 .. Len(q), j \in 1 .. Len(r) : q[i] = r[j] => q[i] \in D
    BY <1>6, ByIndex
  <2> SUFFICES ASSUME NEW i \in 1 .. Len(c), NEW j \in 1 .. Len(c), i # j, c[i] = c[j]
               PROVE  c[i] \in D
    BY DEF Once
  <2>2. i \in Nat /\ j \in Nat /\ Len(q) \in Nat
    BY <1>1, <1>2
  <2>3. i - Len(q) # j - Len(q)
    BY <2>2
  <2> QED
    BY <1>2, <1>6, <2>1, <2>3 DEF Once
<1>7. Ascending(q) /\ Ascending(r) /\ Before(q, r) => Ascending(c)
  <2> SUFFICES ASSUME Ascending(q), Ascending(r), Before(q, r),
                      NEW i \in 1 .. Len(c), NEW j \in 1 .. Len(c), i < j
               PROVE  c[i] <= c[j]
    BY <1>2, ByIndex
  <2>1. CASE j \in 1 .. Len(q)
    <3>1. i \in 1 .. Len(q)
      BY <1>1, <1>2, <2>1
    <3>2. \A k, l \in 1 .. Len(q) : k < l => q[k] <= q[l]
      BY ByIndex
    <3>3. q[i] <= q[j]
      BY <2>1, <3>1, <3>2
    <3> QED
      BY <1>4, <2>1, <3>1, <3>3
  <2>2. CASE i \notin 1 .. Len(q)
    <3>1. j \notin 1 .. Len(q) /\ i - Len(q) < j - Len(q)
      BY <1>1, <1>2, <2>2
    <3>2. i - Len(q) \in 1 .. Len(r) /\ c[i] = r[i - Len(q)]
      BY <1>2, <2>2
    <3>3. j - Len(q) \in 1 .. Len(r) /\ c[j] = r[j - Len(q)]
      BY <1>2, <3>1
    <3>4. \A k, l \in 1 .. Len(r) : k < l => r[k] <= r[l]
      BY ByIndex
    <3>5. r[i - Len(q)] <= r[j - Len(q)]
      BY <3>1, <3>2, <3>3, <3>4
    <3> QED
      BY <3>2, <3>3, <3>5
  <2>3. CASE i \in 1 .. Len(q) /\ j \notin 1 .. Len(q)
    <3>1. c[i] = q[i] /\ j - Len(q) \in 1 .. Len(r) /\ c[j] = r[j - Len(q)]
      BY <1>2, <1>4, <2>3
    <3> QED
      BY <2>3, <3>1 DEF Before
  <2> QED
    BY <2>1, <2>2, <2>3
<1>8. r # <<>> => c # <<>> /\ Last(c) = Last(r)
  <2> SUFFICES ASSUME r # <<>> PROVE c # <<>> /\ Last(c) = Last(r)
    OBVIOUS
  <2>1. Len(r) \in 1 .. Len(r)
    BY <1>1
  <2>2. c[Len(q) + Len(r)] = r[Len(r)] /\ Len(c) = Len(q) + Len(r) /\ Len(c) # 0
    BY <1>1, <1>2, <1>4, <2>1
  <2> QED
    BY <2>2 DEF Last
<1>9. \A t \in Seq(Nat) : /\ Before(q, t) /\ Before(r, t) => Before(c, t)
                          /\ Before(t, q) /\ Before(t, r) => Before(t, c)
  BY <1>2 DEF Before
<1> QED
  BY <1>1, <1>2, <1>3, <1>5, <1>6, <1>7, <1>8, <1>9 DEF c
-----------------------------------------------------------------------------
(* A report, under way or not.                                             *)
Post == [at : {"none", "sent", "written"}, batch : [Streams -> Seq(Nat)]]

(* A report is under way.                                                  *)
Under(p) == posts[p].at # "none"

(* The types, with what a report carries.                                  *)
CollectorType ==
    /\ page \in {"open", "left"} /\ up \in BOOLEAN /\ overlapped \in BOOLEAN
    /\ made \in Nat /\ made <= MaxEntries
    /\ store \in [Streams -> Seq(Nat)]
    /\ log \in [Streams -> Seq(Nat)]
    /\ posts \in [Posts -> Post]
    /\ newest \in [Streams -> Nat]
    /\ entered \in [Streams -> SUBSET Nat]
    /\ lost \in [Streams -> SUBSET Nat]
    /\ doubted \in SUBSET Nat

(* Nothing is anywhere that was not recorded, and no buffer or batch is    *)
(* longer than a buffer may be.                                            *)
Recorded == 1 .. made

SizesFit ==
    /\ \A s \in Streams :
          /\ Range(store[s]) \subseteq Recorded /\ Len(store[s]) <= BufferSize
          /\ Range(log[s]) \subseteq Recorded
          /\ newest[s] <= made
          /\ entered[s] \subseteq Recorded /\ lost[s] \subseteq Recorded
          /\ \A p \in Posts : /\ Range(posts[p].batch[s]) \subseteq Recorded
                              /\ Len(posts[p].batch[s]) <= BufferSize
    /\ doubted \subseteq Recorded

(* What is under way carries something, and nothing else does.             *)
PostFits ==
    \A p \in Posts : ~Under(p) <=> posts[p].batch = Nothing

(* A report that was handled is in the files as far as it was not given up.*)
HandledIsKept ==
    \A p \in Posts, s \in Streams :
        posts[p].at = "written" => Range(posts[p].batch[s]) \subseteq Range(log[s]) \cup lost[s]

(* The buffer and the reports share no entry, and what is in the file and  *)
(* still to be sent or handled was doubted.                                *)
BufferApart ==
    \A s \in Streams : /\ Once(store[s], {})
                       /\ Range(store[s]) \cap Range(log[s]) \subseteq doubted

BatchApart(p, s) ==
    /\ Once(posts[p].batch[s], {})
    /\ Range(posts[p].batch[s]) \cap Range(store[s]) = {}
    /\ posts[p].at = "sent" => Range(posts[p].batch[s]) \cap Range(log[s]) \subseteq doubted

Disjoint(p, q, s) == Range(posts[p].batch[s]) \cap Range(posts[q].batch[s]) = {}

Apart ==
    /\ BufferApart
    /\ \A p \in Posts, s \in Streams : BatchApart(p, s)
    /\ \A p, q \in Posts, s \in Streams : p # q => Disjoint(p, q, s)

(* Without an overlap the entries go from the buffer through the one       *)
(* report to the file in the order of recording.                           *)
InLine ==
    ~overlapped =>
        /\ \A p, q \in Posts : Under(p) /\ Under(q) => p = q
        /\ \A s \in Streams :
              /\ Ascending(store[s])
              /\ \A p \in Posts : Ascending(posts[p].batch[s]) /\ Before(posts[p].batch[s], store[s])
              /\ doubted = {} =>
                    /\ Ascending(log[s]) /\ Before(log[s], store[s])
                    /\ \A p \in Posts : posts[p].at = "sent" => Before(log[s], posts[p].batch[s])

(* The inductive invariant.                                                *)
CollectorInv ==
    /\ CollectorType /\ SizesFit /\ PostFits /\ NothingVanishes /\ HandledIsKept
    /\ Apart /\ WrittenOnce /\ InLine /\ NewestIsKept
-----------------------------------------------------------------------------
(* The numbers that recordings get: one more for each.                     *)
LEMMA NextNumbers ==
    ASSUME NEW n \in Nat, NEW m \in Nat
    PROVE  LET r == [i \in 1 .. n |-> m + i]
           IN  /\ r \in Seq(Nat) /\ Len(r) = n /\ Range(r) = (m + 1) .. (m + n)
               /\ Once(r, {}) /\ Ascending(r)
               /\ \A q \in Seq(Nat) : Range(q) \subseteq 1 .. m => Before(q, r)
<1> DEFINE r == [i \in 1 .. n |-> m + i]
<1>1. r \in Seq(Nat) /\ Len(r) = n /\ \A i \in 1 .. n : r[i] = m + i
  OBVIOUS
<1> HIDE DEF r
<1>2. Range(r) = (m + 1) .. (m + n)
  <2>1. \A x : x \in Range(r) <=> \E i \in 1 .. Len(r) : x = r[i]
    BY <1>1, ByIndex
  <2>2. ASSUME NEW x \in Range(r) PROVE x \in (m + 1) .. (m + n)
    <3>1. PICK i \in 1 .. n : x = r[i]
      BY <1>1, <2>1
    <3>2. x = m + i
      BY <1>1, <3>1
    <3> QED
      BY <3>2
  <2>3. ASSUME NEW x \in (m + 1) .. (m + n) PROVE x \in Range(r)
    <3>1. x - m \in 1 .. n /\ x = m + (x - m)
      OBVIOUS
    <3>2. x - m \in 1 .. Len(r) /\ x = r[x - m]
      BY <1>1, <3>1
    <3> QED
      BY <2>1, <3>2
  <2> QED
    BY <2>2, <2>3
<1>3. Once(r, {})
  BY <1>1 DEF Once
<1>4. Ascending(r)
  BY <1>1, ByIndex
<1>5. ASSUME NEW q \in Seq(Nat), Range(q) \subseteq 1 .. m PROVE Before(q, r)
  <2>1. \A i \in 1 .. Len(q) : q[i] \in 1 .. m
    BY <1>5, ByIndex
  <2> QED
    BY <1>1, <2>1 DEF Before
<1> QED
  BY <1>1, <1>2, <1>3, <1>4, <1>5 DEF r

(* What the invariant says of one stream.                             *)
LEMMA StreamTypes ==
    ASSUME CollectorInv, NEW s \in Streams
    PROVE  /\ store[s] \in Seq(Nat) /\ log[s] \in Seq(Nat) /\ made \in Nat
           /\ entered[s] \in SUBSET Nat /\ lost[s] \in SUBSET Nat /\ newest[s] \in Nat
           /\ \A p \in Posts : /\ posts[p].batch[s] \in Seq(Nat)
                               /\ posts[p].batch \in [Streams -> Seq(Nat)]
                               /\ posts[p].at \in {"none", "sent", "written"}
           /\ Once(log[s], doubted)
<1>1. store[s] \in Seq(Nat) /\ log[s] \in Seq(Nat) /\ made \in Nat
      /\ entered[s] \in SUBSET Nat /\ lost[s] \in SUBSET Nat /\ newest[s] \in Nat
  BY DEF CollectorInv, CollectorType
<1>2. \A p \in Posts : /\ posts[p].batch[s] \in Seq(Nat)
                       /\ posts[p].batch \in [Streams -> Seq(Nat)]
                       /\ posts[p].at \in {"none", "sent", "written"}
  BY DEF CollectorInv, CollectorType, Post
<1>3. Once(log[s], doubted)
  BY <1>1, ByIndex DEF CollectorInv, WrittenOnce
<1> QED
  BY <1>1, <1>2, <1>3

(* The empty sequence has every property of order.                         *)
LEMMA EmptyHas ==
    /\ <<>> \in Seq(Nat) /\ Len(<<>>) = 0 /\ Range(<<>>) = {} /\ \A D : Once(<<>>, D)
    /\ Ascending(<<>>)
    /\ \A q \in Seq(Nat) : Before(<<>>, q) /\ Before(q, <<>>)
    /\ Nothing \in [Streams -> Seq(Nat)] /\ \A s \in Streams : Nothing[s] = <<>>
<1>1. <<>> \in Seq(Nat) /\ Len(<<>>) = 0 /\ Range(<<>>) = {}
  BY DEF Range
<1>2. Ascending(<<>>) /\ \A D : Once(<<>>, D)
  BY DEF Ascending, Once
<1>3. \A q \in Seq(Nat) : Before(<<>>, q) /\ Before(q, <<>>)
  BY DEF Before
<1>4. Nothing \in [Streams -> Seq(Nat)] /\ \A s \in Streams : Nothing[s] = <<>>
  BY DEF Nothing
<1> QED
  BY <1>1, <1>2, <1>3, <1>4

(* The page opens with empty buffers and files.                            *)
LEMMA InvInit == Init => CollectorInv
<1> SUFFICES ASSUME Init PROVE CollectorInv
  OBVIOUS
<1> USE EmptyHas DEF Init
<1>1. /\ \A s \in Streams : /\ store[s] = <<>> /\ log[s] = <<>> /\ newest[s] = 0
                            /\ entered[s] = {} /\ lost[s] = {}
      /\ \A p \in Posts : posts[p].at = "none" /\ posts[p].batch = Nothing
  BY DEF NoPost
<1>2. CollectorType
  <2>1. made \in Nat /\ made <= MaxEntries
    BY CollectorAssumption
  <2>2. posts \in [Posts -> Post]
    BY DEF NoPost, Post
  <2>3. /\ newest \in [Streams -> Nat] /\ entered \in [Streams -> SUBSET Nat]
        /\ lost \in [Streams -> SUBSET Nat] /\ doubted \in SUBSET Nat
    OBVIOUS
  <2> QED
    BY <2>1, <2>2, <2>3 DEF CollectorType
<1>3. SizesFit
  BY <1>1, CollectorAssumption DEF SizesFit
<1>4. PostFits
  BY <1>1 DEF PostFits, Under
<1>5. NothingVanishes /\ HandledIsKept
  BY <1>1 DEF NothingVanishes, HandledIsKept
<1>6. Apart /\ WrittenOnce
  BY <1>1 DEF Apart, BufferApart, BatchApart, Disjoint, WrittenOnce
<1>7. InLine
  BY <1>1 DEF InLine, Under
<1>8. NewestIsKept
  BY <1>1 DEF NewestIsKept
<1> QED
  BY <1>2, <1>3, <1>4, <1>5, <1>6, <1>7, <1>8 DEF CollectorInv

(* Recording puts new numbers behind what a buffer holds, and prunes it.   *)
LEMMA RecordInStream ==
    ASSUME CollectorInv, NEW streams \in SUBSET Streams, NEW n \in Nat, Record(streams, n),
           NEW s \in Streams
    PROVE  /\ store'[s] \in Seq(Nat) /\ Len(store'[s]) <= BufferSize
           /\ Range(store'[s]) \subseteq Range(store[s]) \cup (made + 1) .. (made + n)
           /\ Once(store'[s], {})
           /\ Ascending(store[s]) => Ascending(store'[s])
           /\ \A q \in Seq(Nat) : Range(q) \subseteq Recorded /\ Before(q, store[s])
                                      => Before(q, store'[s])
           /\ Range(store[s]) \subseteq Range(store'[s]) \cup lost'[s]
           /\ lost[s] \subseteq lost'[s] /\ lost'[s] \subseteq 1 .. (made + n)
           /\ entered'[s] \subseteq entered[s] \cup Range(store'[s]) \cup lost'[s]
           /\ entered'[s] \subseteq 1 .. (made + n)
<1> DEFINE r == [i \in 1 .. n |-> made + i]
           g == IF s \in streams THEN store[s] \o r ELSE store[s]
<1>0. /\ store[s] \in Seq(Nat) /\ made \in Nat
      /\ Range(store[s]) \subseteq Recorded /\ Once(store[s], {})
      /\ entered[s] \subseteq Recorded /\ lost[s] \subseteq Recorded
  BY StreamTypes DEF CollectorInv, SizesFit, Apart, BufferApart
<1>1. /\ r \in Seq(Nat) /\ Range(r) = (made + 1) .. (made + n)
      /\ Once(r, {}) /\ Ascending(r)
      /\ \A q \in Seq(Nat) : Range(q) \subseteq 1 .. made => Before(q, r)
  BY <1>0, NextNumbers
<1>2. /\ store'[s] = pruneBuffer(g)
      /\ lost'[s] = lost[s] \cup (Range(g) \ Range(store'[s]))
      /\ entered'[s] = IF s \in streams THEN entered[s] \cup (made + 1) .. (made + n)
                                        ELSE entered[s]
  BY DEF Record, GivesUp
<1> HIDE DEF r
<1>3. /\ g \in Seq(Nat) /\ Range(store[s]) \subseteq Range(g)
      /\ Range(g) \subseteq Range(store[s]) \cup (made + 1) .. (made + n)
      /\ s \in streams => (made + 1) .. (made + n) \subseteq Range(g)
      /\ Once(g, {})
      /\ Ascending(store[s]) => Ascending(g)
      /\ \A q \in Seq(Nat) : Range(q) \subseteq Recorded /\ Before(q, store[s]) => Before(q, g)
  <2>1. CASE s \notin streams
    BY <1>0, <2>1
  <2>2. CASE s \in streams
    <3>1. Range(store[s]) \cap Range(r) \subseteq {}
      BY <1>0, <1>1 DEF Recorded
    <3>2. Before(store[s], r)
      BY <1>0, <1>1 DEF Recorded
    <3>3. /\ store[s] \o r \in Seq(Nat)
          /\ Range(store[s] \o r) = Range(store[s]) \cup Range(r)
          /\ Once(store[s] \o r, {})
          /\ Ascending(store[s]) => Ascending(store[s] \o r)
          /\ \A q \in Seq(Nat) : Before(q, store[s]) /\ Before(q, r) => Before(q, store[s] \o r)
      BY <1>0, <1>1, <3>1, <3>2, Joined
    <3>4. g = store[s] \o r
      BY <2>2
    <3> QED
      BY <1>0, <1>1, <2>2, <3>3, <3>4 DEF Recorded
  <2> QED
    BY <2>1, <2>2
<1> HIDE DEF g
<1>4. /\ pruneBuffer(g) \in Seq(Nat) /\ Len(pruneBuffer(g)) <= BufferSize
      /\ Ends(pruneBuffer(g), g)
  BY <1>3, PruneKeepsTheEnd
<1>5. /\ Range(store'[s]) \subseteq Range(g) /\ Once(store'[s], {})
      /\ Ascending(g) => Ascending(store'[s])
      /\ \A q \in Seq(Nat) : Before(q, g) => Before(q, store'[s])
  BY <1>2, <1>3, <1>4, EndsKeep
<1>6. /\ (made + 1) .. (made + n) \subseteq 1 .. (made + n)
      /\ Recorded \subseteq 1 .. (made + n)
  BY <1>0 DEF Recorded
<1> QED
  BY <1>0, <1>2, <1>3, <1>4, <1>5, <1>6

(* Recording, by a console call, an error, an event of the interface or a  *)
(* request, keeps the invariant.                                           *)
LEMMA RecordStep ==
    ASSUME CollectorInv, NEW streams \in SUBSET Streams, NEW n \in Nat, Record(streams, n)
    PROVE  CollectorInv'
<1> DEFINE New == (made + 1) .. (made + n)
<1>1. /\ made' = made + n /\ made \in Nat /\ made' \in Nat /\ made' <= MaxEntries
      /\ page' = page /\ up' = up /\ posts' = posts /\ log' = log /\ newest' = newest
      /\ doubted' = doubted /\ overlapped' = overlapped
  BY DEF Record, CollectorInv, CollectorType, files
<1>2. Recorded \subseteq Recorded' /\ New \subseteq Recorded' /\ Recorded \cap New = {}
  BY <1>1 DEF Recorded
<1>3. /\ store' = [s \in Streams |-> store'[s]]
      /\ entered' = [s \in Streams |-> entered'[s]]
      /\ lost' = [s \in Streams |-> lost'[s]]
  BY DEF Record, GivesUp
<1>4. \A s \in Streams :
           /\ store'[s] \in Seq(Nat) /\ Len(store'[s]) <= BufferSize
           /\ Range(store'[s]) \subseteq Range(store[s]) \cup New
           /\ Once(store'[s], {})
           /\ Ascending(store[s]) => Ascending(store'[s])
           /\ \A q \in Seq(Nat) : Range(q) \subseteq Recorded /\ Before(q, store[s])
                                      => Before(q, store'[s])
           /\ Range(store[s]) \subseteq Range(store'[s]) \cup lost'[s]
           /\ lost[s] \subseteq lost'[s] /\ lost'[s] \subseteq Recorded'
           /\ entered'[s] \subseteq entered[s] \cup Range(store'[s]) \cup lost'[s]
           /\ entered'[s] \subseteq Recorded'
  BY <1>1, RecordInStream DEF Recorded
<1> HIDE DEF New
<1>5. CollectorType'
  <2>1. \A s \in Streams : entered'[s] \in SUBSET Nat /\ lost'[s] \in SUBSET Nat
    BY <1>1, <1>4 DEF Recorded
  <2>2. /\ store' \in [Streams -> Seq(Nat)] /\ entered' \in [Streams -> SUBSET Nat]
        /\ lost' \in [Streams -> SUBSET Nat]
    BY <1>3, <1>4, <2>1
  <2> QED
    BY <1>1, <2>2 DEF CollectorInv, CollectorType
<1>6. SizesFit'
  <2>1. \A s \in Streams : newest[s] <= made'
    BY <1>1, StreamTypes DEF CollectorInv, SizesFit
  <2> QED
    BY <1>1, <1>2, <1>4, <2>1 DEF CollectorInv, SizesFit
<1>7. PostFits'
  BY <1>1 DEF CollectorInv, PostFits, Under
<1>8. NothingVanishes' /\ HandledIsKept'
  <2>1. NothingVanishes'
    BY <1>1, <1>4 DEF CollectorInv, NothingVanishes
  <2>2. HandledIsKept'
    BY <1>1, <1>4 DEF CollectorInv, HandledIsKept
  <2> QED
    BY <2>1, <2>2
<1>9. Apart'
  <2>1. \A s \in Streams : /\ Range(log[s]) \cap New = {}
                           /\ \A p \in Posts : Range(posts[p].batch[s]) \cap New = {}
    BY <1>2 DEF CollectorInv, SizesFit
  <2> QED
    BY <1>1, <1>4, <2>1 DEF CollectorInv, Apart, BufferApart, BatchApart, Disjoint
<1>10. WrittenOnce' /\ NewestIsKept'
  BY <1>1 DEF CollectorInv, WrittenOnce, NewestIsKept
<1>11. InLine'
  <2>1. \A s \in Streams : /\ Range(log[s]) \subseteq Recorded
                           /\ log[s] \in Seq(Nat)
                           /\ \A p \in Posts : /\ Range(posts[p].batch[s]) \subseteq Recorded
                                               /\ posts[p].batch[s] \in Seq(Nat)
    BY StreamTypes DEF CollectorInv, SizesFit
  <2> QED
    BY <1>1, <1>4, <2>1 DEF CollectorInv, InLine, Under
<1> QED
  BY <1>5, <1>6, <1>7, <1>8, <1>9, <1>10, <1>11 DEF CollectorInv

(* A report takes over what the buffers hold.                              *)
LEMMA ReportStep ==
    ASSUME CollectorInv, NEW p \in Posts, reportLogs(p)
    PROVE  CollectorInv'
<1> USE EmptyHas
<1>1. /\ page' = page /\ made' = made /\ up' = up /\ log' = log /\ newest' = newest
      /\ entered' = entered /\ lost' = lost /\ doubted' = doubted
      /\ store' = Nothing /\ store # Nothing /\ ~Under(p)
  BY DEF reportLogs, files, Under
<1>2. /\ posts' = [posts EXCEPT ![p] = [at |-> "sent", batch |-> store]]
      /\ store \in [Streams -> Seq(Nat)] /\ posts \in [Posts -> Post]
      /\ posts[p].batch = Nothing
  BY <1>1 DEF reportLogs, CollectorInv, CollectorType, PostFits
<1>3. /\ posts' \in [Posts -> Post]
      /\ posts'[p].at = "sent" /\ posts'[p].batch = store
      /\ \A q \in Posts \ {p} : posts'[q] = posts[q]
  BY <1>2 DEF Post
<1>4. /\ overlapped' \in BOOLEAN /\ (overlapped => overlapped')
      /\ ~overlapped' => \A q \in Posts : ~Under(q)
  BY DEF reportLogs, CollectorInv, CollectorType, Under
<1>5. \A s \in Streams : store'[s] = <<>> /\ posts[p].batch[s] = <<>> /\ store[s] \in Seq(Nat)
  BY <1>1, <1>2
<1>6. CollectorType'
  BY <1>1, <1>3, <1>4 DEF CollectorInv, CollectorType
<1>7. SizesFit'
  <2>1. Recorded' = Recorded
    BY <1>1 DEF Recorded
  <2>2. ASSUME NEW s \in Streams, NEW q \in Posts
        PROVE  Range(posts'[q].batch[s]) \subseteq Recorded /\ Len(posts'[q].batch[s]) <= BufferSize
    <3>1. CASE q = p
      BY <1>3, <3>1 DEF CollectorInv, SizesFit
    <3>2. CASE q # p
      BY <1>3, <3>2 DEF CollectorInv, SizesFit
    <3> QED
      BY <3>1, <3>2
  <2>3. \A s \in Streams : Range(store'[s]) \subseteq Recorded /\ Len(store'[s]) <= BufferSize
    BY <1>5, CollectorAssumption
  <2> QED
    BY <1>1, <2>1, <2>2, <2>3 DEF CollectorInv, SizesFit
<1>8. PostFits'
  BY <1>1, <1>3 DEF CollectorInv, PostFits, Under
<1>9. NothingVanishes' /\ HandledIsKept'
  <2>1. \A s \in Streams : \A q \in Posts :
            Range(posts[q].batch[s]) \subseteq Range(posts'[q].batch[s])
    BY <1>3, <1>5
  <2>2. \A s \in Streams : Range(store[s]) \subseteq Range(posts'[p].batch[s])
    BY <1>3
  <2>3. NothingVanishes'
    <3> SUFFICES ASSUME NEW s \in Streams, NEW e \in entered[s]
                 PROVE  \/ e \in Range(log[s]) \cup lost[s]
                        \/ \E q \in Posts : e \in Range(posts'[q].batch[s])
      BY <1>1 DEF NothingVanishes
    <3>1. \/ e \in Range(store[s]) \/ e \in Range(log[s]) \cup lost[s]
          \/ \E q \in Posts : e \in Range(posts[q].batch[s])
      BY DEF CollectorInv, NothingVanishes
    <3> QED
      BY <2>1, <2>2, <3>1
  <2>4. HandledIsKept'
    BY <1>1, <1>3 DEF CollectorInv, HandledIsKept
  <2> QED
    BY <2>3, <2>4
<1>10. Apart'
  <2> USE DEF CollectorInv, Apart, BufferApart, BatchApart, Disjoint
  <2>1. BufferApart'
    BY <1>1, <1>5
  <2>2. ASSUME NEW q \in Posts, NEW s \in Streams PROVE BatchApart(q, s)'
    <3>1. CASE q = p
      BY <1>1, <1>3, <1>5, <3>1
    <3>2. CASE q # p
      BY <1>1, <1>3, <1>5, <3>2
    <3> QED
      BY <3>1, <3>2
  <2>3. ASSUME NEW q \in Posts, NEW o \in Posts, NEW s \in Streams, q # o
        PROVE  Disjoint(q, o, s)'
    <3>1. CASE q = p
      BY <1>3, <2>3, <3>1
    <3>2. CASE o = p
      BY <1>3, <2>3, <3>2
    <3>3. CASE q # p /\ o # p
      BY <1>3, <2>3, <3>3
    <3> QED
      BY <3>1, <3>2, <3>3
  <2> QED
    BY <2>1, <2>2, <2>3
<1>11. WrittenOnce' /\ NewestIsKept'
  BY <1>1 DEF CollectorInv, WrittenOnce, NewestIsKept
<1>12. InLine'
  <2> SUFFICES ASSUME ~overlapped' PROVE InLine'
    BY DEF InLine
  <2>1. ~overlapped /\ \A q \in Posts : ~Under(q) /\ posts[q].batch = Nothing
    BY <1>4 DEF CollectorInv, PostFits
  <2>2. \A q \in Posts \ {p} : ~Under(q)' /\ posts'[q].batch = Nothing
    BY <1>3, <2>1 DEF Under
  <2>3. \A s \in Streams : log[s] \in Seq(Nat)
    BY StreamTypes
  <2>4. \A s \in Streams : \A q \in Posts :
            /\ Ascending(posts'[q].batch[s]) /\ Before(posts'[q].batch[s], store'[s])
            /\ doubted = {} => Before(log[s], posts'[q].batch[s])
    BY <1>3, <1>5, <2>1, <2>2, <2>3 DEF CollectorInv, InLine
  <2> QED
    BY <1>1, <1>5, <2>1, <2>2, <2>3, <2>4 DEF CollectorInv, InLine
<1> QED
  BY <1>6, <1>7, <1>8, <1>9, <1>10, <1>11, <1>12 DEF CollectorInv

(* The report is settled: what it carried is in the files or given up.     *)
LEMMA AnswerStep ==
    ASSUME CollectorInv, NEW p \in Posts, AnswerArrives(p)
    PROVE  CollectorInv'
<1> USE EmptyHas
<1>1. /\ page' = page /\ made' = made /\ up' = up /\ log' = log /\ newest' = newest
      /\ entered' = entered /\ lost' = lost /\ doubted' = doubted /\ overlapped' = overlapped
      /\ store' = store /\ posts[p].at = "written"
  BY DEF AnswerArrives, files, past
<1>2. posts' = [posts EXCEPT ![p] = NoPost] /\ posts \in [Posts -> Post]
  BY DEF AnswerArrives, CollectorInv, CollectorType
<1>3. /\ posts' \in [Posts -> Post]
      /\ posts'[p].at = "none" /\ posts'[p].batch = Nothing
      /\ \A q \in Posts \ {p} : posts'[q] = posts[q]
  BY <1>2 DEF Post, NoPost
<1>4. \A s \in Streams : /\ posts'[p].batch[s] = <<>> /\ store[s] \in Seq(Nat)
                         /\ log[s] \in Seq(Nat)
  BY <1>3, StreamTypes
<1>6. CollectorType'
  BY <1>1, <1>3 DEF CollectorInv, CollectorType
<1>7. SizesFit'
  <2>1. Recorded' = Recorded
    BY <1>1 DEF Recorded
  <2>2. ASSUME NEW s \in Streams, NEW q \in Posts
        PROVE  Range(posts'[q].batch[s]) \subseteq Recorded /\ Len(posts'[q].batch[s]) <= BufferSize
    <3>1. CASE q = p
      BY <1>4, <3>1, CollectorAssumption
    <3>2. CASE q # p
      BY <1>3, <3>2 DEF CollectorInv, SizesFit
    <3> QED
      BY <3>1, <3>2
  <2> QED
    BY <1>1, <2>1, <2>2 DEF CollectorInv, SizesFit
<1>8. PostFits'
  BY <1>1, <1>3 DEF CollectorInv, PostFits, Under
<1>9. NothingVanishes' /\ HandledIsKept'
  <2>1. \A s \in Streams : Range(posts[p].batch[s]) \subseteq Range(log[s]) \cup lost[s]
    BY <1>1 DEF CollectorInv, HandledIsKept
  <2>2. NothingVanishes'
    BY <1>1, <1>3, <2>1 DEF CollectorInv, NothingVanishes
  <2>3. HandledIsKept'
    BY <1>1, <1>3 DEF CollectorInv, HandledIsKept
  <2> QED
    BY <2>2, <2>3
<1>10. Apart'
  <2> USE DEF CollectorInv, Apart, BufferApart, BatchApart, Disjoint
  <2>1. BufferApart'
    BY <1>1
  <2>2. ASSUME NEW q \in Posts, NEW s \in Streams PROVE BatchApart(q, s)'
    <3>1. CASE q = p
      BY <1>1, <1>3, <1>4, <3>1
    <3>2. CASE q # p
      BY <1>1, <1>3, <3>2
    <3> QED
      BY <3>1, <3>2
  <2>3. ASSUME NEW q \in Posts, NEW o \in Posts, NEW s \in Streams, q # o
        PROVE  Disjoint(q, o, s)'
    <3>1. \A r \in Posts : Range(posts'[r].batch[s]) \subseteq Range(posts[r].batch[s])
      BY <1>3, <1>4
    <3> QED
      BY <2>3, <3>1
  <2> QED
    BY <2>1, <2>2, <2>3
<1>11. WrittenOnce' /\ NewestIsKept'
  BY <1>1 DEF CollectorInv, WrittenOnce, NewestIsKept
<1>12. InLine'
  BY <1>1, <1>3, <1>4 DEF CollectorInv, InLine, Under
<1> QED
  BY <1>6, <1>7, <1>8, <1>9, <1>10, <1>11, <1>12 DEF CollectorInv

(* A batch that holds nothing is empty in every stream.                    *)
LEMMA HeldNothing ==
    ASSUME NEW b \in [Streams -> Seq(Nat)], Held(b) = {}
    PROVE  b = Nothing
<1> SUFFICES ASSUME NEW s \in Streams PROVE b[s] = <<>>
  BY DEF Nothing
<1> DEFINE q == b[s]
<1>1. Range(q) = {} /\ q \in Seq(Nat)
  BY DEF Held
<1> HIDE DEF q
<1>2. Len(q) \in Nat /\ \A x : x \in Range(q) <=> \E i \in 1 .. Len(q) : x = q[i]
  BY <1>1, ByIndex
<1>3. \A i \in 1 .. Len(q) : q[i] \in Range(q)
  BY <1>2
<1>4. Len(q) = 0
  BY <1>1, <1>2, <1>3
<1> QED
  BY <1>1, <1>4, ByIndex DEF q

(* A rejected report goes back in front of what came since.                *)
LEMMA RejectInStream ==
    ASSUME CollectorInv, NEW p \in Posts, ReportRejected(p), NEW s \in Streams
    PROVE  LET b == posts[p].batch[s]
           IN  /\ store'[s] \in Seq(Nat) /\ Len(store'[s]) <= BufferSize
               /\ Range(store'[s]) \subseteq Range(store[s]) \cup Range(b)
               /\ Once(store'[s], {})
               /\ Ascending(b) /\ Ascending(store[s]) /\ Before(b, store[s])
                      => Ascending(store'[s])
               /\ \A q \in Seq(Nat) : Before(q, b) /\ Before(q, store[s]) => Before(q, store'[s])
               /\ Range(store[s]) \cup Range(b) \subseteq Range(store'[s]) \cup lost'[s]
               /\ lost[s] \subseteq lost'[s] /\ lost'[s] \subseteq Recorded
<1> DEFINE b == posts[p].batch[s]
           g == b \o store[s]
<1>1. /\ store[s] \in Seq(Nat) /\ b \in Seq(Nat)
      /\ Range(store[s]) \subseteq Recorded /\ Range(b) \subseteq Recorded
      /\ lost[s] \subseteq Recorded
      /\ Once(store[s], {}) /\ Once(b, {}) /\ Range(b) \cap Range(store[s]) = {}
  BY StreamTypes DEF CollectorInv, SizesFit, Apart, BufferApart, BatchApart
<1>2. /\ store'[s] = pruneBuffer(g)
      /\ lost'[s] = lost[s] \cup (Range(g) \ Range(store'[s]))
  BY DEF ReportRejected, GivesUp, PutBack
<1> HIDE DEF b
<1>3. /\ g \in Seq(Nat) /\ Range(g) = Range(b) \cup Range(store[s]) /\ Once(g, {})
      /\ Ascending(b) /\ Ascending(store[s]) /\ Before(b, store[s]) => Ascending(g)
      /\ \A q \in Seq(Nat) : Before(q, b) /\ Before(q, store[s]) => Before(q, g)
  BY <1>1, Joined
<1> HIDE DEF g
<1>4. /\ pruneBuffer(g) \in Seq(Nat) /\ Len(pruneBuffer(g)) <= BufferSize
      /\ Ends(pruneBuffer(g), g)
  BY <1>3, PruneKeepsTheEnd
<1>5. /\ Range(store'[s]) \subseteq Range(g) /\ Once(store'[s], {})
      /\ Ascending(g) => Ascending(store'[s])
      /\ \A q \in Seq(Nat) : Before(q, g) => Before(q, store'[s])
  BY <1>2, <1>3, <1>4, EndsKeep
<1> QED
  BY <1>1, <1>2, <1>3, <1>4, <1>5 DEF b

(* A rejected report keeps the invariant: what was written of it is        *)
(* doubted.                                                                *)
LEMMA RejectStep ==
    ASSUME CollectorInv, NEW p \in Posts, ReportRejected(p)
    PROVE  CollectorInv'
<1> USE EmptyHas
<1> DEFINE B(s) == posts[p].batch[s]
<1>1. /\ page' = page /\ made' = made /\ up' = up /\ log' = log /\ newest' = newest
      /\ entered' = entered /\ overlapped' = overlapped /\ Under(p)
  BY DEF ReportRejected, files, Under
<1>2. posts' = [posts EXCEPT ![p] = NoPost] /\ posts \in [Posts -> Post]
  BY DEF ReportRejected, CollectorInv, CollectorType
<1>3. /\ posts' \in [Posts -> Post]
      /\ posts'[p].at = "none" /\ posts'[p].batch = Nothing
      /\ \A q \in Posts \ {p} : posts'[q] = posts[q]
  BY <1>2 DEF Post, NoPost
<1>4. \A s \in Streams :
           /\ store'[s] \in Seq(Nat) /\ Len(store'[s]) <= BufferSize
           /\ Range(store'[s]) \subseteq Range(store[s]) \cup Range(B(s))
           /\ Once(store'[s], {})
           /\ Ascending(B(s)) /\ Ascending(store[s]) /\ Before(B(s), store[s])
                  => Ascending(store'[s])
           /\ \A q \in Seq(Nat) : Before(q, B(s)) /\ Before(q, store[s]) => Before(q, store'[s])
           /\ Range(store[s]) \cup Range(B(s)) \subseteq Range(store'[s]) \cup lost'[s]
           /\ lost[s] \subseteq lost'[s] /\ lost'[s] \subseteq Recorded
  BY RejectInStream
<1>5. \A s \in Streams : /\ posts'[p].batch[s] = <<>> /\ log[s] \in Seq(Nat)
                         /\ Range(B(s)) \subseteq Recorded
                         /\ \A q \in Posts : posts[q].batch[s] \in Seq(Nat)
  BY <1>3, StreamTypes DEF CollectorInv, SizesFit
<1>6. /\ store' = [s \in Streams |-> store'[s]] /\ lost' = [s \in Streams |-> lost'[s]]
      /\ doubted' = IF posts[p].at = "written" THEN doubted \cup Held(posts[p].batch) ELSE doubted
  BY DEF ReportRejected, GivesUp
<1>7. /\ doubted \subseteq doubted' /\ doubted' \subseteq Recorded
      /\ posts[p].at = "written" => \A s \in Streams : Range(B(s)) \subseteq doubted'
      /\ posts[p].at \in {"sent", "written"}
  <2>1. \A s \in Streams : Range(B(s)) \subseteq Held(posts[p].batch)
    BY DEF Held
  <2>2. Held(posts[p].batch) \subseteq Recorded
    BY <1>5 DEF Held
  <2>3. posts[p].at \in {"sent", "written"}
    BY <1>1, <1>2 DEF Under, Post
  <2>4. doubted \subseteq Recorded
    BY DEF CollectorInv, SizesFit
  <2> QED
    BY <1>6, <2>1, <2>2, <2>3, <2>4
<1>8. made \in Nat /\ Recorded \subseteq Nat /\ Recorded' = Recorded
  BY <1>1 DEF CollectorInv, CollectorType, Recorded
<1>9. CollectorType'
  <2>1. store' \in [Streams -> Seq(Nat)] /\ lost' \in [Streams -> SUBSET Nat]
    BY <1>4, <1>6, <1>8
  <2> QED
    BY <1>1, <1>3, <1>7, <1>8, <2>1 DEF CollectorInv, CollectorType
<1>10. SizesFit'
  <2>1. \A s \in Streams : Range(store[s]) \subseteq Recorded
    BY DEF CollectorInv, SizesFit
  <2>2. ASSUME NEW s \in Streams, NEW q \in Posts
        PROVE  Range(posts'[q].batch[s]) \subseteq Recorded /\ Len(posts'[q].batch[s]) <= BufferSize
    <3>1. CASE q = p
      BY <1>5, <3>1, CollectorAssumption
    <3>2. CASE q # p
      BY <1>3, <3>2 DEF CollectorInv, SizesFit
    <3> QED
      BY <3>1, <3>2
  <2>3. ASSUME NEW s \in Streams
        PROVE  /\ Range(store'[s]) \subseteq Recorded /\ Len(store'[s]) <= BufferSize
               /\ lost'[s] \subseteq Recorded
    BY <1>4, <1>5, <2>1
  <2> QED
    BY <1>1, <1>7, <1>8, <2>2, <2>3 DEF CollectorInv, SizesFit
<1>11. PostFits'
  BY <1>1, <1>3 DEF CollectorInv, PostFits, Under
<1>12. NothingVanishes' /\ HandledIsKept'
  <2>1. NothingVanishes'
    BY <1>1, <1>3, <1>4 DEF CollectorInv, NothingVanishes
  <2>2. HandledIsKept'
    BY <1>1, <1>3, <1>4 DEF CollectorInv, HandledIsKept
  <2> QED
    BY <2>1, <2>2
<1>13. Apart'
  <2> USE DEF CollectorInv, Apart, BufferApart, BatchApart, Disjoint
  <2>1. BufferApart'
    <3> SUFFICES ASSUME NEW s \in Streams
                 PROVE  Range(store'[s]) \cap Range(log[s]) \subseteq doubted'
      BY <1>1, <1>4
    <3>1. Range(B(s)) \cap Range(log[s]) \subseteq doubted'
      BY <1>7
    <3> QED
      BY <1>4, <1>7, <3>1
  <2>2. ASSUME NEW q \in Posts, NEW s \in Streams PROVE BatchApart(q, s)'
    <3>1. CASE q = p
      BY <1>3, <1>5, <3>1
    <3>2. CASE q # p
      <4>1. posts'[q] = posts[q] /\ Range(posts[q].batch[s]) \cap Range(B(s)) = {}
        BY <1>3, <3>2
      <4>2. Range(posts[q].batch[s]) \cap Range(store'[s]) = {}
        BY <1>4, <4>1
      <4> QED
        BY <1>1, <1>7, <4>1, <4>2
    <3> QED
      BY <3>1, <3>2
  <2>3. ASSUME NEW q \in Posts, NEW o \in Posts, NEW s \in Streams, q # o
        PROVE  Disjoint(q, o, s)'
    <3>1. \A r \in Posts : Range(posts'[r].batch[s]) \subseteq Range(posts[r].batch[s])
      BY <1>3, <1>5
    <3> QED
      BY <2>3, <3>1
  <2> QED
    BY <2>1, <2>2, <2>3
<1>14. WrittenOnce' /\ NewestIsKept'
  BY <1>1, <1>7 DEF CollectorInv, WrittenOnce, NewestIsKept
<1>15. InLine'
  <2> SUFFICES ASSUME ~overlapped PROVE InLine'
    BY <1>1 DEF InLine
  <2>1. \A q \in Posts : ~Under(q)' /\ posts'[q].batch = Nothing
    BY <1>1, <1>3 DEF CollectorInv, InLine, PostFits, Under
  <2>2. doubted' = {} => posts[p].at = "sent" /\ doubted = {}
    <3>1. posts[p].batch # Nothing /\ posts[p].batch \in [Streams -> Seq(Nat)]
      BY <1>1, <1>2 DEF CollectorInv, PostFits, Post
    <3>2. Held(posts[p].batch) # {}
      BY <3>1, HeldNothing
    <3> QED
      BY <1>6, <1>7, <3>2
  <2>3. \A s \in Streams : Ascending(store'[s])
    BY <1>4 DEF CollectorInv, InLine
  <2>4. doubted' = {} => \A s \in Streams : Ascending(log[s]) /\ Before(log[s], store'[s])
    BY <1>4, <1>5, <2>2 DEF CollectorInv, InLine
  <2> QED
    BY <1>1, <1>4, <1>5, <2>1, <2>3, <2>4 DEF InLine, Under
<1> QED
  BY <1>9, <1>10, <1>11, <1>12, <1>13, <1>14, <1>15 DEF CollectorInv

(* The plugin appends a batch to a file, or not, and trims the file.       *)
LEMMA HandleInStream ==
    ASSUME CollectorInv, NEW p \in Posts, handlePayload(p), NEW s \in Streams
    PROVE  LET b == posts[p].batch[s]
           IN  /\ log'[s] \in Seq(Nat) /\ newest'[s] \in Nat
               /\ Range(log'[s]) \subseteq Range(log[s]) \cup Range(b)
               /\ Range(log[s]) \cup Range(b) \subseteq Range(log'[s]) \cup lost'[s]
               /\ lost[s] \subseteq lost'[s] /\ lost'[s] \subseteq Recorded
               /\ newest'[s] <= made
               /\ Once(log'[s], doubted)
               /\ Ascending(log[s]) /\ Ascending(b) /\ Before(log[s], b) => Ascending(log'[s])
               /\ \A q \in Seq(Nat) : Before(log[s], q) /\ Before(b, q) => Before(log'[s], q)
               /\ newest'[s] # 0 => \/ newest'[s] \in Huge
                                    \/ log'[s] # <<>> /\ Last(log'[s]) = newest'[s]
<1> DEFINE b == posts[p].batch[s]
           c == log[s] \o b
<1>1. PICK t : /\ log'[s] = trimLogFile(t)
               /\ lost'[s] = lost[s] \cup (Range(c) \ Range(log'[s]))
               /\ \/ t = c /\ newest'[s] = IF b # <<>> THEN Last(b) ELSE newest[s]
                  \/ t = log[s] /\ newest'[s] = newest[s]
  <2>1. PICK n \in 0 .. Len(Order) :
            LET written == {Order[i] : i \in 1 .. n}
                tried == [z \in Streams |-> IF z \in written THEN log[z] \o posts[p].batch[z]
                                                             ELSE log[z]]
            IN  /\ log' = [z \in Streams |-> trimLogFile(tried[z])]
                /\ newest' = [z \in Streams |-> IF z \in written /\ posts[p].batch[z] # <<>>
                                                THEN Last(posts[p].batch[z]) ELSE newest[z]]
                /\ GivesUp([z \in Streams |-> log[z] \o posts[p].batch[z]], log')
    BY DEF handlePayload
  <2> DEFINE written == {Order[i] : i \in 1 .. n}
  <2>2. /\ log'[s] = trimLogFile(IF s \in written THEN c ELSE log[s])
        /\ newest'[s] = IF s \in written /\ b # <<>> THEN Last(b) ELSE newest[s]
        /\ lost'[s] = lost[s] \cup (Range(c) \ Range(log'[s]))
    BY <2>1 DEF GivesUp
  <2> HIDE DEF written, c, b
  <2> QED
    BY <2>2
<1>2. /\ log[s] \in Seq(Nat) /\ b \in Seq(Nat) /\ made \in Nat /\ newest[s] \in Nat
      /\ Range(log[s]) \subseteq Recorded /\ Range(b) \subseteq Recorded
      /\ lost[s] \subseteq Recorded /\ newest[s] <= made
      /\ Once(log[s], doubted) /\ Once(b, {})
      /\ Range(log[s]) \cap Range(b) \subseteq doubted
      /\ newest[s] # 0 => \/ newest[s] \in Huge
                          \/ log[s] # <<>> /\ Last(log[s]) = newest[s]
  <2>1. posts[p].at = "sent"
    BY DEF handlePayload
  <2>2. /\ Range(log[s]) \subseteq Recorded /\ Range(b) \subseteq Recorded
        /\ lost[s] \subseteq Recorded /\ newest[s] <= made
    BY DEF CollectorInv, SizesFit
  <2>3. Once(b, {}) /\ Range(log[s]) \cap Range(b) \subseteq doubted
    BY <2>1 DEF CollectorInv, Apart, BatchApart
  <2>4. newest[s] # 0 => \/ newest[s] \in Huge
                         \/ log[s] # <<>> /\ Last(log[s]) = newest[s]
    BY DEF CollectorInv, NewestIsKept
  <2> QED
    BY <2>2, <2>3, <2>4, StreamTypes
<1> HIDE DEF b
<1>3. Once(b, doubted)
  BY <1>2 DEF Once
<1>4. /\ c \in Seq(Nat) /\ Range(c) = Range(log[s]) \cup Range(b) /\ Once(c, doubted)
      /\ Ascending(log[s]) /\ Ascending(b) /\ Before(log[s], b) => Ascending(c)
      /\ \A q \in Seq(Nat) : Before(log[s], q) /\ Before(b, q) => Before(c, q)
      /\ b # <<>> => c # <<>> /\ Last(c) = Last(b)
      /\ b = <<>> => c = log[s]
  BY <1>2, <1>3, Joined
<1> HIDE DEF c
<1>5. /\ t \in Seq(Nat) /\ Range(t) \subseteq Range(c) /\ Once(t, doubted)
      /\ Ascending(log[s]) /\ Ascending(b) /\ Before(log[s], b) => Ascending(t)
      /\ \A q \in Seq(Nat) : Before(log[s], q) /\ Before(b, q) => Before(t, q)
      /\ newest'[s] # 0 => newest'[s] \in Huge \/ (t # <<>> /\ Last(t) = newest'[s])
  BY <1>1, <1>2, <1>4
<1>6. newest'[s] \in Nat /\ newest'[s] <= made
  <2>1. b # <<>> => Last(b) \in Range(b)
    <3> SUFFICES ASSUME b # <<>> PROVE Last(b) \in Range(b)
      OBVIOUS
    <3>1. Len(b) \in 1 .. Len(b)
      BY <1>2, ByIndex
    <3> QED
      BY <1>2, <3>1, ByIndex DEF Last
  <2>2. \A x \in Recorded : x \in Nat /\ x <= made
    BY <1>2 DEF Recorded
  <2> QED
    BY <1>1, <1>2, <2>1, <2>2
<1>7. /\ log'[s] \in Seq(Nat) /\ Ends(log'[s], t)
      /\ t # <<>> /\ Last(t) \notin Huge => log'[s] # <<>>
  BY <1>1, <1>5, TrimKeepsTheEnd
<1>8. /\ Range(log'[s]) \subseteq Range(t)
      /\ \A D : Once(t, D) => Once(log'[s], D)
      /\ Ascending(t) => Ascending(log'[s])
      /\ log'[s] # <<>> => Last(log'[s]) = Last(t)
      /\ \A q \in Seq(Nat) : Before(t, q) => Before(log'[s], q)
  BY <1>5, <1>7, EndsKeep
<1>9. newest'[s] # 0 => newest'[s] \in Huge \/ (log'[s] # <<>> /\ Last(log'[s]) = newest'[s])
  BY <1>5, <1>7, <1>8
<1>10. lost'[s] \subseteq Recorded /\ lost[s] \subseteq lost'[s]
       /\ Range(log[s]) \cup Range(b) \subseteq Range(log'[s]) \cup lost'[s]
  BY <1>1, <1>2, <1>4
<1> QED
  BY <1>4, <1>5, <1>6, <1>7, <1>8, <1>9, <1>10 DEF b

(* The plugin's handling of a report keeps the invariant, also when a      *)
(* write fails.                                                            *)
LEMMA HandleStep ==
    ASSUME CollectorInv, NEW p \in Posts, handlePayload(p)
    PROVE  CollectorInv'
<1> DEFINE B(s) == posts[p].batch[s]
<1>1. /\ page' = page /\ made' = made /\ up' = up /\ store' = store /\ entered' = entered
      /\ doubted' = doubted /\ overlapped' = overlapped /\ posts[p].at = "sent"
  BY DEF handlePayload
<1>2. /\ log' = [s \in Streams |-> log'[s]] /\ newest' = [s \in Streams |-> newest'[s]]
      /\ lost' = [s \in Streams |-> lost'[s]]
  BY DEF handlePayload, GivesUp
<1>3. posts' = [posts EXCEPT ![p].at = "written"] /\ posts \in [Posts -> Post]
  BY DEF handlePayload, CollectorInv, CollectorType
<1>4. /\ posts' \in [Posts -> Post]
      /\ posts'[p].at = "written" /\ posts'[p].batch = posts[p].batch
      /\ \A q \in Posts \ {p} : posts'[q] = posts[q]
  BY <1>3 DEF Post
<1>5. \A q \in Posts : posts'[q].batch = posts[q].batch /\ (Under(q)' <=> Under(q))
  BY <1>1, <1>4 DEF Under
<1>6. \A s \in Streams :
           /\ log'[s] \in Seq(Nat) /\ newest'[s] \in Nat
           /\ Range(log'[s]) \subseteq Range(log[s]) \cup Range(B(s))
           /\ Range(log[s]) \cup Range(B(s)) \subseteq Range(log'[s]) \cup lost'[s]
           /\ lost[s] \subseteq lost'[s] /\ lost'[s] \subseteq Recorded
           /\ newest'[s] <= made
           /\ Once(log'[s], doubted)
           /\ Ascending(log[s]) /\ Ascending(B(s)) /\ Before(log[s], B(s)) => Ascending(log'[s])
           /\ \A q \in Seq(Nat) : Before(log[s], q) /\ Before(B(s), q) => Before(log'[s], q)
           /\ newest'[s] # 0 => \/ newest'[s] \in Huge
                                \/ log'[s] # <<>> /\ Last(log'[s]) = newest'[s]
  BY HandleInStream
<1>7. made \in Nat /\ Recorded \subseteq Nat /\ Recorded' = Recorded
  BY <1>1 DEF CollectorInv, CollectorType, Recorded
<1>8. CollectorType'
  <2>1. /\ log' \in [Streams -> Seq(Nat)] /\ newest' \in [Streams -> Nat]
        /\ lost' \in [Streams -> SUBSET Nat]
    BY <1>2, <1>6, <1>7
  <2> QED
    BY <1>1, <1>4, <2>1 DEF CollectorInv, CollectorType
<1>9. SizesFit'
  <2>1. \A s \in Streams : Range(log'[s]) \subseteq Recorded
    BY <1>6 DEF CollectorInv, SizesFit
  <2> QED
    BY <1>1, <1>5, <1>6, <1>7, <2>1 DEF CollectorInv, SizesFit
<1>10. PostFits'
  BY <1>5 DEF CollectorInv, PostFits
<1>11. NothingVanishes'
  BY <1>1, <1>5, <1>6 DEF CollectorInv, NothingVanishes
<1>12. HandledIsKept'
  <2> SUFFICES ASSUME NEW q \in Posts, NEW s \in Streams, posts'[q].at = "written"
               PROVE  Range(posts'[q].batch[s]) \subseteq Range(log'[s]) \cup lost'[s]
    BY DEF HandledIsKept
  <2>1. CASE q = p
    BY <1>5, <1>6, <2>1
  <2>2. CASE q # p
    <3>1. Range(posts[q].batch[s]) \subseteq Range(log[s]) \cup lost[s]
      BY <1>4, <2>2 DEF CollectorInv, HandledIsKept
    <3> QED
      BY <1>5, <1>6, <3>1
  <2> QED
    BY <2>1, <2>2
<1>13. Apart'
  <2> USE DEF CollectorInv, Apart, BufferApart, BatchApart, Disjoint
  <2>1. BufferApart'
    <3> SUFFICES ASSUME NEW s \in Streams
                 PROVE  Range(store[s]) \cap Range(log'[s]) \subseteq doubted
      BY <1>1
    <3>1. Range(B(s)) \cap Range(store[s]) = {}
      OBVIOUS
    <3> QED
      BY <1>6, <3>1
  <2>2. ASSUME NEW q \in Posts, NEW s \in Streams PROVE BatchApart(q, s)'
    <3>1. CASE q = p
      BY <1>1, <1>4, <3>1
    <3>2. CASE q # p
      <4>1. posts'[q] = posts[q] /\ Range(posts[q].batch[s]) \cap Range(B(s)) = {}
        BY <1>4, <3>2
      <4> QED
        BY <1>1, <1>6, <4>1
    <3> QED
      BY <3>1, <3>2
  <2>3. ASSUME NEW q \in Posts, NEW o \in Posts, NEW s \in Streams, q # o
        PROVE  Disjoint(q, o, s)'
    BY <1>5, <2>3
  <2> QED
    BY <2>1, <2>2, <2>3
<1>14. WrittenOnce'
  BY <1>1, <1>6, ByIndex DEF WrittenOnce
<1>15. NewestIsKept'
  BY <1>6 DEF NewestIsKept
<1>16. InLine'
  <2> SUFFICES ASSUME ~overlapped PROVE InLine'
    BY <1>1 DEF InLine
  <2>1. \A q \in Posts : posts'[q].at # "sent"
    BY <1>1, <1>4 DEF CollectorInv, InLine, Under
  <2>2. \A s \in Streams : store[s] \in Seq(Nat)
    BY StreamTypes
  <2>3. doubted = {} => \A s \in Streams : Ascending(log'[s]) /\ Before(log'[s], store[s])
    BY <1>1, <1>6, <2>2 DEF CollectorInv, InLine
  <2> QED
    BY <1>1, <1>5, <2>1, <2>3 DEF CollectorInv, InLine
<1> QED
  BY <1>8, <1>9, <1>10, <1>11, <1>12, <1>13, <1>14, <1>15, <1>16 DEF CollectorInv

(* The page is left: its buffers and the reports under way with it.        *)
LEMMA UnloadStep == CollectorInv /\ BeforeUnload => CollectorInv'
<1> SUFFICES ASSUME CollectorInv, BeforeUnload PROVE CollectorInv'
  OBVIOUS
<1> USE EmptyHas
<1>1. /\ page' = "left" /\ made' = made /\ up' = up /\ log' = log /\ newest' = newest
      /\ entered' = entered /\ doubted' = doubted /\ overlapped' = overlapped
      /\ store' = Nothing /\ posts' = [p \in Posts |-> NoPost]
  BY DEF BeforeUnload, files
<1>2. \A p \in Posts : posts'[p].at = "none" /\ posts'[p].batch = Nothing
  BY <1>1 DEF NoPost
<1>3. \A s \in Streams : /\ store'[s] = <<>> /\ \A p \in Posts : posts'[p].batch[s] = <<>>
                         /\ log[s] \in Seq(Nat)
  BY <1>1, <1>2, StreamTypes
<1>4. lost' = [s \in Streams |-> lost[s] \cup Range(store[s])
                                        \cup UNION {Range(posts[p].batch[s]) : p \in Posts}]
  BY DEF BeforeUnload
<1>5. made \in Nat /\ Recorded \subseteq Nat /\ Recorded' = Recorded
  BY <1>1 DEF CollectorInv, CollectorType, Recorded
<1>6. \A s \in Streams : lost'[s] \subseteq Recorded
  <2> SUFFICES ASSUME NEW s \in Streams PROVE lost'[s] \subseteq Recorded
    OBVIOUS
  <2>1. /\ lost[s] \subseteq Recorded /\ Range(store[s]) \subseteq Recorded
        /\ \A p \in Posts : Range(posts[p].batch[s]) \subseteq Recorded
    BY DEF CollectorInv, SizesFit
  <2> QED
    BY <1>4, <2>1
<1>7. CollectorType'
  <2>1. posts' \in [Posts -> Post]
    BY <1>1 DEF Post, NoPost
  <2>2. lost' \in [Streams -> SUBSET Nat]
    BY <1>4, <1>5, <1>6
  <2> QED
    BY <1>1, <2>1, <2>2 DEF CollectorInv, CollectorType
<1>8. SizesFit'
  BY <1>1, <1>3, <1>5, <1>6, CollectorAssumption DEF CollectorInv, SizesFit
<1>9. PostFits'
  BY <1>2 DEF PostFits, Under
<1>10. NothingVanishes' /\ HandledIsKept'
  <2>1. NothingVanishes'
    BY <1>1, <1>3, <1>4 DEF CollectorInv, NothingVanishes
  <2> QED
    BY <1>2, <2>1 DEF HandledIsKept
<1>11. Apart'
  BY <1>2, <1>3 DEF Apart, BufferApart, BatchApart, Disjoint
<1>12. WrittenOnce' /\ NewestIsKept'
  BY <1>1 DEF CollectorInv, WrittenOnce, NewestIsKept
<1>13. InLine'
  BY <1>1, <1>2, <1>3 DEF CollectorInv, InLine, Under
<1> QED
  BY <1>7, <1>8, <1>9, <1>10, <1>11, <1>12, <1>13 DEF CollectorInv

(* So does the server's coming and going.                                  *)
LEMMA ServerStep ==
    ASSUME CollectorInv, ServerToggles \/ UNCHANGED vars
    PROVE  CollectorInv'
<1>1. /\ page' = page /\ made' = made /\ log' = log /\ newest' = newest /\ posts' = posts
      /\ entered' = entered /\ doubted' = doubted /\ overlapped' = overlapped
      /\ store' = store /\ lost' = lost /\ up' \in BOOLEAN
  BY DEF ServerToggles, vars, browser, files, past, CollectorInv, CollectorType
<1>2. CollectorType' /\ SizesFit' /\ PostFits' /\ NothingVanishes' /\ HandledIsKept'
  BY <1>1 DEF CollectorInv, CollectorType, SizesFit, PostFits, NothingVanishes, HandledIsKept,
              Under, Recorded
<1>3. Apart' /\ WrittenOnce' /\ NewestIsKept' /\ InLine'
  BY <1>1 DEF CollectorInv, Apart, BufferApart, BatchApart, Disjoint, WrittenOnce, NewestIsKept,
              InLine, Under
<1> QED
  BY <1>2, <1>3 DEF CollectorInv

(* Every step keeps the invariant.                                         *)
LEMMA InvNext == CollectorInv /\ [Next]_vars => CollectorInv'
<1> SUFFICES ASSUME CollectorInv, [Next]_vars PROVE CollectorInv'
  OBVIOUS
<1>1. {"trace"} \in SUBSET Streams /\ {"ui"} \in SUBSET Streams /\ Streams \in SUBSET Streams
      /\ 1 \in Nat /\ 1 .. MaxSends \subseteq Nat
  BY CollectorAssumption DEF Streams
<1>2. CASE ConsoleCalled \/ ErrorRaised \/ logUiEvent
  BY <1>1, <1>2, RecordStep DEF ConsoleCalled, ErrorRaised, logUiEvent
<1>3. CASE FetchRecorded
  BY <1>1, <1>3, RecordStep DEF FetchRecorded
<1>4. CASE XhrRecorded
  <2>1. PICK streams \in {{"trace"}, Streams}, sends \in 1 .. MaxSends : Record(streams, sends)
    BY <1>4 DEF XhrRecorded
  <2> QED
    BY <1>1, <2>1, RecordStep
<1>5. ASSUME NEW p \in Posts,
             reportLogs(p) \/ handlePayload(p) \/ AnswerArrives(p) \/ ReportRejected(p)
      PROVE  CollectorInv'
  BY <1>5, ReportStep, HandleStep, AnswerStep, RejectStep
<1>6. CASE BeforeUnload
  BY <1>6, UnloadStep
<1>7. CASE ServerToggles \/ UNCHANGED vars
  BY <1>7, ServerStep
<1> QED
  BY <1>2, <1>3, <1>4, <1>5, <1>6, <1>7 DEF Next

(* The invariant implies the two properties.                               *)
LEMMA InvSays == CollectorInv => EntriesAccountedFor /\ OldestGoFirst
<1> SUFFICES ASSUME CollectorInv PROVE EntriesAccountedFor /\ OldestGoFirst
  OBVIOUS
<1>1. TypeOK
  <2>1. made \in 0 .. MaxEntries
    BY CollectorAssumption DEF CollectorInv, CollectorType
  <2>2. store \in [Streams -> SeqOf(Entries, BufferSize)]
    <3>1. store \in [Streams -> Seq(Nat)]
      BY DEF CollectorInv, CollectorType
    <3>2. ASSUME NEW s \in Streams PROVE store[s] \in SeqOf(Entries, BufferSize)
      <4>1. /\ store[s] \in Seq(Nat) /\ Range(store[s]) \subseteq 1 .. made
            /\ Len(store[s]) <= BufferSize
        BY <3>1 DEF CollectorInv, SizesFit, Recorded
      <4>2. Len(store[s]) \in 0 .. BufferSize
        BY <4>1, CollectorAssumption
      <4>3. \A i \in 1 .. Len(store[s]) : store[s][i] \in Entries
        <5>1. \A i \in 1 .. Len(store[s]) : store[s][i] \in 1 .. made
          BY <4>1, ByIndex
        <5>2. 1 .. made \subseteq Entries
          BY <2>1, CollectorAssumption DEF Entries
        <5> QED
          BY <5>1, <5>2
      <4>4. store[s] \in [1 .. Len(store[s]) -> Entries]
        BY <4>1, <4>3
      <4> QED
        BY <4>2, <4>4 DEF SeqOf
    <3> QED
      BY <3>1, <3>2
  <2>3. \A p \in Posts : /\ posts[p].at \in {"none", "sent", "written"}
                         /\ \A s \in Streams : Len(posts[p].batch[s]) <= BufferSize
    BY DEF CollectorInv, CollectorType, SizesFit, Post
  <2>4. newest \in [Streams -> 0 .. made]
    BY DEF CollectorInv, CollectorType, SizesFit
  <2>5. entered \in [Streams -> SUBSET (1 .. made)] /\ lost \in [Streams -> SUBSET (1 .. made)]
    BY DEF CollectorInv, CollectorType, SizesFit, Recorded
  <2>6. /\ page \in {"open", "left"} /\ up \in BOOLEAN /\ overlapped \in BOOLEAN
        /\ doubted \subseteq 1 .. made
    BY DEF CollectorInv, CollectorType, SizesFit, Recorded
  <2> QED
    BY <2>1, <2>2, <2>3, <2>4, <2>5, <2>6 DEF TypeOK
<1>2. InOrder
  BY DEF CollectorInv, InLine, InOrder
<1> QED
  BY <1>1, <1>2 DEF CollectorInv, EntriesAccountedFor, OldestGoFirst

(* Whatever the page records, sends and loses, buffers, reports and files  *)
(* hold each entry in one place, or the entry was doubted or given up      *)
(* (debug-collector.js, vite.config.ts).                                   *)
THEOREM CollectorInvariant == Spec => []CollectorInv
<1>1. Init => CollectorInv
  BY InvInit
<1>2. CollectorInv /\ [Next]_vars => CollectorInv'
  BY InvNext
<1> QED
  BY <1>1, <1>2, PTL DEF Spec

(* However reports overlap, fail or lose their answers, the buffers stay   *)
(* within bufferSize, every entry a stream was given is in its buffer, a   *)
(* report, its file or was given up, and an entry is in a file twice only  *)
(* if its report was written and its answer lost.                          *)
THEOREM EntriesAlwaysAccountedFor == Spec => []EntriesAccountedFor
<1>1. CollectorInv => EntriesAccountedFor
  BY InvSays
<1> QED
  BY <1>1, CollectorInvariant, PTL

(* Pruning and trimming drop the oldest entries: without overlapping       *)
(* reports buffers and files are in the order of recording, and the entry  *)
(* written last stays a file's last line unless it alone exceeds the       *)
(* target size.                                                            *)
THEOREM OldestAlwaysGoFirst == Spec => []OldestGoFirst
<1>1. CollectorInv => OldestGoFirst
  BY InvSays
<1> QED
  BY <1>1, CollectorInvariant, PTL
==============================================================================
