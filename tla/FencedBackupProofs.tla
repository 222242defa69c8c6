--------------------------- MODULE FencedBackupProofs ---------------------------
(***************************************************************************)
(* Proofs about FencedBackup, for any number of workers and replicas.      *)
(*                                                                         *)
(* TokenInv is the fencing argument: tokens never exceed the lease's, and  *)
(* the lease's own token belongs to its holder, so a run that another      *)
(* replica displaced has a smaller token and fails the comparison.         *)
(* FileInv is the argument about names: the staging directory of a run at  *)
(* work exists, exclusively created, and covers its archive.  AgeInv adds  *)
(* the times that retention compares.                                      *)
(***************************************************************************)
EXTENDS FencedBackup, TLAPS

AtWork == Places \ {"idle", "staging"}

RunTokens ==
    /\ \A w \in Worker : pc[w] = "idle" <=> token[w] = 0
    /\ \A w \in Worker : token[w] = lease.token /\ token[w] # 0 => lease.holder = ReplicaOf[w]

ArchiveTokens ==
    \A a \in published :
        /\ 0 < a.name.token /\ a.name.token <= lease.token
        /\ a.name.token = lease.token => lease.holder = ReplicaOf[a.by]

LostTokens == \A w \in lost : pc[w] # "idle" /\ token[w] < lease.token

TokenInv ==
    /\ TypeOK
    /\ RunTokens
    /\ ArchiveTokens
    /\ LostTokens
    /\ TokenNamesOneReplica
    /\ LostLeaseNeverPublishes
-----------------------------------------------------------------------------
(* What acquire_maintenance_lease returns: never a smaller token, and the  *)
(* same one only to the replica that has the lease.                        *)
LEMMA NewTokenFact ==
    ASSUME lease \in Lease, NEW r \in Replica
    PROVE  /\ NewToken(r) \in Nat
           /\ NewToken(r) > 0
           /\ NewToken(r) >= lease.token
           /\ lease.token = NewToken(r) => lease.holder = r
  BY DEF Lease, NewToken

LEMMA InitTokenInv == Init => TokenInv
  BY BackupAssumption
  DEF Init, TokenInv, TypeOK, RunTokens, ArchiveTokens, LostTokens, TokenNamesOneReplica,
      LostLeaseNeverPublishes, Places, Working, Lease, Name, Partial, Archive

LEMMA NextTokenInv == TokenInv /\ [Next]_vars => TokenInv'
<1> SUFFICES ASSUME TokenInv, [Next]_vars PROVE TokenInv'
  OBVIOUS
<1> USE BackupAssumption
<1>t. TypeOK
  BY DEF TokenInv
<1>leave. ASSUME NEW w \in Worker, Leave(w), UNCHANGED <<now, lease>>,
                 staged' \subseteq Name, partial' \subseteq Partial,
                 published' \subseteq published, crashes' \in Nat
          PROVE  TokenInv'
  <2>1. TypeOK'
    BY <1>leave, <1>t DEF TypeOK, Leave, Goto, Places, Lease
  <2>2. RunTokens' /\ LostTokens'
    BY <1>leave, <1>t DEF TokenInv, TypeOK, RunTokens, LostTokens, Leave, Goto
  <2>3. ArchiveTokens'
    BY <1>leave, <1>t DEF TokenInv, TypeOK, ArchiveTokens
  <2>4. TokenNamesOneReplica'
    BY <1>leave, <1>t DEF TokenInv, TypeOK, TokenNamesOneReplica, ArchiveTokens, Leave, Archive, Name, Lease
  <2>5. LostLeaseNeverPublishes'
    BY <1>leave, <1>t DEF TokenInv, TypeOK, LostLeaseNeverPublishes, Leave, Goto
  <2> QED
    BY <2>1, <2>2, <2>3, <2>4, <2>5 DEF TokenInv
<1>go. ASSUME NEW w \in Worker, NEW where \in Places \ {"idle"}, pc[w] # "idle", Goto(w, where),
              where \in {"renaming", "pruning"} => w \notin lost,
              UNCHANGED <<now, lease, token, crashes, lost>>,
              stamp' \in [Worker -> 0 .. now],
              staged' \subseteq Name, partial' \subseteq Partial, published' = published
       PROVE  TokenInv'
  <2>1. TypeOK'
    BY <1>go, <1>t DEF TypeOK, Goto
  <2>2. RunTokens' /\ LostTokens'
    BY <1>go, <1>t DEF TokenInv, TypeOK, RunTokens, LostTokens, Goto
  <2>3. ArchiveTokens' /\ TokenNamesOneReplica'
    BY <1>go DEF TokenInv, ArchiveTokens, TokenNamesOneReplica
  <2>5. LostLeaseNeverPublishes'
    BY <1>go, <1>t DEF TokenInv, TypeOK, LostLeaseNeverPublishes, Goto
  <2> QED
    BY <2>1, <2>2, <2>3, <2>5 DEF TokenInv
<1>name. \A w \in Worker : NameOf(w) \in Name
  BY <1>t DEF TypeOK, NameOf, Name, Lease
<1>1. ASSUME NEW w \in Worker, Acquire(w) PROVE TokenInv'
  <2> DEFINE n == NewToken(ReplicaOf[w])
  <2>n. n \in Nat /\ n > 0 /\ n >= lease.token /\ (lease.token = n => lease.holder = ReplicaOf[w])
    BY NewTokenFact, <1>t DEF TypeOK
  <2>d. /\ lease' = [holder |-> ReplicaOf[w], token |-> n, expires |-> now + Ttl]
        /\ token' = [token EXCEPT ![w] = n]
        /\ pc' = [pc EXCEPT ![w] = "staging"]
        /\ pc[w] = "idle"
        /\ UNCHANGED <<now, stamp, staged, partial, published, crashes>>
        /\ lost' = lost \cup {v \in Worker : pc[v] \in Working /\ ReplicaOf[v] # ReplicaOf[w]}
    BY <1>1 DEF Acquire, Goto, files
  <2> HIDE DEF n
  <2>1. TypeOK'
    BY <2>n, <2>d, <1>t DEF TypeOK, Lease, Places, Working
  <2>2. RunTokens'
    BY <2>n, <2>d, <1>t DEF TokenInv, TypeOK, RunTokens, Lease
  <2>3. ArchiveTokens'
    BY <2>n, <2>d, <1>t DEF TokenInv, TypeOK, ArchiveTokens, Lease, Archive, Name
  <2>4. LostTokens'
    <3> SUFFICES ASSUME NEW v \in lost' PROVE pc'[v] # "idle" /\ token'[v] < lease'.token
      BY DEF LostTokens
    <3>1. v \in Worker /\ v # w /\ pc[v] # "idle" /\ token[v] \in Nat /\ lease.token \in Nat
      BY <2>d, <1>t DEF TokenInv, TypeOK, LostTokens, Lease, Working
    <3>2. token[v] < lease.token \/ ReplicaOf[v] # ReplicaOf[w]
      BY <2>d DEF TokenInv, LostTokens
    <3>3. token[v] <= lease.token /\ token[v] # 0
      BY <3>1, <1>t DEF TokenInv, TypeOK, RunTokens, Lease
    <3>4. token[v] = lease.token => lease.holder = ReplicaOf[v]
      BY <3>1, <3>3 DEF TokenInv, RunTokens
    <3>5. token[v] < n
      BY <3>1, <3>2, <3>3, <3>4, <2>n
    <3> QED
      BY <3>1, <3>5, <2>d, <1>t DEF TypeOK
  <2>5. TokenNamesOneReplica'
    <3>1. \A v \in Worker : token[v] = n => ReplicaOf[v] = ReplicaOf[w]
      BY <2>n, <1>t DEF TokenInv, TypeOK, RunTokens, Lease
    <3>2. \A a \in published : a.name.token = n => ReplicaOf[a.by] = ReplicaOf[w]
      BY <2>n, <1>t DEF TokenInv, TypeOK, ArchiveTokens, Lease, Archive, Name
    <3> QED
      BY <3>1, <3>2, <2>d, <1>t DEF TokenInv, TypeOK, TokenNamesOneReplica
  <2>6. LostLeaseNeverPublishes'
    BY <2>d, <1>t DEF TokenInv, TypeOK, LostLeaseNeverPublishes, Working
  <2> QED
    BY <2>1, <2>2, <2>3, <2>4, <2>5, <2>6 DEF TokenInv
<1>ret. ASSUME NEW w \in Worker, Return(w), UNCHANGED <<now, lease, crashes>>,
               published' \subseteq published
        PROVE  TokenInv'
  BY <1>ret, <1>leave, <1>t DEF Return, TypeOK
<1>2. ASSUME NEW w \in Worker, MakeStaging(w) PROVE TokenInv'
  <2> DEFINE name == [stamp |-> now, token |-> token[w]]
  <2>1. CASE name \in staged
    BY <2>1, <1>2, <1>leave, <1>t DEF MakeStaging, TypeOK
  <2>2. CASE name \notin staged
    <3>1. /\ pc[w] = "staging"
          /\ Goto(w, "dumping")
          /\ stamp' = [stamp EXCEPT ![w] = now]
          /\ staged' = staged \cup {[stamp |-> now, token |-> token[w]]}
          /\ UNCHANGED <<token, lost, now, lease, partial, published, crashes>>
      BY <2>2, <1>2 DEF MakeStaging
    <3>2. [stamp |-> now, token |-> token[w]] \in Name
      BY <1>t DEF TypeOK, Name, Lease
    <3>3. stamp' \in [Worker -> 0 .. now]
      BY <3>1, <1>t DEF TypeOK
    <3> QED
      BY <3>1, <3>2, <3>3, <1>go, <1>t DEF TypeOK, Places, Working
  <2> QED
    BY <2>1, <2>2
<1>p. ASSUME NEW w \in Worker, NEW where \in Places \ {"idle"}, pc[w] # "idle", Proceed(w, where),
             where \in {"renaming", "pruning"} => w \notin lost,
             UNCHANGED <<now, lease, published, crashes>>
      PROVE  TokenInv'
  BY <1>p, <1>go, <1>t DEF Proceed, TypeOK
<1>3. ASSUME NEW w \in Worker, Dump(w) PROVE TokenInv'
  BY <1>3, <1>p DEF Dump, Places, Working
<1>4. ASSUME NEW w \in Worker, Recheck(w) PROVE TokenInv'
  BY <1>4, <1>p, <1>ret DEF Recheck, Places, Working
<1>5. ASSUME NEW w \in Worker, OpenArchive(w) PROVE TokenInv'
  <2>1. CASE Return(w)
    BY <2>1, <1>5, <1>ret DEF OpenArchive
  <2>2. CASE ~ Return(w)
    <3>1. /\ pc[w] = "archiving"
          /\ Goto(w, "writing")
          /\ partial' = partial \cup {[name |-> NameOf(w), whole |-> FALSE, at |-> now]}
          /\ UNCHANGED <<token, stamp, staged, lost, now, lease, published, crashes>>
      BY <2>2, <1>5 DEF OpenArchive
    <3>2. [name |-> NameOf(w), whole |-> FALSE, at |-> now] \in Partial
      BY <1>name, <1>t DEF TypeOK, Partial
    <3> QED
      BY <3>1, <3>2, <1>go, <1>t DEF TypeOK, Places, Working
  <2> QED
    BY <2>1, <2>2
<1>6. ASSUME NEW w \in Worker, WriteArchive(w) PROVE TokenInv'
  <2>1. PICK whole \in BOOLEAN :
            partial' = {p \in partial : p.name # NameOf(w)} \cup
                       {[name |-> NameOf(w), whole |-> whole, at |-> now]}
    BY <1>6 DEF WriteArchive
  <2>2. [name |-> NameOf(w), whole |-> whole, at |-> now] \in Partial
    BY <1>name, <1>t DEF TypeOK, Partial
  <2>3. partial' \subseteq Partial
    BY <2>1, <2>2, <1>t DEF TypeOK
  <2> QED
    BY <2>3, <1>6, <1>go, <1>t DEF WriteArchive, TypeOK, Places, Working
<1>7. ASSUME NEW w \in Worker, Confirm(w) PROVE TokenInv'
  <2>1. CASE Return(w)
    BY <2>1, <1>7, <1>ret DEF Confirm
  <2>2. CASE ~ Return(w)
    <3>1. IsCurrent(w) /\ Proceed(w, "renaming")
      BY <2>2, <1>7 DEF Confirm
    <3>2. w \notin lost
      BY <3>1, <1>t DEF TokenInv, TypeOK, LostTokens, IsCurrent, Lease
    <3> QED
      BY <3>1, <3>2, <1>7, <1>p DEF Confirm, Places
  <2> QED
    BY <2>1, <2>2
<1>8. ASSUME NEW w \in Worker, Rename(w) PROVE TokenInv'
  <2>1. PICK p \in partial :
          /\ p.name = NameOf(w)
          /\ partial' = partial \ {p}
          /\ published' = {a \in published : a.name # p.name} \cup
                          {[name |-> p.name, whole |-> p.whole, at |-> p.at, by |-> w]}
    BY <1>8 DEF Rename
  <2> DEFINE new == [name |-> p.name, whole |-> p.whole, at |-> p.at, by |-> w]
  <2>2. /\ pc[w] = "renaming" /\ pc' = [pc EXCEPT ![w] = "pruning"]
        /\ UNCHANGED <<now, lease, token, stamp, staged, crashes, lost>>
    BY <1>8 DEF Rename, Goto
  <2>3. new \in Archive /\ new.by = w /\ new.name.token = token[w]
    BY <2>1, <1>t DEF TypeOK, Partial, Archive, NameOf
  <2>4. published' \subseteq published \cup {new}
    BY <2>1
  <2>5. 0 < token[w] /\ token[w] <= lease.token
    BY <2>2, <1>t DEF TokenInv, RunTokens, TypeOK, Lease
  <2> HIDE DEF new
  <2>6. TypeOK'
    BY <2>1, <2>2, <2>3, <2>4, <1>t DEF TypeOK, Places
  <2>7. RunTokens' /\ LostTokens'
    BY <2>2, <1>t DEF TokenInv, TypeOK, RunTokens, LostTokens
  <2>8. ArchiveTokens'
    BY <2>2, <2>3, <2>4, <2>5 DEF TokenInv, RunTokens, ArchiveTokens
  <2>9. TokenNamesOneReplica'
    BY <2>2, <2>3, <2>4, <2>5 DEF TokenInv, TokenNamesOneReplica
  <2>10. LostLeaseNeverPublishes'
    BY <2>2, <1>t DEF TokenInv, TypeOK, LostLeaseNeverPublishes
  <2> QED
    BY <2>6, <2>7, <2>8, <2>9, <2>10 DEF TokenInv
<1>9. ASSUME NEW w \in Worker, Prune(w) PROVE TokenInv'
  BY <1>9, <1>ret DEF Prune
<1>10. ASSUME NEW w \in Worker, Abort(w) PROVE TokenInv'
  BY <1>10, <1>ret DEF Abort
<1>11. ASSUME NEW w \in Worker, Crash(w) PROVE TokenInv'
  BY <1>11, <1>leave, <1>t DEF Crash, TypeOK, files
<1>12. CASE Tick
  BY <1>12, <1>t DEF Tick, files, TokenInv, TypeOK, RunTokens, ArchiveTokens, LostTokens,
     TokenNamesOneReplica, LostLeaseNeverPublishes
<1>13. CASE UNCHANGED vars
  BY <1>13 DEF vars, files, TokenInv, TypeOK, RunTokens, ArchiveTokens, LostTokens,
     TokenNamesOneReplica, LostLeaseNeverPublishes
<1> QED
  BY <1>1, <1>2, <1>3, <1>4, <1>5, <1>6, <1>7, <1>8, <1>9, <1>10, <1>11, <1>12, <1>13 DEF Next
-----------------------------------------------------------------------------
WorksInStaging ==
    /\ \A w \in Worker : pc[w] \in AtWork => NameOf(w) \in staged
    /\ \A w \in Worker : pc[w] \notin AtWork => stamp[w] = 0

StagingCovers ==
    /\ \A n \in staged : n.stamp > 0
    /\ \A p \in partial : p.name \in staged

NotYetOpened ==
    \A w \in Worker : pc[w] \in {"dumping", "rechecking", "archiving"} =>
        \A p \in partial : p.name # NameOf(w)

OneRunPerName ==
    \A w, v \in Worker :
        w # v /\ pc[w] \in AtWork /\ pc[v] \in AtWork => NameOf(w) # NameOf(v)

StagedByRun ==
    crashes = 0 => \A n \in staged : \E w \in Worker : pc[w] \in AtWork /\ NameOf(w) = n

FileInv ==
    /\ now > 0
    /\ WorksInStaging
    /\ StagingCovers
    /\ NotYetOpened
    /\ OneRunPerName
    /\ StagedByRun

LEMMA InitFileInv == Init => FileInv
  BY DEF Init, FileInv, WorksInStaging, StagingCovers, NotYetOpened, OneRunPerName, StagedByRun,
         AtWork, Places, Working

(* A run that ends takes its own files along and those of no other run.    *)
LEMMA ReturnFiles ==
    ASSUME TypeOK, FileInv, NEW w \in Worker, pc[w] # "idle", Return(w), UNCHANGED <<now, crashes>>
    PROVE  FileInv'
<1>1. /\ pc' = [pc EXCEPT ![w] = "idle"]
      /\ token' = [token EXCEPT ![w] = 0]
      /\ stamp' = [stamp EXCEPT ![w] = 0]
      /\ partial' \subseteq partial
      /\ staged' = staged \ {NameOf(w)}
  BY DEF Return, Leave, Goto
<1>2. \A v \in Worker : v # w => pc'[v] = pc[v] /\ NameOf(v)' = NameOf(v) /\ stamp'[v] = stamp[v]
  BY <1>1 DEF TypeOK, NameOf
<1>3. pc'[w] = "idle" /\ stamp'[w] = 0 /\ pc'[w] \notin AtWork
  BY <1>1 DEF TypeOK, AtWork
<1>4. pc[w] \notin AtWork => NameOf(w) \notin staged
  BY DEF FileInv, WorksInStaging, StagingCovers, NameOf
<1>5. WorksInStaging'
  BY <1>1, <1>2, <1>3, <1>4 DEF FileInv, WorksInStaging, OneRunPerName
<1>6. StagingCovers'
  <2>1. \A p \in partial' : p.name # NameOf(w)
    <3>1. CASE OwnsArchive(w)
      BY <3>1 DEF Return
    <3>2. CASE pc[w] \in {"dumping", "rechecking"}
      BY <3>2, <1>1 DEF FileInv, NotYetOpened
    <3>3. CASE pc[w] = "staging"
      BY <3>3, <1>1, <1>4 DEF FileInv, StagingCovers, AtWork
    <3> QED
      BY <3>1, <3>2, <3>3 DEF TypeOK, OwnsArchive, Places, Working
  <2> QED
    BY <2>1, <1>1 DEF FileInv, StagingCovers
<1>7. NotYetOpened'
  BY <1>1, <1>2, <1>3 DEF FileInv, NotYetOpened
<1>8. OneRunPerName'
  BY <1>2, <1>3 DEF FileInv, OneRunPerName
<1>9. StagedByRun'
  BY <1>1, <1>2, <1>3 DEF FileInv, StagedByRun
<1> QED
  BY <1>5, <1>6, <1>7, <1>8, <1>9 DEF FileInv

(* A run that goes on with its own files.                                  *)
LEMMA ProceedFiles ==
    ASSUME TypeOK, FileInv, NEW w \in Worker, NEW where \in AtWork, pc[w] \in AtWork,
           Goto(w, where), UNCHANGED <<token, stamp, staged, now, crashes>>,
           \A p \in partial' : p \in partial \/ p.name = NameOf(w),
           where \in {"dumping", "rechecking", "archiving"} =>
               pc[w] \in {"dumping", "rechecking", "archiving"} /\ partial' = partial
    PROVE  FileInv'
<1>1. /\ \A v \in Worker : NameOf(v)' = NameOf(v)
      /\ \A v \in Worker : v # w => pc'[v] = pc[v]
      /\ pc'[w] = where
      /\ \A v \in Worker : pc'[v] \in AtWork <=> pc[v] \in AtWork
  BY DEF TypeOK, NameOf, Goto
<1>2. WorksInStaging' /\ OneRunPerName' /\ StagedByRun'
  BY <1>1 DEF FileInv, WorksInStaging, OneRunPerName, StagedByRun
<1>3. StagingCovers'
  BY DEF FileInv, StagingCovers, WorksInStaging
<1>4. NotYetOpened'
  <2> SUFFICES ASSUME NEW v \in Worker, pc'[v] \in {"dumping", "rechecking", "archiving"},
                      NEW p \in partial'
               PROVE  p.name # NameOf(v)
    BY <1>1 DEF NotYetOpened
  <2>1. CASE v = w
    BY <2>1, <1>1 DEF FileInv, NotYetOpened
  <2>2. CASE v # w
    BY <2>2, <1>1 DEF FileInv, NotYetOpened, OneRunPerName, AtWork, Places, Working
  <2> QED
    BY <2>1, <2>2
<1> QED
  BY <1>2, <1>3, <1>4 DEF FileInv

LEMMA NextFileInv == TypeOK /\ FileInv /\ [Next]_vars => FileInv'
<1> SUFFICES ASSUME TypeOK, FileInv, [Next]_vars PROVE FileInv'
  OBVIOUS
<1>w. /\ \A x \in {"dumping", "rechecking", "archiving", "writing", "confirming",
                   "renaming", "pruning"} : x \in AtWork
      /\ "idle" \notin AtWork /\ "staging" \notin AtWork
  BY DEF AtWork, Places, Working
<1>1. ASSUME NEW w \in Worker, Acquire(w) PROVE FileInv'
  <2>1. /\ pc' = [pc EXCEPT ![w] = "staging"] /\ pc[w] = "idle"
        /\ token' = [token EXCEPT ![w] = NewToken(ReplicaOf[w])]
        /\ UNCHANGED <<now, stamp, staged, partial, crashes>>
    BY <1>1 DEF Acquire, Goto, files
  <2>2. /\ \A v \in Worker : v # w => pc'[v] = pc[v] /\ NameOf(v)' = NameOf(v)
        /\ pc'[w] = "staging"
    BY <2>1 DEF TypeOK, NameOf
  <2>3. WorksInStaging'
    BY <2>1, <2>2, <1>w DEF FileInv, WorksInStaging
  <2>4. StagingCovers' /\ NotYetOpened' /\ OneRunPerName'
    BY <2>1, <2>2, <1>w DEF FileInv, StagingCovers, NotYetOpened, OneRunPerName
  <2>5. StagedByRun'
    BY <2>1, <2>2, <1>w DEF FileInv, StagedByRun
  <2> QED
    BY <2>1, <2>3, <2>4, <2>5 DEF FileInv
<1>2. ASSUME NEW w \in Worker, MakeStaging(w) PROVE FileInv'
  <2> DEFINE name == [stamp |-> now, token |-> token[w]]
  <2>1. CASE name \in staged
    <3>1. /\ pc' = [pc EXCEPT ![w] = "idle"] /\ pc[w] = "staging"
          /\ token' = [token EXCEPT ![w] = 0] /\ stamp' = [stamp EXCEPT ![w] = 0]
          /\ UNCHANGED <<now, staged, partial, crashes>>
      BY <2>1, <1>2 DEF MakeStaging, Leave, Goto
    <3>2. /\ \A v \in Worker : v # w => pc'[v] = pc[v] /\ NameOf(v)' = NameOf(v) /\ stamp'[v] = stamp[v]
          /\ pc'[w] = "idle" /\ stamp'[w] = 0
      BY <3>1 DEF TypeOK, NameOf
    <3>3. WorksInStaging'
      BY <3>1, <3>2, <1>w DEF FileInv, WorksInStaging
    <3>4. StagingCovers' /\ NotYetOpened' /\ OneRunPerName'
      BY <3>1, <3>2, <1>w DEF FileInv, StagingCovers, NotYetOpened, OneRunPerName
    <3>5. StagedByRun'
      BY <3>1, <3>2, <1>w DEF FileInv, StagedByRun
    <3> QED
      BY <3>1, <3>3, <3>4, <3>5 DEF FileInv
  <2>2. CASE name \notin staged
    <3>1. /\ pc' = [pc EXCEPT ![w] = "dumping"] /\ pc[w] = "staging"
          /\ stamp' = [stamp EXCEPT ![w] = now]
          /\ staged' = staged \cup {name}
          /\ UNCHANGED <<now, token, partial, crashes>>
      BY <2>2, <1>2 DEF MakeStaging, Goto
    <3>2. /\ \A v \in Worker : v # w => pc'[v] = pc[v] /\ NameOf(v)' = NameOf(v) /\ stamp'[v] = stamp[v]
          /\ pc'[w] = "dumping" /\ NameOf(w)' = name
      BY <3>1 DEF TypeOK, NameOf
    <3>n. name.stamp = now
      OBVIOUS
    <3> HIDE DEF name
    <3>3. WorksInStaging'
      BY <3>1, <3>2, <1>w DEF FileInv, WorksInStaging
    <3>4. StagingCovers'
      BY <3>1, <3>n DEF FileInv, StagingCovers
    <3>5. NotYetOpened'
      BY <3>1, <3>2, <2>2 DEF FileInv, NotYetOpened, StagingCovers
    <3>6. OneRunPerName'
      BY <3>2, <2>2 DEF FileInv, OneRunPerName, WorksInStaging
    <3>7. StagedByRun'
      BY <3>1, <3>2, <1>w DEF FileInv, StagedByRun
    <3> QED
      BY <3>1, <3>3, <3>4, <3>5, <3>6, <3>7 DEF FileInv
  <2> QED
    BY <2>1, <2>2
<1>3. ASSUME NEW w \in Worker, Dump(w) PROVE FileInv'
  BY <1>3, <1>w, ProceedFiles DEF Dump, Proceed
<1>4. ASSUME NEW w \in Worker, Recheck(w) PROVE FileInv'
  <2>1. CASE IsCurrent(w)
    BY <2>1, <1>4, <1>w, ProceedFiles DEF Recheck, Proceed
  <2>2. CASE ~ IsCurrent(w)
    BY <2>2, <1>4, ReturnFiles DEF Recheck
  <2> QED
    BY <2>1, <2>2
<1>5. ASSUME NEW w \in Worker, OpenArchive(w) PROVE FileInv'
  <2>1. CASE \E p \in partial : p.name = NameOf(w)
    BY <2>1, <1>5, ReturnFiles DEF OpenArchive
  <2>2. CASE ~ \E p \in partial : p.name = NameOf(w)
    BY <2>2, <1>5, <1>w, ProceedFiles DEF OpenArchive
  <2> QED
    BY <2>1, <2>2
<1>6. ASSUME NEW w \in Worker, WriteArchive(w) PROVE FileInv'
  BY <1>6, <1>w, ProceedFiles DEF WriteArchive
<1>7. ASSUME NEW w \in Worker, Confirm(w) PROVE FileInv'
  <2>1. CASE IsCurrent(w)
    BY <2>1, <1>7, <1>w, ProceedFiles DEF Confirm, Proceed
  <2>2. CASE ~ IsCurrent(w)
    BY <2>2, <1>7, ReturnFiles DEF Confirm
  <2> QED
    BY <2>1, <2>2
<1>8. ASSUME NEW w \in Worker, Rename(w) PROVE FileInv'
  BY <1>8, <1>w, ProceedFiles DEF Rename
<1>9. ASSUME NEW w \in Worker, Prune(w) PROVE FileInv'
  BY <1>9, ReturnFiles DEF Prune
<1>10. ASSUME NEW w \in Worker, Abort(w) PROVE FileInv'
  BY <1>10, ReturnFiles DEF Abort
<1>11. ASSUME NEW w \in Worker, Crash(w) PROVE FileInv'
  <2>1. /\ pc' = [pc EXCEPT ![w] = "idle"] /\ crashes' = crashes + 1
        /\ token' = [token EXCEPT ![w] = 0] /\ stamp' = [stamp EXCEPT ![w] = 0]
        /\ UNCHANGED <<now, staged, partial>>
    BY <1>11 DEF Crash, Leave, Goto, files
  <2>2. /\ \A v \in Worker : v # w => pc'[v] = pc[v] /\ NameOf(v)' = NameOf(v) /\ stamp'[v] = stamp[v]
        /\ pc'[w] = "idle" /\ stamp'[w] = 0
    BY <2>1 DEF TypeOK, NameOf
  <2>3. WorksInStaging' /\ StagingCovers'
    BY <2>1, <2>2, <1>w DEF FileInv, WorksInStaging, StagingCovers
  <2>4. NotYetOpened' /\ OneRunPerName'
    BY <2>1, <2>2, <1>w DEF FileInv, NotYetOpened, OneRunPerName
  <2>5. StagedByRun'
    BY <2>1 DEF StagedByRun, TypeOK
  <2> QED
    BY <2>1, <2>3, <2>4, <2>5 DEF FileInv
<1>12. CASE Tick
  BY <1>12 DEF Tick, files, TypeOK, FileInv, WorksInStaging, StagingCovers, NotYetOpened,
     OneRunPerName, StagedByRun, NameOf
<1>13. CASE UNCHANGED vars
  BY <1>13 DEF vars, files, FileInv, WorksInStaging, StagingCovers, NotYetOpened,
     OneRunPerName, StagedByRun, NameOf
<1> QED
  BY <1>1, <1>2, <1>3, <1>4, <1>5, <1>6, <1>7, <1>8, <1>9, <1>10, <1>11, <1>12, <1>13 DEF Next
-----------------------------------------------------------------------------
NotAhead ==
    /\ \A p \in partial : p.at <= now
    /\ \A a \in published : a.at <= now

YoungerThanStart ==
    \A w \in Worker : pc[w] \in {"writing", "confirming", "renaming"} =>
        \A p \in partial : p.name = NameOf(w) =>
            /\ p.at >= stamp[w]
            /\ \A a \in published : a.name = p.name => a.at <= p.at

HasPublished ==
    \A w \in Worker : pc[w] = "pruning" => \E a \in published : a.at >= stamp[w]

AgeInv == NotAhead /\ YoungerThanStart /\ HasPublished

LEMMA InitAgeInv == Init => AgeInv
  BY DEF Init, AgeInv, NotAhead, YoungerThanStart, HasPublished

(* A run that ends without touching the archives.                          *)
LEMMA LeaveAge ==
    ASSUME TypeOK, AgeInv, NEW w \in Worker, Leave(w), partial' \subseteq partial,
           UNCHANGED <<now, published>>
    PROVE  AgeInv'
<1>1. \A v \in Worker : v # w => pc'[v] = pc[v] /\ NameOf(v)' = NameOf(v) /\ stamp'[v] = stamp[v]
  BY DEF Leave, Goto, TypeOK, NameOf
<1>2. pc'[w] = "idle"
  BY DEF Leave, Goto, TypeOK
<1> QED
  BY <1>1, <1>2 DEF AgeInv, NotAhead, YoungerThanStart, HasPublished

(* A run that goes on before it has an archive, or with the one it has.    *)
LEMMA ProceedAge ==
    ASSUME TypeOK, AgeInv, NEW w \in Worker, NEW where, Goto(w, where), where # "pruning",
           where \in {"writing", "confirming", "renaming"} =>
               pc[w] \in {"writing", "confirming", "renaming"} /\ stamp'[w] = stamp[w],
           \A v \in Worker : v # w => stamp'[v] = stamp[v],
           where \in {"writing", "confirming", "renaming"} => token'[w] = token[w],
           \A v \in Worker : v # w => token'[v] = token[v],
           UNCHANGED <<now, partial, published>>
    PROVE  AgeInv'
<1>1. \A v \in Worker : v # w => pc'[v] = pc[v] /\ NameOf(v)' = NameOf(v) /\ stamp'[v] = stamp[v]
  BY DEF Goto, TypeOK, NameOf
<1>2. pc'[w] = where
  BY DEF Goto, TypeOK
<1>3. where \in {"writing", "confirming", "renaming"} => NameOf(w)' = NameOf(w)
  BY DEF NameOf
<1> QED
  BY <1>1, <1>2, <1>3 DEF AgeInv, NotAhead, YoungerThanStart, HasPublished

(* A run that writes its archive now.                                      *)
LEMMA WriteAge ==
    ASSUME TypeOK, FileInv, AgeInv, NEW w \in Worker, pc[w] \in AtWork,
           NEW where \in {"writing", "confirming"}, Goto(w, where),
           \A p \in partial' : (p \in partial /\ p.name # NameOf(w)) \/ (p.name = NameOf(w) /\ p.at = now),
           UNCHANGED <<now, token, stamp, published>>
    PROVE  AgeInv'
<1>1. /\ \A v \in Worker : v # w => pc'[v] = pc[v]
      /\ \A v \in Worker : NameOf(v)' = NameOf(v)
      /\ pc'[w] = where
  BY DEF Goto, TypeOK, NameOf
<1>2. NotAhead'
  BY DEF AgeInv, NotAhead, TypeOK
<1>3. YoungerThanStart'
  <2> SUFFICES ASSUME NEW v \in Worker, pc'[v] \in {"writing", "confirming", "renaming"},
                      NEW p \in partial', p.name = NameOf(v)
               PROVE  /\ p.at >= stamp[v]
                      /\ \A a \in published : a.name = p.name => a.at <= p.at
    BY <1>1 DEF YoungerThanStart
  <2>1. CASE v = w
    BY <2>1 DEF AgeInv, NotAhead, TypeOK
  <2>2. CASE v # w
    <3>1. NameOf(v) # NameOf(w)
      BY <2>2, <1>1 DEF FileInv, OneRunPerName, AtWork, Places, Working
    <3> QED
      BY <2>2, <3>1, <1>1 DEF AgeInv, YoungerThanStart
  <2> QED
    BY <2>1, <2>2
<1>4. HasPublished'
  BY <1>1 DEF AgeInv, HasPublished
<1> QED
  BY <1>2, <1>3, <1>4 DEF AgeInv

(* prune spares the archive of the run itself.                             *)
LEMMA PruneSpares ==
    ASSUME TypeOK, AgeInv, NEW w \in Worker, Prune(w)
    PROVE  /\ published' \subseteq published
           /\ \A v \in Worker : (\E a \in published : a.at >= stamp[v]) =>
                                 \E a \in published' : a.at >= stamp[v]
           /\ published' # {}
<1> USE BackupAssumption
<1>1. /\ published' \subseteq published
      /\ \A a \in published : a \in published' \/ a.at + Retention < stamp[w]
  BY DEF Prune
<1>2. \A a \in published : a.at \in Nat
  BY DEF TypeOK, Archive
<1>3. \A v \in Worker : stamp[v] \in Nat
  BY DEF TypeOK
<1>4. PICK b \in published : b.at >= stamp[w]
  BY DEF Prune, AgeInv, HasPublished
<1>5. b \in published'
  BY <1>1, <1>2, <1>3, <1>4
<1>6. ASSUME NEW v \in Worker, NEW a \in published, a.at >= stamp[v]
      PROVE  \E c \in published' : c.at >= stamp[v]
  <2>1. CASE a \in published'
    BY <2>1, <1>6
  <2>2. CASE a \notin published'
    <3>1. b.at >= stamp[v]
      BY <2>2, <1>1, <1>2, <1>3, <1>4, <1>6
    <3> QED
      BY <3>1, <1>5
  <2> QED
    BY <2>1, <2>2
<1> QED
  BY <1>1, <1>5, <1>6

LEMMA NextAgeInv == TypeOK /\ FileInv /\ AgeInv /\ [Next]_vars => AgeInv'
<1> SUFFICES ASSUME TypeOK, FileInv, AgeInv, [Next]_vars PROVE AgeInv'
  OBVIOUS
<1>w. "archiving" \in AtWork /\ "writing" \in AtWork
  BY DEF AtWork, Places, Working
<1>1. ASSUME NEW w \in Worker, Acquire(w) PROVE AgeInv'
  BY <1>1, ProceedAge DEF Acquire, files, TypeOK
<1>2. ASSUME NEW w \in Worker, MakeStaging(w) PROVE AgeInv'
  <2>1. CASE [stamp |-> now, token |-> token[w]] \in staged
    BY <2>1, <1>2, LeaveAge DEF MakeStaging
  <2>2. CASE [stamp |-> now, token |-> token[w]] \notin staged
    BY <2>2, <1>2, ProceedAge DEF MakeStaging, TypeOK
  <2> QED
    BY <2>1, <2>2
<1>p. ASSUME NEW w \in Worker, NEW where, Proceed(w, where), where # "pruning",
             where \in {"writing", "confirming", "renaming"} =>
                 pc[w] \in {"writing", "confirming", "renaming"},
             UNCHANGED <<now, published>>
      PROVE  AgeInv'
  BY <1>p, ProceedAge DEF Proceed
<1>r. ASSUME NEW w \in Worker, Return(w), UNCHANGED <<now, published>> PROVE AgeInv'
  BY <1>r, LeaveAge DEF Return
<1>3. ASSUME NEW w \in Worker, Dump(w) PROVE AgeInv'
  BY <1>3, <1>p DEF Dump
<1>4. ASSUME NEW w \in Worker, Recheck(w) PROVE AgeInv'
  BY <1>4, <1>p, <1>r DEF Recheck
<1>5. ASSUME NEW w \in Worker, OpenArchive(w) PROVE AgeInv'
  <2>1. CASE \E p \in partial : p.name = NameOf(w)
    BY <2>1, <1>5, <1>r DEF OpenArchive
  <2>2. CASE ~ \E p \in partial : p.name = NameOf(w)
    BY <2>2, <1>5, <1>w, WriteAge DEF OpenArchive
  <2> QED
    BY <2>1, <2>2
<1>6. ASSUME NEW w \in Worker, WriteArchive(w) PROVE AgeInv'
  BY <1>6, <1>w, WriteAge DEF WriteArchive
<1>7. ASSUME NEW w \in Worker, Confirm(w) PROVE AgeInv'
  BY <1>7, <1>p, <1>r DEF Confirm
<1>8. ASSUME NEW w \in Worker, Rename(w) PROVE AgeInv'
  <2>1. PICK p \in partial :
          /\ p.name = NameOf(w)
          /\ partial' = partial \ {p}
          /\ published' = {a \in published : a.name # p.name} \cup
                          {[name |-> p.name, whole |-> p.whole, at |-> p.at, by |-> w]}
    BY <1>8 DEF Rename
  <2> DEFINE new == [name |-> p.name, whole |-> p.whole, at |-> p.at, by |-> w]
  <2>2. /\ pc[w] = "renaming" /\ pc'[w] = "pruning"
        /\ \A v \in Worker : v # w => pc'[v] = pc[v]
        /\ \A v \in Worker : NameOf(v)' = NameOf(v)
        /\ UNCHANGED <<now, stamp>>
    BY <1>8 DEF Rename, Goto, TypeOK, NameOf
  <2>3. new.name = NameOf(w) /\ new.at = p.at /\ new \in published'
    BY <2>1
  <2>4. \A a \in published' : a \in published \/ a = new
    BY <2>1
  <2>5. \A a \in published : a \in published' \/ a.at <= p.at
    BY <2>1, <2>2 DEF AgeInv, YoungerThanStart
  <2>6. p.at >= stamp[w] /\ p.at <= now /\ p.at \in Nat
    BY <2>1, <2>2 DEF AgeInv, YoungerThanStart, NotAhead, TypeOK, Partial
  <2> HIDE DEF new
  <2>7. NotAhead'
    BY <2>1, <2>2, <2>3, <2>4, <2>6 DEF AgeInv, NotAhead
  <2>8. YoungerThanStart'
    <3> SUFFICES ASSUME NEW v \in Worker, pc'[v] \in {"writing", "confirming", "renaming"},
                        NEW q \in partial', q.name = NameOf(v)
                 PROVE  /\ q.at >= stamp[v]
                        /\ \A a \in published' : a.name = q.name => a.at <= q.at
      BY <2>2 DEF YoungerThanStart
    <3>1. v # w /\ pc[v] = pc'[v] /\ q \in partial
      BY <2>1, <2>2
    <3>2. NameOf(v) # NameOf(w)
      BY <3>1, <2>2 DEF FileInv, OneRunPerName, AtWork, Places, Working
    <3> QED
      BY <3>1, <3>2, <2>3, <2>4 DEF AgeInv, YoungerThanStart
  <2>9. HasPublished'
    <3> SUFFICES ASSUME NEW v \in Worker, pc'[v] = "pruning"
                 PROVE  \E a \in published' : a.at >= stamp[v]
      BY <2>2 DEF HasPublished
    <3>1. CASE v = w
      BY <3>1, <2>3, <2>6
    <3>2. CASE v # w
      <4>1. PICK a \in published : a.at >= stamp[v]
        BY <3>2, <2>2 DEF AgeInv, HasPublished
      <4>2. a.at \in Nat /\ stamp[v] \in Nat
        BY DEF TypeOK, Archive
      <4> QED
        BY <4>1, <4>2, <2>3, <2>5, <2>6
    <3> QED
      BY <3>1, <3>2
  <2> QED
    BY <2>7, <2>8, <2>9 DEF AgeInv
<1>9. ASSUME NEW w \in Worker, Prune(w) PROVE AgeInv'
  <2>1. /\ \A v \in Worker : v # w => pc'[v] = pc[v] /\ NameOf(v)' = NameOf(v) /\ stamp'[v] = stamp[v]
        /\ pc'[w] = "idle"
        /\ partial' \subseteq partial /\ now' = now
    BY <1>9 DEF Prune, Return, Leave, Goto, TypeOK, NameOf
  <2>2. published' \subseteq published
    BY <1>9, PruneSpares
  <2>3. NotAhead' /\ YoungerThanStart'
    BY <2>1, <2>2 DEF AgeInv, NotAhead, YoungerThanStart
  <2>4. HasPublished'
    BY <2>1, <1>9, PruneSpares DEF AgeInv, HasPublished
  <2> QED
    BY <2>3, <2>4 DEF AgeInv
<1>10. ASSUME NEW w \in Worker, Abort(w) PROVE AgeInv'
  BY <1>10, <1>r DEF Abort
<1>11. ASSUME NEW w \in Worker, Crash(w) PROVE AgeInv'
  BY <1>11, LeaveAge DEF Crash, files
<1>12. CASE Tick
  <2>1. now' = now + 1 /\ UNCHANGED <<pc, token, stamp, partial, published>>
    BY <1>12 DEF Tick, files
  <2>2. NotAhead'
    BY <2>1 DEF AgeInv, NotAhead, TypeOK, Partial, Archive
  <2> QED
    BY <2>1, <2>2 DEF AgeInv, YoungerThanStart, HasPublished, NameOf
<1>13. CASE UNCHANGED vars
  BY <1>13 DEF vars, files, AgeInv, NotAhead, YoungerThanStart, HasPublished, NameOf
<1> QED
  BY <1>1, <1>2, <1>3, <1>4, <1>5, <1>6, <1>7, <1>8, <1>9, <1>10, <1>11, <1>12, <1>13 DEF Next
-----------------------------------------------------------------------------
BackupInv == TokenInv /\ FileInv /\ AgeInv

LEMMA BackupInvHolds == Spec => []BackupInv
<1>1. Init => BackupInv
  BY InitTokenInv, InitFileInv, InitAgeInv DEF BackupInv
<1>2. BackupInv /\ [Next]_vars => BackupInv'
  BY NextTokenInv, NextFileInv, NextAgeInv DEF BackupInv, TokenInv
<1> QED
  BY <1>1, <1>2, PTL DEF Spec

(* The backup runs, the lease and the files stay well typed, no run ahead  *)
(* of the clock or of the lease.                                           *)
THEOREM BackupTypeCorrect == Spec => []TypeOK
<1>1. BackupInv => TypeOK
  BY DEF BackupInv, TokenInv
<1> QED
  BY <1>1, BackupInvHolds, PTL

(* A run displaced before Confirm never reaches the rename, however often  *)
(* the lease changes hands, also when its own replica has it back.         *)
THEOREM DisplacedNeverPublishes == Spec => []LostLeaseNeverPublishes
<1>1. BackupInv => LostLeaseNeverPublishes
  BY DEF BackupInv, TokenInv
<1> QED
  BY <1>1, BackupInvHolds, PTL

(* acquire_maintenance_lease gives no token to two replicas.               *)
THEOREM TokensAreFencing == Spec => []TokenNamesOneReplica
<1>1. BackupInv => TokenNamesOneReplica
  BY DEF BackupInv, TokenInv
<1> QED
  BY <1>1, BackupInvHolds, PTL

(* Runner.Run cleans up on every path on which its process survives.       *)
THEOREM EveryErrorCleansUp == Spec => []ErrorsCleanUp
<1>1. BackupInv => ErrorsCleanUp
  BY DEF BackupInv, FileInv, StagedByRun, StagingCovers, ErrorsCleanUp, AtWork
<1> QED
  BY <1>1, BackupInvHolds, PTL

(* The exclusive staging directory keeps runs and leftovers apart.         *)
THEOREM RunsDoNotShareFiles == Spec => []NamesAreExclusive
<1>1. BackupInv => NamesAreExclusive
  <2>1. TypeOK /\ OneRunPerName /\ NotYetOpened => NamesAreExclusive
    BY DEF TypeOK, OneRunPerName, NotYetOpened, NamesAreExclusive, AtWork
  <2> QED
    BY <2>1 DEF BackupInv, TokenInv, FileInv
<1> QED
  BY <1>1, BackupInvHolds, PTL

(* No step of any run, prune included, removes the last archive.           *)
THEOREM RetentionKeepsOne == Spec => LastBackupSurvives
<1>1. BackupInv /\ [Next]_vars => [published # {} => published' # {}]_vars
  <2> SUFFICES ASSUME BackupInv, Next, published # {} PROVE published' # {}
    OBVIOUS
  <2>1. ASSUME NEW w \in Worker, Rename(w) PROVE published' # {}
    BY <2>1 DEF Rename
  <2>2. ASSUME NEW w \in Worker, Prune(w) PROVE published' # {}
    BY <2>2, PruneSpares DEF BackupInv, TokenInv
  <2>3. ASSUME NEW w \in Worker,
               \/ Acquire(w) \/ MakeStaging(w) \/ Dump(w) \/ Recheck(w) \/ OpenArchive(w)
               \/ WriteArchive(w) \/ Confirm(w) \/ Abort(w) \/ Crash(w)
        PROVE published' # {}
    BY <2>3 DEF Acquire, MakeStaging, Dump, Recheck, OpenArchive, WriteArchive, Confirm,
       Abort, Crash, files
  <2>4. CASE Tick
    BY <2>4 DEF Tick, files
  <2> QED
    BY <2>1, <2>2, <2>3, <2>4 DEF Next
<1> QED
  BY <1>1, BackupInvHolds, PTL DEF Spec, LastBackupSurvives
=============================================================================
