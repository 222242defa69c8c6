------------------------------ MODULE FencedBackup ------------------------------
(***************************************************************************)
(* Fenced backups: Runner.Run and its helpers in internal/backup, started  *)
(* by cmd/nodescope-backup, and the lease functions of migration 0018.     *)
(*                                                                         *)
(* A worker is one backup process; a replica can run several, such as its  *)
(* timer's and an operator's.  All write one shared directory.  A file is  *)
(* named by the second at which its run started and by the run's token;    *)
(* the mode, also in the name, is the same in all runs here.  The process  *)
(* has a deadline as long as the lease, but one that is suspended, or a    *)
(* rename that hangs on the shared mount, outlives it: time may pass       *)
(* between any two steps.                                                  *)
(***************************************************************************)
EXTENDS Naturals

CONSTANTS
    Worker, Replica,
    ReplicaOf,      \* ReplicaOf[w]: the --replica-id of worker w
    Ttl,            \* of the daily_backup lease
    Retention,      \* age beyond which prune deletes an archive
    MaxTime,        \* bound on the clock explored
    MaxCrashes      \* bound on the processes that die

ASSUME BackupAssumption ==
    /\ ReplicaOf \in [Worker -> Replica]
    /\ Ttl \in Nat /\ Retention \in Nat /\ MaxTime \in Nat /\ MaxCrashes \in Nat

VARIABLES
    now,        \* the clock; the database's, the hosts' and the files' agree
    lease,      \* the daily_backup row; token 0 when there is none
    pc,         \* pc[w]: the step worker w is at
    token,      \* token[w]: lease.FencingToken of its run, 0 between runs
    stamp,      \* stamp[w]: the time in its basename, 0 until it has one
    staged,     \* staging directories, by name
    partial,    \* archives being written: name and whether they are whole
    published,  \* archives under their final name
    crashes,    \* history: processes that died and could not clean up
    lost        \* history: workers whose lease another replica took before
                \* their archive was written

files == <<staged, partial, published>>
vars  == <<now, lease, pc, token, stamp, files, crashes, lost>>

Working == {"staging", "dumping", "rechecking", "archiving", "writing", "confirming"}
Places  == {"idle", "renaming", "pruning"} \cup Working
Name    == [stamp : Nat, token : Nat]
Lease   == [holder : Replica, token : Nat, expires : Nat]
Partial == [name : Name, whole : BOOLEAN, at : Nat]
Archive == [name : Name, whole : BOOLEAN, at : Nat, by : Worker]

(* No run is ahead of the clock or of the lease it got its token from.     *)
TypeOK ==
    /\ now \in Nat
    /\ lease \in Lease
    /\ pc \in [Worker -> Places]
    /\ token \in [Worker -> 0 .. lease.token]
    /\ stamp \in [Worker -> 0 .. now]
    /\ staged \subseteq Name
    /\ partial \subseteq Partial
    /\ published \subseteq Archive
    /\ crashes \in Nat
    /\ lost \subseteq Worker

Init ==
    /\ now = 1
    /\ lease \in [holder : Replica, token : {0}, expires : {0}]
    /\ pc = [w \in Worker |-> "idle"]
    /\ token = [w \in Worker |-> 0]
    /\ stamp = [w \in Worker |-> 0]
    /\ staged = {} /\ partial = {} /\ published = {}
    /\ crashes = 0
    /\ lost = {}
-----------------------------------------------------------------------------
NameOf(w) == [stamp |-> stamp[w], token |-> token[w]]

Goto(w, where) == pc' = [pc EXCEPT ![w] = where]

\* mutant: the token is not compared
IsCurrentByReplica(w) == lease.holder = ReplicaOf[w] /\ lease.expires >= now

(* lease_is_current                                                        *)
IsCurrent(w) ==
    /\ lease.holder = ReplicaOf[w]
    /\ lease.token = token[w]
    /\ lease.expires >= now

\* mutant: the token does not change with the holder
StickyToken(r) == IF lease.token = 0 THEN 1 ELSE lease.token

(* The token acquire_maintenance_lease gives replica r.                    *)
NewToken(r) ==
    IF lease.token = 0 THEN 1
    ELSE IF lease.holder = r THEN lease.token ELSE lease.token + 1

(* acquire_maintenance_lease; when it raises, Run returns at once.         *)
Acquire(w) ==
    /\ pc[w] = "idle"
    /\ \/ lease.token = 0
       \/ lease.expires < now
       \/ lease.holder = ReplicaOf[w]
    /\ lease' = [holder |-> ReplicaOf[w], token |-> NewToken(ReplicaOf[w]),
                 expires |-> now + Ttl]
    /\ token' = [token EXCEPT ![w] = NewToken(ReplicaOf[w])]
    /\ Goto(w, "staging")
    /\ lost' = lost \cup
               {v \in Worker : pc[v] \in Working /\ ReplicaOf[v] # ReplicaOf[w]}
    /\ UNCHANGED <<now, stamp, files, crashes>>

(* The end of a run, however it ends.                                      *)
Leave(w) ==
    /\ Goto(w, "idle")
    /\ token' = [token EXCEPT ![w] = 0]
    /\ stamp' = [stamp EXCEPT ![w] = 0]
    /\ lost' = lost \ {w}

(* The archive is the run's to remove once tarDirectory is about to start. *)
OwnsArchive(w) == pc[w] \in {"archiving", "writing", "confirming", "renaming", "pruning"}

\* mutant: the staging directory is left behind
LeaveStaging(w) ==
    /\ Leave(w)
    /\ partial' = {p \in partial : OwnsArchive(w) => p.name # NameOf(w)}
    /\ UNCHANGED staged

(* Run returns, after its deferred removals.  The one of the archive is    *)
(* deferred before the archive is opened.                                  *)
Return(w) ==
    /\ Leave(w)
    /\ partial' = {p \in partial : OwnsArchive(w) => p.name # NameOf(w)}
    /\ staged' = staged \ {NameOf(w)}

(* A step that goes on to the next one and touches no file.                *)
Proceed(w, where) ==
    /\ Goto(w, where)
    /\ UNCHANGED <<token, stamp, staged, partial, lost>>

\* mutant: os.MkdirAll, which accepts the directory of another run
MakeStagingAll(w) ==
    /\ pc[w] = "staging"
    /\ Goto(w, "dumping")
    /\ stamp' = [stamp EXCEPT ![w] = now]
    /\ staged' = staged \cup {[stamp |-> now, token |-> token[w]]}
    /\ UNCHANGED <<now, lease, token, partial, published, crashes, lost>>

(* os.Mkdir fails when the directory exists.                               *)
MakeStaging(w) ==
    /\ pc[w] = "staging"
    /\ LET name == [stamp |-> now, token |-> token[w]] IN
       \/ /\ name \in staged
          /\ Leave(w)
          /\ UNCHANGED staged
       \/ /\ name \notin staged
          /\ Goto(w, "dumping")
          /\ stamp' = [stamp EXCEPT ![w] = now]
          /\ staged' = staged \cup {name}
          /\ UNCHANGED <<token, lost>>
    /\ UNCHANGED <<now, lease, partial, published, crashes>>

(* Executor.Dump and the manifest.                                         *)
Dump(w) ==
    /\ pc[w] = "dumping"
    /\ Proceed(w, "rechecking")
    /\ UNCHANGED <<now, lease, published, crashes>>

Recheck(w) ==
    /\ pc[w] = "rechecking"
    /\ IF IsCurrent(w) THEN Proceed(w, "archiving") ELSE Return(w)
    /\ UNCHANGED <<now, lease, published, crashes>>

(* tarDirectory: an existing file fails the exclusive open.                *)
OpenArchive(w) ==
    /\ pc[w] = "archiving"
    /\ IF \E p \in partial : p.name = NameOf(w)
       THEN Return(w)
       ELSE /\ Goto(w, "writing")
            /\ partial' = partial \cup {[name |-> NameOf(w), whole |-> FALSE, at |-> now]}
            /\ UNCHANGED <<token, stamp, staged, lost>>
    /\ UNCHANGED <<now, lease, published, crashes>>

(* The errors of the deferred Close calls are dropped: tarDirectory can    *)
(* succeed with the end of the archive missing.                            *)
WriteArchive(w) ==
    /\ pc[w] = "writing"
    /\ Goto(w, "confirming")
    /\ \E whole \in BOOLEAN :
          partial' = {p \in partial : p.name # NameOf(w)} \cup
                     {[name |-> NameOf(w), whole |-> whole, at |-> now]}
    /\ UNCHANGED <<now, lease, token, stamp, staged, published, crashes, lost>>

Confirm(w) ==
    /\ pc[w] = "confirming"
    /\ IF IsCurrent(w) THEN Proceed(w, "renaming") ELSE Return(w)
    /\ UNCHANGED <<now, lease, published, crashes>>

(* os.Rename replaces an archive of the same name and keeps the time of    *)
(* the last write.                                                         *)
Rename(w) ==
    /\ pc[w] = "renaming"
    /\ Goto(w, "pruning")
    /\ \E p \in partial :
          /\ p.name = NameOf(w)
          /\ partial' = partial \ {p}
          /\ published' = {a \in published : a.name # p.name} \cup
                          {[name |-> p.name, whole |-> p.whole, at |-> p.at, by |-> w]}
    /\ UNCHANGED <<now, lease, token, stamp, staged, crashes, lost>>

\* mutant: the age of an archive is taken when prune runs, not when Run began
PruneFromNow(w) ==
    /\ pc[w] = "pruning"
    /\ published' = {a \in published : a.at + Retention >= now}
    /\ Return(w)
    /\ UNCHANGED <<now, lease, crashes>>

(* prune goes through the archives in name order and stops at an error,    *)
(* such as a file that another worker has just deleted.                    *)
Prune(w) ==
    /\ pc[w] = "pruning"
    /\ LET old == {a \in published : a.at + Retention < stamp[w]} IN
       \E gone \in SUBSET old :
          /\ \A a \in gone : \A b \in old : b.name.stamp < a.name.stamp => b \in gone
          /\ published' = published \ gone
    /\ Return(w)
    /\ UNCHANGED <<now, lease, crashes>>

(* A step returns an error: the disk is full, the database does not answer,*)
(* or the context's half hour is over.                                     *)
Abort(w) ==
    /\ pc[w] # "idle"
    /\ Return(w)
    /\ UNCHANGED <<now, lease, published, crashes>>

(* The process dies and its files stay.                                    *)
Crash(w) ==
    /\ pc[w] # "idle"
    /\ crashes < MaxCrashes
    /\ crashes' = crashes + 1
    /\ Leave(w)
    /\ UNCHANGED <<now, lease, files>>

Tick ==
    /\ now < MaxTime
    /\ now' = now + 1
    /\ UNCHANGED <<lease, pc, token, stamp, files, crashes, lost>>

Next ==
    \/ \E w \in Worker :
          \/ Acquire(w) \/ MakeStaging(w) \/ Dump(w) \/ Recheck(w)
          \/ OpenArchive(w) \/ WriteArchive(w) \/ Confirm(w) \/ Rename(w)
          \/ Prune(w) \/ Abort(w) \/ Crash(w)
    \/ Tick

Spec == Init /\ [][Next]_vars
-----------------------------------------------------------------------------
(* "A stale holder may finish writing its temporary file but cannot publish*)
(* it" (critique-response.md), as far as the checks reach: a run whose     *)
(* lease another replica took before its archive was written and confirmed *)
(* never gets to the rename, also when its own replica has the lease back. *)
LostLeaseNeverPublishes ==
    \A w \in Worker : pc[w] \in {"renaming", "pruning"} => w \notin lost

(* A fencing token stands for one replica, in running workers and in the   *)
(* names and manifests of published archives.                              *)
TokenNamesOneReplica ==
    /\ \A w, v \in Worker :
          token[w] = token[v] /\ token[w] # 0 => ReplicaOf[w] = ReplicaOf[v]
    /\ \A a \in published : \A w \in Worker :
          a.name.token = token[w] => ReplicaOf[a.by] = ReplicaOf[w]
    /\ \A a, b \in published :
          a.name.token = b.name.token => ReplicaOf[a.by] = ReplicaOf[b.by]

(* Unless a process dies, no run leaves a staging directory or an          *)
(* unfinished archive behind, on any of its error paths.                   *)
ErrorsCleanUp ==
    crashes = 0 /\ (\A w \in Worker : pc[w] = "idle") => staged = {} /\ partial = {}

(* Runs that share a directory, a replica and a token do not share files:  *)
(* two of them are never at work under one name, and the archive that a    *)
(* run is about to open, and would remove if it could not, is not one that *)
(* a dead process left.                                                    *)
NamesAreExclusive ==
    /\ \A w, v \in Worker :
          /\ w # v
          /\ pc[w] \notin {"idle", "staging"}
          /\ pc[v] \notin {"idle", "staging"}
          => NameOf(w) # NameOf(v)
    /\ \A w \in Worker :
          pc[w] = "archiving" => \A p \in partial : p.name # NameOf(w)

(* Retention runs after every publication and deletes by age only, yet it  *)
(* never deletes the last archive: a run that prunes has published one     *)
(* that is younger than its own start.                                     *)
LastBackupSurvives == [][published # {} => published' # {}]_vars

(* "A stale holder may finish writing its temporary file but cannot        *)
(* publish it" (critique-response.md): an archive is published under the   *)
(* token that is then the lease's.  Nothing holds the lease between the    *)
(* last look at it and the rename, so the code does not keep this.         *)
OnlyHolderPublishes ==
    [][\A w \in Worker : Rename(w) => lease.token = token[w]]_vars

(* A published backup is whole ("includes every NodeScope table currently  *)
(* retained", fenced-backups.md).                                          *)
PublishedIsWhole == \A a \in published : a.whole
=============================================================================
