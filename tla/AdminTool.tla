---- MODULE AdminTool ----
(***************************************************************************)
(* tools/memory_admin.py: backups of a store that servers go on writing,   *)
(* restores to a fresh name, several of them at once, with processes and   *)
(* machines that die between any two steps.                                *)
(*                                                                         *)
(* The content of a database is what each of its chunks of 256 pages holds:*)
(* the number of the commit that wrote it last.  A file is told by what it *)
(* is; the staging directory is private to its job, so a file in it is a   *)
(* local of the job.  Servers, the operator, the file system and SQLite's  *)
(* online copy are external.                                               *)
(***************************************************************************)
EXTENDS Integers, Sequences, FiniteSets

CONSTANTS
  Job,         \* runs of the tool
  Name,        \* paths in one directory
  Chunks,      \* how many chunks of pages the store has
  MaxCommits,  \* bound: commits while the model runs
  MaxFaults    \* bound: deaths, power losses and damages of an archive

Contents == [1..Chunks -> 0..MaxCommits]
Blank == [c \in 1..Chunks |-> 0]
Garbage == <<"garbage">>  \* the medium has changed what was written
Torn == <<"torn">>        \* written, never synced, and the power went
Store == "store"

ASSUME AdminAssumption ==
  /\ Chunks \in Nat \ {0}
  /\ MaxCommits \in Nat
  /\ MaxFaults \in Nat
  /\ Garbage \notin Contents /\ Torn \notin Contents
  /\ Store \notin Name

\* What stands at a path.  sum is the digest that the archive records, which is
\* its content, SHA-256 being injective; synced: fsync has been called.
Absent == [form |-> "absent"]
Live == [form |-> "live"]  \* a database that servers use
Archive(content) == [form |-> "zip", db |-> content, sum |-> content, synced |-> FALSE]
Database(content) == [form |-> "db", db |-> content, synced |-> FALSE]

VARIABLES
  store,     \* the committed content of the store that is backed up
  versions,  \* history: all its committed contents
  legacy,    \* the store was written by older servers and has no hash chain
  files,     \* what stands at each path
  sidecar,   \* path-wal and the like: none, those of the file, those of another
  unsynced,  \* paths whose directory entry is not on disk yet
  pc,        \* where each job is
  task,      \* its arguments: from, an archive or the store, and to
  copied,    \* the chunks copied so far
  seen,      \* the content of the store at the last chunk
  staged,    \* the file in its staging directory
  faults     \* history: deaths, power losses and damages

source == <<store, versions, legacy>>
disk == <<files, sidecar, unsynced>>
local == <<task, copied, seen, staged>>
vars == <<source, disk, pc, local, faults>>

NoTask == [from |-> Store, to |-> Store]

Init ==
  /\ store = Blank /\ versions = {store}
  /\ legacy \in BOOLEAN
  /\ files \in [Name -> {Absent} \union
                        IF legacy THEN {} ELSE {[Archive(store) EXCEPT !.synced = TRUE]}]
  /\ sidecar = [n \in Name |-> "none"]
  /\ unsynced = {}
  /\ pc = [j \in Job |-> "idle"]
  /\ task = [j \in Job |-> NoTask]
  /\ copied = [j \in Job |-> <<>>]
  /\ seen = [j \in Job |-> Blank]
  /\ staged = [j \in Job |-> Absent]
  /\ faults = 0

At(j, label) == pc[j] = label
Goto(j, label) == pc' = [pc EXCEPT ![j] = label]
IsBackup(j) == task[j].from = Store

\* The job ends and leaves nothing behind but what it has published.
End(j, outcome) ==
  /\ Goto(j, outcome)
  /\ copied' = [copied EXCEPT ![j] = <<>>]
  /\ staged' = [staged EXCEPT ![j] = Absent]
  /\ task' = [task EXCEPT ![j] = NoTask]
  /\ seen' = [seen EXCEPT ![j] = Blank]

\* The first commit of this version's server on a legacy store seals it.
HasChain(content) == ~legacy \/ \E c \in 1..Chunks : content[c] > 0

----------------------------------------------------------------------------
(* The tool. *)

\* backup: a staging directory next to the archive, the store opened read-only.
Backup(j) ==
  /\ At(j, "idle")
  /\ \E n \in Name : task' = [task EXCEPT ![j] = [from |-> Store, to |-> n]]
  /\ Goto(j, "copy")
  /\ UNCHANGED <<source, disk, copied, seen, staged, faults>>

\* The next chunk is copied after those of sofar; the last one makes the snapshot.
Copy(j, sofar) ==
  LET copy == Append(sofar, store[Len(sofar) + 1])
      whole == Len(copy) = Chunks
  IN  /\ copied' = [copied EXCEPT ![j] = IF whole THEN <<>> ELSE copy]
      /\ seen' = [seen EXCEPT ![j] = IF whole THEN Blank ELSE store]
      /\ staged' = [staged EXCEPT ![j] = IF whole THEN Database(copy) ELSE Absent]
      /\ Goto(j, IF whole THEN "check" ELSE "copy")
      /\ UNCHANGED <<source, disk, task, faults>>

\* Mutant of CopyChunk: the copy goes on after a commit.
CopyOn(j) == At(j, "copy") /\ Copy(j, copied[j])

\* src.backup(dst, pages=256): the source is locked for a chunk at a time; when
\* another connection has committed since the last, SQLite starts over.
CopyChunk(j) == At(j, "copy") /\ Copy(j, IF seen[j] = store THEN copied[j] ELSE <<>>)

\* _check_database of the snapshot, which refuses a store without a chain; then
\* the archive is written.
Pack(j) ==
  /\ At(j, "check") /\ IsBackup(j)
  /\ IF HasChain(staged[j].db)
       THEN /\ staged' = [staged EXCEPT ![j] = Archive(staged[j].db)]
            /\ Goto(j, "sync")
            /\ UNCHANGED <<task, copied, seen>>
       ELSE End(j, "failed")
  /\ UNCHANGED <<source, disk, faults>>

\* Mutant of Restore: the sidecars are not looked for.
RestoreBlindly(j) ==
  /\ At(j, "idle")
  /\ \E from, to \in Name :
       /\ from # to
       /\ task' = [task EXCEPT ![j] = [from |-> from, to |-> to]]
       /\ Goto(j, "extract")
  /\ UNCHANGED <<source, disk, copied, seen, staged, faults>>

\* restore: no sidecar may stand at the destination.
Restore(j) ==
  /\ At(j, "idle")
  /\ \E from, to \in Name :
       /\ from # to
       /\ IF sidecar[to] = "none"
            THEN /\ task' = [task EXCEPT ![j] = [from |-> from, to |-> to]]
                 /\ Goto(j, "extract")
                 /\ UNCHANGED <<copied, seen, staged>>
            ELSE End(j, "failed")
  /\ UNCHANGED <<source, disk, faults>>

\* Mutant of Extract: the archive itself is taken for the database.
ExtractArchive(j) ==
  /\ At(j, "extract")
  /\ LET archive == files[task[j].from] IN
     IF archive.form = "zip" /\ archive.db # Torn /\ archive.sum = archive.db
       THEN /\ staged' = [staged EXCEPT ![j] = archive]
            /\ Goto(j, "check")
            /\ UNCHANGED <<task, copied, seen>>
       ELSE End(j, "failed")
  /\ UNCHANGED <<source, disk, faults>>

\* The archive is opened, its database extracted and its checksum compared.
Extract(j) ==
  /\ At(j, "extract")
  /\ LET archive == files[task[j].from] IN
     IF archive.form = "zip" /\ archive.db # Torn /\ archive.sum = archive.db
       THEN /\ staged' = [staged EXCEPT ![j] = Database(archive.db)]
            /\ Goto(j, "check")
            /\ UNCHANGED <<task, copied, seen>>
       ELSE End(j, "failed")
  /\ UNCHANGED <<source, disk, faults>>

\* _check_database of what was extracted.
Verify(j) ==
  /\ At(j, "check") /\ ~IsBackup(j)
  /\ IF HasChain(staged[j].db)
       THEN Goto(j, "sync") /\ UNCHANGED local
       ELSE End(j, "failed")
  /\ UNCHANGED <<source, disk, faults>>

\* _publish, chmod and fsync.
Sync(j) ==
  /\ At(j, "sync")
  /\ staged' = [staged EXCEPT ![j].synced = TRUE]
  /\ Goto(j, "link")
  /\ UNCHANGED <<source, disk, task, copied, seen, faults>>

\* Mutant of Link: os.replace.
LinkReplaces(j) ==
  LET n == task[j].to IN
  /\ At(j, "link")
  /\ files' = [files EXCEPT ![n] = staged[j]]
  /\ unsynced' = unsynced \union {n}
  /\ Goto(j, "clean")
  /\ UNCHANGED <<source, sidecar, local, faults>>

\* Mutant of Link: a name that is taken is tried again.
LinkRetries(j) ==
  LET n == task[j].to IN
  /\ At(j, "link") /\ files[n] = Absent
  /\ files' = [files EXCEPT ![n] = staged[j]]
  /\ unsynced' = unsynced \union {n}
  /\ Goto(j, "clean")
  /\ UNCHANGED <<source, sidecar, local, faults>>

\* _publish, os.link: it fails if the name exists.
Link(j) ==
  LET n == task[j].to IN
  /\ At(j, "link")
  /\ IF files[n] = Absent
       THEN /\ files' = [files EXCEPT ![n] = staged[j]]
            /\ unsynced' = unsynced \union {n}
            /\ Goto(j, "clean") /\ UNCHANGED local
       ELSE End(j, "failed") /\ UNCHANGED <<files, unsynced>>
  /\ UNCHANGED <<source, sidecar, faults>>

\* The staging directory is removed; a failure of that is reported as one of all.
CleanUp(j) ==
  /\ At(j, "clean")
  /\ \E outcome \in {"ok", "failed"} : End(j, outcome)
  /\ UNCHANGED <<source, disk, faults>>

\* An OSError, sqlite3.Error or BadZipFile on the way: nothing is published.
Fail(j) ==
  /\ pc[j] \in {"copy", "extract", "check", "sync", "link"}
  /\ End(j, "failed")
  /\ UNCHANGED <<source, disk, faults>>

Step(j) ==
  CopyChunk(j) \/ Pack(j) \/ Extract(j) \/ Verify(j) \/ Sync(j) \/ Link(j) \/ CleanUp(j)

----------------------------------------------------------------------------
(* What goes on around it. *)

\* A server commits to the store.
Commit ==
  /\ Cardinality(versions) <= MaxCommits
  /\ \E written \in (SUBSET (1..Chunks)) \ {{}} :
       store' = [c \in 1..Chunks |-> IF c \in written THEN Cardinality(versions) ELSE store[c]]
  /\ versions' = versions \union {store'}
  /\ UNCHANGED <<legacy, disk, pc, local, faults>>

\* A server opens a path: a file that is not there is made, and sidecars that
\* have no file are dropped.
Serve(n) ==
  /\ files[n].form # "zip"
  /\ sidecar[n] # "own"
  /\ files' = [files EXCEPT ![n] = Live]
  /\ sidecar' = [sidecar EXCEPT ![n] = "own"]
  /\ UNCHANGED <<source, unsynced, pc, local, faults>>

\* The last server leaves, and its sidecars with it.
Leave(n) ==
  /\ sidecar[n] # "none"
  /\ sidecar' = [sidecar EXCEPT ![n] = "none"]
  /\ UNCHANGED <<source, files, unsynced, pc, local, faults>>

\* The operator removes a file, perhaps under a server that has it open, but not
\* the destination of a restore under way.
Remove(n) ==
  /\ files[n] # Absent
  /\ \A j \in Job : task[j].to # n
  /\ files' = [files EXCEPT ![n] = Absent]
  /\ sidecar' = [sidecar EXCEPT ![n] = IF @ = "own" THEN "stray" ELSE @]
  /\ unsynced' = unsynced \ {n}
  /\ UNCHANGED <<source, pc, local, faults>>

\* The directory reaches the disk; the tool does not wait for that.
SyncDirectory ==
  /\ unsynced # {} /\ unsynced' = {}
  /\ UNCHANGED <<source, files, sidecar, pc, local, faults>>

Fault == faults < MaxFaults /\ faults' = faults + 1

\* The medium changes an archive.
Damage(n) ==
  /\ Fault
  /\ files[n].form = "zip"
  /\ files' = [files EXCEPT ![n].db = Garbage]
  /\ UNCHANGED <<source, sidecar, unsynced, pc, local>>

Running(j) == pc[j] \notin {"idle", "ok", "failed"}

\* The process is killed, which is no success either, and its staging directory stays.
Die(j) ==
  /\ Fault
  /\ Running(j)
  /\ End(j, "failed")
  /\ UNCHANGED <<source, disk>>

\* A new name may be gone, and what was not synced is torn.
PowerLoss ==
  /\ Fault
  /\ \E gone \in SUBSET unsynced :
       files' = [n \in Name |->
                   IF n \in gone THEN Absent
                   ELSE IF files[n].form \in {"zip", "db"} /\ ~files[n].synced
                          THEN [files[n] EXCEPT !.db = Torn]
                          ELSE files[n]]
  /\ unsynced' = {}
  /\ pc' = [j \in Job |-> IF Running(j) THEN "failed" ELSE pc[j]]
  /\ task' = [j \in Job |-> NoTask]
  /\ copied' = [j \in Job |-> <<>>] /\ seen' = [j \in Job |-> Blank]
  /\ staged' = [j \in Job |-> Absent]
  /\ UNCHANGED <<source, sidecar>>

Rest == (\A j \in Job : pc[j] \in {"ok", "failed"}) /\ UNCHANGED vars

Next ==
  \/ \E j \in Job : Backup(j) \/ Restore(j) \/ Step(j) \/ Fail(j) \/ Die(j)
  \/ \E n \in Name : Serve(n) \/ Leave(n) \/ Remove(n) \/ Damage(n)
  \/ Commit \/ SyncDirectory \/ PowerLoss
  \/ Rest

Spec == Init /\ [][Next]_vars

\* A job that runs goes on; nothing is assumed of servers, operators and errors.
FairSpec == Spec /\ \A j \in Job : WF_vars(Step(j))

----------------------------------------------------------------------------
(* Properties. *)

File ==
  [form: {"zip"}, db: Contents \union {Garbage, Torn}, sum: Contents, synced: BOOLEAN]
    \union [form: {"db"}, db: Contents \union {Garbage, Torn}, synced: BOOLEAN]
    \union {Absent, Live}

\* Types of every variable.
TypeOK ==
  /\ store \in Contents /\ versions \subseteq Contents /\ legacy \in BOOLEAN
  /\ files \in [Name -> File]
  /\ sidecar \in [Name -> {"none", "own", "stray"}]
  /\ unsynced \subseteq Name
  /\ pc \in [Job -> {"idle", "copy", "extract", "check", "sync", "link", "clean", "ok",
                     "failed"}]
  /\ task \in [Job -> [from: Name \union {Store}, to: Name \union {Store}]]
  /\ copied \in [Job -> Seq(0..MaxCommits)]
  /\ \A j \in Job : Len(copied[j]) <= Chunks
  /\ seen \in [Job -> Contents]
  /\ staged \in [Job -> File]
  /\ \A j \in Job : staged[j].form = "zip" => IsBackup(j)
  /\ faults \in 0..MaxFaults

\* "capture a consistent snapshot ... while the server is running" (README.md:430)
\* and "publishes the complete file atomically" (memory_admin.py:38): an archive
\* holds one committed version of the store with its chain, unless its medium has
\* changed it since; a restored database holds one in any case, whatever dies when.
WholeOrAbsent ==
  \A n \in Name :
    /\ files[n].form = "zip" =>
         /\ files[n].sum \in versions /\ HasChain(files[n].sum)
         /\ files[n].db \in {files[n].sum, Garbage}
    /\ files[n].form = "db" => files[n].db \in versions /\ HasChain(files[n].db)

\* "Both commands refuse to overwrite existing files" (README.md:435), also the
\* ones that other jobs or servers make while they run: a file that stands at a
\* path never becomes another archive or restored database.
NothingOverwritten ==
  [][\A n \in Name :
       files[n] # Absent /\ files'[n] # files[n] =>
         files'[n] \in {Absent, Live} \/ files'[n].db \in {Garbage, Torn}]_vars

\* A restored database never stands beside the sidecars of another one, whose log
\* SQLite would take for its own (restore, memory_admin.py:59): servers may open
\* its name while the restore runs.
NoForeignSidecar ==
  \A n \in Name : files[n].form = "db" => sidecar[n] = "none"

\* A backup ends, although each commit makes it start over, once the commits do;
\* so does a restore, whoever takes its name.
EveryJobEnds == <>[](\A j \in Job : ~Running(j))

\* "make a pre-upgrade backup before opening a legacy database with the new server"
\* (README.md:420): what backup has copied can be archived.
PreUpgradeBackup ==
  \A j \in Job : At(j, "check") /\ IsBackup(j) => HasChain(staged[j].db)

----------------------------------------------------------------------------
(* The inductive invariant. *)

\* A content that may be published.
Publishable(content) == content \in versions /\ HasChain(content)

\* The history of the store.
StoreInv ==
  /\ store \in versions
  /\ IsFiniteSet(versions)

\* The chunks copied so far are those of the version last seen.
CopyInv ==
  \A j \in Job :
    /\ ~At(j, "copy") => copied[j] = <<>>
    /\ Len(copied[j]) < Chunks
    /\ \A c \in 1..Len(copied[j]) : copied[j][c] = seen[j][c]

\* What is staged: nothing, then a version, then one that may be published.
StagedInv ==
  \A j \in Job :
    /\ pc[j] \in {"idle", "copy", "extract", "ok", "failed"} => staged[j] = Absent
    /\ At(j, "check") => staged[j].form = "db" /\ staged[j].db \in versions
    /\ pc[j] \in {"sync", "link"} =>
         /\ staged[j].form = IF IsBackup(j) THEN "zip" ELSE "db"
         /\ IsBackup(j) => staged[j].sum = staged[j].db
         /\ Publishable(staged[j].db)
    /\ At(j, "link") => staged[j].synced

\* Where a job is and what it was asked to do.
TaskInv ==
  \A j \in Job :
    /\ pc[j] \in {"idle", "ok", "failed"} <=> task[j] = NoTask
    /\ At(j, "copy") => IsBackup(j)
    /\ At(j, "extract") => ~IsBackup(j)
    /\ Running(j) => task[j].to \in Name

\* No file is published before it is synced.
SyncedInv == \A n \in Name : files[n].form \in {"zip", "db"} => files[n].synced

\* As long as nothing stands at the destination of a restore, no sidecar does.
DestinationInv ==
  \A j \in Job :
    Running(j) /\ ~IsBackup(j) /\ files[task[j].to] = Absent => sidecar[task[j].to] = "none"

IInv ==
  /\ TypeOK /\ StoreInv /\ CopyInv /\ StagedInv /\ TaskInv /\ SyncedInv /\ DestinationInv
  /\ WholeOrAbsent /\ NoForeignSidecar

====
