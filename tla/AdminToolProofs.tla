---- MODULE AdminToolProofs ----
(***************************************************************************)
(* Proofs about AdminTool, for any number of jobs, names, chunks, commits  *)
(* and faults.                                                             *)
(***************************************************************************)
EXTENDS AdminTool, FiniteSetTheorems, SequenceTheorems, TLAPS

ZipFile == [form: {"zip"}, db: Contents \union {Garbage, Torn}, sum: Contents, synced: BOOLEAN]
DbFile == [form: {"db"}, db: Contents \union {Garbage, Torn}, synced: BOOLEAN]

\* What can stand at a path, by its form.
LEMMA FileForms ==
  ASSUME NEW f \in File
  PROVE  /\ f.form \in {"absent", "live", "zip", "db"}
         /\ f.form = "zip" => f \in ZipFile
         /\ f.form = "db" => f \in DbFile
         /\ f.form = "absent" <=> f = Absent
         /\ f.form = "live" <=> f = Live
  BY DEF File, ZipFile, DbFile, Absent, Live

\* Each form is a file.
LEMMA FormFiles == ZipFile \subseteq File /\ DbFile \subseteq File /\ Absent \in File /\ Live \in File
  BY DEF File, ZipFile, DbFile

\* The blank store is a content, and a snapshot or an archive of a content a file.
LEMMA Blanks == Blank \in Contents /\ Blank \in [1..Chunks -> 0..MaxCommits]
  BY AdminAssumption DEF Blank, Contents

\* An archive or a snapshot that is made holds the content it is made of.
LEMMA MadeFiles ==
  ASSUME NEW content \in Contents
  PROVE  /\ Archive(content) \in ZipFile
         /\ Archive(content).db = content /\ Archive(content).sum = content
         /\ Database(content) \in DbFile
         /\ Database(content).db = content
  BY DEF Archive, Database, ZipFile, DbFile

\* fsync sets a file's mark and nothing else.
LEMMA FileSynced ==
  ASSUME NEW f \in ZipFile \union DbFile
  PROVE  LET new == [f EXCEPT !.synced = TRUE] IN
         /\ f \in ZipFile => new \in ZipFile /\ new.sum = f.sum
         /\ f \in DbFile => new \in DbFile
         /\ new.form = f.form /\ new.db = f.db /\ new.synced
  BY DEF ZipFile, DbFile

\* The medium, or a power loss, changes the pages of a file and nothing else.
LEMMA FileChanged ==
  ASSUME NEW f \in ZipFile \union DbFile, NEW content \in Contents \union {Garbage, Torn}
  PROVE  LET new == [f EXCEPT !.db = content] IN
         /\ f \in ZipFile => new \in ZipFile /\ new.sum = f.sum
         /\ f \in DbFile => new \in DbFile
         /\ new.form = f.form /\ new.db = content /\ new.synced = f.synced
  BY DEF ZipFile, DbFile

\* Publishable depends on the history and the kind of store alone.
LEMMA PublishableStays ==
  ASSUME UNCHANGED source
  PROVE  \A content : /\ HasChain(content)' <=> HasChain(content)
                      /\ Publishable(content)' <=> Publishable(content)
  BY DEF HasChain, Publishable, source

----------------------------------------------------------------------------
(* The initial states. *)

\* The inductive invariant holds initially: an archive made before is synced and whole.
THEOREM InitHolds == Init => IInv
<1> SUFFICES ASSUME Init PROVE IInv
  OBVIOUS
<1> USE AdminAssumption, Blanks
<1>1. \A n \in Name :
        \/ files[n] = Absent
        \/ ~legacy /\ files[n] = [Archive(Blank) EXCEPT !.synced = TRUE]
  BY DEF Init
<1>2. LET archive == [Archive(Blank) EXCEPT !.synced = TRUE] IN
      archive \in ZipFile /\ archive.db = Blank /\ archive.sum = Blank /\ archive.synced
  BY MadeFiles, FileSynced DEF Archive
<1>3. \A n \in Name :
        \/ files[n] = Absent
        \/ /\ ~legacy /\ files[n] \in ZipFile /\ files[n].form = "zip"
           /\ files[n].sum = Blank /\ files[n].db = Blank /\ files[n].synced
  BY <1>1, <1>2 DEF ZipFile
<1>4. files \in [Name -> File]
  BY <1>3, FormFiles DEF Init
<1>5. TypeOK
  <2>1. task \in [Job -> [from: Name \union {Store}, to: Name \union {Store}]]
    BY DEF Init, NoTask
  <2>2. copied \in [Job -> Seq(0..MaxCommits)] /\ \A j \in Job : Len(copied[j]) <= Chunks
    BY EmptySeq DEF Init
  <2>3. staged \in [Job -> File] /\ \A j \in Job : staged[j].form # "zip"
    BY FormFiles DEF Init, Absent
  <2> QED
    BY <1>4, <2>1, <2>2, <2>3 DEF Init, TypeOK
<1>6. StoreInv
  BY FS_Singleton DEF Init, StoreInv
<1>7. CopyInv /\ StagedInv /\ TaskInv /\ DestinationInv
  BY EmptySeq DEF Init, CopyInv, StagedInv, TaskInv, DestinationInv, At, Running
<1>8. SyncedInv /\ WholeOrAbsent /\ NoForeignSidecar
  BY <1>3 DEF Init, SyncedInv, WholeOrAbsent, NoForeignSidecar, HasChain, Absent
<1> QED
  BY <1>5, <1>6, <1>7, <1>8 DEF IInv

----------------------------------------------------------------------------
(* The steps of a job. *)

\* What holds of the store and of the files is not touched by a step that leaves
\* them alone.
LEMMA DiskKept ==
  ASSUME IInv, UNCHANGED <<source, disk>>
  PROVE  StoreInv' /\ SyncedInv' /\ WholeOrAbsent' /\ NoForeignSidecar'
<1> USE DEF IInv, source, disk
<1>1. StoreInv' /\ SyncedInv' /\ NoForeignSidecar'
  BY DEF StoreInv, SyncedInv, NoForeignSidecar
<1>2. WholeOrAbsent'
  BY DEF WholeOrAbsent, HasChain
<1> QED
  BY <1>1, <1>2

\* A job that ends, well or not, leaves nothing of its own.
LEMMA EndStep ==
  ASSUME IInv, NEW j \in Job, NEW outcome \in {"ok", "failed"}, End(j, outcome),
         UNCHANGED <<source, disk>>, faults' \in 0..MaxFaults
  PROVE  IInv'
<1> USE AdminAssumption, Blanks DEF IInv, End, Goto, source, disk
<1>1. TypeOK'
  <2>1. pc' \in [Job -> {"idle", "copy", "extract", "check", "sync", "link", "clean", "ok",
                         "failed"}]
    BY DEF TypeOK
  <2>2. task' \in [Job -> [from: Name \union {Store}, to: Name \union {Store}]]
    BY DEF TypeOK, NoTask
  <2>3. copied' \in [Job -> Seq(0..MaxCommits)] /\ \A k \in Job : Len(copied'[k]) <= Chunks
    BY EmptySeq DEF TypeOK
  <2>4. seen' \in [Job -> Contents]
    BY DEF TypeOK
  <2>5. staged' \in [Job -> File]
    BY FormFiles DEF TypeOK
  <2>6. \A k \in Job : staged'[k].form = "zip" => IsBackup(k)'
    <3> TAKE k \in Job
    <3>1. CASE k = j
      BY <3>1 DEF TypeOK, Absent
    <3>2. CASE k # j
      BY <3>2 DEF TypeOK, IsBackup
    <3> QED
      BY <3>1, <3>2
  <2> QED
    BY <2>1, <2>2, <2>3, <2>4, <2>5, <2>6 DEF TypeOK
<1>2. CopyInv'
  BY EmptySeq DEF TypeOK, CopyInv, At
<1>3. StagedInv'
  BY PublishableStays DEF TypeOK, StagedInv, At, IsBackup
<1>4. TaskInv'
  BY DEF TypeOK, TaskInv, At, IsBackup, Running
<1>5. DestinationInv'
  BY DEF TypeOK, DestinationInv, IsBackup, Running
<1> QED
  BY <1>1, <1>2, <1>3, <1>4, <1>5, DiskKept

\* A backup that starts has copied nothing.
LEMMA BackupStep ==
  ASSUME IInv, NEW j \in Job, Backup(j)
  PROVE  IInv'
<1> USE AdminAssumption DEF IInv, Backup, At, Goto
<1>1. PICK n \in Name : task' = [task EXCEPT ![j] = [from |-> Store, to |-> n]]
  OBVIOUS
<1>2. StoreInv' /\ SyncedInv' /\ WholeOrAbsent' /\ NoForeignSidecar'
  BY DiskKept
<1> USE DEF source, disk
<1>3. TypeOK'
  BY <1>1 DEF TypeOK, StagedInv, IsBackup, Absent
<1>4. CopyInv'
  BY DEF TypeOK, CopyInv, TaskInv
<1>5. TaskInv' /\ DestinationInv'
  BY <1>1 DEF TypeOK, TaskInv, DestinationInv, IsBackup, Running, NoTask
<1>6. StagedInv'
  BY <1>1, PublishableStays DEF TypeOK, StagedInv, IsBackup
<1> QED
  BY <1>2, <1>3, <1>4, <1>5, <1>6

\* A restore starts with no sidecar at its destination, or ends at once.
LEMMA RestoreStep ==
  ASSUME IInv, NEW j \in Job, Restore(j)
  PROVE  IInv'
<1> USE AdminAssumption DEF IInv, Restore, At, Goto
<1>1. PICK from \in Name, to \in Name :
        IF sidecar[to] = "none"
          THEN /\ task' = [task EXCEPT ![j] = [from |-> from, to |-> to]]
               /\ pc' = [pc EXCEPT ![j] = "extract"]
               /\ UNCHANGED <<copied, seen, staged>>
          ELSE End(j, "failed")
  OBVIOUS
<1>2. CASE sidecar[to] # "none"
  BY <1>1, <1>2, EndStep DEF TypeOK
<1>3. CASE sidecar[to] = "none"
  <2>1. StoreInv' /\ SyncedInv' /\ WholeOrAbsent' /\ NoForeignSidecar'
    BY DiskKept
  <2> USE DEF source, disk
  <2>a. /\ task' = [task EXCEPT ![j] = [from |-> from, to |-> to]]
        /\ pc' = [pc EXCEPT ![j] = "extract"]
        /\ UNCHANGED <<copied, seen, staged>>
    BY <1>1, <1>3
  <2>b. staged[j] = Absent
    BY DEF StagedInv
  <2>2. TypeOK'
    BY <2>a, <2>b DEF TypeOK, IsBackup, Absent
  <2>3. CopyInv'
    BY <2>a DEF TypeOK, CopyInv
  <2>4. TaskInv'
    BY <2>a DEF TypeOK, TaskInv, IsBackup, Running, NoTask
  <2>c. DestinationInv'
    BY <1>3, <2>a DEF TypeOK, TaskInv, DestinationInv, IsBackup, Running, NoTask
  <2>5. StagedInv'
    BY <1>1, <1>3, PublishableStays DEF TypeOK, StagedInv, IsBackup
  <2> QED
    BY <2>1, <2>2, <2>3, <2>4, <2>5, <2>c
<1> QED
  BY <1>2, <1>3

\* A chunk copied after those of the same version is another chunk of it, and
\* the last one makes the copy that version.
LEMMA ChunkCopied ==
  ASSUME store \in Contents, NEW sofar \in Seq(0..MaxCommits), Len(sofar) < Chunks,
         \A c \in 1..Len(sofar) : sofar[c] = store[c]
  PROVE  LET copy == Append(sofar, store[Len(sofar) + 1]) IN
         /\ copy \in Seq(0..MaxCommits)
         /\ Len(copy) \in Nat /\ Len(copy) <= Chunks
         /\ \A c \in 1..Len(copy) : copy[c] = store[c]
         /\ Len(copy) = Chunks => copy = store
<1> DEFINE copy == Append(sofar, store[Len(sofar) + 1])
<1> USE AdminAssumption
<1>1. Len(sofar) \in Nat
  BY LenProperties
<1>2. store[Len(sofar) + 1] \in 0..MaxCommits
  BY <1>1 DEF Contents
<1>3. /\ copy \in Seq(0..MaxCommits)
      /\ Len(copy) = Len(sofar) + 1
      /\ \A c \in 1..Len(sofar) : copy[c] = sofar[c]
      /\ copy[Len(sofar) + 1] = store[Len(sofar) + 1]
  BY <1>2, AppendProperties
<1>4. \A c \in 1..Len(copy) : copy[c] = store[c]
  BY <1>1, <1>3
<1>5. ASSUME Len(copy) = Chunks PROVE copy = store
  <2>1. copy \in [1..Chunks -> 0..MaxCommits]
    BY <1>3, <1>5, LenProperties
  <2> HIDE DEF copy
  <2> QED
    BY <2>1, <1>4, <1>5 DEF Contents
<1> QED
  BY <1>1, <1>3, <1>4, <1>5

\* A chunk extends the copy of the version last seen, and the last one stages it.
LEMMA CopyStep ==
  ASSUME IInv, NEW j \in Job, CopyChunk(j)
  PROVE  IInv'
<1> USE AdminAssumption DEF IInv, At
<1> DEFINE sofar == IF seen[j] = store THEN copied[j] ELSE <<>>
<1> DEFINE copy == Append(sofar, store[Len(sofar) + 1])
<1>1. /\ sofar \in Seq(0..MaxCommits) /\ Len(sofar) < Chunks
      /\ \A c \in 1..Len(sofar) : sofar[c] = store[c]
  <2>1. CASE seen[j] = store
    BY <2>1 DEF CopyInv, TypeOK
  <2>2. CASE seen[j] # store
    BY <2>2, EmptySeq
  <2> QED
    BY <2>1, <2>2
<1>2. /\ copy \in Seq(0..MaxCommits)
      /\ Len(copy) \in Nat /\ Len(copy) <= Chunks
      /\ \A c \in 1..Len(copy) : copy[c] = store[c]
      /\ Len(copy) = Chunks => copy = store
  BY <1>1, ChunkCopied DEF TypeOK
<1>3. pc[j] = "copy" /\ Copy(j, sofar)
  BY DEF CopyChunk
<1>4. StoreInv' /\ SyncedInv' /\ WholeOrAbsent' /\ NoForeignSidecar'
  BY <1>3, DiskKept DEF Copy
<1>5. IsBackup(j) /\ UNCHANGED <<source, disk, task, faults>>
  BY <1>3 DEF TaskInv, Copy
<1>6. CASE Len(copy) = Chunks
  <2>1. /\ copied' = [copied EXCEPT ![j] = <<>>]
        /\ seen' = [seen EXCEPT ![j] = Blank]
        /\ staged' = [staged EXCEPT ![j] = Database(store)]
        /\ pc' = [pc EXCEPT ![j] = "check"]
    BY <1>2, <1>3, <1>6 DEF Copy, Goto
  <2>2. Database(store) \in DbFile /\ Database(store).db = store
    BY MadeFiles DEF TypeOK
  <2>a. Database(store) \in File /\ Database(store).form = "db"
    BY <2>2, FormFiles DEF DbFile
  <2> HIDE DEF copy, sofar
  <2> USE DEF source, disk
  <2>3. TypeOK'
    BY <1>5, <2>1, <2>a, Blanks, EmptySeq DEF TypeOK, IsBackup
  <2>4. CopyInv'
    BY <2>1, EmptySeq DEF TypeOK, CopyInv
  <2>5. TaskInv' /\ DestinationInv'
    BY <1>3, <1>5, <2>1 DEF TypeOK, TaskInv, DestinationInv, IsBackup, Running
  <2>6. StagedInv'
    BY <1>5, <2>1, <2>2, <2>a, PublishableStays DEF TypeOK, StagedInv, IsBackup, StoreInv
  <2> QED
    BY <1>4, <2>3, <2>4, <2>5, <2>6
<1>7. CASE Len(copy) # Chunks
  <2>1. /\ copied' = [copied EXCEPT ![j] = copy]
        /\ seen' = [seen EXCEPT ![j] = store]
        /\ staged' = [staged EXCEPT ![j] = Absent]
        /\ pc' = [pc EXCEPT ![j] = "copy"]
    BY <1>3, <1>7 DEF Copy, Goto
  <2> HIDE DEF copy, sofar
  <2> USE DEF source, disk
  <2>2. TypeOK'
    BY <1>2, <1>5, <2>1, FormFiles DEF TypeOK, IsBackup, Absent
  <2>3. CopyInv'
    BY <1>2, <1>7, <2>1 DEF TypeOK, CopyInv
  <2>4. TaskInv' /\ DestinationInv'
    BY <1>3, <1>5, <2>1 DEF TypeOK, TaskInv, DestinationInv, IsBackup, Running
  <2>5. StagedInv'
    BY <1>5, <2>1, PublishableStays DEF TypeOK, StagedInv, IsBackup
  <2> QED
    BY <1>4, <2>2, <2>3, <2>4, <2>5
<1> QED
  BY <1>6, <1>7

\* A job of which only the staged file and the place change.
LEMMA StagedStep ==
  ASSUME IInv, NEW j \in Job, NEW file \in File, NEW label \in {"check", "sync", "link"},
         staged' = [staged EXCEPT ![j] = file], pc' = [pc EXCEPT ![j] = label],
         pc[j] \in {"extract", "check", "sync"},
         UNCHANGED <<source, disk, task, copied, seen, faults>>,
         file.form = "zip" => IsBackup(j),
         label = "check" => file.form = "db" /\ file.db \in versions,
         label \in {"sync", "link"} =>
           /\ file.form = IF IsBackup(j) THEN "zip" ELSE "db"
           /\ IsBackup(j) => file.sum = file.db
           /\ Publishable(file.db),
         label = "link" => file.synced
  PROVE  IInv'
<1> USE AdminAssumption DEF IInv, At
<1>1. StoreInv' /\ SyncedInv' /\ WholeOrAbsent' /\ NoForeignSidecar'
  BY DiskKept
<1> USE DEF source, disk
<1>2. TypeOK'
  BY DEF TypeOK, IsBackup
<1>3. CopyInv'
  BY DEF TypeOK, CopyInv
<1>4. TaskInv' /\ DestinationInv'
  BY DEF TypeOK, TaskInv, DestinationInv, IsBackup, Running
<1>5. StagedInv'
  BY PublishableStays DEF TypeOK, StagedInv, IsBackup
<1> QED
  BY <1>1, <1>2, <1>3, <1>4, <1>5

\* A backup archives a snapshot only if it has a chain.
LEMMA PackStep ==
  ASSUME IInv, NEW j \in Job, Pack(j)
  PROVE  IInv'
<1> USE DEF IInv, Pack, At
<1>1. CASE ~HasChain(staged[j].db)
  BY <1>1, EndStep DEF TypeOK
<1>2. CASE HasChain(staged[j].db)
  <2>1. staged[j].db \in versions /\ staged[j].db \in Contents
    BY DEF StagedInv, TypeOK
  <2>2. Archive(staged[j].db) \in File /\ Archive(staged[j].db).form = "zip"
    BY <2>1, MadeFiles, FormFiles DEF ZipFile
  <2>3. Archive(staged[j].db).db = staged[j].db /\ Archive(staged[j].db).sum = staged[j].db
    BY <2>1, MadeFiles
  <2>4. /\ staged' = [staged EXCEPT ![j] = Archive(staged[j].db)]
        /\ pc' = [pc EXCEPT ![j] = "sync"]
    BY <1>2 DEF Goto
  <2> QED
    BY <1>2, <2>1, <2>2, <2>3, <2>4, StagedStep DEF Publishable
<1> QED
  BY <1>1, <1>2

\* A restore stages what an archive recorded, which is a version.
LEMMA ExtractStep ==
  ASSUME IInv, NEW j \in Job, Extract(j)
  PROVE  IInv'
<1> DEFINE archive == files[task[j].from]
           good == archive.form = "zip" /\ archive.db # Torn /\ archive.sum = archive.db
<1> USE DEF IInv, Extract, At
<1>1. CASE ~good
  BY <1>1, EndStep DEF TypeOK
<1>2. CASE good
  <2>1. task[j].from \in Name /\ ~IsBackup(j)
    BY DEF TaskInv, TypeOK, IsBackup
  <2>2. archive.sum \in versions
    BY <1>2, <2>1 DEF WholeOrAbsent
  <2>3. archive.db \in versions /\ archive.db \in Contents
    BY <1>2, <2>2 DEF TypeOK
  <2>4. /\ Database(archive.db) \in File /\ Database(archive.db).form = "db"
        /\ Database(archive.db).db = archive.db
    BY <2>3, MadeFiles, FormFiles DEF DbFile
  <2>5. /\ staged' = [staged EXCEPT ![j] = Database(archive.db)]
        /\ pc' = [pc EXCEPT ![j] = "check"]
    BY <1>2 DEF Goto
  <2> QED
    BY <1>2, <2>3, <2>4, <2>5, StagedStep
<1> QED
  BY <1>1, <1>2

\* A restore goes on only with a database that has a chain.
LEMMA VerifyStep ==
  ASSUME IInv, NEW j \in Job, Verify(j)
  PROVE  IInv'
<1> USE DEF IInv, Verify, At
<1>1. CASE ~HasChain(staged[j].db)
  BY <1>1, EndStep DEF TypeOK
<1>2. CASE HasChain(staged[j].db)
  <2>1. staged[j] \in File /\ staged[j].form = "db" /\ staged[j].db \in versions
    BY DEF StagedInv, TypeOK
  <2>2. staged' = [staged EXCEPT ![j] = staged[j]] /\ pc' = [pc EXCEPT ![j] = "sync"]
    BY <1>2 DEF Goto, local, TypeOK
  <2> QED
    BY <1>2, <2>1, <2>2, StagedStep DEF Publishable, local
<1> QED
  BY <1>1, <1>2

\* fsync changes nothing but the mark of the staged file.
LEMMA SyncStep ==
  ASSUME IInv, NEW j \in Job, Sync(j)
  PROVE  IInv'
<1> USE DEF IInv, Sync, At
<1> DEFINE new == [staged[j] EXCEPT !.synced = TRUE]
<1>1. /\ staged[j] \in File
      /\ staged[j].form = IF IsBackup(j) THEN "zip" ELSE "db"
      /\ IsBackup(j) => staged[j].sum = staged[j].db
      /\ Publishable(staged[j].db)
  BY DEF StagedInv, TypeOK
<1>2. staged[j] \in ZipFile \union DbFile
  BY <1>1, FileForms
<1>3. /\ new \in ZipFile \union DbFile
      /\ new.form = staged[j].form /\ new.db = staged[j].db /\ new.synced
      /\ staged[j] \in ZipFile => new.sum = staged[j].sum
  BY <1>2, FileSynced
<1>4. staged[j].form = "zip" => staged[j] \in ZipFile
  BY <1>1, FileForms
<1>5. staged' = [staged EXCEPT ![j] = new] /\ pc' = [pc EXCEPT ![j] = "link"]
  BY DEF Goto
<1>6. new \in File
  BY <1>3, FormFiles
<1> HIDE DEF new
<1>7. IsBackup(j) => new.sum = new.db
  BY <1>1, <1>3, <1>4
<1> QED
  BY <1>1, <1>3, <1>5, <1>6, <1>7, StagedStep

\* What is linked is synced, may be published and, restored, meets no sidecar.
LEMMA LinkStep ==
  ASSUME IInv, NEW j \in Job, Link(j)
  PROVE  IInv'
<1> USE DEF IInv, Link, At
<1>1. CASE files[task[j].to] # Absent
  BY <1>1, EndStep DEF TypeOK, disk
<1>2. CASE files[task[j].to] = Absent
  <2> DEFINE to == task[j].to
             file == staged[j]
  <2>1. /\ to \in Name /\ file \in File /\ file.synced
        /\ file.form = IF IsBackup(j) THEN "zip" ELSE "db"
        /\ IsBackup(j) => file.sum = file.db
        /\ Publishable(file.db)
    BY DEF TaskInv, Running, StagedInv, TypeOK
  <2>2. /\ files' = [files EXCEPT ![to] = file]
        /\ unsynced' = unsynced \union {to}
        /\ pc' = [pc EXCEPT ![j] = "clean"]
        /\ pc[j] = "link"
        /\ UNCHANGED <<source, local, sidecar, faults>>
    BY <1>2 DEF Goto
  <2>3. ~IsBackup(j) => sidecar[to] = "none"
    BY <1>2 DEF DestinationInv, Running
  <2> HIDE DEF to, file, Link
  <2> USE DEF source, local
  <2>4. TypeOK'
    BY <2>1, <2>2 DEF TypeOK, IsBackup
  <2>5. StoreInv' /\ CopyInv' /\ SyncedInv' /\ NoForeignSidecar'
    <3>1. StoreInv' /\ CopyInv'
      BY <2>2 DEF StoreInv, TypeOK, CopyInv
    <3>2. SyncedInv'
      BY <2>1, <2>2 DEF TypeOK, SyncedInv
    <3>3. NoForeignSidecar'
      BY <2>1, <2>2, <2>3 DEF TypeOK, NoForeignSidecar
    <3> QED
      BY <3>1, <3>2, <3>3
  <2>6. WholeOrAbsent'
    BY <2>1, <2>2, PublishableStays DEF TypeOK, WholeOrAbsent, Publishable
  <2>7. TaskInv' /\ DestinationInv'
    <3>1. TaskInv'
      BY <2>2 DEF TypeOK, TaskInv, IsBackup, Running
    <3>2. file # Absent
      BY <2>1 DEF Absent
    <3>3. DestinationInv'
      BY <2>1, <2>2, <3>2 DEF TypeOK, TaskInv, DestinationInv, IsBackup, Running, to
    <3> QED
      BY <3>1, <3>3
  <2>8. StagedInv'
    BY <2>2, PublishableStays DEF TypeOK, StagedInv, IsBackup
  <2> QED
    BY <2>4, <2>5, <2>6, <2>7, <2>8
<1> QED
  BY <1>1, <1>2

----------------------------------------------------------------------------
(* The steps of the world around. *)

\* A step that leaves the jobs alone and adds at most a version.
LEMMA JobsKept ==
  ASSUME IInv, UNCHANGED <<pc, local, legacy>>, versions \subseteq versions'
  PROVE  CopyInv' /\ StagedInv' /\ TaskInv'
<1> USE DEF IInv, local
<1>1. CopyInv' /\ TaskInv'
  BY DEF CopyInv, TaskInv, At, IsBackup, Running
<1>2. StagedInv'
  BY DEF StagedInv, At, IsBackup, Publishable, HasChain
<1> QED
  BY <1>1, <1>2

\* A commit adds a version and keeps those that were published.
LEMMA CommitStep ==
  ASSUME IInv, Commit
  PROVE  IInv'
<1> USE AdminAssumption DEF IInv, Commit
<1>1. CopyInv' /\ StagedInv' /\ TaskInv'
  BY JobsKept
<1>2. Cardinality(versions) \in 0..MaxCommits
  BY FS_CardinalityType DEF StoreInv
<1>3. store' \in Contents
  BY <1>2 DEF TypeOK, Contents
<1>4. StoreInv'
  BY FS_AddElement DEF StoreInv
<1> USE DEF disk, local
<1>5. TypeOK'
  BY <1>3 DEF TypeOK, IsBackup
<1>6. SyncedInv' /\ NoForeignSidecar' /\ DestinationInv'
  BY DEF SyncedInv, NoForeignSidecar, DestinationInv, Running, IsBackup
<1>7. WholeOrAbsent'
  BY DEF WholeOrAbsent, HasChain
<1> QED
  BY <1>1, <1>4, <1>5, <1>6, <1>7

\* A server turns what it opens into its own, sidecars included.
LEMMA ServeStep ==
  ASSUME IInv, NEW n \in Name, Serve(n)
  PROVE  IInv'
<1> USE DEF IInv, Serve
<1>1. CopyInv' /\ StagedInv' /\ TaskInv'
  BY JobsKept DEF source
<1> USE DEF source, local
<1>2. TypeOK' /\ StoreInv'
  BY FormFiles DEF TypeOK, StoreInv, IsBackup
<1>3. SyncedInv' /\ NoForeignSidecar' /\ WholeOrAbsent'
  BY DEF TypeOK, SyncedInv, NoForeignSidecar, WholeOrAbsent, HasChain, Live
<1>4. DestinationInv'
  <2>1. Live # Absent
    BY DEF Live, Absent
  <2> QED
    BY <2>1 DEF TypeOK, TaskInv, DestinationInv, Running, IsBackup
<1> QED
  BY <1>1, <1>2, <1>3, <1>4

\* A server that leaves takes its sidecars with it.
LEMMA LeaveStep ==
  ASSUME IInv, NEW n \in Name, Leave(n)
  PROVE  IInv'
<1> USE DEF IInv, Leave
<1>1. CopyInv' /\ StagedInv' /\ TaskInv'
  BY JobsKept DEF source
<1> USE DEF source, local
<1>2. TypeOK' /\ StoreInv'
  BY DEF TypeOK, StoreInv, IsBackup
<1>3. SyncedInv' /\ NoForeignSidecar' /\ WholeOrAbsent'
  BY DEF TypeOK, SyncedInv, NoForeignSidecar, WholeOrAbsent, HasChain
<1>4. DestinationInv'
  BY DEF TypeOK, TaskInv, DestinationInv, Running, IsBackup
<1> QED
  BY <1>1, <1>2, <1>3, <1>4

\* No file is removed at the destination of a job under way.
LEMMA RemoveStep ==
  ASSUME IInv, NEW n \in Name, Remove(n)
  PROVE  IInv'
<1> USE DEF IInv, Remove
<1>1. CopyInv' /\ StagedInv' /\ TaskInv'
  BY JobsKept DEF source
<1> USE DEF source, local
<1>2. TypeOK' /\ StoreInv'
  BY FormFiles DEF TypeOK, StoreInv, IsBackup
<1>3. SyncedInv' /\ NoForeignSidecar' /\ WholeOrAbsent'
  BY DEF TypeOK, SyncedInv, NoForeignSidecar, WholeOrAbsent, HasChain, Absent
<1>4. DestinationInv'
  BY DEF TypeOK, TaskInv, DestinationInv, Running, IsBackup
<1> QED
  BY <1>1, <1>2, <1>3, <1>4

\* A file whose medium has changed stays what it was, its content apart.
LEMMA DamageStep ==
  ASSUME IInv, NEW n \in Name, Damage(n)
  PROVE  IInv'
<1> USE DEF IInv, Damage, Fault
<1> DEFINE new == [files[n] EXCEPT !.db = Garbage]
<1>1. files[n] \in ZipFile
  BY FileForms DEF TypeOK
<1>2. /\ new \in ZipFile /\ new.form = "zip" /\ new.db = Garbage
      /\ new.sum = files[n].sum /\ new.synced = files[n].synced
  BY <1>1, FileChanged DEF ZipFile
<1>3. files' = [files EXCEPT ![n] = new]
  OBVIOUS
<1>4. CopyInv' /\ StagedInv' /\ TaskInv'
  BY JobsKept DEF source
<1> HIDE DEF new, Damage
<1>5. faults' \in 0..MaxFaults /\ UNCHANGED <<source, sidecar, unsynced, pc, local>>
  BY AdminAssumption DEF Damage, TypeOK
<1> USE DEF source, local
<1>6. TypeOK' /\ StoreInv'
  BY <1>2, <1>3, <1>5, FormFiles DEF TypeOK, StoreInv, IsBackup
<1>7. SyncedInv' /\ NoForeignSidecar'
  BY <1>2, <1>3, <1>5 DEF TypeOK, SyncedInv, NoForeignSidecar, Damage
<1>8. WholeOrAbsent'
  BY <1>2, <1>3, <1>5 DEF TypeOK, WholeOrAbsent, HasChain, Damage
<1>9. DestinationInv'
  <2>1. new # Absent
    BY <1>2 DEF Absent
  <2> QED
    BY <1>3, <1>5, <2>1 DEF TypeOK, TaskInv, DestinationInv, Running, IsBackup
<1> QED
  BY <1>4, <1>6, <1>7, <1>8, <1>9

\* A power loss ends the jobs; every file it leaves was synced.
LEMMA PowerLossStep ==
  ASSUME IInv, PowerLoss
  PROVE  IInv'
<1> USE AdminAssumption, Blanks DEF IInv, PowerLoss, Fault
<1>1. \A n \in Name : files'[n] \in {Absent, files[n]}
  BY DEF SyncedInv
<1>2. files' \in [Name -> File]
  BY <1>1, FormFiles DEF TypeOK
<1> HIDE DEF PowerLoss
<1>3. /\ unsynced' = {}
      /\ pc' = [j \in Job |-> IF Running(j) THEN "failed" ELSE pc[j]]
      /\ task' = [j \in Job |-> NoTask]
      /\ copied' = [j \in Job |-> <<>>] /\ seen' = [j \in Job |-> Blank]
      /\ staged' = [j \in Job |-> Absent]
      /\ UNCHANGED <<store, versions, legacy, sidecar>>
      /\ faults' \in 0..MaxFaults
  BY DEF PowerLoss, source, TypeOK
<1>4. pc' \in [Job -> {"idle", "ok", "failed"}]
  BY <1>3 DEF TypeOK, Running
<1>5. TypeOK'
  <2>1. task' \in [Job -> [from: Name \union {Store}, to: Name \union {Store}]]
    BY <1>3 DEF NoTask
  <2>2. copied' \in [Job -> Seq(0..MaxCommits)] /\ \A j \in Job : Len(copied'[j]) <= Chunks
    BY <1>3, EmptySeq
  <2>3. staged' \in [Job -> File] /\ \A j \in Job : staged'[j].form # "zip"
    BY <1>3, FormFiles DEF Absent
  <2> QED
    BY <1>2, <1>3, <1>4, <2>1, <2>2, <2>3 DEF TypeOK
<1>6. StoreInv' /\ StagedInv' /\ TaskInv' /\ DestinationInv'
  BY <1>3, <1>4 DEF StoreInv, StagedInv, TaskInv, DestinationInv, At, Running
<1>7. CopyInv'
  BY <1>3, <1>4, EmptySeq DEF CopyInv, At
<1>8. SyncedInv' /\ NoForeignSidecar' /\ WholeOrAbsent'
  <2>1. \A n \in Name : files'[n].form \in {"zip", "db"} => files'[n] = files[n]
    BY <1>1 DEF Absent
  <2>2. SyncedInv' /\ NoForeignSidecar'
    BY <1>3, <2>1 DEF SyncedInv, NoForeignSidecar
  <2>3. WholeOrAbsent'
    BY <1>3, <2>1 DEF WholeOrAbsent, HasChain
  <2> QED
    BY <2>2, <2>3
<1> QED
  BY <1>5, <1>6, <1>7, <1>8

----------------------------------------------------------------------------
(* The theorems. *)

\* Every step preserves the inductive invariant.
THEOREM StepHolds == IInv /\ [Next]_vars => IInv'
<1> SUFFICES ASSUME IInv, [Next]_vars PROVE IInv'
  OBVIOUS
<1>1. ASSUME NEW j \in Job, Step(j) PROVE IInv'
  <2>1. ASSUME CleanUp(j) PROVE IInv'
    BY <2>1, EndStep DEF CleanUp, IInv, TypeOK
  <2> QED
    BY <1>1, <2>1, CopyStep, PackStep, ExtractStep, VerifyStep, SyncStep, LinkStep DEF Step
<1>2. ASSUME NEW j \in Job, Fail(j) PROVE IInv'
  BY <1>2, EndStep DEF Fail, IInv, TypeOK
<1>3. ASSUME NEW j \in Job, Die(j) PROVE IInv'
  <2>1. faults' \in 0..MaxFaults
    BY <1>3, AdminAssumption DEF Die, Fault, IInv, TypeOK
  <2> QED
    BY <1>3, <2>1, EndStep DEF Die
<1>4. ASSUME SyncDirectory PROVE IInv'
  <2> USE <1>4 DEF SyncDirectory, IInv, source, local
  <2>1. TypeOK' /\ StoreInv' /\ SyncedInv' /\ NoForeignSidecar'
    BY DEF TypeOK, StoreInv, SyncedInv, NoForeignSidecar, IsBackup
  <2>2. WholeOrAbsent' /\ DestinationInv'
    BY DEF WholeOrAbsent, HasChain, DestinationInv, Running, IsBackup
  <2> QED
    BY <2>1, <2>2, JobsKept
<1>5. ASSUME UNCHANGED vars PROVE IInv'
  <2> USE <1>5 DEF IInv, vars, source, disk, local
  <2>1. TypeOK' /\ DestinationInv'
    BY DEF TypeOK, IsBackup, DestinationInv, Running
  <2> QED
    BY <2>1, JobsKept, DiskKept
<1> QED
  BY <1>1, <1>2, <1>3, <1>4, <1>5, BackupStep, RestoreStep, ServeStep, LeaveStep, RemoveStep,
     DamageStep, CommitStep, PowerLossStep DEF Next, Rest

\* The inductive invariant holds in every state.
THEOREM Invariant == Spec => []IInv
  BY InitHolds, StepHolds, PTL DEF Spec

\* Every variable keeps its type.
THEOREM TypeCorrect == Spec => []TypeOK
<1>1. IInv => TypeOK
  BY DEF IInv
<1> QED
  BY <1>1, Invariant, PTL

\* An archive or a restored database is one committed version with its chain, or
\* it is not there, whatever dies between any two steps.
THEOREM Published == Spec => []WholeOrAbsent
<1>1. IInv => WholeOrAbsent
  BY DEF IInv
<1> QED
  BY <1>1, Invariant, PTL

\* A restored database never stands beside the sidecars of another.
THEOREM NoStraySidecar == Spec => []NoForeignSidecar
<1>1. IInv => NoForeignSidecar
  BY DEF IInv
<1> QED
  BY <1>1, Invariant, PTL

\* What stands at a path never becomes another archive or restored database.
THEOREM Preserved == Spec => NothingOverwritten
<1> DEFINE Kept ==
      \A n \in Name :
        files[n] # Absent /\ files'[n] # files[n] =>
          files'[n] \in {Absent, Live} \/ files'[n].db \in {Garbage, Torn}
<1>1. ASSUME IInv, [Next]_vars PROVE Kept
  <2> USE DEF IInv
  <2>1. ASSUME UNCHANGED files PROVE Kept
    BY <2>1
  <2>2. ASSUME NEW j \in Job, Link(j) PROVE Kept
    <3>1. CASE files[task[j].to] # Absent
      BY <2>1, <2>2, <3>1 DEF Link
    <3>2. CASE files[task[j].to] = Absent
      <4>1. files' = [files EXCEPT ![task[j].to] = staged[j]]
        BY <2>2, <3>2 DEF Link
      <4>2. SUFFICES ASSUME NEW m \in Name, files[m] # Absent PROVE files'[m] = files[m]
        OBVIOUS
      <4> QED
        BY <4>1, <4>2, <3>2 DEF TypeOK
    <3> QED
      BY <3>1, <3>2
  <2>3. ASSUME NEW n \in Name, Serve(n) \/ Remove(n) PROVE Kept
    <3>1. PICK f \in {Absent, Live} : files' = [files EXCEPT ![n] = f]
      BY <2>3 DEF Serve, Remove
    <3> QED
      BY <3>1 DEF TypeOK
  <2>4. ASSUME NEW n \in Name, Damage(n) PROVE Kept
    <3> DEFINE new == [files[n] EXCEPT !.db = Garbage]
    <3>1. files[n] \in ZipFile
      BY <1>1, <2>4, FileForms DEF Damage, TypeOK
    <3>2. new.db = Garbage
      BY <3>1, FileChanged
    <3>3. files' = [files EXCEPT ![n] = new]
      BY <2>4 DEF Damage
    <3> HIDE DEF new
    <3> QED
      BY <3>2, <3>3 DEF TypeOK
  <2>5. ASSUME PowerLoss PROVE Kept
    BY <2>5 DEF PowerLoss, SyncedInv
  <2>6. ASSUME NEW j \in Job, Step(j), ~Link(j) PROVE UNCHANGED files
    BY <2>6 DEF Step, CopyChunk, Copy, Pack, Extract, Verify, Sync, CleanUp, disk
  <2>7. ASSUME NEW j \in Job, Backup(j) \/ Restore(j) \/ Fail(j) \/ Die(j) PROVE UNCHANGED files
    BY <2>7 DEF Backup, Restore, Fail, Die, disk
  <2>8. ASSUME Commit \/ SyncDirectory \/ UNCHANGED vars PROVE UNCHANGED files
    BY <2>8 DEF Commit, SyncDirectory, vars, disk
  <2>9. ASSUME NEW n \in Name, Leave(n) PROVE UNCHANGED files
    BY <2>9 DEF Leave
  <2> QED
    BY <1>1, <2>1, <2>2, <2>3, <2>4, <2>5, <2>6, <2>7, <2>8, <2>9 DEF Next, Rest
<1>2. IInv /\ [Next]_vars => [Kept]_vars
  BY <1>1
<1> QED
  BY <1>2, Invariant, PTL DEF Spec, NothingOverwritten

----------------------------------------------------------------------------
(* Why jobs end: what FairSpec needs of the safety of the model.           *)

\* How many steps, chunks aside, a job can still take.
Left(label) ==
  CASE label = "copy" -> 6 [] label = "extract" -> 5 [] label = "check" -> 4
    [] label = "sync" -> 3 [] label = "link" -> 2 [] label = "clean" -> 1 [] OTHER -> 0

\* The store has not changed since the job's last chunk.
Fresh(j) == seen[j] = store

\* A step of the copy adds a chunk, or starts over on a store that has changed.
Copies(j) ==
  /\ pc[j] = "copy" /\ pc'[j] = "copy" /\ Fresh(j)'
  /\ Fresh(j) => Len(copied'[j]) > Len(copied[j])

\* A job's own steps bring it nearer to its end, those of the others leave it where it is
\* (but a power loss), and none but a commit makes its copy start over.
Forward ==
  \A j \in Job :
    /\ Step(j) => Left(pc'[j]) < Left(pc[j]) \/ Copies(j)
    /\ pc'[j] # pc[j] => Backup(j) \/ Restore(j) \/ Step(j) \/ Fail(j) \/ Die(j) \/ PowerLoss
    /\ pc[j] = "copy" /\ pc'[j] = "copy" /\ Fresh(j) /\ ~Fresh(j)' => Commit

\* A chunk is one more of the same version, or the first of a new one.
LEMMA ChunkForward ==
  ASSUME IInv, NEW j \in Job, CopyChunk(j)
  PROVE  Left(pc'[j]) < Left(pc[j]) \/ Copies(j)
<1> DEFINE sofar == IF seen[j] = store THEN copied[j] ELSE <<>>
<1> DEFINE copy == Append(sofar, store[Len(sofar) + 1])
<1> USE DEF IInv
<1>1. /\ pc[j] = "copy" /\ store' = store /\ DOMAIN pc = Job
      /\ copied' = [copied EXCEPT ![j] = IF Len(copy) = Chunks THEN <<>> ELSE copy]
      /\ seen' = [seen EXCEPT ![j] = IF Len(copy) = Chunks THEN Blank ELSE store]
      /\ pc' = [pc EXCEPT ![j] = IF Len(copy) = Chunks THEN "check" ELSE "copy"]
  BY DEF CopyChunk, Copy, Goto, At, source, TypeOK
<1>2. Fresh(j) => Len(copy) = Len(copied[j]) + 1 /\ Len(copied[j]) \in Nat
  <2>1. ASSUME Fresh(j) PROVE /\ copied[j] \in Seq(0..MaxCommits)
                             /\ store[Len(copied[j]) + 1] \in 0..MaxCommits
                             /\ sofar = copied[j] /\ Len(copied[j]) \in Nat
    <3>1. copied[j] \in Seq(0..MaxCommits) /\ Len(copied[j]) < Chunks /\ sofar = copied[j]
      BY <2>1 DEF TypeOK, CopyInv, Fresh
    <3>2. Len(copied[j]) \in Nat
      BY <3>1, LenProperties
    <3>3. Len(copied[j]) + 1 \in 1..Chunks
      BY <3>1, <3>2, AdminAssumption
    <3> QED
      BY <3>1, <3>2, <3>3 DEF TypeOK, Contents
  <2> QED
    BY <2>1, AppendProperties
<1> HIDE DEF copy
<1>3. CASE Len(copy) = Chunks
  BY <1>1, <1>3 DEF Left
<1>4. CASE Len(copy) # Chunks
  <2>1. copied'[j] = copy /\ seen'[j] = store /\ pc'[j] = "copy"
    BY <1>1, <1>4 DEF TypeOK
  <2> QED
    BY <1>1, <1>2, <2>1 DEF Copies, Fresh
<1> QED
  BY <1>3, <1>4

\* Every other step of a job is to a later label.
LEMMA LabelForward ==
  ASSUME IInv, NEW j \in Job, Step(j), ~CopyChunk(j)
  PROVE  Left(pc'[j]) < Left(pc[j])
<1>1. DOMAIN pc = Job
  BY DEF IInv, TypeOK
<1>2. CASE Pack(j) \/ Verify(j)
  BY <1>1, <1>2 DEF Pack, Verify, End, Goto, At, Left
<1>3. CASE Extract(j)
  BY <1>1, <1>3 DEF Extract, End, Goto, At, Left
<1>4. CASE Sync(j) \/ Link(j)
  BY <1>1, <1>4 DEF Sync, Link, End, Goto, At, Left
<1>5. CASE CleanUp(j)
  <2>1. pc[j] = "clean" /\ pc'[j] \in {"ok", "failed"}
    BY <1>1, <1>5 DEF CleanUp, End, Goto, At
  <2> QED
    BY <2>1 DEF Left
<1> QED
  BY <1>2, <1>3, <1>4, <1>5 DEF Step

\* memory_admin.py:47: backup and restore go round no loop but that over the chunks, which
\* starts over only when the store has been committed to since the chunk before; no other
\* job, server or operator sends a job back.
THEOREM JobsGoForward == Spec => [][Forward]_vars
<1>1. IInv /\ [Next]_vars => [Forward]_vars
  <2> SUFFICES ASSUME IInv, Next PROVE Forward
    OBVIOUS
  <2> DEFINE Own(j) == Backup(j) \/ Restore(j) \/ Step(j) \/ Fail(j) \/ Die(j)
  <2>1. /\ DOMAIN pc = Job /\ DOMAIN seen = Job
    BY DEF IInv, TypeOK
  <2>2. \A j \in Job : Step(j) => Left(pc'[j]) < Left(pc[j]) \/ Copies(j)
    BY ChunkForward, LabelForward
  <2>3. ASSUME NEW j \in Job, Own(j)
        PROVE  /\ store' = store
               /\ \A i \in Job : i # j => pc'[i] = pc[i] /\ seen'[i] = seen[i]
    BY <2>1, <2>3 DEF Backup, Restore, Step, Fail, Die, CopyChunk, Copy, Pack, Extract, Verify,
       Sync, Link, CleanUp, End, Goto, source, local
  <2>4. ASSUME NEW j \in Job, Own(j), pc[j] = "copy", pc'[j] = "copy"
        PROVE  CopyChunk(j)
    BY <2>1, <2>4 DEF Backup, Restore, Step, Fail, Die, Pack, Extract, Verify,
       Sync, Link, CleanUp, End, Goto, At
  <2>5. ASSUME NEW j \in Job, CopyChunk(j), pc'[j] = "copy"
        PROVE  Fresh(j)'
    BY <2>1, <2>2, <2>5 DEF CopyChunk, At, Left, Copies, Step
  <2>6. CASE \E j \in Job : Own(j)
    <3> PICK j \in Job : Own(j)
      BY <2>6
    <3> QED
      BY <2>2, <2>3, <2>4, <2>5 DEF Forward, Fresh
  <2>7. CASE PowerLoss \/ Commit
    <3>1. \A j \in Job : Fresh(j) /\ ~Fresh(j)' /\ pc'[j] = "copy" => Commit
      BY <2>7 DEF PowerLoss, Running
    <3> QED
      BY <2>2, <2>7, <3>1 DEF Forward, Commit
  <2>8. CASE UNCHANGED <<pc, seen, store>>
    BY <2>2, <2>8 DEF Forward, Fresh
  <2>9. CASE \/ \E n \in Name : Serve(n) \/ Leave(n) \/ Remove(n) \/ Damage(n)
             \/ SyncDirectory \/ Rest
    BY <2>8, <2>9 DEF Serve, Leave, Remove, Damage, SyncDirectory, Rest, vars, source, local
  <2> QED
    BY <2>6, <2>7, <2>9 DEF Next
<1> QED
  BY <1>1, Invariant, PTL DEF Spec

====
