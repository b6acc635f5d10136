---- MODULE SqliteWal ----
(***************************************************************************)
(* SQLite in WAL mode with synchronous=NORMAL, as the server relies on it: *)
(* one writer at a time per database file, readers that see the last       *)
(* committed version, all-or-nothing commits, and a power loss that may    *)
(* drop the newest commits but never tears one.                            *)
(*                                                                         *)
(* wal is the sequence of committed versions since the last sync (the      *)
(* first one is on disk), draft the uncommitted version of the process     *)
(* that holds the write lock, writer that process.                         *)
(***************************************************************************)
EXTENDS Integers, Sequences

CONSTANTS
  Process,    \* server processes that share the database file
  NoProcess   \* the write lock is free

ASSUME NoProcessAssumption == NoProcess \notin Process

VARIABLES wal, draft, writer

sqlite == <<wal, draft, writer>>

LastCommitted == wal[Len(wal)]

InTransaction(p) == writer = p

\* Another connection holds the write lock.
Locked(p) == writer \notin {NoProcess, p}

\* The version a SELECT of p reads.
View(p) == IF InTransaction(p) THEN draft ELSE LastCommitted

Open(database) ==
  /\ wal = <<database>>
  /\ draft = database
  /\ writer = NoProcess

(***************************************************************************)
(* A write statement of p: python's sqlite3 opens a transaction before it  *)
(* if none is open, which needs the write lock; its effect stays private.  *)
(***************************************************************************)
Write(p, database) ==
  /\ ~Locked(p)
  /\ writer' = p
  /\ draft' = database
  /\ wal' = wal

BeginImmediate(p) == Write(p, View(p))

Commit(p) ==
  /\ InTransaction(p)
  /\ wal' = Append(wal, draft)
  /\ writer' = NoProcess
  /\ draft' = draft

\* Leaving `with db` by an exception, or the end of the process.
Rollback(p) ==
  /\ writer' = IF InTransaction(p) THEN NoProcess ELSE writer
  /\ draft' = IF InTransaction(p) THEN LastCommitted ELSE draft
  /\ wal' = wal

\* The log is synced: everything committed so far is on disk.
Sync ==
  /\ Len(wal) > 1
  /\ wal' = <<LastCommitted>>
  /\ UNCHANGED <<draft, writer>>

\* After a power loss the log ends after any commit that is not synced.
LosePower ==
  \E n \in 1..Len(wal) :
    /\ wal' = SubSeq(wal, 1, n)
    /\ draft' = wal[n]
    /\ writer' = NoProcess

====
