---- MODULE MCMemoryStore ----
(***************************************************************************)
(* Small instances of MemoryStore for TLC: two server processes, one or    *)
(* two keys, and the workloads that each question needs.                   *)
(***************************************************************************)
EXTENDS MemoryStoreInvariant, TLC

CONSTANTS p1, p2, k1, k2, v1, v2, badkey, badvalue

Shape(tool, key, value) ==
  [tool |-> tool, key |-> key, value |-> value, claimed |-> None, expected |-> None,
   absent |-> FALSE, events |-> FALSE]

Set(key, value) == Shape("set", key, value)
Create(key, value) == [Shape("set", key, value) EXCEPT !.absent = TRUE]
Swap(key, expected, value) == [Shape("set", key, value) EXCEPT !.expected = expected]

Get == [Shape("get", k1, None) EXCEPT !.events = TRUE]

\* The four kinds of write, racing for one key.
RaceRequests ==
  {Set(k1, v1), Create(k1, v2), Swap(k1, v1, v2), Shape("delete", k1, None)}

\* Every way of reading, against a writer.
ReadRequests == {Set(k1, v1), Shape("delete", k1, None), Get, Shape("search", None, None),
  Shape("list", None, None)}

\* Every tool, with every reason to refuse it.
ToolRequests ==
  RaceRequests \union ReadRequests \union
  {Shape("history", k1, None), Shape("lock_hold", None, None),
   [Set(k2, v2) EXCEPT !.claimed = p1],
   [Create(k1, v1) EXCEPT !.expected = v1], Set(badkey, v1), Set(k1, badvalue),
   Shape("get", badkey, None), Shape("delete", badkey, None)}

\* Every kind of audit row: liveness and refinement.
RefineRequests == RaceRequests \union
  {Shape("get", k1, None), Shape("search", None, None), Shape("lock_hold", None, None)}

\* The processes of store_race are interchangeable.
Interchangeable == Permutations(Process)

====
