--------------------------- MODULE MCLogCompaction ---------------------------
(***************************************************************************)
(* LogCompaction on small instances.                                       *)
(***************************************************************************)
EXTENDS LogCompaction, TLC

CONSTANTS a, b

Put(k) == [type |-> "PUT", key |-> k]
Delete(k) == [type |-> "DELETE", key |-> k]

\* Puts and deletes of one key, and a record that writes both.
SomeRecords == {{Put(a)}, {Delete(b)}, {Put(a), Put(b)}}
==============================================================================
