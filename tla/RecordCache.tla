----------------------------- MODULE RecordCache -----------------------------
(***************************************************************************)
(* The byte-budgeted LRU cache of log records (recordcache.go) as the       *)
(* filesystem log uses it: commits put records, reads get them and put      *)
(* those they had to decode.  A revision's record, and so its size, never   *)
(* changes.                                                                 *)
(***************************************************************************)
EXTENDS Integers, Sequences, FiniteSets, SequencesExt, FiniteSetsExt, Functions

CONSTANTS Revisions,
          Size,         \* of each revision's record
          Budget        \* 0 for none

CacheAssumption == Size \in [Revisions -> Nat] /\ Budget \in Nat

VARIABLES ll,           \* the list, most recently used first
          items,        \* the map's keys
          used,
          recent        \* the revisions in the order of their last use, with
                        \* those evicted since the last removal

vars == <<ll, items, used, recent>>

Init == ll = <<>> /\ items = {} /\ used = 0 /\ recent = <<>>

ToFront(s, r) == <<r>> \o SelectSeq(s, LAMBDA x : x # r)

\* The record is returned where it is.
Get_NoMove(r) ==
    /\ r \in items
    /\ recent' = ToFront(recent, r)
    /\ UNCHANGED <<ll, items, used>>

Get(r) ==
    /\ r \in items
    /\ ll' = ToFront(ll, r) /\ recent' = ToFront(recent, r)
    /\ UNCHANGED <<items, used>>

SumOf(s) == FoldFunction(LAMBDA a, b : a + b, 0, [i \in DOMAIN s |-> Size[s[i]]])

\* evictOldest, while the budget is exceeded and more than one record is left.
RECURSIVE Evicted(_, _)
Evicted(s, size) ==
    IF Budget > 0 /\ size > Budget /\ Len(s) > 1
    THEN Evicted(Front(s), size - Size[Last(s)]) ELSE [list |-> s, used |-> size]

Put(r) ==
    /\ IF r \in items \/ Budget = 0 \/ Size[r] <= Budget
       THEN /\ LET e == Evicted(ToFront(ll, r), IF r \in items THEN used ELSE used + Size[r])
               IN ll' = e.list /\ used' = e.used /\ items' = ToSet(e.list)
            /\ recent' = ToFront(recent, r)
       ELSE UNCHANGED vars

\* Remove, which only the tests call.
RemoveRecord(r) ==
    /\ r \in items
    /\ ll' = SelectSeq(ll, LAMBDA x : x # r) /\ items' = items \ {r} /\ used' = used - Size[r]
    /\ recent' = SelectSeq(recent, LAMBDA x : x \in items \ {r})

Next == \E r \in Revisions : Get(r) \/ Put(r) \/ RemoveRecord(r)

Spec == Init /\ [][Next]_vars

-----------------------------------------------------------------------------
\* The count of bytes, kept by difference, is the sum of what is cached, and
\* within the budget.
UsedIsSum ==
    /\ used = SumOf(ll) /\ (Budget > 0 => used <= Budget)
    /\ items = ToSet(ll) /\ Cardinality(items) = Len(ll)

\* Least recently used goes first: a record that fits the budget together with
\* everything used after it is cached.
RecentIsCached ==
    \A i \in DOMAIN recent :
        (Budget = 0 \/ SumOf(SubSeq(recent, 1, i)) <= Budget) => recent[i] \in items
==============================================================================
