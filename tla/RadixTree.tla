------------------------------ MODULE RadixTree ------------------------------
(***************************************************************************)
(* The index from keys to revisions (bptree.go): a radix tree whose edges   *)
(* carry key bytes, with splits, lookups, ordered listing and compaction.   *)
(*                                                                         *)
(* A node is a function from the first byte of an entry's prefix to the     *)
(* entry; the empty function stands for an empty or nil node, the empty     *)
(* sequence of revisions for nil.                                           *)
(***************************************************************************)
EXTENDS Integers, Sequences, FiniteSets, SequencesExt, TLC

CONSTANTS Keys,         \* the keys, sequences of bytes; one is empty
          MaxRevision   \* bound on the writes

RadixAssumption == Keys \subseteq Seq(Nat) /\ MaxRevision \in Nat

VARIABLES root, emptyKey, keys,
          written,      \* every write of each key, compacted or not
          revision, compacted

vars == <<root, emptyKey, keys, written, revision, compacted>>

EmptyNode == <<>>
Entry(prefix, revisions, tombstone, child) ==
    [prefix |-> prefix, revisions |-> revisions, tombstone |-> tombstone, child |-> child]

Init ==
    /\ root = EmptyNode /\ emptyKey = Entry(<<>>, <<>>, FALSE, EmptyNode) /\ keys = 0
    /\ written = [key \in Keys |-> <<>>] /\ revision = 0 /\ compacted = 0

From(s, i) == SubSeq(s, i, Len(s))

CommonPrefixLen(a, b) == Len(LongestCommonPrefix({a, b}))

-----------------------------------------------------------------------------
(* AddRevision.                                                            *)

NewEntry(key, r, tombstone) == Entry(key, <<r>>, tombstone, EmptyNode)

Written(e, r, tombstone) == [e EXCEPT !.revisions = Append(@, r), !.tombstone = tombstone]

Split(e, common) ==
    Entry(SubSeq(e.prefix, 1, common), <<>>, FALSE,
          e.prefix[common + 1] :> [e EXCEPT !.prefix = From(@, common + 1)])

RECURSIVE addRevision(_, _, _, _)
addRevision(n, key, r, tombstone) ==
    LET b == Head(key) IN
    IF b \notin DOMAIN n THEN n @@ (b :> NewEntry(key, r, tombstone))
    ELSE LET common == CommonPrefixLen(n[b].prefix, key)
             e == IF common = Len(n[b].prefix) THEN n[b] ELSE Split(n[b], common)
         IN [n EXCEPT ![b] =
                 IF common = Len(key) THEN Written(e, r, tombstone)
                 ELSE [e EXCEPT !.child = addRevision(@, From(key, common + 1), r, tombstone)]]

RECURSIVE lookup(_, _)
lookup(n, key) ==
    IF key = <<>> \/ Head(key) \notin DOMAIN n THEN <<>>
    ELSE LET e == n[Head(key)] IN
         IF ~IsPrefix(e.prefix, key) THEN <<>>
         ELSE IF Len(key) = Len(e.prefix) THEN e.revisions
         ELSE lookup(e.child, From(key, Len(e.prefix) + 1))

RevisionsOf(key) == IF key = <<>> THEN emptyKey.revisions ELSE lookup(root, key)

IsNew(key) == RevisionsOf(key) = <<>>

AddRevision(key, tombstone) ==
    /\ revision < MaxRevision
    /\ revision' = revision + 1
    /\ emptyKey' = IF key = <<>> THEN Written(emptyKey, revision + 1, tombstone) ELSE emptyKey
    /\ root' = IF key = <<>> THEN root ELSE addRevision(root, key, revision + 1, tombstone)
    /\ keys' = IF IsNew(key) THEN keys + 1 ELSE keys
    /\ written' = [written EXCEPT ![key] = Append(@, [at |-> revision + 1, delete |-> tombstone])]
    /\ UNCHANGED compacted

-----------------------------------------------------------------------------
(* Compact.                                                                *)

\* Only what is above the compaction point is kept.
compactRevisions_Above(e, through) ==
    IF e.tombstone /\ Last(e.revisions) <= through THEN <<>>
    ELSE SelectSeq(e.revisions, LAMBDA r : r > through)

compactRevisions(e, through) ==
    IF e.tombstone /\ Last(e.revisions) <= through THEN <<>>
    ELSE LET below == Len(SelectSeq(e.revisions, LAMBDA r : r <= through))
         IN From(e.revisions, IF below > 0 THEN below ELSE 1)

CompactEntry(e, through) ==
    IF e.revisions = <<>> THEN e
    ELSE LET kept == compactRevisions(e, through)
         IN [e EXCEPT !.revisions = kept, !.tombstone = @ /\ kept # <<>>]

RECURSIVE compact(_, _)
compact(n, through) ==
    [b \in DOMAIN n |-> [CompactEntry(n[b], through) EXCEPT !.child = compact(@, through)]]

RECURSIVE Count(_)
Count(n) ==
    LET RECURSIVE Total(_)
        Total(bs) == IF bs = {} THEN 0
                     ELSE LET b == CHOOSE x \in bs : TRUE
                          IN (IF n[b].revisions = <<>> THEN 0 ELSE 1) + Count(n[b].child) + Total(bs \ {b})
    IN Total(DOMAIN n)

Removed(through) ==
    (Count(root) - Count(compact(root, through)))
        + (IF emptyKey.revisions # <<>> /\ CompactEntry(emptyKey, through).revisions = <<>> THEN 1 ELSE 0)

Compact(through) ==
    /\ compacted < through /\ through <= revision
    /\ compacted' = through
    /\ root' = compact(root, through) /\ emptyKey' = CompactEntry(emptyKey, through)
    /\ keys' = keys - Removed(through)
    /\ UNCHANGED <<written, revision>>

-----------------------------------------------------------------------------
(* The reads.                                                              *)

GetLatestRevisionByKey(key, at) ==
    LET upTo == SelectSeq(RevisionsOf(key), LAMBDA r : r <= at)
    IN IF upTo = <<>> THEN 0 ELSE Last(upTo)

\* Whether a key sorts before another.
Before(a, b) ==
    LET c == CommonPrefixLen(a, b) IN c < Len(b) /\ (c = Len(a) \/ a[c + 1] < b[c + 1])

Pair(path, e) == IF e.revisions = <<>> THEN <<>> ELSE <<[key |-> path \o e.prefix, revisions |-> e.revisions]>>

\* An entry on the way to the start is listed with all below it.
EmitsOwn_Always(e, start) == TRUE

\* Whether the start continues below the entry: its own key is below the start.
EmitsOwn(e, start) == ~IsStrictPrefix(e.prefix, start)

RECURSIVE list(_, _, _)
list(n, path, start) ==
    LET Visit(e) ==
            LET m == IF Len(e.prefix) < Len(start) THEN Len(e.prefix) ELSE Len(start)
            IN IF Before(SubSeq(e.prefix, 1, m), SubSeq(start, 1, m)) THEN <<>>
               ELSE IF EmitsOwn(e, start) THEN Pair(path, e) \o list(e.child, path \o e.prefix, <<>>)
               ELSE list(e.child, path \o e.prefix, From(start, Len(e.prefix) + 1))
        bytes == SetToSortSeq(DOMAIN n, <)
    IN FlattenSeq([i \in DOMAIN bytes |-> Visit(n[bytes[i]])])

ListRevisionsByKeyRange(start) ==
    (IF start = <<>> THEN Pair(<<>>, emptyKey) ELSE <<>>) \o list(root, <<>>, start)

Next ==
    \/ \E key \in Keys : \E tombstone \in BOOLEAN : AddRevision(key, tombstone)
    \/ \E through \in 1..MaxRevision : Compact(through)

Spec == Init /\ [][Next]_vars

-----------------------------------------------------------------------------
RECURSIVE WellFormed(_)
WellFormed(n) ==
    \A b \in DOMAIN n : n[b].prefix # <<>> /\ Head(n[b].prefix) = b /\ WellFormed(n[b].child)

\* The type invariant: every entry's prefix starts with the byte under which
\* find looks for it.
TypeOK ==
    /\ WellFormed(root) /\ emptyKey.prefix = <<>>
    /\ compacted \in 0..revision /\ revision \in 0..MaxRevision

\* What a read at a revision at or above the compaction point observes of a key:
\* the latest write up to it, or nothing where that write is a delete that
\* compaction removed.
Observed(key, at) ==
    LET upTo == SelectSeq(written[key], LAMBDA w : w.at <= at)
        removed == /\ written[key] # <<>> /\ Last(written[key]).delete
                   /\ Last(written[key]).at <= compacted
    IN IF upTo = <<>> \/ removed THEN 0 ELSE Last(upTo).at

\* The index answers for every key and every revision from the compaction point
\* on as the history of its writes does, whatever splits and compactions came
\* between.  A key deleted, compacted away and written again has no old history.
ReadsSurviveCompaction ==
    \A key \in Keys : \A at \in compacted..revision :
        LET got == GetLatestRevisionByKey(key, at)
            deletedAt == SelectSeq(written[key], LAMBDA w : w.delete /\ w.at <= at /\ w.at <= compacted)
        IN got = Observed(key, at)
           \/ (got = 0 /\ deletedAt # <<>> /\ Last(deletedAt).at = Observed(key, at))

\* Listing from any start visits exactly the keys at or after it that have
\* revisions, in key order and with the revisions that lookup finds.
ListIsLookupInOrder ==
    \A start \in Keys :
        LET got == ListRevisionsByKeyRange(start) IN
        /\ \A i \in DOMAIN got : got[i].revisions = RevisionsOf(got[i].key)
        /\ \A i \in 1..Len(got) - 1 : Before(got[i].key, got[i + 1].key)
        /\ {got[i].key : i \in DOMAIN got} =
               {key \in Keys : RevisionsOf(key) # <<>> /\ ~Before(key, start)}

\* Len, kept by AddRevision and Compact as they go, is the number of keys that
\* have revisions.
KeysCounted == keys = Cardinality({key \in Keys : RevisionsOf(key) # <<>>})
==============================================================================
