----------------------------- MODULE MCStorage -----------------------------
(***************************************************************************)
(* Parts of the memory storage on small instances, one at a time: the       *)
(* watchers, the index tree and the locks.  `part' says which one runs, the *)
(* others stay in their first state.                                        *)
(***************************************************************************)
EXTENDS Watch, TLC

CONSTANTS ka, kb, kl, w1, w2

VARIABLES part,
          root, emptyKey, keys, written, revision, treeCompacted,
          line, holds, waiting, backlog

tree == <<root, emptyKey, keys, written, revision, treeCompacted>>
locks == <<line, holds, waiting, backlog>>

\* Keys that are prefixes of one another, diverge inside an edge.
Tree == INSTANCE RadixTree WITH
    compacted <- treeCompacted, MaxRevision <- 4,
    Keys <- {<<>>, <<1>>, <<1, 1, 2>>, <<1, 2>>}

\* What runs at the same time, but not a new watch together with a commit.
Locks == INSTANCE LockOrder WITH
    pc <- line, queue <- backlog, Capacity <- 3, Queued <- 0,
    Goroutines <- {"watch", "commit", "tick", "apply", "evaluate", "compact", "rewrite", "stop", "archiver"},
    Groups <- {{"commit", "apply", "evaluate", "compact", "rewrite"},
               {"watch", "tick", "apply", "compact", "rewrite"},
               {"watch", "tick", "rewrite", "stop", "archiver"}}

ASSUME Tree!RadixAssumption /\ Locks!LockOrderAssumption

Put(k) == [type |-> "PUT", key |-> k]
Delete(k) == [type |-> "DELETE", key |-> k]

\* Overwriting ka kills the earlier put of ka; the second record touches both
\* keys, the last is a lease grant.
SomeRecords == {{Put(ka)}, {Delete(ka), Put(kb)}, {Put(kl)}}

Ask(start, range, filters) == [start |-> start, range |-> range, filters |-> filters]

\* From now on, from the first revision, and filtered.
AnyRequest == Ask(0, {ka, kb}, {})
OneRequests == {AnyRequest, Ask(1, {ka}, {}), Ask(2, {ka, kb, kl}, {"NODELETE"})}
TwoRequests == {Ask(0, {ka}, {"NOPUT"}), Ask(1, {ka, kb}, {})}
SomeRequests == OneRequests \cup TwoRequests

-----------------------------------------------------------------------------
\* One watcher on a log of three records, the first a put of ka, or two with
\* different requests on a log of two puts.
WatchInit ==
    /\ Init
    /\ \/ part \in Watchers /\ req[part] \in OneRequests /\ \A w \in Watchers \ {part} : req[w] = AnyRequest
       \/ part = "two" /\ {req[w] : w \in Watchers} = TwoRequests

WatchNext ==
    /\ part \in Watchers \cup {"two"} /\ Next
    /\ IF part = "two" THEN Len(log') <= 2 /\ \A r \in 1..Len(log') : log'[r] = {Put(ka)}
       ELSE /\ log' # <<>> => log'[1] = {Put(ka)}
            /\ \A w \in Watchers \ {part} : pc'[w] = "none"
    /\ UNCHANGED <<part, tree, locks>>

FirstLocks == Locks!Init /\ line["commit"] = 1
Quiet == Init /\ \A w \in Watchers : req[w] = AnyRequest

MCInit ==
    \/ WatchInit /\ Tree!Init /\ FirstLocks
    \/ part = "tree" /\ Quiet /\ Tree!Init /\ FirstLocks
    \/ part = "locks" /\ Quiet /\ Tree!Init /\ Locks!Init

MCNext ==
    \/ WatchNext
    \/ part = "tree" /\ Tree!Next /\ UNCHANGED <<part, vars, locks>>
    \/ part = "locks" /\ Locks!Next /\ UNCHANGED <<part, vars, tree>>

MCSpec == MCInit /\ [][MCNext]_<<part, vars, tree, locks>>

\* Watchers are interchangeable.
Symmetry == Permutations({w1, w2})

-----------------------------------------------------------------------------
\* Every reader finds in the tree what it was at its revision, also after a
\* compaction (RadixTree).
ReadsSurviveCompaction == part = "tree" => Tree!ReadsSurviveCompaction

\* A list is the keys of its range, each once and in order, with what a lookup
\* of it finds, and the tree counts as many as it holds (RadixTree).
ListsItsKeys ==
    part = "tree" => Tree!TypeOK /\ Tree!ListIsLookupInOrder /\ Tree!KeysCounted

\* No operations of the storage and the log wait for each other (LockOrder).
NoneStuck == part = "locks" => Locks!NoneStuck
=============================================================================
