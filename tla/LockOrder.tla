------------------------------ MODULE LockOrder ------------------------------
(***************************************************************************)
(* The locks that the storage, its watchers and the filesystem log take     *)
(* while they call one another, and the archiver's bounded queue.           *)
(*                                                                         *)
(* Each goroutine is the sequence of its lock operations.  A file's mu, a   *)
(* watcher's stateMutex and the lease manager's mu are left out: nothing    *)
(* that holds one waits for anything.                                       *)
(***************************************************************************)
EXTENDS Integers, Sequences, FiniteSets

CONSTANTS Goroutines,   \* the goroutines
          Groups,       \* the sets of them that run at the same time
          Capacity,     \* of the archiver's queue
          Queued        \* operations in the queue at the start

LockOrderAssumption ==
    Groups \subseteq SUBSET Goroutines /\ Capacity \in Nat /\ Queued \in 0..Capacity

VARIABLES pc,         \* the operation each goroutine is at
          holds,      \* the locks each holds, with the mode
          waiting,    \* writers that hold new readers off
          queue       \* items in the archiver's queue

vars == <<pc, holds, waiting, queue>>

Lock(l) == [op |-> "lock", lock |-> l]
RLock(l) == [op |-> "rlock", lock |-> l]
Unlock(l) == [op |-> "unlock", lock |-> l]
Add == [op |-> "add", lock |-> "queue"]
Take == [op |-> "take", lock |-> "queue"]

-----------------------------------------------------------------------------
(* What each goroutine does: mu, watcherMu of the storage, writeMu, logMu   *)
(* and compactMu of the log.                                                *)

Watch == <<RLock("mu"), Unlock("mu"), Lock("watcherMu"), RLock("logMu"), Unlock("logMu"),
           Unlock("watcherMu")>>

OnLogEntry == <<RLock("watcherMu"), Unlock("watcherMu")>>
rotateLocked == <<Add>>

commitBatch == <<Lock("writeMu"), Lock("logMu")>> \o OnLogEntry \o rotateLocked
                   \o <<Unlock("logMu"), Unlock("writeMu")>>

tick == <<Lock("writeMu"), Lock("logMu")>> \o rotateLocked \o <<Unlock("logMu"), Unlock("writeMu")>>

GetLogEntry == <<RLock("logMu"), Unlock("logMu")>>

applyUpTo == <<RLock("mu"), Unlock("mu"), Lock("mu")>> \o GetLogEntry \o <<Unlock("mu")>>

evaluate == <<RLock("mu")>> \o GetLogEntry \o <<Unlock("mu")>>

Compact == <<Lock("mu"), RLock("watcherMu"), Unlock("watcherMu"), Unlock("mu")>>

live == <<RLock("mu"), Unlock("mu")>>

\* The index is asked which records are live with the log's mu held.
CompactLog_LiveUnderMu ==
    <<Lock("compactMu"), Lock("logMu")>> \o live \o <<Unlock("logMu"), Add, Unlock("compactMu")>>

CompactLog ==
    <<Lock("compactMu"), RLock("logMu"), Unlock("logMu")>> \o live
        \o <<Lock("logMu"), Unlock("logMu"), Add, Unlock("compactMu")>>

GracefulStop == <<Lock("watcherMu"), Unlock("watcherMu")>>

archive == <<Take, Lock("logMu"), Unlock("logMu")>>

Program(g) ==
    CASE g = "watch" -> Watch
      [] g = "commit" -> commitBatch
      [] g = "tick" -> tick
      [] g = "apply" -> applyUpTo
      [] g = "evaluate" -> evaluate
      [] g = "compact" -> Compact
      [] g = "rewrite" -> CompactLog
      [] g = "stop" -> GracefulStop
      [] g = "archiver" -> archive

-----------------------------------------------------------------------------
\* Each goroutine of one group runs once; the others have returned.
Init ==
    /\ \E group \in Groups :
           pc = [g \in Goroutines |-> IF g \in group THEN 1 ELSE Len(Program(g)) + 1]
    /\ holds = [g \in Goroutines |-> {}] /\ waiting = {} /\ queue = Queued

Returned(g) == pc[g] > Len(Program(g))
Op(g) == Program(g)[pc[g]]
At(g, op) == ~Returned(g) /\ Op(g).op = op

\* The archiver's goroutine takes the next item, the others run once.
Advanced(g) ==
    [pc EXCEPT ![g] = IF g = "archiver" /\ @ = Len(Program(g)) THEN 1 ELSE @ + 1]

Held(l, modes) == \E g \in Goroutines : \E m \in modes : <<l, m>> \in holds[g]

Acquire(g, mode) ==
    /\ holds' = [holds EXCEPT ![g] = @ \cup {<<Op(g).lock, mode>>}]
    /\ pc' = Advanced(g)
    /\ UNCHANGED queue

\* RWMutex.Lock holds new readers off before it waits for the others.
Announce(g) ==
    /\ At(g, "lock") /\ g \notin waiting
    /\ \A h \in waiting : Op(h).lock # Op(g).lock
    /\ ~Held(Op(g).lock, {"w"})
    /\ waiting' = waiting \cup {g}
    /\ UNCHANGED <<pc, holds, queue>>

AcquireWrite(g) ==
    /\ g \in waiting /\ ~Held(Op(g).lock, {"w", "r"})
    /\ Acquire(g, "w") /\ waiting' = waiting \ {g}

AcquireRead(g) ==
    /\ At(g, "rlock") /\ ~Held(Op(g).lock, {"w"})
    /\ \A h \in waiting : Op(h).lock # Op(g).lock
    /\ Acquire(g, "r") /\ UNCHANGED waiting

Release(g) ==
    /\ At(g, "unlock")
    /\ holds' = [holds EXCEPT ![g] = {h \in @ : h[1] # Op(g).lock}]
    /\ pc' = Advanced(g)
    /\ UNCHANGED <<waiting, queue>>

\* worker.add blocks while the queue is full; the worker waits for an item.
Enqueue(g) ==
    /\ At(g, "add") /\ queue < Capacity
    /\ queue' = queue + 1 /\ pc' = Advanced(g)
    /\ UNCHANGED <<holds, waiting>>

Dequeue(g) ==
    /\ At(g, "take") /\ queue > 0
    /\ queue' = queue - 1 /\ pc' = Advanced(g)
    /\ UNCHANGED <<holds, waiting>>

Step(g) == Announce(g) \/ AcquireWrite(g) \/ AcquireRead(g) \/ Release(g) \/ Enqueue(g) \/ Dequeue(g)

Next == \E g \in Goroutines : Step(g)

\* Each goroutine that can go on does.
FairSpec == Init /\ [][Next]_vars /\ \A g \in Goroutines : WF_vars(Step(g))

-----------------------------------------------------------------------------
Idle(g) == Returned(g) \/ (g = "archiver" /\ queue = 0 /\ pc[g] = 1)

\* No operations wait for each other, directly or through the queue: whatever
\* they interleave, some goroutine can go on until every call has returned and
\* the archiver has emptied its queue.  Each goroutine has finitely many steps,
\* so every call returns.
NoneStuck == (\A g \in Goroutines : Idle(g)) \/ (\E g \in Goroutines : ENABLED Step(g))

\* "Add queues a transaction and blocks until its batch is committed": the
\* commit of a batch comes to its end.
BatchIsCommitted == <>Returned("commit")

\* "callers add items and never wait for them": a goroutine that adds to the
\* archiver's queue goes on.
CallersNeverWait == \A g \in Goroutines \ {"archiver"} : At(g, "add") ~> ~At(g, "add")
==============================================================================
