------------------------------- MODULE Batching -------------------------------
(***************************************************************************)
(* The life of the batching layer (batching.go): callers that add           *)
(* transactions, the goroutine that flushes batches, its window and its     *)
(* waits, and Close.  What a batch accepts is module TxnStore's; here a      *)
(* transaction is a caller and a batch a sequence of them.                  *)
(***************************************************************************)
EXTENDS Integers, Sequences, SequencesExt

CONSTANTS Callers,      \* each adds one transaction
          Conflicts     \* pairs <<d, c>>: c cannot join a batch that holds d

BatchingAssumption == Conflicts \subseteq Callers \X Callers

VARIABLES openBatch, flushQueue, stop,
          flusher,      \* where doBackgroundFlush is
          flushing,     \* the batch it has taken
          caller,       \* each caller's state
          added, flushed   \* the transactions in the order of Add, of the flushes

vars == <<openBatch, flushQueue, stop, flusher, flushing, caller, added, flushed>>

Init ==
    /\ openBatch = <<>> /\ flushQueue = <<>> /\ stop = FALSE
    /\ flusher = "check" /\ flushing = <<>>
    /\ caller = [c \in Callers |-> "out"] /\ added = <<>> /\ flushed = <<>>

CanBatchWith(c) == \A d \in ToSet(openBatch) : <<d, c>> \notin Conflicts

Woken == IF flusher = "asleep" THEN "check" ELSE flusher

\* Add, up to the wait for the result.
Add(c) ==
    /\ caller[c] = "out"
    /\ caller' = [caller EXCEPT ![c] = "waiting"] /\ added' = Append(added, c)
    /\ LET joins == openBatch # <<>> /\ CanBatchWith(c) IN
       /\ openBatch' = IF joins THEN Append(openBatch, c) ELSE <<c>>
       /\ flushQueue' = IF joins \/ openBatch = <<>> THEN flushQueue ELSE Append(flushQueue, openBatch)
       /\ flusher' = IF joins THEN flusher ELSE Woken
    /\ UNCHANGED <<stop, flushing, flushed>>

\* The caller's context ends first.
Abandon(c) ==
    /\ caller[c] = "waiting"
    /\ caller' = [caller EXCEPT ![c] = "abandoned"]
    /\ UNCHANGED <<openBatch, flushQueue, stop, flusher, flushing, added, flushed>>

\* The flusher waits for work, then a moment for more to join.
Wait ==
    /\ flusher = "check"
    /\ flusher' = IF ~stop /\ flushQueue = <<>> /\ openBatch = <<>> THEN "asleep"
                  ELSE IF flushQueue = <<>> /\ openBatch # <<>> THEN "window" ELSE "take"
    /\ UNCHANGED <<openBatch, flushQueue, stop, flushing, caller, added, flushed>>

WindowEnds ==
    /\ flusher = "window"
    /\ flusher' = "take"
    /\ UNCHANGED <<openBatch, flushQueue, stop, flushing, caller, added, flushed>>

\* The open batch first.
TakeBatch_OpenFirst ==
    /\ flusher = "take"
    /\ flushing' = IF openBatch # <<>> THEN openBatch
                   ELSE IF flushQueue # <<>> THEN Head(flushQueue) ELSE <<>>
    /\ openBatch' = <<>>
    /\ flushQueue' = IF openBatch # <<>> \/ flushQueue = <<>> THEN flushQueue ELSE Tail(flushQueue)
    /\ flusher' = IF flushing' # <<>> THEN "flush" ELSE IF stop THEN "done" ELSE "check"
    /\ UNCHANGED <<stop, caller, added, flushed>>

\* The flusher returns as soon as it is told to stop.
TakeBatch_StopsAtOnce ==
    /\ flusher = "take"
    /\ IF stop THEN UNCHANGED <<flushing, openBatch, flushQueue>>
       ELSE IF flushQueue # <<>>
       THEN flushing' = Head(flushQueue) /\ flushQueue' = Tail(flushQueue) /\ UNCHANGED openBatch
       ELSE flushing' = openBatch /\ openBatch' = <<>> /\ UNCHANGED flushQueue
    /\ flusher' = IF stop THEN "done" ELSE IF flushing' # <<>> THEN "flush" ELSE "check"
    /\ UNCHANGED <<stop, caller, added, flushed>>

TakeBatch ==
    /\ flusher = "take"
    /\ IF flushQueue # <<>>
       THEN flushing' = Head(flushQueue) /\ flushQueue' = Tail(flushQueue) /\ UNCHANGED openBatch
       ELSE flushing' = openBatch /\ openBatch' = <<>> /\ UNCHANGED flushQueue
    /\ flusher' = IF flushing' # <<>> THEN "flush" ELSE IF stop THEN "done" ELSE "check"
    /\ UNCHANGED <<stop, caller, added, flushed>>

\* flushBatch: the commit, then the results.
FlushBatch ==
    /\ flusher = "flush"
    /\ flushed' = flushed \o flushing /\ flushing' = <<>>
    /\ caller' = [c \in Callers |-> IF c \in ToSet(flushing) /\ caller[c] = "waiting"
                                    THEN "answered" ELSE caller[c]]
    /\ flusher' = "check"
    /\ UNCHANGED <<openBatch, flushQueue, stop, added>>

Close ==
    /\ ~stop
    /\ stop' = TRUE /\ flusher' = Woken
    /\ UNCHANGED <<openBatch, flushQueue, flushing, caller, added, flushed>>

Flusher == Wait \/ WindowEnds \/ TakeBatch \/ FlushBatch

Next ==
    \/ Wait \/ WindowEnds \/ TakeBatch \/ FlushBatch \/ Close
    \/ \E c \in Callers : Add(c) \/ Abandon(c)

\* The flusher is a goroutine that goes on whenever it can.
FairSpec == Init /\ [][Next]_vars /\ WF_vars(Flusher)

-----------------------------------------------------------------------------
\* Nothing is lost or overtaken between Add and the log: the flushed, the taken,
\* the queued and the open batch, in this order, are the transactions in the
\* order in which they were added, and conflicting ones never share a batch.
FlushedInOrder ==
    /\ flushed \o flushing \o FlattenSeq(flushQueue) \o openBatch = added
    /\ \A b \in ToSet(flushQueue) \cup {flushing, openBatch} : \A i, j \in DOMAIN b :
           i < j => <<b[i], b[j]>> \notin Conflicts

\* Close flushes what is queued: a transaction that was added before the flusher
\* returned is committed, also if its caller has gone.
QueuedIsFlushed ==
    \A c \in Callers : (c \in ToSet(added) /\ flusher # "done") ~> (c \in ToSet(flushed))

\* Close returns.
CloseReturns == stop ~> (flusher = "done")

\* "If ctx ends first the transaction is still committed; only the wait is
\* abandoned."
AbandonedIsCommitted ==
    \A c \in Callers : (caller[c] = "abandoned") ~> (c \in ToSet(flushed))
==============================================================================
