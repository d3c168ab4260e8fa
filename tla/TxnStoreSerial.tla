--------------------------- MODULE TxnStoreSerial ---------------------------
(***************************************************************************)
(* Proofs about TxnStore: OnceInv is inductive relative to IInv,           *)
(* WrittenAtMostOnce and AckedIsDurableAndVisible follow from it, and with *)
(* both invariants TxnStore implements SerialStore.                        *)
(***************************************************************************)
EXTENDS TxnStoreProofs, TxnStoreRefine

(***************************************************************************)
(* The transactions of a batch.                                            *)
(***************************************************************************)

\* A record added behind the others adds its transaction.
LEMMA GrownTxns ==
  ASSUME NEW s \in Seq(Record), NEW u \in Seq(Record), NEW x, Len(u) = Len(s) + 1,
         \A i \in 1..Len(s) : u[i] = s[i], u[Len(s) + 1].txn = x
  PROVE  /\ TxnsOf(u) = TxnsOf(s) \cup {x}
         /\ Distinct(s) /\ x \notin TxnsOf(s) => Distinct(u)
<1>1. /\ Len(s) \in Nat /\ DOMAIN s = 1..Len(s) /\ DOMAIN u = 1..(Len(s) + 1)
      /\ \A i \in DOMAIN u : i \in DOMAIN s \/ i = Len(s) + 1
      /\ \A i \in DOMAIN s : i \in DOMAIN u /\ u[i] = s[i]
      /\ Len(s) + 1 \in DOMAIN u
  BY SeqSpec
<1>2. TxnsOf(u) = TxnsOf(s) \cup {x}
  BY <1>1 DEF TxnsOf
<1>3. ASSUME Distinct(s), x \notin TxnsOf(s), NEW i \in DOMAIN u, NEW j \in DOMAIN u,
             u[i].txn = u[j].txn
      PROVE  i = j
  <2>1. \A n \in DOMAIN s : s[n].txn # x
    BY <1>3 DEF TxnsOf
  <2> QED
    BY <1>1, <1>3, <2>1 DEF Distinct
<1> QED
  BY <1>2, <1>3 DEF Distinct

LEMMA AppendTxns ==
  ASSUME NEW s \in Seq(Record), NEW e \in Record
  PROVE  /\ TxnsOf(Append(s, e)) = TxnsOf(s) \cup {e.txn}
         /\ Distinct(s) /\ e.txn \notin TxnsOf(s) => Distinct(Append(s, e))
<1>1. /\ Append(s, e) \in Seq(Record) /\ Len(Append(s, e)) = Len(s) + 1
      /\ \A i \in 1..Len(s) : Append(s, e)[i] = s[i]
      /\ Append(s, e)[Len(s) + 1] = e
  OBVIOUS
<1> QED
  BY <1>1, GrownTxns, ZenonT(30)

\* Taking the head of a batch takes its transaction.
LEMMA TailTxns ==
  ASSUME NEW s \in Seq(Record), s # <<>>, Distinct(s)
  PROVE  /\ TxnsOf(s) = TxnsOf(Tail(s)) \cup {Head(s).txn}
         /\ Head(s).txn \notin TxnsOf(Tail(s))
         /\ Distinct(Tail(s))
<1>1. /\ 1 \in DOMAIN s /\ Head(s) = s[1]
      /\ \A n \in DOMAIN Tail(s) : n + 1 \in DOMAIN s /\ Tail(s)[n] = s[n + 1]
  BY TailSpec
<1>2. /\ DOMAIN s = 1..Len(s) /\ Len(s) \in Nat /\ DOMAIN Tail(s) = 1..(Len(s) - 1)
      /\ \A n \in DOMAIN Tail(s) : n \in Nat /\ n # 0
      /\ \A n \in DOMAIN s : n # 1 => n - 1 \in DOMAIN Tail(s) /\ (n - 1) + 1 = n
  <2>1. Len(s) \in Nat /\ DOMAIN s = 1..Len(s) /\ Tail(s) \in Seq(Record)
    BY SeqSpec, TailSpec
  <2>2. Len(Tail(s)) = Len(s) - 1 /\ DOMAIN Tail(s) = 1..Len(Tail(s))
    BY <2>1
  <2> QED
    BY <2>1, <2>2
<1>3. Head(s).txn \notin TxnsOf(Tail(s))
  <2>1. ASSUME NEW n \in DOMAIN Tail(s), Tail(s)[n].txn = s[1].txn
        PROVE  FALSE
    <3>1. n + 1 = 1
      BY <1>1, <2>1 DEF Distinct
    <3> QED
      BY <1>2, <3>1
  <2> QED
    BY <1>1, <2>1 DEF TxnsOf
<1>4. Distinct(Tail(s))
  <2> SUFFICES ASSUME NEW i \in DOMAIN Tail(s), NEW j \in DOMAIN Tail(s),
                      Tail(s)[i].txn = Tail(s)[j].txn
               PROVE  i = j
    BY DEF Distinct
  <2>1. i + 1 = j + 1
    BY <1>1 DEF Distinct
  <2> QED
    BY <1>2, <2>1
<1>5. TxnsOf(s) = TxnsOf(Tail(s)) \cup {Head(s).txn}
  <2>1. \A n \in DOMAIN s : s[n] = s[1] \/ \E m \in DOMAIN Tail(s) : s[n] = Tail(s)[m]
    BY <1>1, <1>2
  <2> QED
    BY <1>1, <2>1 DEF TxnsOf
<1> QED
  BY <1>3, <1>4, <1>5

LEMMA NoTxns == TxnsOf(<<>>) = {} /\ Distinct(<<>>)
BY DEF TxnsOf, Distinct

\* The batches are sequences of records.
LEMMA BatchTypes ==
  ASSUME IInv
  PROVE  /\ openBatch \in Seq(Record) /\ flush.batch \in Seq(Record)
         /\ flush.accepted \in Seq(Record)
         /\ flushQueue \in Seq(Seq(Record))
         /\ \A i \in DOMAIN flushQueue : flushQueue[i] \in Seq(Record)
<1>1. /\ openBatch \in Seq(Record) /\ flushQueue \in Seq(Seq(Record))
      /\ flush \in [stage : {"idle", "prepare", "deliver"}, batch : Seq(Record),
                    accepted : Seq(Record), rejected : SUBSET Txns]
  BY ZenonT(30) DEF IInv, TypeOK
<1>2. flush.batch \in Seq(Record) /\ flush.accepted \in Seq(Record)
  BY <1>1
<1> QED
  BY <1>1, <1>2

-----------------------------------------------------------------------------
(***************************************************************************)
(* Steps of one goroutine.                                                 *)
(***************************************************************************)

\* A step that leaves the log and the batching layer alone keeps the places.
LEMMA PlacesFrame ==
  ASSUME WaitsOnce, DecidedOnce, UNCHANGED <<log, batchVars>>
  PROVE  /\ WaitsOnce' /\ DecidedOnce'
         /\ WaitingTxns' = WaitingTxns /\ Decided' = Decided
<1>1. UNCHANGED <<openBatch, flushQueue, flush>>
  BY DEF batchVars
<1>2. Decided' = Decided
  BY <1>1 DEF Decided
<1>3. WaitingTxns' = WaitingTxns
  BY <1>1 DEF WaitingTxns
<1>4. WaitsOnce'
  BY <1>1 DEF WaitsOnce
<1>5. DecidedOnce'
  BY <1>1, <1>2, <1>3 DEF DecidedOnce
<1> QED
  BY <1>2, <1>3, <1>4, <1>5

\* A transaction that is not handed to the batching layer is in no batch.
Unplaced == {"idle", "snapshot", "evaluate", "append", "rejected"}

LEMMA UnplacedTxn ==
  ASSUME OnceInv, NEW t \in Txns, pc[t] \in Unplaced
  PROVE  /\ t \notin WaitingTxns /\ t \notin flush.rejected
         /\ t \notin TxnsOf(flush.accepted) /\ t \notin TxnsOf(Decided)
BY DEF OnceInv, PlacesAgree, Unplaced

\* A step that only moves transaction t to another label keeps OnceInv when
\* the label agrees with the place of t and the results stay right.
LEMMA LabelStep ==
  ASSUME IInv, OnceInv, NEW t \in Txns, NEW label, UNCHANGED <<log, batchVars>>,
         pc' = [pc EXCEPT ![t] = label] \/ pc' = pc,
         \/ pc[t] \in Unplaced
         \/ label = "abandoned"
         \/ pc[t] = "accepted" /\ label = "done",
         ResultsRight'
  PROVE  OnceInv'
<1>1. WaitsOnce' /\ DecidedOnce' /\ WaitingTxns' = WaitingTxns /\ Decided' = Decided
  BY PlacesFrame DEF OnceInv
<1>2. flush' = flush /\ pc \in [Txns -> Labels]
  BY ZenonT(30) DEF batchVars, IInv, TypeOK
<1>3. \A u \in Txns : pc'[u] = pc[u] \/ (u = t /\ pc'[u] = label)
  BY <1>2
<1>4. ASSUME NEW u \in Txns
      PROVE  /\ u \in WaitingTxns \cup flush.rejected \cup TxnsOf(flush.accepted) =>
                  pc'[u] \in {"queued", "abandoned"}
             /\ u \in TxnsOf(Decided) => pc'[u] \in {"queued", "accepted", "done", "abandoned", "dead"}
  <2>1. /\ u \in WaitingTxns \cup flush.rejected \cup TxnsOf(flush.accepted) =>
             pc[u] \in {"queued", "abandoned"}
        /\ u \in TxnsOf(Decided) => pc[u] \in {"queued", "accepted", "done", "abandoned", "dead"}
    BY DEF OnceInv, PlacesAgree
  <2> QED
    BY <1>3, <2>1 DEF Unplaced
<1>5. PlacesAgree'
  BY <1>1, <1>2, <1>4 DEF PlacesAgree
<1> QED
  BY <1>1, <1>5 DEF OnceInv

\* Results stay right when no transaction gets one and nothing is unapplied.
LEMMA ResultsFrame ==
  ASSUME ResultsRight, UNCHANGED <<log, lastLogPosition, flush>>,
         rev \in [Txns -> Nat], applied \in Nat, applied' \in Nat, applied <= applied',
         \A u \in Txns : pc'[u] \in {"accepted", "done"} =>
           pc'[u] = pc[u] /\ rev'[u] = rev[u] /\ staged'[u] = staged[u]
  PROVE  ResultsRight'
<1>1. flush'.stage = "deliver" =>
        \A i \in DOMAIN flush'.accepted : log'[lastLogPosition' + i] = flush'.accepted[i]
  BY DEF ResultsRight
<1>2. ASSUME NEW t \in Txns,
             pc'[t] = "accepted" \/ (pc'[t] = "done" /\ staged'[t].meta.writes # {})
      PROVE  rev'[t] \in DOMAIN log' /\ log'[rev'[t]].txn = t
  BY <1>2 DEF ResultsRight
<1>3. ASSUME NEW t \in Txns, pc'[t] = "done"
      PROVE  rev'[t] <= applied'
  <2>1. rev'[t] = rev[t] /\ rev[t] <= applied /\ rev[t] \in Nat
    BY <1>3 DEF ResultsRight
  <2> QED
    BY <2>1
<1> QED
  BY <1>1, <1>2, <1>3 DEF ResultsRight

\* applyUpTo only adds to what is applied.
LEMMA ApplyGrows ==
  ASSUME NEW to \in Nat, applied \in Nat, ApplyUpTo(to)
  PROVE  applied' \in Nat /\ applied <= applied' /\ to <= applied'
BY DEF ApplyUpTo

\* What the steps below need of the types.
LEMMA StepTypes ==
  ASSUME IInv
  PROVE  /\ rev \in [Txns -> Nat] /\ snap \in [Txns -> Nat]
         /\ applied \in Nat /\ compacted \in Nat
         /\ pc \in [Txns -> Labels]
         /\ staged \in [Txns -> [events : SUBSET Event, meta : TxnMeta,
                                 succeeded : BOOLEAN, answers : SUBSET Answer]]
BY ZenonT(30) DEF IInv, TypeOK

\* A step of transaction t to a label without a result.
LEMMA PlainStep ==
  ASSUME IInv, OnceInv, NEW t \in Txns,
         NEW label \in {"snapshot", "evaluate", "error", "failed", "abandoned"},
         pc' = [pc EXCEPT ![t] = label] \/ pc' = pc,
         pc[t] \in Unplaced \/ label = "abandoned",
         UNCHANGED <<log, batchVars, staged, rev>>,
         applied' \in Nat, applied <= applied'
  PROVE  OnceInv'
<1>1. UNCHANGED <<log, lastLogPosition, flush>>
  BY DEF batchVars
<1>2. \A u \in Txns : pc'[u] \in {"accepted", "done"} =>
        pc'[u] = pc[u] /\ rev'[u] = rev[u] /\ staged'[u] = staged[u]
  BY StepTypes
<1>3. ResultsRight'
  BY <1>1, <1>2, ResultsFrame, StepTypes DEF OnceInv
<1> QED
  BY <1>3, LabelStep

LEMMA BeginOnce ==
  ASSUME IInv, OnceInv, NEW t \in Txns, Begin(t)
  PROVE  OnceInv'
<1>1. /\ pc' = [pc EXCEPT ![t] = "snapshot"] /\ pc[t] \in Unplaced
      /\ UNCHANGED <<log, batchVars, staged, rev>> /\ applied' = applied
  BY DEF Begin, Goto, Unplaced, storeVars
<1>2. applied' \in Nat /\ applied <= applied'
  BY <1>1, StepTypes
<1> QED
  BY <1>1, <1>2, PlainStep, ZenonT(30)

LEMMA RetryOnce ==
  ASSUME IInv, OnceInv, NEW t \in Txns, Retry(t)
  PROVE  OnceInv'
<1>1. /\ pc' = [pc EXCEPT ![t] = "snapshot"] /\ pc[t] \in Unplaced
      /\ UNCHANGED <<log, batchVars, staged, rev>> /\ applied' = applied
  BY DEF Retry, Goto, Unplaced, storeVars
<1>2. applied' \in Nat /\ applied <= applied'
  BY <1>1, StepTypes
<1> QED
  BY <1>1, <1>2, PlainStep, ZenonT(30)

LEMMA GiveUpOnce ==
  ASSUME IInv, OnceInv, NEW t \in Txns, GiveUp(t)
  PROVE  OnceInv'
<1>1. /\ pc' = [pc EXCEPT ![t] = "failed"] /\ pc[t] \in Unplaced
      /\ UNCHANGED <<log, batchVars, staged, rev>> /\ applied' = applied
  BY DEF GiveUp, Goto, Unplaced, storeVars
<1>2. applied' \in Nat /\ applied <= applied'
  BY <1>1, StepTypes
<1> QED
  BY <1>1, <1>2, PlainStep, ZenonT(30)

LEMMA AbandonOnce ==
  ASSUME IInv, OnceInv, NEW t \in Txns, Abandon(t)
  PROVE  OnceInv'
<1>1. /\ pc' = [pc EXCEPT ![t] = "abandoned"]
      /\ UNCHANGED <<log, batchVars, staged, rev>> /\ applied' = applied
  BY DEF Abandon, Goto, storeVars
<1>2. applied' \in Nat /\ applied <= applied'
  BY <1>1, StepTypes
<1> QED
  BY <1>1, <1>2, PlainStep, ZenonT(30)

LEMMA ApplySnapshotOnce ==
  ASSUME IInv, OnceInv, NEW t \in Txns, ApplySnapshot(t)
  PROVE  OnceInv'
<1>1. /\ pc' = [pc EXCEPT ![t] = "evaluate"] /\ pc[t] \in Unplaced
      /\ UNCHANGED <<log, batchVars, staged, rev>> /\ ApplyUpTo(snap[t])
  BY DEF ApplySnapshot, Goto, Unplaced
<1>2. applied' \in Nat /\ applied <= applied'
  BY <1>1, StepTypes, ApplyGrows, ZenonT(30)
<1> QED
  BY <1>1, <1>2, PlainStep, ZenonT(30)

\* commit applies its record before it answers.
LEMMA FinishOnce ==
  ASSUME IInv, OnceInv, NEW t \in Txns, Finish(t)
  PROVE  OnceInv'
<1>1. /\ pc' = [pc EXCEPT ![t] = "done"] /\ pc[t] = "accepted"
      /\ UNCHANGED <<log, batchVars, staged, rev>> /\ ApplyUpTo(rev[t])
  BY DEF Finish, Goto
<1>2. applied' \in Nat /\ applied <= applied' /\ rev[t] <= applied'
  BY <1>1, StepTypes, ApplyGrows
<1>3. UNCHANGED <<log, lastLogPosition, flush>>
  BY <1>1 DEF batchVars
<1>4. \A u \in Txns : u # t => pc'[u] = pc[u]
  BY <1>1, StepTypes
<1>5. ResultsRight'
  <2>1. flush'.stage = "deliver" =>
          \A i \in DOMAIN flush'.accepted : log'[lastLogPosition' + i] = flush'.accepted[i]
    BY <1>3 DEF OnceInv, ResultsRight
  <2>2. ASSUME NEW u \in Txns,
               pc'[u] = "accepted" \/ (pc'[u] = "done" /\ staged'[u].meta.writes # {})
        PROVE  rev'[u] \in DOMAIN log' /\ log'[rev'[u]].txn = u
    BY <1>1, <1>4, <2>2 DEF OnceInv, ResultsRight
  <2>3. ASSUME NEW u \in Txns, pc'[u] = "done"
        PROVE  rev'[u] <= applied'
    <3>1. rev'[u] = rev[u] /\ rev[u] \in Nat /\ applied \in Nat
      BY <1>1, StepTypes
    <3>2. u = t \/ rev[u] <= applied
      BY <1>4, <2>3 DEF OnceInv, ResultsRight
    <3> QED
      BY <1>2, <3>1, <3>2
  <2> QED
    BY <2>1, <2>2, <2>3, ZenonT(30) DEF ResultsRight
<1> QED
  BY <1>1, <1>5, LabelStep, ZenonT(30)

\* A transaction that is answered without a commit wrote nothing, and its
\* revision is the snapshot it applied.
LEMMA EvaluateOnce ==
  ASSUME IInv, OnceInv, NEW t \in Txns, Evaluate(t)
  PROVE  OnceInv'
<1> DEFINE at == snap[t]
           view == IndexView(at)
           ops == Branch(req[t], view)
           events == Events(ops, view, at)
<1>1. /\ pc[t] = "evaluate" /\ pc[t] \in Unplaced
      /\ UNCHANGED <<log, batchVars>> /\ applied' = applied
  BY ZenonT(30) DEF Evaluate, Unplaced, storeVars
<1>2. applied' \in Nat /\ applied <= applied'
  BY <1>1, StepTypes
<1>3. \/ UNCHANGED <<staged, rev>> /\ (pc' = [pc EXCEPT ![t] = "error"] \/ pc' = pc)
      \/ /\ staged' = [staged EXCEPT ![t] =
                         [events |-> events, meta |-> Meta(req[t], ops, view, at),
                          succeeded |-> Succeeded(req[t], view), answers |-> Answers(ops, at)]]
         /\ rev' = [rev EXCEPT ![t] = at]
         /\ pc' = [pc EXCEPT ![t] = IF events = {} THEN "done" ELSE "append"]
  BY ZenonT(30) DEF Evaluate, Goto
<1>4. CASE UNCHANGED <<staged, rev>> /\ (pc' = [pc EXCEPT ![t] = "error"] \/ pc' = pc)
  BY <1>1, <1>2, <1>4, PlainStep
<1>5. CASE /\ staged' = [staged EXCEPT ![t] =
                           [events |-> events, meta |-> Meta(req[t], ops, view, at),
                            succeeded |-> Succeeded(req[t], view), answers |-> Answers(ops, at)]]
           /\ rev' = [rev EXCEPT ![t] = at]
           /\ pc' = [pc EXCEPT ![t] = IF events = {} THEN "done" ELSE "append"]
  <2>1. events = {} => Meta(req[t], ops, view, at).writes = {}
    <3>1. events = {} => \A j \in DOMAIN ops : ~Stages(ops[j], view)
      BY ZenonT(30) DEF Events
    <3> QED
      BY <3>1, ZenonT(30) DEF Meta
  <2>2. /\ staged'[t].meta = Meta(req[t], ops, view, at)
        /\ rev'[t] = snap[t] /\ snap[t] \in Nat
        /\ pc'[t] = IF events = {} THEN "done" ELSE "append"
        /\ \A u \in Txns : u # t => staged'[u] = staged[u] /\ rev'[u] = rev[u] /\ pc'[u] = pc[u]
    BY <1>5, StepTypes, ZenonT(30)
  <2>3. snap[t] <= applied
    BY <1>1, ZenonT(30) DEF IInv, Positions
  <2> HIDE DEF events
  <2>4. UNCHANGED <<log, lastLogPosition, flush>>
    BY <1>1 DEF batchVars
  <2>5. flush'.stage = "deliver" =>
          \A i \in DOMAIN flush'.accepted : log'[lastLogPosition' + i] = flush'.accepted[i]
    BY <2>4 DEF OnceInv, ResultsRight
  <2>6. ASSUME NEW u \in Txns,
               pc'[u] = "accepted" \/ (pc'[u] = "done" /\ staged'[u].meta.writes # {})
        PROVE  rev'[u] \in DOMAIN log' /\ log'[rev'[u]].txn = u
    <3>1. u # t
      BY <2>1, <2>2, <2>6, ZenonT(30)
    <3> QED
      BY <2>2, <2>4, <2>6, <3>1, ZenonT(30) DEF OnceInv, ResultsRight
  <2>7. ASSUME NEW u \in Txns, pc'[u] = "done"
        PROVE  rev'[u] <= applied'
    BY <1>1, <2>2, <2>3, <2>7, ZenonT(30) DEF OnceInv, ResultsRight
  <2>8. ResultsRight'
    BY <2>5, <2>6, <2>7, ZenonT(30) DEF ResultsRight
  <2>9. \E label : pc' = [pc EXCEPT ![t] = label]
    BY <1>5, ZenonT(30)
  <2> QED
    BY <1>1, <2>8, <2>9, LabelStep, ZenonT(30)
<1> QED
  BY <1>3, <1>4, <1>5, ZenonT(30)

-----------------------------------------------------------------------------
(***************************************************************************)
(* Steps that move transactions between the batches.                       *)
(***************************************************************************)

\* Membership in WaitingTxns, before and after a step.
LEMMA WaitingMembers ==
  /\ \A u : u \in WaitingTxns <=>
       \/ u \in TxnsOf(openBatch)
       \/ u \in TxnsOf(flush.batch)
       \/ \E i \in DOMAIN flushQueue : u \in TxnsOf(flushQueue[i])
  /\ \A u : u \in WaitingTxns' <=>
       \/ u \in TxnsOf(openBatch')
       \/ u \in TxnsOf(flush'.batch)
       \/ \E i \in DOMAIN flushQueue' : u \in TxnsOf(flushQueue'[i])
<1>1. ASSUME NEW u
      PROVE  u \in WaitingTxns <=>
               \/ u \in TxnsOf(openBatch)
               \/ u \in TxnsOf(flush.batch)
               \/ \E i \in DOMAIN flushQueue : u \in TxnsOf(flushQueue[i])
  BY DEF WaitingTxns
<1>2. ASSUME NEW u
      PROVE  u \in WaitingTxns' <=>
               \/ u \in TxnsOf(openBatch')
               \/ u \in TxnsOf(flush'.batch)
               \/ \E i \in DOMAIN flushQueue' : u \in TxnsOf(flushQueue'[i])
  BY DEF WaitingTxns
<1> QED
  BY <1>1, <1>2

\* A transaction that waits nowhere may join the open batch.
LEMMA JoinWaits ==
  ASSUME WaitsOnce, openBatch \in Seq(Record), NEW p \in Record, p.txn \notin WaitingTxns,
         openBatch' = Append(openBatch, p), flushQueue' = flushQueue, flush' = flush
  PROVE  WaitsOnce' /\ WaitingTxns' = WaitingTxns \cup {p.txn}
<1>1. TxnsOf(openBatch') = TxnsOf(openBatch) \cup {p.txn}
  BY AppendTxns
<1>2. /\ p.txn \notin TxnsOf(openBatch) /\ p.txn \notin TxnsOf(flush.batch)
      /\ \A i \in DOMAIN flushQueue : p.txn \notin TxnsOf(flushQueue[i])
  BY WaitingMembers
<1>3. Distinct(openBatch')
  BY <1>2, AppendTxns, ZenonT(30) DEF WaitsOnce
<1>4. WaitsOnce'
  BY <1>1, <1>2, <1>3 DEF WaitsOnce
<1>5. WaitingTxns' = WaitingTxns \cup {p.txn}
  BY <1>1, WaitingMembers, ZenonT(30)
<1> QED
  BY <1>4, <1>5

\* Or the open batch is queued and the transaction opens the next one.
LEMMA OpenWaits ==
  ASSUME WaitsOnce, openBatch \in Seq(Record), flushQueue \in Seq(Seq(Record)),
         NEW p \in Record, p.txn \notin WaitingTxns,
         openBatch' = <<p>>, flushQueue' = Append(flushQueue, openBatch), flush' = flush
  PROVE  WaitsOnce' /\ WaitingTxns' = WaitingTxns \cup {p.txn}
<1>1. TxnsOf(openBatch') = {p.txn} /\ Distinct(openBatch')
  BY DEF TxnsOf, Distinct
<1>2. /\ p.txn \notin TxnsOf(openBatch) /\ p.txn \notin TxnsOf(flush.batch)
      /\ \A i \in DOMAIN flushQueue : p.txn \notin TxnsOf(flushQueue[i])
  BY WaitingMembers, ZenonT(30)
<1>3. PICK last : /\ last \notin DOMAIN flushQueue
                  /\ DOMAIN flushQueue' = DOMAIN flushQueue \cup {last}
                  /\ flushQueue'[last] = openBatch
                  /\ \A i \in DOMAIN flushQueue : flushQueue'[i] = flushQueue[i]
  <2>1. /\ Len(flushQueue) \in Nat /\ DOMAIN flushQueue = 1..Len(flushQueue)
        /\ DOMAIN flushQueue' = 1..(Len(flushQueue) + 1)
        /\ flushQueue'[Len(flushQueue) + 1] = openBatch
        /\ \A i \in 1..Len(flushQueue) : flushQueue'[i] = flushQueue[i]
    OBVIOUS
  <2>2. \A n \in Nat : n + 1 \notin 1..n /\ 1..(n + 1) = (1..n) \cup {n + 1}
    OBVIOUS
  <2> QED
    BY <2>1, <2>2, ZenonT(30)
<1>4. WaitsOnce'
  <2>1. TxnsOf(openBatch') \cap TxnsOf(flush'.batch) = {} /\ Distinct(flush'.batch)
    BY <1>1, <1>2, ZenonT(30) DEF WaitsOnce
  <2>2. ASSUME NEW i \in DOMAIN flushQueue'
        PROVE  /\ Distinct(flushQueue'[i])
               /\ TxnsOf(flushQueue'[i]) \cap (TxnsOf(openBatch') \cup TxnsOf(flush'.batch)) = {}
    <3>1. CASE i = last
      <4>1. Distinct(openBatch) /\ TxnsOf(openBatch) \cap TxnsOf(flush.batch) = {}
        BY ZenonT(30) DEF WaitsOnce
      <4> QED
        BY <1>1, <1>2, <1>3, <3>1, <4>1, ZenonT(30)
    <3>2. CASE i \in DOMAIN flushQueue
      <4>1. /\ Distinct(flushQueue[i])
            /\ TxnsOf(flushQueue[i]) \cap TxnsOf(flush.batch) = {}
        BY <3>2, ZenonT(30) DEF WaitsOnce
      <4> QED
        BY <1>1, <1>2, <1>3, <3>2, <4>1, ZenonT(30)
    <3> QED
      BY <1>3, <3>1, <3>2, ZenonT(30)
  <2>3. ASSUME NEW i \in DOMAIN flushQueue', NEW j \in DOMAIN flushQueue', i # j
        PROVE  TxnsOf(flushQueue'[i]) \cap TxnsOf(flushQueue'[j]) = {}
    BY <1>3, <2>3, ZenonT(30) DEF WaitsOnce
  <2> QED
    BY <1>1, <2>1, <2>2, <2>3, ZenonT(30) DEF WaitsOnce
<1>5. ASSUME NEW u
      PROVE  u \in WaitingTxns' <=> u \in WaitingTxns \/ u = p.txn
  BY <1>1, <1>3, WaitingMembers, ZenonT(30)
<1> QED
  BY <1>4, <1>5

\* Batching.Add hands the transaction over.
LEMMA AddOnce ==
  ASSUME IInv, OnceInv, NEW t \in Txns, Add(t)
  PROVE  OnceInv'
<1> DEFINE p == PendingTxn(t)
<1>1. /\ pc[t] = "append" /\ pc' = [pc EXCEPT ![t] = "queued"]
      /\ UNCHANGED <<storeVars, flush, lastLogPosition, staged, rev>>
      /\ \/ openBatch' = Append(openBatch, p) /\ flushQueue' = flushQueue
         \/ openBatch' = <<p>> /\ flushQueue' = Append(flushQueue, openBatch)
  BY DEF Add, Goto
<1>2. p \in Record /\ p.txn = t
  <2>1. staged[t] \in [events : SUBSET Event, meta : TxnMeta, succeeded : BOOLEAN,
                       answers : SUBSET Answer]
    BY StepTypes
  <2> QED
    BY <2>1, ZenonT(30) DEF PendingTxn, Record
<1> HIDE DEF p
<1>3. /\ t \notin WaitingTxns /\ t \notin flush.rejected
      /\ t \notin TxnsOf(flush.accepted) /\ t \notin TxnsOf(Decided)
  BY <1>1, UnplacedTxn DEF Unplaced
<1>4. WaitsOnce' /\ WaitingTxns' = WaitingTxns \cup {t}
  BY <1>1, <1>2, <1>3, BatchTypes, JoinWaits, OpenWaits, ZenonT(30) DEF OnceInv
<1>5. Decided' = Decided
  BY <1>1 DEF Decided, storeVars
<1>6. DecidedOnce'
  BY <1>1, <1>3, <1>4, <1>5 DEF OnceInv, DecidedOnce
<1>7. pc'[t] = "queued" /\ \A u \in Txns : u # t => pc'[u] = pc[u]
  BY <1>1, StepTypes
<1>8. PlacesAgree'
  BY <1>1, <1>3, <1>4, <1>5, <1>7, ZenonT(30) DEF OnceInv, PlacesAgree
<1>9. ResultsRight'
  <2>1. UNCHANGED <<log, lastLogPosition, flush>> /\ applied' = applied
    BY <1>1 DEF storeVars
  <2>2. applied' \in Nat /\ applied <= applied'
    BY <2>1, StepTypes
  <2>3. \A u \in Txns : pc'[u] \in {"accepted", "done"} =>
          pc'[u] = pc[u] /\ rev'[u] = rev[u] /\ staged'[u] = staged[u]
    BY <1>1, <1>7, ZenonT(30)
  <2> QED
    BY <2>1, <2>2, <2>3, StepTypes, ResultsFrame DEF OnceInv
<1> QED
  BY <1>4, <1>6, <1>8, <1>9 DEF OnceInv

\* A batch that is taken leaves the queue, or is the open one.
LEMMA TakeWaits ==
  ASSUME IInv, OnceInv, TakeBatch
  PROVE  WaitsOnce' /\ WaitingTxns' = WaitingTxns
<1>1. /\ flush.batch = <<>> /\ TxnsOf(flush.batch) = {}
      /\ flush \in [stage : {"idle", "prepare", "deliver"}, batch : Seq(Record),
                    accepted : Seq(Record), rejected : SUBSET Txns]
  BY NoTxns, ZenonT(30) DEF TakeBatch, IInv, Positions, TypeOK
<1>2. CASE /\ flushQueue # <<>>
           /\ flush' = [flush EXCEPT !.stage = "prepare", !.batch = Head(flushQueue)]
           /\ flushQueue' = Tail(flushQueue)
           /\ openBatch' = openBatch
  <2>1. flush'.batch = Head(flushQueue)
    BY <1>1, <1>2
  <2>2. /\ flush'.batch = flushQueue[1] /\ 1 \in DOMAIN flushQueue
        /\ \A i \in DOMAIN flushQueue' : i + 1 \in DOMAIN flushQueue /\ i + 1 # 1
                                         /\ flushQueue'[i] = flushQueue[i + 1]
        /\ \A i \in DOMAIN flushQueue : i # 1 =>
             \E j \in DOMAIN flushQueue' : flushQueue'[j] = flushQueue[i]
        /\ \A i, j \in DOMAIN flushQueue' : i # j => i + 1 # j + 1
    <3>1. /\ 1 \in DOMAIN flushQueue /\ Head(flushQueue) = flushQueue[1]
          /\ Tail(flushQueue) \in Seq(Seq(Record))
          /\ \A n \in DOMAIN Tail(flushQueue) :
               n + 1 \in DOMAIN flushQueue /\ Tail(flushQueue)[n] = flushQueue[n + 1]
      BY <1>2, BatchTypes, TailSpec
    <3>2. /\ Len(flushQueue) \in Nat /\ DOMAIN flushQueue = 1..Len(flushQueue)
          /\ DOMAIN Tail(flushQueue) = 1..(Len(flushQueue) - 1)
      <4>1. flushQueue \in Seq(Seq(Record))
        BY BatchTypes
      <4> QED
        BY <1>2, <4>1
    <3>3. \A i \in DOMAIN flushQueue : i # 1 =>
            i - 1 \in DOMAIN Tail(flushQueue) /\ (i - 1) + 1 = i
      BY <3>2
    <3>4. \A i, j \in DOMAIN Tail(flushQueue) : i + 1 # 1 /\ (i # j => i + 1 # j + 1)
      BY <3>2
    <3> QED
      BY <1>2, <2>1, <3>1, <3>3, <3>4
  <2>3. WaitsOnce'
    <3>1. Distinct(openBatch') /\ Distinct(flush'.batch)
      BY <1>2, <2>2 DEF OnceInv, WaitsOnce
    <3>2. TxnsOf(openBatch') \cap TxnsOf(flush'.batch) = {}
      BY <1>2, <2>2 DEF OnceInv, WaitsOnce
    <3>3. ASSUME NEW i \in DOMAIN flushQueue'
          PROVE  /\ Distinct(flushQueue'[i])
                 /\ TxnsOf(flushQueue'[i]) \cap (TxnsOf(openBatch') \cup TxnsOf(flush'.batch)) = {}
      <4>1. /\ Distinct(flushQueue[i + 1])
            /\ TxnsOf(flushQueue[i + 1]) \cap TxnsOf(openBatch) = {}
            /\ TxnsOf(flushQueue[i + 1]) \cap TxnsOf(flushQueue[1]) = {}
        BY <2>2, ZenonT(30) DEF OnceInv, WaitsOnce
      <4> QED
        BY <1>2, <2>2, <4>1
    <3>4. ASSUME NEW i \in DOMAIN flushQueue', NEW j \in DOMAIN flushQueue', i # j
          PROVE  TxnsOf(flushQueue'[i]) \cap TxnsOf(flushQueue'[j]) = {}
      BY <2>2, <3>4, ZenonT(30) DEF OnceInv, WaitsOnce
    <3> QED
      BY <3>1, <3>2, <3>3, <3>4 DEF WaitsOnce
  <2>4. ASSUME NEW u
        PROVE  u \in WaitingTxns' <=> u \in WaitingTxns
    <3>1. (\E i \in DOMAIN flushQueue : u \in TxnsOf(flushQueue[i])) <=>
            \/ u \in TxnsOf(flushQueue[1])
            \/ \E j \in DOMAIN flushQueue' : u \in TxnsOf(flushQueue'[j])
      BY <2>2, ZenonT(30)
    <3> QED
      BY <1>1, <1>2, <2>2, <3>1, WaitingMembers
  <2> QED
    BY <2>3, <2>4
<1>3. CASE /\ flush' = [flush EXCEPT !.stage = "prepare", !.batch = openBatch]
           /\ openBatch' = <<>>
           /\ flushQueue' = flushQueue
  <2>1. flush'.batch = openBatch
    BY <1>1, <1>3
  <2>2. TxnsOf(openBatch') = {} /\ Distinct(openBatch')
    BY <1>3, NoTxns
  <2>3. WaitsOnce'
    BY <1>3, <2>1, <2>2 DEF OnceInv, WaitsOnce
  <2>4. ASSUME NEW u
        PROVE  u \in WaitingTxns' <=> u \in WaitingTxns
    BY <1>1, <1>3, <2>1, <2>2, WaitingMembers
  <2> QED
    BY <2>3, <2>4
<1> QED
  BY <1>2, <1>3 DEF TakeBatch

\* A flusher step that keeps the log and the transactions' labels keeps
\* OnceInv when the places stay disjoint and nobody is placed who was not.
LEMMA FlusherStepOnce ==
  ASSUME IInv, OnceInv, WaitsOnce', DecidedOnce',
         UNCHANGED <<storeVars, lastLogPosition, txnVars>>, flush'.stage = "prepare",
         \A u \in Txns :
           u \in WaitingTxns' \cup flush'.rejected \cup TxnsOf(flush'.accepted) =>
             u \in WaitingTxns \cup flush.rejected \cup TxnsOf(flush.accepted),
         \A u \in Txns : u \in TxnsOf(Decided') => u \in TxnsOf(Decided) \cup WaitingTxns
  PROVE  OnceInv'
<1>1. pc' = pc /\ rev' = rev /\ staged' = staged /\ log' = log /\ applied' = applied
  BY ZenonT(30) DEF txnVars, storeVars
<1>2. PlacesAgree'
  BY <1>1, ZenonT(30) DEF OnceInv, PlacesAgree
<1>3. ResultsRight'
  BY <1>1, ZenonT(30) DEF OnceInv, ResultsRight
<1> QED
  BY <1>2, <1>3 DEF OnceInv

LEMMA TakeBatchOnce ==
  ASSUME IInv, OnceInv, TakeBatch
  PROVE  OnceInv'
<1>1. /\ flush \in [stage : {"idle", "prepare", "deliver"}, batch : Seq(Record),
                    accepted : Seq(Record), rejected : SUBSET Txns]
      /\ flush.stage = "idle" /\ flush.accepted = <<>>
      /\ \E b : flush' = [flush EXCEPT !.stage = "prepare", !.batch = b]
      /\ UNCHANGED <<storeVars, lastLogPosition, txnVars>>
  BY ZenonT(30) DEF TakeBatch, IInv, TypeOK, Positions
<1>2. flush'.stage = "prepare" /\ flush'.accepted = <<>> /\ flush'.rejected = flush.rejected
  BY <1>1
<1>3. WaitsOnce' /\ WaitingTxns' = WaitingTxns
  BY TakeWaits
<1>4. Decided' = Decided
  <2>1. log \in Seq(Record) /\ log' = log
    BY <1>1, ZenonT(30) DEF storeVars, IInv, TypeOK
  <2>2. log \o <<>> = log
    BY <2>1
  <2> QED
    BY <1>1, <1>2, <2>1, <2>2, ZenonT(30) DEF Decided
<1>5. DecidedOnce'
  BY <1>2, <1>3, <1>4, ZenonT(30) DEF OnceInv, DecidedOnce
<1> QED
  BY <1>1, <1>2, <1>3, <1>4, <1>5, FlusherStepOnce

\* prepare takes the head of the batch in hand.
LEMMA HeadWaits ==
  ASSUME IInv, OnceInv, flush.batch # <<>>, openBatch' = openBatch, flushQueue' = flushQueue,
         flush'.batch = Tail(flush.batch)
  PROVE  /\ WaitsOnce'
         /\ WaitingTxns = WaitingTxns' \cup {Head(flush.batch).txn}
         /\ Head(flush.batch).txn \notin WaitingTxns'
<1> DEFINE x == Head(flush.batch).txn
<1>1. /\ TxnsOf(flush.batch) = TxnsOf(flush'.batch) \cup {x}
      /\ x \notin TxnsOf(flush'.batch) /\ Distinct(flush'.batch)
  BY BatchTypes, TailTxns DEF OnceInv, WaitsOnce
<1> HIDE DEF x
<1>2. WaitsOnce'
  BY <1>1, ZenonT(30) DEF OnceInv, WaitsOnce
<1>3. ASSUME NEW u
      PROVE  u \in WaitingTxns <=> u \in WaitingTxns' \/ u = x
  BY <1>1, WaitingMembers, ZenonT(30)
<1>4. x \notin WaitingTxns'
  BY <1>1, WaitingMembers, ZenonT(30) DEF OnceInv, WaitsOnce
<1> QED
  BY <1>2, <1>3, <1>4, ZenonT(30) DEF x

\* prepare rejects or accepts it.
LEMMA PrepareTxnOnce ==
  ASSUME IInv, OnceInv, PrepareTxn
  PROVE  OnceInv'
<1> DEFINE p == Head(flush.batch)
           r == lastLogPosition + Len(flush.accepted) + 1
           rec == StampRecord(p, r)
<1>1. /\ flush.stage = "prepare" /\ flush.batch # <<>>
      /\ flush \in [stage : {"idle", "prepare", "deliver"}, batch : Seq(Record),
                    accepted : Seq(Record), rejected : SUBSET Txns]
      /\ UNCHANGED <<storeVars, openBatch, flushQueue, lastLogPosition, txnVars>>
      /\ \/ flush' = [flush EXCEPT !.batch = Tail(@), !.accepted = Append(@, rec)]
         \/ flush' = [flush EXCEPT !.batch = Tail(@), !.rejected = @ \cup {p.txn}]
  BY ZenonT(30) DEF PrepareTxn, IInv, TypeOK
<1>2. p \in Record /\ p.txn \in Txns
  <2>1. flush.batch \in Seq(Record)
    BY <1>1
  <2>2. p \in Record /\ p \in Queued
    BY <1>1, <2>1, TailSpec DEF Queued, InBatch
  <2> QED
    BY <2>2, ZenonT(30) DEF IInv, StagedAndQueued, PendingOK
<1>3. flush'.stage = "prepare" /\ flush'.batch = Tail(flush.batch)
  BY <1>1, ZenonT(30)
<1>4. /\ WaitsOnce' /\ WaitingTxns = WaitingTxns' \cup {p.txn} /\ p.txn \notin WaitingTxns'
  BY <1>1, <1>3, HeadWaits
<1>5. CASE flush' = [flush EXCEPT !.batch = Tail(@), !.rejected = @ \cup {p.txn}]
  <2>1. flush'.accepted = flush.accepted /\ flush'.rejected = flush.rejected \cup {p.txn}
    BY <1>1, <1>5
  <2> HIDE DEF p
  <2>2. Decided' = Decided
    BY <1>1, <1>3, <2>1 DEF Decided, storeVars
  <2>3. DecidedOnce'
    BY <1>4, <2>1, <2>2, ZenonT(30) DEF OnceInv, DecidedOnce
  <2> QED
    BY <1>1, <1>3, <1>4, <2>1, <2>2, <2>3, FlusherStepOnce
<1>6. CASE flush' = [flush EXCEPT !.batch = Tail(@), !.accepted = Append(@, rec)]
  <2>1. flush'.accepted = Append(flush.accepted, rec) /\ flush'.rejected = flush.rejected
    BY <1>1, <1>6
  <2>2. rec.txn = p.txn /\ rec \in Record
    <3>1. IInv'
      BY PrepareTxnKeeps
    <3>2. flush'.accepted \in Seq(Record)
      BY <3>1, ZenonT(30) DEF IInv, TypeOK
    <3>3. rec = flush'.accepted[Len(flush.accepted) + 1] /\ Len(flush.accepted) \in Nat
          /\ Len(flush.accepted) + 1 \in DOMAIN flush'.accepted
      BY <1>1, <2>1
    <3>4. rec.txn = p.txn
      BY <1>2 DEF StampRecord, Record
    <3> QED
      BY <3>2, <3>3, <3>4
  <2> HIDE DEF rec, p
  <2>3. /\ Decided' \in Seq(Record) /\ Len(Decided') = Len(Decided) + 1
        /\ \A i \in 1..Len(Decided) : Decided'[i] = Decided[i]
        /\ Decided'[Len(Decided) + 1] = rec
    <3>1. log' = log
      BY <1>1 DEF storeVars
    <3> QED
      BY <1>1, <1>3, <2>1, <2>2, <3>1, DecidedAccept, ZenonT(30)
  <2>4. p.txn \notin TxnsOf(Decided) /\ p.txn \notin flush.rejected
    BY <1>4 DEF OnceInv, DecidedOnce
  <2>5. TxnsOf(Decided') = TxnsOf(Decided) \cup {p.txn} /\ Distinct(Decided')
    <3>1. Decided \in Seq(Record) /\ Distinct(Decided)
      BY DecidedLength, ZenonT(30) DEF OnceInv, DecidedOnce
    <3> QED
      BY <2>2, <2>3, <2>4, <3>1, GrownTxns, ZenonT(30)
  <2>6. TxnsOf(flush'.accepted) = TxnsOf(flush.accepted) \cup {p.txn}
    BY <2>1, <2>2, BatchTypes, AppendTxns, ZenonT(30)
  <2>7. DecidedOnce'
    BY <1>4, <2>1, <2>4, <2>5, ZenonT(30) DEF OnceInv, DecidedOnce
  <2> QED
    BY <1>1, <1>3, <1>4, <2>1, <2>5, <2>6, <2>7, FlusherStepOnce
<1> QED
  BY <1>1, <1>5, <1>6

\* A published batch is behind the log it was accepted for.
LEMMA PublishOnce ==
  ASSUME IInv, OnceInv, Publish
  PROVE  OnceInv'
<1>1. /\ flush.stage = "prepare" /\ log' = log \o flush.accepted
      /\ flush' = [flush EXCEPT !.stage = "deliver"]
      /\ UNCHANGED <<applied, openBatch, flushQueue, lastLogPosition, txnVars>>
      /\ flush \in [stage : {"idle", "prepare", "deliver"}, batch : Seq(Record),
                    accepted : Seq(Record), rejected : SUBSET Txns]
  BY ZenonT(30) DEF Publish, IInv, TypeOK
<1>2. /\ flush'.stage = "deliver" /\ flush'.batch = flush.batch
      /\ flush'.accepted = flush.accepted /\ flush'.rejected = flush.rejected
  BY <1>1
<1>3. Decided' = Decided
  BY <1>1, <1>2, ZenonT(30) DEF Decided
<1>4. WaitingTxns' = WaitingTxns
  BY <1>1, <1>2 DEF WaitingTxns
<1>5. WaitsOnce'
  BY <1>1, <1>2, ZenonT(30) DEF OnceInv, WaitsOnce
<1>6. DecidedOnce'
  BY <1>2, <1>3, <1>4, ZenonT(30) DEF OnceInv, DecidedOnce
<1>7. pc' = pc /\ rev' = rev /\ staged' = staged
  BY <1>1 DEF txnVars
<1>8. PlacesAgree'
  BY <1>2, <1>3, <1>4, <1>7, ZenonT(30) DEF OnceInv, PlacesAgree
<1>9. /\ log \in Seq(Record) /\ flush.accepted \in Seq(Record)
      /\ DOMAIN log = 1..Len(log) /\ Len(log) \in Nat /\ lastLogPosition = Len(log)
      /\ DOMAIN flush.accepted = 1..Len(flush.accepted)
  <2>1. log \in Seq(Record) /\ flush.accepted \in Seq(Record)
    BY BatchTypes, ZenonT(30) DEF IInv, TypeOK
  <2> QED
    BY <1>1, <2>1, SeqSpec, ZenonT(30) DEF IInv, Positions
<1>10. /\ \A n \in DOMAIN log : n \in DOMAIN log' /\ log'[n] = log[n]
       /\ \A n \in DOMAIN flush.accepted : log'[lastLogPosition + n] = flush.accepted[n]
  <2>1. /\ log' \in Seq(Record) /\ Len(log') = Len(log) + Len(flush.accepted)
        /\ \A n \in 1..Len(log) : log'[n] = log[n]
        /\ \A n \in 1..Len(flush.accepted) : log'[Len(log) + n] = flush.accepted[n]
    <3>1. log' = log \o flush.accepted
      BY <1>1, ZenonT(30)
    <3>2. log \in Seq(Record) /\ flush.accepted \in Seq(Record)
      BY <1>9, ZenonT(30)
    <3> QED
      BY <3>1, <3>2, ConcatSpec
  <2>2. DOMAIN log' = 1..Len(log') /\ Len(flush.accepted) \in Nat
    BY <1>9, <2>1, SeqSpec, ZenonT(30)
  <2>3. \A n \in DOMAIN log : n \in DOMAIN log'
    BY <1>9, <2>1, <2>2
  <2> QED
    BY <1>9, <2>1, <2>3, ZenonT(30)
<1>11. ResultsRight'
  BY <1>1, <1>2, <1>7, <1>10, ZenonT(30) DEF OnceInv, ResultsRight
<1> QED
  BY <1>5, <1>6, <1>8, <1>11 DEF OnceInv

\* The results of a batch are delivered to the transactions that wait for them.
LEMMA DeliverOnce ==
  ASSUME IInv, OnceInv, Deliver
  PROVE  OnceInv'
<1>1. /\ flush.stage = "deliver"
      /\ flush' = [stage |-> "idle", batch |-> <<>>, accepted |-> <<>>, rejected |-> {}]
      /\ UNCHANGED <<storeVars, openBatch, flushQueue, staged>>
  BY ZenonT(30) DEF Deliver
<1>2. /\ flush'.stage = "idle" /\ flush'.batch = <<>>
      /\ flush'.accepted = <<>> /\ flush'.rejected = {} /\ flush.batch = <<>>
      /\ log' = log /\ applied' = applied
  BY <1>1, ZenonT(30) DEF IInv, Positions, storeVars
<1>3. Decided' = log /\ Decided = log
  BY <1>1, <1>2, ZenonT(30) DEF Decided
<1>4. WaitingTxns' = WaitingTxns
  BY <1>1, <1>2 DEF WaitingTxns
<1>5. WaitsOnce'
  BY <1>1, <1>2, ZenonT(30) DEF OnceInv, WaitsOnce
<1>6. DecidedOnce'
  BY <1>2, <1>3, <1>4, ZenonT(30) DEF OnceInv, DecidedOnce
<1>7. /\ DOMAIN log = 1..Len(log) /\ Len(log) \in Nat /\ Len(flush.accepted) \in Nat
      /\ DOMAIN flush.accepted = 1..Len(flush.accepted)
      /\ lastLogPosition \in Nat /\ lastLogPosition + Len(flush.accepted) = Len(log)
  <2>1. log \in Seq(Record) /\ flush.accepted \in Seq(Record) /\ lastLogPosition \in Nat
    BY BatchTypes, ZenonT(30) DEF IInv, TypeOK
  <2>2. lastLogPosition = Len(log) - Len(flush.accepted)
    BY <1>1, ZenonT(30) DEF IInv, Positions
  <2> QED
    BY <2>1, <2>2, SeqSpec
<1>8. \A i \in DOMAIN flush.accepted :
        lastLogPosition + i \in DOMAIN log /\ log[lastLogPosition + i] = flush.accepted[i]
  <2>1. ASSUME NEW p \in Nat, NEW n \in Nat, NEW i \in 1..n
        PROVE  p + i \in 1..(p + n)
    OBVIOUS
  <2>2. \A i \in DOMAIN flush.accepted : lastLogPosition + i \in DOMAIN log
    BY <1>7, <2>1, ZenonT(30)
  <2> QED
    BY <1>1, <2>2, ZenonT(30) DEF OnceInv, ResultsRight
<1>9. ASSUME NEW t \in Txns, AcceptedAt(t) # {}
      PROVE  /\ rev'[t] \in DOMAIN log /\ log[rev'[t]].txn = t
             /\ t \in TxnsOf(flush.accepted) /\ t \in TxnsOf(Decided)
  <2>1. AcceptedAt(t) \in SUBSET (0..Len(flush.accepted))
    <3>1. ASSUME NEW n \in Nat, NEW i \in 1..n
          PROVE  i \in 0..n
      OBVIOUS
    <3>2. \A i \in AcceptedAt(t) : i \in 1..Len(flush.accepted)
      BY <1>7, ZenonT(30) DEF AcceptedAt
    <3> QED
      BY <1>7, <3>1, <3>2, ZenonT(30)
  <2>2. Max(AcceptedAt(t)) \in AcceptedAt(t)
    BY <1>7, <1>9, <2>1, MaxOfBounded, ZenonT(30)
  <2>3. /\ Max(AcceptedAt(t)) \in DOMAIN flush.accepted
        /\ flush.accepted[Max(AcceptedAt(t))].txn = t
    BY <2>2 DEF AcceptedAt
  <2>4. rev'[t] = lastLogPosition + Max(AcceptedAt(t))
    BY <1>9, ZenonT(30) DEF Deliver
  <2> QED
    BY <1>3, <1>8, <2>3, <2>4, ZenonT(30) DEF TxnsOf
<1>10. ASSUME NEW t \in Txns
       PROVE  /\ pc'[t] = pc[t] \/ (pc[t] = "queued" /\ pc'[t] \in {"accepted", "rejected"})
              /\ pc'[t] # pc[t] => (pc'[t] = "accepted" => AcceptedAt(t) # {})
              /\ pc'[t] # pc[t] => (pc'[t] = "rejected" => t \in flush.rejected)
              /\ AcceptedAt(t) = {} => rev'[t] = rev[t]
  BY ZenonT(30) DEF Deliver
<1>11. ASSUME NEW t \in Txns
       PROVE  /\ t \in WaitingTxns => pc'[t] \in {"queued", "abandoned"}
              /\ t \in TxnsOf(Decided) => pc'[t] \in {"queued", "accepted", "done", "abandoned", "dead"}
  <2>1. /\ t \in WaitingTxns => pc[t] \in {"queued", "abandoned"}
        /\ t \in TxnsOf(Decided) => pc[t] \in {"queued", "accepted", "done", "abandoned", "dead"}
    BY ZenonT(30) DEF OnceInv, PlacesAgree
  <2>2. /\ t \in WaitingTxns => t \notin TxnsOf(Decided) /\ t \notin flush.rejected
        /\ t \in TxnsOf(Decided) => t \notin flush.rejected
    BY DEF OnceInv, DecidedOnce
  <2>3. pc'[t] = pc[t] \/ (pc'[t] = "accepted" /\ t \in TxnsOf(Decided))
                       \/ (pc'[t] = "rejected" /\ t \in flush.rejected)
    BY <1>9, <1>10, ZenonT(30)
  <2> QED
    BY <2>1, <2>2, <2>3, ZenonT(30)
<1>12. PlacesAgree'
  BY <1>2, <1>3, <1>4, <1>11, NoTxns, ZenonT(30) DEF PlacesAgree
<1>13. ResultsRight'
  <2>1. ASSUME NEW t \in Txns, AcceptedAt(t) # {}
        PROVE  pc[t] \in {"queued", "abandoned"}
    BY <1>9, <2>1, ZenonT(30) DEF OnceInv, PlacesAgree
  <2>2. ASSUME NEW t \in Txns,
               pc'[t] = "accepted" \/ (pc'[t] = "done" /\ staged'[t].meta.writes # {})
        PROVE  rev'[t] \in DOMAIN log' /\ log'[rev'[t]].txn = t
    <3>1. CASE AcceptedAt(t) # {}
      BY <1>2, <1>9, <3>1, ZenonT(30)
    <3>2. CASE AcceptedAt(t) = {}
      BY <1>1, <1>2, <1>10, <2>2, <3>2, ZenonT(30) DEF OnceInv, ResultsRight
    <3> QED
      BY <3>1, <3>2, ZenonT(30)
  <2>3. ASSUME NEW t \in Txns, pc'[t] = "done"
        PROVE  rev'[t] <= applied'
    BY <1>2, <1>10, <2>1, <2>3, ZenonT(30) DEF OnceInv, ResultsRight
  <2> QED
    BY <1>2, <2>2, <2>3, ZenonT(30) DEF ResultsRight
<1> QED
  BY <1>5, <1>6, <1>12, <1>13 DEF OnceInv

\* After a restart the log is all there is.
LEMMA RestartOnce ==
  ASSUME IInv, OnceInv, Restart
  PROVE  OnceInv'
<1>1. /\ applied' = Len(log') /\ openBatch' = <<>> /\ flushQueue' = <<>>
      /\ flush' = [stage |-> "idle", batch |-> <<>>, accepted |-> <<>>, rejected |-> {}]
      /\ pc' = [t \in Txns |-> IF pc[t] \in Ended THEN pc[t] ELSE "dead"]
      /\ UNCHANGED <<staged, rev>>
  BY ZenonT(30) DEF Restart
<1>2. /\ flush'.stage = "idle" /\ flush'.batch = <<>>
      /\ flush'.accepted = <<>> /\ flush'.rejected = {} /\ DOMAIN flushQueue' = {}
  BY <1>1
<1>3. /\ log' \in Seq(Record)
      /\ Len(log') \in Nat /\ Len(log) <= Len(log') /\ Len(log') <= Len(Decided)
      /\ \A i \in 1..Len(log') : log'[i] = Decided[i]
      /\ DOMAIN log' = 1..Len(log')
  BY RestartLog, SeqSpec
<1>4. /\ DOMAIN log = 1..Len(log) /\ Len(log) \in Nat
      /\ Len(Decided) \in Nat /\ DOMAIN Decided = 1..Len(Decided)
      /\ \A i \in 1..Len(log) : Decided[i] = log[i]
  BY DecidedLength, ZenonT(30)
<1>5. \A n \in DOMAIN log' : n \in DOMAIN Decided /\ log'[n] = Decided[n]
  BY <1>3, <1>4
<1>6. \A n \in DOMAIN log : n \in DOMAIN log' /\ log'[n] = log[n]
  BY <1>3, <1>4
<1>7. Decided' = log'
  BY <1>2 DEF Decided
<1>8. WaitingTxns' = {}
  BY <1>1, <1>2, NoTxns, WaitingMembers, ZenonT(30)
<1>9. WaitsOnce'
  BY <1>1, <1>2, NoTxns, ZenonT(30) DEF WaitsOnce
<1>10. Distinct(log') /\ TxnsOf(log') \subseteq TxnsOf(Decided)
  <2>1. Distinct(log')
    BY <1>5 DEF OnceInv, DecidedOnce, Distinct
  <2> QED
    BY <1>5, <2>1 DEF TxnsOf
<1>11. DecidedOnce'
  BY <1>2, <1>7, <1>8, <1>10 DEF DecidedOnce
<1>12. PlacesAgree'
  <2>1. ASSUME NEW t \in Txns, t \in TxnsOf(log')
        PROVE  pc'[t] \in {"queued", "accepted", "done", "abandoned", "dead"}
    <3>1. pc[t] \in {"queued", "accepted", "done", "abandoned", "dead"}
      BY <1>10, <2>1, ZenonT(30) DEF OnceInv, PlacesAgree
    <3> QED
      BY <1>1, <3>1, ZenonT(30)
  <2> QED
    BY <1>2, <1>7, <1>8, <2>1, NoTxns DEF PlacesAgree
<1>13. ResultsRight'
  <2>1. \A t \in Txns : pc'[t] # "accepted" /\ (pc'[t] = "done" => pc[t] = "done")
    BY <1>1, ZenonT(30) DEF Ended
  <2>2. ASSUME NEW t \in Txns, pc'[t] = "done"
        PROVE  rev'[t] <= applied'
    <3>1. rev'[t] = rev[t] /\ rev[t] \in Nat /\ rev[t] <= Len(log)
      BY <1>1, ZenonT(30) DEF IInv, TypeOK, Positions
    <3>2. applied' = Len(log') /\ Len(log') \in Nat /\ Len(log) \in Nat /\ Len(log) <= Len(log')
      BY <1>1, <1>3, <1>4, ZenonT(30)
    <3> QED
      BY <3>1, <3>2
  <2> QED
    BY <1>1, <1>2, <1>6, <2>1, <2>2, ZenonT(30) DEF OnceInv, ResultsRight
<1> QED
  BY <1>9, <1>11, <1>12, <1>13 DEF OnceInv

\* A step that leaves the transactions, the batches and the log alone.
LEMMA QuietStep ==
  ASSUME IInv, OnceInv, UNCHANGED <<log, batchVars, pc, staged, rev, applied>>
  PROVE  OnceInv'
<1>1. /\ WaitsOnce' /\ DecidedOnce' /\ WaitingTxns' = WaitingTxns /\ Decided' = Decided
      /\ UNCHANGED <<flush, lastLogPosition>>
  BY PlacesFrame DEF OnceInv, batchVars
<1>2. PlacesAgree' /\ ResultsRight'
  BY <1>1, ZenonT(30) DEF OnceInv, PlacesAgree, ResultsRight
<1> QED
  BY <1>1, <1>2 DEF OnceInv

LEMMA NextOnce ==
  ASSUME IInv, OnceInv, [Next]_vars
  PROVE  OnceInv'
<1>1. ASSUME NEW t \in Txns, TxnStep(t)
      PROVE  OnceInv'
  BY <1>1, BeginOnce, ApplySnapshotOnce, EvaluateOnce, AddOnce, FinishOnce, RetryOnce,
     GiveUpOnce DEF TxnStep
<1>2. ASSUME FlusherStep
      PROVE  OnceInv'
  BY <1>2, TakeBatchOnce, PrepareTxnOnce, PublishOnce, DeliverOnce DEF FlusherStep
<1>3. ASSUME NEW r, Compact(r)
      PROVE  OnceInv'
  BY <1>3, QuietStep DEF Compact, txnVars
<1>4. ASSUME Crash \/ UNCHANGED vars
      PROVE  OnceInv'
  BY <1>4, QuietStep, ZenonT(30) DEF Crash, vars, storeVars, txnVars
<1> QED
  BY <1>1, <1>2, <1>3, <1>4, AbandonOnce, RestartOnce, ZenonT(30) DEF Next, Idle

LEMMA InitOnce ==
  ASSUME Init
  PROVE  OnceInv
<1>1. /\ log = <<DummyRecord>> /\ openBatch = <<>> /\ flushQueue = <<>>
      /\ flush = [stage |-> "idle", batch |-> <<>>, accepted |-> <<>>, rejected |-> {}]
      /\ \A t \in Txns : pc[t] = "idle"
  BY ZenonT(30) DEF Init
<1>2. /\ flush.stage = "idle" /\ flush.batch = <<>> /\ flush.accepted = <<>>
      /\ flush.rejected = {} /\ DOMAIN flushQueue = {}
  BY <1>1
<1>3. Decided = <<DummyRecord>>
  BY <1>1, <1>2, ZenonT(30) DEF Decided
<1>4. WaitingTxns = {}
  BY <1>1, <1>2, NoTxns, WaitingMembers, ZenonT(30)
<1>5. TxnsOf(Decided) = {NoTxn} /\ Distinct(Decided)
  BY <1>3 DEF TxnsOf, Distinct, DummyRecord
<1>6. WaitsOnce
  BY <1>1, <1>2, NoTxns, ZenonT(30) DEF WaitsOnce
<1>7. DecidedOnce
  BY <1>2, <1>4, <1>5 DEF DecidedOnce
<1>8. PlacesAgree
  BY <1>2, <1>4, <1>5, NoTxns, BoundsAssumption DEF PlacesAgree
<1>9. ResultsRight
  BY <1>1, <1>2, ZenonT(30) DEF ResultsRight
<1> QED
  BY <1>6, <1>7, <1>8, <1>9 DEF OnceInv

\* Every transaction is in one place only, which agrees with its goroutine.
THEOREM OnceInvHolds == Spec => [](IInv /\ OnceInv)
<1>1. Init => OnceInv
  BY InitOnce
<1>2. IInv /\ OnceInv /\ [Next]_vars => OnceInv'
  BY NextOnce
<1> QED
  BY <1>1, <1>2, IInvHolds, PTL DEF Spec

\* Retries, abandoned calls, crashes and replays never write a transaction
\* twice, nor one that was answered with a failure.
THEOREM WritesOnce == Spec => []WrittenAtMostOnce
<1>1. IInv /\ OnceInv => WrittenAtMostOnce
  <2> SUFFICES ASSUME IInv, OnceInv, NEW q \in 2..Len(log), NEW r \in 2..Len(log)
               PROVE  /\ log[q].txn = log[r].txn => q = r
                      /\ pc[log[r].txn] \in {"queued", "accepted", "done", "abandoned", "dead"}
    BY ZenonT(30) DEF WrittenAtMostOnce
  <2>1. /\ Len(Decided) \in Nat /\ DOMAIN Decided = 1..Len(Decided) /\ Len(log) \in Nat
        /\ Len(log) <= Len(Decided) /\ \A i \in 1..Len(log) : Decided[i] = log[i]
    BY DecidedLength, ZenonT(30)
  <2>2. /\ q \in DOMAIN Decided /\ r \in DOMAIN Decided /\ r \in 2..Len(Decided)
        /\ q \in 1..Len(log) /\ r \in 1..Len(log)
    BY <2>1
  <2>3. log[q] = Decided[q] /\ log[r] = Decided[r]
    BY <2>1, <2>2
  <2>4. log[r].txn \in Txns /\ log[r].txn \in TxnsOf(Decided)
    BY <2>2, <2>3, ZenonT(30) DEF IInv, DecidedSerial, TxnsOf
  <2> QED
    BY <2>2, <2>3, <2>4, ZenonT(30) DEF OnceInv, DecidedOnce, Distinct, PlacesAgree
<1> QED
  BY <1>1, OnceInvHolds, PTL

\* A write that was answered is in the log, at the revision of its response,
\* and applied to the index, whatever crashes afterwards.
THEOREM AckedStays == Spec => []AckedIsDurableAndVisible
<1>1. OnceInv => AckedIsDurableAndVisible
  BY ZenonT(30) DEF OnceInv, ResultsRight, AckedIsDurableAndVisible
<1> QED
  BY <1>1, OnceInvHolds, PTL

-----------------------------------------------------------------------------
(***************************************************************************)
(* The refinement.                                                         *)
(***************************************************************************)

\* The abstract revisions, and how steps of one transaction change what its
\* caller knows.
Revision == [t \in Txns |-> IF pc[t] = "done" THEN rev[t] ELSE 0]
Known == [t \in Txns |-> Status(pc[t])]

LEMMA KnownStep ==
  ASSUME NEW t \in Txns, NEW label \in Labels, pc \in [Txns -> Labels],
         pc' = [pc EXCEPT ![t] = label]
  PROVE  /\ Known' = [Known EXCEPT ![t] = Status(label)]
         /\ Known[t] = Status(pc[t])
         /\ \A u \in Txns : u # t => pc'[u] = pc[u]
         /\ pc'[t] = label
BY ZenonT(30) DEF Known

\* A label without an answer leaves the revisions alone.
LEMMA RevisionFrame ==
  ASSUME NEW t \in Txns, NEW label \in Labels, pc \in [Txns -> Labels], label # "done",
         pc[t] # "done", pc' = [pc EXCEPT ![t] = label],
         rev \in [Txns -> Nat], rev' = rev \/ \E n : rev' = [rev EXCEPT ![t] = n]
  PROVE  Revision' = Revision
<1>1. \A u \in Txns : u # t => pc'[u] = pc[u] /\ rev'[u] = rev[u]
  BY ZenonT(30)
<1>2. pc'[t] = label
  OBVIOUS
<1>3. Revision' = Revision
  <2>1. \A u \in Txns : (IF pc'[u] = "done" THEN rev'[u] ELSE 0)
                       = (IF pc[u] = "done" THEN rev[u] ELSE 0)
    BY <1>1, <1>2
  <2> QED
    BY <2>1 DEF Revision
<1> QED
  BY <1>3

\* A step between two labels of a running call is invisible to the caller.
LEMMA HiddenStep ==
  ASSUME IInv, NEW t \in Txns, NEW label \in Running, pc[t] \in Running,
         pc' = [pc EXCEPT ![t] = label], UNCHANGED <<log, req, snap>>,
         rev' = rev \/ \E n : rev' = [rev EXCEPT ![t] = n]
  PROVE  UNCHANGED Abstract!vars
<1>1. label \in Labels /\ label # "done" /\ pc[t] # "done"
  BY DEF Running, Labels
<1>2. Revision' = Revision
  BY <1>1, RevisionFrame, StepTypes, ZenonT(30)
<1>3. Known' = [Known EXCEPT ![t] = Status(label)] /\ Known[t] = Status(pc[t])
  BY <1>1, KnownStep, StepTypes, ZenonT(30)
<1>4. Status(label) = "open" /\ Status(pc[t]) = "open"
  BY ZenonT(30) DEF Status
<1>5. Known' = Known
  BY <1>3, <1>4, ZenonT(30) DEF Known
<1> QED
  BY <1>2, <1>5, ZenonT(30) DEF Abstract!vars, Known, Revision

\* A transaction that is in no batch has written nothing.
LEMMA NotWritten ==
  ASSUME IInv, OnceInv, NEW t \in Txns, pc[t] \in Unplaced
  PROVE  t \notin Abstract!Written
<1>1. t \notin TxnsOf(Decided)
  BY UnplacedTxn
<1>2. \A r \in DOMAIN log : r \in DOMAIN Decided /\ Decided[r] = log[r]
  <2>1. /\ Len(Decided) \in Nat /\ DOMAIN Decided = 1..Len(Decided) /\ Len(log) \in Nat
        /\ DOMAIN log = 1..Len(log)
        /\ Len(log) <= Len(Decided) /\ \A i \in 1..Len(log) : Decided[i] = log[i]
    BY DecidedLength, ZenonT(30)
  <2> QED
    BY <2>1
<1> QED
  BY <1>1, <1>2, ZenonT(30) DEF Abstract!Written, TxnsOf

\* A fresh snapshot is a look at the latest revision.
LEMMA SnapshotObserves ==
  ASSUME IInv, OnceInv, NEW t \in Txns, pc[t] \in {"idle", "rejected"},
         pc' = [pc EXCEPT ![t] = "snapshot"], snap' = [snap EXCEPT ![t] = Len(log)],
         UNCHANGED <<log, req, rev>>
  PROVE  Abstract!Observe(t)
<1>1. "snapshot" \in Labels
  BY DEF Labels
<1>2. Known' = [Known EXCEPT ![t] = "open"] /\ Known[t] \in {"idle", "open"}
  <2>1. Status("snapshot") = "open" /\ Status(pc[t]) \in {"idle", "open"}
    BY ZenonT(30) DEF Status, Running
  <2>2. Known' = [Known EXCEPT ![t] = Status("snapshot")] /\ Known[t] = Status(pc[t])
    BY <1>1, KnownStep, StepTypes, ZenonT(30)
  <2> QED
    BY <2>1, <2>2, ZenonT(30)
<1>3. Revision' = Revision
  BY <1>1, RevisionFrame, StepTypes, ZenonT(30)
<1>4. t \notin Abstract!Written
  BY NotWritten DEF Unplaced
<1> QED
  BY <1>2, <1>3, <1>4, ZenonT(30) DEF Abstract!Observe, Known, Revision

\* An error before anything was handed to the batching layer, or after it was
\* handed back.
LEMMA RefuseStep ==
  ASSUME IInv, OnceInv, NEW t \in Txns, pc[t] \in {"evaluate", "rejected"},
         NEW label \in {"error", "failed"}, pc' = [pc EXCEPT ![t] = label],
         UNCHANGED <<log, req, snap, rev>>
  PROVE  Abstract!Refuse(t)
<1>1. label \in Labels
  BY DEF Labels
<1>2. Known' = [Known EXCEPT ![t] = "refused"] /\ Known[t] = "open"
  <2>1. Status(label) = "refused" /\ Status(pc[t]) = "open"
    BY DEF Status, Running
  <2>2. Known' = [Known EXCEPT ![t] = Status(label)] /\ Known[t] = Status(pc[t])
    BY <1>1, KnownStep, StepTypes, ZenonT(30)
  <2> QED
    BY <2>1, <2>2
<1>3. Revision' = Revision
  BY <1>1, RevisionFrame, StepTypes, ZenonT(30)
<1>4. t \notin Abstract!Written
  BY NotWritten DEF Unplaced
<1> QED
  BY <1>2, <1>3, <1>4, ZenonT(30) DEF Abstract!Refuse, Known, Revision

\* An answer.
LEMMA AnswerStep ==
  ASSUME IInv, NEW t \in Txns, pc[t] \in Running, pc' = [pc EXCEPT ![t] = "done"],
         UNCHANGED <<log, req, snap>>,
         NEW r \in Nat, rev' = [rev EXCEPT ![t] = r]
  PROVE  Abstract!Answer(t, r)
<1>1. "done" \in Labels
  BY DEF Labels
<1>2. Known' = [Known EXCEPT ![t] = "answered"] /\ Known[t] = "open"
  <2>1. Status("done") = "answered" /\ Status(pc[t]) = "open"
    BY DEF Status, Running
  <2>2. Known' = [Known EXCEPT ![t] = Status("done")] /\ Known[t] = Status(pc[t])
    BY <1>1, KnownStep, StepTypes, ZenonT(30)
  <2> QED
    BY <2>1, <2>2, ZenonT(30)
<1>3. Revision' = [Revision EXCEPT ![t] = r]
  <2>1. /\ pc'[t] = "done" /\ rev'[t] = r
        /\ \A u \in Txns : u # t => pc'[u] = pc[u] /\ rev'[u] = rev[u]
    BY StepTypes
  <2> QED
    BY <2>1, ZenonT(30) DEF Revision
<1> QED
  BY <1>2, <1>3, ZenonT(30) DEF Abstract!Answer, Known, Revision

\* What a step of a transaction is to its caller.
LEMMA TxnStepRefines ==
  ASSUME IInv, OnceInv, NEW t \in Txns, TxnStep(t)
  PROVE  \/ Abstract!Observe(t) \/ Abstract!AnswerWrite(t) \/ Abstract!AnswerRead(t)
         \/ Abstract!Refuse(t)
         \/ UNCHANGED Abstract!vars
<1>1. CASE Begin(t)
  BY <1>1, SnapshotObserves, ZenonT(30) DEF Begin, Goto, storeVars
<1>2. CASE Retry(t)
  BY <1>2, SnapshotObserves, ZenonT(30) DEF Retry, Goto, storeVars
<1>3. CASE ApplySnapshot(t)
  <2>1. /\ pc[t] \in Running /\ "evaluate" \in Running
        /\ pc' = [pc EXCEPT ![t] = "evaluate"] /\ UNCHANGED <<log, req, snap, rev>>
    BY <1>3, ZenonT(30) DEF ApplySnapshot, Goto, Running
  <2> QED
    BY <2>1, HiddenStep, ZenonT(30)
<1>4. CASE Add(t)
  <2>1. /\ pc[t] \in Running /\ "queued" \in Running
        /\ pc' = [pc EXCEPT ![t] = "queued"] /\ UNCHANGED <<log, req, snap, rev>>
    BY <1>4, ZenonT(30) DEF Add, Goto, Running, storeVars
  <2> QED
    BY <2>1, HiddenStep, ZenonT(30)
<1>5. CASE GiveUp(t)
  BY <1>5, RefuseStep, ZenonT(30) DEF GiveUp, Goto, storeVars
<1>6. CASE Finish(t)
  <2>1. /\ pc[t] \in Running /\ pc[t] = "accepted"
        /\ pc' = [pc EXCEPT ![t] = "done"] /\ UNCHANGED <<log, req, snap>> /\ rev' = rev
    BY <1>6, ZenonT(30) DEF Finish, Goto, Running
  <2>2. PICK r \in Nat : r = rev[t]
    BY StepTypes
  <2>3. rev' = [rev EXCEPT ![t] = r]
    BY <2>1, <2>2, StepTypes
  <2>4. Abstract!Answer(t, r)
    BY <2>1, <2>3, AnswerStep, ZenonT(30)
  <2>5. r \in DOMAIN log /\ log[r].txn = t
    BY <2>1, <2>2, ZenonT(30) DEF OnceInv, ResultsRight
  <2> QED
    BY <2>4, <2>5 DEF Abstract!AnswerWrite
<1>7. CASE Evaluate(t)
  <2>1. /\ pc[t] = "evaluate" /\ pc[t] \in Running /\ pc[t] \in Unplaced
        /\ "append" \in Running /\ UNCHANGED <<log, req, snap>>
    BY <1>7, ZenonT(30) DEF Evaluate, Running, Unplaced, storeVars
  <2>2. \/ rev' = rev /\ pc' = [pc EXCEPT ![t] = "error"]
        \/ rev' = rev /\ pc' = pc
        \/ rev' = [rev EXCEPT ![t] = snap[t]] /\ pc' = [pc EXCEPT ![t] = "append"]
        \/ rev' = [rev EXCEPT ![t] = snap[t]] /\ pc' = [pc EXCEPT ![t] = "done"]
    BY <1>7, ZenonT(30) DEF Evaluate, Goto
  <2>3. CASE rev' = rev /\ pc' = [pc EXCEPT ![t] = "error"]
    BY <2>1, <2>3, RefuseStep, ZenonT(30)
  <2>4. CASE rev' = rev /\ pc' = pc
    BY <2>1, <2>4, ZenonT(30) DEF Abstract!vars
  <2>5. CASE rev' = [rev EXCEPT ![t] = snap[t]] /\ pc' = [pc EXCEPT ![t] = "append"]
    BY <2>1, <2>5, HiddenStep, ZenonT(30)
  <2>6. CASE rev' = [rev EXCEPT ![t] = snap[t]] /\ pc' = [pc EXCEPT ![t] = "done"]
    <3>1. PICK r \in Nat : r = snap[t]
      BY StepTypes
    <3>2. Abstract!Answer(t, r)
      BY <2>1, <2>6, <3>1, AnswerStep, ZenonT(30)
    <3>3. t \notin Abstract!Written
      BY <2>1, NotWritten
    <3> QED
      BY <3>1, <3>2, <3>3, ZenonT(30) DEF Abstract!AnswerRead, Abstract!Answer
  <2> QED
    BY <2>2, <2>3, <2>4, <2>5, <2>6, ZenonT(30)
<1> QED
  BY <1>1, <1>2, <1>3, <1>4, <1>5, <1>6, <1>7, ZenonT(30) DEF TxnStep

LEMMA AbandonRefines ==
  ASSUME IInv, NEW t \in Txns, Abandon(t)
  PROVE  Abstract!Leave(t)
<1>1. /\ "abandoned" \in Labels /\ pc[t] \in Running /\ pc[t] # "done"
      /\ pc' = [pc EXCEPT ![t] = "abandoned"] /\ UNCHANGED <<log, req, snap, rev>>
  BY ZenonT(30) DEF Abandon, Goto, Labels, Running, storeVars
<1>2. Known' = [Known EXCEPT ![t] = Status("abandoned")] /\ Known[t] = Status(pc[t])
  BY <1>1, KnownStep, StepTypes, ZenonT(30)
<1>3. Status("abandoned") = "lost" /\ Status(pc[t]) = "open"
  BY <1>1, ZenonT(30) DEF Status, Running
<1>4. Revision' = Revision
  BY <1>1, RevisionFrame, StepTypes, ZenonT(30)
<1> QED
  BY <1>1, <1>2, <1>3, <1>4, ZenonT(30) DEF Abstract!Leave, Known, Revision

\* The log grows by decided records only, which are serial, the only ones of
\* their transactions, and not yet answered.
LEMMA DecidedGrows ==
  ASSUME IInv, OnceInv, log' \in Seq(Record), Len(log) <= Len(log'), Len(log') <= Len(Decided),
         \A i \in 1..Len(log') : log'[i] = Decided[i]
  PROVE  Abstract!Grows
<1>1. /\ Len(Decided) \in Nat /\ DOMAIN Decided = 1..Len(Decided)
      /\ Len(log) \in Nat /\ Len(log) >= 1
      /\ Len(Decided) = IF flush.stage = "prepare" THEN Len(log) + Len(flush.accepted)
                                                   ELSE Len(log)
      /\ \A i \in 1..Len(log) : Decided[i] = log[i]
      /\ Len(log') \in Nat
  BY DecidedLength, SeqSpec, ZenonT(30) DEF IInv, Positions
<1>2. \A r \in 1..Len(log) : log'[r] = log[r]
  <2>1. \A r \in 1..Len(log) : r \in 1..Len(log')
    BY <1>1
  <2> QED
    BY <1>1, <2>1, ZenonT(30)
<1>3. ASSUME NEW r \in (Len(log) + 1)..Len(log')
      PROVE  /\ log'[r].txn \in {t \in Txns : Known[t] \in {"open", "lost"}}
             /\ Abstract!Serial(log', r)
             /\ \A q \in 1..Len(log') : log'[q].txn = log'[r].txn => q = r
  <2>1. /\ r \in 2..Len(Decided) /\ r \in DOMAIN Decided /\ r \in 1..Len(log')
        /\ r - 1 \in Nat /\ \A i \in 1..(r - 1) : i \in 1..Len(log')
        /\ \A q \in 1..Len(log') : q \in DOMAIN Decided
        /\ Len(log) < Len(Decided)
    BY <1>1
  <2>2. log'[r] = Decided[r] /\ Decided[r].txn \in Txns
    BY <2>1, ZenonT(30) DEF IInv, DecidedSerial
  <2>3. flush.stage = "prepare"
    BY <1>1, <2>1
  <2>4. Decided[r].txn \in TxnsOf(flush.accepted)
    <3>1. Decided = log \o flush.accepted
      BY <2>3, ZenonT(30) DEF Decided
    <3>2. /\ log \in Seq(Record) /\ flush.accepted \in Seq(Record)
          /\ Len(flush.accepted) \in Nat /\ DOMAIN flush.accepted = 1..Len(flush.accepted)
      BY DecidedLength, SeqSpec, ZenonT(30)
    <3>3. \A n \in 1..Len(flush.accepted) : Decided[Len(log) + n] = flush.accepted[n]
      BY <3>1, <3>2, ConcatSpec
    <3>4. r \in 1..(Len(log) + Len(flush.accepted)) /\ r \notin 1..Len(log)
      BY <1>1, <2>1, <2>3
    <3>5. PICK n \in 1..Len(flush.accepted) : r = Len(log) + n
      BY <1>1, <3>2, <3>4, BehindPrefix, ZenonT(30)
    <3>6. Decided[r] = flush.accepted[n] /\ n \in DOMAIN flush.accepted
      BY <3>2, <3>3, <3>5, ZenonT(30)
    <3> QED
      BY <3>6, ZenonT(30) DEF TxnsOf
  <2>5. Known[Decided[r].txn] \in {"open", "lost"}
    <3>1. pc[Decided[r].txn] \in {"queued", "abandoned"}
      BY <2>2, <2>4, ZenonT(30) DEF OnceInv, PlacesAgree
    <3> QED
      BY <2>2, <3>1, ZenonT(30) DEF Known, Status, Running
  <2>6. StateAt(log', r - 1) = StateAt(Decided, r - 1)
    BY <2>1, StatePrefix, ZenonT(30)
  <2>7. Abstract!Serial(log', r)
    <3>1. Recorded(Decided[r].meta) => SerialRecord(Decided, r)
      BY <2>1, ZenonT(30) DEF IInv, DecidedSerial
    <3> QED
      BY <2>2, <2>6, <3>1, ZenonT(30) DEF Abstract!Serial, SerialRecord, SerialEffect, ExactRecord
  <2>8. \A q \in 1..Len(log') : log'[q].txn = log'[r].txn => q = r
    BY <2>1, <2>2, ZenonT(30) DEF OnceInv, DecidedOnce, Distinct
  <2> QED
    BY <2>2, <2>5, <2>7, <2>8, ZenonT(30)
<1> QED
  BY <1>2, <1>3, ZenonT(30) DEF Abstract!Grows, Known

LEMMA PublishRefines ==
  ASSUME IInv, OnceInv, Publish
  PROVE  Abstract!Commit
<1>1. /\ flush.stage = "prepare" /\ log' = log \o flush.accepted
      /\ UNCHANGED <<req, pc, snap, rev>>
  BY DEF Publish, txnVars
<1>2. log' = Decided
  BY <1>1 DEF Decided
<1>3. /\ Decided \in Seq(Record) /\ Len(Decided) \in Nat /\ Len(log) <= Len(Decided)
  BY DecidedLength, ZenonT(30)
<1>4. Abstract!Grows
  BY <1>2, <1>3, DecidedGrows
<1> QED
  BY <1>1, <1>4 DEF Abstract!Commit

LEMMA RestartRefines ==
  ASSUME IInv, OnceInv, Restart
  PROVE  Abstract!Die
<1>1. /\ pc' = [t \in Txns |-> IF pc[t] \in Ended THEN pc[t] ELSE "dead"]
      /\ UNCHANGED <<req, snap, rev>>
  BY ZenonT(30) DEF Restart
<1>2. Abstract!Grows
  BY RestartLog, DecidedGrows
<1>3. ASSUME NEW t \in Txns
      PROVE  /\ Status(pc'[t]) = IF Status(pc[t]) \in {"open", "lost"} THEN "dead" ELSE Status(pc[t])
             /\ pc'[t] = "done" <=> pc[t] = "done"
  <2>1. pc[t] \in Labels
    BY StepTypes
  <2>2. pc'[t] = IF pc[t] \in Ended THEN pc[t] ELSE "dead"
    BY <1>1, ZenonT(30)
  <2> QED
    BY <2>1, <2>2, ZenonT(30) DEF Status, Running, Ended, Labels
<1>4. Known' = [t \in Txns |-> IF Known[t] \in {"open", "lost"} THEN "dead" ELSE Known[t]]
  BY <1>3, ZenonT(30) DEF Known
<1>5. Revision' = Revision
  BY <1>1, <1>3, ZenonT(30) DEF Revision
<1> QED
  BY <1>1, <1>2, <1>4, <1>5, ZenonT(30) DEF Abstract!Die, Known, Revision

\* The caller sees nothing of a delivered result before commit returns it.
LEMMA DeliverRefines ==
  ASSUME IInv, OnceInv, Deliver
  PROVE  UNCHANGED Abstract!vars
<1>1. UNCHANGED <<log, req, snap>>
  BY ZenonT(30) DEF Deliver, storeVars
<1>2. ASSUME NEW t \in Txns
      PROVE  Status(pc'[t]) = Status(pc[t])
  <2>1. pc'[t] = pc[t] \/ (pc[t] = "queued" /\ pc'[t] \in {"accepted", "rejected"})
    BY ZenonT(30) DEF Deliver
  <2> QED
    BY <2>1, ZenonT(30) DEF Status, Running
<1>3. ASSUME NEW t \in Txns
      PROVE  (IF pc'[t] = "done" THEN rev'[t] ELSE 0) = (IF pc[t] = "done" THEN rev[t] ELSE 0)
  <2>1. pc'[t] = pc[t] \/ (pc[t] = "queued" /\ pc'[t] \in {"accepted", "rejected"})
    BY ZenonT(30) DEF Deliver
  <2>2. AcceptedAt(t) # {} => t \in TxnsOf(flush.accepted)
    BY ZenonT(30) DEF AcceptedAt, TxnsOf
  <2>3. pc[t] = "done" => AcceptedAt(t) = {}
    BY <2>2, ZenonT(30) DEF OnceInv, PlacesAgree
  <2>4. AcceptedAt(t) = {} => rev'[t] = rev[t]
    BY ZenonT(30) DEF Deliver
  <2> QED
    BY <2>1, <2>3, <2>4, ZenonT(30)
<1> QED
  BY <1>1, <1>2, <1>3, ZenonT(30) DEF Abstract!vars

LEMMA InitRefines ==
  ASSUME Init
  PROVE  Abstract!Init
<1>1. log = <<DummyRecord>> /\ DummyRecord.txn = NoTxn /\ \A t \in Txns : pc[t] = "idle"
  BY ZenonT(30) DEF Init, DummyRecord
<1>2. Known = [t \in Txns |-> "idle"]
  BY <1>1, ZenonT(30) DEF Known, Status, Running
<1>3. Revision = [t \in Txns |-> 0]
  BY <1>1, ZenonT(30) DEF Revision
<1>4. Len(log) = 1 /\ log[1].txn = NoTxn
  BY <1>1
<1> QED
  BY <1>2, <1>3, <1>4, ZenonT(30) DEF Abstract!Init, Known, Revision

\* Every step of the server is a step of the serial store, or none.
LEMMA StepRefines ==
  ASSUME IInv, OnceInv, [Next]_vars
  PROVE  [Abstract!Next]_Abstract!vars
<1>1. ASSUME NEW t \in Txns, TxnStep(t) \/ Abandon(t)
      PROVE  [Abstract!Next]_Abstract!vars
  BY <1>1, TxnStepRefines, AbandonRefines, ZenonT(30) DEF Abstract!Next
<1>2. CASE Publish \/ Restart
  BY <1>2, PublishRefines, RestartRefines, ZenonT(30) DEF Abstract!Next
<1>3. CASE Deliver
  BY <1>3, DeliverRefines
<1>4. ASSUME UNCHANGED <<log, txnVars>>
      PROVE  UNCHANGED Abstract!vars
  BY <1>4, ZenonT(30) DEF Abstract!vars, txnVars
<1>5. CASE TakeBatch \/ PrepareTxn
  <2>1. UNCHANGED <<log, txnVars>>
    BY <1>5 DEF TakeBatch, PrepareTxn, storeVars
  <2> QED
    BY <1>4, <2>1
<1>6. CASE Crash \/ UNCHANGED vars
  <2>1. UNCHANGED <<log, txnVars>>
    BY <1>6 DEF Crash, vars, storeVars
  <2> QED
    BY <1>4, <2>1
<1>7. ASSUME NEW r, Compact(r)
      PROVE  UNCHANGED Abstract!vars
  <2>1. UNCHANGED <<log, txnVars>>
    BY <1>7 DEF Compact
  <2> QED
    BY <1>4, <2>1
<1> QED
  BY <1>1, <1>2, <1>3, <1>5, <1>6, <1>7, ZenonT(30) DEF Next, FlusherStep, Idle

\* The transaction path is a serial store: every behaviour of Txn, batching,
\* validation, retries, compaction, crashes and replay is one of SerialStore,
\* for all keys, requests and transactions.
THEOREM Refinement == Spec => ImplementsSerialStore
<1>1. Init => Abstract!Init
  BY InitRefines
<1>2. IInv /\ OnceInv /\ [Next]_vars => [Abstract!Next]_Abstract!vars
  BY StepRefines
<1> QED
  BY <1>1, <1>2, OnceInvHolds, PTL DEF Spec, Abstract!Spec, ImplementsSerialStore
=============================================================================
