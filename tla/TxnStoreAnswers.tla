-------------------------- MODULE TxnStoreAnswers ---------------------------
(***************************************************************************)
(* Proofs about TxnStore: AnswersSerial, the responses of committed         *)
(* transactions.                                                            *)
(***************************************************************************)
EXTENDS TxnStoreSerial

(***************************************************************************)
(* Responses and the records they are read from.                           *)
(***************************************************************************)

\* A response depends on the first n records only.
LEMMA AnswersPrefix ==
  ASSUME NEW answer, NEW request, NEW L, NEW M, NEW n \in Nat,
         \A i \in 1..n : L[i] = M[i],
         AnswersRight(answer, request, L, n)
  PROVE  AnswersRight(answer, request, M, n)
<1> DEFINE before == StateAt(L, n)
           ops == Branch(request, before)
<1>1. StateAt(M, n) = before
  BY StatePrefix
<1>2. ASSUME NEW a \in answer.answers
      PROVE  StateAt(L, ReadRev(ops[a.pos], n)) = StateAt(M, ReadRev(ops[a.pos], n))
  <2> DEFINE at == ReadRev(ops[a.pos], n)
  <2>1. at \in 0..n
    BY DEF AnswersRight
  <2> HIDE DEF at
  <2>2. at \in Nat /\ \A i \in 1..at : L[i] = M[i]
    BY <2>1
  <2>3. StateAt(L, at) = StateAt(M, at)
    BY <2>2, StatePrefix
  <2> QED
    BY <2>3 DEF at
<1>3. AnsweredAs(answer, request, L, n)
  BY DEF AnswersRight
<1>4. AnsweredAs(answer, request, M, n)
  BY <1>1, <1>2, <1>3 DEF AnsweredAs
<1> QED
  BY <1>1, <1>4 DEF AnswersRight

\* A single-key read looks at its own key only.
LEMMA SamePoint ==
  ASSUME NEW op, NEW v, NEW w, v[op.key] = w[op.key]
  PROVE  PointAnswer(op, v) = PointAnswer(op, w)
BY DEF PointAnswer

\* A response that fits the first `at` records fits the first n if none of the
\* keys that validation protects has changed in between.
LEMMA AnswersKept ==
  ASSUME NEW answer, NEW request, NEW L, NEW at \in Nat, NEW n \in Nat, at <= n,
         \A c \in request.compare : c.key \in Validated(answer.meta),
         \A k \in Validated(answer.meta) : StateAt(L, at)[k] = StateAt(L, n)[k],
         AnswersRight(answer, request, L, at)
  PROVE  AnswersRight(answer, request, L, n)
<1> DEFINE before == StateAt(L, at)
           after == StateAt(L, n)
           ops == Branch(request, before)
<1>1. Succeeded(request, before) = Succeeded(request, after) /\ Branch(request, after) = ops
  BY SameBranch
<1>2. /\ answer.succeeded = Succeeded(request, before)
      /\ \A a \in answer.answers :
           /\ a.kvs = PointAnswer(ops[a.pos], StateAt(L, ReadRev(ops[a.pos], at)))
           /\ ops[a.pos].key \in ReadSet(answer.meta)
           /\ ReadRev(ops[a.pos], at) \in 0..at
  BY ZenonT(30) DEF AnswersRight, AnsweredAs
<1> HIDE DEF ops
<1>3. ASSUME NEW a \in answer.answers
      PROVE  /\ a.kvs = PointAnswer(ops[a.pos], StateAt(L, ReadRev(ops[a.pos], n)))
             /\ ReadRev(ops[a.pos], n) \in 0..n
  <2> DEFINE op == ops[a.pos]
  <2>1. /\ a.kvs = PointAnswer(op, StateAt(L, ReadRev(op, at)))
        /\ op.key \in ReadSet(answer.meta) /\ ReadRev(op, at) \in 0..at
    BY <1>2, ZenonT(30)
  <2> HIDE DEF op
  <2>2. CASE op.rev > 0
    <3>1. ReadRev(op, at) = op.rev /\ ReadRev(op, n) = op.rev
      BY <2>2 DEF ReadRev
    <3>2. op.rev \in 0..n
      BY <2>1, <3>1
    <3> QED
      BY <2>1, <3>1, <3>2, ZenonT(30) DEF op
  <2>3. CASE ~(op.rev > 0)
    <3>1. ReadRev(op, at) = at /\ ReadRev(op, n) = n
      BY <2>3 DEF ReadRev
    <3>2. before[op.key] = after[op.key]
      BY <2>1 DEF Validated
    <3>3. PointAnswer(op, before) = PointAnswer(op, after)
      BY <3>2, SamePoint
    <3>4. n \in 0..n
      OBVIOUS
    <3> QED
      BY <2>1, <3>1, <3>3, <3>4, ZenonT(30) DEF op
  <2> QED
    BY <2>2, <2>3, ZenonT(30)
<1>4. Branch(request, StateAt(L, n)) = ops
  BY <1>1
<1>5. AnsweredAs(answer, request, L, n)
  BY <1>1, <1>2, <1>3, <1>4, ZenonT(30) DEF AnsweredAs
<1> QED
  BY <1>2, <1>3, <1>4, <1>5, ZenonT(30) DEF AnswersRight

-----------------------------------------------------------------------------
(***************************************************************************)
(* evaluate.                                                               *)
(***************************************************************************)

\* A least number of a set of numbers.
LEMMA LeastOf ==
  ASSUME NEW S \in SUBSET Nat, S # {}
  PROVE  \E m \in S : \A y \in S : m <= y
<1>1. PICK m \in S : \A y \in S : ~(<<y, m>> \in OpToRel(<, Nat))
  BY NatLessThanWellFounded, WFMin, ZenonT(30)
<1>2. \A y \in S : ~(y < m)
  BY <1>1, ZenonT(30) DEF OpToRel
<1>3. \A y \in S : y \in Nat
  OBVIOUS
<1>4. \A y \in S : m <= y
  BY <1>2, <1>3
<1> QED
  BY <1>4

\* If no operation fails, every read is at a revision that checkReadRevision
\* lets through.
LEMMA NoFailure ==
  ASSUME NEW ops \in Seq(Op), NEW at, FirstFailure(ops, at) = 0
  PROVE  \A i \in DOMAIN ops : ~ReadRevisionRefused(ops[i], at)
<1> DEFINE failing == {i \in DOMAIN ops : \/ ReadRevisionRefused(ops[i], at)
                                          \/ DeletesTombstone(ops[i], at)}
           S == {0} \cup {i \in failing : \A j \in failing : i <= j}
<1>1. DOMAIN ops = 1..Len(ops) /\ Len(ops) \in Nat
  BY SeqSpec
<1>2. failing \in SUBSET (1..Len(ops))
  BY <1>1
<1>3. FirstFailure(ops, at) = Max(S)
  BY DEF FirstFailure
<1> HIDE DEF failing
<1>4. S \in SUBSET (0..Len(ops)) /\ S # {}
  <2>1. S \subseteq {0} \cup failing /\ 0 \in S
    BY ZenonT(30)
  <2> HIDE DEF S
  <2> QED
    BY <1>1, <1>2, <2>1
<1>5. \A y \in S : y <= 0
  <2>1. \A y \in S : y <= Max(S)
    BY <1>1, <1>4, MaxOfBounded, ZenonT(30)
  <2> QED
    BY <1>3, <2>1
<1>6. failing = {}
  <2> SUFFICES ASSUME failing # {}
               PROVE  FALSE
    OBVIOUS
  <2>1. failing \in SUBSET Nat
    BY <1>1, <1>2
  <2>2. PICK m \in failing : \A y \in failing : m <= y
    BY <2>1, LeastOf
  <2>3. m \in S /\ m \in 1..Len(ops)
    BY <1>2, <2>2
  <2> QED
    BY <1>5, <2>3
<1> QED
  BY <1>6 DEF failing

\* The response evaluate builds: right for its snapshot, or there is a later
\* write of a key it recorded.
LEMMA EvaluatedAnswers ==
  ASSUME IInv, NEW t \in Txns, pc[t] = "evaluate",
         FirstFailure(Branch(req[t], IndexView(snap[t])), snap[t]) = 0
  PROVE  LET at == snap[t]
             view == IndexView(at)
             ops == Branch(req[t], view)
             meta == Meta(req[t], ops, view, at)
             answer == [events |-> Events(ops, view, at), meta |-> meta,
                        succeeded |-> Succeeded(req[t], view), answers |-> Answers(ops, at)]
         IN Recorded(meta) =>
              \/ \E q \in (at + 1)..Len(log), k \in Validated(meta) : Writes(log[q], k)
              \/ AnswersRight(answer, req[t], log, at)
<1> DEFINE at == snap[t]
           view == IndexView(at)
           request == req[t]
           ops == Branch(request, view)
           meta == Meta(request, ops, view, at)
           before == StateAt(log, at)
           answer == [events |-> Events(ops, view, at), meta |-> meta,
                      succeeded |-> Succeeded(request, view), answers |-> Answers(ops, at)]
<1>1. /\ at \in Nat /\ applied \in Nat /\ compacted \in Nat /\ Len(log) \in Nat
      /\ at <= applied /\ compacted <= applied /\ applied <= Len(log)
  BY DecidedSpec, SeqSpec, ZenonT(30) DEF IInv, TypeOK, Positions
<1>2. request \in Requests
  BY ZenonT(30) DEF IInv, TypeOK
<1>3. ops \in Seq(Op) /\ DOMAIN ops \subseteq OpPositions
  BY <1>2, BranchSpec
<1>4. meta \in TxnMeta /\ \A c \in request.compare : c.key \in ReadSet(meta)
  BY <1>1, <1>2, MetaSpec, ZenonT(30) DEF ReadsRecorded
<1>5. \A i \in DOMAIN ops : ~ReadRevisionRefused(ops[i], at)
  BY <1>3, NoFailure, ZenonT(30)
<1>6. /\ meta.ranged = (\E i \in DOMAIN ops : ops[i].type = "list")
      /\ ReadSet(meta) = ReadKeys(request, ops)
  <2>1. /\ meta.ranged = (\E i \in DOMAIN ops : ops[i].type = "list")
        /\ meta.reads = {[key |-> k, rev |-> GetLatestRevisionByKey(index, k, at)] :
                           k \in ReadKeys(request, ops)}
    BY ZenonT(30) DEF Meta
  <2> DEFINE read(k) == [key |-> k, rev |-> GetLatestRevisionByKey(index, k, at)]
  <2>2. \A k : read(k).key = k
    OBVIOUS
  <2>3. meta.reads = {read(k) : k \in ReadKeys(request, ops)}
    BY <2>1, ZenonT(30)
  <2> HIDE DEF meta, ops, read
  <2>4. ReadSet(meta) = {o.key : o \in {read(k) : k \in ReadKeys(request, ops)}}
    BY <2>3 DEF ReadSet
  <2>5. {o.key : o \in {read(k) : k \in ReadKeys(request, ops)}} = ReadKeys(request, ops)
    BY <2>2
  <2> QED
    BY <2>1, <2>4, <2>5, ZenonT(30)
<1>7. /\ answer.meta = meta /\ answer.succeeded = Succeeded(request, view)
      /\ answer.answers = Answers(ops, at)
  BY ZenonT(30)
<1> HIDE DEF at, view, request, ops, meta, before, answer
<1>8. ASSUME Recorded(meta),
             ~\E q \in (at + 1)..Len(log), k \in Validated(meta) : Writes(log[q], k)
      PROVE  AnswersRight(answer, request, log, at)
  <2>1. ASSUME NEW k \in Keys, NEW rr \in 0..at, k \in Validated(meta) \/ compacted <= rr,
               rr = at \/ compacted <= rr
        PROVE  IndexView(rr)[k] = StateAt(log, rr)[k]
    <3>1. \A q \in (rr + 1)..compacted : ~Writes(log[q], k)
      BY <1>1, <1>8, <2>1
    <3>2. rr \in 0..applied
      BY <1>1, <2>1
    <3>3. KvAt(log, k, GetLatestRevisionByKey(index, k, rr)) = KvAt(log, k, LatestWrite(log, k, rr))
      BY <3>1, <3>2, IndexAgrees, ZenonT(30)
    <3> QED
      BY <3>3, ZenonT(30) DEF IndexView, StateAt
  <2>2. Validated(meta) \subseteq Keys
    BY <1>4 DEF Validated, ReadSet, TxnMeta
  <2>3. \A k \in Validated(meta) : view[k] = before[k]
    BY <1>1, <2>1, <2>2 DEF view, before
  <2>4. Succeeded(request, before) = Succeeded(request, view) /\ Branch(request, before) = ops
    BY <1>4, <2>3, SameBranch, ZenonT(30) DEF Validated, ops
  <2>5. ASSUME NEW a \in Answers(ops, at)
        PROVE  /\ a.kvs = PointAnswer(ops[a.pos], StateAt(log, ReadRev(ops[a.pos], at)))
               /\ ops[a.pos].key \in ReadSet(meta)
               /\ ReadRev(ops[a.pos], at) \in 0..at
    <3>1. PICK i \in DOMAIN ops :
            /\ ops[i].type \in {"get", "list"} /\ a.pos = i
            /\ a.kvs = IF ops[i].type = "get" THEN GetAnswer(ops[i], at) ELSE ListAnswer(ops[i], at)
      BY DEF Answers
    <3> DEFINE op == ops[i]
    <3>2. op.type = "get" /\ a.kvs = GetAnswer(op, at)
      BY <1>6, <1>8, <3>1, ZenonT(30) DEF Recorded
    <3>3. op \in Op
      BY <1>3, <3>1
    <3>4. op.key \in Keys /\ op.rev \in Nat
      BY <3>2, <3>3, ZenonT(30) DEF Op
    <3>5. op.key \in ReadSet(meta)
      BY <1>6, <3>1, <3>2, ZenonT(30) DEF ReadKeys
    <3>6. op.rev > 0 => compacted <= op.rev /\ op.rev <= at
      <4>1. ~ReadRevisionRefused(op, at)
        BY <1>5, <3>1, ZenonT(30)
      <4> QED
        BY <1>1, <3>2, <3>4, <4>1 DEF ReadRevisionRefused
    <3> HIDE DEF op
    <3>7. /\ ReadRev(op, at) \in 0..at
          /\ ReadRev(op, at) = at \/ compacted <= ReadRev(op, at)
      BY <1>1, <3>4, <3>6 DEF ReadRev
    <3>8. IndexView(ReadRev(op, at))[op.key] = StateAt(log, ReadRev(op, at))[op.key]
      BY <2>1, <3>4, <3>5, <3>7, ZenonT(30) DEF Validated
    <3>9. GetAnswer(op, at) = PointAnswer(op, StateAt(log, ReadRev(op, at)))
      BY <3>8, ZenonT(30) DEF GetAnswer, PointAnswer
    <3> QED
      BY <3>1, <3>2, <3>5, <3>7, <3>9, ZenonT(30) DEF op
  <2>6. AnsweredAs(answer, request, log, at)
    BY <1>7, <2>4, <2>5, ZenonT(30) DEF AnsweredAs, before
  <2> QED
    BY <1>7, <2>4, <2>5, <2>6, ZenonT(30) DEF AnswersRight, before
<1> QED
  BY <1>8, ZenonT(30) DEF answer, meta, ops, request, view, at

-----------------------------------------------------------------------------
(***************************************************************************)
(* Steps.                                                                  *)
(***************************************************************************)

\* A queued transaction waits, and its snapshot is in the log.
LEMMA QueuedTxn ==
  ASSUME IInv, NEW p \in Queued
  PROVE  /\ p.txn \in Txns /\ p.txn \in WaitingTxns
         /\ p.meta.snapshot \in Nat /\ p.meta.snapshot <= Len(log)
<1>1. p.txn \in Txns
  BY ZenonT(30) DEF IInv, StagedAndQueued, PendingOK
<1>2. p.txn \in WaitingTxns
  BY QueuedMembers, WaitingMembers DEF InBatch, TxnsOf
<1>3. p.meta.snapshot \in Snapshots
  BY DEF Snapshots
<1> QED
  BY <1>1, <1>2, <1>3, SnapshotsNat, ZenonT(30) DEF IInv, CommittedWritesCover

\* What is pending stays right while its response, the log and the request stay.
LEMMA PendingAnswersFrame ==
  ASSUME NEW t, log' = log, req' = req, staged'[t] = staged[t], PendingAnswers(t)
  PROVE  PendingAnswers(t)'
BY ZenonT(30) DEF PendingAnswers

\* The responses of the decided records stay right while these stay.
DecidedAnswers ==
  \A r \in 2..Len(Decided) :
    LET t == Decided[r].txn
    IN /\ Decided[r].meta = staged[t].meta
       /\ Recorded(staged[t].meta) => AnswersRight(staged[t], req[t], Decided, r - 1)

LEMMA AnswersParts ==
  AnswersInv <=>
    /\ log[1].txn = NoTxn
    /\ \A p \in Queued : p.meta = staged[p.txn].meta /\ PendingAnswers(p.txn)
    /\ \A t \in Txns : pc[t] = "append" => PendingAnswers(t)
    /\ DecidedAnswers
BY ZenonT(30) DEF AnswersInv, DecidedAnswers

\* A step that evaluates nothing, decides nothing and at most moves pending
\* transactions between batches.
LEMMA AnswersFrame ==
  ASSUME IInv, AnswersInv, UNCHANGED <<log, req, staged>>, Decided' = Decided,
         \A p \in Queued' : p \in Queued \/ \E t \in Txns : pc[t] = "append" /\ p = PendingTxn(t),
         \A t \in Txns : pc'[t] = "append" => pc[t] = "append"
  PROVE  AnswersInv'
<1>1. \A t : PendingAnswers(t) => PendingAnswers(t)'
  BY PendingAnswersFrame, ZenonT(30)
<1>2. ASSUME NEW p \in Queued'
      PROVE  p.meta = staged[p.txn].meta /\ PendingAnswers(p.txn)
  <2>1. ASSUME NEW t \in Txns, pc[t] = "append", p = PendingTxn(t)
        PROVE  p.meta = staged[p.txn].meta /\ PendingAnswers(p.txn)
    BY <2>1, ZenonT(30) DEF PendingTxn, AnswersInv
  <2> QED
    BY <2>1, ZenonT(30) DEF AnswersInv
<1>3. DecidedAnswers'
  BY ZenonT(30) DEF AnswersInv, DecidedAnswers
<1>4. log'[1].txn = NoTxn /\ \A t \in Txns : pc'[t] = "append" => PendingAnswers(t)'
  BY <1>1, ZenonT(30) DEF AnswersInv
<1> QED
  BY <1>1, <1>2, <1>3, <1>4, ZenonT(30) DEF AnswersInv, DecidedAnswers

\* Steps that leave the batching layer alone.
LEMMA BatchesFrame ==
  ASSUME IInv, AnswersInv, UNCHANGED <<log, batchVars, req, staged>>,
         \A t \in Txns : pc'[t] = "append" => pc[t] = "append"
  PROVE  AnswersInv'
<1>1. Decided' = Decided /\ Queued' = Queued
  BY DEF batchVars, Decided, Queued
<1> QED
  BY <1>1, AnswersFrame, ZenonT(30)

\* A step of transaction t to a label that stages nothing.
LEMMA LabelAnswers ==
  ASSUME IInv, AnswersInv, NEW t \in Txns, NEW label, label # "append",
         pc' = [pc EXCEPT ![t] = label] \/ pc' = pc, UNCHANGED <<log, batchVars, req, staged>>
  PROVE  AnswersInv'
<1>1. \A u \in Txns : pc'[u] = "append" => pc[u] = "append"
  BY StepTypes
<1> QED
  BY <1>1, BatchesFrame

LEMMA AddAnswers ==
  ASSUME IInv, AnswersInv, NEW t \in Txns, Add(t)
  PROVE  AnswersInv'
<1>1. /\ pc[t] = "append" /\ pc' = [pc EXCEPT ![t] = "queued"]
      /\ UNCHANGED <<log, flush, req, staged>>
  BY DEF Add, Goto, storeVars
<1>2. \A u \in Txns : pc'[u] = "append" => pc[u] = "append"
  BY <1>1, StepTypes
<1>3. Decided' = Decided
  BY <1>1 DEF Decided
<1> QED
  BY <1>1, <1>2, <1>3, AddQueued, AnswersFrame

LEMMA TakeBatchAnswers ==
  ASSUME IInv, AnswersInv, TakeBatch
  PROVE  AnswersInv'
<1>1. UNCHANGED <<log, pc, req, staged>>
  BY DEF TakeBatch, storeVars, txnVars
<1> QED
  BY <1>1, TakeQueued, AnswersFrame

LEMMA DeliverAnswers ==
  ASSUME IInv, AnswersInv, Deliver
  PROVE  AnswersInv'
<1>1. /\ flush.stage = "deliver"
      /\ flush' = [stage |-> "idle", batch |-> <<>>, accepted |-> <<>>, rejected |-> {}]
      /\ UNCHANGED <<log, openBatch, flushQueue, req, staged>>
      /\ \A t \in Txns : pc'[t] = "append" => pc[t] = "append"
  BY ZenonT(30) DEF Deliver, storeVars
<1>2. flush'.stage = "idle" /\ flush'.batch = <<>> /\ flush.batch = <<>>
  BY <1>1, ZenonT(30) DEF IInv, Positions
<1>3. Decided' = Decided
  BY <1>1, <1>2, ZenonT(30) DEF Decided
<1>4. Queued' = Queued
  BY <1>1, <1>2, ZenonT(30) DEF Queued
<1> QED
  BY <1>1, <1>3, <1>4, AnswersFrame, ZenonT(30)

LEMMA EvaluateAnswers ==
  ASSUME IInv, OnceInv, AnswersInv, NEW t \in Txns, Evaluate(t)
  PROVE  AnswersInv'
<1> DEFINE at == snap[t]
           view == IndexView(at)
           ops == Branch(req[t], view)
           bad == FirstFailure(ops, at)
           events == Events(ops, view, at)
           meta == Meta(req[t], ops, view, at)
           answer == [events |-> events, meta |-> meta,
                      succeeded |-> Succeeded(req[t], view), answers |-> Answers(ops, at)]
<1>1. pc[t] = "evaluate" /\ UNCHANGED <<log, batchVars, req>>
  BY ZenonT(30) DEF Evaluate, storeVars
<1>2. CASE bad = 0 /\ staged' = [staged EXCEPT ![t] = answer]
           /\ Goto(t, IF events = {} THEN "done" ELSE "append")
  <2>1. Recorded(meta) =>
          \/ \E q \in (at + 1)..Len(log), k \in Validated(meta) : Writes(log[q], k)
          \/ AnswersRight(answer, req[t], log, at)
    BY <1>1, <1>2, EvaluatedAnswers, ZenonT(30)
  <2>2. meta.snapshot = at
    BY ZenonT(30) DEF Meta
  <2>3. answer.meta = meta
    BY ZenonT(30)
  <2> HIDE DEF answer, meta, bad, events, ops, view, at
  <2>4. /\ staged'[t] = answer
        /\ \A u \in Txns \ {t} : staged'[u] = staged[u] /\ pc'[u] = pc[u]
    BY <1>2, StepTypes, ZenonT(30) DEF Goto
  <2>5. PendingAnswers(t)'
    BY <1>1, <2>1, <2>2, <2>3, <2>4, ZenonT(30) DEF PendingAnswers
  <2>6. Decided' = Decided /\ Queued' = Queued
    BY <1>1, ZenonT(30) DEF batchVars, Decided, Queued
  <2>7. t \notin WaitingTxns /\ t \notin TxnsOf(Decided)
    BY <1>1, UnplacedTxn, ZenonT(30) DEF Unplaced
  <2>8. \A u \in Txns \ {t} : PendingAnswers(u) => PendingAnswers(u)'
    BY <1>1, <2>4, PendingAnswersFrame, ZenonT(30)
  <2>9. ASSUME NEW p \in Queued'
        PROVE  p.meta = staged'[p.txn].meta /\ PendingAnswers(p.txn)'
    <3>1. p \in Queued /\ p.txn \in Txns \ {t}
      BY <2>6, <2>7, QueuedTxn, ZenonT(30)
    <3> QED
      BY <2>4, <2>8, <3>1, ZenonT(30) DEF AnswersInv
  <2>10. ASSUME NEW u \in Txns, pc'[u] = "append"
         PROVE  PendingAnswers(u)'
    BY <2>4, <2>5, <2>8, <2>10, ZenonT(30) DEF AnswersInv
  <2>11. DecidedAnswers'
    <3>1. ASSUME NEW r \in 2..Len(Decided)
          PROVE  Decided[r].txn \in Txns \ {t}
      <4>1. r \in DOMAIN Decided
        <5>1. DOMAIN Decided = 1..Len(Decided) /\ Len(Decided) \in Nat
          BY DecidedLength, ZenonT(30)
        <5> QED
          BY <5>1
      <4> QED
        BY <2>7, <4>1, ZenonT(30) DEF TxnsOf, IInv, DecidedSerial
    <3>2. \A r \in 2..Len(Decided) : staged'[Decided[r].txn] = staged[Decided[r].txn]
      BY <2>4, <3>1, ZenonT(30)
    <3> QED
      BY <1>1, <2>6, <3>2, ZenonT(30) DEF AnswersInv, DecidedAnswers
  <2>12. log'[1].txn = NoTxn
    BY <1>1, ZenonT(30) DEF AnswersInv
  <2> QED
    BY <2>9, <2>10, <2>11, <2>12, ZenonT(30) DEF AnswersInv, DecidedAnswers
<1>3. CASE Goto(t, "error") /\ UNCHANGED staged
  BY <1>1, <1>3, LabelAnswers, ZenonT(30) DEF Goto
<1>4. CASE UNCHANGED <<staged, pc>>
  BY <1>1, <1>4, BatchesFrame, ZenonT(30)
<1> QED
  BY <1>2, <1>3, <1>4, ZenonT(30) DEF Evaluate

\* The response of a transaction that passes validation fits the state the
\* decided records left.
LEMMA AcceptedAnswers ==
  ASSUME IInv, AnswersInv, flush.stage = "prepare", NEW p \in Queued, ValidateTxn(p.meta),
         Recorded(p.meta)
  PROVE  AnswersRight(staged[p.txn], req[p.txn], Decided, Len(Decided))
<1> DEFINE at == p.meta.snapshot
           n == Len(Decided)
           answer == staged[p.txn]
           request == req[p.txn]
<1>1. answer.meta = p.meta /\ PendingAnswers(p.txn)
  BY ZenonT(30) DEF AnswersInv
<1>2. /\ Covers(p.meta, request, StateAt(log, at))
      /\ \A k \in Validated(p.meta) : StateAt(log, at)[k] = StateAt(Decided, n)[k]
      /\ ~ \E q \in (at + 1)..Len(log), k \in Validated(p.meta) : Writes(log[q], k)
  BY ValidatedSerial, ZenonT(30)
<1>3. AnswersRight(answer, request, log, at)
  BY <1>1, <1>2, ZenonT(30) DEF PendingAnswers
<1>4. at \in Nat /\ at <= Len(log)
  BY QueuedTxn, ZenonT(30)
<1>5. n \in Nat /\ Len(log) \in Nat /\ Len(log) <= n /\ \A i \in 1..Len(log) : Decided[i] = log[i]
  BY DecidedLength, ZenonT(30)
<1>6. \A i \in 1..at : log[i] = Decided[i]
  BY <1>4, <1>5
<1> HIDE DEF at, n, answer, request
<1>7. StateAt(log, at) = StateAt(Decided, at)
  BY <1>4, <1>6, StatePrefix, ZenonT(30)
<1>8. AnswersRight(answer, request, Decided, at)
  BY <1>3, <1>4, <1>6, AnswersPrefix, ZenonT(30)
<1>9. at <= n /\ \A c \in request.compare : c.key \in Validated(answer.meta)
  <2>1. at <= n
    BY <1>4, <1>5
  <2> QED
    BY <1>1, <1>2, <2>1, ZenonT(30) DEF Covers
<1>10. AnswersRight(answer, request, Decided, n)
  BY <1>1, <1>2, <1>4, <1>5, <1>7, <1>8, <1>9, AnswersKept, ZenonT(30)
<1> QED
  BY <1>10, ZenonT(30) DEF answer, request, n

\* A longer list of decided records, the new one at its end.
LEMMA DecidedAnswersAppend ==
  ASSUME IInv, AnswersInv, UNCHANGED <<req, staged>>,
         Len(Decided') = Len(Decided) + 1, \A i \in 1..Len(Decided) : Decided'[i] = Decided[i],
         NEW rec, Decided'[Len(Decided) + 1] = rec, rec.meta = staged[rec.txn].meta,
         Recorded(rec.meta) => AnswersRight(staged[rec.txn], req[rec.txn], Decided, Len(Decided))
  PROVE  DecidedAnswers'
<1> DEFINE n == Len(Decided)
<1>1. n \in Nat
  BY DecidedLength, ZenonT(30)
<1>2. ASSUME NEW m \in 0..n, NEW answer, NEW request, AnswersRight(answer, request, Decided, m)
      PROVE  AnswersRight(answer, request, Decided', m)
  <2>1. m \in Nat /\ \A i \in 1..m : Decided[i] = Decided'[i]
    BY <1>1, <1>2
  <2> QED
    BY <1>2, <2>1, AnswersPrefix, ZenonT(30)
<1>3. ASSUME NEW r \in 2..Len(Decided')
      PROVE  LET t == Decided'[r].txn
             IN /\ Decided'[r].meta = staged[t].meta
                /\ Recorded(staged[t].meta) => AnswersRight(staged[t], req[t], Decided', r - 1)
  <2>1. CASE r \in 2..n
    <3>1. r - 1 \in 0..n /\ r \in 1..n
      BY <1>1, <2>1
    <3>2. Decided'[r] = Decided[r]
      BY <3>1, ZenonT(30)
    <3> QED
      BY <1>2, <2>1, <3>1, <3>2, ZenonT(30) DEF AnswersInv
  <2>2. CASE r = n + 1
    <3>1. r - 1 = n /\ n \in 0..n /\ Decided'[r] = rec
      BY <1>1, <2>2
    <3> QED
      BY <1>2, <3>1, ZenonT(30)
  <2> QED
    BY <1>1, <1>3, <2>1, <2>2, UpToNext, ZenonT(30)
<1> QED
  BY <1>3, ZenonT(30) DEF DecidedAnswers

LEMMA PrepareTxnAnswers ==
  ASSUME IInv, AnswersInv, PrepareTxn
  PROVE  AnswersInv'
<1> DEFINE p == Head(flush.batch)
           r == lastLogPosition + Len(flush.accepted) + 1
           rec == StampRecord(p, r)
<1>1. /\ flush.stage = "prepare" /\ flush.batch # <<>>
      /\ flush \in [stage : {"idle", "prepare", "deliver"}, batch : Seq(Record),
                    accepted : Seq(Record), rejected : SUBSET Txns]
      /\ UNCHANGED <<log, openBatch, flushQueue, pc, req, staged>>
      /\ \/ /\ flush' = [flush EXCEPT !.batch = Tail(@), !.accepted = Append(@, rec)]
            /\ ValidateTxn(p.meta)
         \/ flush' = [flush EXCEPT !.batch = Tail(@), !.rejected = @ \cup {p.txn}]
  BY ZenonT(30) DEF PrepareTxn, IInv, TypeOK, storeVars, txnVars
<1>2. flush'.stage = "prepare" /\ flush'.batch = Tail(flush.batch)
  BY <1>1, ZenonT(30)
<1>3. p \in Queued /\ Queued' \subseteq Queued
  BY <1>1, <1>2, HeadQueued
<1>4. p \in Record
  BY <1>3, QueuedType
<1>5. CASE flush' = [flush EXCEPT !.batch = Tail(@), !.rejected = @ \cup {p.txn}]
  <2>1. flush'.accepted = flush.accepted
    BY <1>1, <1>5, ZenonT(30)
  <2>2. Decided' = Decided
    BY <1>1, <1>2, <2>1 DEF Decided
  <2> QED
    BY <1>1, <1>3, <2>2, AnswersFrame, ZenonT(30)
<1>6. CASE /\ flush' = [flush EXCEPT !.batch = Tail(@), !.accepted = Append(@, rec)]
           /\ ValidateTxn(p.meta)
  <2>1. flush'.accepted = Append(flush.accepted, rec)
    BY <1>1, <1>6, ZenonT(30)
  <2>2. rec.txn = p.txn /\ rec.meta = p.meta
    BY <1>4 DEF StampRecord, Record
  <2>3. rec \in Record
    <3>1. IInv'
      BY PrepareTxnKeeps
    <3>2. flush'.accepted \in Seq(Record)
      BY <3>1, ZenonT(30) DEF IInv, TypeOK
    <3>3. rec = flush'.accepted[Len(flush.accepted) + 1] /\ Len(flush.accepted) \in Nat
          /\ Len(flush.accepted) + 1 \in DOMAIN flush'.accepted
      BY <1>1, <2>1
    <3> QED
      BY <3>2, <3>3
  <2> HIDE DEF rec, p
  <2>4. /\ Len(Decided') = Len(Decided) + 1
        /\ \A i \in 1..Len(Decided) : Decided'[i] = Decided[i]
        /\ Decided'[Len(Decided) + 1] = rec
    BY <1>1, <1>2, <2>1, <2>3, DecidedAccept, ZenonT(30)
  <2>5. rec.meta = staged[rec.txn].meta
    BY <1>3, <2>2, ZenonT(30) DEF AnswersInv
  <2>6. Recorded(rec.meta) => AnswersRight(staged[rec.txn], req[rec.txn], Decided, Len(Decided))
    BY <1>1, <1>3, <1>6, <2>2, AcceptedAnswers, ZenonT(30)
  <2>7. DecidedAnswers'
    BY <1>1, <2>4, <2>5, <2>6, DecidedAnswersAppend, ZenonT(30)
  <2>8. \A t : PendingAnswers(t) => PendingAnswers(t)'
    BY <1>1, PendingAnswersFrame
  <2>9. /\ \A q \in Queued' : q.meta = staged'[q.txn].meta /\ PendingAnswers(q.txn)'
        /\ \A t \in Txns : pc'[t] = "append" => PendingAnswers(t)'
        /\ log'[1].txn = NoTxn
    BY <1>1, <1>3, <2>8, ZenonT(30) DEF AnswersInv
  <2> QED
    BY <2>7, <2>9, ZenonT(30) DEF AnswersInv, DecidedAnswers
<1> QED
  BY <1>1, <1>5, <1>6

\* Growing the log keeps what is pending right.
LEMMA PendingAnswersExtend ==
  ASSUME NEW t, staged[t].meta.snapshot \in Nat, staged[t].meta.snapshot <= Len(log),
         Len(log) \in Nat, Len(log') \in Nat, Len(log) <= Len(log'),
         \A i \in 1..Len(log) : log'[i] = log[i], UNCHANGED <<req, staged>>, PendingAnswers(t)
  PROVE  PendingAnswers(t)'
<1> DEFINE at == staged[t].meta.snapshot
<1>1. AnswersRight(staged[t], req[t], log, at) => AnswersRight(staged[t], req[t], log', at)
  <2>1. \A i \in 1..at : log[i] = log'[i]
    OBVIOUS
  <2> HIDE DEF at
  <2> QED
    BY <2>1, AnswersPrefix, ZenonT(30) DEF at
<1>2. \A q \in (at + 1)..Len(log) : q \in (at + 1)..Len(log') /\ log'[q] = log[q]
  OBVIOUS
<1> QED
  BY <1>1, <1>2, ZenonT(30) DEF PendingAnswers

LEMMA PublishAnswers ==
  ASSUME IInv, AnswersInv, Publish
  PROVE  AnswersInv'
<1>1. /\ flush.stage = "prepare" /\ log' = log \o flush.accepted
      /\ flush' = [flush EXCEPT !.stage = "deliver"]
      /\ UNCHANGED <<openBatch, flushQueue, pc, req, staged, snap>>
      /\ flush \in [stage : {"idle", "prepare", "deliver"}, batch : Seq(Record),
                    accepted : Seq(Record), rejected : SUBSET Txns]
  BY ZenonT(30) DEF Publish, IInv, TypeOK, txnVars
<1>2. flush'.stage = "deliver" /\ flush'.batch = flush.batch /\ flush'.accepted = flush.accepted
  BY <1>1
<1>3. Decided' = Decided
  BY <1>1, <1>2, ZenonT(30) DEF Decided
<1>4. Queued' = Queued
  BY <1>1, <1>2 DEF Queued
<1>5. /\ Len(log) \in Nat /\ Len(log') \in Nat /\ Len(log) <= Len(log')
      /\ \A i \in 1..Len(log) : log'[i] = log[i]
  <2>1. log \in Seq(Record) /\ flush.accepted \in Seq(Record)
    BY BatchTypes, ZenonT(30) DEF IInv, TypeOK
  <2>2. log' = log \o flush.accepted
    BY <1>1, ZenonT(30)
  <2> QED
    BY <2>1, <2>2, ConcatSpec, SeqSpec
<1>6. ASSUME NEW p \in Queued
      PROVE  p.meta = staged'[p.txn].meta /\ PendingAnswers(p.txn)'
  <2>1. p.meta = staged[p.txn].meta /\ PendingAnswers(p.txn)
    BY ZenonT(30) DEF AnswersInv
  <2>2. staged[p.txn].meta.snapshot \in Nat /\ staged[p.txn].meta.snapshot <= Len(log)
    BY <2>1, QueuedTxn, ZenonT(30)
  <2> QED
    BY <1>1, <1>5, <2>1, <2>2, PendingAnswersExtend, ZenonT(30)
<1>7. ASSUME NEW t \in Txns, pc[t] = "append"
      PROVE  PendingAnswers(t)'
  <2>1. staged[t].meta.snapshot = snap[t] /\ snap[t] \in Snapshots
    BY <1>7, ZenonT(30) DEF IInv, StagedAndQueued, Snapshots
  <2>2. staged[t].meta.snapshot \in Nat /\ staged[t].meta.snapshot <= Len(log)
    BY <2>1, SnapshotsNat, ZenonT(30) DEF IInv, CommittedWritesCover
  <2> QED
    BY <1>1, <1>5, <1>7, <2>2, PendingAnswersExtend, ZenonT(30) DEF AnswersInv
<1>8. DecidedAnswers'
  BY <1>1, <1>3, ZenonT(30) DEF AnswersInv, DecidedAnswers
<1>9. log'[1].txn = NoTxn
  <2>1. log[1].txn = NoTxn /\ Len(log) >= 1
    BY ZenonT(30) DEF AnswersInv, IInv, Positions
  <2>2. 1 \in 1..Len(log)
    BY <1>5, <2>1
  <2> QED
    BY <1>5, <2>1, <2>2, ZenonT(30)
<1> QED
  BY <1>1, <1>4, <1>6, <1>7, <1>8, <1>9, ZenonT(30) DEF AnswersInv, DecidedAnswers

LEMMA RestartAnswers ==
  ASSUME IInv, AnswersInv, Restart
  PROVE  AnswersInv'
<1>1. /\ openBatch' = <<>> /\ flushQueue' = <<>>
      /\ flush' = [stage |-> "idle", batch |-> <<>>, accepted |-> <<>>, rejected |-> {}]
      /\ pc' = [t \in Txns |-> IF pc[t] \in Ended THEN pc[t] ELSE "dead"]
      /\ UNCHANGED <<req, staged>>
  BY ZenonT(30) DEF Restart
<1>2. flush'.stage = "idle" /\ flush'.batch = <<>>
  BY <1>1, ZenonT(30)
<1>3. /\ Len(log') \in Nat /\ Len(log) <= Len(log') /\ Len(log') <= Len(Decided)
      /\ \A i \in 1..Len(log') : log'[i] = Decided[i]
  BY RestartLog, ZenonT(30)
<1>4. /\ Len(log) \in Nat /\ Len(Decided) \in Nat /\ Len(log) >= 1
      /\ \A i \in 1..Len(log) : Decided[i] = log[i]
  BY DecidedLength, ZenonT(30) DEF IInv, Positions
<1>5. Decided' = log'
  BY <1>2, ZenonT(30) DEF Decided
<1>6. Queued' = {}
  BY <1>1, <1>2 DEF Queued, InBatch
<1>7. \A t \in Txns : pc'[t] # "append"
  BY <1>1, ZenonT(30) DEF Ended
<1>8. log'[1].txn = NoTxn
  <2>1. 1 \in 1..Len(log) /\ 1 \in 1..Len(log')
    BY <1>3, <1>4
  <2> QED
    BY <1>3, <1>4, <2>1, ZenonT(30) DEF AnswersInv
<1>9. ASSUME NEW r \in 2..Len(log')
      PROVE  LET t == log'[r].txn
             IN /\ log'[r].meta = staged[t].meta
                /\ Recorded(staged[t].meta) => AnswersRight(staged[t], req[t], log', r - 1)
  <2>1. /\ r \in 2..Len(Decided) /\ r \in 1..Len(log') /\ r - 1 \in Nat
        /\ \A i \in 1..(r - 1) : i \in 1..Len(log')
    BY <1>3, <1>4
  <2>2. log'[r] = Decided[r] /\ \A i \in 1..(r - 1) : Decided[i] = log'[i]
    BY <1>3, <2>1, ZenonT(30)
  <2>3. LET t == Decided[r].txn
        IN /\ Decided[r].meta = staged[t].meta
           /\ Recorded(staged[t].meta) => AnswersRight(staged[t], req[t], Decided, r - 1)
    BY <2>1, ZenonT(30) DEF AnswersInv
  <2> QED
    BY <2>1, <2>2, <2>3, AnswersPrefix, ZenonT(30)
<1>10. DecidedAnswers'
  BY <1>1, <1>5, <1>9, ZenonT(30) DEF DecidedAnswers
<1> QED
  BY <1>6, <1>7, <1>8, <1>10, ZenonT(30) DEF AnswersInv, DecidedAnswers

LEMMA NextAnswers ==
  ASSUME IInv, OnceInv, AnswersInv, [Next]_vars
  PROVE  AnswersInv'
<1>1. ASSUME NEW t \in Txns, TxnStep(t)
      PROVE  AnswersInv'
  <2>1. CASE Begin(t)
    BY <2>1, LabelAnswers, ZenonT(30) DEF Begin, Goto, storeVars
  <2>2. CASE ApplySnapshot(t)
    BY <2>2, LabelAnswers, ZenonT(30) DEF ApplySnapshot, Goto
  <2>3. CASE Finish(t)
    BY <2>3, LabelAnswers, ZenonT(30) DEF Finish, Goto
  <2>4. CASE Retry(t)
    BY <2>4, LabelAnswers, ZenonT(30) DEF Retry, Goto, storeVars
  <2>5. CASE GiveUp(t)
    BY <2>5, LabelAnswers, ZenonT(30) DEF GiveUp, Goto, storeVars
  <2> QED
    BY <1>1, <2>1, <2>2, <2>3, <2>4, <2>5, EvaluateAnswers, AddAnswers, ZenonT(30) DEF TxnStep
<1>2. ASSUME NEW t \in Txns, Abandon(t)
      PROVE  AnswersInv'
  BY <1>2, LabelAnswers, ZenonT(30) DEF Abandon, Goto, storeVars
<1>3. ASSUME FlusherStep
      PROVE  AnswersInv'
  BY <1>3, TakeBatchAnswers, PrepareTxnAnswers, PublishAnswers, DeliverAnswers DEF FlusherStep
<1>4. ASSUME NEW r, Compact(r)
      PROVE  AnswersInv'
  BY <1>4, BatchesFrame, ZenonT(30) DEF Compact, txnVars
<1>5. ASSUME Crash \/ UNCHANGED vars
      PROVE  AnswersInv'
  BY <1>5, BatchesFrame, ZenonT(30) DEF Crash, vars, storeVars, txnVars
<1> QED
  BY <1>1, <1>2, <1>3, <1>4, <1>5, RestartAnswers, ZenonT(30) DEF Next, Idle

LEMMA InitAnswers ==
  ASSUME Init
  PROVE  AnswersInv
<1>1. /\ log = <<DummyRecord>> /\ openBatch = <<>> /\ flushQueue = <<>>
      /\ flush = [stage |-> "idle", batch |-> <<>>, accepted |-> <<>>, rejected |-> {}]
      /\ \A t \in Txns : pc[t] = "idle"
  BY ZenonT(30) DEF Init
<1>2. Queued = {}
  BY <1>1 DEF Queued, InBatch
<1>3. Decided = <<DummyRecord>>
  BY <1>1, ZenonT(30) DEF Decided
<1>4. log[1].txn = NoTxn /\ Len(Decided) = 1
  BY <1>1, <1>3, ZenonT(30) DEF DummyRecord
<1> QED
  BY <1>1, <1>2, <1>4 DEF AnswersInv

\* Beside what IInv and OnceInv say, the responses that wait with their records
\* are right.
THEOREM StoreInvHolds == Spec => []StoreInv
<1>1. Init => AnswersInv
  BY InitAnswers
<1>2. IInv /\ OnceInv /\ AnswersInv /\ [Next]_vars => AnswersInv'
  BY NextAnswers
<1> QED
  BY <1>1, <1>2, OnceInvHolds, PTL DEF Spec, StoreInv

\* The response of every committed transaction that recorded its reads - the
\* outcome of its compares and what its single-key reads returned - is that of
\* the state just before its own record, although tryTxn computed it from an
\* older snapshot through an index that was being compacted.
THEOREM ResponsesSerial == Spec => []AnswersSerial
<1>1. StoreInv => AnswersSerial
  <2> SUFFICES ASSUME IInv, OnceInv, AnswersInv, NEW t \in Txns, pc[t] \in {"accepted", "done"},
                      staged[t].meta.writes # {}, Recorded(staged[t].meta)
               PROVE  AnsweredAs(staged[t], req[t], log, rev[t] - 1)
    BY ZenonT(30) DEF AnswersSerial, StoreInv
  <2> DEFINE r == rev[t]
  <2>1. r \in DOMAIN log /\ log[r].txn = t
    BY ZenonT(30) DEF OnceInv, ResultsRight
  <2>2. /\ DOMAIN log = 1..Len(log) /\ Len(log) \in Nat /\ Len(Decided) \in Nat
        /\ Len(log) <= Len(Decided) /\ \A i \in 1..Len(log) : Decided[i] = log[i]
    BY DecidedLength, ZenonT(30)
  <2>3. r # 1
    BY <2>1, BoundsAssumption, ZenonT(30) DEF AnswersInv
  <2> HIDE DEF r
  <2>4. /\ r \in 2..Len(Decided) /\ r - 1 \in Nat /\ r \in 1..Len(log)
        /\ \A i \in 1..(r - 1) : i \in 1..Len(log)
    BY <2>1, <2>2, <2>3
  <2>5. Decided[r].txn = t /\ \A i \in 1..(r - 1) : Decided[i] = log[i]
    BY <2>1, <2>2, <2>4, ZenonT(30)
  <2>6. AnswersRight(staged[t], req[t], Decided, r - 1)
    BY <2>4, <2>5, ZenonT(30) DEF AnswersInv
  <2>7. AnswersRight(staged[t], req[t], log, r - 1)
    BY <2>4, <2>5, <2>6, AnswersPrefix, ZenonT(30)
  <2> QED
    BY <2>7, ZenonT(30) DEF AnswersRight, r
<1> QED
  BY <1>1, StoreInvHolds, PTL
=============================================================================
