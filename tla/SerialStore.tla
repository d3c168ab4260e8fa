----------------------------- MODULE SerialStore -----------------------------
(***************************************************************************)
(* What the storage promises its callers, without snapshots, batches,      *)
(* validation or an index: a history of records that only grows.  A        *)
(* transaction that writes does so once, at one point between its call and *)
(* its answer, and its record is what its request does when it runs alone  *)
(* after the records before it.  The answer names the revision of that     *)
(* record, or, of a transaction that wrote nothing, a revision that was    *)
(* the latest while the call was running.  A refused transaction has       *)
(* written nothing and never will; of one whose caller left, or whose      *)
(* server died, the caller does not know.                                  *)
(***************************************************************************)
EXTENDS Naturals, Sequences

CONSTANTS
  Txns,           \* the transactions
  NoTxn,          \* the author of the first, empty record
  Effect(_, _, _),\* what a request writes after the first n records of a history
  Exact(_)        \* whether the promise of serial execution covers a record

VARIABLES
  history,   \* the records, revision = position
  request,   \* the request of each transaction
  status,    \* what the caller of each transaction knows
  seen,      \* the latest revision at a moment during its call
  revision   \* the revision of its answer

vars == <<history, request, status, seen, revision>>

Written == {history[r].txn : r \in DOMAIN history}

Init ==
  /\ Len(history) = 1 /\ history[1].txn = NoTxn
  /\ status = [t \in Txns |-> "idle"]
  /\ revision = [t \in Txns |-> 0]

\* The call starts, or the server looks again before anything is written.
Observe(t) ==
  /\ status[t] \in {"idle", "open"} /\ t \notin Written
  /\ status' = [status EXCEPT ![t] = "open"]
  /\ seen' = [seen EXCEPT ![t] = Len(history)]
  /\ UNCHANGED <<history, request, revision>>

\* Record r of h is what its request does alone after the records before it.
Serial(h, r) == Exact(h[r]) => h[r].events = Effect(request[h[r].txn], h, r - 1)

\* The history grows by records of transactions that run, or whose caller has
\* left; each is serial and the only one of its transaction.
Grows ==
  /\ Len(history) <= Len(history')
  /\ \A r \in 1..Len(history) : history'[r] = history[r]
  /\ \A r \in (Len(history) + 1)..Len(history') :
       /\ history'[r].txn \in {t \in Txns : status[t] \in {"open", "lost"}}
       /\ Serial(history', r)
       /\ \A q \in 1..Len(history') : history'[q].txn = history'[r].txn => q = r

Commit == Grows /\ UNCHANGED <<request, status, seen, revision>>

Answer(t, r) ==
  /\ status[t] = "open"
  /\ status' = [status EXCEPT ![t] = "answered"]
  /\ revision' = [revision EXCEPT ![t] = r]
  /\ UNCHANGED <<history, request, seen>>

AnswerWrite(t) == \E r \in DOMAIN history : history[r].txn = t /\ Answer(t, r)

AnswerRead(t) == t \notin Written /\ Answer(t, seen[t])

Refuse(t) ==
  /\ status[t] = "open" /\ t \notin Written
  /\ status' = [status EXCEPT ![t] = "refused"]
  /\ UNCHANGED <<history, request, seen, revision>>

\* The caller leaves: the transaction may be written, or not.
Leave(t) ==
  /\ status[t] = "open"
  /\ status' = [status EXCEPT ![t] = "lost"]
  /\ UNCHANGED <<history, request, seen, revision>>

\* The server dies: what was being written is written or not, and nothing of
\* a transaction that was not answered is written after that.
Die ==
  /\ Grows
  /\ status' = [t \in Txns |-> IF status[t] \in {"open", "lost"} THEN "dead" ELSE status[t]]
  /\ UNCHANGED <<request, seen, revision>>

Next ==
  \/ \E t \in Txns :
       Observe(t) \/ AnswerWrite(t) \/ AnswerRead(t) \/ Refuse(t) \/ Leave(t)
  \/ Commit
  \/ Die

Spec == Init /\ [][Next]_vars
=============================================================================
