-------------------------------- MODULE Lease --------------------------------
(***************************************************************************)
(* Leases (lease.go): grant, keep-alive, revoke, expiry and the deletion    *)
(* queue, over a store whose transactions are serializable (TxnStore).      *)
(*                                                                         *)
(* A lease record is a key of the store, so a grant, a revoke or an expiry  *)
(* is a transaction, committed and applied in one step here; applying it    *)
(* calls OnLogEvent.  What a handler reads before its transaction, the      *)
(* lease table above all, is read in a step of its own.  Time is whether a  *)
(* lease's Expiration has passed.  The log is replayed whole: what          *)
(* compaction takes from it is the subject of LogCompaction.  A replay      *)
(* applies the events in the order of their commits, so what it builds is   *)
(* kept, in `replay', as they are committed.                                *)
(***************************************************************************)
EXTENDS Naturals, Sequences

CONSTANTS Ids, Keys,      \* lease IDs, and keys that clients attach to them
          NoLease,        \* a key without a lease, lease 0
          Absent,         \* no value
          MaxLog,         \* bound on the log when a client writes
          MaxFailures,    \* bound on the transactions that fail
          MaxRestarts     \* bound on the restarts

ASSUME LeaseAssumption == NoLease \notin Ids /\ Absent \notin Ids \cup {NoLease}

VARIABLES commits,    \* the number of events in the log
          replay,     \* the LeaseManager and the records that replaying them builds
          record,     \* the index's entry of each lease record
          value,      \* the lease of each key, or Absent
          lm,         \* LeaseManager: table, expiring and deleteQueue
          inflight,   \* client operations past their check
          todo,       \* checkExpiredOnce: leases it will delete
          retiring,   \* checkExpiredOnce: leases whose delete found nothing
          deleting,   \* processDeletionQueue: the lease it is working on
          status, failures, restarts

log == <<commits, replay>>
vars == <<log, record, value, lm, inflight, todo, retiring, deleting, status, failures, restarts>>

\* A placeholder has TTL 0.
NoEntry == [there |-> FALSE, keys |-> {}, due |-> FALSE, zeroTTL |-> FALSE]
GrantedLease(keys) == [NoEntry EXCEPT !.there = TRUE, !.keys = keys]
Placeholder(keys) == [there |-> TRUE, keys |-> keys, due |-> TRUE, zeroTTL |-> TRUE]
Empty == [table |-> [i \in Ids |-> NoEntry], expiring |-> {}, queue |-> <<>>]
Nobody == [id |-> NoLease, all |-> {}, keys |-> {}, failed |-> FALSE]

Init ==
    /\ commits = 0 /\ replay = [lm |-> Empty, record |-> [i \in Ids |-> "absent"]]
    /\ record = [i \in Ids |-> "absent"] /\ value = [k \in Keys |-> Absent]
    /\ lm = Empty /\ inflight = {} /\ todo = {} /\ retiring = {} /\ deleting = Nobody
    /\ status = "up" /\ failures = 0 /\ restarts = 0

HasLease(i) == lm.table[i].there

-----------------------------------------------------------------------------
(* OnLogEvent.                                                             *)

Push(queue, i, keys) == Append(queue, [id |-> i, keys |-> keys])

\* A lease leaves the table; its keys, if any, are queued for deletion.
RetireLease(m, i) ==
    [table |-> [m.table EXCEPT ![i] = NoEntry],
     expiring |-> m.expiring \ {i},
     queue |-> IF m.table[i].keys = {} THEN m.queue ELSE Push(m.queue, i, m.table[i].keys)]

OnLeaseRecord(m, ev) ==
    IF ev.type = "grant" THEN [m EXCEPT !.table[ev.id] = GrantedLease(@.keys)]
    ELSE IF m.table[ev.id].there THEN RetireLease(m, ev.id) ELSE m

\* A lease that is not in the table gets a placeholder that expires at once; a
\* lease without keys goes.
WithKey(e, k) == IF e.there THEN [e EXCEPT !.keys = @ \cup {k}] ELSE Placeholder({k})
WithoutKey(e, k) == IF e.keys \ {k} = {} THEN NoEntry ELSE [e EXCEPT !.keys = @ \ {k}]

\* A put or a delete of a key moves it from its old lease to its new one.
Attach(m, ev) ==
    IF ev.new = NoLease \/ ev.new = ev.old THEN m
    ELSE [m EXCEPT !.table[ev.new] = WithKey(@, ev.key)]

Detach(m, ev) ==
    IF ev.old = NoLease \/ ev.new = ev.old \/ ~m.table[ev.old].there THEN m
    ELSE [m EXCEPT !.table[ev.old] = WithoutKey(@, ev.key)]

OnLogEvent(m, ev) ==
    IF ev.type \in {"grant", "revoke"} THEN OnLeaseRecord(m, ev) ELSE Detach(Attach(m, ev), ev)

-----------------------------------------------------------------------------
(* Transactions of the store.                                              *)

RecordAfter(rec, ev) ==
    IF ev.type = "grant" THEN [rec EXCEPT ![ev.id] = "put"]
    ELSE IF ev.type = "revoke" THEN [rec EXCEPT ![ev.id] = "tombstone"] ELSE rec

CommitEvent(ev) ==
    /\ status = "up"
    /\ commits' = commits + 1
    /\ replay' = [lm |-> OnLogEvent(replay.lm, ev), record |-> RecordAfter(replay.record, ev)]
    /\ lm' = OnLogEvent(lm, ev)

LeaseOf(k) == IF value[k] \in Ids THEN value[k] ELSE NoLease

\* A put of k; puts of k evaluated before it are rejected and start again.
WriteKey(k, new, ops) ==
    /\ CommitEvent([type |-> IF new = Absent THEN "delete" ELSE "put", key |-> k,
                    new |-> IF new = Absent THEN NoLease ELSE new, old |-> LeaseOf(k)])
    /\ value' = [value EXCEPT ![k] = new]
    /\ inflight' = {o \in ops : o.key # k}
    /\ UNCHANGED record

\* storage.Delete of a lease record: nothing to delete, a delete, or the
\* assertion of txn.delete that what it finds is a put.
DeleteRecord(i) ==
    \/ record[i] = "absent" /\ UNCHANGED <<log, lm, record, status>>
    \/ /\ record[i] = "put"
       /\ CommitEvent([type |-> "revoke", id |-> i])
       /\ record' = [record EXCEPT ![i] = "tombstone"]
       /\ UNCHANGED status
    \/ record[i] = "tombstone" /\ status' = "fatal" /\ UNCHANGED <<log, lm, record>>

\* Compaction of the index removes a tombstone.
CompactTombstone(i) ==
    /\ status = "up" /\ record[i] = "tombstone"
    /\ record' = [record EXCEPT ![i] = "absent"]
    /\ UNCHANGED <<log, value, lm, inflight, todo, retiring, deleting, status, failures, restarts>>

-----------------------------------------------------------------------------
(* Client requests: the check of the table, and the transaction.           *)

ClientsMayWrite == commits < MaxLog

Op(name, i, k) == [op |-> name, id |-> i, key |-> k]

Check(name, i, k) ==
    /\ status = "up" /\ Op(name, i, k) \notin inflight
    /\ inflight' = inflight \cup {Op(name, i, k)}
    /\ UNCHANGED <<log, record, value, lm, todo, retiring, deleting, status, failures, restarts>>

LeaseGrant(i) == ~HasLease(i) /\ Check("grant", i, Absent)

LeaseGrantCommit(i) ==
    /\ ClientsMayWrite /\ Op("grant", i, Absent) \in inflight
    /\ CommitEvent([type |-> "grant", id |-> i])
    /\ record' = [record EXCEPT ![i] = "put"]
    /\ inflight' = inflight \ {Op("grant", i, Absent)}
    /\ UNCHANGED <<value, todo, retiring, deleting, status, failures, restarts>>

LeaseRevoke(i) == HasLease(i) /\ Check("revoke", i, Absent)

LeaseRevokeCommit(i) ==
    /\ status = "up" /\ ClientsMayWrite /\ Op("revoke", i, Absent) \in inflight
    /\ DeleteRecord(i)
    /\ inflight' = inflight \ {Op("revoke", i, Absent)}
    /\ UNCHANGED <<value, todo, retiring, deleting, failures, restarts>>

LeaseKeepAlive(i) ==
    /\ status = "up" /\ HasLease(i)
    /\ lm' = [lm EXCEPT !.table[i].due = lm.table[i].zeroTTL]
    /\ UNCHANGED <<log, record, value, inflight, todo, retiring, deleting, status, failures, restarts>>

\* txn.put checks that the lease exists when it is evaluated.
Put(k, i) == HasLease(i) /\ Check("put", i, k)

PutCommit(k, i) ==
    /\ ClientsMayWrite /\ Op("put", i, k) \in inflight
    /\ WriteKey(k, i, inflight)
    /\ UNCHANGED <<todo, retiring, deleting, status, failures, restarts>>

PutWithoutLease(k) ==
    /\ ClientsMayWrite
    /\ WriteKey(k, NoLease, inflight)
    /\ UNCHANGED <<todo, retiring, deleting, status, failures, restarts>>

ClientDelete(k) ==
    /\ ClientsMayWrite /\ value[k] # Absent
    /\ WriteKey(k, Absent, inflight)
    /\ UNCHANGED <<todo, retiring, deleting, status, failures, restarts>>

-----------------------------------------------------------------------------
(* Expiry.                                                                 *)

\* The TTL of a lease passes.
Elapse(i) ==
    /\ status = "up" /\ HasLease(i) /\ ~lm.table[i].due
    /\ lm' = [lm EXCEPT !.table[i].due = TRUE]
    /\ UNCHANGED <<log, record, value, inflight, todo, retiring, deleting, status, failures, restarts>>

\* checkExpiredOnce marks the leases that have expired, under mu, and then
\* deletes their records one by one.
Expired == {i \in Ids : lm.table[i].due /\ i \notin lm.expiring}

CheckExpired ==
    /\ status = "up" /\ todo = {} /\ retiring = {} /\ Expired # {}
    /\ todo' = Expired
    /\ lm' = [lm EXCEPT !.expiring = @ \cup Expired]
    /\ UNCHANGED <<log, record, value, inflight, retiring, deleting, status, failures, restarts>>

Expire(i) ==
    /\ status = "up" /\ i \in todo /\ retiring = {}
    /\ DeleteRecord(i)
    /\ todo' = todo \ {i}
    /\ retiring' = IF record[i] = "absent" THEN {i} ELSE {}
    /\ UNCHANGED <<value, inflight, deleting, failures, restarts>>

ExpireFails(i) ==
    /\ status = "up" /\ i \in todo /\ retiring = {} /\ failures < MaxFailures
    /\ failures' = failures + 1
    /\ todo' = todo \ {i}
    /\ lm' = [lm EXCEPT !.expiring = @ \ {i}]
    /\ UNCHANGED <<log, record, value, inflight, retiring, deleting, status, restarts>>

\* No record was deleted: a placeholder is retired without an event.
ExpirePlaceholder_DropsKeys(i) ==
    /\ status = "up" /\ i \in retiring
    /\ retiring' = {}
    /\ lm' = [lm EXCEPT !.table[i] = NoEntry, !.expiring = @ \ {i}]
    /\ UNCHANGED <<log, record, value, inflight, todo, deleting, status, failures, restarts>>

ExpirePlaceholder(i) ==
    /\ status = "up" /\ i \in retiring
    /\ retiring' = {}
    /\ lm' = IF HasLease(i) THEN RetireLease(lm, i) ELSE lm
    /\ UNCHANGED <<log, record, value, inflight, todo, deleting, status, failures, restarts>>

-----------------------------------------------------------------------------
(* processDeletionQueue.                                                   *)

TakeLease ==
    /\ status = "up" /\ deleting = Nobody /\ lm.queue # <<>>
    /\ deleting' = [id |-> Head(lm.queue).id, all |-> Head(lm.queue).keys,
                    keys |-> Head(lm.queue).keys, failed |-> FALSE]
    /\ lm' = [lm EXCEPT !.queue = Tail(@)]
    /\ UNCHANGED <<log, record, value, inflight, todo, retiring, status, failures, restarts>>

\* deleteKeysForLease: a key is deleted if it still has this lease.
DeleteKey(k) ==
    /\ status = "up" /\ k \in deleting.keys
    /\ deleting' = [deleting EXCEPT !.keys = @ \ {k}]
    /\ IF value[k] = deleting.id THEN WriteKey(k, Absent, inflight)
       ELSE UNCHANGED <<log, record, value, lm, inflight>>
    /\ UNCHANGED <<todo, retiring, status, failures, restarts>>

DeleteKeyFails(k) ==
    /\ status = "up" /\ k \in deleting.keys /\ failures < MaxFailures
    /\ failures' = failures + 1
    /\ deleting' = [deleting EXCEPT !.keys = @ \ {k}, !.failed = TRUE]
    /\ UNCHANGED <<log, record, value, lm, inflight, todo, retiring, status, restarts>>

\* A lease with failures is queued again, with all its keys.
LeaseDone_Forgets ==
    /\ status = "up" /\ deleting # Nobody /\ deleting.keys = {}
    /\ deleting' = Nobody
    /\ UNCHANGED <<log, record, value, lm, inflight, todo, retiring, status, failures, restarts>>

LeaseDone ==
    /\ status = "up" /\ deleting # Nobody /\ deleting.keys = {}
    /\ deleting' = Nobody
    /\ lm' = IF deleting.failed
             THEN [lm EXCEPT !.queue = Push(@, deleting.id, deleting.all)]
             ELSE lm
    /\ UNCHANGED <<log, record, value, inflight, todo, retiring, status, failures, restarts>>

\* The process starts again, after a fatal error too, and replays the log.
Restart ==
    /\ restarts < MaxRestarts
    /\ restarts' = restarts + 1
    /\ lm' = replay.lm /\ record' = replay.record
    /\ inflight' = {} /\ todo' = {} /\ retiring' = {} /\ deleting' = Nobody /\ status' = "up"
    /\ UNCHANGED <<log, value, failures>>

Expirer == CheckExpired \/ \E i \in Ids : Expire(i) \/ ExpirePlaceholder(i)
Deleter == TakeLease \/ LeaseDone \/ \E k \in Keys : DeleteKey(k)

Next ==
    \/ \E i \in Ids : \/ LeaseGrant(i) \/ LeaseGrantCommit(i) \/ LeaseRevoke(i)
                      \/ LeaseRevokeCommit(i) \/ LeaseKeepAlive(i) \/ Elapse(i)
                      \/ CompactTombstone(i) \/ Expire(i) \/ ExpireFails(i) \/ ExpirePlaceholder(i)
                      \/ \E k \in Keys : Put(k, i) \/ PutCommit(k, i)
    \/ \E k \in Keys : PutWithoutLease(k) \/ ClientDelete(k) \/ DeleteKey(k) \/ DeleteKeyFails(k)
    \/ CheckExpired \/ TakeLease \/ LeaseDone \/ Restart

Spec == Init /\ [][Next]_vars

\* The two goroutines of Run keep running: the expirer's ticker and the
\* deletion queue.
FairSpec == Spec /\ WF_vars(Expirer) /\ WF_vars(Deleter)

-----------------------------------------------------------------------------
Entry == [there : BOOLEAN, keys : SUBSET Keys, due : BOOLEAN, zeroTTL : BOOLEAN]
Manager == [table : [Ids -> Entry], expiring : SUBSET Ids,
            queue : Seq([id : Ids, keys : SUBSET Keys])]
Deletion == [id : Ids, all : SUBSET Keys, keys : SUBSET Keys, failed : BOOLEAN]
RecordStates == [Ids -> {"absent", "put", "tombstone"}]

TypeOK ==
    /\ commits \in Nat /\ replay \in [lm : Manager, record : RecordStates]
    /\ record \in RecordStates /\ value \in [Keys -> Ids \cup {NoLease, Absent}] /\ lm \in Manager
    /\ todo \in SUBSET Ids /\ retiring \in SUBSET Ids
    /\ deleting \in Deletion \cup {Nobody} /\ deleting.keys \subseteq deleting.all /\ status \in {"up", "fatal"}
    /\ failures \in Nat /\ restarts \in Nat

\* The lease i, in the table or on its way through the deletion queue, has key k.
Tracks(m, i, k) ==
    \/ k \in m.table[i].keys
    \/ \E n \in 1..Len(m.queue) : m.queue[n].id = i /\ k \in m.queue[n].keys
Removes(i, k) == deleting.id = i /\ k \in (IF deleting.failed THEN deleting.all ELSE deleting.keys)

\* "so the keys are cleaned up rather than leaked": a key with a lease is
\* always known to somebody who will delete it, the lease in the table or the
\* deletion queue, whichever of a put, a revoke, an expiry, a second grant, a
\* failure or a restart came last.
AttachedIsTracked ==
    \A k \in Keys : value[k] \in Ids => Tracks(lm, value[k], k) \/ Removes(value[k], k)

\* The table lists no key that has moved to another lease or is gone, however
\* the puts, the deletes and a replay are interleaved: keys are detached from
\* the lease that PrevKv names.
TableKeysAreTheirs == \A i \in Ids : \A k \in lm.table[i].keys : value[k] = i

\* A key with a lease is known to whoever will delete it, and a lease's table
\* lists no other keys.
KeysAreTracked == AttachedIsTracked /\ TableKeysAreTheirs

\* The same of what a replay would build, which knows nothing of the deletions
\* under way; and an entry that is not there has no keys.
ReplayTracks ==
    /\ \A k \in Keys : value[k] \in Ids => Tracks(replay.lm, value[k], k)
    /\ \A i \in Ids : \A k \in replay.lm.table[i].keys : value[k] = i
    /\ \A m \in {lm, replay.lm} : \A i \in Ids : m.table[i].there \/ m.table[i].keys = {}

\* Inductive: at every moment a restart would find the keys tracked as well.
LeaseInv == TypeOK /\ KeysAreTracked /\ ReplayTracks

\* A key whose lease is gone is deleted or changed in the end, or the server
\* has stopped.
OrphansGo ==
    \A k \in Keys : \A i \in Ids :
        (value[k] = i /\ ~HasLease(i)) ~> (value[k] # i \/ HasLease(i) \/ status = "fatal")

\* "expiring marks leases whose expiry has been decided ..., so a slow apply
\* does not expire them twice": no lease record is deleted twice, which
\* txn.delete answers by stopping the server.
RecordDeletedOnce == status # "fatal"

\* "a grant is the key's latest put until the revoke deletes it": a lease whose
\* record is in the store is in the table.
GrantedIsInTable == \A i \in Ids : record[i] = "put" => HasLease(i)

\* "LeaseKeepAlive keeps the lease alive": a lease is expired only if its time
\* has passed.
ExpiresOnlyWhenDue ==
    [][\A i \in Ids : i \in todo /\ i \notin todo' /\ status = "up" /\ HasLease(i)
                      /\ record[i] = "put" /\ record'[i] = "tombstone" => lm.table[i].due]_vars

\* "creates a lease which expires if the server does not receive a keepAlive":
\* a lease whose time has passed goes, or is kept alive after all.
DueExpires ==
    \A i \in Ids : lm.table[i].due ~> (~lm.table[i].due \/ status = "fatal")

\* "This is OK though, the new lease owns the key": the deletion queue spares
\* the keys that a lease in the table owns.
DeleterSparesLiveLease ==
    [][\A k \in Keys : k \in deleting.keys /\ value[k] = deleting.id /\ value'[k] = Absent
                       => ~HasLease(deleting.id)]_vars
=============================================================================
