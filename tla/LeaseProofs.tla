----------------------------- MODULE LeaseProofs -----------------------------
(***************************************************************************)
(* Leases, for any leases and keys: no key of a lease is forgotten.  Each   *)
(* event that is applied keeps the keys tracked, in the running manager and *)
(* in the one that a replay would build, so a restart finds them tracked    *)
(* as well.                                                                 *)
(***************************************************************************)
EXTENDS Lease, TLAPS

\* An entry that is not there has no keys.
EntriesOK(m) == \A i \in Ids : m.table[i].there \/ m.table[i].keys = {}
SoundManager(m) == m \in Manager /\ EntriesOK(m)

-----------------------------------------------------------------------------
(* OnLogEvent.  m is the manager before, n the one after.                  *)

Replace(m, i, e) == [m EXCEPT !.table[i] = e]
Replaced(m, n, i, e) ==
    /\ SoundManager(n) /\ n.queue = m.queue
    /\ n.table[i] = e /\ \A j \in Ids \ {i} : n.table[j] = m.table[j]

\* One entry of the table is replaced.
LEMMA EntryReplaced ==
  ASSUME NEW m, SoundManager(m), NEW i \in Ids, NEW e \in Entry, e.there \/ e.keys = {},
         NEW n, n = Replace(m, i, e)
  PROVE  Replaced(m, n, i, e)
<1>1. m \in Manager /\ m.table \in [Ids -> Entry]
  BY DEF SoundManager, Manager
<1>2. /\ n.table = [m.table EXCEPT ![i] = e] /\ n.queue = m.queue /\ n.expiring = m.expiring
      /\ n = [table |-> n.table, expiring |-> n.expiring, queue |-> n.queue]
  BY <1>1, ZenonT(30) DEF Manager, Replace
<1>3. /\ n.table \in [Ids -> Entry] /\ n.table[i] = e
      /\ \A j \in Ids \ {i} : n.table[j] = m.table[j]
  BY <1>1, <1>2
<1>4. n \in Manager
  BY <1>1, <1>2, <1>3 DEF Manager
<1>5. EntriesOK(n)
  BY <1>3 DEF EntriesOK, SoundManager
<1> QED
  BY <1>2, <1>3, <1>4, <1>5 DEF Replaced, SoundManager

\* The key is added to its new lease.
Attached(m, n, ev) ==
    /\ SoundManager(n) /\ n.queue = m.queue
    /\ \A i \in Ids, q \in Keys :
          q \in n.table[i].keys <=> q \in m.table[i].keys
                                   \/ (q = ev.key /\ i = ev.new /\ ev.new # ev.old)

\* Attach adds the key to its new lease, with a placeholder if need be.
LEMMA AttachTable ==
  ASSUME NEW m, SoundManager(m), NEW ev, ev.key \in Keys, ev.new \in Ids \cup {NoLease},
         NEW n, n = Attach(m, ev)
  PROVE  Attached(m, n, ev)
<1>1. CASE ev.new = NoLease \/ ev.new = ev.old
  <2>1. n = m
    BY <1>1 DEF Attach
  <2> QED
    BY <1>1, <2>1, LeaseAssumption DEF Attached
<1>2. CASE ~(ev.new = NoLease \/ ev.new = ev.old)
  <2> DEFINE new == ev.new
             e == WithKey(m.table[new], ev.key)
  <2>1. new \in Ids /\ new # ev.old
    BY <1>2
  <2>2. m.table[new] \in Entry
    BY <2>1 DEF Manager, SoundManager
  <2>3. e \in Entry /\ e.there /\ e.keys = m.table[new].keys \cup {ev.key}
    <3>1. CASE m.table[new].there
      BY <2>2, <3>1 DEF Entry, WithKey
    <3>2. CASE ~m.table[new].there
      <4>1. e = Placeholder({ev.key}) /\ m.table[new].keys = {}
        BY <2>1, <3>2 DEF EntriesOK, SoundManager, WithKey
      <4> QED
        BY <4>1 DEF Entry, Placeholder
    <3> QED
      BY <3>1, <3>2
  <2>4. n = Replace(m, new, e)
    BY <1>2 DEF Attach, Replace
  <2> HIDE DEF e
  <2>5. Replaced(m, n, new, e)
    BY <2>1, <2>3, <2>4, EntryReplaced
  <2> QED
    BY <2>1, <2>3, <2>5 DEF Replaced, Attached
<1> QED
  BY <1>1, <1>2

\* The key is taken from its old lease.
Detached(m, n, ev) ==
    /\ SoundManager(n) /\ n.queue = m.queue
    /\ \A i \in Ids, q \in Keys :
          q \in n.table[i].keys <=> q \in m.table[i].keys
                                   /\ ~(q = ev.key /\ i = ev.old /\ ev.new # ev.old)

\* Detach takes the key from its old lease; a lease without keys goes.
LEMMA DetachTable ==
  ASSUME NEW m, SoundManager(m), NEW ev, ev.key \in Keys, ev.old \in Ids \cup {NoLease},
         NEW n, n = Detach(m, ev)
  PROVE  Detached(m, n, ev)
<1>1. CASE ev.old = NoLease \/ ev.new = ev.old
  <2>1. n = m
    BY <1>1 DEF Detach
  <2> QED
    BY <1>1, <2>1, LeaseAssumption DEF Detached
<1>2. CASE ev.old \in Ids /\ ev.new # ev.old /\ ~m.table[ev.old].there
  <2>1. n = m /\ m.table[ev.old].keys = {}
    BY <1>2 DEF Detach, EntriesOK, SoundManager
  <2> QED
    BY <2>1 DEF Detached
<1>3. CASE ev.old \in Ids /\ ev.new # ev.old /\ m.table[ev.old].there
  <2> DEFINE old == ev.old
             e == WithoutKey(m.table[old], ev.key)
  <2>1. m.table[old] \in Entry
    BY <1>3 DEF Manager, SoundManager
  <2>2. e \in Entry /\ (e.there \/ e.keys = {}) /\ e.keys = m.table[old].keys \ {ev.key}
    <3>1. CASE m.table[old].keys \ {ev.key} = {}
      BY <3>1 DEF Entry, NoEntry, WithoutKey
    <3>2. CASE m.table[old].keys \ {ev.key} # {}
      BY <1>3, <2>1, <3>2 DEF Entry, WithoutKey
    <3> QED
      BY <3>1, <3>2
  <2>3. old # NoLease
    BY <1>3, LeaseAssumption
  <2>4. n = Replace(m, old, e)
    BY <1>3, <2>3 DEF Detach, Replace
  <2> HIDE DEF e
  <2>5. Replaced(m, n, old, e)
    BY <1>3, <2>2, <2>4, EntryReplaced
  <2> QED
    BY <1>3, <2>2, <2>5 DEF Replaced, Detached
<1> QED
  BY <1>1, <1>2, <1>3

\* The table lists no key of another lease.
Theirs(m, val) == \A i \in Ids : \A q \in m.table[i].keys : val[q] = i

\* The key k is with its new lease and with no other, and the other keys stay.
Moved(m, n, val, k, new) ==
    /\ SoundManager(n) /\ Theirs(n, [val EXCEPT ![k] = new])
    /\ \A q \in Keys \ {k} : \A i \in Ids : Tracks(m, i, q) => Tracks(n, i, q)
    /\ new \in Ids /\ new = val[k] /\ Tracks(m, new, k) => Tracks(n, new, k)
    /\ new \in Ids /\ new # val[k] => Tracks(n, new, k)

\* A put or a delete of a key: the event of WriteKey is applied.
LEMMA KeyEvent ==
  ASSUME NEW m, SoundManager(m), NEW k \in Keys,
         NEW val \in [Keys -> Ids \cup {NoLease, Absent}], Theirs(m, val),
         NEW new \in Ids \cup {NoLease, Absent}, NEW ev,
         ev.type \notin {"grant", "revoke"}, ev.key = k,
         ev.new = (IF new = Absent THEN NoLease ELSE new),
         ev.old = (IF val[k] \in Ids THEN val[k] ELSE NoLease),
         NEW n, n = OnLogEvent(m, ev)
  PROVE  Moved(m, n, val, k, new)
<1> DEFINE a == Attach(m, ev)
<1>1. n = Detach(a, ev)
  BY DEF OnLogEvent
<1>2. ev.new \in Ids \cup {NoLease} /\ ev.old \in Ids \cup {NoLease} /\ ev.key \in Keys
  OBVIOUS
<1>3. Attached(m, a, ev)
  BY <1>2, AttachTable
<1> HIDE DEF a
<1>4. Detached(a, n, ev)
  BY <1>1, <1>2, <1>3, DetachTable DEF Attached
<1>5. n.queue = m.queue /\ SoundManager(n) /\ \A i \in Ids : \A q \in n.table[i].keys : q \in Keys
  BY <1>3, <1>4 DEF Manager, Entry, SoundManager, Attached, Detached
<1>6. \A i \in Ids, q \in Keys :
         q \in n.table[i].keys <=> /\ q \in m.table[i].keys \/ (q = k /\ i = ev.new /\ ev.new # ev.old)
                                  /\ ~(q = k /\ i = ev.old /\ ev.new # ev.old)
  BY <1>3, <1>4 DEF Attached, Detached
<1>7. \A i \in Ids : \A q \in Keys \ {k} : q \in n.table[i].keys <=> q \in m.table[i].keys
  BY <1>6
<1>8. ASSUME NEW i \in Ids, k \in n.table[i].keys
      PROVE  new = i
  <2>1. /\ k \in m.table[i].keys \/ (i = ev.new /\ ev.new # ev.old)
        /\ ~(i = ev.old /\ ev.new # ev.old)
    BY <1>6, <1>8
  <2>2. k \in m.table[i].keys => val[k] = i
    BY DEF Theirs
  <2> QED
    BY <2>1, <2>2, LeaseAssumption
<1>9. Theirs(n, [val EXCEPT ![k] = new])
  <2> SUFFICES ASSUME NEW i \in Ids, NEW q \in n.table[i].keys
               PROVE  [val EXCEPT ![k] = new][q] = i
    BY DEF Theirs
  <2>1. CASE q = k
    BY <1>8, <2>1
  <2>2. CASE q # k
    <3>1. q \in Keys /\ q \in m.table[i].keys
      BY <1>5, <1>7, <2>2
    <3> QED
      BY <2>2, <3>1 DEF Theirs
  <2> QED
    BY <2>1, <2>2
<1>10. \A q \in Keys \ {k} : \A i \in Ids : Tracks(m, i, q) => Tracks(n, i, q)
  BY <1>5, <1>7 DEF Tracks
<1>11. ASSUME new \in Ids, new = val[k], Tracks(m, new, k)
       PROVE  Tracks(n, new, k)
  <2>1. ev.new = new /\ ev.old = new
    BY <1>11, LeaseAssumption
  <2>2. k \in n.table[new].keys <=> k \in m.table[new].keys
    BY <1>6, <1>11, <2>1
  <2> QED
    BY <1>5, <1>11, <2>2 DEF Tracks
<1>12. ASSUME new \in Ids, new # val[k]
       PROVE  Tracks(n, new, k)
  <2>1. ev.new = new /\ ev.old # new
    BY <1>12, LeaseAssumption
  <2>2. k \in n.table[new].keys
    BY <1>6, <1>12, <2>1
  <2> QED
    BY <2>2 DEF Tracks
<1> QED
  BY <1>5, <1>9, <1>10, <1>11, <1>12 DEF Moved

\* What a push onto the deletion queue adds.
Queues == Seq([id : Ids, keys : SUBSET Keys])
Pushed(queue, longer, i, keys) ==
    /\ longer \in Queues /\ Len(queue) \in Nat /\ Len(longer) = Len(queue) + 1
    /\ \A x \in 1..Len(queue) : longer[x] = queue[x]
    /\ longer[Len(queue) + 1] = [id |-> i, keys |-> keys]

LEMMA PushQueue ==
  ASSUME NEW queue \in Queues, NEW i \in Ids, NEW keys \in SUBSET Keys
  PROVE  Pushed(queue, Push(queue, i, keys), i, keys)
  BY DEF Push, Pushed, Queues

\* What the queue held is still in it, and so is what was pushed.
LEMMA PushedTracks ==
  ASSUME NEW m, NEW n, NEW i \in Ids, NEW keys, Pushed(m.queue, n.queue, i, keys), NEW q
  PROVE  /\ q \in keys => Tracks(n, i, q)
         /\ \A j \in Ids : (\E x \in 1..Len(m.queue) : m.queue[x].id = j /\ q \in m.queue[x].keys)
                          => Tracks(n, j, q)
<1>1. ASSUME q \in keys
      PROVE  Tracks(n, i, q)
  <2> DEFINE last == Len(m.queue) + 1
  <2>1. last \in 1..Len(n.queue) /\ n.queue[last] = [id |-> i, keys |-> keys]
    BY DEF Pushed
  <2> HIDE DEF last
  <2>2. n.queue[last].id = i /\ q \in n.queue[last].keys
    BY <1>1, <2>1
  <2> QED
    BY <2>1, <2>2 DEF Tracks
<1>2. ASSUME NEW j \in Ids, NEW x \in 1..Len(m.queue), m.queue[x].id = j, q \in m.queue[x].keys
      PROVE  Tracks(n, j, q)
  <2>1. x \in 1..Len(n.queue) /\ n.queue[x] = m.queue[x]
    BY DEF Pushed
  <2> QED
    BY <1>2, <2>1 DEF Tracks
<1> QED
  BY <1>1, <1>2

\* No lease gets a key, and none is forgotten.
Keeps(m, n) ==
    /\ SoundManager(n) /\ \A j \in Ids : n.table[j].keys \subseteq m.table[j].keys
    /\ \A j \in Ids, q \in Keys : Tracks(m, j, q) => Tracks(n, j, q)

\* A lease that leaves the table is tracked by the queue.
LEMMA Retired ==
  ASSUME NEW m, SoundManager(m), NEW i \in Ids, NEW n, n = RetireLease(m, i)
  PROVE  Keeps(m, n)
<1> DEFINE keys == m.table[i].keys
<1>1. /\ m.table \in [Ids -> Entry] /\ m.expiring \in SUBSET Ids /\ m.table[i] \in Entry
      /\ m.queue \in Queues
  BY DEF Manager, SoundManager, Queues
<1>2. keys \in SUBSET Keys
  BY <1>1 DEF Entry
<1>3. NoEntry \in Entry /\ NoEntry.keys = {}
  BY DEF NoEntry, Entry
<1>4. /\ n.table = [m.table EXCEPT ![i] = NoEntry] /\ n.expiring = m.expiring \ {i}
      /\ n.queue = IF keys = {} THEN m.queue ELSE Push(m.queue, i, keys)
      /\ n = [table |-> n.table, expiring |-> n.expiring, queue |-> n.queue]
  BY DEF RetireLease
<1> HIDE DEF keys
<1>5. n.queue = m.queue \/ Pushed(m.queue, n.queue, i, keys)
  BY <1>1, <1>2, <1>4, PushQueue
<1>6. n.table \in [Ids -> Entry] /\ n.expiring \in SUBSET Ids /\ n.queue \in Queues
  <2>1. n.queue \in Queues
    BY <1>1, <1>5 DEF Pushed
  <2>2. n.table \in [Ids -> Entry] /\ n.expiring \in SUBSET Ids
    BY <1>1, <1>3, <1>4
  <2> QED
    BY <2>1, <2>2
<1>7. n \in Manager
  BY <1>4, <1>6 DEF Manager, Queues
<1>8. \A j \in Ids : n.table[j] = IF j = i THEN NoEntry ELSE m.table[j]
  BY <1>1, <1>4
<1>9. EntriesOK(n) /\ \A j \in Ids : n.table[j].keys \subseteq m.table[j].keys
  BY <1>3, <1>8 DEF EntriesOK, SoundManager
<1>10. ASSUME NEW j \in Ids, NEW q \in Keys, Tracks(m, j, q)
       PROVE  Tracks(n, j, q)
  <2>1. CASE \E x \in 1..Len(m.queue) : m.queue[x].id = j /\ q \in m.queue[x].keys
    <3>1. CASE n.queue = m.queue
      BY <2>1, <3>1 DEF Tracks
    <3>2. CASE Pushed(m.queue, n.queue, i, keys)
      BY <2>1, <3>2, PushedTracks, ZenonT(30)
    <3> QED
      BY <1>5, <3>1, <3>2
  <2>2. CASE q \in m.table[j].keys /\ j # i
    BY <1>8, <2>2 DEF Tracks
  <2>3. CASE q \in m.table[j].keys /\ j = i
    <3>1. q \in keys
      BY <2>3 DEF keys
    <3>2. Pushed(m.queue, n.queue, i, keys)
      BY <1>1, <1>2, <1>4, <3>1, PushQueue
    <3> QED
      BY <2>3, <3>1, <3>2, PushedTracks, ZenonT(30)
  <2> QED
    BY <1>10, <2>1, <2>2, <2>3 DEF Tracks
<1> QED
  BY <1>7, <1>9, <1>10 DEF Keeps, SoundManager

\* The record of a lease is put or deleted: its keys stay tracked.
LEMMA RecordEvent ==
  ASSUME NEW m, SoundManager(m), NEW ev, ev.type \in {"grant", "revoke"}, ev.id \in Ids,
         NEW n, n = OnLogEvent(m, ev)
  PROVE  Keeps(m, n)
<1>1. n = OnLeaseRecord(m, ev)
  BY DEF OnLogEvent
<1>2. CASE ev.type = "grant"
  <2> DEFINE e == GrantedLease(m.table[ev.id].keys)
  <2>1. m.table[ev.id] \in Entry
    BY DEF Manager, SoundManager
  <2>2. e \in Entry /\ e.there /\ e.keys = m.table[ev.id].keys
    BY <2>1, ZenonT(30) DEF GrantedLease, NoEntry, Entry
  <2>3. n = Replace(m, ev.id, e)
    BY <1>1, <1>2 DEF OnLeaseRecord, Replace
  <2> HIDE DEF e
  <2>4. Replaced(m, n, ev.id, e)
    BY <2>2, <2>3, EntryReplaced
  <2>5. SoundManager(n) /\ n.queue = m.queue /\ \A j \in Ids : n.table[j].keys = m.table[j].keys
    BY <2>2, <2>4 DEF Replaced
  <2> QED
    BY <2>5 DEF Keeps, Tracks
<1>3. CASE ev.type = "revoke" /\ m.table[ev.id].there
  <2>1. n = RetireLease(m, ev.id)
    BY <1>1, <1>3 DEF OnLeaseRecord
  <2> QED
    BY <2>1, Retired
<1>4. CASE ev.type = "revoke" /\ ~m.table[ev.id].there
  <2>1. n = m
    BY <1>1, <1>4 DEF OnLeaseRecord
  <2> QED
    BY <2>1 DEF Keeps
<1> QED
  BY <1>2, <1>3, <1>4

-----------------------------------------------------------------------------
(* Steps that write no key.                                                *)

\* What LeaseInv says of the two managers.
LEMMA Managers ==
  ASSUME LeaseInv
  PROVE  /\ lm \in Manager /\ SoundManager(lm) /\ SoundManager(replay.lm)
         /\ Theirs(lm, value) /\ Theirs(replay.lm, value)
         /\ replay \in [lm : Manager, record : RecordStates] /\ replay.record \in RecordStates
<1>1. lm \in Manager /\ replay \in [lm : Manager, record : RecordStates]
  BY ZenonT(30) DEF LeaseInv, TypeOK
<1>2. replay.lm \in Manager /\ replay.record \in RecordStates
  BY <1>1
<1>3. EntriesOK(lm) /\ EntriesOK(replay.lm)
  BY ZenonT(30) DEF LeaseInv, ReplayTracks, EntriesOK
<1>4. Theirs(lm, value) /\ Theirs(replay.lm, value)
  BY ZenonT(30) DEF LeaseInv, KeysAreTracked, TableKeysAreTheirs, ReplayTracks, Theirs
<1> QED
  BY <1>1, <1>2, <1>3, <1>4 DEF SoundManager

\* The running manager, with the deleter, loses track of no key.
Follows ==
    /\ SoundManager(lm') /\ \A i \in Ids : lm'.table[i].keys \subseteq lm.table[i].keys
    /\ \A i \in Ids, k \in Keys :
          Tracks(lm, i, k) \/ Removes(i, k) => Tracks(lm', i, k) \/ Removes(i, k)'

\* No key changes its lease, and no manager loses track of one.
LEMMA StillTracked ==
  ASSUME LeaseInv, value' = value, Follows, Keeps(replay.lm, replay'.lm)
  PROVE  KeysAreTracked' /\ ReplayTracks'
<1>1. AttachedIsTracked'
  BY ZenonT(30) DEF LeaseInv, KeysAreTracked, AttachedIsTracked, Removes, Follows
<1>2. TableKeysAreTheirs'
  BY ZenonT(30) DEF LeaseInv, KeysAreTracked, TableKeysAreTheirs, Follows
<1>3. ReplayTracks'
  BY ZenonT(30) DEF LeaseInv, ReplayTracks, EntriesOK, Follows, Keeps, SoundManager
<1> QED
  BY <1>1, <1>2, <1>3 DEF KeysAreTracked

\* A lease record is put or deleted.
LEMMA RecordCommitted ==
  ASSUME LeaseInv, NEW i \in Ids, NEW type \in {"grant", "revoke"},
         CommitEvent([type |-> type, id |-> i]), UNCHANGED <<value, deleting>>
  PROVE  /\ KeysAreTracked' /\ ReplayTracks' /\ lm' \in Manager /\ commits' \in Nat
         /\ replay' \in [lm : Manager, record : RecordStates]
<1> DEFINE ev == [type |-> type, id |-> i]
<1>1. /\ lm' = OnLogEvent(lm, ev) /\ commits' = commits + 1
      /\ replay' = [lm |-> OnLogEvent(replay.lm, ev), record |-> RecordAfter(replay.record, ev)]
  BY DEF CommitEvent
<1>2. ev.type \in {"grant", "revoke"} /\ ev.id \in Ids
  OBVIOUS
<1>3. RecordAfter(replay.record, ev) \in RecordStates
  BY Managers, <1>2 DEF RecordAfter, RecordStates
<1> HIDE DEF ev
<1>4. Keeps(lm, lm')
  BY <1>1, <1>2, Managers, RecordEvent
<1>5. replay'.lm = OnLogEvent(replay.lm, ev) /\ replay'.record = RecordAfter(replay.record, ev)
  BY <1>1
<1>6. Keeps(replay.lm, replay'.lm)
  BY <1>2, <1>5, Managers, RecordEvent
<1>7. lm' \in Manager /\ replay' \in [lm : Manager, record : RecordStates]
  <2>1. lm' \in Manager /\ replay'.lm \in Manager
    BY <1>4, <1>6 DEF Keeps, SoundManager
  <2> QED
    BY <1>1, <1>3, <1>5, <2>1
<1>8. Follows
  BY <1>4 DEF Follows, Keeps, Removes
<1>9. KeysAreTracked' /\ ReplayTracks'
  BY <1>6, <1>8, StillTracked
<1>10. commits' \in Nat
  BY <1>1 DEF LeaseInv, TypeOK
<1> QED
  BY <1>7, <1>9, <1>10

\* The log does not change.
LEMMA ManagerChanged ==
  ASSUME LeaseInv, UNCHANGED <<value, log>>, Follows
  PROVE  KeysAreTracked' /\ ReplayTracks'
<1>1. replay' = replay
  BY DEF log
<1>2. Keeps(replay.lm, replay'.lm)
  BY <1>1, Managers DEF Keeps
<1> QED
  BY <1>2, StillTracked

\* Only times, marks and what the model counts change.
LEMMA OnlyMarks ==
  ASSUME LeaseInv, UNCHANGED <<value, log, deleting>>, lm' \in Manager, lm'.queue = lm.queue,
         \A i \in Ids : lm'.table[i].keys = lm.table[i].keys /\ lm'.table[i].there = lm.table[i].there
  PROVE  KeysAreTracked' /\ ReplayTracks'
<1>1. SoundManager(lm')
  BY Managers DEF EntriesOK, SoundManager
<1>2. Follows
  BY <1>1, ZenonT(30) DEF Follows, Tracks, Removes
<1> QED
  BY <1>2, ManagerChanged

-----------------------------------------------------------------------------
(* Writing a key.                                                          *)

\* A key is put or deleted.  If the deleter does it, it is done with the key.
LEMMA KeyWritten ==
  ASSUME LeaseInv, NEW k \in Keys, NEW new \in Ids \cup {NoLease, Absent}, NEW ops,
         WriteKey(k, new, ops),
         \A i \in Ids, q \in Keys : Removes(i, q) => Removes(i, q)' \/ (q = k /\ new = Absent)
  PROVE  /\ KeysAreTracked' /\ ReplayTracks' /\ lm' \in Manager /\ commits' \in Nat
         /\ replay' \in [lm : Manager, record : RecordStates]
         /\ value' \in [Keys -> Ids \cup {NoLease, Absent}]
<1> DEFINE ev == [type |-> IF new = Absent THEN "delete" ELSE "put", key |-> k,
                  new |-> IF new = Absent THEN NoLease ELSE new, old |-> LeaseOf(k)]
<1>1. /\ lm' = OnLogEvent(lm, ev) /\ commits' = commits + 1
      /\ replay' = [lm |-> OnLogEvent(replay.lm, ev), record |-> RecordAfter(replay.record, ev)]
      /\ value' = [value EXCEPT ![k] = new]
  BY DEF WriteKey, CommitEvent
<1>2. /\ ev.type \notin {"grant", "revoke"} /\ ev.key = k
      /\ ev.new = (IF new = Absent THEN NoLease ELSE new)
      /\ ev.old = (IF value[k] \in Ids THEN value[k] ELSE NoLease)
  BY DEF LeaseOf
<1>3. RecordAfter(replay.record, ev) = replay.record
  BY DEF RecordAfter
<1> HIDE DEF ev
<1>4. value \in [Keys -> Ids \cup {NoLease, Absent}] /\ commits \in Nat
  BY ZenonT(30) DEF LeaseInv, TypeOK
<1>5. Moved(lm, lm', value, k, new)
  BY <1>1, <1>2, <1>4, Managers, KeyEvent, ZenonT(30)
<1>6. replay'.lm = OnLogEvent(replay.lm, ev) /\ replay'.record = replay.record
  BY <1>1, <1>3
<1>7. Moved(replay.lm, replay'.lm, value, k, new)
  BY <1>2, <1>4, <1>6, Managers, KeyEvent, ZenonT(30)
<1>8. /\ value' \in [Keys -> Ids \cup {NoLease, Absent}] /\ commits' \in Nat /\ value'[k] = new
      /\ \A q \in Keys \ {k} : value'[q] = value[q]
  BY <1>1, <1>4
<1>9. lm' \in Manager /\ replay' \in [lm : Manager, record : RecordStates]
  <2>1. lm' \in Manager /\ replay'.lm \in Manager
    BY <1>5, <1>7, ZenonT(30) DEF Moved, SoundManager
  <2> QED
    BY <1>1, <1>3, <1>6, <2>1, Managers
<1>10. ASSUME NEW q \in Keys, NEW i \in Ids, value'[q] = i
       PROVE  Tracks(lm', i, q) \/ Removes(i, q)'
  <2>1. value[q] = i => Tracks(lm, i, q) \/ Removes(i, q)
    BY DEF LeaseInv, KeysAreTracked, AttachedIsTracked
  <2>2. CASE q # k
    <3>1. value[q] = i
      BY <1>8, <1>10, <2>2
    <3> QED
      BY <1>5, <2>1, <2>2, <3>1 DEF Moved
  <2>3. CASE q = k /\ i = value[k]
    <3>1. new = i /\ new # Absent
      BY <1>8, <1>10, <2>3, LeaseAssumption
    <3> QED
      BY <1>5, <2>1, <2>3, <3>1 DEF Moved
  <2>4. CASE q = k /\ i # value[k]
    BY <1>5, <1>8, <1>10, <2>4 DEF Moved
  <2> QED
    BY <2>2, <2>3, <2>4
<1>11. ASSUME NEW q \in Keys, NEW i \in Ids, value'[q] = i
       PROVE  Tracks(replay'.lm, i, q)
  <2>1. value[q] = i => Tracks(replay.lm, i, q)
    BY DEF LeaseInv, ReplayTracks
  <2>2. CASE q # k
    <3>1. value[q] = i
      BY <1>8, <1>11, <2>2
    <3> QED
      BY <1>7, <2>1, <2>2, <3>1 DEF Moved
  <2>3. CASE q = k
    <3>1. new = i
      BY <1>8, <1>11, <2>3
    <3> QED
      BY <1>7, <2>1, <2>3, <3>1 DEF Moved
  <2> QED
    BY <2>2, <2>3
<1>12. Theirs(lm', value') /\ Theirs(replay'.lm, value') /\ EntriesOK(lm') /\ EntriesOK(replay'.lm)
  BY <1>1, <1>5, <1>7 DEF Moved, SoundManager
<1>13. KeysAreTracked'
  BY <1>10, <1>12, ZenonT(30) DEF KeysAreTracked, AttachedIsTracked, TableKeysAreTheirs, Theirs, Removes
<1>14. ReplayTracks'
  BY <1>11, <1>12, ZenonT(30) DEF ReplayTracks, EntriesOK, Theirs
<1> QED
  BY <1>8, <1>9, <1>13, <1>14

-----------------------------------------------------------------------------
(* The actions.                                                            *)

\* A check changes the operations in flight only.
LEMMA CheckStep ==
  ASSUME LeaseInv,
         UNCHANGED <<log, record, value, lm, todo, retiring, deleting, status, failures, restarts>>
  PROVE  LeaseInv'
<1>1. TypeOK'
  BY ZenonT(30) DEF LeaseInv, TypeOK, log
<1>2. KeysAreTracked' /\ ReplayTracks'
  BY Managers, OnlyMarks
<1> QED
  BY <1>1, <1>2 DEF LeaseInv

LEMMA CompactTombstoneStep ==
  ASSUME LeaseInv, NEW i \in Ids, CompactTombstone(i)
  PROVE  LeaseInv'
<1> USE DEF CompactTombstone
<1>1. record' \in RecordStates
  <2>1. record \in RecordStates
    BY DEF LeaseInv, TypeOK
  <2> QED
    BY <2>1 DEF RecordStates
<1>2. TypeOK'
  BY <1>1, ZenonT(30) DEF LeaseInv, TypeOK, log
<1>3. KeysAreTracked' /\ ReplayTracks'
  BY Managers, OnlyMarks
<1> QED
  BY <1>2, <1>3 DEF LeaseInv

LEMMA LeaseGrantCommitStep ==
  ASSUME LeaseInv, NEW i \in Ids, LeaseGrantCommit(i)
  PROVE  LeaseInv'
<1>1. /\ CommitEvent([type |-> "grant", id |-> i]) /\ record' = [record EXCEPT ![i] = "put"]
      /\ UNCHANGED <<value, todo, retiring, deleting, status, failures, restarts>>
  BY DEF LeaseGrantCommit
<1>2. record' \in RecordStates
  <2>1. record \in RecordStates
    BY DEF LeaseInv, TypeOK
  <2> QED
    BY <1>1, <2>1 DEF RecordStates
<1>3. /\ KeysAreTracked' /\ ReplayTracks' /\ lm' \in Manager /\ commits' \in Nat
      /\ replay' \in [lm : Manager, record : RecordStates]
  BY <1>1, RecordCommitted, ZenonT(30)
<1>4. TypeOK'
  BY <1>1, <1>2, <1>3, ZenonT(30) DEF LeaseInv, TypeOK
<1> QED
  BY <1>3, <1>4 DEF LeaseInv

\* The deletion of a record, whatever it finds.
LEMMA RecordDeleted ==
  ASSUME LeaseInv, NEW i \in Ids, DeleteRecord(i), UNCHANGED <<value, deleting>>
  PROVE  /\ KeysAreTracked' /\ ReplayTracks' /\ lm' \in Manager /\ commits' \in Nat
         /\ replay' \in [lm : Manager, record : RecordStates]
         /\ record' \in RecordStates /\ status' \in {"up", "fatal"}
<1>1. /\ record \in RecordStates /\ status \in {"up", "fatal"} /\ commits \in Nat
      /\ lm \in Manager /\ replay \in [lm : Manager, record : RecordStates]
  BY ZenonT(30) DEF LeaseInv, TypeOK
<1>2. CASE UNCHANGED <<log, lm, record>> /\ status' \in {status, "fatal"}
  <2>1. KeysAreTracked' /\ ReplayTracks'
    BY <1>2, Managers, OnlyMarks
  <2> QED
    BY <1>1, <1>2, <2>1, ZenonT(30) DEF log
<1>3. CASE /\ CommitEvent([type |-> "revoke", id |-> i]) /\ UNCHANGED status
           /\ record' = [record EXCEPT ![i] = "tombstone"]
  <2>1. record' \in RecordStates
    BY <1>1, <1>3 DEF RecordStates
  <2>2. /\ KeysAreTracked' /\ ReplayTracks' /\ lm' \in Manager /\ commits' \in Nat
        /\ replay' \in [lm : Manager, record : RecordStates]
    BY <1>3, RecordCommitted, ZenonT(30)
  <2> QED
    BY <1>1, <1>3, <2>1, <2>2, ZenonT(30)
<1> QED
  BY <1>2, <1>3, ZenonT(30) DEF DeleteRecord

LEMMA LeaseRevokeCommitStep ==
  ASSUME LeaseInv, NEW i \in Ids, LeaseRevokeCommit(i)
  PROVE  LeaseInv'
<1>1. DeleteRecord(i) /\ UNCHANGED <<value, todo, retiring, deleting, failures, restarts>>
  BY DEF LeaseRevokeCommit
<1>2. /\ KeysAreTracked' /\ ReplayTracks' /\ lm' \in Manager /\ commits' \in Nat
      /\ replay' \in [lm : Manager, record : RecordStates]
      /\ record' \in RecordStates /\ status' \in {"up", "fatal"}
  BY <1>1, RecordDeleted
<1>3. TypeOK'
  BY <1>1, <1>2, ZenonT(30) DEF LeaseInv, TypeOK
<1> QED
  BY <1>2, <1>3 DEF LeaseInv

LEMMA ExpireStep ==
  ASSUME LeaseInv, NEW i \in Ids, Expire(i)
  PROVE  LeaseInv'
<1>1. /\ DeleteRecord(i) /\ UNCHANGED <<value, deleting, failures, restarts>>
      /\ todo' = todo \ {i} /\ retiring' \in {{i}, {}}
  BY DEF Expire
<1>2. /\ KeysAreTracked' /\ ReplayTracks' /\ lm' \in Manager /\ commits' \in Nat
      /\ replay' \in [lm : Manager, record : RecordStates]
      /\ record' \in RecordStates /\ status' \in {"up", "fatal"}
  BY <1>1, RecordDeleted
<1>3. todo' \in SUBSET Ids /\ retiring' \in SUBSET Ids
  BY <1>1, ZenonT(30) DEF LeaseInv, TypeOK
<1>4. TypeOK'
  BY <1>1, <1>2, <1>3, ZenonT(30) DEF LeaseInv, TypeOK
<1> QED
  BY <1>2, <1>4 DEF LeaseInv

\* LeaseKeepAlive and the passing of time set a lease's due mark.
LEMMA DueStep ==
  ASSUME LeaseInv, NEW i \in Ids, NEW d \in BOOLEAN, lm' = [lm EXCEPT !.table[i].due = d],
         UNCHANGED <<log, record, value, todo, retiring, deleting, status, failures, restarts>>
  PROVE  LeaseInv'
<1>1. lm.table[i] \in Entry
  BY Managers DEF Manager
<1> DEFINE e == [lm.table[i] EXCEPT !.due = d]
<1>2. e \in Entry /\ e.keys = lm.table[i].keys /\ e.there = lm.table[i].there
  BY <1>1 DEF Entry
<1>3. e.there \/ e.keys = {}
  BY <1>2, Managers DEF SoundManager, EntriesOK
<1>4. lm' = Replace(lm, i, e)
  BY DEF Replace
<1> HIDE DEF e
<1>5. /\ lm' \in Manager /\ lm'.queue = lm.queue
      /\ \A j \in Ids : lm'.table[j].keys = lm.table[j].keys /\ lm'.table[j].there = lm.table[j].there
  <2>1. Replaced(lm, lm', i, e)
    BY <1>2, <1>3, <1>4, Managers, EntryReplaced
  <2> QED
    BY <1>2, <2>1 DEF Replaced, SoundManager
<1>6. KeysAreTracked' /\ ReplayTracks'
  BY <1>5, OnlyMarks
<1>7. TypeOK'
  BY <1>5, ZenonT(30) DEF LeaseInv, TypeOK, log
<1> QED
  BY <1>6, <1>7 DEF LeaseInv

\* checkExpiredOnce marks leases, and unmarks one whose deletion failed.
LEMMA ExpiringStep ==
  ASSUME LeaseInv, NEW expiring \in SUBSET Ids, lm' = [lm EXCEPT !.expiring = expiring],
         todo' \in SUBSET Ids, failures' \in Nat,
         UNCHANGED <<log, record, value, retiring, deleting, status, restarts>>
  PROVE  LeaseInv'
<1>1. lm' \in Manager /\ lm'.queue = lm.queue /\ lm'.table = lm.table
  BY Managers, ZenonT(30) DEF Manager
<1>2. KeysAreTracked' /\ ReplayTracks'
  BY <1>1, OnlyMarks
<1>3. TypeOK'
  BY <1>1, ZenonT(30) DEF LeaseInv, TypeOK, log
<1> QED
  BY <1>2, <1>3 DEF LeaseInv

LEMMA CheckExpiredStep ==
  ASSUME LeaseInv, CheckExpired
  PROVE  LeaseInv'
<1>1. Expired \in SUBSET Ids
  BY DEF Expired
<1>2. lm.expiring \cup Expired \in SUBSET Ids
  BY <1>1, Managers DEF Manager
<1>3. /\ lm' = [lm EXCEPT !.expiring = lm.expiring \cup Expired] /\ todo' = Expired
      /\ UNCHANGED <<log, record, value, retiring, deleting, status, failures, restarts>>
  BY DEF CheckExpired
<1>4. failures' \in Nat
  BY <1>3 DEF LeaseInv, TypeOK
<1> QED
  BY <1>1, <1>2, <1>3, <1>4, ExpiringStep

LEMMA ExpireFailsStep ==
  ASSUME LeaseInv, NEW i \in Ids, ExpireFails(i)
  PROVE  LeaseInv'
<1>1. lm.expiring \ {i} \in SUBSET Ids
  BY Managers DEF Manager
<1>2. /\ lm' = [lm EXCEPT !.expiring = lm.expiring \ {i}] /\ todo' = todo \ {i}
      /\ failures' = failures + 1
      /\ UNCHANGED <<log, record, value, retiring, deleting, status, restarts>>
  BY DEF ExpireFails
<1>3. todo \in SUBSET Ids /\ failures \in Nat
  BY ZenonT(30) DEF LeaseInv, TypeOK
<1>4. todo' \in SUBSET Ids /\ failures' \in Nat
  BY <1>2, <1>3
<1> QED
  BY <1>1, <1>2, <1>4, ExpiringStep

LEMMA ExpirePlaceholderStep ==
  ASSUME LeaseInv, NEW i \in Ids, ExpirePlaceholder(i)
  PROVE  LeaseInv'
<1>1. /\ lm' = IF HasLease(i) THEN RetireLease(lm, i) ELSE lm
      /\ retiring' = {}
      /\ UNCHANGED <<log, record, value, todo, deleting, status, failures, restarts>>
  BY DEF ExpirePlaceholder
<1>2. Keeps(lm, lm')
  <2>1. CASE HasLease(i)
    BY <1>1, <2>1, Managers, Retired
  <2>2. CASE ~HasLease(i)
    BY <1>1, <2>2, Managers DEF Keeps
  <2> QED
    BY <2>1, <2>2
<1>3. Follows /\ lm' \in Manager
  BY <1>1, <1>2 DEF Follows, Keeps, Removes, SoundManager
<1>4. KeysAreTracked' /\ ReplayTracks'
  BY <1>1, <1>3, ManagerChanged
<1>5. TypeOK'
  BY <1>1, <1>3, ZenonT(30) DEF LeaseInv, TypeOK, log
<1> QED
  BY <1>4, <1>5 DEF LeaseInv

\* The puts and the deletes of clients.
LEMMA ClientWriteStep ==
  ASSUME LeaseInv, NEW k \in Keys, NEW new \in Ids \cup {NoLease, Absent},
         WriteKey(k, new, inflight),
         UNCHANGED <<todo, retiring, deleting, status, failures, restarts>>
  PROVE  LeaseInv'
<1>1. \A i \in Ids, q \in Keys : Removes(i, q) => Removes(i, q)'
  BY DEF Removes
<1>2. /\ KeysAreTracked' /\ ReplayTracks' /\ lm' \in Manager /\ commits' \in Nat
      /\ replay' \in [lm : Manager, record : RecordStates]
      /\ value' \in [Keys -> Ids \cup {NoLease, Absent}]
  BY <1>1, KeyWritten, ZenonT(30)
<1>3. record' = record
  BY DEF WriteKey
<1>4. TypeOK'
  BY <1>2, <1>3, ZenonT(30) DEF LeaseInv, TypeOK
<1> QED
  BY <1>2, <1>4 DEF LeaseInv

-----------------------------------------------------------------------------
(* processDeletionQueue.                                                   *)

\* The lease at the head of the queue passes to the deleter.
LEMMA TakeLeaseStep ==
  ASSUME LeaseInv, TakeLease
  PROVE  LeaseInv'
<1> DEFINE h == Head(lm.queue)
<1>1. /\ deleting' = [id |-> h.id, all |-> h.keys, keys |-> h.keys, failed |-> FALSE]
      /\ lm' = [lm EXCEPT !.queue = Tail(lm.queue)] /\ lm.queue # <<>> /\ deleting = Nobody
      /\ UNCHANGED <<log, record, value, todo, retiring, status, failures, restarts>>
  BY DEF TakeLease
<1>2. lm.queue \in Queues
  BY Managers DEF Manager, Queues
<1>3. /\ h = lm.queue[1] /\ h \in [id : Ids, keys : SUBSET Keys]
      /\ Tail(lm.queue) \in Queues
      /\ Len(lm.queue) \in Nat /\ Len(Tail(lm.queue)) = Len(lm.queue) - 1
      /\ \A n \in 1..Len(Tail(lm.queue)) : Tail(lm.queue)[n] = lm.queue[n + 1]
  <2> DEFINE Items == [id : Ids, keys : SUBSET Keys]
  <2>1. lm.queue \in Seq(Items) /\ lm.queue # <<>>
    BY <1>1, <1>2 DEF Queues
  <2> HIDE DEF Items
  <2>2. /\ h = lm.queue[1] /\ h \in Items /\ Tail(lm.queue) \in Seq(Items)
        /\ Len(lm.queue) \in Nat /\ Len(Tail(lm.queue)) = Len(lm.queue) - 1
        /\ \A n \in 1..Len(Tail(lm.queue)) : Tail(lm.queue)[n] = lm.queue[n + 1]
    BY <2>1
  <2> QED
    BY <2>2 DEF Items, Queues
<1> HIDE DEF h
<1>4. lm' \in Manager /\ lm'.table = lm.table /\ lm'.queue = Tail(lm.queue)
  BY <1>1, <1>3, Managers, ZenonT(30) DEF Manager, Queues
<1>5. SoundManager(lm') /\ \A i \in Ids : lm'.table[i].keys \subseteq lm.table[i].keys
  BY <1>4, Managers DEF EntriesOK, SoundManager
<1>6. ASSUME NEW i \in Ids, NEW k \in Keys
      PROVE  Tracks(lm, i, k) \/ Removes(i, k) => Tracks(lm', i, k) \/ Removes(i, k)'
  <2>1. ~Removes(i, k)
    BY <1>1, LeaseAssumption DEF Removes, Nobody
  <2>2. CASE k \in lm.table[i].keys
    BY <1>4, <2>2 DEF Tracks
  <2>3. ASSUME NEW n \in 1..Len(lm.queue), lm.queue[n].id = i, k \in lm.queue[n].keys
        PROVE  Tracks(lm', i, k) \/ Removes(i, k)'
    <3>1. CASE n = 1
      <4>1. h.id = i /\ k \in h.keys
        BY <1>3, <2>3, <3>1
      <4>2. deleting'.id = i /\ k \in deleting'.keys /\ deleting'.failed = FALSE
        BY <1>1, <4>1
      <4> QED
        BY <4>2 DEF Removes
    <3>2. CASE n # 1
      <4>1. n - 1 \in 1..Len(Tail(lm.queue)) /\ (n - 1) + 1 = n
        BY <1>3, <3>2
      <4>2. lm'.queue[n - 1] = lm.queue[n] /\ n - 1 \in 1..Len(lm'.queue)
        BY <1>3, <1>4, <4>1
      <4> QED
        BY <2>3, <4>2 DEF Tracks
    <3> QED
      BY <3>1, <3>2
  <2> QED
    BY <2>1, <2>2, <2>3, ZenonT(30) DEF Tracks
<1>7. KeysAreTracked' /\ ReplayTracks'
  <2>1. Follows
    BY <1>5, <1>6 DEF Follows
  <2> QED
    BY <1>1, <2>1, ManagerChanged
<1>8. deleting' \in Deletion \cup {Nobody} /\ deleting'.keys \subseteq deleting'.all
  BY <1>1, <1>3 DEF Deletion
<1>9. TypeOK'
  BY <1>1, <1>4, <1>8, ZenonT(30) DEF LeaseInv, TypeOK, log
<1> QED
  BY <1>7, <1>9 DEF LeaseInv

\* Nobody has no keys.
LEMMA BusyDeletion ==
  ASSUME LeaseInv, deleting # Nobody \/ deleting.keys # {}
  PROVE  deleting \in Deletion
<1>1. deleting \in Deletion \cup {Nobody}
  BY ZenonT(30) DEF LeaseInv, TypeOK
<1> QED
  BY <1>1 DEF Nobody

\* A key is taken from those to delete.
LEMMA DeletionNarrowed ==
  ASSUME LeaseInv, NEW k \in deleting.keys, NEW f \in BOOLEAN, deleting.failed => f,
         deleting' = [deleting EXCEPT !.keys = @ \ {k}, !.failed = f]
  PROVE  /\ deleting' \in Deletion \cup {Nobody} /\ deleting'.keys \subseteq deleting'.all
         /\ \A i \in Ids, q \in Keys : Removes(i, q) => Removes(i, q)' \/ (q = k /\ ~f)
<1>1. deleting \in Deletion /\ deleting.keys \subseteq deleting.all
  BY BusyDeletion, ZenonT(30) DEF LeaseInv, TypeOK, Nobody
<1>2. /\ deleting' \in Deletion /\ deleting'.id = deleting.id /\ deleting'.all = deleting.all
      /\ deleting'.keys = deleting.keys \ {k} /\ deleting'.failed = f
  BY <1>1, ZenonT(30) DEF Deletion
<1> QED
  BY <1>1, <1>2 DEF Removes

LEMMA DeleteKeyStep ==
  ASSUME LeaseInv, NEW k \in Keys, DeleteKey(k)
  PROVE  LeaseInv'
<1>1. /\ deleting' = [deleting EXCEPT !.keys = @ \ {k}] /\ k \in deleting.keys
      /\ UNCHANGED <<todo, retiring, status, failures, restarts>>
  BY DEF DeleteKey
<1>2. deleting \in Deletion
  BY <1>1, BusyDeletion
<1>3. deleting' = [deleting EXCEPT !.keys = @ \ {k}, !.failed = deleting.failed]
  BY <1>1, <1>2, ZenonT(30) DEF Deletion
<1>4. deleting.failed \in BOOLEAN
  BY <1>2, ZenonT(30) DEF Deletion
<1>5. /\ deleting' \in Deletion \cup {Nobody} /\ deleting'.keys \subseteq deleting'.all
      /\ \A i \in Ids, q \in Keys : Removes(i, q) => Removes(i, q)' \/ (q = k /\ ~deleting.failed)
  BY <1>1, <1>3, <1>4, DeletionNarrowed, ZenonT(30)
<1>6. CASE value[k] = deleting.id
  <2>1. WriteKey(k, Absent, inflight)
    BY <1>6 DEF DeleteKey
  <2>2. \A i \in Ids, q \in Keys : Removes(i, q) => Removes(i, q)' \/ q = k
    BY <1>5
  <2>3. /\ KeysAreTracked' /\ ReplayTracks' /\ lm' \in Manager /\ commits' \in Nat
        /\ replay' \in [lm : Manager, record : RecordStates]
        /\ value' \in [Keys -> Ids \cup {NoLease, Absent}]
    BY <2>1, <2>2, KeyWritten, ZenonT(30)
  <2>4. record' = record
    BY <2>1 DEF WriteKey
  <2>5. TypeOK'
    BY <1>1, <1>5, <2>3, <2>4, ZenonT(30) DEF LeaseInv, TypeOK
  <2> QED
    BY <2>3, <2>5 DEF LeaseInv
<1>7. CASE value[k] # deleting.id
  <2>1. UNCHANGED <<log, record, value, lm>>
    BY <1>7 DEF DeleteKey
  <2>2. \A q \in Keys, i \in Ids : value[q] = i /\ Removes(i, q) => Removes(i, q)'
    BY <1>5, <1>7 DEF Removes
  <2>3. AttachedIsTracked'
    BY <2>1, <2>2, ZenonT(30) DEF LeaseInv, KeysAreTracked, AttachedIsTracked, Removes
  <2>4. TableKeysAreTheirs' /\ ReplayTracks'
    BY <2>1, ZenonT(30) DEF LeaseInv, KeysAreTracked, TableKeysAreTheirs, ReplayTracks, log
  <2>5. TypeOK'
    BY <1>1, <1>5, <2>1, ZenonT(30) DEF LeaseInv, TypeOK, log
  <2> QED
    BY <2>3, <2>4, <2>5 DEF LeaseInv, KeysAreTracked
<1> QED
  BY <1>6, <1>7

LEMMA DeleteKeyFailsStep ==
  ASSUME LeaseInv, NEW k \in Keys, DeleteKeyFails(k)
  PROVE  LeaseInv'
<1>1. /\ deleting' = [deleting EXCEPT !.keys = @ \ {k}, !.failed = TRUE] /\ failures' = failures + 1
      /\ k \in deleting.keys
      /\ UNCHANGED <<log, record, value, lm, todo, retiring, status, restarts>>
  BY DEF DeleteKeyFails
<1>2. /\ deleting' \in Deletion \cup {Nobody} /\ deleting'.keys \subseteq deleting'.all
      /\ \A i \in Ids, q \in Keys : Removes(i, q) => Removes(i, q)'
  BY <1>1, DeletionNarrowed, ZenonT(30)
<1>3. KeysAreTracked' /\ ReplayTracks'
  <2>1. Follows
    BY <1>1, <1>2, Managers DEF Follows
  <2> QED
    BY <1>1, <2>1, ManagerChanged
<1>4. failures' \in Nat
  BY <1>1 DEF LeaseInv, TypeOK
<1>5. TypeOK'
  BY <1>1, <1>2, <1>4, ZenonT(30) DEF LeaseInv, TypeOK, log
<1> QED
  BY <1>3, <1>5 DEF LeaseInv

\* A lease with failures goes back to the queue with all its keys; without
\* failures it has no keys left.
LEMMA LeaseDoneStep ==
  ASSUME LeaseInv, LeaseDone
  PROVE  LeaseInv'
<1>1. /\ deleting.keys = {} /\ deleting # Nobody /\ deleting' = Nobody
      /\ lm' = IF deleting.failed
               THEN [lm EXCEPT !.queue = Push(lm.queue, deleting.id, deleting.all)] ELSE lm
      /\ UNCHANGED <<log, record, value, todo, retiring, status, failures, restarts>>
  BY DEF LeaseDone
<1>2. deleting \in Deletion
  BY <1>1, BusyDeletion
<1>3. deleting' \in Deletion \cup {Nobody} /\ deleting'.keys \subseteq deleting'.all
  BY <1>1 DEF Nobody
<1>4. /\ lm' \in Manager /\ lm'.table = lm.table
      /\ \A i \in Ids, k \in Keys : Tracks(lm, i, k) \/ Removes(i, k) => Tracks(lm', i, k)
  <2>1. CASE deleting.failed
    <3>1. deleting.id \in Ids /\ deleting.all \in SUBSET Keys
      BY <1>2 DEF Deletion
    <3>2. lm.queue \in Queues
      BY Managers DEF Manager, Queues
    <3> DEFINE longer == Push(lm.queue, deleting.id, deleting.all)
    <3>3. Pushed(lm.queue, longer, deleting.id, deleting.all)
      BY <3>1, <3>2, PushQueue
    <3>4. lm' = [lm EXCEPT !.queue = longer]
      BY <1>1, <2>1
    <3> HIDE DEF longer
    <3>5. lm' \in Manager /\ lm'.table = lm.table /\ lm'.queue = longer
      <4>1. longer \in Queues
        BY <3>3 DEF Pushed
      <4> QED
        BY <3>4, <4>1, Managers, ZenonT(30) DEF Manager, Queues
    <3>6. ASSUME NEW i \in Ids, NEW k \in Keys, Tracks(lm, i, k) \/ Removes(i, k)
          PROVE  Tracks(lm', i, k)
      <4>1. CASE Removes(i, k)
        <5>1. deleting.id = i /\ k \in deleting.all
          BY <2>1, <4>1 DEF Removes
        <5> QED
          BY <3>1, <3>3, <3>5, <5>1, PushedTracks, ZenonT(30)
      <4>2. CASE k \in lm.table[i].keys
        BY <3>5, <4>2 DEF Tracks
      <4>3. CASE \E x \in 1..Len(lm.queue) : lm.queue[x].id = i /\ k \in lm.queue[x].keys
        BY <3>1, <3>3, <3>5, <4>3, PushedTracks, ZenonT(30)
      <4> QED
        BY <3>6, <4>1, <4>2, <4>3 DEF Tracks
    <3> QED
      BY <3>5, <3>6
  <2>2. CASE ~deleting.failed
    <3>1. lm' = lm
      BY <1>1, <2>2
    <3>2. \A i \in Ids, k \in Keys : ~Removes(i, k)
      BY <1>1, <2>2 DEF Removes
    <3> QED
      BY <3>1, <3>2, Managers
  <2> QED
    BY <2>1, <2>2
<1>5. SoundManager(lm') /\ \A i \in Ids : lm'.table[i].keys \subseteq lm.table[i].keys
  BY <1>4, Managers DEF EntriesOK, SoundManager
<1>6. KeysAreTracked' /\ ReplayTracks'
  <2>1. Follows
    BY <1>4, <1>5 DEF Follows
  <2> QED
    BY <1>1, <2>1, ManagerChanged
<1>7. TypeOK'
  BY <1>1, <1>3, <1>4, ZenonT(30) DEF LeaseInv, TypeOK, log
<1> QED
  BY <1>6, <1>7 DEF LeaseInv

\* A restart has what the replay builds, and no deletion under way.
LEMMA RestartStep ==
  ASSUME LeaseInv, Restart
  PROVE  LeaseInv'
<1>1. /\ lm' = replay.lm /\ record' = replay.record /\ replay' = replay /\ value' = value
      /\ commits' = commits /\ todo' = {} /\ retiring' = {} /\ deleting' = Nobody
      /\ status' = "up" /\ restarts' = restarts + 1 /\ failures' = failures
  BY DEF Restart, log
<1>2. ReplayTracks'
  BY <1>1, ZenonT(30) DEF LeaseInv, ReplayTracks
<1>3. KeysAreTracked'
  BY <1>1, ZenonT(30) DEF LeaseInv, ReplayTracks, KeysAreTracked, AttachedIsTracked, TableKeysAreTheirs
<1>4. deleting' \in Deletion \cup {Nobody} /\ deleting'.keys \subseteq deleting'.all
  BY <1>1 DEF Nobody
<1>5. restarts' \in Nat
  BY <1>1 DEF LeaseInv, TypeOK
<1>6. TypeOK'
  BY <1>1, <1>4, <1>5, Managers, ZenonT(30) DEF LeaseInv, TypeOK
<1> QED
  BY <1>2, <1>3, <1>6 DEF LeaseInv

-----------------------------------------------------------------------------
LEMMA InitLeaseInv ==
  ASSUME Init
  PROVE  LeaseInv
<1>1. NoEntry \in Entry /\ NoEntry.keys = {}
  BY DEF NoEntry, Entry
<1>2. /\ Empty.table = [i \in Ids |-> NoEntry] /\ Empty.queue = <<>> /\ Empty.expiring = {}
      /\ Empty = [table |-> Empty.table, expiring |-> Empty.expiring, queue |-> Empty.queue]
  BY ZenonT(30) DEF Empty
<1>3. Empty \in Manager
  <2> DEFINE Items == [id : Ids, keys : SUBSET Keys]
  <2>1. Empty.queue \in Seq(Items)
    BY <1>2
  <2>2. Empty.table \in [Ids -> Entry] /\ Empty.expiring \in SUBSET Ids
    BY <1>1, <1>2
  <2> QED
    BY <1>2, <2>1, <2>2, ZenonT(30) DEF Manager
<1>4. \A i \in Ids : Empty.table[i].keys = {}
  BY <1>1, <1>2
<1>5. /\ lm = Empty /\ replay.lm = Empty /\ \A k \in Keys : value[k] \notin Ids
  BY LeaseAssumption DEF Init
<1>6. KeysAreTracked
  BY <1>4, <1>5 DEF KeysAreTracked, AttachedIsTracked, TableKeysAreTheirs
<1>7. ReplayTracks
  BY <1>4, <1>5 DEF ReplayTracks
<1>8. Nobody.keys \subseteq Nobody.all
  BY DEF Nobody
<1>9. [i \in Ids |-> "absent"] \in RecordStates
  BY DEF RecordStates
<1>10. replay \in [lm : Manager, record : RecordStates] /\ value \in [Keys -> Ids \cup {NoLease, Absent}]
  BY <1>3, <1>9 DEF Init
<1>11. TypeOK
  BY <1>3, <1>8, <1>9, <1>10 DEF Init, TypeOK
<1> QED
  BY <1>6, <1>7, <1>11 DEF LeaseInv

\* Every step of the lease manager, its clients and its goroutines keeps LeaseInv.
LEMMA LeaseStep ==
  ASSUME LeaseInv, Next
  PROVE  LeaseInv'
<1> USE DEF Check
<1>1. ASSUME NEW i \in Ids, LeaseGrant(i) \/ LeaseRevoke(i) \/ \E k \in Keys : Put(k, i)
      PROVE  LeaseInv'
  BY <1>1, CheckStep DEF LeaseGrant, LeaseRevoke, Put
<1>2. ASSUME NEW i \in Ids, LeaseKeepAlive(i)
      PROVE  LeaseInv'
  <2>1. lm.table[i].zeroTTL \in BOOLEAN
    <3>1. lm.table[i] \in Entry
      BY Managers DEF Manager
    <3> QED
      BY <3>1, ZenonT(30) DEF Entry
  <2> QED
    BY <1>2, <2>1, DueStep DEF LeaseKeepAlive
<1>3. ASSUME NEW i \in Ids, Elapse(i)
      PROVE  LeaseInv'
  BY <1>3, DueStep, ZenonT(30) DEF Elapse
<1>4. ASSUME NEW k \in Keys, NEW i \in Ids, PutCommit(k, i)
      PROVE  LeaseInv'
  BY <1>4, ClientWriteStep DEF PutCommit
<1>5. ASSUME NEW k \in Keys, PutWithoutLease(k) \/ ClientDelete(k)
      PROVE  LeaseInv'
  BY <1>5, ClientWriteStep DEF PutWithoutLease, ClientDelete
<1>6. ASSUME NEW i \in Ids, LeaseGrantCommit(i) \/ LeaseRevokeCommit(i) \/ CompactTombstone(i)
                            \/ Expire(i) \/ ExpireFails(i) \/ ExpirePlaceholder(i)
      PROVE  LeaseInv'
  BY <1>6, LeaseGrantCommitStep, LeaseRevokeCommitStep, CompactTombstoneStep, ExpireStep,
     ExpireFailsStep, ExpirePlaceholderStep
<1>7. ASSUME NEW k \in Keys, DeleteKey(k) \/ DeleteKeyFails(k)
      PROVE  LeaseInv'
  BY <1>7, DeleteKeyStep, DeleteKeyFailsStep
<1>8. CASE CheckExpired \/ TakeLease \/ LeaseDone \/ Restart
  BY <1>8, CheckExpiredStep, TakeLeaseStep, LeaseDoneStep, RestartStep
<1> QED
  BY <1>1, <1>2, <1>3, <1>4, <1>5, <1>6, <1>7, <1>8, ZenonT(30) DEF Next

\* In every behaviour of the lease manager LeaseInv holds: the keys are
\* tracked, and they would be after a restart at this moment.
THEOREM LeaseInvHolds == Spec => []LeaseInv
<1>1. Init => LeaseInv
  BY InitLeaseInv
<1>2. LeaseInv /\ [Next]_vars => LeaseInv'
  <2>1. ASSUME LeaseInv, Next
        PROVE  LeaseInv'
    BY <2>1, LeaseStep
  <2>2. ASSUME LeaseInv, UNCHANGED vars
        PROVE  LeaseInv'
    BY <2>2, CheckStep DEF vars
  <2> QED
    BY <2>1, <2>2
<1> QED
  BY <1>1, <1>2, PTL DEF Spec

\* lease.go, OnLogEvent: "so the keys are cleaned up rather than leaked".  For
\* any leases and keys, and any order of grants, puts, revokes, expiries,
\* failed deletions and restarts, a key with a lease is known to the table, to
\* the deletion queue or to processDeletionQueue, and the table lists no key
\* of another lease.
THEOREM KeysTracked == Spec => []KeysAreTracked
<1>1. LeaseInv => KeysAreTracked
  BY DEF LeaseInv
<1> QED
  BY <1>1, LeaseInvHolds, PTL
=============================================================================
