------------------------------ MODULE Executor ------------------------------
(***************************************************************************)
(* The load generator's client (pkg/workload/executor.go, state.go and      *)
(* watch.go): conditional creates, updates and deletes that rely on the     *)
(* revisions it remembers, the lag it measures on its watch, paginated      *)
(* lists, and the compactor's rounds.                                       *)
(*                                                                         *)
(* The server is external: it runs each request at one point between the    *)
(* call and the answer, and an answer can be lost.  Every write is a        *)
(* revision of its own.  The time a write was issued is its number.         *)
(***************************************************************************)
EXTENDS Integers, Sequences, FiniteSets

CONSTANTS Workers,    \* the pool's workers
          Keys,       \* the keys, as numbers in the order of a list
          Kinds,      \* the operations they run
          PageSize,   \* ListPageSize
          MaxRev,     \* bound on the server's revisions
          MaxWrites,  \* bound on the writes issued
          MaxSeen,    \* bound on the revisions the watch gets to
          MaxLists,   \* bound on the lists, then on the compactor's rounds
          MaxRounds

ExecutorAssumption == Keys \subseteq Nat \ {0} /\ PageSize \in Nat \ {0}

VARIABLES log,       \* the server's changes, one for each revision
          compacted, \* the server's compacted revision
          bumps,     \* the revisions of compact_rev_key, and what it holds
          known, start, inflight,   \* stateMap: modRev, writeStart, inflight
          writes,    \* the writes issued so far
          op,        \* what each worker is doing
          clean,     \* keys whose writes never overlapped or went unanswered
          seen, samples,            \* the watch: its position, and the lags
          list, lists,              \* the list under way, and how many began
          round, compactVersion, compactRev

stateMap == <<known, start, inflight>>
watch == <<seen, samples>>
lister == <<list, lists>>
compactor == <<bumps, round, compactVersion, compactRev>>
vars == <<log, compacted, stateMap, writes, op, clean, watch, lister, compactor>>

-----------------------------------------------------------------------------
(* The server.                                                             *)

\* The revision of k's last change, and of its value: 0 when k is not there.
LastChange(k, upTo) ==
    LET at == {r \in 1..upTo : log[r].key = k}
    IN IF at = {} THEN 0 ELSE CHOOSE r \in at : \A s \in at : s <= r

ModRevisionAt(k, upTo) ==
    LET r == LastChange(k, upTo)
    IN IF r > 0 /\ log[r].type = "PUT" THEN r ELSE 0

ModRevision(k) == ModRevisionAt(k, Len(log))

Change(type, k, write) ==
    /\ Len(log) < MaxRev
    /\ log' = Append(log, [type |-> type, key |-> k, write |-> write])

\* A key that is attached to a lease goes with it.
Lapse(k) ==
    /\ ModRevision(k) > 0
    /\ Change("DELETE", k, 0)
    /\ clean' = clean \ {k}
    /\ UNCHANGED <<compacted, stateMap, writes, op, watch, lister, compactor>>

-----------------------------------------------------------------------------
(* stateMap.                                                               *)

BeginWrite_KeepsStart(k) ==
    /\ writes < MaxWrites
    /\ writes' = writes + 1
    /\ start' = [start EXCEPT ![k] = IF inflight[k] THEN @ ELSE writes + 1]
    /\ inflight' = [inflight EXCEPT ![k] = TRUE]

BeginWrite(k) ==
    /\ writes < MaxWrites
    /\ writes' = writes + 1
    /\ start' = [start EXCEPT ![k] = writes + 1]
    /\ inflight' = [inflight EXCEPT ![k] = TRUE]

EndWrite(k, modRev) ==
    /\ known' = [known EXCEPT ![k] = modRev]
    /\ inflight' = [inflight EXCEPT ![k] = FALSE]
    /\ UNCHANGED start

Forget(k) ==
    /\ known' = [known EXCEPT ![k] = 0]
    /\ start' = [start EXCEPT ![k] = 0]
    /\ inflight' = [inflight EXCEPT ![k] = FALSE]

-----------------------------------------------------------------------------
(* create, updateOrCreate and delete.                                      *)

Idle == [pc |-> "idle", kind |-> "none", key |-> 0, rev |-> 0, mod |-> 0,
         attempt |-> 0, write |-> 0, raced |-> FALSE, got |-> "nothing"]

Finish(w, outcome) == op' = [op EXCEPT ![w] = [Idle EXCEPT !.got = outcome,
                                                           !.raced = op[w].raced]]

Busy(k) == {w \in Workers : op[w].pc # "idle" /\ op[w].key = k}

\* A call begins; a delete first asks for the key.
Call(w, kind, k) ==
    /\ op[w].pc = "idle"
    /\ LET at == [Idle EXCEPT !.kind = kind, !.key = k, !.write = writes + 1]
       IN op' = [op EXCEPT ![w] =
             IF kind = "delete" THEN [at EXCEPT !.pc = "get"]
             ELSE [at EXCEPT !.pc = "txn", !.rev = IF kind = "create" THEN 0 ELSE known[k]]]
    /\ IF kind = "delete" THEN UNCHANGED <<writes, start, inflight>> ELSE BeginWrite(k)
    /\ clean' = IF Busy(k) = {} THEN clean ELSE clean \ {k}
    /\ UNCHANGED <<log, compacted, known, watch, lister, compactor>>

\* delete: the Get, and the beginning of its write.
Get(w) ==
    /\ op[w].pc = "get"
    /\ LET k == op[w].key IN
       IF ModRevision(k) = 0
       THEN Forget(k) /\ Finish(w, "not found") /\ UNCHANGED writes
       ELSE /\ BeginWrite(k)
            /\ op' = [op EXCEPT ![w].pc = "txn", ![w].rev = ModRevision(k),
                                ![w].write = writes + 1]
            /\ UNCHANGED known
    /\ UNCHANGED <<log, compacted, clean, watch, lister, compactor>>

\* The server runs Txn(If mod_revision(key) = rev Then write Else Get).
Txn(w) ==
    /\ op[w].pc = "txn"
    /\ LET k == op[w].key IN
       IF ModRevision(k) = op[w].rev
       THEN /\ Change(IF op[w].kind = "delete" THEN "DELETE" ELSE "PUT", k, op[w].write)
            /\ op' = [x \in Workers |->
                  IF x = w THEN [op[w] EXCEPT !.pc = "won", !.mod = Len(log) + 1]
                  ELSE IF op[x].pc # "idle" /\ op[x].key = k
                  THEN [op[x] EXCEPT !.raced = TRUE] ELSE op[x]]
       ELSE /\ op' = [op EXCEPT ![w].pc = "lost", ![w].mod = ModRevision(k),
                                ![w].raced = @ /\ op[w].attempt = 1]
            /\ UNCHANGED log
    /\ UNCHANGED <<compacted, stateMap, writes, clean, watch, lister, compactor>>

\* create: an existing key's revision is adopted.
CreateAnswer(w) ==
    /\ op[w].kind = "create" /\ op[w].pc \in {"won", "lost"}
    /\ EndWrite(op[w].key, op[w].mod)
    /\ Finish(w, IF op[w].pc = "won" THEN "done" ELSE "exists")
    /\ UNCHANGED <<log, compacted, writes, clean, watch, lister, compactor>>

\* The second attempt of updateOrCreate and of delete.
Retry_SameRev(w) ==
    /\ op' = [op EXCEPT ![w].pc = "txn", ![w].attempt = 1]
    /\ UNCHANGED <<stateMap, writes>>

Retry(w) ==
    /\ op' = [op EXCEPT ![w].pc = "txn", ![w].attempt = 1, ![w].rev = op[w].mod]
    /\ UNCHANGED <<stateMap, writes>>

\* The key is gone: the state is dropped, and an upsert goes on as a create,
\* whose write begins.
UpdateMissing(w) ==
    LET k == op[w].key IN
    IF op[w].kind = "update"
    THEN Forget(k) /\ Finish(w, "not found") /\ UNCHANGED writes
    ELSE /\ known' = [known EXCEPT ![k] = 0]
         /\ BeginWrite(k)
         /\ op' = [op EXCEPT ![w].pc = "txn", ![w].kind = "create", ![w].rev = 0,
                             ![w].write = writes + 1]

\* updateOrCreate: on a conflict the revision is taken from the answer.
UpdateAnswer(w) ==
    /\ op[w].kind \in {"update", "upsert"} /\ op[w].pc \in {"won", "lost"}
    /\ IF op[w].pc = "lost" /\ op[w].mod = 0 THEN UpdateMissing(w)
       ELSE IF op[w].pc = "lost" /\ op[w].attempt = 0 THEN Retry(w)
       ELSE /\ EndWrite(op[w].key, op[w].mod) /\ UNCHANGED writes
            /\ Finish(w, IF op[w].pc = "won" THEN "done" ELSE "conflict")
    /\ UNCHANGED <<log, compacted, clean, watch, lister, compactor>>

\* delete: a key that is gone counts as deleted.
DeleteAnswer(w) ==
    /\ op[w].kind = "delete" /\ op[w].pc \in {"won", "lost"}
    /\ IF op[w].pc = "won" \/ op[w].mod = 0
       THEN Forget(op[w].key) /\ Finish(w, "done") /\ UNCHANGED writes
       ELSE IF op[w].attempt = 0 THEN Retry(w)
       ELSE Finish(w, "conflict") /\ UNCHANGED <<stateMap, writes>>
    /\ UNCHANGED <<log, compacted, clean, watch, lister, compactor>>

\* The call fails, before or after the server has run it.
Fail(w) ==
    /\ op[w].pc # "idle"
    /\ Finish(w, "error")
    /\ clean' = clean \ {op[w].key}
    /\ UNCHANGED <<log, compacted, stateMap, writes, watch, lister, compactor>>

-----------------------------------------------------------------------------
(* watchPrefix: one watch, which restarts after the last revision seen.     *)

Receive ==
    /\ seen < Len(log) /\ seen < MaxSeen
    /\ LET ev == log[seen + 1] IN
          samples' = IF /\ ev.key \in Keys /\ start[ev.key] # 0
                        /\ inflight[ev.key] \/ known[ev.key] = seen + 1
                     THEN samples \cup {<<ev.write, start[ev.key]>>} ELSE samples
    /\ seen' = seen + 1
    /\ UNCHANGED <<log, compacted, stateMap, writes, op, clean, lister, compactor>>

-----------------------------------------------------------------------------
(* list: pages of a prefix at the revision of the first one.                *)

Existing(r) == {k \in Keys : ModRevisionAt(k, r) > 0}

Page(after, r) ==
    {k \in Existing(r) : k > after
        /\ Cardinality({j \in Existing(r) : after < j /\ j <= k}) <= PageSize}

StartList ==
    /\ list.pc # "paging" /\ lists < MaxLists
    /\ list' = [pc |-> "paging", rev |-> 0, after |-> 0, keys |-> {}, began |-> 0]
    /\ lists' = lists + 1
    /\ UNCHANGED <<log, compacted, stateMap, writes, op, clean, watch, compactor>>

NextPage_AtHead ==
    /\ list.pc = "paging"
    /\ LET r == Len(log)
           page == Page(list.after, r)
           more == \E k \in Existing(r) : k > list.after /\ k \notin page
       IN list' = [list EXCEPT
             !.rev = r, !.keys = @ \cup page,
             !.pc = IF more THEN "paging" ELSE "done",
             !.after = IF page = {} THEN @ ELSE CHOOSE k \in page : \A j \in page : j <= k]
    /\ UNCHANGED <<log, compacted, stateMap, writes, op, clean, watch, lists, compactor>>

\* One page: the first is at the current revision, the others at that one,
\* which may have been compacted since.
NextPage ==
    /\ list.pc = "paging"
    /\ LET r == IF list.rev = 0 THEN Len(log) ELSE list.rev
           page == Page(list.after, r)
           more == \E k \in Existing(r) : k > list.after /\ k \notin page
       IN list' = IF list.rev # 0 /\ r < compacted THEN [list EXCEPT !.pc = "compacted"]
                  ELSE [list EXCEPT
                    !.rev = r, !.keys = @ \cup page,
                    !.began = IF list.rev = 0 THEN Cardinality(bumps) ELSE @,
                    !.pc = IF more THEN "paging" ELSE "done",
                    !.after = IF page = {} THEN @
                              ELSE CHOOSE k \in page : \A j \in page : j <= k]
    /\ UNCHANGED <<log, compacted, stateMap, writes, op, clean, watch, lists, compactor>>

-----------------------------------------------------------------------------
(* compact: compact_rev_key is key 0; its version is the number of bumps.   *)

\* The guarded put of the round.  The key holds the revision recorded by the
\* round before the one that wrote it.
Bump ==
    /\ round = "none" /\ Cardinality(bumps) < MaxRounds
    /\ IF compactVersion = Cardinality(bumps)
       THEN /\ Change("PUT", 0, 0)
            /\ bumps' = bumps \cup {[rev |-> Len(log) + 1, value |-> compactRev]}
            /\ round' = "won"
            /\ UNCHANGED <<compactVersion, compactRev>>
       ELSE /\ compactVersion' = Cardinality(bumps)
            /\ \E b \in bumps : /\ \A c \in bumps : c.rev <= b.rev
                                /\ compactRev' = b.value
            /\ UNCHANGED <<log, bumps, round>>
    /\ UNCHANGED <<compacted, stateMap, writes, op, clean, watch, lister>>

LastBump == CHOOSE r \in {b.rev : b \in bumps} : \A b \in bumps : b.rev <= r

\* The round was won: compact to the revision that the previous one recorded.
CompactPrevious ==
    /\ round = "won"
    /\ compactVersion' = compactVersion + 1
    /\ compactRev' = LastBump
    /\ \/ compacted' = IF compactRev > compacted THEN compactRev ELSE compacted
       \/ compacted' = compacted   \* the call fails
    /\ round' = "none"
    /\ UNCHANGED <<log, bumps, stateMap, writes, op, clean, watch, lister>>

\* The answer to the put is lost: the round ends with what it knew.
BumpUnanswered ==
    /\ round = "won"
    /\ round' = "none"
    /\ UNCHANGED <<log, compacted, bumps, compactVersion, compactRev, stateMap, writes,
                   op, clean, watch, lister>>

-----------------------------------------------------------------------------
Init ==
    /\ log = <<>> /\ compacted = 0 /\ bumps = {}
    /\ known = [k \in Keys |-> 0] /\ start = [k \in Keys |-> 0]
    /\ inflight = [k \in Keys |-> FALSE]
    /\ writes = 0 /\ op = [w \in Workers |-> Idle] /\ clean = Keys
    /\ seen = 0 /\ samples = {}
    /\ list = [pc |-> "none", rev |-> 0, after |-> 0, keys |-> {}, began |-> 0] /\ lists = 0
    /\ round = "none" /\ compactVersion = 0 /\ compactRev = 0

Next ==
    \/ \E w \in Workers :
          \/ \E kind \in Kinds, k \in Keys : Call(w, kind, k)
          \/ Get(w) \/ Txn(w) \/ Fail(w)
          \/ CreateAnswer(w) \/ UpdateAnswer(w) \/ DeleteAnswer(w)
    \/ \E k \in Keys : Lapse(k)
    \/ Receive \/ StartList \/ NextPage
    \/ Bump \/ CompactPrevious \/ BumpUnanswered

Spec == Init /\ [][Next]_vars

-----------------------------------------------------------------------------
TypeOK ==
    /\ known \in [Keys -> 0..MaxRev] /\ start \in [Keys -> 0..MaxWrites]
    /\ inflight \in [Keys -> BOOLEAN] /\ clean \subseteq Keys
    /\ \A w \in Workers :
          /\ op[w].pc \in {"idle", "get", "txn", "won", "lost"}
          /\ op[w].pc = "lost" /\ op[w].kind = "create" => op[w].mod > 0
    /\ list.pc \in {"none", "paging", "done", "compacted"}
    /\ compacted \in 0..Len(log)

\* What the client remembers of a key is what the server has, once no call on
\* the key is under way, unless its calls overlapped, one got no answer, or a
\* lease took the key: the next conditional write then goes through at once.
KnownIsCurrent ==
    \A k \in clean : Busy(k) = {} => known[k] = ModRevision(k)

\* "on a conflict it re-reads the revision and retries once": an update or a
\* delete gives up only when another write of the key came between; what the
\* client wrongly remembered never makes it fail.
GivesUpOnlyWhenRaced ==
    \A w \in Workers : op[w].got = "conflict" => op[w].raced

\* "a full paginated list of prefix at a consistent revision": a list that
\* ends has found the keys of its revision, all of them and no others, however
\* the pages fall between writes.
ListIsSnapshot ==
    list.pc = "done" => list.keys = Existing(list.rev)

\* "compact to the revision recorded by the previous round": a list is cut off
\* by a compaction only when two rounds have come since its first page.
ListHasARound ==
    list.pc = "compacted" => Cardinality(bumps) >= list.began + 2

\* The generator never reports a watch slower than it is: a lag is measured
\* from the event's own write or from a later one of the key, never from an
\* earlier one, whatever calls overlap, fail or are retried.
LagNeverOverstated == \A s \in samples : s[1] <= s[2]

\* "For each event it measures the lag since the corresponding write was
\* issued": the time a lag is measured from is that of the event's own write.
LagIsOfItsWrite == \A s \in samples : s[1] = s[2]
=============================================================================
