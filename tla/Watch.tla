------------------------------- MODULE Watch -------------------------------
(***************************************************************************)
(* Watchers over the change log (pkg/storage/memorystorage/watch.go), with  *)
(* what they interact with in memory.go: OnLogEntry, Compact, GracefulStop. *)
(*                                                                         *)
(* A record of the log is the set of its events; its revision is its place  *)
(* in the log.  The records stay in `log' after compaction, so that what a  *)
(* watcher was sent can be compared with what was committed; `dropped' are  *)
(* the revisions that the rewritten files no longer hold.  A watcher sends  *)
(* all the matching events of a revision together, so what it sends is      *)
(* recorded as the sequence of those revisions.                             *)
(***************************************************************************)
EXTENDS Integers, Sequences, FiniteSets

CONSTANTS Watchers,       \* the watchers clients may create
          Records,        \* the records that may be committed: sets of events
          Requests,       \* the watch requests clients may send
          InternalKeys,   \* cloudetcd's own keys (lease records)
          MaxRevisions,   \* maxRevisionsPerResponse
          MaxEvents,      \* maxEventsPerResponse
          MaxLog          \* bound on the length of the log

ASSUME WatchAssumption ==
    /\ \A rec \in Records : IsFiniteSet(rec)
    /\ \A q \in Requests : q.start \in Nat
    /\ MaxRevisions \in Nat \ {0} /\ MaxEvents \in Nat \ {0} /\ MaxLog \in Nat

VARIABLES log,        \* every record committed, in revision order
          applied,    \* MemoryStorage.applied
          compacted,  \* MemoryStorage.compacted
          rewrites,   \* log rewrites started by Compact and not yet carried out
          dropped,    \* revisions the log files no longer hold
          pc,         \* where each watcher's creation, then its Run, stands
          req,        \* the request of each watcher
          head,       \* memoryWatcher.logPosition
          done,       \* watchDoneRevision and its mirror, delivered
          closed,     \* memoryWatcher.closed
          cancelled,  \* whether the context of Run has ended
          target,     \* Run's local logPosition
          last,       \* Run's local last
          events,     \* Run's local events, as the revisions they are of
          size,       \* the number of those events
          sent,       \* the revisions sent to the client so far
          base,       \* watchDoneRevision at registration
          since,      \* the compacted revision at registration
          why         \* why Run returned

logVars == <<log, applied, compacted, rewrites, dropped>>
runVars == <<target, last, events, size, sent>>
vars == <<log, applied, compacted, rewrites, dropped, pc, req, head, done,
          closed, cancelled, target, last, events, size, sent, base, since, why>>

Registered == {w \in Watchers : pc[w] \in {"check", "asleep", "collect", "ended"}}

Init ==
    /\ log = <<>> /\ applied = 0 /\ compacted = 0
    /\ rewrites = {} /\ dropped = {}
    /\ pc = [w \in Watchers |-> "none"]
    /\ req \in [Watchers -> Requests]
    /\ head = [w \in Watchers |-> 0]
    /\ done = [w \in Watchers |-> 0]
    /\ closed = [w \in Watchers |-> FALSE]
    /\ cancelled = [w \in Watchers |-> FALSE]
    /\ target = [w \in Watchers |-> 0]
    /\ last = [w \in Watchers |-> 0]
    /\ events = [w \in Watchers |-> <<>>]
    /\ size = [w \in Watchers |-> 0]
    /\ sent = [w \in Watchers |-> <<>>]
    /\ base = [w \in Watchers |-> 0]
    /\ since = [w \in Watchers |-> 0]
    /\ why = [w \in Watchers |-> "running"]

-----------------------------------------------------------------------------
(* The log and the index.                                                  *)

\* stateCond.Broadcast() for the watchers of S.
Broadcast(S) == [w \in Watchers |-> IF w \in S /\ pc[w] = "asleep"
                                    THEN "check" ELSE pc[w]]

\* OnLogEntry: every watcher ever registered, closed ones too, learns the
\* new head and is woken.
OnLogEntry(position) ==
    /\ head' = [w \in Watchers |-> IF w \in Registered THEN position ELSE head[w]]
    /\ pc' = Broadcast(Registered)

\* A batch is committed and published; the listener is called once, with the
\* last revision.
Commit(batch) ==
    /\ Len(log) + Len(batch) <= MaxLog
    /\ log' = log \o batch
    /\ OnLogEntry(Len(log) + Len(batch))
    /\ UNCHANGED <<applied, compacted, rewrites, dropped, req, done, closed,
                   cancelled, runVars, base, since, why>>

\* applyUpTo: a transaction brings the index up to the log.
Apply ==
    /\ applied < Len(log)
    /\ applied' = Len(log)
    /\ UNCHANGED <<log, compacted, rewrites, dropped, pc, req, head, done, closed,
                   cancelled, runVars, base, since, why>>

\* The revisions that bound a compaction: the request, what is applied, and
\* what each open watcher has delivered.
CompactBounds_Heads(revision) ==
    {revision, applied} \cup {head[w] : w \in {x \in Registered : ~closed[x]}}

CompactBounds(revision) ==
    {revision, applied} \cup {done[w] : w \in {x \in Registered : ~closed[x]}}

Compact(revision) ==
    /\ \E through \in CompactBounds(revision) :
          /\ \A b \in CompactBounds(revision) : through <= b
          /\ through > compacted
          /\ compacted' = through
          /\ rewrites' = rewrites \cup {through}
    /\ UNCHANGED <<log, applied, dropped, pc, req, head, done, closed, cancelled,
                   runVars, base, since, why>>

\* The record at r is dead at through: for each key, another write at or below
\* through follows it, or it is a delete and the index has dropped the key.
Dead(r, through) ==
    \A e \in log[r] :
        \/ e.type = "DELETE"
        \/ \E s \in (r + 1)..through : \E f \in log[s] : f.key = e.key

\* The log's Compact, started by Compact in the background: the dead records
\* of the closed files, those that end at some revision upTo at or below
\* through, are dropped.
Rewrite(through, upTo) ==
    /\ through \in rewrites
    /\ rewrites' = rewrites \ {through}
    /\ dropped' = dropped \cup {r \in 1..upTo : Dead(r, through)}
    /\ UNCHANGED <<log, applied, compacted, pc, req, head, done, closed,
                   cancelled, runVars, base, since, why>>

-----------------------------------------------------------------------------
(* Creating a watcher.                                                     *)

\* Watch, first part: the compacted revision is read under mu, and a start at
\* or below it is refused.
WatchCheck(w) ==
    /\ pc[w] = "none"
    /\ pc' = [pc EXCEPT ![w] = IF req[w].start > 0 /\ req[w].start <= compacted
                               THEN "refused" ELSE "checked"]
    /\ UNCHANGED <<logVars, req, head, done, closed, cancelled, runVars, base, since, why>>

\* watchDoneRevision of a new watcher.
FirstDone(w) == IF req[w].start = 0 THEN Len(log) ELSE req[w].start - 1

\* A registration that reads the log position before it takes watcherMu: a
\* commit in between is not reported to the watcher.
WatchRegister_StaleHead(w) ==
    /\ pc[w] = "checked"
    /\ pc' = [pc EXCEPT ![w] = "check"]
    /\ head' = [head EXCEPT ![w] = applied]
    /\ done' = [done EXCEPT ![w] = FirstDone(w)]
    /\ base' = [base EXCEPT ![w] = FirstDone(w)]
    /\ since' = [since EXCEPT ![w] = compacted]
    /\ UNCHANGED <<logVars, req, closed, cancelled, runVars, why>>

\* Watch, second part: under watcherMu the log position is read and the
\* watcher added to the list; the API server then starts Run.
WatchRegister(w) ==
    /\ pc[w] = "checked"
    /\ pc' = [pc EXCEPT ![w] = "check"]
    /\ head' = [head EXCEPT ![w] = Len(log)]
    /\ done' = [done EXCEPT ![w] = FirstDone(w)]
    /\ base' = [base EXCEPT ![w] = FirstDone(w)]
    /\ since' = [since EXCEPT ![w] = compacted]
    /\ UNCHANGED <<logVars, req, closed, cancelled, runVars, why>>

\* Close: by a cancel request, by the API server when Run failed or the stream
\* ended, or by GracefulStop.
Close(w) ==
    /\ w \in Registered /\ ~closed[w]
    /\ closed' = [closed EXCEPT ![w] = TRUE]
    /\ pc' = Broadcast({w})
    /\ UNCHANGED <<logVars, req, head, done, cancelled, runVars, base, since, why>>

GracefulStop ==
    /\ \E w \in Registered : ~closed[w]
    /\ closed' = [w \in Watchers |-> closed[w] \/ w \in Registered]
    /\ pc' = Broadcast(Registered)
    /\ UNCHANGED <<logVars, req, head, done, cancelled, runVars, base, since, why>>

\* The stream's context ends; nobody wakes the watcher for it.
Cancel(w) ==
    /\ w \in Registered /\ ~cancelled[w]
    /\ cancelled' = [cancelled EXCEPT ![w] = TRUE]
    /\ UNCHANGED <<logVars, pc, req, head, done, closed, runVars, base, since, why>>

-----------------------------------------------------------------------------
(* Run.                                                                    *)

Return(w, reason) ==
    /\ pc' = [pc EXCEPT ![w] = "ended"]
    /\ why' = [why EXCEPT ![w] = reason]

\* The top of the loop, starting at the head instead of at the position.
RunCheck_SkipsToHead(w) ==
    /\ pc[w] = "check" /\ head[w] > done[w]
    /\ pc' = [pc EXCEPT ![w] = "collect"]
    /\ target' = [target EXCEPT ![w] = head[w]]
    /\ last' = [last EXCEPT ![w] = head[w]]
    /\ events' = [events EXCEPT ![w] = <<>>]
    /\ size' = [size EXCEPT ![w] = 0]
    /\ UNCHANGED <<logVars, req, head, done, closed, cancelled, sent, base, since, why>>

\* Run at the top of its loop: with nothing to deliver it returns or sleeps,
\* else it takes the head as its target.
RunCheck(w) ==
    /\ pc[w] = "check"
    /\ IF head[w] > done[w]
       THEN /\ pc' = [pc EXCEPT ![w] = "collect"]
            /\ target' = [target EXCEPT ![w] = head[w]]
            /\ last' = [last EXCEPT ![w] = done[w]]
            /\ events' = [events EXCEPT ![w] = <<>>]
            /\ size' = [size EXCEPT ![w] = 0]
            /\ UNCHANGED <<sent, why>>
       ELSE /\ CASE cancelled[w] -> Return(w, "context")
                 [] closed[w] /\ ~cancelled[w] -> Return(w, "closed")
                 [] OTHER -> pc' = [pc EXCEPT ![w] = "asleep"] /\ UNCHANGED why
            /\ UNCHANGED runVars
    /\ UNCHANGED <<logVars, req, head, done, closed, cancelled, base, since>>

\* collect: the events of a record that a request asks for.
Wanted(q, rec) ==
    {e \in rec : /\ e.key \notin InternalKeys
                 /\ ~(e.type = "PUT" /\ "NOPUT" \in q.filters)
                 /\ ~(e.type = "DELETE" /\ "NODELETE" \in q.filters)
                 /\ e.key \in q.range}

\* The inner loop's condition.
MoreToCollect(w) ==
    /\ last[w] < target[w]
    /\ last[w] - done[w] < MaxRevisions
    /\ size[w] < MaxEvents

\* One iteration of the inner loop: the next record is read and its matching
\* events are added to the response.  A dropped record may still be found in
\* the record cache.
Collect(w) ==
    /\ pc[w] = "collect" /\ MoreToCollect(w)
    /\ LET next == last[w] + 1
           evs == Wanted(req[w], log[next])
       IN /\ last' = [last EXCEPT ![w] = next]
          /\ events' = [events EXCEPT ![w] = IF evs = {} THEN @ ELSE Append(@, next)]
          /\ size' = [size EXCEPT ![w] = @ + Cardinality(evs)]
    /\ UNCHANGED <<logVars, pc, req, head, done, closed, cancelled, target, sent,
                   base, since, why>>

\* The read fails because the record has been dropped.
CollectFails(w) ==
    /\ pc[w] = "collect" /\ MoreToCollect(w)
    /\ last[w] + 1 \in dropped
    /\ Return(w, IF closed[w] THEN "closed" ELSE "compacted")
    /\ UNCHANGED <<logVars, req, head, done, closed, cancelled, runVars, base, since>>

\* The position jumps to the target although the response was cut off by a
\* bound.
Send_SkipsToTarget(w) ==
    /\ pc[w] = "collect" /\ ~MoreToCollect(w)
    /\ sent' = [sent EXCEPT ![w] = @ \o events[w]]
    /\ done' = [done EXCEPT ![w] = target[w]]
    /\ events' = [events EXCEPT ![w] = <<>>]
    /\ size' = [size EXCEPT ![w] = 0]
    /\ pc' = [pc EXCEPT ![w] = "check"]
    /\ UNCHANGED <<logVars, req, head, closed, cancelled, target, last, base, since, why>>

\* The response is sent (unless it is empty) and the position advanced.
Send(w) ==
    /\ pc[w] = "collect" /\ ~MoreToCollect(w)
    /\ sent' = [sent EXCEPT ![w] = @ \o events[w]]
    /\ done' = [done EXCEPT ![w] = last[w]]
    /\ events' = [events EXCEPT ![w] = <<>>]
    /\ size' = [size EXCEPT ![w] = 0]
    /\ pc' = [pc EXCEPT ![w] = IF last[w] < target[w] THEN "collect" ELSE "check"]
    /\ UNCHANGED <<logVars, req, head, closed, cancelled, target, last, base, since, why>>

\* The callback fails: the client's stream is gone.
SendFails(w) ==
    /\ pc[w] = "collect" /\ ~MoreToCollect(w) /\ events[w] # <<>>
    /\ Return(w, "send failed")
    /\ UNCHANGED <<logVars, req, head, done, closed, cancelled, runVars, base, since>>

Run(w) == RunCheck(w) \/ Collect(w) \/ CollectFails(w) \/ Send(w) \/ SendFails(w)

-----------------------------------------------------------------------------
Batches == {<<a>> : a \in Records} \cup {<<a, b>> : a, b \in Records}

Next ==
    \/ \E batch \in Batches : Commit(batch)
    \/ Apply
    \/ \E revision \in 1..MaxLog : Compact(revision)
    \/ \E through \in rewrites : \E upTo \in 0..through : Rewrite(through, upTo)
    \/ \E w \in Watchers : WatchCheck(w) \/ WatchRegister(w) \/ Close(w) \/ Cancel(w)
    \/ GracefulStop
    \/ \E w \in Watchers : Run(w)

Spec == Init /\ [][Next]_vars

\* A registered watcher's Run is a goroutine of its own: its next step is not
\* put off for ever.
FairSpec == Spec /\ \A w \in Watchers : WF_vars(Run(w))

-----------------------------------------------------------------------------
TypeOK ==
    /\ log \in Seq(Records) /\ Len(log) <= MaxLog
    /\ applied \in 0..Len(log) /\ compacted \in 0..applied
    /\ rewrites \in SUBSET (1..compacted) /\ dropped \in SUBSET (1..compacted)
    /\ pc \in [Watchers -> {"none", "checked", "refused", "check", "asleep",
                            "collect", "ended"}]
    /\ req \in [Watchers -> Requests]
    /\ head \in [Watchers -> 0..Len(log)] /\ done \in [Watchers -> Nat]
    /\ base \in [Watchers -> Nat] /\ since \in [Watchers -> Nat]
    /\ target \in [Watchers -> 0..Len(log)]
    /\ last \in [Watchers -> Nat] /\ size \in [Watchers -> Nat]
    /\ closed \in [Watchers -> BOOLEAN] /\ cancelled \in [Watchers -> BOOLEAN]
    /\ events \in [Watchers -> Seq(Nat)] /\ sent \in [Watchers -> Seq(Nat)]
    /\ why \in [Watchers -> {"running", "context", "closed", "compacted", "send failed"}]

Increasing(s) == \A i, j \in 1..Len(s) : i < j => s[i] < s[j]

Elements(s) == {s[i] : i \in 1..Len(s)}

\* The revisions of lo..hi that have an event the watcher's request asks for.
Matching(w, lo, hi) == {r \in lo..hi : Wanted(req[w], log[r]) # {}}

\* The first revision a watcher is to be sent: the start it asked for, or the
\* one after the head it was registered at.
From(w) == IF req[w].start = 0 THEN base[w] + 1 ELSE req[w].start

\* What Run has sent is, in order and once each, every revision from the
\* watcher's start to its position that has an event the request asks for:
\* no event is lost, repeated or reordered, however commits, compactions and
\* the bounds on a response fall.
DeliveredExactly ==
    \A w \in Registered :
        /\ Increasing(sent[w])
        /\ Elements(sent[w]) = Matching(w, From(w), done[w])

\* Compact keeps open watchers readable: a watcher that was registered above
\* the compacted revision finds every record after its position in the log.
OpenWatcherReadable ==
    \A w \in Registered :
        ~closed[w] /\ base[w] >= since[w] =>
            dropped \cap ((done[w] + 1)..Len(log)) = {}

\* What holds of each watcher between the steps of Run: the response being put
\* together is of the revisions after the position, all of them in the log,
\* and an open watcher that was registered above the compacted revision is
\* still above it.
WatcherInv(w) ==
    /\ w \notin Registered => sent[w] = <<>>
    /\ w \in Registered =>
          /\ base[w] <= done[w]
          /\ req[w].start > 0 => base[w] = req[w].start - 1
          /\ done[w] <= Len(log) \/ done[w] = base[w]
          /\ Increasing(sent[w])
          /\ Elements(sent[w]) = Matching(w, base[w] + 1, done[w])
          /\ ~closed[w] /\ base[w] >= since[w] => compacted <= done[w]
    /\ pc[w] = "collect" =>
          /\ done[w] <= last[w] /\ last[w] <= target[w]
          /\ Increasing(events[w])
          /\ Elements(events[w]) = Matching(w, done[w] + 1, last[w])

\* The inductive invariant of the watchers.
WatchInv == \A w \in Watchers : WatcherInv(w)

\* "The revision is lowered if an open watcher has not yet delivered past it,
\* so that watchers are not cut off": Run never ends because a record it needs
\* was compacted away while its watcher was open.
NotCutOff ==
    \A w \in Watchers : why[w] # "compacted"

\* Whatever is committed reaches every watcher that stays open: the watcher's
\* position passes each revision of the log, or Run has returned.
CommittedIsDelivered ==
    \A w \in Watchers : \A r \in 1..MaxLog :
        (w \in Registered /\ Len(log) >= r) ~> (done[w] >= r \/ pc[w] = "ended")

\* A closed watcher's Run returns, also when it was asleep when it was closed.
ClosedReturns == \A w \in Watchers : closed[w] ~> pc[w] = "ended"
=============================================================================
