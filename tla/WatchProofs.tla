---------------------------- MODULE WatchProofs ----------------------------
(***************************************************************************)
(* What Watch promises for every set of watchers, records and requests and *)
(* every bound: a watcher is sent exactly what it asked for, in order, and *)
(* the compactions leave it what it has still to read.                     *)
(***************************************************************************)
EXTENDS Watch, FiniteSetTheorems, TLAPS

-----------------------------------------------------------------------------
(* Sequences of revisions.                                                 *)

\* Committing a batch keeps the log as a prefix.
LEMMA Extends ==
  ASSUME NEW S, NEW s \in Seq(S), NEW t \in Seq(S)
  PROVE  /\ s \o t \in Seq(S)
         /\ Len(s \o t) = Len(s) + Len(t)
         /\ \A n \in 1..Len(s) : (s \o t)[n] = s[n]
         /\ \A n \in 1..Len(t) : (s \o t)[Len(s) + n] = t[n]
  OBVIOUS

\* Sending a response: its revisions, all above the position, go behind the
\* ones at or below it.
LEMMA SentBehind ==
  ASSUME NEW s \in Seq(Nat), NEW t \in Seq(Nat), NEW m \in Nat,
         Increasing(s), Increasing(t),
         \A x \in Elements(s) : x <= m,
         \A x \in Elements(t) : x > m
  PROVE  /\ Increasing(s \o t)
         /\ Elements(s \o t) = Elements(s) \cup Elements(t)
<1> DEFINE u == s \o t
<1>1. /\ u \in Seq(Nat) /\ Len(u) = Len(s) + Len(t)
      /\ Len(s) \in Nat /\ Len(t) \in Nat
      /\ \A n \in 1..Len(s) : u[n] = s[n] /\ n \in 1..Len(u)
      /\ \A n \in 1..Len(t) : u[Len(s) + n] = t[n] /\ Len(s) + n \in 1..Len(u)
  BY Extends
<1>2. \A i \in 1..Len(u) : i \in 1..Len(s) \/ \E n \in 1..Len(t) : i = Len(s) + n
  <2> SUFFICES ASSUME NEW i \in 1..Len(u), i \notin 1..Len(s)
               PROVE  \E n \in 1..Len(t) : i = Len(s) + n
    OBVIOUS
  <2> HIDE DEF u
  <2>1. i - Len(s) \in 1..Len(t) /\ i = Len(s) + (i - Len(s))
    BY <1>1
  <2> QED
    BY <2>1, ZenonT(30)
<1> HIDE DEF u
<1>3. Elements(u) = Elements(s) \cup Elements(t)
  <2>1. ASSUME NEW x \in Elements(u)
        PROVE  x \in Elements(s) \cup Elements(t)
    <3>1. PICK i \in 1..Len(u) : x = u[i]
      BY <2>1 DEF Elements
    <3>2. CASE i \in 1..Len(s)
      BY <3>1, <3>2, <1>1, ZenonT(30) DEF Elements
    <3>3. CASE \E n \in 1..Len(t) : i = Len(s) + n
      <4>1. PICK n \in 1..Len(t) : i = Len(s) + n
        BY <3>3
      <4>2. x = t[n]
        BY <3>1, <4>1, <1>1
      <4> QED
        BY <4>2 DEF Elements
    <3> QED
      BY <3>2, <3>3, <1>2
  <2>2. \A x \in Elements(s) : x \in Elements(u)
    BY <1>1, ZenonT(30) DEF Elements
  <2>3. \A x \in Elements(t) : x \in Elements(u)
    BY <1>1, ZenonT(30) DEF Elements
  <2> QED
    BY <2>1, <2>2, <2>3
<1>4. ASSUME NEW i \in 1..Len(u), NEW j \in 1..Len(u), i < j
      PROVE  u[i] < u[j]
  <2>1. CASE i \in 1..Len(s) /\ j \in 1..Len(s)
    BY <2>1, <1>1, <1>4 DEF Increasing
  <2>2. CASE i \in 1..Len(s) /\ j \notin 1..Len(s)
    <3>1. PICK n \in 1..Len(t) : j = Len(s) + n
      BY <2>2, <1>2
    <3>2. u[i] = s[i] /\ u[j] = t[n]
      BY <2>2, <3>1, <1>1, ZenonT(30)
    <3>3. s[i] \in Elements(s) /\ t[n] \in Elements(t)
      BY <2>2 DEF Elements
    <3>4. s[i] \in Nat /\ t[n] \in Nat
      BY <2>2
    <3>5. s[i] <= m /\ t[n] > m
      BY <3>3, ZenonT(30)
    <3>6. s[i] < t[n]
      BY <3>4, <3>5
    <3> QED
      BY <3>2, <3>6, ZenonT(30)
  <2>3. CASE i \notin 1..Len(s)
    <3>1. PICK k \in 1..Len(t) : i = Len(s) + k
      BY <2>3, <1>2
    <3>0. j \notin 1..Len(s)
      BY <2>3, <1>1, <1>4
    <3>2. PICK n \in 1..Len(t) : j = Len(s) + n
      BY <3>0, <1>2
    <3>3. k < n
      BY <3>1, <3>2, <1>4, <1>1
    <3>4. t[k] < t[n]
      BY <3>3 DEF Increasing
    <3> QED
      BY <3>1, <3>2, <3>4, <1>1
  <2> QED
    BY <2>1, <2>2, <2>3
<1> QED
  BY <1>3, <1>4 DEF Increasing, u

\* Collecting a record appends a revision above all the others.
LEMMA CollectedBehind ==
  ASSUME NEW s \in Seq(Nat), NEW x \in Nat, Increasing(s),
         \A y \in Elements(s) : y < x
  PROVE  /\ Increasing(Append(s, x))
         /\ Elements(Append(s, x)) = Elements(s) \cup {x}
<1> DEFINE u == Append(s, x)
<1>1. /\ u \in Seq(Nat) /\ Len(s) \in Nat /\ Len(u) = Len(s) + 1 /\ u[Len(u)] = x
      /\ \A n \in 1..Len(s) : u[n] = s[n] /\ n \in 1..Len(u)
      /\ \A n \in 1..Len(u) : n \in 1..Len(s) \/ n = Len(u)
      /\ Len(u) \in 1..Len(u)
  OBVIOUS
<1> HIDE DEF u
<1>2. Elements(u) = Elements(s) \cup {x}
  <2>1. \A y \in Elements(u) : y \in Elements(s) \cup {x}
    BY <1>1, ZenonT(30) DEF Elements
  <2>2. \A y \in Elements(s) : y \in Elements(u)
    BY <1>1 DEF Elements
  <2>3. x \in Elements(u)
    BY <1>1 DEF Elements
  <2> QED
    BY <2>1, <2>2, <2>3, ZenonT(30)
<1>3. ASSUME NEW i \in 1..Len(u), NEW j \in 1..Len(u), i < j
      PROVE  u[i] < u[j]
  <2>1. CASE j \in 1..Len(s)
    <3>1. i \in 1..Len(s)
      BY <2>1, <1>1, <1>3
    <3>2. s[i] < s[j]
      BY <2>1, <3>1, <1>3 DEF Increasing
    <3> QED
      BY <2>1, <3>1, <3>2, <1>1
  <2>2. CASE j = Len(u)
    <3>1. i \in 1..Len(s)
      BY <2>2, <1>1, <1>3
    <3>2. s[i] \in Elements(s)
      BY <3>1 DEF Elements
    <3> QED
      BY <2>2, <3>1, <3>2, <1>1
  <2> QED
    BY <2>1, <2>2, <1>1
<1> QED
  BY <1>2, <1>3 DEF Increasing, u

-----------------------------------------------------------------------------
(* The types.                                                              *)

\* A sequence is a function on 1..Len.
LEMMA SeqFacts ==
  ASSUME NEW S, NEW s \in Seq(S)
  PROVE  Len(s) \in Nat /\ \A n \in 1..Len(s) : s[n] \in S
  OBVIOUS

\* The log, and the revisions up to which it is applied and compacted.
LEMMA LogTypes ==
  ASSUME TypeOK
  PROVE  /\ log \in Seq(Records) /\ Len(log) \in Nat
         /\ \A r \in 1..Len(log) : log[r] \in Records
         /\ applied \in Nat /\ applied <= Len(log)
         /\ compacted \in Nat /\ compacted <= applied
<1>1. log \in Seq(Records) /\ applied \in 0..Len(log) /\ compacted \in 0..applied
  BY ZenonT(30) DEF TypeOK
<1>2. Len(log) \in Nat /\ \A r \in 1..Len(log) : log[r] \in Records
  BY <1>1, SeqFacts
<1> QED
  BY <1>1, <1>2

\* The batches that are committed are sequences of records.
LEMMA BatchType ==
  ASSUME NEW batch \in Batches
  PROVE  batch \in Seq(Records)
<1>1. (\E x \in Records : batch = <<x>>) \/ (\E x, y \in Records : batch = <<x, y>>)
  BY DEF Batches
<1>2. \A x \in Records : <<x>> \in Seq(Records)
  OBVIOUS
<1>3. \A x, y \in Records : <<x, y>> \in Seq(Records)
  OBVIOUS
<1> QED
  BY <1>1, <1>2, <1>3, Zenon

\* What a request asks of a committed record is a finite set of events.
LEMMA WantedFinite ==
  ASSUME TypeOK, NEW w \in Watchers, NEW r \in 1..Len(log)
  PROVE  Cardinality(Wanted(req[w], log[r])) \in Nat
<1>1. log[r] \in Records
  BY LogTypes
<1>2. IsFiniteSet(log[r])
  BY <1>1, WatchAssumption
<1>3. Wanted(req[w], log[r]) \subseteq log[r]
  BY DEF Wanted
<1>4. IsFiniteSet(Wanted(req[w], log[r]))
  BY <1>2, <1>3, FS_Subset
<1> QED
  BY <1>4, FS_CardinalityType

\* The position of a new watcher is a natural number: start 0 is not 0 - 1.
LEMMA FirstDoneType ==
  ASSUME TypeOK, NEW w \in Watchers
  PROVE  /\ FirstDone(w) \in Nat
         /\ req[w].start \in Nat
         /\ req[w].start = 0 => FirstDone(w) = Len(log)
         /\ req[w].start > 0 => FirstDone(w) = req[w].start - 1
<1>1. req[w].start \in Nat
  BY WatchAssumption, ZenonT(30) DEF TypeOK
<1>2. Len(log) \in Nat
  BY LogTypes
<1> QED
  BY <1>1, <1>2 DEF FirstDone

\* Publishing, applying, compacting and rewriting keep the types.
LEMMA LogStepTypes ==
  ASSUME TypeOK,
         \/ \E batch \in Batches : Commit(batch)
         \/ Apply
         \/ \E revision \in 1..MaxLog : Compact(revision)
         \/ \E through \in rewrites : \E upTo \in 0..through : Rewrite(through, upTo)
  PROVE  TypeOK'
<1>0. /\ log \in Seq(Records) /\ Len(log) \in Nat
      /\ applied \in Nat /\ applied <= Len(log)
      /\ compacted \in Nat /\ compacted <= applied
  BY LogTypes
<1>1. ASSUME NEW batch \in Batches, Commit(batch) PROVE TypeOK'
  <2>1. batch \in Seq(Records) /\ Len(batch) \in Nat
    BY BatchType
  <2>2. log' \in Seq(Records) /\ Len(log') = Len(log) + Len(batch)
    BY <1>0, <1>1, <2>1, Extends DEF Commit
  <2>3. Len(log') <= MaxLog
    BY <1>1, <2>2 DEF Commit
  <2>4. Len(log') \in Nat /\ Len(log) <= Len(log') /\ 0..Len(log) \subseteq 0..Len(log')
    BY <1>0, <2>1, <2>2
  <2>5. head' \in [Watchers -> 0..Len(log')]
    <3>1. head \in [Watchers -> 0..Len(log)]
      BY ZenonT(30) DEF TypeOK
    <3>2. Len(log) + Len(batch) \in 0..Len(log')
      BY <2>2, <2>4
    <3>3. head' = [w \in Watchers |-> IF w \in Registered
                                      THEN Len(log) + Len(batch) ELSE head[w]]
      BY <1>1 DEF Commit, OnLogEntry
    <3> QED
      BY <3>1, <3>2, <3>3, <2>4
  <2>6. target' \in [Watchers -> 0..Len(log')]
    BY <1>1, <2>4, ZenonT(30) DEF Commit, runVars, TypeOK
  <2>7. applied' \in 0..Len(log')
    BY <1>1, <2>4, ZenonT(30) DEF Commit, TypeOK
  <2>8. pc' \in [Watchers -> {"none", "checked", "refused", "check", "asleep",
                            "collect", "ended"}]
    BY <1>1, ZenonT(30) DEF Commit, OnLogEntry, Broadcast, TypeOK
  <2> QED
    BY <1>1, <2>2, <2>3, <2>5, <2>6, <2>7, <2>8, ZenonT(30) DEF Commit, runVars, TypeOK
<1>2. ASSUME Apply PROVE TypeOK'
  <2>1. applied' \in 0..Len(log') /\ compacted' \in 0..applied'
    <3>1. applied' = Len(log) /\ log' = log /\ compacted' = compacted
      BY <1>2 DEF Apply
    <3> QED
      BY <3>1, <1>0
  <2> QED
    BY <1>2, <2>1, ZenonT(30) DEF Apply, runVars, TypeOK
<1>3. ASSUME NEW revision \in 1..MaxLog, Compact(revision) PROVE TypeOK'
  <2>1. PICK through \in CompactBounds(revision) :
            /\ \A b \in CompactBounds(revision) : through <= b
            /\ through > compacted
            /\ compacted' = through
            /\ rewrites' = rewrites \cup {through}
    BY <1>3 DEF Compact
  <2>2. through \in Nat
    <3>1. done \in [Watchers -> Nat]
      BY ZenonT(30) DEF TypeOK
    <3> QED
      BY <3>1, <1>0, <2>1 DEF CompactBounds, Registered
  <2>3. through <= applied
    BY <2>1, ZenonT(30) DEF CompactBounds
  <2>4. compacted' \in 0..applied /\ 1..compacted \subseteq 1..compacted'
        /\ through \in 1..compacted'
    BY <1>0, <2>1, <2>2, <2>3
  <2>5. rewrites' \in SUBSET (1..compacted') /\ dropped \in SUBSET (1..compacted')
    BY <2>1, <2>4, ZenonT(30) DEF TypeOK
  <2> QED
    BY <1>3, <2>4, <2>5, ZenonT(30) DEF Compact, runVars, TypeOK
<1>4. ASSUME NEW through \in rewrites, NEW upTo \in 0..through, Rewrite(through, upTo)
      PROVE  TypeOK'
  <2>1. through \in 1..compacted
    BY ZenonT(30) DEF TypeOK
  <2>2. 1..upTo \subseteq 1..compacted
    BY <1>0, <2>1
  <2>3. rewrites' \in SUBSET (1..compacted) /\ dropped' \in SUBSET (1..compacted)
    BY <1>4, <2>2, ZenonT(30) DEF Rewrite, TypeOK
  <2> QED
    BY <1>4, <2>3, ZenonT(30) DEF Rewrite, runVars, TypeOK
<1> QED
  BY <1>1, <1>2, <1>3, <1>4

\* Creating, closing and cancelling watchers keep the types.
LEMMA WatcherStepTypes ==
  ASSUME TypeOK,
         \/ \E w \in Watchers :
               WatchCheck(w) \/ WatchRegister(w) \/ Close(w) \/ Cancel(w)
         \/ GracefulStop
  PROVE  TypeOK'
<1>1. ASSUME NEW w \in Watchers, WatchCheck(w) PROVE TypeOK'
  BY <1>1, ZenonT(30) DEF WatchCheck, logVars, runVars, TypeOK
<1>2. ASSUME NEW w \in Watchers, WatchRegister(w) PROVE TypeOK'
  <2>1. FirstDone(w) \in Nat /\ Len(log) \in 0..Len(log) /\ compacted \in Nat
    BY FirstDoneType, LogTypes
  <2>2. /\ head' \in [Watchers -> 0..Len(log)] /\ done' \in [Watchers -> Nat]
        /\ base' \in [Watchers -> Nat] /\ since' \in [Watchers -> Nat]
    BY <1>2, <2>1, ZenonT(30) DEF WatchRegister, TypeOK
  <2>3. pc' \in [Watchers -> {"none", "checked", "refused", "check", "asleep",
                            "collect", "ended"}]
    BY <1>2, ZenonT(30) DEF WatchRegister, TypeOK
  <2> QED
    BY <1>2, <2>2, <2>3, ZenonT(30) DEF WatchRegister, logVars, runVars, TypeOK
<1>3. ASSUME NEW w \in Watchers, Close(w) PROVE TypeOK'
  BY <1>3, ZenonT(30) DEF Close, Broadcast, logVars, runVars, TypeOK
<1>4. ASSUME NEW w \in Watchers, Cancel(w) PROVE TypeOK'
  BY <1>4, ZenonT(30) DEF Cancel, logVars, runVars, TypeOK
<1>5. ASSUME GracefulStop PROVE TypeOK'
  <2>1. closed' \in [Watchers -> BOOLEAN]
    BY <1>5, Zenon DEF GracefulStop, TypeOK
  <2> QED
    BY <1>5, <2>1, ZenonT(30) DEF GracefulStop, Broadcast, logVars, runVars, TypeOK
<1> QED
  BY <1>1, <1>2, <1>3, <1>4, <1>5

\* Run keeps the types.
LEMMA RunTypes ==
  ASSUME TypeOK, NEW w \in Watchers, Run(w)
  PROVE  TypeOK'
<1>1. CASE RunCheck(w) /\ head[w] > done[w]
  <2>1. <<>> \in Seq(Nat) /\ 0 \in Nat
    OBVIOUS
  <2>2. /\ target' \in [Watchers -> 0..Len(log)] /\ last' \in [Watchers -> Nat]
        /\ events' \in [Watchers -> Seq(Nat)] /\ size' \in [Watchers -> Nat]
    <3>1. /\ target' = [target EXCEPT ![w] = head[w]]
          /\ last' = [last EXCEPT ![w] = done[w]]
          /\ events' = [events EXCEPT ![w] = <<>>]
          /\ size' = [size EXCEPT ![w] = 0]
      BY <1>1 DEF RunCheck
    <3>2. /\ head \in [Watchers -> 0..Len(log)] /\ done \in [Watchers -> Nat]
          /\ target \in [Watchers -> 0..Len(log)] /\ last \in [Watchers -> Nat]
          /\ events \in [Watchers -> Seq(Nat)] /\ size \in [Watchers -> Nat]
      BY ZenonT(30) DEF TypeOK
    <3> QED
      BY <3>1, <3>2, <2>1
  <2> QED
    BY <1>1, <2>2, ZenonT(30) DEF RunCheck, logVars, TypeOK
<1>2. CASE RunCheck(w) /\ ~(head[w] > done[w])
  <2>1. /\ pc' \in [Watchers -> {"none", "checked", "refused", "check", "asleep",
                              "collect", "ended"}]
        /\ why' \in [Watchers -> {"running", "context", "closed", "compacted",
                               "send failed"}]
    BY <1>2, ZenonT(30) DEF RunCheck, Return, TypeOK
  <2> QED
    BY <1>2, <2>1, ZenonT(30) DEF RunCheck, logVars, runVars, TypeOK
<1>3. CASE Collect(w)
  <2>1. /\ last[w] \in Nat /\ target[w] \in 0..Len(log) /\ size[w] \in Nat
        /\ events[w] \in Seq(Nat)
    BY ZenonT(30) DEF TypeOK
  <2>2. last[w] + 1 \in 1..Len(log) /\ last[w] + 1 \in Nat
    <3>1. last[w] < target[w]
      BY <1>3, ZenonT(30) DEF Collect, MoreToCollect
    <3>2. last[w] \in Nat /\ target[w] \in 0..Len(log) /\ Len(log) \in Nat
      BY <2>1, LogTypes, ZenonT(30)
    <3> QED
      BY <3>1, <3>2
  <2> DEFINE evs == Wanted(req[w], log[last[w] + 1])
  <2>3. Cardinality(evs) \in Nat
    BY <2>2, WantedFinite
  <2>4. size[w] + Cardinality(evs) \in Nat
    BY <2>1, <2>3
  <2>5. Append(events[w], last[w] + 1) \in Seq(Nat)
    BY <2>1, <2>2
  <2>6. /\ last' = [last EXCEPT ![w] = last[w] + 1]
        /\ events' = [events EXCEPT ![w] = IF evs = {} THEN events[w]
                                          ELSE Append(events[w], last[w] + 1)]
        /\ size' = [size EXCEPT ![w] = size[w] + Cardinality(evs)]
    BY <1>3 DEF Collect
  <2> HIDE DEF evs
  <2>7. /\ last' \in [Watchers -> Nat] /\ size' \in [Watchers -> Nat]
        /\ events' \in [Watchers -> Seq(Nat)]
    BY <2>1, <2>2, <2>4, <2>5, <2>6, ZenonT(30) DEF TypeOK
  <2> QED
    BY <1>3, <2>7, ZenonT(30) DEF Collect, logVars, TypeOK
<1>4. CASE CollectFails(w)
  BY <1>4, ZenonT(30) DEF CollectFails, Return, logVars, runVars, TypeOK
<1>5. CASE Send(w)
  <2>1. <<>> \in Seq(Nat) /\ 0 \in Nat
    OBVIOUS
  <2>2. sent[w] \in Seq(Nat) /\ events[w] \in Seq(Nat) /\ last[w] \in Nat
    BY ZenonT(30) DEF TypeOK
  <2>3. sent[w] \o events[w] \in Seq(Nat)
    BY <2>2
  <2>4. /\ sent' \in [Watchers -> Seq(Nat)] /\ done' \in [Watchers -> Nat]
        /\ events' \in [Watchers -> Seq(Nat)] /\ size' \in [Watchers -> Nat]
    BY <1>5, <2>1, <2>2, <2>3, ZenonT(30) DEF Send, TypeOK
  <2>5. pc' \in [Watchers -> {"none", "checked", "refused", "check", "asleep",
                            "collect", "ended"}]
    BY <1>5, ZenonT(30) DEF Send, TypeOK
  <2> QED
    BY <1>5, <2>4, <2>5, ZenonT(30) DEF Send, logVars, TypeOK
<1>6. CASE SendFails(w)
  BY <1>6, ZenonT(30) DEF SendFails, Return, logVars, runVars, TypeOK
<1> QED
  BY <1>1, <1>2, <1>3, <1>4, <1>5, <1>6 DEF Run

-----------------------------------------------------------------------------
(* The invariant of the watchers.                                          *)

\* The revisions lo..hi of a log that has grown match as they did.
LEMMA MatchingKept ==
  ASSUME NEW w \in Watchers, NEW lo \in Nat \ {0}, NEW hi \in Nat,
         Len(log) \in Nat, hi <= Len(log) \/ hi < lo,
         \A r \in 1..Len(log) : log'[r] = log[r],
         req' = req
  PROVE  {r \in lo..hi : Wanted(req'[w], log'[r]) # {}} = Matching(w, lo, hi)
<1>1. \A r \in lo..hi : log'[r] = log[r]
  OBVIOUS
<1> QED
  BY <1>1 DEF Matching

\* A step that leaves a watcher's position and response alone, keeps the log's
\* revisions and does not compact past an open watcher keeps its invariant.
LEMMA Carries ==
  ASSUME TypeOK, TypeOK', NEW w \in Watchers, WatcherInv(w),
         Len(log) <= Len(log'), \A r \in 1..Len(log) : log'[r] = log[r],
         req' = req,
         done'[w] = done[w], base'[w] = base[w], since'[w] = since[w],
         sent'[w] = sent[w], last'[w] = last[w], target'[w] = target[w],
         events'[w] = events[w],
         w \in Registered' <=> w \in Registered,
         pc'[w] = "collect" => pc[w] = "collect",
         /\ w \in Registered /\ ~closed'[w] /\ base[w] >= since[w]
         => compacted' <= done[w]
  PROVE  WatcherInv(w)'
<1>1. /\ done[w] \in Nat /\ base[w] \in Nat /\ last[w] \in Nat
      /\ target[w] \in 0..Len(log)
  BY ZenonT(30) DEF TypeOK
<1>2. Len(log) \in Nat /\ Len(log') \in Nat
  BY LogTypes, SeqFacts, ZenonT(30) DEF TypeOK
<1>3. w \notin Registered' => sent'[w] = <<>>
  BY DEF WatcherInv
<1>4. ASSUME w \in Registered'
      PROVE  /\ base'[w] <= done'[w]
             /\ req'[w].start > 0 => base'[w] = req'[w].start - 1
             /\ done'[w] <= Len(log') \/ done'[w] = base'[w]
             /\ Increasing(sent'[w])
             /\ ~closed'[w] /\ base'[w] >= since'[w] => compacted' <= done'[w]
  <2>1. /\ base[w] <= done[w]
        /\ req[w].start > 0 => base[w] = req[w].start - 1
        /\ done[w] <= Len(log) \/ done[w] = base[w]
        /\ Increasing(sent[w])
    BY <1>4, ZenonT(30) DEF WatcherInv
  <2> QED
    BY <1>1, <1>2, <1>4, <2>1
<1>5. ASSUME w \in Registered'
      PROVE  Elements(sent'[w]) =
                {r \in (base'[w] + 1)..done'[w] : Wanted(req'[w], log'[r]) # {}}
  <2>1. /\ done[w] <= Len(log) \/ done[w] = base[w]
        /\ Elements(sent[w]) = Matching(w, base[w] + 1, done[w])
    BY <1>5, ZenonT(30) DEF WatcherInv
  <2>2. base[w] + 1 \in Nat \ {0} /\ (done[w] <= Len(log) \/ done[w] < base[w] + 1)
    BY <1>1, <2>1
  <2>3. {r \in (base[w] + 1)..done[w] : Wanted(req'[w], log'[r]) # {}}
            = Matching(w, base[w] + 1, done[w])
    BY <1>1, <1>2, <2>2, MatchingKept, ZenonT(30)
  <2> QED
    BY <2>1, <2>3, ZenonT(30)
<1>6. ASSUME pc'[w] = "collect"
      PROVE  /\ done'[w] <= last'[w] /\ last'[w] <= target'[w]
             /\ Increasing(events'[w])
             /\ Elements(events'[w]) =
                   {r \in (done'[w] + 1)..last'[w] : Wanted(req'[w], log'[r]) # {}}
  <2>1. /\ done[w] <= last[w] /\ last[w] <= target[w]
        /\ Increasing(events[w])
        /\ Elements(events[w]) = Matching(w, done[w] + 1, last[w])
    BY <1>6, ZenonT(30) DEF WatcherInv
  <2>2. done[w] + 1 \in Nat \ {0} /\ last[w] <= Len(log)
    BY <1>1, <1>2, <2>1
  <2>3. {r \in (done[w] + 1)..last[w] : Wanted(req'[w], log'[r]) # {}}
            = Matching(w, done[w] + 1, last[w])
    BY <1>1, <1>2, <2>2, MatchingKept, ZenonT(30)
  <2> QED
    BY <2>1, <2>3, ZenonT(30)
<1> QED
  BY <1>3, <1>4, <1>5, <1>6, ZenonT(30) DEF WatcherInv, Matching

\* An open watcher that was registered above the compacted revision stays
\* above it while that revision does not move.
LEMMA AboveKept ==
  ASSUME NEW w \in Watchers, WatcherInv(w), compacted' = compacted,
         closed[w] => closed'[w]
  PROVE  w \in Registered /\ ~closed'[w] /\ base[w] >= since[w] => compacted' <= done[w]
  BY DEF WatcherInv

\* Waking watchers changes neither who is registered nor who collects.
LEMMA BroadcastKeeps ==
  ASSUME TypeOK, NEW S, pc' = Broadcast(S), NEW w \in Watchers
  PROVE  /\ w \in Registered' <=> w \in Registered
         /\ pc'[w] = "collect" => pc[w] = "collect"
  BY ZenonT(30) DEF Broadcast, Registered, TypeOK

\* Steps of the log and of the index.  Compact takes the least of its bounds,
\* the position of every open watcher among them.
LEMMA LogStepInv ==
  ASSUME TypeOK, TypeOK', WatchInv,
         \/ \E batch \in Batches : Commit(batch)
         \/ Apply
         \/ \E revision \in 1..MaxLog : Compact(revision)
         \/ \E through \in rewrites : \E upTo \in 0..through : Rewrite(through, upTo)
  PROVE  WatchInv'
<1> SUFFICES ASSUME NEW w \in Watchers PROVE WatcherInv(w)'
  BY DEF WatchInv
<1>0. WatcherInv(w) /\ Len(log) \in Nat
  BY LogTypes DEF WatchInv
<1>1. ASSUME NEW batch \in Batches, Commit(batch) PROVE WatcherInv(w)'
  <2>1. log \in Seq(Records) /\ batch \in Seq(Records) /\ Len(batch) \in Nat
    BY BatchType, LogTypes
  <2>2. log' = log \o batch
    BY <1>1 DEF Commit
  <2>3. Len(log) <= Len(log') /\ \A r \in 1..Len(log) : log'[r] = log[r]
    BY <1>0, <2>1, <2>2, Extends
  <2>4. pc' = Broadcast(Registered) /\ compacted' = compacted /\ closed' = closed
    BY <1>1 DEF Commit, OnLogEntry
  <2>5. /\ w \in Registered' <=> w \in Registered
        /\ pc'[w] = "collect" => pc[w] = "collect"
    BY <2>4, BroadcastKeeps
  <2>6. w \in Registered /\ ~closed'[w] /\ base[w] >= since[w] => compacted' <= done[w]
    BY <1>0, <2>4, AboveKept
  <2>7. UNCHANGED <<req, done, base, since, sent, last, target, events>>
    BY <1>1 DEF Commit, runVars
  <2> QED
    BY <1>0, <2>3, <2>5, <2>6, <2>7, Carries
<1>2. ASSUME Apply PROVE WatcherInv(w)'
  <2>1. UNCHANGED <<log, compacted, closed, pc, req, done, base, since, sent, last,
                    target, events>>
    BY <1>2 DEF Apply, runVars
  <2>2. w \in Registered /\ ~closed'[w] /\ base[w] >= since[w] => compacted' <= done[w]
    BY <1>0, <2>1, AboveKept
  <2>3. /\ w \in Registered' <=> w \in Registered
        /\ pc'[w] = "collect" => pc[w] = "collect"
    BY <2>1 DEF Registered
  <2>4. Len(log) <= Len(log') /\ \A r \in 1..Len(log) : log'[r] = log[r]
    BY <1>0, <2>1
  <2>5. /\ req' = req /\ done'[w] = done[w] /\ base'[w] = base[w] /\ since'[w] = since[w]
        /\ sent'[w] = sent[w] /\ last'[w] = last[w] /\ target'[w] = target[w]
        /\ events'[w] = events[w]
    BY <2>1
  <2> QED
    BY <1>0, <2>2, <2>3, <2>4, <2>5, Carries, ZenonT(30)
<1>3. ASSUME NEW revision \in 1..MaxLog, Compact(revision) PROVE WatcherInv(w)'
  <2>1. UNCHANGED <<log, closed, pc, req, done, base, since, sent, last, target, events>>
    BY <1>3 DEF Compact, runVars
  <2>2. \A b \in CompactBounds(revision) : compacted' <= b
    BY <1>3 DEF Compact
  <2>3. w \in Registered /\ ~closed[w] => done[w] \in CompactBounds(revision)
    BY DEF CompactBounds
  <2>4. w \in Registered /\ ~closed'[w] /\ base[w] >= since[w] => compacted' <= done[w]
    BY <2>1, <2>2, <2>3
  <2>5. /\ w \in Registered' <=> w \in Registered
        /\ pc'[w] = "collect" => pc[w] = "collect"
    BY <2>1 DEF Registered
  <2>6. Len(log) <= Len(log') /\ \A r \in 1..Len(log) : log'[r] = log[r]
    BY <1>0, <2>1
  <2>7. /\ req' = req /\ done'[w] = done[w] /\ base'[w] = base[w] /\ since'[w] = since[w]
        /\ sent'[w] = sent[w] /\ last'[w] = last[w] /\ target'[w] = target[w]
        /\ events'[w] = events[w]
    BY <2>1
  <2> QED
    BY <1>0, <2>4, <2>5, <2>6, <2>7, Carries
<1>4. ASSUME NEW through \in rewrites, NEW upTo \in 0..through, Rewrite(through, upTo)
      PROVE  WatcherInv(w)'
  <2>1. UNCHANGED <<log, compacted, closed, pc, req, done, base, since, sent, last,
                    target, events>>
    BY <1>4 DEF Rewrite, runVars
  <2>2. w \in Registered /\ ~closed'[w] /\ base[w] >= since[w] => compacted' <= done[w]
    BY <1>0, <2>1, AboveKept, ZenonT(30)
  <2>3. /\ w \in Registered' <=> w \in Registered
        /\ pc'[w] = "collect" => pc[w] = "collect"
    BY <2>1 DEF Registered
  <2>4. Len(log) <= Len(log') /\ \A r \in 1..Len(log) : log'[r] = log[r]
    BY <1>0, <2>1
  <2>5. /\ req' = req /\ done'[w] = done[w] /\ base'[w] = base[w] /\ since'[w] = since[w]
        /\ sent'[w] = sent[w] /\ last'[w] = last[w] /\ target'[w] = target[w]
        /\ events'[w] = events[w]
    BY <2>1
  <2> QED
    BY <1>0, <2>2, <2>3, <2>4, <2>5, Carries, ZenonT(30)
<1> QED
  BY <1>1, <1>2, <1>3, <1>4

\* A step of another watcher.
LEMMA OtherKeeps ==
  ASSUME TypeOK, TypeOK', WatchInv, NEW w \in Watchers, NEW v \in Watchers, v # w,
         \/ WatchCheck(v) \/ WatchRegister(v) \/ Close(v) \/ Cancel(v) \/ Run(v)
  PROVE  WatcherInv(w)'
<1>0. WatcherInv(w) /\ Len(log) \in Nat
  BY LogTypes DEF WatchInv
<1>1. UNCHANGED <<log, compacted, req>>
  BY ZenonT(30) DEF WatchCheck, WatchRegister, Close, Cancel, Run, RunCheck, Collect,
         CollectFails, Send, SendFails, logVars
<1>2. pc'[w] = pc[w] /\ closed'[w] = closed[w]
  <2>1. CASE WatchCheck(v) \/ WatchRegister(v) \/ Close(v) \/ Cancel(v)
    BY <2>1, ZenonT(30) DEF WatchCheck, WatchRegister, Close, Broadcast, Cancel, TypeOK
  <2>2. CASE RunCheck(v)
    <3>1. \/ pc' = [pc EXCEPT ![v] = "collect"] \/ pc' = [pc EXCEPT ![v] = "ended"]
          \/ pc' = [pc EXCEPT ![v] = "asleep"]
      BY <2>2 DEF RunCheck, Return
    <3>2. closed' = closed /\ pc \in [Watchers -> {"none", "checked", "refused",
                                     "check", "asleep", "collect", "ended"}]
      BY <2>2, ZenonT(30) DEF RunCheck, TypeOK
    <3> QED
      BY <3>1, <3>2
  <2>3. CASE Collect(v) \/ CollectFails(v)
    BY <2>3, ZenonT(30) DEF Collect, CollectFails, Return, TypeOK
  <2>4. CASE Send(v) \/ SendFails(v)
    BY <2>4, ZenonT(30) DEF Send, SendFails, Return, TypeOK
  <2> QED
    BY <2>1, <2>2, <2>3, <2>4, ZenonT(30) DEF Run
<1>3. done'[w] = done[w] /\ base'[w] = base[w] /\ since'[w] = since[w]
  <2>0. w \in DOMAIN done /\ w \in DOMAIN base /\ w \in DOMAIN since
    BY ZenonT(30) DEF TypeOK
  <2>1. CASE WatchRegister(v)
    BY <2>0, <2>1 DEF WatchRegister
  <2>2. CASE Send(v)
    BY <2>0, <2>2 DEF Send
  <2>3. CASE \/ WatchCheck(v) \/ Close(v) \/ Cancel(v) \/ RunCheck(v)
             \/ Collect(v) \/ CollectFails(v) \/ SendFails(v)
    BY <2>3, ZenonT(30) DEF WatchCheck, Close, Cancel, RunCheck, Collect, CollectFails, SendFails
  <2> QED
    BY <2>1, <2>2, <2>3, ZenonT(30) DEF Run
<1>4. /\ sent'[w] = sent[w] /\ last'[w] = last[w]
      /\ target'[w] = target[w] /\ events'[w] = events[w]
  <2>0. /\ sent \in [Watchers -> Seq(Nat)] /\ last \in [Watchers -> Nat]
        /\ target \in [Watchers -> 0..Len(log)] /\ events \in [Watchers -> Seq(Nat)]
    BY ZenonT(30) DEF TypeOK
  <2>1. CASE WatchCheck(v) \/ WatchRegister(v) \/ Close(v) \/ Cancel(v)
    BY <2>1, ZenonT(30) DEF WatchCheck, WatchRegister, Close, Cancel, runVars
  <2>2. CASE RunCheck(v)
    BY <2>0, <2>2 DEF RunCheck, runVars
  <2>3. CASE Collect(v)
    BY <2>0, <2>3, ZenonT(30) DEF Collect
  <2>4. CASE CollectFails(v) \/ SendFails(v)
    BY <2>4, ZenonT(30) DEF CollectFails, SendFails, runVars
  <2>5. CASE Send(v)
    BY <2>0, <2>5 DEF Send
  <2> QED
    BY <2>1, <2>2, <2>3, <2>4, <2>5, ZenonT(30) DEF Run
<1>5. w \in Registered /\ ~closed'[w] /\ base[w] >= since[w] => compacted' <= done[w]
  BY <1>0, <1>1, <1>2, AboveKept, ZenonT(30)
<1>6. w \in Registered' <=> w \in Registered
  BY <1>2, ZenonT(30) DEF Registered
<1> QED
  BY <1>0, <1>1, <1>2, <1>3, <1>4, <1>5, <1>6, Carries

\* Registration: the position starts below the first revision asked for.
LEMMA RegisterInv ==
  ASSUME TypeOK, TypeOK', NEW w \in Watchers, WatcherInv(w), WatchRegister(w)
  PROVE  WatcherInv(w)'
<1>1. /\ FirstDone(w) \in Nat /\ req[w].start \in Nat
      /\ req[w].start = 0 => FirstDone(w) = Len(log)
      /\ req[w].start > 0 => FirstDone(w) = req[w].start - 1
  BY FirstDoneType
<1>2. pc'[w] = "check" /\ done'[w] = FirstDone(w) /\ base'[w] = FirstDone(w)
      /\ since'[w] = compacted
  <2>1. DOMAIN pc = Watchers /\ DOMAIN done = Watchers /\ DOMAIN base = Watchers
        /\ DOMAIN since = Watchers
    BY ZenonT(30) DEF TypeOK
  <2> QED
    BY <2>1 DEF WatchRegister
<1>3. UNCHANGED <<log, compacted, req, sent>>
  BY DEF WatchRegister, logVars, runVars
<1>4. w \notin Registered /\ w \in Registered'
  BY <1>2 DEF WatchRegister, Registered
<1>5. sent'[w] = <<>>
  BY <1>3, <1>4, ZenonT(30) DEF WatcherInv
<1>6. Increasing(sent'[w]) /\ Elements(sent'[w]) = {}
  BY <1>5 DEF Increasing, Elements
<1>7. (base'[w] + 1)..done'[w] = {}
  BY <1>1, <1>2
<1>8. Elements(sent'[w]) =
        {r \in (base'[w] + 1)..done'[w] : Wanted(req'[w], log'[r]) # {}}
  BY <1>6, <1>7, ZenonT(30)
<1>9. /\ base'[w] <= done'[w]
      /\ req'[w].start > 0 => base'[w] = req'[w].start - 1
      /\ done'[w] = base'[w]
      /\ ~closed'[w] /\ base'[w] >= since'[w] => compacted' <= done'[w]
  <2>1. compacted \in Nat
    BY LogTypes
  <2>2. FirstDone(w) <= FirstDone(w) /\ (FirstDone(w) >= compacted => compacted <= FirstDone(w))
    BY <1>1, <2>1
  <2> QED
    BY <1>1, <1>2, <1>3, <2>2, ZenonT(30)
<1> QED
  BY <1>2, <1>4, <1>6, <1>8, <1>9, ZenonT(30) DEF WatcherInv, Matching

\* The top of the loop: the response starts empty, at the position.
LEMMA RunCheckInv ==
  ASSUME TypeOK, TypeOK', NEW w \in Watchers, WatcherInv(w), RunCheck(w)
  PROVE  WatcherInv(w)'
<1>1. UNCHANGED <<log, compacted, req, done, base, since, closed, sent>>
  BY DEF RunCheck, logVars, runVars
<1>2. Len(log) \in Nat /\ done[w] \in Nat /\ head[w] \in 0..Len(log)
  BY LogTypes, ZenonT(30) DEF TypeOK
<1>3. w \in Registered /\ w \in Registered'
  <2>1. pc'[w] \in {"collect", "ended", "asleep"}
    <3>1. \/ pc' = [pc EXCEPT ![w] = "collect"] \/ pc' = [pc EXCEPT ![w] = "ended"]
          \/ pc' = [pc EXCEPT ![w] = "asleep"]
      BY DEF RunCheck, Return
    <3>2. w \in DOMAIN pc
      BY ZenonT(30) DEF TypeOK
    <3> QED
      BY <3>1, <3>2
  <2> QED
    BY <2>1 DEF RunCheck, Registered
<1>4. CASE head[w] > done[w]
  <2>1. last'[w] = done[w] /\ target'[w] = head[w] /\ events'[w] = <<>>
    <3>1. w \in DOMAIN last /\ w \in DOMAIN target /\ w \in DOMAIN events
      BY ZenonT(30) DEF TypeOK
    <3> QED
      BY <1>4, <3>1 DEF RunCheck
  <2>2. Increasing(events'[w]) /\ Elements(events'[w]) = {}
    BY <2>1 DEF Increasing, Elements
  <2>3. (done'[w] + 1)..last'[w] = {} /\ done'[w] <= last'[w] /\ last'[w] <= target'[w]
    BY <1>1, <1>2, <1>4, <2>1
  <2>4. Elements(events'[w]) =
          {r \in (done'[w] + 1)..last'[w] : Wanted(req'[w], log'[r]) # {}}
    BY <2>2, <2>3, ZenonT(30)
  <2> QED
    BY <1>1, <1>3, <2>2, <2>3, <2>4, ZenonT(30) DEF WatcherInv, Matching
<1>5. CASE ~(head[w] > done[w])
  <2>1. pc'[w] # "collect"
    <3>1. pc' = [pc EXCEPT ![w] = "ended"] \/ pc' = [pc EXCEPT ![w] = "asleep"]
      BY <1>5 DEF RunCheck, Return
    <3>2. w \in DOMAIN pc
      BY ZenonT(30) DEF TypeOK
    <3> QED
      BY <3>1, <3>2
  <2> QED
    BY <1>1, <1>3, <2>1, ZenonT(30) DEF WatcherInv, Matching
<1> QED
  BY <1>4, <1>5, ZenonT(30)

\* An interval of revisions that grows by one.
LEMMA IntervalGrows ==
  ASSUME NEW d \in Nat, NEW l \in Nat, NEW t \in Nat, d <= l, l < t
  PROVE  /\ l + 1 \in Nat /\ d <= l + 1 /\ l + 1 <= t
         /\ (d + 1)..(l + 1) = ((d + 1)..l) \cup {l + 1}
  OBVIOUS

\* Collecting: the next record's revision joins the response if it matches.
LEMMA CollectInv ==
  ASSUME TypeOK, TypeOK', NEW w \in Watchers, WatcherInv(w), Collect(w)
  PROVE  WatcherInv(w)'
<1> DEFINE next == last[w] + 1
           evs == Wanted(req[w], log[next])
<1>1. UNCHANGED <<log, compacted, pc, req, done, base, since, closed, sent, target>>
  BY DEF Collect, logVars
<1>2. /\ last[w] \in Nat /\ done[w] \in Nat /\ target[w] \in 0..Len(log)
      /\ events[w] \in Seq(Nat) /\ Len(log) \in Nat
  BY LogTypes, ZenonT(30) DEF TypeOK
<1>3. /\ pc[w] = "collect" /\ last[w] < target[w]
      /\ done[w] <= last[w] /\ Increasing(events[w])
      /\ Elements(events[w]) = Matching(w, done[w] + 1, last[w])
  BY ZenonT(30) DEF Collect, MoreToCollect, WatcherInv
<1>4. /\ last'[w] = next
      /\ events'[w] = IF evs = {} THEN events[w] ELSE Append(events[w], next)
  <2>1. w \in DOMAIN last /\ w \in DOMAIN events
    BY ZenonT(30) DEF TypeOK
  <2> QED
    BY <2>1 DEF Collect
<1>5. /\ next \in Nat /\ done[w] <= next /\ next <= target[w]
      /\ (done[w] + 1)..next = ((done[w] + 1)..last[w]) \cup {next}
  <2>1. last[w] \in Nat /\ done[w] \in Nat /\ target[w] \in 0..Len(log) /\ Len(log) \in Nat
    BY <1>2, ZenonT(30)
  <2>2. target[w] \in Nat
    BY <2>1
  <2>3. done[w] <= last[w] /\ last[w] < target[w]
    BY <1>3, ZenonT(30)
  <2> QED
    BY <2>1, <2>2, <2>3, IntervalGrows, ZenonT(30)
<1>6. Matching(w, done[w] + 1, next) =
        Matching(w, done[w] + 1, last[w]) \cup (IF evs = {} THEN {} ELSE {next})
  <2>1. (done[w] + 1)..next = ((done[w] + 1)..last[w]) \cup {next}
    BY <1>5, ZenonT(30)
  <2> QED
    BY <2>1, ZenonT(30) DEF Matching
<1>7. \A y \in Elements(events[w]) : y < next
  <2>1. \A y \in Elements(events[w]) : y \in (done[w] + 1)..last[w]
    BY <1>3, ZenonT(30) DEF Matching
  <2>2. last[w] \in Nat /\ done[w] \in Nat
    BY <1>2, ZenonT(30)
  <2> QED
    BY <2>1, <2>2
<1> HIDE DEF next, evs
<1>8. /\ Increasing(events'[w])
      /\ Elements(events'[w]) = Matching(w, done[w] + 1, next)
  <2>1. CASE evs = {}
    BY <1>3, <1>4, <1>6, <2>1, ZenonT(30)
  <2>2. CASE evs # {}
    <3>1. events'[w] = Append(events[w], next)
      BY <1>4, <2>2
    <3>2. /\ Increasing(Append(events[w], next))
          /\ Elements(Append(events[w], next)) = Elements(events[w]) \cup {next}
      BY <1>2, <1>3, <1>5, <1>7, CollectedBehind, ZenonT(30)
    <3> QED
      BY <1>3, <1>6, <2>2, <3>1, <3>2, ZenonT(30)
  <2> QED
    BY <2>1, <2>2
<1>9. /\ done'[w] <= last'[w] /\ last'[w] <= target'[w]
      /\ Elements(events'[w]) =
            {r \in (done'[w] + 1)..last'[w] : Wanted(req'[w], log'[r]) # {}}
  BY <1>1, <1>4, <1>5, <1>8 DEF Matching
<1>10. w \in Registered /\ w \in Registered'
  BY <1>1, <1>3, ZenonT(30) DEF Registered
<1> QED
  BY <1>1, <1>8, <1>9, <1>10, ZenonT(30) DEF WatcherInv, Matching

\* Sending: the response is of the revisions after the position, so it goes
\* behind what was sent, and the position moves to its end.
LEMMA SendInv ==
  ASSUME TypeOK, TypeOK', NEW w \in Watchers, WatcherInv(w), Send(w)
  PROVE  WatcherInv(w)'
<1>1. UNCHANGED <<log, compacted, req, base, since, closed, target, last>>
  BY ZenonT(30) DEF Send, logVars
<1>2. /\ last[w] \in Nat /\ done[w] \in Nat /\ base[w] \in Nat /\ compacted \in Nat
      /\ target[w] \in 0..Len(log) /\ Len(log) \in Nat
      /\ events[w] \in Seq(Nat) /\ sent[w] \in Seq(Nat)
  BY LogTypes, ZenonT(30) DEF TypeOK
<1>3. pc[w] = "collect" /\ w \in Registered
  BY ZenonT(30) DEF Send, Registered
<1>4. /\ done[w] <= last[w] /\ last[w] <= target[w] /\ base[w] <= done[w]
      /\ Increasing(events[w]) /\ Increasing(sent[w])
      /\ Elements(events[w]) = Matching(w, done[w] + 1, last[w])
      /\ Elements(sent[w]) = Matching(w, base[w] + 1, done[w])
      /\ req[w].start > 0 => base[w] = req[w].start - 1
      /\ ~closed[w] /\ base[w] >= since[w] => compacted <= done[w]
  BY <1>3, ZenonT(30) DEF WatcherInv
<1>5. /\ done'[w] = last[w] /\ sent'[w] = sent[w] \o events[w] /\ events'[w] = <<>>
      /\ pc'[w] \in {"collect", "check"}
  <2>1. w \in DOMAIN done /\ w \in DOMAIN sent /\ w \in DOMAIN events /\ w \in DOMAIN pc
    BY ZenonT(30) DEF TypeOK
  <2> QED
    BY <2>1 DEF Send
<1>6. /\ \A x \in Elements(sent[w]) : x <= done[w]
      /\ \A x \in Elements(events[w]) : x > done[w]
  <2>1. done[w] \in Nat /\ base[w] \in Nat /\ last[w] \in Nat
    BY <1>2, ZenonT(30)
  <2>2. ASSUME NEW x \in Elements(sent[w]) PROVE x <= done[w]
    <3>1. x \in Matching(w, base[w] + 1, done[w])
      BY <1>4, ZenonT(30)
    <3>2. x \in (base[w] + 1)..done[w]
      BY <3>1 DEF Matching
    <3> QED
      BY <2>1, <3>2
  <2>3. ASSUME NEW x \in Elements(events[w]) PROVE x > done[w]
    <3>1. x \in Matching(w, done[w] + 1, last[w])
      BY <1>4, ZenonT(30)
    <3>2. x \in (done[w] + 1)..last[w]
      BY <3>1 DEF Matching
    <3> QED
      BY <2>1, <3>2
  <2> QED
    BY <2>2, <2>3, ZenonT(30)
<1>7. /\ Increasing(sent'[w])
      /\ Elements(sent'[w]) = Elements(sent[w]) \cup Elements(events[w])
  BY <1>2, <1>4, <1>5, <1>6, SentBehind, ZenonT(30)
<1>8. (base[w] + 1)..last[w] = ((base[w] + 1)..done[w]) \cup ((done[w] + 1)..last[w])
  <2>1. done[w] \in Nat /\ base[w] \in Nat /\ last[w] \in Nat
    BY <1>2, ZenonT(30)
  <2>2. base[w] <= done[w] /\ done[w] <= last[w]
    BY <1>4, ZenonT(30)
  <2> QED
    BY <2>1, <2>2
<1>9. Matching(w, base[w] + 1, last[w]) =
        Matching(w, base[w] + 1, done[w]) \cup Matching(w, done[w] + 1, last[w])
  BY <1>8, ZenonT(30) DEF Matching
<1>10. Elements(sent'[w]) = Matching(w, base[w] + 1, last[w])
  BY <1>4, <1>7, <1>9, ZenonT(30)
<1>11. /\ base'[w] <= done'[w] /\ done'[w] <= Len(log')
       /\ req'[w].start > 0 => base'[w] = req'[w].start - 1
       /\ ~closed'[w] /\ base'[w] >= since'[w] => compacted' <= done'[w]
       /\ done'[w] <= last'[w] /\ last'[w] <= target'[w]
  <2>1. /\ done[w] \in Nat /\ base[w] \in Nat /\ last[w] \in Nat /\ compacted \in Nat
        /\ target[w] \in 0..Len(log) /\ Len(log) \in Nat
    BY <1>2, ZenonT(30)
  <2>2. base[w] <= done[w] /\ done[w] <= last[w] /\ last[w] <= target[w]
    BY <1>4, ZenonT(30)
  <2>3. base'[w] = base[w] /\ last'[w] = last[w] /\ target'[w] = target[w] /\ log' = log
    BY <1>1
  <2>4. /\ base'[w] <= done'[w] /\ done'[w] <= Len(log')
        /\ done'[w] <= last'[w] /\ last'[w] <= target'[w]
    BY <1>5, <2>1, <2>2, <2>3
  <2>5. req'[w].start > 0 => base'[w] = req'[w].start - 1
    BY <1>1, <1>4, ZenonT(30)
  <2>6. ~closed[w] /\ base[w] >= since[w] => compacted <= last[w]
    BY <1>4, <2>1, <2>2
  <2>7. ~closed'[w] /\ base'[w] >= since'[w] => compacted' <= done'[w]
    BY <1>1, <1>5, <2>6, ZenonT(30)
  <2> QED
    BY <2>4, <2>5, <2>7, ZenonT(30)
<1>12. Increasing(events'[w]) /\ Elements(events'[w]) = {} /\ (done'[w] + 1)..last'[w] = {}
  <2>1. events'[w] = <<>> /\ done'[w] = last'[w] /\ last'[w] \in Nat
    BY <1>1, <1>2, <1>5, ZenonT(30)
  <2>2. Increasing(events'[w]) /\ Elements(events'[w]) = {}
    BY <2>1 DEF Increasing, Elements
  <2>3. (done'[w] + 1)..last'[w] = {}
    BY <2>1
  <2> QED
    BY <2>2, <2>3, ZenonT(30)
<1>13. /\ Elements(sent'[w]) =
             {r \in (base'[w] + 1)..done'[w] : Wanted(req'[w], log'[r]) # {}}
       /\ Elements(events'[w]) =
             {r \in (done'[w] + 1)..last'[w] : Wanted(req'[w], log'[r]) # {}}
  BY <1>1, <1>5, <1>10, <1>12, ZenonT(30) DEF Matching
<1>14. w \in Registered'
  BY <1>5 DEF Registered
<1> QED
  BY <1>7, <1>11, <1>12, <1>13, <1>14, ZenonT(30) DEF WatcherInv, Matching

\* A watcher's remaining steps leave its position and its response alone.
LEMMA QuietInv ==
  ASSUME TypeOK, TypeOK', NEW w \in Watchers, WatcherInv(w),
         \/ WatchCheck(w) \/ Close(w) \/ Cancel(w) \/ GracefulStop
         \/ CollectFails(w) \/ SendFails(w)
  PROVE  WatcherInv(w)'
<1>1. UNCHANGED <<log, compacted, req, done, base, since, sent, last, target, events>>
  BY ZenonT(30) DEF WatchCheck, Close, Cancel, GracefulStop, CollectFails, SendFails, logVars, runVars
<1>2. Len(log) \in Nat
  BY LogTypes
<1>3. closed[w] => closed'[w]
  <2>1. CASE GracefulStop
    BY <2>1, Zenon DEF GracefulStop
  <2>2. CASE Close(w)
    BY <2>2 DEF Close
  <2>3. CASE WatchCheck(w) \/ Cancel(w) \/ CollectFails(w) \/ SendFails(w)
    BY <2>3, ZenonT(30) DEF WatchCheck, Cancel, CollectFails, SendFails
  <2> QED
    BY <2>1, <2>2, <2>3, ZenonT(30)
<1>4. /\ w \in Registered' <=> w \in Registered
      /\ pc'[w] = "collect" => pc[w] = "collect"
  <2>1. CASE Close(w) \/ GracefulStop
    BY <2>1, BroadcastKeeps, ZenonT(30) DEF Close, GracefulStop
  <2>2. CASE Cancel(w)
    BY <2>2 DEF Cancel, Registered
  <2>3. CASE WatchCheck(w) \/ CollectFails(w) \/ SendFails(w)
    <3>1. w \in DOMAIN pc
      BY ZenonT(30) DEF TypeOK
    <3> QED
      BY <2>3, <3>1, ZenonT(30) DEF WatchCheck, CollectFails, SendFails, Return, Registered
  <2> QED
    BY <2>1, <2>2, <2>3, ZenonT(30)
<1>5. w \in Registered /\ ~closed'[w] /\ base[w] >= since[w] => compacted' <= done[w]
  BY <1>1, <1>3, AboveKept, ZenonT(30)
<1>6. Len(log) <= Len(log') /\ \A r \in 1..Len(log) : log'[r] = log[r]
  BY <1>1, <1>2
<1>7. /\ req' = req /\ done'[w] = done[w] /\ base'[w] = base[w] /\ since'[w] = since[w]
      /\ sent'[w] = sent[w] /\ last'[w] = last[w] /\ target'[w] = target[w]
      /\ events'[w] = events[w]
  BY <1>1, ZenonT(30)
<1> QED
  BY <1>4, <1>5, <1>6, <1>7, Carries, ZenonT(30)

\* Every step keeps the types and the invariant of the watchers.
LEMMA NextInv ==
  ASSUME TypeOK, WatchInv, [Next]_vars
  PROVE  TypeOK' /\ WatchInv'
<1>1. CASE \/ \E batch \in Batches : Commit(batch)
           \/ Apply
           \/ \E revision \in 1..MaxLog : Compact(revision)
           \/ \E through \in rewrites : \E upTo \in 0..through : Rewrite(through, upTo)
  <2>1. TypeOK'
    BY <1>1, LogStepTypes
  <2> QED
    BY <1>1, <2>1, LogStepInv
<1>2. CASE GracefulStop
  <2>1. TypeOK'
    BY <1>2, WatcherStepTypes
  <2> QED
    BY <1>2, <2>1, QuietInv DEF WatchInv
<1>3. ASSUME NEW v \in Watchers,
             WatchCheck(v) \/ WatchRegister(v) \/ Close(v) \/ Cancel(v) \/ Run(v)
      PROVE  TypeOK' /\ WatchInv'
  <2>1. TypeOK'
    BY <1>3, WatcherStepTypes, RunTypes
  <2>2. WatcherInv(v)
    BY DEF WatchInv
  <2>3. WatcherInv(v)'
    <3>1. CASE WatchCheck(v) \/ Close(v) \/ Cancel(v) \/ CollectFails(v) \/ SendFails(v)
      BY <2>1, <2>2, <3>1, QuietInv
    <3>2. CASE WatchRegister(v)
      BY <2>1, <2>2, <3>2, RegisterInv
    <3>3. CASE RunCheck(v)
      BY <2>1, <2>2, <3>3, RunCheckInv
    <3>4. CASE Collect(v)
      BY <2>1, <2>2, <3>4, CollectInv
    <3>5. CASE Send(v)
      BY <2>1, <2>2, <3>5, SendInv
    <3> QED
      BY <1>3, <3>1, <3>2, <3>3, <3>4, <3>5 DEF Run
  <2>4. ASSUME NEW w \in Watchers, w # v PROVE WatcherInv(w)'
    BY <1>3, <2>1, <2>4, OtherKeeps
  <2> QED
    BY <2>1, <2>3, <2>4 DEF WatchInv
<1>4. CASE UNCHANGED vars
  <2>1. TypeOK'
    BY <1>4, ZenonT(30) DEF vars, TypeOK
  <2>2. WatchInv'
    BY <1>4, ZenonT(30) DEF vars, WatchInv, WatcherInv, Registered, Matching
  <2> QED
    BY <2>1, <2>2
<1> QED
  BY <1>1, <1>2, <1>3, <1>4 DEF Next

\* No watcher yet, and an empty log.
LEMMA InitInv ==
  ASSUME Init
  PROVE  TypeOK /\ WatchInv
<1>1. <<>> \in Seq(Records) /\ <<>> \in Seq(Nat) /\ Len(<<>>) = 0
  OBVIOUS
<1>2. TypeOK
  BY <1>1, WatchAssumption DEF Init, TypeOK
<1>3. WatchInv
  BY ZenonT(30) DEF Init, WatchInv, WatcherInv, Registered
<1> QED
  BY <1>2, <1>3

-----------------------------------------------------------------------------
(* The theorems.                                                           *)

\* The types and the invariant of the watchers hold in every state.
THEOREM WatchInvHolds == Spec => [](TypeOK /\ WatchInv)
<1>1. Init => TypeOK /\ WatchInv
  BY InitInv
<1>2. TypeOK /\ WatchInv /\ [Next]_vars => (TypeOK /\ WatchInv)'
  BY NextInv
<1> QED
  BY <1>1, <1>2, PTL DEF Spec

\* Run sends every watcher exactly the revisions it asked for, once each and
\* in order, for any number of watchers and any bounds on a response.
THEOREM DeliversExactly == Spec => []DeliveredExactly
<1>1. TypeOK /\ WatchInv => DeliveredExactly
  <2> SUFFICES ASSUME TypeOK, WatchInv, NEW w \in Registered
               PROVE  /\ Increasing(sent[w])
                      /\ Elements(sent[w]) = Matching(w, From(w), done[w])
    BY ZenonT(30) DEF DeliveredExactly
  <2>1. /\ Increasing(sent[w])
        /\ Elements(sent[w]) = Matching(w, base[w] + 1, done[w])
        /\ req[w].start > 0 => base[w] = req[w].start - 1
    BY ZenonT(30) DEF WatchInv, WatcherInv, Registered
  <2>2. w \in Watchers
    BY DEF Registered
  <2>3. base[w] \in Nat /\ req[w].start \in Nat
    BY <2>2, FirstDoneType, ZenonT(30) DEF TypeOK
  <2>4. From(w) = base[w] + 1
    <3>1. CASE req[w].start = 0
      BY <3>1, ZenonT(30) DEF From
    <3>2. CASE req[w].start > 0
      <4>1. base[w] = req[w].start - 1
        BY <2>1, <3>2
      <4>2. base[w] + 1 = req[w].start
        BY <2>3, <4>1
      <4> QED
        BY <2>3, <3>2, <4>2 DEF From
    <3> QED
      BY SMTT(30), <2>3, <3>1, <3>2
  <2> QED
    BY <2>1, <2>4, ZenonT(30)
<1> QED
  BY <1>1, WatchInvHolds, PTL

\* Compact never discards a record that an open watcher, registered above the
\* compacted revision, has still to read.
THEOREM KeepsReadable == Spec => []OpenWatcherReadable
<1>1. TypeOK /\ WatchInv => OpenWatcherReadable
  <2> SUFFICES ASSUME TypeOK, WatchInv, NEW w \in Registered,
                      ~closed[w], base[w] >= since[w]
               PROVE  dropped \cap ((done[w] + 1)..Len(log)) = {}
    BY DEF OpenWatcherReadable
  <2>1. w \in Watchers /\ compacted <= done[w]
    BY ZenonT(30) DEF WatchInv, WatcherInv, Registered
  <2>2. done[w] \in Nat /\ compacted \in Nat /\ Len(log) \in Nat
    BY <2>1, LogTypes, ZenonT(30) DEF TypeOK
  <2>3. dropped \subseteq 1..compacted
    BY ZenonT(30) DEF TypeOK
  <2>4. ASSUME NEW r \in dropped, r \in (done[w] + 1)..Len(log) PROVE FALSE
    <3>1. r \in 1..compacted
      BY <2>3
    <3>2. r \in Nat /\ r <= compacted
      BY <2>2, <3>1
    <3>3. r >= done[w] + 1
      BY <2>2, <2>4
    <3> QED
      BY SMTT(30), <2>1, <2>2, <3>2, <3>3
  <2> QED
    BY <2>4
<1> QED
  BY <1>1, WatchInvHolds, PTL
=============================================================================
