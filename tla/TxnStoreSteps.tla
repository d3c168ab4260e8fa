--------------------------- MODULE TxnStoreSteps ----------------------------
(***************************************************************************)
(* Lemmas about the operators TxnStore is built from: lookups in the index *)
(* and in the log, compaction and application of records, evaluation of a  *)
(* request on a view, and the re-stamping of its events.  Then the steps   *)
(* that a transaction, the storage and a compaction take preserve IInv:    *)
(* first what a step leaves alone, then one lemma per action.              *)
(***************************************************************************)
EXTENDS TxnStoreInv, NaturalsInduction, WellFoundedInduction, TLAPS

-----------------------------------------------------------------------------
(***************************************************************************)
(* Sequences.                                                              *)
(***************************************************************************)

\* A sequence is a function on 1..Len: the log, the records, the batches.
LEMMA SeqSpec ==
  ASSUME NEW S, NEW s \in Seq(S)
  PROVE  Len(s) \in Nat /\ s \in [1..Len(s) -> S] /\ DOMAIN s = 1..Len(s)
  OBVIOUS

\* Publishing a batch keeps the log as a prefix and shifts the batch behind it.
LEMMA ConcatSpec ==
  ASSUME NEW S, NEW s \in Seq(S), NEW t \in Seq(S)
  PROVE  /\ s \o t \in Seq(S)
         /\ Len(s \o t) = Len(s) + Len(t)
         /\ \A n \in 1..Len(s) : (s \o t)[n] = s[n]
         /\ \A n \in 1..Len(t) : (s \o t)[Len(s) + n] = t[n]
  OBVIOUS

\* Prepare takes the transactions of a batch from its head.
LEMMA TailSpec ==
  ASSUME NEW S, NEW s \in Seq(S), s # <<>>
  PROVE  /\ 1 \in DOMAIN s /\ Head(s) = s[1] /\ Head(s) \in S
         /\ Tail(s) \in Seq(S)
         /\ \A n \in DOMAIN Tail(s) : n + 1 \in DOMAIN s /\ Tail(s)[n] = s[n + 1]
  OBVIOUS

\* The part of a batch that a crash leaves on disk is a prefix of it.
LEMMA PrefixSpec ==
  ASSUME NEW S, NEW s \in Seq(S), NEW m \in 0..Len(s)
  PROVE  /\ SubSeq(s, 1, m) \in Seq(S)
         /\ Len(SubSeq(s, 1, m)) = m
         /\ \A n \in 1..m : SubSeq(s, 1, m)[n] = s[n]
  OBVIOUS

\* A position behind a prefix of length m.
LEMMA BehindPrefix ==
  ASSUME NEW m \in Nat, NEW n \in Nat, NEW i \in 1..(m + n), i \notin 1..m
  PROVE  \E j \in 1..n : i = m + j
<1>1. i - m \in 1..n /\ i = m + (i - m)
  OBVIOUS
<1> QED
  BY <1>1

\* Accepting a record adds it behind the decided ones: Append to the batch is
\* Append to the log followed by the batch.
LEMMA ConcatAppend ==
  ASSUME NEW S, NEW s \in Seq(S), NEW t \in Seq(S), NEW e \in S
  PROVE  /\ s \o Append(t, e) \in Seq(S)
         /\ Len(s \o Append(t, e)) = Len(s \o t) + 1
         /\ \A i \in 1..Len(s \o t) : (s \o Append(t, e))[i] = (s \o t)[i]
         /\ (s \o Append(t, e))[Len(s \o t) + 1] = e
<1> DEFINE u == Append(t, e)
<1>1. /\ u \in Seq(S) /\ Len(u) = Len(t) + 1 /\ u[Len(t) + 1] = e
      /\ \A j \in 1..Len(t) : u[j] = t[j]
  OBVIOUS
<1> HIDE DEF u
<1>2. Len(s) \in Nat /\ Len(t) \in Nat
  BY SeqSpec
<1>3. /\ s \o u \in Seq(S) /\ Len(s \o u) = Len(s) + Len(u)
      /\ \A j \in 1..Len(s) : (s \o u)[j] = s[j]
      /\ \A j \in 1..Len(u) : (s \o u)[Len(s) + j] = u[j]
  BY <1>1
<1>4. /\ Len(s \o t) = Len(s) + Len(t)
      /\ \A j \in 1..Len(s) : (s \o t)[j] = s[j]
      /\ \A j \in 1..Len(t) : (s \o t)[Len(s) + j] = t[j]
  BY ConcatSpec
<1>5. Len(s \o u) = Len(s \o t) + 1
  BY <1>1, <1>2, <1>3, <1>4
<1>6. ASSUME NEW i \in 1..Len(s \o t)
      PROVE  (s \o u)[i] = (s \o t)[i]
  <2>1. CASE i \in 1..Len(s)
    BY <1>3, <1>4, <2>1
  <2>2. CASE i \notin 1..Len(s)
    <3>1. i \in 1..(Len(s) + Len(t))
      BY <1>4
    <3>2. PICK j \in 1..Len(t) : i = Len(s) + j
      BY <1>2, <2>2, <3>1, BehindPrefix, ZenonT(30)
    <3>3. j \in 1..Len(u)
      BY <1>1, <1>2
    <3> QED
      BY <1>1, <1>3, <1>4, <3>2, <3>3
  <2> QED
    BY <2>1, <2>2, ZenonT(30)
<1>7. (s \o u)[Len(s \o t) + 1] = e
  <2>1. Len(s \o t) + 1 = Len(s) + (Len(t) + 1) /\ Len(t) + 1 \in 1..Len(u)
    BY <1>1, <1>2, <1>4
  <2> QED
    BY <1>1, <1>3, <2>1
<1> QED
  BY <1>3, <1>5, <1>6, <1>7 DEF u

\* What a crash leaves of a log and the batch behind it is a prefix of both.
LEMMA ConcatPrefix ==
  ASSUME NEW S, NEW s \in Seq(S), NEW t \in Seq(S), NEW m \in 0..Len(t)
  PROVE  /\ s \o SubSeq(t, 1, m) \in Seq(S)
         /\ Len(s \o SubSeq(t, 1, m)) = Len(s) + m
         /\ \A i \in 1..Len(s) : (s \o SubSeq(t, 1, m))[i] = s[i]
         /\ \A i \in 1..(Len(s) + m) : (s \o SubSeq(t, 1, m))[i] = (s \o t)[i]
<1> DEFINE u == SubSeq(t, 1, m)
<1>1. u \in Seq(S) /\ Len(u) = m /\ \A j \in 1..m : u[j] = t[j]
  BY PrefixSpec
<1> HIDE DEF u
<1>2. Len(s) \in Nat /\ Len(t) \in Nat /\ m \in Nat /\ \A j \in 1..m : j \in 1..Len(t)
  BY SeqSpec
<1>3. /\ s \o u \in Seq(S) /\ Len(s \o u) = Len(s) + m
      /\ \A j \in 1..Len(s) : (s \o u)[j] = s[j]
      /\ \A j \in 1..m : (s \o u)[Len(s) + j] = u[j]
  <2>1. u \in Seq(S)
    BY <1>1
  <2>2. /\ s \o u \in Seq(S) /\ Len(s \o u) = Len(s) + Len(u)
        /\ \A j \in 1..Len(s) : (s \o u)[j] = s[j]
        /\ \A j \in 1..Len(u) : (s \o u)[Len(s) + j] = u[j]
    BY <2>1
  <2> QED
    BY <1>1, <2>2
<1>4. /\ \A j \in 1..Len(s) : (s \o t)[j] = s[j]
      /\ \A j \in 1..Len(t) : (s \o t)[Len(s) + j] = t[j]
  BY ConcatSpec
<1>5. ASSUME NEW i \in 1..(Len(s) + m)
      PROVE  (s \o u)[i] = (s \o t)[i]
  <2>1. CASE i \in 1..Len(s)
    BY <1>3, <1>4, <2>1
  <2>2. CASE i \notin 1..Len(s)
    <3>1. PICK j \in 1..m : i = Len(s) + j
      BY <1>2, <2>2, BehindPrefix
    <3> QED
      BY <1>1, <1>2, <1>3, <1>4, <3>1
  <2> QED
    BY <2>1, <2>2, ZenonT(30)
<1> QED
  BY <1>3, <1>5 DEF u

\* The positions of a log with one more record.
LEMMA UpToNext ==
  ASSUME NEW n \in Nat
  PROVE  /\ \A r \in 1..(n + 1) : r \in 1..n \/ r = n + 1
         /\ \A r \in 2..(n + 1) : /\ r \in 2..n \/ r = n + 1
                                  /\ r - 1 \in Nat
                                  /\ \A i \in 1..(r - 1) : i \in 1..n
         /\ \A r \in 2..n : r \in 1..n
  OBVIOUS

(***************************************************************************)
(* Maxima and minima.                                                      *)
(***************************************************************************)

\* A non-empty set of numbers with an upper bound has its Max as a member and
\* as its upper bound: the lookups of bptree always find a latest revision.
LEMMA MaxOfBounded ==
  ASSUME NEW h \in Nat, NEW S \in SUBSET (0..h), S # {}
  PROVE  /\ Max(S) \in S
         /\ \A y \in S : y <= Max(S)
<1> DEFINE T == {h - x : x \in S}
<1>1. T \subseteq Nat /\ T # {}
  <2>1. \A x \in S : h - x \in Nat
    OBVIOUS
  <2>2. \E x \in S : h - x \in T
    BY ZenonT(30)
  <2> QED
    BY <2>1, <2>2
<1>2. \E m \in T : \A y \in T : ~(<<y, m>> \in OpToRel(<, Nat))
  BY <1>1, NatLessThanWellFounded, WFMin
<1>3. PICK m \in T : \A y \in T : ~(<<y, m>> \in OpToRel(<, Nat))
  BY <1>2
<1>4. \A y \in T : ~(y < m)
  BY <1>1, <1>3, ZenonT(30) DEF OpToRel
<1>5. PICK x \in S : m = h - x
  BY <1>3
<1>6. ASSUME NEW y \in S
      PROVE  x >= y
  <2>1. ~(h - y < h - x)
    BY <1>4, <1>5, ZenonT(30)
  <2> QED
    BY <2>1
<1>7. \E z \in S : \A y \in S : z >= y
  BY <1>6
<1> QED
  BY <1>7 DEF Max

\* The Min of two numbers, which is how Compact lowers its revision.
LEMMA MinOfTwo ==
  ASSUME NEW m \in Nat, NEW n \in Nat
  PROVE  /\ Min({m, n}) \in {m, n}
         /\ Min({m, n}) <= m
         /\ Min({m, n}) <= n
<1>1. \E z \in {m, n} : \A y \in {m, n} : z <= y
  <2>1. CASE m <= n
    BY <2>1
  <2>2. CASE n <= m
    BY <2>2
  <2> QED
    BY <2>1, <2>2
<1> QED
  BY <1>1 DEF Min

-----------------------------------------------------------------------------
(***************************************************************************)
(* Lookups.                                                                *)
(***************************************************************************)

\* LatestWrite finds the last of the first `at` records that writes the key.
LEMMA LatestWriteSpec ==
  ASSUME NEW L, NEW k, NEW at \in Nat
  PROVE  /\ LatestWrite(L, k, at) \in 0..at
         /\ LatestWrite(L, k, at) # 0 => Writes(L[LatestWrite(L, k, at)], k)
         /\ \A r \in 1..at : Writes(L[r], k) => r <= LatestWrite(L, k, at)
<1> DEFINE S == {r \in 1..at : Writes(L[r], k)} \cup {0}
<1>1. S \in SUBSET (0..at) /\ S # {}
  OBVIOUS
<1>2. Max(S) \in S /\ \A y \in S : y <= Max(S)
  BY <1>1, MaxOfBounded, ZenonT(30)
<1>3. LatestWrite(L, k, at) = Max(S)
  BY DEF LatestWrite
<1> HIDE DEF S
<1>4. /\ Max(S) \in 0..at
      /\ Max(S) # 0 => Writes(L[Max(S)], k)
  BY <1>2 DEF S
<1>5. \A r \in 1..at : Writes(L[r], k) => r <= Max(S)
  BY <1>2 DEF S
<1> QED
  BY <1>3, <1>4, <1>5

\* GetLatestRevisionByKey finds the last revision of the key's entry that is
\* at or below `at`, or none.
LEMMA LatestRevisionSpec ==
  ASSUME NEW idx, NEW k, NEW at \in Nat, idx[k].revs \subseteq Nat \ {0}
  PROVE  /\ GetLatestRevisionByKey(idx, k, at) \in 0..at
         /\ GetLatestRevisionByKey(idx, k, at) # 0 =>
              GetLatestRevisionByKey(idx, k, at) \in idx[k].revs
         /\ \A r \in idx[k].revs : r <= at => r <= GetLatestRevisionByKey(idx, k, at)
<1> DEFINE S == {r \in idx[k].revs : r <= at} \cup {0}
<1>1. S \in SUBSET (0..at) /\ S # {}
  OBVIOUS
<1>2. Max(S) \in S /\ \A y \in S : y <= Max(S)
  BY <1>1, MaxOfBounded, ZenonT(30)
<1>3. GetLatestRevisionByKey(idx, k, at) = Max(S)
  BY DEF GetLatestRevisionByKey
<1> HIDE DEF S
<1>4. /\ Max(S) \in 0..at
      /\ Max(S) # 0 => Max(S) \in idx[k].revs
  BY <1>1, <1>2 DEF S
<1>5. \A r \in idx[k].revs : r <= at => r <= Max(S)
  BY <1>2 DEF S
<1> QED
  BY <1>3, <1>4, <1>5
\* Positions of operations are numbers.
LEMMA OpPositionsNat == OpPositions \subseteq Nat
<1>1. ASSUME NEW r \in Requests
      PROVE  DOMAIN r.success \subseteq Nat /\ DOMAIN r.failure \subseteq Nat
  BY RequestsAssumption DEF Request
<1> QED
  BY <1>1 DEF OpPositions

\* In a record with one event per key, findEvent and the event that sets the
\* tombstone flag are that event.
LEMMA OneEvent ==
  ASSUME NEW record, NEW k, record.events \in SUBSET Event, Writes(record, k),
         \A e, f \in record.events : e.key = f.key => e = f
  PROVE  /\ FindEvent(record, k) \in record.events
         /\ FindEvent(record, k).key = k
         /\ LastEvent(record, k) = FindEvent(record, k)
         /\ \A e \in record.events : e.key = k => e = FindEvent(record, k)
<1>1. PICK e \in record.events : e.key = k
  BY DEF Writes
<1>2. e.pos \in Nat
  BY OpPositionsNat, ZenonT(30) DEF Event
<1>3. \A f \in record.events : f.key = k => f = e
  BY <1>1
<1>4. FindEvent(record, k) = e
  BY <1>1, <1>2, <1>3 DEF FindEvent
<1>5. LastEvent(record, k) = e
  BY <1>1, <1>2, <1>3 DEF LastEvent
<1> QED
  BY <1>1, <1>3, <1>4, <1>5

\* The pair that record r left for a key, or none, is a Kv whose revisions
\* are those of the log so far.
LEMMA KvAtSpec ==
  ASSUME NEW L \in Seq(Record), Stamped(L), NEW k, NEW r \in 0..Len(L),
         r # 0 => Writes(L[r], k)
  PROVE  KvAt(L, k, r) \in Kv /\ KvAt(L, k, r).create <= r
<1>1. CASE r = 0
  BY <1>1 DEF KvAt, NoKv, Kv
<1>2. CASE r # 0
  <2>1. r \in DOMAIN L /\ L[r] \in Record /\ EventsStamped(L[r].events, r)
    BY <1>2 DEF Stamped
  <2>2. FindEvent(L[r], k) \in L[r].events
    BY <1>2, <2>1, OneEvent DEF Record, EventsStamped
  <2>3. FindEvent(L[r], k) \in Event /\ FindEvent(L[r], k).create <= r
    BY <2>1, <2>2 DEF Record, EventsStamped
  <2> QED
    BY <1>2, <2>3 DEF KvAt, KvOf, NoKv, Kv, Event
<1> QED
  BY <1>1, <1>2

\* The same for the state after the first `at` records.
LEMMA StateAtSpec ==
  ASSUME NEW L \in Seq(Record), Stamped(L), NEW at \in 0..Len(L)
  PROVE  /\ StateAt(L, at) \in [Keys -> Kv]
         /\ \A k \in Keys : StateAt(L, at)[k].create <= at
<1>1. ASSUME NEW k \in Keys
      PROVE  KvAt(L, k, LatestWrite(L, k, at)) \in Kv
             /\ KvAt(L, k, LatestWrite(L, k, at)).create <= at
  <2> DEFINE w == LatestWrite(L, k, at)
  <2>1. w \in 0..at /\ (w # 0 => Writes(L[w], k))
    BY LatestWriteSpec
  <2> HIDE DEF w
  <2>2. KvAt(L, k, w) \in Kv /\ KvAt(L, k, w).create <= w
    BY <2>1, KvAtSpec
  <2>3. KvAt(L, k, w).create <= at
    BY <2>1, <2>2 DEF Kv
  <2> QED
    BY <2>2, <2>3 DEF w
<1> QED
  BY <1>1 DEF StateAt

\* The state after `at` records depends on those records only.
LEMMA StatePrefix ==
  ASSUME NEW L, NEW M, NEW at \in Nat, \A i \in 1..at : L[i] = M[i]
  PROVE  StateAt(L, at) = StateAt(M, at)
<1>1. ASSUME NEW k \in Keys
      PROVE  KvAt(L, k, LatestWrite(L, k, at)) = KvAt(M, k, LatestWrite(M, k, at))
  <2>1. {r \in 1..at : Writes(L[r], k)} = {r \in 1..at : Writes(M[r], k)}
    OBVIOUS
  <2>2. LatestWrite(L, k, at) = LatestWrite(M, k, at)
    BY <2>1 DEF LatestWrite
  <2>3. LatestWrite(L, k, at) \in 0..at
    BY LatestWriteSpec
  <2> QED
    BY <2>2, <2>3 DEF KvAt
<1> QED
  BY <1>1 DEF StateAt
-----------------------------------------------------------------------------
(***************************************************************************)
(* The index against the log.                                              *)
(***************************************************************************)

\* What the index answers for a key at a revision is what the log says.
AnswersAsLog(idx, L, k, at) ==
  KvAt(L, k, GetLatestRevisionByKey(idx, k, at)) = KvAt(L, k, LatestWrite(L, k, at))

\* The index answers as the log does, unless the key was written between the
\* revision asked for and the compaction point.
LEMMA ViewAgrees ==
  ASSUME NEW idx, NEW L, NEW through \in Nat, NEW point \in Nat, NEW k \in Keys,
         NEW at \in 0..through,
         idx[k].revs \subseteq Nat \ {0},
         IndexSound(idx, L, through, point),
         \A p \in (at + 1)..point : ~Writes(L[p], k)
  PROVE  AnswersAsLog(idx, L, k, at)
<1> DEFINE w == LatestWrite(L, k, at)
           g == GetLatestRevisionByKey(idx, k, at)
<1>1. /\ w \in 0..at
      /\ w # 0 => Writes(L[w], k)
      /\ \A r \in 1..at : Writes(L[r], k) => r <= w
  BY LatestWriteSpec
<1>2. /\ g \in 0..at
      /\ g # 0 => g \in idx[k].revs
      /\ \A r \in idx[k].revs : r <= at => r <= g
  BY LatestRevisionSpec
<1> HIDE DEF w, g
<1>3. g <= w
  <2>1. CASE g = 0
    BY <1>1, <2>1
  <2>2. CASE g # 0
    BY <1>1, <1>2, <2>2 DEF IndexSound, EntrySound
  <2> QED
    BY <2>1, <2>2
<1>4. CASE g = w
  BY <1>4 DEF g, w, AnswersAsLog
<1>5. CASE g < w
  <2>1. w \in 1..through /\ Writes(L[w], k) /\ w <= at
    BY <1>1, <1>2, <1>5
  <2>2. w \notin idx[k].revs
    BY <1>1, <1>2, <1>5
  <2>3. \/ \E p \in (w + 1)..point : Writes(L[p], k)
        \/ FindEvent(L[w], k).type = "DELETE"
    BY <2>1, <2>2 DEF IndexSound, EntrySound
  <2>4. ~\E p \in (w + 1)..point : Writes(L[p], k)
    <3>1. SUFFICES ASSUME NEW p \in (w + 1)..point, Writes(L[p], k)
                   PROVE  FALSE
      OBVIOUS
    <3>2. CASE p <= at
      BY <1>1, <3>1, <3>2
    <3>3. CASE p > at
      BY <1>1, <3>1, <3>3
    <3> QED
      BY <1>1, <3>2, <3>3
  <2>5. KvAt(L, k, w) = NoKv
    BY <2>1, <2>3, <2>4 DEF KvAt, KvOf
  <2>6. g = 0
    <3>1. SUFFICES ASSUME g # 0
                   PROVE  FALSE
      OBVIOUS
    <3>2. g \in idx[k].revs /\ g < w
      BY <1>2, <1>5, <3>1
    <3> QED
      BY <2>1, <2>2, <3>2 DEF IndexSound, EntrySound
  <2>7. KvAt(L, k, g) = NoKv
    BY <2>6 DEF KvAt
  <2> QED
    BY <2>5, <2>7 DEF g, w, AnswersAsLog
<1> QED
  BY <1>1, <1>2, <1>3, <1>4, <1>5

\* Records after `through` do not matter to the index.
LEMMA IndexSoundExtend ==
  ASSUME NEW idx, NEW L, NEW M, NEW through \in Nat, NEW point \in Nat, point <= through,
         \A k \in Keys : idx[k].revs \subseteq Nat \ {0},
         \A i \in 1..through : L[i] = M[i],
         IndexSound(idx, L, through, point)
  PROVE  IndexSound(idx, M, through, point)
<1> SUFFICES ASSUME NEW k \in Keys
             PROVE  EntrySound(idx[k], k, M, through, point)
  BY DEF IndexSound
<1> USE DEF EntrySound
<1>1. \A r \in idx[k].revs : r \in 1..through /\ L[r] = M[r] /\ Writes(L[r], k)
  BY DEF IndexSound
<1>2. ASSUME NEW q \in 1..through, Writes(M[q], k), q \notin idx[k].revs
      PROVE  /\ q <= point
             /\ \/ \E p \in (q + 1)..point : Writes(M[p], k)
                \/ FindEvent(M[q], k).type = "DELETE"
  <2>1. Writes(L[q], k)
    BY <1>2
  <2>2. /\ q <= point
        /\ \/ \E p \in (q + 1)..point : Writes(L[p], k)
           \/ FindEvent(L[q], k).type = "DELETE"
    BY <1>2, <2>1 DEF IndexSound
  <2> QED
    BY <2>2
<1> QED
  BY <1>1, <1>2 DEF IndexSound

\* applyUpTo and ReplayLog keep the index sound: AddRevision for each event
\* of the records after `through`, up to `to`.
LEMMA AddRevisionsSound ==
  ASSUME NEW idx, NEW L \in Seq(Record), Stamped(L),
         NEW through \in Nat, NEW point \in Nat, NEW to \in through..Len(L),
         point <= through,
         \A k \in Keys : idx[k].revs \subseteq Nat \ {0},
         IndexSound(idx, L, through, point)
  PROVE  IndexSound(AddRevisions(idx, L, through + 1, to), L, to, point)
<1> SUFFICES ASSUME NEW k \in Keys
             PROVE  EntrySound(AddRevisions(idx, L, through + 1, to)[k], k, L, to, point)
  BY DEF IndexSound
<1> DEFINE new == {r \in (through + 1)..to : Writes(L[r], k)}
           entry == AddRevisions(idx, L, through + 1, to)[k]
<1>1. EntrySound(idx[k], k, L, through, point)
  BY DEF IndexSound
<1>2. CASE new = {}
  <2>1. entry = idx[k]
    BY <1>2 DEF AddRevisions
  <2>2. \A q \in 1..to : Writes(L[q], k) => q \in 1..through
    BY <1>2
  <2> HIDE DEF new, entry
  <2>3. \A r \in idx[k].revs : r <= through /\ Writes(L[r], k)
    BY <1>1, ZenonT(30) DEF EntrySound
  <2>4. \A r \in idx[k].revs : r <= to /\ Writes(L[r], k)
    BY <2>3
  <2>5. EntrySound(idx[k], k, L, to, point)
    BY <1>1, <2>2, <2>4, ZenonT(30) DEF EntrySound
  <2> QED
    BY <2>1, <2>5, ZenonT(30) DEF entry
<1>3. CASE new # {}
  <2> DEFINE m == Max(new)
  <2>1. entry = [revs |-> idx[k].revs \cup new, tombstone |-> LastEvent(L[m], k).type = "DELETE"]
    BY <1>3 DEF AddRevisions
  <2>2. m \in new /\ \A r \in new : r <= m
    <3>1. to \in Nat /\ new \in SUBSET (0..to)
      OBVIOUS
    <3> QED
      BY <1>3, <3>1, MaxOfBounded, ZenonT(30)
  <2> HIDE DEF m, entry
  <2>3. LastEvent(L[m], k) = FindEvent(L[m], k)
    <3>1. m \in DOMAIN L /\ Writes(L[m], k)
      BY <2>2
    <3>2. L[m] \in Record /\ EventsStamped(L[m].events, m)
      BY <3>1 DEF Stamped
    <3> QED
      BY <3>1, <3>2, OneEvent DEF Record, EventsStamped
  <2>4. \A r \in entry.revs : r <= to /\ Writes(L[r], k)
    BY <1>1, <2>1 DEF EntrySound
  <2>5. \A r \in entry.revs, q \in 1..to : r < q /\ Writes(L[q], k) => q \in entry.revs
    BY <1>1, <2>1 DEF EntrySound
  <2>6. \A q \in 1..to : Writes(L[q], k) /\ q \notin entry.revs =>
           /\ q <= point
           /\ \/ \E p \in (q + 1)..point : Writes(L[p], k)
              \/ FindEvent(L[q], k).type = "DELETE"
    BY <1>1, <2>1 DEF EntrySound
  <2>7. ASSUME entry.tombstone, NEW r \in entry.revs, \A q \in entry.revs : q <= r
        PROVE  FindEvent(L[r], k).type = "DELETE"
    <3>1. m <= r /\ r \in new
      BY SMTT(30), <1>1, <2>1, <2>2, <2>7 DEF EntrySound
    <3>2. r = m
      BY <2>2, <3>1
    <3> QED
      BY <2>1, <2>3, <2>7, <3>2, ZenonT(30)
  <2> QED
    BY <2>4, <2>5, <2>6, <2>7, ZenonT(30) DEF EntrySound, entry
<1> QED
  BY <1>2, <1>3

\* compactRevisions keeps an entry sound, for the new compaction point.
LEMMA CompactRevisionsSound ==
  ASSUME NEW entry, NEW k \in Keys, NEW L,
         NEW through \in Nat, NEW point \in Nat, NEW new \in point..through,
         entry.revs \subseteq Nat \ {0},
         entry = [revs |-> entry.revs, tombstone |-> entry.tombstone],
         EntrySound(entry, k, L, through, point)
  PROVE  EntrySound(CompactRevisions(entry, new), k, L, through, new)
<1> DEFINE below == {r \in entry.revs : r <= new}
           kept == CompactRevisions(entry, new)
<1>1. ASSUME NEW q \in 1..through, Writes(L[q], k), q \notin entry.revs
      PROVE  /\ q <= new
             /\ \/ \E p \in (q + 1)..new : Writes(L[p], k)
                \/ FindEvent(L[q], k).type = "DELETE"
  <2>1. /\ q <= point
        /\ \/ \E p \in (q + 1)..point : Writes(L[p], k)
           \/ FindEvent(L[q], k).type = "DELETE"
    BY <1>1 DEF EntrySound
  <2> QED
    BY <2>1
<1>2. CASE entry.tombstone /\ below = entry.revs
  <2>1. kept = [revs |-> {}, tombstone |-> FALSE]
    BY <1>2 DEF CompactRevisions
  <2>2. ASSUME NEW q \in 1..through, q \in entry.revs
        PROVE  /\ q <= new
               /\ \/ \E p \in (q + 1)..new : Writes(L[p], k)
                  \/ FindEvent(L[q], k).type = "DELETE"
    <3> DEFINE m == Max(entry.revs)
    <3>1. entry.revs \in SUBSET (0..new)
      BY <1>2
    <3>2. m \in entry.revs /\ \A r \in entry.revs : r <= m
      BY <2>2, <3>1, MaxOfBounded
    <3> HIDE DEF m
    <3>3. CASE q = m
      BY <1>2, <2>2, <3>1, <3>2, <3>3 DEF EntrySound
    <3>4. CASE q # m
      <4>1. m \in (q + 1)..new /\ Writes(L[m], k)
        BY <2>2, <3>1, <3>2, <3>4 DEF EntrySound
      <4> QED
        BY <2>2, <3>1, <4>1
    <3> QED
      BY <3>3, <3>4
  <2> QED
    BY <1>1, <2>1, <2>2 DEF EntrySound
<1>3. CASE ~(entry.tombstone /\ below = entry.revs)
  <2> DEFINE b == Max(below \cup {0})
  <2>1. kept = [revs |-> {r \in entry.revs : r >= b}, tombstone |-> entry.tombstone]
    BY <1>3, ZenonT(30) DEF CompactRevisions
  <2>2. b \in below \cup {0} /\ \A r \in below : r <= b
    BY MaxOfBounded
  <2> HIDE DEF b, kept
  <2>3. b \in Nat
    BY <2>2
  <2>4. \A r \in kept.revs : r <= through /\ Writes(L[r], k)
    BY <2>1 DEF EntrySound
  <2>5. \A r \in kept.revs, q \in 1..through : r < q /\ Writes(L[q], k) => q \in kept.revs
    BY <2>1, <2>3 DEF EntrySound
  <2>6. ASSUME NEW q \in 1..through, Writes(L[q], k), q \notin kept.revs, q \in entry.revs
        PROVE  q <= new /\ \E p \in (q + 1)..new : Writes(L[p], k)
    <3>1. q < b /\ b \in below
      BY <2>1, <2>2, <2>3, <2>6
    <3>2. b \in (q + 1)..new /\ Writes(L[b], k)
      BY <3>1 DEF EntrySound
    <3> QED
      BY <3>2
  <2>7. ASSUME kept.tombstone, NEW r \in kept.revs, \A q \in kept.revs : q <= r
        PROVE  FindEvent(L[r], k).type = "DELETE"
    <3>1. entry.tombstone /\ r \in entry.revs /\ r >= b
      BY <2>1, <2>7
    <3>2. \A q \in entry.revs : q <= r
      BY <2>1, <2>3, <2>7, <3>1
    <3> QED
      BY <3>1, <3>2 DEF EntrySound
  <2> QED
    BY <1>1, <2>4, <2>5, <2>6, <2>7, ZenonT(30) DEF EntrySound, kept
<1> QED
  BY <1>2, <1>3
-----------------------------------------------------------------------------
(***************************************************************************)
(* Evaluation.                                                             *)
(***************************************************************************)

\* The operations evaluate runs are one of the two branches of the request.
LEMMA BranchSpec ==
  ASSUME NEW request \in Requests, NEW view
  PROVE  /\ Branch(request, view) \in Seq(Op)
         /\ WritesEachKeyOnce(Branch(request, view))
         /\ DOMAIN Branch(request, view) \subseteq OpPositions
<1>1. request \in Request /\ WritesEachKeyOnce(request.success) /\ WritesEachKeyOnce(request.failure)
  BY RequestsAssumption
<1>2. DOMAIN request.success \subseteq OpPositions /\ DOMAIN request.failure \subseteq OpPositions
  BY DEF OpPositions
<1> QED
  BY <1>1, <1>2 DEF Branch, Request

\* An operation that stages an event has a key.
LEMMA StagesKey ==
  ASSUME NEW op \in Op, IsWrite(op)
  PROVE  op.key \in Keys /\ op.type \in {"put", "delete"}
BY DEF Op, IsWrite

\* Compares that see the same pairs lead to the same branch.
LEMMA SameBranch ==
  ASSUME NEW request, NEW v, NEW w, \A c \in request.compare : v[c.key] = w[c.key]
  PROVE  Succeeded(request, v) = Succeeded(request, w) /\ Branch(request, v) = Branch(request, w)
<1>1. \A c \in request.compare : Holds(c, v) <=> Holds(c, w)
  BY DEF Holds
<1>2. Succeeded(request, v) <=> Succeeded(request, w)
  BY <1>1 DEF Succeeded
<1> QED
  BY <1>2 DEF Branch, Succeeded

\* The event an operation stages.
EventOf(op, i, view, at) ==
  IF op.type = "put" THEN PutEvent(i, op.key, view, at) ELSE DeleteEvent(i, op.key, view, at)

\* It is an event of the operation's key.
LEMMA EventOfKey ==
  ASSUME NEW op, NEW i, NEW view, NEW at
  PROVE  EventOf(op, i, view, at).key = op.key
BY DEF EventOf, PutEvent, DeleteEvent

\* Events, one by one.
LEMMA EventsMembers ==
  ASSUME NEW ops, NEW view, NEW at
  PROVE  /\ \A e \in Events(ops, view, at) :
              \E i \in DOMAIN ops : Stages(ops[i], view) /\ e = EventOf(ops[i], i, view, at)
         /\ \A i \in DOMAIN ops :
              Stages(ops[i], view) => EventOf(ops[i], i, view, at) \in Events(ops, view, at)
BY DEF Events, EventOf

\* The event of an operation on a view of the first `at` records: its type,
\* its key, and its revisions.
LEMMA EventOfSpec ==
  ASSUME NEW op \in Op, NEW i \in OpPositions, NEW at \in Nat, NEW view \in [Keys -> Kv],
         \A k \in Keys : view[k].create <= at,
         Stages(op, view)
  PROVE  /\ IsWrite(op)
         /\ EventOf(op, i, view, at) \in Event
         /\ EventOf(op, i, view, at).pos = i
         /\ EventOf(op, i, view, at).key = op.key
         /\ EventOf(op, i, view, at).mod = at + 1
         /\ EventOf(op, i, view, at).create <= at + 1
<1>1. IsWrite(op)
  BY DEF Stages, IsWrite
<1>2. op.key \in Keys
  BY <1>1, StagesKey
<1>3. view[op.key] \in Kv /\ view[op.key].create <= at
  BY <1>2
<1> QED
  BY <1>1, <1>2, <1>3 DEF EventOf, PutEvent, DeleteEvent, Event, Kv

\* What evaluate stages is well-formed, and stamped with the revision after
\* the snapshot.
LEMMA EventsSpec ==
  ASSUME NEW request \in Requests, NEW at \in Nat, NEW view \in [Keys -> Kv],
         \A k \in Keys : view[k].create <= at
  PROVE  /\ SerialEvents(request, view, at) \in SUBSET Event
         /\ EventsStamped(SerialEvents(request, view, at), at + 1)
<1> DEFINE ops == Branch(request, view)
           events == Events(ops, view, at)
<1>1. ops \in Seq(Op) /\ WritesEachKeyOnce(ops) /\ DOMAIN ops \subseteq OpPositions
  BY BranchSpec
<1>2. \A e \in events : \E i \in DOMAIN ops :
        Stages(ops[i], view) /\ e = EventOf(ops[i], i, view, at)
  BY EventsMembers
<1> HIDE DEF ops, events
<1>3. ASSUME NEW i \in DOMAIN ops, Stages(ops[i], view)
      PROVE  /\ IsWrite(ops[i])
             /\ EventOf(ops[i], i, view, at) \in Event
             /\ EventOf(ops[i], i, view, at).key = ops[i].key
             /\ EventOf(ops[i], i, view, at).mod = at + 1
             /\ EventOf(ops[i], i, view, at).create <= at + 1
  <2>1. ops[i] \in Op /\ i \in OpPositions
    BY <1>1
  <2> QED
    BY <1>3, <2>1, EventOfSpec
<1>4. \A e \in events : e \in Event /\ e.mod = at + 1 /\ e.create <= at + 1
  BY <1>2, <1>3
<1>5. ASSUME NEW e \in events, NEW f \in events, e.key = f.key
      PROVE  e = f
  <2>1. PICK i \in DOMAIN ops : Stages(ops[i], view) /\ e = EventOf(ops[i], i, view, at)
    BY <1>2
  <2>2. PICK j \in DOMAIN ops : Stages(ops[j], view) /\ f = EventOf(ops[j], j, view, at)
    BY <1>2
  <2>3. IsWrite(ops[i]) /\ IsWrite(ops[j]) /\ ops[i].key = ops[j].key
    BY <1>3, <1>5, <2>1, <2>2, ZenonT(30)
  <2>4. i = j
    BY <1>1, <2>3 DEF WritesEachKeyOnce
  <2> QED
    BY <2>1, <2>2, <2>4
<1> QED
  BY <1>4, <1>5 DEF SerialEvents, EventsStamped, ops, events

\* Two views that agree on the validated keys stage the same events.
LEMMA SameEvents ==
  ASSUME NEW request, NEW meta, NEW v, NEW w, NEW at,
         Covers(meta, request, v), \A k \in Validated(meta) : v[k] = w[k]
  PROVE  /\ Branch(request, v) = Branch(request, w)
         /\ SerialEvents(request, v, at) = SerialEvents(request, w, at)
<1> DEFINE ops == Branch(request, v)
<1>1. ops = Branch(request, w)
  BY SameBranch DEF Covers
<1>2. \A i \in DOMAIN ops : IsWrite(ops[i]) => v[ops[i].key] = w[ops[i].key]
  BY DEF Covers
<1> HIDE DEF ops
<1>3. \A i \in DOMAIN ops : Stages(ops[i], v) <=> Stages(ops[i], w)
  BY <1>2 DEF Stages, IsWrite
<1>4. {j \in DOMAIN ops : Stages(ops[j], v)} = {j \in DOMAIN ops : Stages(ops[j], w)}
  BY <1>3
<1>5. ASSUME NEW i \in {j \in DOMAIN ops : Stages(ops[j], v)}
      PROVE  /\ PutEvent(i, ops[i].key, v, at) = PutEvent(i, ops[i].key, w, at)
             /\ DeleteEvent(i, ops[i].key, v, at) = DeleteEvent(i, ops[i].key, w, at)
  <2>1. IsWrite(ops[i])
    BY <1>5 DEF Stages, IsWrite
  <2> QED
    BY <1>2, <2>1, ZenonT(30) DEF PutEvent, DeleteEvent
<1>6. Events(ops, v, at) = Events(ops, w, at)
  BY <1>4, <1>5, ZenonT(30) DEF Events
<1> QED
  BY <1>1, <1>6 DEF SerialEvents, ops

\* The fields of a re-stamped event.
LEMMA StampFields ==
  ASSUME NEW e \in Event, NEW r \in Nat
  PROVE  Stamp(e, r) = [pos |-> e.pos, type |-> e.type, key |-> e.key, mod |-> r,
                        prev |-> e.prev,
                        create |-> IF e.type = "PUT" /\ e.create = e.mod THEN r ELSE e.create,
                        version |-> e.version]
<1>1. Stamp(e, r) \in Event /\ Stamp(e, r).mod = r
  BY ZenonT(30) DEF Stamp, Event
<1>2. Stamp(e, r).create = IF e.type = "PUT" /\ e.create = e.mod THEN r ELSE e.create
  BY DEF Stamp, Event
<1>3. /\ Stamp(e, r).pos = e.pos /\ Stamp(e, r).type = e.type /\ Stamp(e, r).key = e.key
      /\ Stamp(e, r).prev = e.prev /\ Stamp(e, r).version = e.version
  BY DEF Stamp, Event
<1> QED
  BY <1>1, <1>2, <1>3 DEF Event

\* Re-stamping, in prepare, of an event evaluated at revision `at` gives the
\* event evaluated at n, the revision before the new one: a create revision
\* staged by this transaction moves along, an older one is never mistaken for
\* one.
LEMMA StampEventOf ==
  ASSUME NEW op \in Op, NEW i \in OpPositions, NEW at \in Nat, NEW view \in [Keys -> Kv],
         \A k \in Keys : view[k].create <= at,
         Stages(op, view), NEW n \in Nat
  PROVE  Stamp(EventOf(op, i, view, at), n + 1) = EventOf(op, i, view, n)
<1>1. op.key \in Keys
  BY StagesKey DEF Stages, IsWrite
<1>2. view[op.key] \in Kv /\ view[op.key].create <= at /\ view[op.key].create \in Nat
  BY <1>1 DEF Kv
<1>3. n + 1 \in Nat
  OBVIOUS
<1>4. EventOf(op, i, view, at) \in Event
  BY EventOfSpec
<1>5. CASE op.type = "put"
  BY <1>2, <1>3, <1>4, <1>5, StampFields DEF EventOf, PutEvent
<1>6. CASE op.type # "put"
  BY <1>3, <1>4, <1>6, StampFields, ZenonT(30) DEF EventOf, DeleteEvent
<1> QED
  BY <1>5, <1>6

\* The same for everything a transaction staged.
LEMMA StampSerialEvents ==
  ASSUME NEW request \in Requests, NEW at \in Nat, NEW view \in [Keys -> Kv],
         \A k \in Keys : view[k].create <= at, NEW n \in Nat
  PROVE  {Stamp(e, n + 1) : e \in SerialEvents(request, view, at)} = SerialEvents(request, view, n)
<1> DEFINE ops == Branch(request, view)
<1>1. ops \in Seq(Op) /\ DOMAIN ops \subseteq OpPositions
  BY BranchSpec
<1> HIDE DEF ops
<1>2. ASSUME NEW i \in DOMAIN ops, Stages(ops[i], view)
      PROVE  Stamp(EventOf(ops[i], i, view, at), n + 1) = EventOf(ops[i], i, view, n)
  <2>1. ops[i] \in Op /\ i \in OpPositions
    BY <1>1
  <2> QED
    BY <1>2, <2>1, StampEventOf
<1>3. ASSUME NEW e \in Events(ops, view, at)
      PROVE  Stamp(e, n + 1) \in Events(ops, view, n)
  <2>1. PICK i \in DOMAIN ops : Stages(ops[i], view) /\ e = EventOf(ops[i], i, view, at)
    BY EventsMembers
  <2> QED
    BY <1>2, <2>1, EventsMembers
<1>4. ASSUME NEW f \in Events(ops, view, n)
      PROVE  \E e \in Events(ops, view, at) : f = Stamp(e, n + 1)
  <2>1. PICK i \in DOMAIN ops : Stages(ops[i], view) /\ f = EventOf(ops[i], i, view, n)
    BY EventsMembers
  <2>2. EventOf(ops[i], i, view, at) \in Events(ops, view, at)
    BY <2>1, EventsMembers
  <2> QED
    BY <1>2, <2>1, <2>2
<1>5. {Stamp(e, n + 1) : e \in Events(ops, view, at)} = Events(ops, view, n)
  BY <1>3, <1>4
<1> QED
  BY <1>5 DEF SerialEvents, ops

\* The events of a stamped record.
LEMMA StampedEvents ==
  ASSUME NEW p \in Record, NEW r
  PROVE  StampRecord(p, r).events = {Stamp(e, r) : e \in p.events}
BY DEF StampRecord, Record

\* A stamped record writes the same keys, and is well-formed at its revision.
LEMMA StampRecordSpec ==
  ASSUME NEW p \in Record, NEW at \in Nat, NEW r \in Nat, at < r,
         EventsStamped(p.events, at + 1)
  PROVE  /\ StampRecord(p, r) \in Record
         /\ StampRecord(p, r).txn = p.txn
         /\ StampRecord(p, r).meta = p.meta
         /\ StampRecord(p, r).events = {Stamp(e, r) : e \in p.events}
         /\ EventsStamped(StampRecord(p, r).events, r)
         /\ \A k : Writes(StampRecord(p, r), k) <=> Writes(p, k)
<1>1. \A e \in p.events : e \in Event /\ e.mod = at + 1 /\ e.create <= at + 1
  BY DEF Record, EventsStamped
<1>2. ASSUME NEW e \in p.events
      PROVE  /\ Stamp(e, r) \in Event
             /\ Stamp(e, r).key = e.key
             /\ Stamp(e, r).mod = r
             /\ Stamp(e, r).create <= r
  <2>1. e \in Event /\ e.create <= at + 1 /\ e.create \in Nat
    BY <1>1 DEF Event
  <2>2. Stamp(e, r) \in Event
    BY <2>1, ZenonT(30) DEF Stamp, Event
  <2> QED
    BY <2>1, <2>2, StampFields
<1>3. /\ StampRecord(p, r).txn = p.txn
      /\ StampRecord(p, r).meta = p.meta
      /\ StampRecord(p, r).events = {Stamp(e, r) : e \in p.events}
  BY DEF StampRecord, Record
<1>4. StampRecord(p, r) \in Record
  <2>1. {Stamp(e, r) : e \in p.events} \in SUBSET Event
    BY <1>2
  <2> QED
    BY <2>1 DEF StampRecord, Record
<1>5. EventsStamped({Stamp(e, r) : e \in p.events}, r)
  BY <1>2 DEF EventsStamped
<1>6. \A k : Writes(StampRecord(p, r), k) <=> Writes(p, k)
  BY <1>2, <1>3 DEF Writes
<1> QED
  BY <1>3, <1>4, <1>5, <1>6

-----------------------------------------------------------------------------
(* Steps.                                                                  *)


\* The decided records are the published log, followed in the prepare stage
\* by the accepted records of the batch in hand.
LEMMA DecidedSpec ==
  ASSUME TypeOK
  PROVE  /\ Decided \in Seq(Record)
         /\ log \in Seq(Record)
         /\ flush.accepted \in Seq(Record)
         /\ Len(Decided) = IF flush.stage = "prepare" THEN Len(log) + Len(flush.accepted)
                                                      ELSE Len(log)
         /\ \A i \in 1..Len(log) : Decided[i] = log[i]
<1>1. log \in Seq(Record) /\ flush.accepted \in Seq(Record)
  BY DEF TypeOK
<1>2. CASE flush.stage = "prepare"
  BY <1>1, <1>2, ConcatSpec DEF Decided
<1>3. CASE flush.stage # "prepare"
  BY <1>1, <1>3 DEF Decided
<1> QED
  BY <1>1, <1>2, <1>3

\* The same as sequences over 1..Len, in every state of the invariant.
LEMMA DecidedLength ==
  ASSUME IInv
  PROVE  /\ Decided \in Seq(Record) /\ Len(Decided) \in Nat /\ DOMAIN Decided = 1..Len(Decided)
         /\ log \in Seq(Record) /\ Len(log) \in Nat /\ DOMAIN log = 1..Len(log)
         /\ flush.accepted \in Seq(Record) /\ Len(flush.accepted) \in Nat
         /\ Len(Decided) = IF flush.stage = "prepare" THEN Len(log) + Len(flush.accepted)
                                                      ELSE Len(log)
         /\ Len(log) <= Len(Decided)
         /\ \A i \in 1..Len(log) : Decided[i] = log[i]
<1>1. TypeOK
  BY DEF IInv
<1>2. /\ Len(Decided) \in Nat /\ DOMAIN Decided = 1..Len(Decided)
      /\ Len(log) \in Nat /\ DOMAIN log = 1..Len(log)
      /\ Len(flush.accepted) \in Nat
  BY <1>1, DecidedSpec, SeqSpec
<1>3. Len(Decided) = IF flush.stage = "prepare" THEN Len(log) + Len(flush.accepted)
                                                ELSE Len(log)
  BY <1>1, DecidedSpec
<1>4. Len(log) <= Len(Decided)
  BY <1>2, <1>3
<1> QED
  BY <1>1, <1>2, <1>3, <1>4, DecidedSpec

\* The published log is well-formed because the decided records are.
LEMMA LogStamped ==
  ASSUME TypeOK, Stamped(Decided)
  PROVE  Stamped(log)
BY DecidedSpec DEF Stamped

-----------------------------------------------------------------------------
(***************************************************************************)
(* What steps leave alone.                                                 *)
(***************************************************************************)

\* A step that keeps the decided records keeps them well-formed and serial.
LEMMA DecidedFrame ==
  ASSUME Decided' = Decided, req' = req, Stamped(Decided), DecidedSerial
  PROVE  Stamped(Decided)' /\ DecidedSerial'
BY ZenonT(30) DEF Stamped, DecidedSerial, SerialRecord

\* A step that keeps the log and the requests keeps what was staged right.
LEMMA PendingFrame ==
  ASSUME log' = log, req' = req
  PROVE  \A p : PendingOK(p) => PendingOK(p)'
BY ZenonT(30) DEF PendingOK

\* The queued transactions are those of the batching layer.
LEMMA QueuedFrame ==
  ASSUME UNCHANGED batchVars
  PROVE  Queued' = Queued
BY DEF Queued, batchVars

\* committedWrites need not change when no snapshot is added.
LEMMA CoverFrame ==
  ASSUME log' = log, Decided' = Decided, committedWrites' = committedWrites,
         Snapshots' \subseteq Snapshots, CommittedWritesCover
  PROVE  CommittedWritesCover'
BY DEF CommittedWritesCover

\* A step that leaves the log and the batching layer alone has to keep only
\* the index and its own transaction's part of the invariant.
LEMMA LocalStep ==
  ASSUME IInv, TypeOK', UNCHANGED <<log, batchVars, req>>,
         IndexSound(index, log, applied, compacted)',
         applied' <= Len(log), compacted' <= applied',
         Snapshots' \subseteq Snapshots,
         \A t \in Txns : rev'[t] <= Len(log),
         \A t \in Txns : pc'[t] = "evaluate" => snap'[t] <= applied',
         \A t \in Txns : pc'[t] = "append" =>
           PendingOK(PendingTxn(t))' /\ staged'[t].meta.snapshot = snap'[t]
  PROVE  IInv'
<1>1. Decided' = Decided /\ Queued' = Queued
  BY QueuedFrame, ZenonT(30) DEF Decided, batchVars
<1>2. Positions'
  BY ZenonT(30) DEF IInv, Positions, batchVars
<1>3. Stamped(Decided)' /\ DecidedSerial'
  BY <1>1, DecidedFrame, ZenonT(30) DEF IInv
<1>4. CommittedWritesCover'
  BY <1>1, CoverFrame, ZenonT(30) DEF IInv, batchVars
<1>5. StagedAndQueued'
  BY <1>1, PendingFrame, ZenonT(30) DEF IInv, StagedAndQueued
<1> QED
  BY <1>2, <1>3, <1>4, <1>5, ZenonT(30) DEF IInv

\* If it leaves the index alone too, only the transaction's part is left.
LEMMA TxnOnlyStep ==
  ASSUME IInv, TypeOK', UNCHANGED <<storeVars, batchVars, req>>,
         Snapshots' \subseteq Snapshots,
         \A t \in Txns : rev'[t] <= Len(log),
         \A t \in Txns : pc'[t] = "evaluate" => snap'[t] <= applied,
         \A t \in Txns : pc'[t] = "append" =>
           PendingOK(PendingTxn(t))' /\ staged'[t].meta.snapshot = snap'[t]
  PROVE  IInv'
<1>1. UNCHANGED <<log, applied, index, compacted>>
  BY DEF storeVars
<1>2. IndexSound(index, log, applied, compacted)'
  BY <1>1, ZenonT(30) DEF IInv
<1>3. applied' <= Len(log) /\ compacted' <= applied'
  BY <1>1, ZenonT(30) DEF IInv, Positions
<1> QED
  BY <1>1, <1>2, <1>3, LocalStep, ZenonT(30)

-----------------------------------------------------------------------------
(***************************************************************************)
(* The steps of a transaction.                                             *)
(***************************************************************************)

\* Txn takes a snapshot, for its first or for a later attempt.
LEMMA SnapshotKeeps ==
  ASSUME IInv, NEW t \in Txns, attempt' \in [Txns -> 0..MaxAttempts],
         snap' = [snap EXCEPT ![t] = Len(log)],
         pc' = [pc EXCEPT ![t] = "snapshot"],
         UNCHANGED <<storeVars, batchVars, req, staged, rev, procVars>>
  PROVE  IInv'
<1>1. /\ pc' \in [Txns -> Labels]
      /\ snap' \in [Txns -> Nat]
      /\ pc'[t] = "snapshot" /\ snap'[t] = Len(log)
      /\ \A u \in Txns \ {t} : pc'[u] = pc[u] /\ snap'[u] = snap[u]
  <2>1. pc \in [Txns -> Labels] /\ snap \in [Txns -> Nat] /\ Len(log) \in Nat
    BY DecidedSpec, SeqSpec, ZenonT(30) DEF IInv, TypeOK
  <2> QED
    BY <2>1 DEF Labels
<1>2. TypeOK'
  BY <1>1, ZenonT(30) DEF IInv, TypeOK, storeVars, batchVars, procVars
<1>3. Snapshots' \subseteq Snapshots
  BY <1>1, QueuedFrame, ZenonT(30) DEF Snapshots, storeVars
<1>4. \A u \in Txns : rev'[u] <= Len(log)
  BY DEF IInv, Positions
<1>5. \A u \in Txns : pc'[u] = "evaluate" => snap'[u] <= applied
  BY <1>1, ZenonT(30) DEF IInv, Positions
<1>6. ASSUME NEW u \in Txns, pc'[u] = "append"
      PROVE  PendingOK(PendingTxn(u))' /\ staged'[u].meta.snapshot = snap'[u]
  <2>1. pc[u] = "append" /\ snap'[u] = snap[u]
    BY <1>1, <1>6
  <2>2. PendingOK(PendingTxn(u)) /\ staged[u].meta.snapshot = snap[u]
    BY <2>1, ZenonT(30) DEF IInv, StagedAndQueued
  <2> QED
    BY <2>1, <2>2, PendingFrame, ZenonT(30) DEF PendingTxn, storeVars
<1> QED
  BY <1>2, <1>3, <1>4, <1>5, <1>6, TxnOnlyStep, ZenonT(30)

LEMMA BeginKeeps ==
  ASSUME IInv, NEW t \in Txns, Begin(t)
  PROVE  IInv'
<1>1. attempt \in [Txns -> 0..MaxAttempts] /\ MaxAttempts \in Nat \ {0}
  BY BoundsAssumption, ZenonT(30) DEF IInv, TypeOK
<1>2. attempt' \in [Txns -> 0..MaxAttempts]
  BY <1>1 DEF Begin
<1> QED
  BY <1>2, SnapshotKeeps, ZenonT(30) DEF Begin, Goto

LEMMA RetryKeeps ==
  ASSUME IInv, NEW t \in Txns, Retry(t)
  PROVE  IInv'
<1>1. attempt \in [Txns -> 0..MaxAttempts] /\ MaxAttempts \in Nat \ {0}
  BY BoundsAssumption, ZenonT(30) DEF IInv, TypeOK
<1>2. attempt' \in [Txns -> 0..MaxAttempts]
  BY <1>1 DEF Retry
<1> QED
  BY <1>2, SnapshotKeeps, ZenonT(30) DEF Retry, Goto

\* A transaction that stops being tried, with whatever answer.
LEMMA StopKeeps ==
  ASSUME IInv, NEW t \in Txns, NEW label \in {"abandoned", "failed", "error"},
         pc' = [pc EXCEPT ![t] = label],
         UNCHANGED <<storeVars, batchVars, req, snap, attempt, staged, rev, procVars>>
  PROVE  IInv'
<1>1. TypeOK'
  BY ZenonT(30) DEF IInv, TypeOK, Labels, storeVars, batchVars, procVars
<1>2. \A u \in Txns : pc'[u] \in {"snapshot", "evaluate", "append"} => pc'[u] = pc[u]
  BY ZenonT(30) DEF IInv, TypeOK
<1>3. Snapshots' \subseteq Snapshots
  BY <1>2, QueuedFrame, ZenonT(30) DEF Snapshots, storeVars
<1>4. \A u \in Txns : rev'[u] <= Len(log)
  BY ZenonT(30) DEF IInv, Positions
<1>5. \A u \in Txns : pc'[u] = "evaluate" => snap'[u] <= applied
  BY <1>2, ZenonT(30) DEF IInv, Positions
<1>6. ASSUME NEW u \in Txns, pc'[u] = "append"
      PROVE  PendingOK(PendingTxn(u))' /\ staged'[u].meta.snapshot = snap'[u]
  <2>1. PendingOK(PendingTxn(u)) /\ staged[u].meta.snapshot = snap[u]
    BY <1>2, <1>6, ZenonT(30) DEF IInv, StagedAndQueued
  <2> QED
    BY <2>1, PendingFrame, ZenonT(30) DEF PendingTxn, storeVars
<1> QED
  BY <1>1, <1>3, <1>4, <1>5, <1>6, TxnOnlyStep, ZenonT(30)

\* Nothing but the process's own state changes.
LEMMA ProcessKeeps ==
  ASSUME IInv, up' \in BOOLEAN, fatal' \in {"none", "old event is not a PUT"},
         crashes' \in 0..MaxCrashes, UNCHANGED <<storeVars, batchVars, txnVars>>
  PROVE  IInv'
<1> USE DEF txnVars
<1>1. TypeOK'
  BY ZenonT(30) DEF IInv, TypeOK, storeVars, batchVars
<1>2. Snapshots' = Snapshots
  BY QueuedFrame, ZenonT(30) DEF Snapshots, storeVars
<1>3. \A u \in Txns : rev'[u] <= Len(log)
  BY ZenonT(30) DEF IInv, Positions
<1>4. \A u \in Txns : pc'[u] = "evaluate" => snap'[u] <= applied
  BY ZenonT(30) DEF IInv, Positions
<1>5. ASSUME NEW u \in Txns, pc'[u] = "append"
      PROVE  PendingOK(PendingTxn(u))' /\ staged'[u].meta.snapshot = snap'[u]
  <2>1. PendingOK(PendingTxn(u)) /\ staged[u].meta.snapshot = snap[u]
    BY <1>5, ZenonT(30) DEF IInv, StagedAndQueued
  <2> QED
    BY <2>1, PendingFrame, ZenonT(30) DEF PendingTxn, storeVars
<1> QED
  BY <1>1, <1>2, <1>3, <1>4, <1>5, TxnOnlyStep, ZenonT(30)

-----------------------------------------------------------------------------
(***************************************************************************)
(* evaluate.                                                               *)
(***************************************************************************)

\* What the types say of the index.
LEMMA IndexType ==
  ASSUME TypeOK, NEW k \in Keys
  PROVE  /\ index[k].revs \subseteq Nat \ {0}
         /\ index[k].revs \subseteq DOMAIN log
         /\ index[k].tombstone \in BOOLEAN
         /\ index[k] = [revs |-> index[k].revs, tombstone |-> index[k].tombstone]
<1>1. index[k] \in [revs : SUBSET (1..Len(log)), tombstone : BOOLEAN] /\ log \in Seq(Record)
  BY ZenonT(30) DEF TypeOK
<1> QED
  BY <1>1

\* The index finds a revision at which the key was written, or none.
LEMMA IndexLookup ==
  ASSUME IInv, NEW k \in Keys, NEW at \in Nat
  PROVE  LET g == GetLatestRevisionByKey(index, k, at)
         IN /\ g \in 0..at
            /\ g \in 0..Len(log)
            /\ g # 0 => g \in DOMAIN log /\ Writes(log[g], k)
<1> DEFINE g == GetLatestRevisionByKey(index, k, at)
<1>1. /\ index[k].revs \subseteq Nat \ {0}
      /\ index[k].revs \subseteq DOMAIN log
  BY IndexType, ZenonT(30) DEF IInv
<1>2. g \in 0..at /\ (g # 0 => g \in index[k].revs)
  BY <1>1, LatestRevisionSpec
<1>3. \A r \in index[k].revs : Writes(log[r], k)
  BY ZenonT(30) DEF IInv, IndexSound, EntrySound
<1>4. log \in Seq(Record)
  BY ZenonT(30) DEF IInv, TypeOK
<1> HIDE DEF g
<1>5. g # 0 => g \in DOMAIN log /\ Writes(log[g], k)
  BY <1>1, <1>2, <1>3
<1>6. g \in 0..Len(log)
  BY <1>2, <1>4, <1>5
<1> QED
  BY <1>2, <1>5, <1>6, ZenonT(30) DEF g

\* At a revision the index was brought to, it answers what the log says for
\* a key that was not written since, up to the compaction point.
LEMMA IndexAgrees ==
  ASSUME IInv, NEW k \in Keys, NEW at \in 0..applied,
         \A q \in (at + 1)..compacted : ~Writes(log[q], k)
  PROVE  KvAt(log, k, GetLatestRevisionByKey(index, k, at)) = KvAt(log, k, LatestWrite(log, k, at))
<1>1. index[k].revs \subseteq Nat \ {0}
  BY IndexType, ZenonT(30) DEF IInv
<1>2. applied \in Nat /\ compacted \in Nat
  BY ZenonT(30) DEF IInv, TypeOK
<1>3. IndexSound(index, log, applied, compacted)
  BY ZenonT(30) DEF IInv
<1>4. AnswersAsLog(index, log, k, at)
  BY <1>1, <1>2, <1>3, ViewAgrees, ZenonT(30)
<1> QED
  BY <1>4, ZenonT(30) DEF AnswersAsLog

\* What evaluate sees through the index is a pair for each key, no younger
\* than the revision it reads at.
LEMMA IndexViewSpec ==
  ASSUME IInv, NEW at \in Nat
  PROVE  /\ IndexView(at) \in [Keys -> Kv]
         /\ \A k \in Keys : IndexView(at)[k].create <= at
<1>1. ASSUME NEW k \in Keys
      PROVE  LET g == GetLatestRevisionByKey(index, k, at)
             IN KvAt(log, k, g) \in Kv /\ KvAt(log, k, g).create <= at
  <2> DEFINE g == GetLatestRevisionByKey(index, k, at)
  <2>1. g \in 0..at /\ g \in 0..Len(log) /\ (g # 0 => Writes(log[g], k))
    BY IndexLookup
  <2>2. log \in Seq(Record) /\ Stamped(log)
    BY LogStamped, DecidedSpec DEF IInv
  <2> HIDE DEF g
  <2>3. KvAt(log, k, g) \in Kv /\ KvAt(log, k, g).create <= g
    BY <2>1, <2>2, KvAtSpec
  <2>4. KvAt(log, k, g).create <= at
    BY <2>1, <2>3 DEF Kv
  <2> QED
    BY <2>3, <2>4 DEF g
<1> QED
  BY <1>1 DEF IndexView

\* The answers of reads are sets of keys and pairs.
LEMMA AnswersType ==
  ASSUME IInv, NEW request \in Requests, NEW view, NEW at \in Nat
  PROVE  Answers(Branch(request, view), at) \in SUBSET Answer
<1> DEFINE ops == Branch(request, view)
<1>1. ops \in Seq(Op) /\ DOMAIN ops \subseteq OpPositions
  BY BranchSpec
<1> HIDE DEF ops
<1>2. ASSUME NEW i \in DOMAIN ops, ops[i].type = "get"
      PROVE  GetAnswer(ops[i], at) \in SUBSET (Keys \X Kv)
  <2>1. ops[i].key \in Keys /\ ops[i].rev \in Nat
    BY <1>1, <1>2 DEF Op
  <2>2. ReadRev(ops[i], at) \in Nat
    BY <2>1 DEF ReadRev
  <2>3. IndexView(ReadRev(ops[i], at))[ops[i].key] \in Kv
    BY <2>1, <2>2, IndexViewSpec
  <2> QED
    BY <2>1, <2>3 DEF GetAnswer
<1>3. ASSUME NEW i \in DOMAIN ops, ops[i].type = "list"
      PROVE  ListAnswer(ops[i], at) \in SUBSET (Keys \X Kv)
  <2>1. ops[i].range \in SUBSET Keys /\ ops[i].rev \in Nat
    BY <1>1, <1>3 DEF Op
  <2>2. ReadRev(ops[i], at) \in Nat
    BY <2>1 DEF ReadRev
  <2>3. ASSUME NEW k \in ops[i].range, GetLatestRevisionByKey(index, k, ReadRev(ops[i], at)) # 0,
               NEW e \in log[GetLatestRevisionByKey(index, k, ReadRev(ops[i], at))].events,
               e.type = "PUT"
        PROVE  <<e.key, KvOf(e)>> \in Keys \X Kv
    <3> DEFINE g == GetLatestRevisionByKey(index, k, ReadRev(ops[i], at))
    <3>1. g \in DOMAIN log
      BY <2>1, <2>2, <2>3, IndexLookup, ZenonT(30)
    <3> HIDE DEF g
    <3>2. log[g] \in Record
      <4>1. log \in Seq(Record)
        BY ZenonT(30) DEF IInv, TypeOK
      <4> QED
        BY <3>1, <4>1
    <3>3. e \in Event
      BY <2>3, <3>2, ZenonT(30) DEF Record, g
    <3> QED
      BY <2>3, <3>3, ZenonT(30) DEF KvOf, Event, Kv
  <2> QED
    BY <2>3 DEF ListAnswer
<1>4. ASSUME NEW i \in {j \in DOMAIN ops : ops[j].type \in {"get", "list"}}
      PROVE  [pos |-> i,
              kvs |-> IF ops[i].type = "get" THEN GetAnswer(ops[i], at) ELSE ListAnswer(ops[i], at)]
             \in Answer
  <2>1. i \in OpPositions
    BY <1>1, <1>4
  <2> QED
    BY <1>2, <1>3, <1>4, <2>1, ZenonT(30) DEF Answer
<1>5. Answers(ops, at) \in SUBSET Answer
  BY <1>4, ZenonT(30) DEF Answers
<1> QED
  BY <1>5 DEF ops

\* What evaluate records about a request it ran at a revision: the keys it
\* compared are among those it read, at that revision or before.
ReadsRecorded(meta, request, at) ==
  /\ meta \in TxnMeta
  /\ meta.snapshot = at
  /\ \A o \in meta.reads : o.rev <= at
  /\ \A c \in request.compare : c.key \in ReadSet(meta)

\* The TxnMeta evaluate builds, and what its read set holds.
LEMMA MetaSpec ==
  ASSUME IInv, NEW request \in Requests, NEW view, NEW at \in Nat
  PROVE  ReadsRecorded(Meta(request, Branch(request, view), view, at), request, at)
<1> DEFINE ops == Branch(request, view)
           meta == Meta(request, ops, view, at)
<1>1. ops \in Seq(Op)
  BY BranchSpec
<1>2. \A c \in request.compare : c.key \in Keys
  BY RequestsAssumption DEF Request, Compare
<1> HIDE DEF ops
<1>3. \A i \in DOMAIN ops : ops[i].type \in {"get", "put", "delete"} => ops[i].key \in Keys
  BY <1>1 DEF Op
<1>4. ReadKeys(request, ops) \subseteq Keys
  BY <1>2, <1>3 DEF ReadKeys
<1>5. \A k \in Keys : GetLatestRevisionByKey(index, k, at) \in 0..at
  BY IndexLookup
<1>6. meta.reads \in SUBSET [key : Keys, rev : 0..at]
  BY <1>4, <1>5 DEF Meta
<1>7. meta.writes \in SUBSET Keys
  BY <1>3, ZenonT(30) DEF Meta, Stages
<1>8. meta.missed \in SUBSET Keys
  BY <1>3, ZenonT(30) DEF Meta
<1>9. meta \in TxnMeta
  <2>1. /\ meta = [snapshot |-> meta.snapshot, reads |-> meta.reads, writes |-> meta.writes,
                   ranged |-> meta.ranged, missed |-> meta.missed]
        /\ meta.snapshot = at /\ meta.ranged \in BOOLEAN
    BY ZenonT(30) DEF Meta
  <2> HIDE DEF meta
  <2>2. meta.reads \in SUBSET [key : Keys, rev : Nat]
    BY <1>6
  <2> QED
    BY <1>7, <1>8, <2>1, <2>2 DEF TxnMeta
<1>10. meta.snapshot = at /\ \A o \in meta.reads : o.rev <= at
  <2>1. meta.snapshot = at
    BY ZenonT(30) DEF Meta
  <2> HIDE DEF meta
  <2>2. \A o \in meta.reads : o.rev <= at
    BY <1>6
  <2> QED
    BY <2>1, <2>2, ZenonT(30)
<1>11. \A c \in request.compare : c.key \in ReadSet(meta)
  <2>1. \A c \in request.compare : c.key \in ReadKeys(request, ops)
    BY DEF ReadKeys
  <2>2. ASSUME NEW k \in ReadKeys(request, ops)
        PROVE  k \in ReadSet(meta)
    <3> DEFINE o == [key |-> k, rev |-> GetLatestRevisionByKey(index, k, at)]
    <3>1. o \in meta.reads /\ o.key = k
      BY ZenonT(30) DEF Meta
    <3> QED
      BY <3>1, ZenonT(30) DEF ReadSet
  <2> QED
    BY <2>1, <2>2, ZenonT(30)
<1> QED
  BY <1>9, <1>10, <1>11, ZenonT(30) DEF ops, ReadsRecorded

\* The record evaluate stages: right for its snapshot, or there is a later
\* write of a key it recorded.
LEMMA EvaluatedOK ==
  ASSUME IInv, NEW t \in Txns, pc[t] = "evaluate"
  PROVE  LET at == snap[t]
             view == IndexView(at)
             ops == Branch(req[t], view)
         IN PendingOK([txn |-> t, events |-> Events(ops, view, at),
                       meta |-> Meta(req[t], ops, view, at)])
<1> DEFINE at == snap[t]
           view == IndexView(at)
           request == req[t]
           ops == Branch(request, view)
           events == Events(ops, view, at)
           meta == Meta(request, ops, view, at)
           before == StateAt(log, at)
           p == [txn |-> t, events |-> events, meta |-> meta]
<1>1. /\ at \in Nat /\ applied \in Nat /\ compacted \in Nat /\ Len(log) \in Nat
      /\ at <= applied /\ compacted <= applied /\ applied <= Len(log)
  BY DecidedSpec, SeqSpec, ZenonT(30) DEF IInv, TypeOK, Positions
<1>2. request \in Requests
  BY ZenonT(30) DEF IInv, TypeOK
<1>3. view \in [Keys -> Kv] /\ \A k \in Keys : view[k].create <= at
  BY <1>1, IndexViewSpec, ZenonT(30)
<1>4. ops \in Seq(Op) /\ DOMAIN ops \subseteq OpPositions
  BY <1>2, BranchSpec, ZenonT(30)
<1>5. /\ meta \in TxnMeta /\ meta.snapshot = at
      /\ \A o \in meta.reads : o.rev <= at
      /\ \A c \in request.compare : c.key \in ReadSet(meta)
  <2>1. at \in Nat
    BY <1>1, ZenonT(30)
  <2>2. ReadsRecorded(meta, request, at)
    BY <1>2, <2>1, MetaSpec, ZenonT(30)
  <2> QED
    BY <2>2, ZenonT(30) DEF ReadsRecorded
<1>6. events = SerialEvents(request, view, at)
  BY DEF SerialEvents
<1>7. EventsStamped(events, at + 1)
  BY <1>1, <1>2, <1>3, <1>6, EventsSpec, ZenonT(30)
<1>8. /\ meta.writes = {ops[i].key : i \in {j \in DOMAIN ops : Stages(ops[j], view)}}
      /\ meta.missed = {ops[i].key : i \in {j \in DOMAIN ops :
                          ops[j].type = "delete" /\ view[ops[j].key] = NoKv}}
  BY ZenonT(30) DEF Meta
<1> HIDE DEF at, view, request, ops, events, meta, before
<1>9. meta.writes = {e.key : e \in events}
  <2>1. \A i \in DOMAIN ops : EventOf(ops[i], i, view, at).key = ops[i].key
    BY EventOfKey
  <2>2. /\ \A e \in events : \E i \in DOMAIN ops :
             Stages(ops[i], view) /\ e = EventOf(ops[i], i, view, at)
        /\ \A i \in DOMAIN ops : Stages(ops[i], view) => EventOf(ops[i], i, view, at) \in events
    BY EventsMembers, Zenon DEF events
  <2>3. ASSUME NEW e \in events
        PROVE  e.key \in meta.writes
    <3>1. PICK i \in DOMAIN ops : Stages(ops[i], view) /\ e = EventOf(ops[i], i, view, at)
      BY <2>2, ZenonT(30)
    <3>2. e.key = ops[i].key
      BY <2>1, <3>1, ZenonT(30)
    <3> QED
      BY <1>8, <3>1, <3>2, ZenonT(30)
  <2>4. ASSUME NEW k \in meta.writes
        PROVE  \E e \in events : e.key = k
    <3>1. PICK i \in DOMAIN ops : Stages(ops[i], view) /\ k = ops[i].key
      BY <1>8, ZenonT(30)
    <3> QED
      BY <2>1, <2>2, <3>1, ZenonT(30)
  <2> QED
    BY <2>3, <2>4, ZenonT(30)
<1>10. ASSUME Recorded(meta),
              ~\E q \in (at + 1)..Len(log), k \in Validated(meta) : Writes(log[q], k)
       PROVE  Covers(meta, request, before) /\ events = SerialEvents(request, before, at)
  <2>1. Covers(meta, request, view)
    <3>1. ASSUME NEW i \in DOMAIN ops, IsWrite(ops[i])
          PROVE  ops[i].key \in Validated(meta)
      <4>1. CASE Stages(ops[i], view)
        BY <1>8, <4>1, ZenonT(30) DEF Validated
      <4>2. CASE ~Stages(ops[i], view)
        BY <1>8, <1>10, <3>1, <4>2, ZenonT(30) DEF Stages, IsWrite, Recorded, Validated
      <4> QED
        BY <4>1, <4>2
    <3> QED
      BY <1>5, <3>1, ZenonT(30) DEF Covers, Validated, ops
  <2>2. ASSUME NEW k \in Validated(meta)
        PROVE  view[k] = before[k]
    <3>1. k \in Keys
      BY <1>5 DEF Validated, ReadSet, TxnMeta
    <3>2. \A q \in (at + 1)..compacted : ~Writes(log[q], k)
      BY <1>1, <1>10
    <3>3. at \in 0..applied
      BY <1>1
    <3>4. KvAt(log, k, GetLatestRevisionByKey(index, k, at)) = KvAt(log, k, LatestWrite(log, k, at))
      BY <3>1, <3>2, <3>3, IndexAgrees
    <3> QED
      BY <3>1, <3>4 DEF view, before, IndexView, StateAt
  <2>3. /\ Branch(request, view) = Branch(request, before)
        /\ SerialEvents(request, view, at) = SerialEvents(request, before, at)
    BY <2>1, <2>2, SameEvents
  <2>4. Covers(meta, request, before)
    BY <2>1, <2>3, ZenonT(30) DEF Covers
  <2> QED
    BY <1>6, <2>3, <2>4
<1>11. p.meta = meta /\ p.events = events /\ p.txn = t /\ p.meta.snapshot = at
  BY <1>5, ZenonT(30)
<1> HIDE DEF p
<1>12. PendingOK(p)
  BY <1>5, <1>7, <1>9, <1>10, <1>11, ZenonT(30) DEF PendingOK, before, request
<1> QED
  BY <1>12, ZenonT(30) DEF p, meta, events, ops, request, view, at

\* MemoryStorage.evaluate.
LEMMA EvaluateKeeps ==
  ASSUME IInv, NEW t \in Txns, Evaluate(t)
  PROVE  IInv'
<1> DEFINE at == snap[t]
           view == IndexView(at)
           ops == Branch(req[t], view)
           bad == FirstFailure(ops, at)
           events == Events(ops, view, at)
           result == [events |-> events, meta |-> Meta(req[t], ops, view, at),
                      succeeded |-> Succeeded(req[t], view), answers |-> Answers(ops, at)]
<1>1. pc[t] = "evaluate" /\ UNCHANGED <<storeVars, batchVars, req, snap, attempt, crashes>>
  BY ZenonT(30) DEF Evaluate
<1>2. /\ at \in Nat /\ at <= Len(log) /\ req[t] \in Requests
      /\ pc \in [Txns -> Labels] /\ rev \in [Txns -> Nat]
      /\ \A u \in Txns : rev[u] <= Len(log)
  <2>1. at \in Snapshots
    BY <1>1, ZenonT(30) DEF Snapshots
  <2> QED
    BY <2>1, ZenonT(30) DEF IInv, TypeOK, Positions, CommittedWritesCover
<1>3. CASE /\ staged' = [staged EXCEPT ![t] = result]
           /\ rev' = [rev EXCEPT ![t] = at]
           /\ Goto(t, IF events = {} THEN "done" ELSE "append")
           /\ UNCHANGED <<up, fatal>>
  <2>1. view \in [Keys -> Kv] /\ \A k \in Keys : view[k].create <= at
    BY <1>2, IndexViewSpec
  <2>2. events \in SUBSET Event
    BY <1>2, <2>1, EventsSpec, ZenonT(30) DEF SerialEvents
  <2>3. Meta(req[t], ops, view, at) \in TxnMeta /\ Meta(req[t], ops, view, at).snapshot = at
    <3>1. req[t] \in Requests /\ at \in Nat
      BY <1>2, ZenonT(30)
    <3> HIDE DEF at, view, events
    <3>2. ReadsRecorded(Meta(req[t], ops, view, at), req[t], at)
      BY <3>1, MetaSpec, ZenonT(30)
    <3> QED
      BY <3>2, ZenonT(30) DEF ReadsRecorded
  <2>4. Answers(ops, at) \in SUBSET Answer
    BY <1>2, AnswersType, ZenonT(30)
  <2>5. Succeeded(req[t], view) \in BOOLEAN
    BY ZenonT(30) DEF Succeeded
  <2>6. PendingOK([txn |-> t, events |-> events, meta |-> Meta(req[t], ops, view, at)])
    BY <1>1, EvaluatedOK, ZenonT(30)
  <2> HIDE DEF at, view, ops, bad, events
  <2>7. result \in [events : SUBSET Event, meta : TxnMeta, succeeded : BOOLEAN,
                    answers : SUBSET Answer]
    BY <2>2, <2>3, <2>4, <2>5
  <2>8. /\ result.events = events
        /\ result.meta = Meta(req[t], ops, view, at)
        /\ result.meta.snapshot = at
    BY <2>3, ZenonT(30)
  <2> HIDE DEF result
  <2>9. staged \in [Txns -> [events : SUBSET Event, meta : TxnMeta, succeeded : BOOLEAN,
                             answers : SUBSET Answer]]
    BY ZenonT(30) DEF IInv, TypeOK
  <2>10. /\ staged' \in [Txns -> [events : SUBSET Event, meta : TxnMeta, succeeded : BOOLEAN,
                                  answers : SUBSET Answer]]
         /\ staged'[t] = result
         /\ \A u \in Txns \ {t} : staged'[u] = staged[u]
    BY <1>3, <2>7, <2>9
  <2>11. /\ rev' \in [Txns -> Nat]
         /\ \A u \in Txns : rev'[u] <= Len(log)
    BY <1>2, <1>3
  <2>12. /\ pc' \in [Txns -> Labels]
         /\ pc'[t] \in {"done", "append"}
         /\ \A u \in Txns \ {t} : pc'[u] = pc[u]
    BY <1>2, <1>3 DEF Goto, Labels
  <2>13. TypeOK'
    BY <1>1, <1>3, <2>10, <2>11, <2>12, ZenonT(30) DEF IInv, TypeOK, storeVars, batchVars
  <2>14. Snapshots' \subseteq Snapshots
    BY <1>1, <2>12, QueuedFrame, ZenonT(30) DEF Snapshots, storeVars
  <2>15. \A u \in Txns : pc'[u] = "evaluate" => snap'[u] <= applied
    BY <1>1, <2>12, ZenonT(30) DEF IInv, Positions
  <2>16. ASSUME NEW u \in Txns, pc'[u] = "append"
         PROVE  PendingOK(PendingTxn(u))' /\ staged'[u].meta.snapshot = snap'[u]
    <3>1. CASE u = t
      <4>1. PendingTxn(t)' = [txn |-> t, events |-> events, meta |-> Meta(req[t], ops, view, at)]
        BY <2>8, <2>10, ZenonT(30) DEF PendingTxn
      <4>2. staged'[t].meta.snapshot = snap'[t]
        BY <1>1, <2>8, <2>10, ZenonT(30) DEF at
      <4> QED
        BY <1>1, <2>6, <3>1, <4>1, <4>2, PendingFrame, ZenonT(30) DEF storeVars
    <3>2. CASE u # t
      <4>1. PendingOK(PendingTxn(u)) /\ staged[u].meta.snapshot = snap[u]
        BY <2>12, <2>16, <3>2, ZenonT(30) DEF IInv, StagedAndQueued
      <4>2. PendingTxn(u)' = PendingTxn(u)
        BY <2>10, <3>2, ZenonT(30) DEF PendingTxn
      <4> QED
        BY <1>1, <2>10, <3>2, <4>1, <4>2, PendingFrame, ZenonT(30) DEF storeVars
    <3> QED
      BY <3>1, <3>2, ZenonT(30)
  <2> QED
    BY <1>1, <2>11, <2>13, <2>14, <2>15, <2>16, TxnOnlyStep, ZenonT(30)
<1>4. CASE Goto(t, "error") /\ UNCHANGED <<staged, rev, up, fatal>>
  BY <1>1, <1>4, StopKeeps, ZenonT(30) DEF Goto, procVars
<1>5. CASE up' = FALSE /\ fatal' = "old event is not a PUT" /\ UNCHANGED <<staged, rev, pc>>
  <2>1. crashes' \in 0..MaxCrashes
    BY <1>1, ZenonT(30) DEF IInv, TypeOK
  <2> QED
    BY <1>1, <1>5, <2>1, ProcessKeeps, ZenonT(30) DEF txnVars
<1> QED
  BY <1>3, <1>4, <1>5, ZenonT(30) DEF Evaluate

-----------------------------------------------------------------------------
(***************************************************************************)
(* Steps that change the index.                                            *)
(***************************************************************************)

\* An index over the first n revisions.
IndexOver(n) == [Keys -> [revs : SUBSET (1..n), tombstone : BOOLEAN]]

\* AddRevision stays within the log.
LEMMA AddRevisionsType ==
  ASSUME NEW n \in Nat, NEW idx \in IndexOver(n), NEW L, NEW from \in Nat \ {0}, NEW to \in 0..n
  PROVE  AddRevisions(idx, L, from, to) \in IndexOver(n)
<1> SUFFICES ASSUME NEW k \in Keys
             PROVE  LET new == {r \in from..to : Writes(L[r], k)}
                    IN (IF new = {} THEN idx[k]
                        ELSE [revs |-> idx[k].revs \cup new,
                              tombstone |-> LastEvent(L[Max(new)], k).type = "DELETE"])
                       \in [revs : SUBSET (1..n), tombstone : BOOLEAN]
  BY ZenonT(30) DEF AddRevisions, IndexOver
<1> DEFINE new == {r \in from..to : Writes(L[r], k)}
<1>1. new \in SUBSET (1..n)
  OBVIOUS
<1>2. idx[k] \in [revs : SUBSET (1..n), tombstone : BOOLEAN]
  BY ZenonT(30) DEF IndexOver
<1>3. (LastEvent(L[Max(new)], k).type = "DELETE") \in BOOLEAN
  OBVIOUS
<1> HIDE DEF new
<1>4. idx[k].revs \cup new \in SUBSET (1..n)
  BY <1>1, <1>2, ZenonT(30)
<1>5. [revs |-> idx[k].revs \cup new, tombstone |-> LastEvent(L[Max(new)], k).type = "DELETE"]
        \in [revs : SUBSET (1..n), tombstone : BOOLEAN]
  BY <1>3, <1>4, ZenonT(30)
<1> QED
  BY <1>2, <1>5, ZenonT(30) DEF new

\* applyUpTo brings the index up to `to` and keeps it sound.
LEMMA ApplyUpToSpec ==
  ASSUME IInv, NEW to \in Nat, to <= Len(log), ApplyUpTo(to), log' = log, compacted' = compacted
  PROVE  /\ applied' \in Nat /\ applied <= applied' /\ to <= applied' /\ applied' <= Len(log)
         /\ compacted' <= applied'
         /\ index' \in IndexOver(Len(log))
         /\ IndexSound(index, log, applied, compacted)'
<1>1. /\ applied \in Nat /\ compacted \in Nat /\ Len(log) \in Nat
      /\ compacted <= applied /\ applied <= Len(log)
      /\ index \in IndexOver(Len(log)) /\ log \in Seq(Record) /\ Stamped(log)
      /\ IndexSound(index, log, applied, compacted)
  BY DecidedSpec, SeqSpec, LogStamped, ZenonT(30) DEF IInv, TypeOK, Positions, IndexOver
<1>2. CASE applied >= to
  <2>1. UNCHANGED <<applied, index>>
    BY <1>1, <1>2 DEF ApplyUpTo
  <2> QED
    BY <1>1, <1>2, <2>1
<1>3. CASE ~(applied >= to)
  <2>1. applied' = to /\ index' = AddRevisions(index, log, applied + 1, to)
    BY <1>3 DEF ApplyUpTo
  <2>2. AddRevisions(index, log, applied + 1, to) \in IndexOver(Len(log))
    BY <1>1, AddRevisionsType
  <2>3. \A k \in Keys : index[k].revs \subseteq Nat \ {0}
    BY IndexType, ZenonT(30) DEF IInv
  <2>4. to \in applied..Len(log)
    BY <1>1, <1>3
  <2>5. /\ log \in Seq(Record) /\ Stamped(log) /\ applied \in Nat /\ compacted \in Nat
        /\ compacted <= applied /\ IndexSound(index, log, applied, compacted)
    BY <1>1
  <2>6. IndexSound(AddRevisions(index, log, applied + 1, to), log, to, compacted)
    BY <2>3, <2>4, <2>5, AddRevisionsSound, ZenonT(30)
  <2> QED
    BY <1>1, <1>3, <2>1, <2>2, <2>6
<1> QED
  BY <1>2, <1>3

\* tryTxn and commit call applyUpTo and move on.
LEMMA ApplyKeeps ==
  ASSUME IInv, NEW t \in Txns, NEW to \in Nat, to <= Len(log), ApplyUpTo(to),
         NEW label \in {"evaluate", "done"}, pc' = [pc EXCEPT ![t] = label],
         label = "evaluate" => snap[t] = to /\ pc[t] = "snapshot",
         UNCHANGED <<log, compacted, batchVars, req, snap, attempt, staged, rev, procVars>>
  PROVE  IInv'
<1>1. /\ applied' \in Nat /\ applied <= applied' /\ to <= applied' /\ applied' <= Len(log)
      /\ compacted' <= applied'
      /\ index' \in IndexOver(Len(log))
      /\ IndexSound(index, log, applied, compacted)'
  BY ApplyUpToSpec, ZenonT(30)
<1>2. /\ pc' \in [Txns -> Labels]
      /\ pc'[t] = label
      /\ \A u \in Txns \ {t} : pc'[u] = pc[u]
  <2>1. pc \in [Txns -> Labels]
    BY ZenonT(30) DEF IInv, TypeOK
  <2> QED
    BY <2>1 DEF Labels
<1>3. TypeOK'
  BY <1>1, <1>2, ZenonT(30) DEF IInv, TypeOK, IndexOver, batchVars, procVars
<1>4. Snapshots' \subseteq Snapshots
  BY <1>2, QueuedFrame, ZenonT(30) DEF Snapshots
<1>5. \A u \in Txns : rev'[u] <= Len(log)
  BY ZenonT(30) DEF IInv, Positions
<1>6. ASSUME NEW u \in Txns, pc'[u] = "evaluate"
      PROVE  snap'[u] <= applied'
  <2>1. CASE u = t
    BY <1>1, <1>2, <1>6, <2>1
  <2>2. CASE u # t
    <3>1. snap[u] <= applied /\ snap[u] \in Nat /\ applied \in Nat
      BY <1>2, <1>6, <2>2, ZenonT(30) DEF IInv, Positions, TypeOK
    <3> QED
      BY <1>1, <3>1
  <2> QED
    BY <2>1, <2>2
<1>7. ASSUME NEW u \in Txns, pc'[u] = "append"
      PROVE  PendingOK(PendingTxn(u))' /\ staged'[u].meta.snapshot = snap'[u]
  <2>1. PendingOK(PendingTxn(u)) /\ staged[u].meta.snapshot = snap[u]
    BY <1>2, <1>7, ZenonT(30) DEF IInv, StagedAndQueued
  <2> QED
    BY <2>1, PendingFrame, ZenonT(30) DEF PendingTxn
<1> QED
  BY <1>1, <1>3, <1>4, <1>5, <1>6, <1>7, LocalStep, ZenonT(30)

LEMMA ApplySnapshotKeeps ==
  ASSUME IInv, NEW t \in Txns, ApplySnapshot(t)
  PROVE  IInv'
<1>1. snap[t] \in Snapshots
  BY ZenonT(30) DEF ApplySnapshot, Snapshots
<1>2. snap[t] \in Nat /\ snap[t] <= Len(log)
  BY <1>1, ZenonT(30) DEF IInv, TypeOK, CommittedWritesCover
<1>3. /\ ApplyUpTo(snap[t]) /\ pc[t] = "snapshot" /\ pc' = [pc EXCEPT ![t] = "evaluate"]
      /\ UNCHANGED <<log, compacted, batchVars, req, snap, attempt, staged, rev, procVars>>
  BY DEF ApplySnapshot, Goto
<1> QED
  BY <1>2, <1>3, ApplyKeeps, ZenonT(30)

LEMMA FinishKeeps ==
  ASSUME IInv, NEW t \in Txns, Finish(t)
  PROVE  IInv'
<1>1. rev[t] \in Nat /\ rev[t] <= Len(log)
  BY ZenonT(30) DEF IInv, TypeOK, Positions
<1>2. /\ ApplyUpTo(rev[t]) /\ pc' = [pc EXCEPT ![t] = "done"]
      /\ UNCHANGED <<log, compacted, batchVars, req, snap, attempt, staged, rev, procVars>>
  BY DEF Finish, Goto
<1> QED
  BY <1>1, <1>2, ApplyKeeps, ZenonT(30)

\* MemoryStorage.Compact.
LEMMA CompactKeeps ==
  ASSUME IInv, NEW revision \in CompactRevs, Compact(revision)
  PROVE  IInv'
<1> DEFINE through == Min({revision, applied})
<1>1. /\ applied \in Nat /\ compacted \in Nat /\ Len(log) \in Nat
      /\ applied <= Len(log) /\ compacted <= applied
      /\ index \in IndexOver(Len(log))
  BY DecidedSpec, SeqSpec, ZenonT(30) DEF IInv, TypeOK, Positions, IndexOver
<1>2. /\ through > compacted
      /\ index' = [k \in Keys |-> CompactRevisions(index[k], through)]
      /\ compacted' = through
      /\ UNCHANGED <<log, applied, batchVars, txnVars, procVars>>
  BY DEF Compact
<1>3. through \in Nat /\ through <= applied
  BY <1>1, MinOfTwo, BoundsAssumption
<1> HIDE DEF through
<1>4. ASSUME NEW k \in Keys
      PROVE  /\ CompactRevisions(index[k], through) \in
                  [revs : SUBSET (1..Len(log)), tombstone : BOOLEAN]
             /\ EntrySound(CompactRevisions(index[k], through), k, log, applied, through)
  <2>1. index[k] \in [revs : SUBSET (1..Len(log)), tombstone : BOOLEAN]
    BY <1>1 DEF IndexOver
  <2>2. CompactRevisions(index[k], through) \in [revs : SUBSET (1..Len(log)), tombstone : BOOLEAN]
    BY <2>1, ZenonT(30) DEF CompactRevisions
  <2>3. EntrySound(index[k], k, log, applied, compacted)
    BY DEF IInv, IndexSound
  <2>4. /\ index[k].revs \subseteq Nat \ {0}
        /\ index[k] = [revs |-> index[k].revs, tombstone |-> index[k].tombstone]
    BY IndexType, ZenonT(30) DEF IInv
  <2>5. through \in compacted..applied
    BY <1>1, <1>2, <1>3
  <2> QED
    BY <1>1, <2>2, <2>3, <2>4, <2>5, CompactRevisionsSound, ZenonT(30)
<1>5. IndexSound(index, log, applied, compacted)'
  BY <1>2, <1>4 DEF IndexSound
<1>6. TypeOK'
  BY <1>2, <1>3, <1>4, ZenonT(30) DEF IInv, TypeOK, batchVars, txnVars, procVars
<1>7. Snapshots' = Snapshots
  BY <1>2, QueuedFrame, ZenonT(30) DEF Snapshots, txnVars
<1>8. /\ \A u \in Txns : rev'[u] <= Len(log)
      /\ \A u \in Txns : pc'[u] = "evaluate" => snap'[u] <= applied'
  BY <1>2, ZenonT(30) DEF IInv, Positions, txnVars
<1>9. ASSUME NEW u \in Txns, pc'[u] = "append"
      PROVE  PendingOK(PendingTxn(u))' /\ staged'[u].meta.snapshot = snap'[u]
  <2>1. PendingOK(PendingTxn(u)) /\ staged[u].meta.snapshot = snap[u]
    BY <1>2, <1>9, ZenonT(30) DEF IInv, StagedAndQueued, txnVars
  <2> QED
    BY <1>2, <2>1, PendingFrame, ZenonT(30) DEF PendingTxn, txnVars
<1>10. applied' <= Len(log) /\ compacted' <= applied' /\ UNCHANGED <<log, batchVars, req>>
  BY <1>1, <1>2, <1>3 DEF txnVars
<1> QED
  BY <1>5, <1>6, <1>7, <1>8, <1>9, <1>10, LocalStep, ZenonT(30)
=============================================================================
