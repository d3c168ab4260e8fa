------------------------- MODULE LogCompactionProofs -------------------------
(***************************************************************************)
(* Log compaction for any keys, records, sizes of files and number of       *)
(* restarts: no rewrite drops a record that a read from the compacted       *)
(* revision on leads to, and what exists there survives a replay.           *)
(***************************************************************************)
EXTENDS LogCompaction, NaturalsInduction, WellFoundedInduction, TLAPS

(***************************************************************************)
(* Lookups.                                                                *)
(***************************************************************************)

\* A non-empty set of numbers with an upper bound has its Max as a member and
\* as its upper bound.
LEMMA MaxOfBounded ==
  ASSUME NEW h \in Nat, NEW S \in SUBSET (0..h), S # {}
  PROVE  Max(S) \in S /\ \A y \in S : y <= Max(S)
<1> DEFINE T == {h - x : x \in S}
<1>1. T \subseteq Nat /\ T # {}
  <2>1. \A x \in S : h - x \in Nat
    OBVIOUS
  <2> QED
    BY <2>1, ZenonT(30)
<1>2. PICK m \in T : \A y \in T : ~(<<y, m>> \in OpToRel(<, Nat))
  BY <1>1, NatLessThanWellFounded, WFMin
<1>3. \A y \in T : ~(y < m)
  BY <1>1, <1>2, ZenonT(30) DEF OpToRel
<1>4. PICK x \in S : m = h - x
  BY <1>2
<1>5. ASSUME NEW y \in S
      PROVE  x >= y
  <2>1. ~(h - y < h - x)
    BY <1>3, <1>4, ZenonT(30)
  <2> QED
    BY <2>1
<1>6. \E z \in S : \A y \in S : z >= y
  BY <1>5
<1> QED
  BY <1>6, ZenonT(30) DEF Max

\* GetLatestRevisionByKey finds the key's last revision at or below `at', or none.
LEMMA LatestInSpec ==
  ASSUME NEW ix, NEW k, NEW at \in Nat, ix[k].revs \subseteq Nat \ {0}
  PROVE  /\ LatestIn(ix, k, at) \in 0..at
         /\ LatestIn(ix, k, at) # 0 => LatestIn(ix, k, at) \in ix[k].revs
         /\ \A r \in ix[k].revs : r <= at => r <= LatestIn(ix, k, at)
<1> DEFINE S == {0} \cup {r \in ix[k].revs : r <= at}
<1>1. S \in SUBSET (0..at) /\ S # {}
  OBVIOUS
<1>2. Max(S) \in S /\ \A y \in S : y <= Max(S)
  BY <1>1, MaxOfBounded, ZenonT(30)
<1>3. LatestIn(ix, k, at) = Max(S)
  BY DEF LatestIn
<1> HIDE DEF S
<1>4. Max(S) \in 0..at /\ (Max(S) # 0 => Max(S) \in ix[k].revs)
  BY <1>1, <1>2 DEF S
<1>5. \A r \in ix[k].revs : r <= at => r <= Max(S)
  BY <1>2 DEF S
<1> QED
  BY <1>3, <1>4, <1>5

\* LastWrite finds the last of the first `at' records that touches the key.
LEMMA LastWriteSpec ==
  ASSUME NEW k, NEW at \in Nat
  PROVE  /\ LastWrite(k, at) \in 0..at
         /\ LastWrite(k, at) # 0 => Touches(log[LastWrite(k, at)], k)
         /\ \A r \in 1..at : Touches(log[r], k) => r <= LastWrite(k, at)
<1> DEFINE S == {0} \cup {r \in 1..at : Touches(log[r], k)}
<1>1. S \in SUBSET (0..at) /\ S # {}
  OBVIOUS
<1>2. Max(S) \in S /\ \A y \in S : y <= Max(S)
  BY <1>1, MaxOfBounded, ZenonT(30)
<1>3. LastWrite(k, at) = Max(S)
  BY DEF LastWrite
<1> HIDE DEF S
<1>4. Max(S) \in 0..at /\ (Max(S) # 0 => Touches(log[Max(S)], k))
  BY <1>1, <1>2 DEF S
<1>5. \A r \in 1..at : Touches(log[r], k) => r <= Max(S)
  BY <1>2 DEF S
<1> QED
  BY <1>3, <1>4, <1>5

\* The types of what the invariant speaks of.
LEMMA Numbers ==
  ASSUME TypeOK
  PROVE  /\ Len(log) \in Nat /\ compacted \in Nat /\ floor \in Nat /\ MaxLog \in Nat
         /\ compacted <= floor /\ floor <= Len(log) /\ Len(log) <= MaxLog
         /\ plan.through \in Nat /\ plan.through <= compacted
BY LogCompactionAssumption DEF TypeOK

\* The held records are records of the log.
LEMMA HeldInLog ==
  ASSUME TypeOK
  PROVE  /\ Held \subseteq 1..Len(log)
         /\ \A f \in files : f.first \in Nat /\ f.last \in Nat /\ f.first >= 1 /\ f.last <= Len(log)
         /\ active.first \in Nat /\ active.last \in Nat
<1>1. /\ Len(log) \in Nat /\ MaxLog \in Nat
  BY Numbers
<1>2. /\ files \in SUBSET File /\ active \in File
      /\ active.first <= active.last + 1 /\ active.last = Len(log)
      /\ \A f \in files : f.first <= f.last /\ f.last < active.first
      /\ \A f \in files \cup {active} : f.held \subseteq f.first..f.last
  BY DEF TypeOK
<1>3. \A f \in File : f.first \in Nat /\ f.first >= 1 /\ f.last \in Nat
  BY <1>1 DEF File
<1>4. \A f \in files : f.last <= Len(log)
  BY <1>1, <1>2, <1>3
<1>5. \A f \in files \cup {active} : f.held \subseteq 1..Len(log)
  BY <1>1, <1>2, <1>3, <1>4
<1> QED
  BY <1>2, <1>3, <1>4, <1>5 DEF Held

\* The revisions of an entry are numbers, and they are those of its writes.
LEMMA EntryRevs ==
  ASSUME TypeOK, IndexOfWrites, NEW k \in Keys
  PROVE  index[k].revs \subseteq Nat \ {0} /\ index[k].revs \subseteq 1..Len(log)
<1>1. Len(log) \in Nat
  BY Numbers
<1> QED
  BY <1>1 DEF IndexOfWrites

\* A record at or below the revision of a rewrite that is not live is not what
\* the index gives there: the key has a later revision at or below it.
LEMMA DeadIsSuperseded ==
  ASSUME TypeOK, IndexOfWrites, NEW k \in Keys, NEW r \in index[k].revs,
         NEW through \in Nat, r <= through, ~Live(r, through)
  PROVE  \E s \in index[k].revs : r < s /\ s <= through
<1> DEFINE s == LatestIn(index, k, through)
<1>1. index[k].revs \subseteq Nat \ {0}
  BY EntryRevs
<1>2. s \in 0..through /\ (s # 0 => s \in index[k].revs) /\ r <= s
  BY <1>1, LatestInSpec
<1>3. s # r
  BY DEF IndexOfWrites, Touches, Live
<1> QED
  BY <1>1, <1>2, <1>3

-----------------------------------------------------------------------------
(***************************************************************************)
(* Compaction of the index, and replay.                                    *)
(***************************************************************************)

\* Compact on the index.
LEMMA CompactInv ==
  ASSUME CompactionInv, NEW through \in 1..MaxLog, Compact(through)
  PROVE  CompactionInv'
<1>1. /\ TypeOK /\ PlanOK /\ IndexOfWrites /\ NeededIsHeld /\ ExistingIsHeld
  BY DEF CompactionInv
<1>2. /\ through > compacted /\ through <= Len(log) /\ compacted' = through
      /\ floor' = Max({floor, through}) /\ jobs' = jobs \cup {through}
      /\ index' = [k \in Keys |-> CompactRevisions(index[k], through)]
      /\ UNCHANGED <<log, files, active, plan, restarts>>
  BY DEF Compact
<1>3. /\ Len(log) \in Nat /\ compacted \in Nat /\ floor \in Nat /\ MaxLog \in Nat
      /\ compacted <= floor /\ floor <= Len(log) /\ Len(log) <= MaxLog
      /\ plan.through \in Nat /\ plan.through <= compacted /\ through \in Nat
  BY <1>1, Numbers
<1>4. floor' \in Nat /\ floor <= floor' /\ through <= floor' /\ floor' <= Len(log)
  <2>1. {floor, through} \in SUBSET (0..Len(log)) /\ {floor, through} # {}
    BY <1>2, <1>3
  <2>2. floor' \in {floor, through} /\ \A y \in {floor, through} : y <= floor'
    BY <1>2, <1>3, <2>1, MaxOfBounded, ZenonT(30)
  <2> QED
    BY <1>2, <1>3, <2>2
<1>5. ASSUME NEW k \in Keys
      PROVE  /\ index[k] \in Entry /\ index'[k] \in Entry /\ index'[k].revs \subseteq index[k].revs
             /\ \A r \in index'[k].revs, s \in index[k].revs : ~(r < s /\ s <= through)
             /\ \/ /\ index'[k].tombstone = index[k].tombstone
                   /\ \A r \in index[k].revs :
                         (\A s \in index[k].revs : ~(r < s /\ s <= through)) => r \in index'[k].revs
                \/ index'[k] = NoKey /\ index[k].revs = {}
                \/ index'[k] = NoKey /\ index[k].tombstone /\ Max(index[k].revs) <= through
  <2>1. index[k] \in Entry /\ index'[k] = CompactRevisions(index[k], through)
    BY <1>1, <1>2 DEF TypeOK
  <2> DEFINE kept == {r \in index[k].revs : ~ \E s \in index[k].revs : r < s /\ s <= through}
             gone == index[k].revs = {} \/ (index[k].tombstone /\ Max(index[k].revs) <= through)
  <2>2. NoKey \in Entry /\ NoKey.revs = {}
    BY DEF NoKey, Entry
  <2>3. CASE gone
    <3>1. index'[k] = NoKey
      BY <2>1, <2>3 DEF CompactRevisions
    <3> QED
      BY <2>1, <2>2, <2>3, <3>1
  <2>4. CASE ~gone
    <3>1. index'[k] = [index[k] EXCEPT !.revs = kept]
      BY <2>1, <2>4 DEF CompactRevisions
    <3>2. kept \in SUBSET (1..MaxLog)
      BY <2>1 DEF Entry
    <3>3. index'[k] \in Entry /\ index'[k].revs = kept /\ index'[k].tombstone = index[k].tombstone
      BY <2>1, <3>1, <3>2 DEF Entry
    <3> QED
      BY <2>1, <3>3
  <2> QED
    BY <2>3, <2>4
<1>6. TypeOK'
  <2>1. index' \in [Keys -> Entry]
    BY <1>2, <1>5
  <2>2. jobs' \in SUBSET (1..compacted') /\ compacted' \in 0..floor' /\ floor' \in 0..Len(log')
    BY <1>1, <1>2, <1>3, <1>4 DEF TypeOK
  <2>3. plan' \in [through : 0..compacted', groups : SUBSET [first : 1..(MaxLog + 1), files : SUBSET File]]
    <3>1. 0..compacted \subseteq 0..compacted'
      BY <1>2, <1>3
    <3> QED
      BY <1>1, <1>2, <3>1 DEF TypeOK
  <2> QED
    BY <1>1, <1>2, <2>1, <2>2, <2>3 DEF TypeOK
<1>7. PlanOK'
  BY <1>1, <1>2 DEF PlanOK
<1>8. Held' = Held
  BY <1>2 DEF Held
<1>9. IndexOfWrites'
  <2> SUFFICES ASSUME NEW k \in Keys
               PROVE  /\ \A r \in index'[k].revs : r \in 1..Len(log) /\ Touches(log[r], k)
                      /\ index'[k].tombstone <=>
                            index'[k].revs # {} /\ Deletes(log[Max(index'[k].revs)], k)
    BY <1>2 DEF IndexOfWrites
  <2>1. \A r \in index'[k].revs : r \in 1..Len(log) /\ Touches(log[r], k)
    BY <1>1, <1>5 DEF IndexOfWrites
  <2>2. CASE index'[k] = NoKey
    BY <2>1, <2>2 DEF NoKey
  <2>3. CASE /\ index'[k].tombstone = index[k].tombstone
             /\ \A r \in index[k].revs :
                   (\A s \in index[k].revs : ~(r < s /\ s <= through)) => r \in index'[k].revs
    <3>1. CASE index[k].revs = {}
      BY <1>1, <1>5, <2>1, <2>3, <3>1 DEF IndexOfWrites
    <3>2. CASE index[k].revs # {}
      <4> DEFINE m == Max(index[k].revs)
                 n == Max(index'[k].revs)
      <4>1. index[k].revs \in SUBSET (0..Len(log))
        BY <1>1, <1>3, EntryRevs
      <4>2. m \in index[k].revs /\ \A y \in index[k].revs : y <= m
        BY <1>3, <3>2, <4>1, MaxOfBounded, ZenonT(30)
      <4>3. \A s \in index[k].revs : ~(m < s /\ s <= through)
        BY <1>3, <4>1, <4>2
      <4>4. m \in index'[k].revs
        BY <2>3, <4>2, <4>3
      <4>5. n \in index'[k].revs /\ \A y \in index'[k].revs : y <= n
        <5>1. index'[k].revs \in SUBSET (0..Len(log)) /\ index'[k].revs # {}
          BY <1>5, <4>1, <4>4
        <5> QED
          BY <1>3, <5>1, MaxOfBounded, ZenonT(30)
      <4>6. n = m
        <5>1. n \in index[k].revs /\ n <= m /\ m <= n
          BY <1>5, <4>2, <4>4, <4>5
        <5> QED
          BY <1>3, <4>1, <4>2, <5>1
      <4> QED
        BY <1>1, <2>1, <2>3, <3>2, <4>4, <4>6 DEF IndexOfWrites
    <3> QED
      BY <3>1, <3>2
  <2> QED
    BY <1>5, <2>2, <2>3
<1>10. NeededIsHeld'
  <2> SUFFICES ASSUME NEW k \in Keys, NEW r \in index'[k].revs
               PROVE  r \in Held
    BY <1>8 DEF NeededIsHeld
  <2>1. r \in index[k].revs /\ \A s \in index[k].revs : ~(r < s /\ s <= through)
    BY <1>5
  <2>2. index[k].revs \subseteq Nat
    BY <1>1, EntryRevs
  <2>3. \A s \in index[k].revs : s <= compacted => s <= r
    BY <1>2, <1>3, <2>1, <2>2
  <2> QED
    BY <1>1, <2>1, <2>3 DEF NeededIsHeld
<1>11. ExistingIsHeld'
  <2> SUFFICES ASSUME NEW k \in Keys, NEW r \in 1..Len(log), Touches(log[r], k), ~Deletes(log[r], k),
                      \A s \in 1..floor' : Touches(log[s], k) => s <= r
               PROVE  r \in index'[k].revs /\ r \in Held
    BY <1>2, <1>8, ZenonT(30) DEF ExistingIsHeld
  <2>1. \A s \in 1..floor : s \in 1..floor'
    BY <1>3, <1>4
  <2>2. r \in index[k].revs /\ r \in Held
    BY <1>1, <2>1 DEF ExistingIsHeld
  <2>3. \A s \in index[k].revs : ~(r < s /\ s <= through)
    <3> SUFFICES ASSUME NEW s \in index[k].revs, r < s, s <= through
                 PROVE  FALSE
      OBVIOUS
    <3>1. s \in 1..Len(log) /\ Touches(log[s], k)
      BY <1>1 DEF IndexOfWrites
    <3>2. s \in 1..floor'
      BY <1>2, <1>3, <1>4, <3>1
    <3> QED
      BY <1>3, <3>1, <3>2
  <2>4. ~(index[k].tombstone /\ Max(index[k].revs) <= through)
    <3> SUFFICES ASSUME index[k].tombstone, Max(index[k].revs) <= through
                 PROVE  FALSE
      OBVIOUS
    <3> DEFINE m == Max(index[k].revs)
    <3>1. index[k].revs \in SUBSET (0..Len(log)) /\ index[k].revs # {}
      BY <1>1, <1>3, <2>2, EntryRevs
    <3>2. m \in index[k].revs /\ \A y \in index[k].revs : y <= m
      BY <1>3, <3>1, MaxOfBounded, ZenonT(30)
    <3>3. Deletes(log[m], k)
      BY <1>1 DEF IndexOfWrites
    <3>4. r # m /\ r <= m
      BY <2>2, <3>2, <3>3
    <3> HIDE DEF m
    <3>5. r < m
      BY <1>3, <3>1, <3>2, <3>4
    <3> QED
      BY <2>3, <3>2, <3>5 DEF m
  <2> QED
    BY <1>5, <2>2, <2>3, <2>4
<1> QED
  BY <1>6, <1>7, <1>9, <1>10, <1>11 DEF CompactionInv

\* Replay builds the index from what the files hold.
LEMMA ReplayInv ==
  ASSUME CompactionInv, index' = Replay, UNCHANGED <<log, files, active, floor>>,
         \/ UNCHANGED <<compacted, jobs, plan>>
         \/ compacted' = 0 /\ jobs' = {} /\ plan' = NoPlan,
         restarts' \in 0..MaxRestarts
  PROVE  CompactionInv'
<1>1. /\ TypeOK /\ PlanOK /\ ExistingIsHeld
      /\ Held \subseteq 1..Len(log) /\ Len(log) \in Nat /\ floor \in Nat /\ Len(log) <= MaxLog
      /\ MaxLog \in Nat
  BY HeldInLog, Numbers DEF CompactionInv
<1>2. Held' = Held
  BY DEF Held
<1>3. ASSUME NEW k \in Keys
      PROVE  /\ index'[k].revs = {r \in Held : Touches(log[r], k)}
             /\ index'[k].tombstone <=> index'[k].revs # {} /\ Deletes(log[Max(index'[k].revs)], k)
             /\ index'[k] \in Entry
  <2> DEFINE revs == {r \in Held : Touches(log[r], k)}
             flag == revs # {} /\ Deletes(log[Max(revs)], k)
  <2>1. index'[k] = [revs |-> revs, tombstone |-> flag]
    BY DEF Replay
  <2>2. revs \in SUBSET (1..MaxLog)
    <3>1. 1..Len(log) \subseteq 1..MaxLog
      BY <1>1
    <3> QED
      BY <1>1, <3>1, ZenonT(30)
  <2>3. flag \in BOOLEAN
    BY ZenonT(30)
  <2> HIDE DEF revs, flag
  <2>4. index'[k].revs = revs /\ index'[k].tombstone = flag /\ index'[k] \in Entry
    BY <2>1, <2>2, <2>3 DEF Entry
  <2> QED
    BY <2>4, ZenonT(30) DEF revs, flag
<1>4. TypeOK'
  <2>1. index' \in [Keys -> Entry]
    <3>1. DOMAIN index' = Keys /\ index' = [k \in Keys |-> index'[k]]
      BY DEF Replay
    <3> QED
      BY <1>3, <3>1
  <2>2. /\ jobs' \in SUBSET (1..compacted') /\ compacted' \in 0..floor'
        /\ plan' \in [through : 0..compacted',
                      groups : SUBSET [first : 1..(MaxLog + 1), files : SUBSET File]]
    <3>1. CASE UNCHANGED <<compacted, jobs, plan>>
      BY <1>1, <3>1 DEF TypeOK
    <3>2. CASE compacted' = 0 /\ jobs' = {} /\ plan' = NoPlan
      <4>1. 0 \in 0..floor /\ 0 \in 0..0
        BY <1>1
      <4> QED
        BY <3>2, <4>1 DEF NoPlan
    <3> QED
      BY <3>1, <3>2
  <2> QED
    BY <1>1, <2>1, <2>2, ZenonT(30) DEF TypeOK
<1>5. PlanOK'
  BY <1>1 DEF PlanOK, NoPlan
<1>6. IndexOfWrites'
  BY <1>1, <1>3, ZenonT(30) DEF IndexOfWrites
<1>7. NeededIsHeld'
  BY <1>2, <1>3 DEF NeededIsHeld
<1>8. ExistingIsHeld'
  BY <1>1, <1>2, <1>3 DEF ExistingIsHeld
<1> QED
  BY <1>4, <1>5, <1>6, <1>7, <1>8 DEF CompactionInv

-----------------------------------------------------------------------------
(***************************************************************************)
(* Commit and rotation.                                                    *)
(***************************************************************************)

\* A file closed behind the others, and a new active one.
LEMMA RotateFiles ==
  ASSUME CompactionInv, NEW n \in Nat, n <= MaxLog, NEW f \in File,
         f.first = active.first, f.first <= f.last, f.last = n, ~f.sparse,
         f.held = f.first..f.last, n >= Len(log),
         files' = files \cup {f}, active' = NewFile(n + 1)
  PROVE  /\ files' \in SUBSET File /\ active' \in File
         /\ active'.first <= active'.last + 1 /\ active'.last = n /\ ~active'.sparse
         /\ \A x \in files' : x.first <= x.last /\ x.last < active'.first
         /\ \A x, y \in files' : x # y => x.last < y.first \/ y.last < x.first
         /\ \A x \in files' \cup {active'} :
               x.held \subseteq x.first..x.last /\ (x.sparse \/ x.held = x.first..x.last)
         /\ \A r \in 1..n : \E x \in files' \cup {active'} : r \in x.first..x.last
         /\ \A r : r \in Held' <=> r \in f.held \/ \E x \in files : r \in x.held
<1>1. TypeOK /\ MaxLog \in Nat /\ Len(log) \in Nat /\ Len(log) <= MaxLog
  BY Numbers DEF CompactionInv
<1>2. /\ files \in SUBSET File /\ active.last = Len(log) /\ active.first \in Nat
      /\ \A x \in files : x.first <= x.last /\ x.last < active.first /\ x.first \in Nat /\ x.last \in Nat
      /\ \A x, y \in files : x # y => x.last < y.first \/ y.last < x.first
      /\ \A x \in files : x.held \subseteq x.first..x.last /\ (x.sparse \/ x.held = x.first..x.last)
      /\ \A r \in 1..Len(log) : \E x \in files \cup {active} : r \in x.first..x.last
  BY <1>1, HeldInLog, ZenonT(30) DEF TypeOK
<1>3. /\ active'.first = n + 1 /\ active'.last = n /\ active'.sparse = FALSE /\ active'.held = {}
      /\ active' \in File
  <2>1. n + 1 \in 1..(MaxLog + 1) /\ (n + 1) - 1 \in 0..MaxLog /\ (n + 1) - 1 = n
    BY <1>1
  <2> QED
    BY <2>1 DEF NewFile, File
<1>4. \A x \in files' : x.first <= x.last /\ x.last < active'.first
  BY <1>1, <1>2, <1>3
<1>5. \A x, y \in files' : x # y => x.last < y.first \/ y.last < x.first
  BY <1>2
<1>6. \A x \in files' \cup {active'} :
         x.held \subseteq x.first..x.last /\ (x.sparse \/ x.held = x.first..x.last)
  <2>1. (n + 1)..n = {}
    OBVIOUS
  <2> QED
    BY <1>2, <1>3, <2>1, ZenonT(30)
<1>7. ASSUME NEW r \in 1..n
      PROVE  \E x \in files' : r \in x.first..x.last
  <2>1. CASE r >= f.first
    BY <2>1
  <2>2. CASE r < f.first
    <3>1. active.first <= Len(log) + 1
      BY <1>1 DEF TypeOK
    <3>2. r \in 1..Len(log) /\ r \notin active.first..active.last
      BY <1>1, <1>2, <2>2, <3>1
    <3> QED
      BY <1>2, <3>2
  <2> QED
    BY <1>2, <2>1, <2>2
<1>8. \A r : r \in Held' <=> r \in f.held \/ \E x \in files : r \in x.held
  <2>1. \A r : r \in Held' <=> r \in active'.held \/ \E x \in files' : r \in x.held
    BY DEF Held
  <2> QED
    BY <1>3, <2>1, ZenonT(30)
<1> QED
  BY <1>2, <1>3, <1>4, <1>5, <1>6, <1>7, <1>8

\* The groups of a plan stay apart from a file that is closed behind them.
LEMMA PlanBehind ==
  ASSUME CompactionInv, plan' = plan, NEW f, f.first = active.first,
         files' = files \cup {f} \/ files' = files
  PROVE  PlanOK'
<1>1. PlanOK /\ \A x \in files : x.last < active.first
  BY DEF CompactionInv, TypeOK
<1>2. ASSUME NEW g \in plan.groups, NEW x \in files' \ g.files
      PROVE  x.last < g.first \/ \A y \in g.files : y.last < x.first
  BY <1>1 DEF PlanOK
<1> QED
  BY <1>1, <1>2 DEF PlanOK

LEMMA TickInv ==
  ASSUME CompactionInv, Tick
  PROVE  CompactionInv'
<1>1. TypeOK /\ Len(log) \in Nat /\ Len(log) <= MaxLog
  BY Numbers DEF CompactionInv
<1>2. /\ files' = files \cup {active} /\ active' = NewFile(Len(log) + 1)
      /\ UNCHANGED <<log, index, compacted, jobs, plan, floor, restarts>>
      /\ active.held # {}
  BY <1>1 DEF Tick, TypeOK
<1>3. /\ active \in File /\ active.last = Len(log) /\ ~active.sparse
      /\ active.held = active.first..active.last /\ active.first \in Nat
  BY <1>1, HeldInLog DEF TypeOK
<1>4. active.first <= active.last
  BY <1>1, <1>2, <1>3
<1>5. /\ files' \in SUBSET File /\ active' \in File
      /\ active'.first <= active'.last + 1 /\ active'.last = Len(log) /\ ~active'.sparse
      /\ \A x \in files' : x.first <= x.last /\ x.last < active'.first
      /\ \A x, y \in files' : x # y => x.last < y.first \/ y.last < x.first
      /\ \A x \in files' \cup {active'} :
            x.held \subseteq x.first..x.last /\ (x.sparse \/ x.held = x.first..x.last)
      /\ \A r \in 1..Len(log) : \E x \in files' \cup {active'} : r \in x.first..x.last
      /\ \A r : r \in Held' <=> r \in active.held \/ \E x \in files : r \in x.held
  BY <1>1, <1>2, <1>3, <1>4, RotateFiles
<1>6. TypeOK'
  BY <1>1, <1>2, <1>5, ZenonT(30) DEF TypeOK
<1>7. Held' = Held
  <2>1. \A r : r \in Held <=> r \in active.held \/ \E x \in files : r \in x.held
    BY DEF Held
  <2> QED
    BY <1>5, <2>1, ZenonT(30)
<1>8. PlanOK'
  BY <1>2, PlanBehind
<1> QED
  BY <1>2, <1>6, <1>7, <1>8 DEF CompactionInv, IndexOfWrites, NeededIsHeld, ExistingIsHeld

LEMMA CommitInv ==
  ASSUME CompactionInv, NEW rec \in Records, Commit(rec)
  PROVE  CompactionInv'
<1> DEFINE n == Len(log)
           r == n + 1
           grown == [active EXCEPT !.last = r, !.held = @ \cup {r}]
           full == Cardinality(grown.held) >= RotateSize
<1>1. /\ TypeOK /\ PlanOK /\ IndexOfWrites /\ NeededIsHeld /\ ExistingIsHeld
      /\ n \in Nat /\ MaxLog \in Nat /\ compacted \in Nat /\ floor \in Nat
      /\ compacted <= floor /\ floor <= n /\ n <= MaxLog
  BY Numbers DEF CompactionInv
<1>2. /\ n < MaxLog /\ log' = Append(log, rec)
      /\ files' = IF full THEN files \cup {grown} ELSE files
      /\ active' = IF full THEN NewFile(r + 1) ELSE grown
      /\ index' = AddRecord(index, r)
      /\ UNCHANGED <<compacted, jobs, plan, floor, restarts>>
  BY DEF Commit
<1>3. /\ log' \in Seq(Records \cup {{}}) /\ Len(log') = r /\ log'[r] = rec
      /\ \A i \in 1..n : log'[i] = log[i]
  <2>1. log \in Seq(Records \cup {{}}) /\ rec \in Records \cup {{}}
    BY <1>1 DEF TypeOK
  <2> QED
    BY <1>2, <2>1
<1>4. r \in Nat /\ r <= MaxLog /\ r >= 1
  BY <1>1, <1>2
<1>5. /\ active \in File /\ active.last = n /\ ~active.sparse
      /\ active.held = active.first..active.last /\ active.first \in Nat /\ active.first <= n + 1
      /\ files \in SUBSET File
  BY <1>1, HeldInLog, ZenonT(30) DEF TypeOK
<1>6. /\ grown.first = active.first /\ grown.last = r /\ grown.sparse = active.sparse
      /\ grown.held = active.held \cup {r} /\ grown \in File
  <2>1. r \in 0..MaxLog /\ active.held \cup {r} \in SUBSET (1..MaxLog)
    BY <1>4, <1>5 DEF File
  <2> QED
    BY <1>5, <2>1, ZenonT(30) DEF File
<1>7. grown.held = grown.first..grown.last
  BY <1>1, <1>5, <1>6
<1> HIDE DEF full, grown, r
<1>8. /\ files' \in SUBSET File /\ active' \in File
      /\ active'.first <= active'.last + 1 /\ active'.last = r /\ ~active'.sparse
      /\ \A x \in files' : x.first <= x.last /\ x.last < active'.first
      /\ \A x, y \in files' : x # y => x.last < y.first \/ y.last < x.first
      /\ \A x \in files' \cup {active'} :
            x.held \subseteq x.first..x.last /\ (x.sparse \/ x.held = x.first..x.last)
      /\ \A q \in 1..r : \E x \in files' \cup {active'} : q \in x.first..x.last
      /\ Held' = Held \cup {r}
  <2>1. CASE full
    <3>1. files' = files \cup {grown} /\ active' = NewFile(r + 1)
      BY <1>2, <2>1
    <3>2. grown.first <= grown.last /\ r >= n
      BY <1>1, <1>5, <1>6 DEF r
    <3>3. \A q : q \in Held <=> q \in active.held \/ \E x \in files : q \in x.held
      BY DEF Held
    <3>4. /\ files' \in SUBSET File /\ active' \in File
          /\ active'.first <= active'.last + 1 /\ active'.last = r /\ ~active'.sparse
          /\ \A x \in files' : x.first <= x.last /\ x.last < active'.first
          /\ \A x, y \in files' : x # y => x.last < y.first \/ y.last < x.first
          /\ \A x \in files' \cup {active'} :
                x.held \subseteq x.first..x.last /\ (x.sparse \/ x.held = x.first..x.last)
          /\ \A q \in 1..r : \E x \in files' \cup {active'} : q \in x.first..x.last
          /\ \A q : q \in Held' <=> q \in grown.held \/ \E x \in files : q \in x.held
      BY <1>4, <1>5, <1>6, <1>7, <3>1, <3>2, RotateFiles, ZenonT(30)
    <3>5. Held' = Held \cup {r}
      BY <1>6, <3>3, <3>4
    <3> QED
      BY <3>4, <3>5
  <2>2. CASE ~full
    <3>1. files' = files /\ active' = grown
      BY <1>2, <2>2
    <3>2. Held' = Held \cup {r}
      BY <1>6, <3>1 DEF Held
    <3>3. /\ \A x \in files : x.first <= x.last /\ x.last < active.first
          /\ \A x, y \in files : x # y => x.last < y.first \/ y.last < x.first
          /\ \A x \in files : x.held \subseteq x.first..x.last /\ (x.sparse \/ x.held = x.first..x.last)
          /\ \A q \in 1..n : \E x \in files \cup {active} : q \in x.first..x.last
      BY <1>1, ZenonT(30) DEF TypeOK
    <3>4. ASSUME NEW q \in 1..r
          PROVE  \E x \in files' \cup {active'} : q \in x.first..x.last
      <4>1. CASE q \in 1..n /\ \E x \in files : q \in x.first..x.last
        BY <3>1, <4>1
      <4>2. CASE q \in 1..n /\ q \in active.first..active.last
        BY <1>1, <1>5, <1>6, <3>1, <4>2 DEF r
      <4>3. CASE q = r
        BY <1>1, <1>5, <1>6, <3>1, <4>3 DEF r
      <4>4. q \in 1..n \/ q = r
        BY <1>1 DEF r
      <4> QED
        BY <3>3, <4>1, <4>2, <4>3, <4>4
    <3>5. active'.first <= active'.last + 1
      BY <1>1, <1>5, <1>6, <3>1 DEF r
    <3> QED
      BY <1>5, <1>6, <1>7, <3>1, <3>2, <3>3, <3>4, <3>5, ZenonT(30)
  <2> QED
    BY <2>1, <2>2
<1>9. ASSUME NEW k \in Keys
      PROVE  /\ index'[k] \in Entry
             /\ ~Touches(rec, k) => index'[k] = index[k]
             /\ Touches(rec, k) => /\ index'[k].revs = index[k].revs \cup {r}
                                   /\ index'[k].tombstone = Deletes(rec, k)
  <2>1. index[k] \in Entry
    BY <1>1 DEF TypeOK
  <2>2. index'[k] = IF Touches(rec, k)
                    THEN [revs |-> index[k].revs \cup {r}, tombstone |-> Deletes(rec, k)]
                    ELSE index[k]
    BY <1>2, <1>3 DEF AddRecord
  <2>3. index[k].revs \cup {r} \in SUBSET (1..MaxLog) /\ Deletes(rec, k) \in BOOLEAN
    BY <1>4, <2>1 DEF Entry, Deletes
  <2> QED
    BY <2>1, <2>2, <2>3 DEF Entry
<1>10. TypeOK'
  <2>1. index' \in [Keys -> Entry]
    <3>1. index' = [k \in Keys |-> index'[k]]
      BY <1>2, ZenonT(30) DEF AddRecord
    <3> QED
      BY <1>9, <3>1
  <2>2. floor' \in 0..Len(log') /\ compacted' \in 0..floor' /\ Len(log') <= MaxLog
    BY <1>1, <1>2, <1>3, <1>4 DEF r
  <2> QED
    BY <1>1, <1>2, <1>3, <1>8, <2>1, <2>2, ZenonT(30) DEF TypeOK
<1>11. PlanOK'
  BY <1>2, <1>6, PlanBehind
<1>12. \A q \in 1..Len(log') : q \in 1..n \/ q = r
  BY <1>1, <1>3 DEF r
<1>13. IndexOfWrites'
  <2> SUFFICES ASSUME NEW k \in Keys
               PROVE  /\ \A q \in index'[k].revs : q \in 1..Len(log') /\ Touches(log'[q], k)
                      /\ index'[k].tombstone <=>
                            index'[k].revs # {} /\ Deletes(log'[Max(index'[k].revs)], k)
    BY DEF IndexOfWrites
  <2>1. /\ \A q \in index[k].revs : q \in 1..n /\ Touches(log[q], k) /\ q \in 1..Len(log')
        /\ index[k].tombstone <=> index[k].revs # {} /\ Deletes(log[Max(index[k].revs)], k)
        /\ r \in 1..Len(log')
    BY <1>1, <1>3, <1>4 DEF IndexOfWrites, r
  <2>2. \A q \in index[k].revs : log'[q] = log[q]
    BY <1>3, <2>1
  <2>3. CASE ~Touches(rec, k)
    <3>1. index[k].revs # {} => Max(index[k].revs) \in index[k].revs
      <4>1. index[k].revs \in SUBSET (0..n)
        BY <1>1, <2>1
      <4> QED
        BY <1>1, <4>1, MaxOfBounded, ZenonT(30)
    <3> QED
      BY <1>9, <2>1, <2>2, <2>3, <3>1, ZenonT(30)
  <2>4. CASE Touches(rec, k)
    <3> DEFINE revs == index[k].revs \cup {r}
    <3>1. revs \in SUBSET (0..r) /\ revs # {}
      BY <1>1, <2>1 DEF r
    <3>2. Max(revs) \in revs /\ \A y \in revs : y <= Max(revs)
      BY <1>4, <3>1, MaxOfBounded, ZenonT(30)
    <3>3. Max(revs) = r
      BY <1>4, <3>1, <3>2
    <3>4. index'[k].revs = revs /\ index'[k].tombstone = Deletes(rec, k)
      BY <1>9, <2>4
    <3>5. \A q \in revs : q \in 1..Len(log') /\ Touches(log'[q], k)
      BY <1>3, <2>1, <2>2, <2>4
    <3>6. Deletes(log'[Max(index'[k].revs)], k) = Deletes(rec, k)
      BY <1>3, <3>3, <3>4
    <3>7. Deletes(rec, k) \in BOOLEAN
      BY DEF Deletes
    <3> HIDE DEF revs
    <3> QED
      BY <3>1, <3>4, <3>5, <3>6, <3>7, ZenonT(30)
  <2> QED
    BY <2>3, <2>4
<1>14. NeededIsHeld'
  <2> SUFFICES ASSUME NEW k \in Keys, NEW q \in index'[k].revs,
                      \A s \in index'[k].revs : s <= compacted => s <= q
               PROVE  q \in Held \cup {r}
    BY <1>2, <1>8 DEF NeededIsHeld
  <2>1. q = r \/ q \in index[k].revs
    BY <1>9
  <2>2. index[k].revs \subseteq index'[k].revs
    BY <1>9
  <2> QED
    BY <1>1, <2>1, <2>2 DEF NeededIsHeld
<1>15. ExistingIsHeld'
  <2> SUFFICES ASSUME NEW k \in Keys, NEW q \in 1..Len(log'), Touches(log'[q], k),
                      ~Deletes(log'[q], k), \A s \in 1..floor : Touches(log'[s], k) => s <= q
               PROVE  q \in index'[k].revs /\ q \in Held \cup {r}
    BY <1>2, <1>8, ZenonT(30) DEF ExistingIsHeld
  <2>1. CASE q = r
    BY <1>3, <1>9, <2>1, ZenonT(30)
  <2>2. CASE q \in 1..n
    <3>1. log'[q] = log[q] /\ \A s \in 1..floor : log'[s] = log[s]
      BY <1>1, <1>3, <2>2
    <3>2. q \in index[k].revs /\ q \in Held
      BY <1>1, <2>2, <3>1 DEF ExistingIsHeld
    <3> QED
      BY <1>9, <3>2
  <2> QED
    BY <1>12, <2>1, <2>2, ZenonT(30)
<1> QED
  BY <1>10, <1>11, <1>13, <1>14, <1>15 DEF CompactionInv

-----------------------------------------------------------------------------
(***************************************************************************)
(* The rewrite of the log.                                                 *)
(***************************************************************************)

\* A group shares no file with the other groups of its pass.
Apart(g, starts, fs) ==
  \A h \in {Group(t, starts, fs) : t \in starts} : g # h => g.files \cap h.files = {}

\* The groups that FilesystemLog.Compact plans keep the plan's invariant.
LEMMA GroupsOK ==
  ASSUME TypeOK, NEW through \in Nat, NEW starts \in SUBSET Eligible(through),
         NEW s \in starts, NEW g, g = Group(s, starts, Eligible(through))
  PROVE  /\ \A f \in g.files : f \in files /\ f.last <= through /\ g.first <= f.first
         /\ \E f \in g.files : f.first = g.first
         /\ \A f \in files \ g.files : f.last < g.first \/ \A x \in g.files : x.last < f.first
         /\ Apart(g, starts, Eligible(through))
         /\ g \in [first : 1..(MaxLog + 1), files : SUBSET File]
<1> DEFINE fs == Eligible(through)
           Of(t) == {f \in fs : /\ t.first <= f.first
                                /\ \A u \in starts : u.first <= f.first => u.first <= t.first}
<1>1. /\ \A f \in files : f.first \in Nat /\ f.last \in Nat /\ f.first <= f.last
      /\ \A f, x \in files : f # x => f.last < x.first \/ x.last < f.first
      /\ files \subseteq File
  BY HeldInLog, ZenonT(30) DEF TypeOK
<1>2. fs = {f \in files : f.last <= through} /\ starts \subseteq fs
  BY DEF Eligible
<1>3. \A t \in starts : Group(t, starts, fs).first = t.first /\ Group(t, starts, fs).files = Of(t)
  BY DEF Group
<1>4. \A t \in starts : Group(t, starts, fs) = [first |-> t.first, files |-> Of(t)]
  BY DEF Group
<1> HIDE DEF fs
<1>5. s \in Of(s)
  BY <1>1, <1>2
<1>6. ASSUME NEW f \in files, f \notin Of(s)
      PROVE  f.last < s.first \/ \A x \in Of(s) : x.last < f.first
  <2>1. CASE f \notin fs
    <3>1. ASSUME NEW x \in Of(s)
          PROVE  x.last < f.first
      <4>1. x \in files /\ x.last <= through /\ ~(f.last <= through)
        BY <1>2, <2>1
      <4> QED
        BY <1>1, <4>1
    <3> QED
      BY <3>1
  <2>2. CASE f \in fs /\ ~(s.first <= f.first)
    BY <1>1, <1>2, <2>2
  <2>3. CASE f \in fs /\ \E u \in starts : u.first <= f.first /\ ~(u.first <= s.first)
    <3>1. PICK u \in starts : u.first <= f.first /\ ~(u.first <= s.first)
      BY <2>3
    <3>2. ASSUME NEW x \in Of(s)
          PROVE  x.last < f.first
      <4>1. x \in files /\ u \in files /\ ~(u.first <= x.first)
        BY <1>2, <3>1
      <4>2. x.first < f.first
        BY <1>1, <3>1, <4>1
      <4> QED
        BY <1>1, <4>1, <4>2
    <3> QED
      BY <3>2
  <2> QED
    BY <1>6, <2>1, <2>2, <2>3
<1>7. ASSUME NEW t \in starts, NEW x \in Of(s) \cap Of(t)
      PROVE  s.first = t.first
  <2>1. s.first <= t.first /\ t.first <= s.first
    OBVIOUS
  <2> QED
    BY <1>1, <1>2, <2>1
<1>8. ASSUME NEW t \in starts, s.first = t.first
      PROVE  Group(s, starts, fs) = Group(t, starts, fs)
  BY <1>4, <1>8, ZenonT(30)
<1>9. Of(s) \in SUBSET File /\ s.first \in 1..(MaxLog + 1)
  BY <1>1, <1>2 DEF File
<1>10. \A f \in Of(s) : f \in files /\ f.last <= through /\ s.first <= f.first
  BY <1>2
<1> HIDE DEF Of
<1>11. ASSUME NEW h \in {Group(t, starts, fs) : t \in starts}, g # h
       PROVE  g.files \cap h.files = {}
  <2>1. PICK t \in starts : h = Group(t, starts, fs)
    OBVIOUS
  <2>2. g = Group(s, starts, fs)
    BY DEF fs
  <2> QED
    BY <1>3, <1>7, <1>8, <1>11, <2>1, <2>2
<1>12. g.first = s.first /\ g.files = Of(s) /\ g = [first |-> s.first, files |-> Of(s)]
  BY <1>3, <1>4 DEF fs
<1>13. g \in [first : 1..(MaxLog + 1), files : SUBSET File]
  BY <1>9, <1>12
<1> QED
  BY <1>5, <1>6, <1>10, <1>11, <1>12, <1>13 DEF fs, Apart

LEMMA StartRewriteInv ==
  ASSUME CompactionInv, NEW through \in jobs, StartRewrite(through)
  PROVE  CompactionInv'
<1>1. /\ TypeOK /\ IndexOfWrites /\ NeededIsHeld /\ ExistingIsHeld
      /\ compacted \in Nat /\ through \in 1..compacted /\ through \in Nat
  <2>1. TypeOK /\ IndexOfWrites /\ NeededIsHeld /\ ExistingIsHeld
    BY DEF CompactionInv
  <2>2. compacted \in Nat
    BY <2>1, Numbers
  <2>3. through \in 1..compacted
    BY <2>1 DEF TypeOK
  <2> QED
    BY <2>1, <2>2, <2>3
<1>2. UNCHANGED <<log, files, active, index, compacted, floor, restarts>> /\ jobs' = jobs \ {through}
  BY DEF StartRewrite
<1> DEFINE fs == Eligible(through)
<1>3. PICK starts \in SUBSET fs :
         plan' = LET groups == {Group(s, starts, fs) : s \in starts}
                     todo == {g \in groups : WorthRewriting(g, through)}
                 IN IF todo = {} THEN NoPlan ELSE [through |-> through, groups |-> todo]
  BY ZenonT(30) DEF StartRewrite
<1> DEFINE todo == {g \in {Group(s, starts, fs) : s \in starts} : WorthRewriting(g, through)}
<1>4. plan' = NoPlan \/ plan' = [through |-> through, groups |-> todo]
  BY <1>3
<1>5. ASSUME NEW g \in todo
      PROVE  /\ \A f \in g.files : f \in files /\ f.last <= through /\ g.first <= f.first
             /\ \E f \in g.files : f.first = g.first
             /\ \A f \in files \ g.files : f.last < g.first \/ \A x \in g.files : x.last < f.first
             /\ \A h \in todo : g # h => g.files \cap h.files = {}
             /\ g \in [first : 1..(MaxLog + 1), files : SUBSET File]
  <2>1. PICK s \in starts : g = Group(s, starts, Eligible(through))
    OBVIOUS
  <2>2. /\ \A f \in g.files : f \in files /\ f.last <= through /\ g.first <= f.first
        /\ \E f \in g.files : f.first = g.first
        /\ \A f \in files \ g.files : f.last < g.first \/ \A x \in g.files : x.last < f.first
        /\ \A h \in {Group(t, starts, Eligible(through)) : t \in starts} :
              g # h => g.files \cap h.files = {}
        /\ g \in [first : 1..(MaxLog + 1), files : SUBSET File]
    <3>1. \A f \in g.files : f \in files /\ f.last <= through /\ g.first <= f.first
      <4>1. \A f \in g.files : f \in files
        BY <1>1, <2>1, GroupsOK, ZenonT(30)
      <4>2. \A f \in g.files : f.last <= through
        BY <1>1, <2>1, GroupsOK, ZenonT(30)
      <4>3. \A f \in g.files : g.first <= f.first
        BY <2>1 DEF Group
      <4> QED
        BY <4>1, <4>2, <4>3
    <3>2. \E f \in g.files : f.first = g.first
      BY <1>1, <2>1, GroupsOK, ZenonT(30)
    <3>3. \A f \in files \ g.files : f.last < g.first \/ \A x \in g.files : x.last < f.first
      BY <1>1, <2>1, GroupsOK, ZenonT(30)
    <3>4. \A h \in {Group(t, starts, Eligible(through)) : t \in starts} :
              g # h => g.files \cap h.files = {}
      <4>1. Apart(g, starts, Eligible(through))
        BY <1>1, <2>1, GroupsOK, ZenonT(30)
      <4> QED
        BY <4>1, ZenonT(30) DEF Apart
    <3>5. g \in [first : 1..(MaxLog + 1), files : SUBSET File]
      BY <1>1, <2>1, GroupsOK, ZenonT(30)
    <3> QED
      BY <3>1, <3>2, <3>3, <3>4, <3>5
  <2>3. todo \subseteq {Group(t, starts, Eligible(through)) : t \in starts}
    OBVIOUS
  <2> HIDE DEF todo
  <2> QED
    BY <2>2, <2>3
<1> HIDE DEF todo
<1>6. PlanOK'
  <2>1. CASE plan' = NoPlan
    BY <2>1, ZenonT(30) DEF PlanOK, NoPlan
  <2>2. CASE plan' = [through |-> through, groups |-> todo]
    <3>1. plan'.through = through /\ plan'.groups = todo
      BY <2>2
    <3> QED
      BY <1>2, <1>5, <3>1, ZenonT(30) DEF PlanOK
  <2> QED
    BY <1>4, <2>1, <2>2
<1>7. TypeOK'
  <2>1. plan' \in [through : 0..compacted, groups : SUBSET [first : 1..(MaxLog + 1), files : SUBSET File]]
    <3>1. todo \in SUBSET [first : 1..(MaxLog + 1), files : SUBSET File]
      BY <1>5
    <3>2. through \in 0..compacted /\ 0 \in 0..compacted
      BY <1>1
    <3> QED
      BY <1>4, <3>1, <3>2 DEF NoPlan
  <2> QED
    BY <1>1, <1>2, <2>1, ZenonT(30) DEF TypeOK
<1>8. Held' = Held
  BY <1>2 DEF Held
<1> QED
  BY <1>1, <1>2, <1>6, <1>7, <1>8, ZenonT(30)
  DEF CompactionInv, IndexOfWrites, NeededIsHeld, ExistingIsHeld

\* compactGroup: what it drops is superseded at or below the compacted revision.
LEMMA RewriteGroupInv ==
  ASSUME CompactionInv, RewriteGroup
  PROVE  CompactionInv'
<1>1. /\ TypeOK /\ PlanOK /\ IndexOfWrites /\ NeededIsHeld /\ ExistingIsHeld
      /\ Len(log) \in Nat /\ MaxLog \in Nat /\ Len(log) <= MaxLog
      /\ plan.through \in Nat /\ plan.through <= compacted
      /\ compacted \in Nat /\ floor \in Nat /\ compacted <= floor
  BY Numbers DEF CompactionInv
<1>2. UNCHANGED <<log, active, index, compacted, jobs, floor, restarts>>
  BY DEF RewriteGroup
<1> DEFINE Merged(g) == [first |-> g.first, last |-> Max({f.last : f \in g.files}), sparse |-> TRUE,
                         held |-> UNION {LiveRecords(f, plan.through) : f \in g.files}]
<1>3. PICK g \in plan.groups :
         /\ \A h \in plan.groups : g.first <= h.first
         /\ files' = (files \ g.files) \cup {Merged(g)}
         /\ plan' = IF plan.groups = {g} THEN NoPlan ELSE [plan EXCEPT !.groups = @ \ {g}]
  BY ZenonT(30) DEF RewriteGroup
<1> DEFINE lasts == {f.last : f \in g.files}
           last == Max(lasts)
           live == UNION {LiveRecords(f, plan.through) : f \in g.files}
           merged == Merged(g)
<1>4. /\ \A f \in g.files : f \in files /\ f.last <= plan.through /\ g.first <= f.first
      /\ \E f \in g.files : f.first = g.first
      /\ \A f \in files \ g.files : f.last < g.first \/ \A x \in g.files : x.last < f.first
      /\ \A h \in plan.groups : g # h => g.files \cap h.files = {}
      /\ g.first \in 1..(MaxLog + 1)
  BY <1>1, ZenonT(30) DEF PlanOK, TypeOK
<1>5. /\ files \in SUBSET File /\ active \in File
      /\ active.first <= active.last + 1 /\ active.last = Len(log) /\ ~active.sparse
      /\ \A f \in files : f.first <= f.last /\ f.last < active.first
      /\ \A f, x \in files : f # x => f.last < x.first \/ x.last < f.first
      /\ \A f \in files \cup {active} :
            f.held \subseteq f.first..f.last /\ (f.sparse \/ f.held = f.first..f.last)
      /\ \A r \in 1..Len(log) : \E f \in files \cup {active} : r \in f.first..f.last
  BY <1>1, ZenonT(30) DEF TypeOK
<1>6. /\ \A f \in files : f.first \in Nat /\ f.last \in Nat /\ f.first >= 1 /\ f.last <= Len(log)
      /\ active.first \in Nat
  BY <1>1, HeldInLog
<1>7. /\ last \in lasts /\ \A y \in lasts : y <= last
  <2>1. lasts \in SUBSET (0..Len(log)) /\ lasts # {}
    BY <1>4, <1>6
  <2> QED
    BY <1>1, <2>1, MaxOfBounded, ZenonT(30)
<1>8. /\ merged.first = g.first /\ merged.last = last /\ merged.sparse = TRUE /\ merged.held = live
  BY ZenonT(30)
<1>9. PICK z \in g.files : last = z.last
  BY <1>7, ZenonT(30)
<1>10. \A f \in g.files : f.last <= last
  BY <1>7
<1>11. ASSUME NEW r \in live
       PROVE  \E f \in g.files : r \in f.held
  BY DEF LiveRecords
<1> HIDE DEF lasts, last, live, merged, Merged
<1>12. last \in Nat /\ last <= Len(log) /\ last <= plan.through /\ g.first <= last
       /\ last < active.first /\ g.first \in Nat
  <2>1. /\ z \in files /\ z.last <= plan.through /\ g.first <= z.first
        /\ g.first \in 1..(MaxLog + 1)
    BY <1>4, ZenonT(30)
  <2>2. z.first <= z.last /\ z.last < active.first
    BY <1>5, <2>1, ZenonT(30)
  <2>3. z.first \in Nat /\ z.last \in Nat /\ z.last <= Len(log)
    BY <1>6, <2>1, ZenonT(30)
  <2>4. g.first \in Nat
    BY <2>1
  <2>5. g.first <= z.last
    BY <2>1, <2>2, <2>3, <2>4
  <2> QED
    BY <1>9, <2>1, <2>2, <2>3, <2>4, <2>5, ZenonT(30)
<1>13. live \subseteq g.first..last
  <2> SUFFICES ASSUME NEW r \in live
               PROVE  r \in g.first..last
    OBVIOUS
  <2>1. PICK f \in g.files : r \in f.held
    BY <1>11
  <2>2. f \in files /\ g.first <= f.first /\ r \in f.first..f.last /\ f.last <= last
    BY <1>4, <1>5, <1>10, <2>1, ZenonT(30)
  <2> QED
    BY <1>6, <1>12, <2>2
<1>14. files' = (files \ g.files) \cup {merged}
  BY <1>3 DEF merged
<1>15. merged \in File
  <2>1. last \in 0..MaxLog /\ live \in SUBSET (1..MaxLog)
    BY <1>1, <1>4, <1>12, <1>13
  <2>2. merged = [first |-> g.first, last |-> last, sparse |-> TRUE, held |-> live]
    BY DEF merged, Merged, last, live, lasts
  <2> QED
    BY <1>4, <2>1, <2>2 DEF File
<1>16. \A x \in files \ g.files : x.last < merged.first \/ merged.last < x.first
  BY <1>4, <1>8, <1>9
<1>17. ASSUME NEW r \in 1..Len(log)
       PROVE  \E f \in files' \cup {active'} : r \in f.first..f.last
  <2>1. PICK f \in files \cup {active} : r \in f.first..f.last
    BY <1>5
  <2>2. CASE f \in g.files
    <3>1. g.first <= f.first /\ f.last <= last /\ f \in files
      BY <1>4, <1>10, <2>2
    <3>2. r \in merged.first..merged.last
      BY <1>6, <1>8, <1>12, <2>1, <3>1
    <3> QED
      BY <1>14, <3>2
  <2>3. CASE f \notin g.files
    BY <1>2, <1>14, <2>1, <2>3
  <2> QED
    BY <2>2, <2>3
<1>18. plan' = NoPlan \/ (plan'.through = plan.through /\ plan'.groups = plan.groups \ {g}
                          /\ plan' \in [through : 0..compacted,
                                        groups : SUBSET [first : 1..(MaxLog + 1), files : SUBSET File]])
  <2>1. plan \in [through : 0..compacted, groups : SUBSET [first : 1..(MaxLog + 1), files : SUBSET File]]
    BY <1>1 DEF TypeOK
  <2>2. plan' = NoPlan \/ plan' = [plan EXCEPT !.groups = @ \ {g}]
    BY <1>3
  <2> QED
    BY <2>1, <2>2
<1>19. TypeOK'
  <2>1. plan' \in [through : 0..compacted', groups : SUBSET [first : 1..(MaxLog + 1), files : SUBSET File]]
    <3>1. 0 \in 0..compacted
      BY <1>1
    <3> QED
      BY <1>2, <1>18, <3>1 DEF NoPlan
  <2>2. /\ files' \in SUBSET File
        /\ \A f \in files' : f.first <= f.last /\ f.last < active'.first
    BY <1>2, <1>5, <1>8, <1>12, <1>14, <1>15, ZenonT(30)
  <2>3. \A f, x \in files' : f # x => f.last < x.first \/ x.last < f.first
    BY <1>5, <1>14, <1>16
  <2>4. \A f \in files' \cup {active'} :
            f.held \subseteq f.first..f.last /\ (f.sparse \/ f.held = f.first..f.last)
    BY <1>2, <1>5, <1>8, <1>13, <1>14, ZenonT(30)
  <2> QED
    BY <1>1, <1>2, <1>17, <2>1, <2>2, <2>3, <2>4, ZenonT(30) DEF TypeOK
<1>20. PlanOK'
  <2>1. CASE plan' = NoPlan
    BY <2>1 DEF PlanOK, NoPlan
  <2>2. CASE plan'.through = plan.through /\ plan'.groups = plan.groups \ {g}
    <3> SUFFICES ASSUME NEW h \in plan.groups, h # g
                 PROVE  /\ \A f \in h.files : f \in files' /\ f.last <= plan.through /\ h.first <= f.first
                        /\ \E f \in h.files : f.first = h.first
                        /\ \A f \in files' \ h.files :
                              f.last < h.first \/ \A x \in h.files : x.last < f.first
                        /\ \A i \in plan.groups \ {g} : h # i => h.files \cap i.files = {}
      BY <2>2 DEF PlanOK
    <3>1. /\ \A f \in h.files : f \in files /\ f.last <= plan.through /\ h.first <= f.first
          /\ \E f \in h.files : f.first = h.first
          /\ \A f \in files \ h.files : f.last < h.first \/ \A x \in h.files : x.last < f.first
          /\ \A i \in plan.groups : h # i => h.files \cap i.files = {}
          /\ h.files \cap g.files = {}
      BY <1>1, <1>4 DEF PlanOK
    <3>2. PICK y \in h.files : y.first = h.first
      BY <3>1
    <3>3. y \in files \ g.files
      BY <3>1
    <3>4. merged.last < h.first
      <4>1. ~(y.last < g.first)
        BY <1>3, <1>5, <1>6, <1>12, <3>2, <3>3
      <4> QED
        BY <1>4, <1>8, <1>9, <3>2, <3>3, <4>1
    <3> QED
      BY <1>14, <3>1, <3>4
  <2> QED
    BY <1>18, <2>1, <2>2
<1>21. ASSUME NEW r \in Held
       PROVE  r \in Held' \/ (r \in Nat /\ r <= plan.through /\ ~Live(r, plan.through))
  <2>1. CASE \E f \in g.files : r \in f.held
    <3>1. PICK f \in g.files : r \in f.held
      BY <2>1
    <3>2. f \in files /\ r \in f.first..f.last /\ f.last <= plan.through
      BY <1>4, <1>5, <3>1
    <3>3. r \in Nat /\ r <= plan.through
      BY <1>1, <1>6, <3>2
    <3>4. Live(r, plan.through) => r \in live
      BY <3>1 DEF live, LiveRecords
    <3>5. r \in live => r \in Held'
      BY <1>8, <1>14 DEF Held
    <3> QED
      BY <3>3, <3>4, <3>5
  <2>2. CASE ~ \E f \in g.files : r \in f.held
    BY <1>2, <1>14, <2>2 DEF Held
  <2> QED
    BY <2>1, <2>2
<1>22. NeededIsHeld'
  <2> SUFFICES ASSUME NEW k \in Keys, NEW r \in index[k].revs,
                      \A s \in index[k].revs : s <= compacted => s <= r
               PROVE  r \in Held'
    BY <1>2 DEF NeededIsHeld
  <2>1. r \in Held
    BY <1>1 DEF NeededIsHeld
  <2>2. CASE r <= plan.through /\ ~Live(r, plan.through)
    <3>1. PICK s \in index[k].revs : r < s /\ s <= plan.through
      BY <1>1, <2>2, DeadIsSuperseded
    <3>2. index[k].revs \subseteq Nat
      BY <1>1, EntryRevs
    <3>3. s <= compacted /\ ~(s <= r)
      BY <1>1, <3>1, <3>2
    <3> QED
      BY <3>1, <3>3
  <2> QED
    BY <1>21, <2>1, <2>2
<1>23. ExistingIsHeld'
  <2> SUFFICES ASSUME NEW k \in Keys, NEW r \in 1..Len(log), Touches(log[r], k), ~Deletes(log[r], k),
                      \A s \in 1..floor : Touches(log[s], k) => s <= r
               PROVE  r \in index[k].revs /\ r \in Held'
    BY <1>2 DEF ExistingIsHeld
  <2>1. r \in index[k].revs /\ r \in Held
    BY <1>1 DEF ExistingIsHeld
  <2>2. CASE r <= plan.through /\ ~Live(r, plan.through)
    <3>1. PICK s \in index[k].revs : r < s /\ s <= plan.through
      BY <1>1, <2>1, <2>2, DeadIsSuperseded
    <3>2. s \in 1..Len(log) /\ Touches(log[s], k)
      BY <1>1, ZenonT(30) DEF IndexOfWrites
    <3>3. s \in 1..floor /\ ~(s <= r)
      BY <1>1, <3>1, <3>2
    <3> QED
      BY <3>2, <3>3
  <2> QED
    BY <1>21, <2>1, <2>2
<1>24. IndexOfWrites'
  BY <1>1, <1>2, ZenonT(30) DEF IndexOfWrites
<1> QED
  BY <1>19, <1>20, <1>22, <1>23, <1>24 DEF CompactionInv

-----------------------------------------------------------------------------
(***************************************************************************)
(* The theorems.                                                           *)
(***************************************************************************)

LEMMA InitCompaction ==
  ASSUME Init
  PROVE  CompactionInv
<1>1. /\ log = <<{}>> /\ files = {} /\ index = [k \in Keys |-> NoKey]
      /\ compacted = 0 /\ jobs = {} /\ plan = NoPlan /\ floor = 0 /\ restarts = 0
      /\ active = [NewFile(1) EXCEPT !.last = 1, !.held = {1}]
  BY DEF Init
<1>2. MaxLog \in Nat /\ MaxLog >= 1 /\ MaxRestarts \in Nat
  BY LogCompactionAssumption
<1>3. active = [first |-> 1, last |-> 1, sparse |-> FALSE, held |-> {1}]
  BY <1>1, ZenonT(30) DEF NewFile
<1>4. log \in Seq(Records \cup {{}}) /\ Len(log) = 1 /\ log[1] = {}
  BY <1>1
<1>5. 1 \in 1..(MaxLog + 1) /\ 1 \in 0..MaxLog /\ {1} \in SUBSET (1..MaxLog) /\ 1..1 = {1}
  BY <1>2
<1>6. active \in File
  BY <1>3, <1>5 DEF File
<1>7. NoKey \in Entry /\ NoKey.revs = {} /\ NoKey.tombstone = FALSE
  BY DEF NoKey, Entry
<1>8. index \in [Keys -> Entry] /\ \A k \in Keys : index[k] = NoKey
  BY <1>1, <1>7
<1>9. NoPlan \in [through : 0..0, groups : SUBSET [first : 1..(MaxLog + 1), files : SUBSET File]]
      /\ NoPlan.groups = {}
  BY DEF NoPlan
<1>10. TypeOK
  <2>1. /\ log \in Seq(Records \cup {{}}) /\ Len(log) <= MaxLog /\ index \in [Keys -> Entry]
        /\ compacted \in 0..floor /\ floor \in 0..Len(log) /\ restarts \in 0..MaxRestarts
    BY <1>1, <1>2, <1>4, <1>8
  <2>2. /\ jobs \in SUBSET (1..compacted)
        /\ plan \in [through : 0..compacted, groups : SUBSET [first : 1..(MaxLog + 1), files : SUBSET File]]
    BY <1>1, <1>9
  <2>3. /\ files \in SUBSET File /\ active \in File
        /\ active.first <= active.last + 1 /\ active.last = Len(log) /\ ~active.sparse
        /\ active.held = 1..1 /\ active.first = 1 /\ active.last = 1
    <3>1. active.held = {1} /\ active.first = 1 /\ active.last = 1 /\ active.sparse = FALSE
      BY <1>3
    <3>2. 1 <= 1 + 1
      OBVIOUS
    <3> QED
      BY <1>1, <1>4, <1>5, <1>6, <3>1, <3>2
  <2>4. \A r \in 1..Len(log) : r \in active.first..active.last
    BY <1>4, <2>3
  <2> QED
    BY <1>1, <2>1, <2>2, <2>3, <2>4 DEF TypeOK
<1>11. PlanOK
  BY <1>1, <1>9 DEF PlanOK
<1>12. IndexOfWrites /\ NeededIsHeld
  BY <1>7, <1>8 DEF IndexOfWrites, NeededIsHeld
<1>13. ExistingIsHeld
  BY <1>4, <1>5 DEF ExistingIsHeld, Touches
<1> QED
  BY <1>10, <1>11, <1>12, <1>13 DEF CompactionInv

LEMMA NextCompaction ==
  ASSUME CompactionInv, [Next]_vars
  PROVE  CompactionInv'
<1>1. CASE \E rec \in Records : Commit(rec)
  BY <1>1, CommitInv
<1>2. CASE Tick
  BY <1>2, TickInv
<1>3. CASE \E through \in 1..MaxLog : Compact(through)
  BY <1>3, CompactInv
<1>4. CASE \E through \in jobs : StartRewrite(through)
  BY <1>4, StartRewriteInv
<1>5. CASE RewriteGroup
  BY <1>5, RewriteGroupInv
<1>6. CASE Restart
  <2>1. restarts' \in 0..MaxRestarts
    BY <1>6, LogCompactionAssumption DEF CompactionInv, TypeOK, Restart
  <2> QED
    BY <1>6, <2>1, ReplayInv DEF Restart
<1>7. CASE ForceReplayLog
  <2>1. restarts' \in 0..MaxRestarts
    BY <1>7, ZenonT(30) DEF CompactionInv, TypeOK, ForceReplayLog
  <2> QED
    BY <1>7, <2>1, ReplayInv DEF ForceReplayLog
<1>8. CASE UNCHANGED vars
  BY <1>8, ZenonT(30) DEF vars, CompactionInv, TypeOK, PlanOK, IndexOfWrites, NeededIsHeld, ExistingIsHeld, Held
<1> QED
  BY <1>1, <1>2, <1>3, <1>4, <1>5, <1>6, <1>7, <1>8 DEF Next

\* The files, the plan of the rewrite and the index agree at every step of
\* commits, rotations, compactions of the index, rewrites of the log and replays.
THEOREM CompactionInvHolds == Spec => []CompactionInv
<1>1. Init => CompactionInv
  BY InitCompaction
<1>2. CompactionInv /\ [Next]_vars => CompactionInv'
  BY NextCompaction
<1> QED
  BY <1>1, <1>2, PTL DEF Spec

\* A revision that the index gives to a read which checkReadRevision lets through
\* is in the log, whichever compactions overlap and whenever the log is replayed.
THEOREM ReadRecordsKept == Spec => []ReadsFindTheirRecord
<1>1. CompactionInv => ReadsFindTheirRecord
  <2> SUFFICES ASSUME CompactionInv, NEW k \in Keys, NEW at \in compacted..Len(log),
                      LatestIn(index, k, at) # 0
               PROVE  LatestIn(index, k, at) \in Held
    BY DEF ReadsFindTheirRecord
  <2> DEFINE l == LatestIn(index, k, at)
  <2>1. TypeOK /\ IndexOfWrites /\ NeededIsHeld /\ compacted \in Nat /\ Len(log) \in Nat
    BY Numbers DEF CompactionInv
  <2>2. at \in Nat /\ compacted <= at
    BY <2>1
  <2>3. index[k].revs \subseteq Nat \ {0}
    BY <2>1, EntryRevs
  <2>4. l \in index[k].revs /\ \A r \in index[k].revs : r <= at => r <= l
    BY <2>2, <2>3, LatestInSpec
  <2>5. \A s \in index[k].revs : s <= compacted => s <= l
    BY <2>1, <2>2, <2>3, <2>4
  <2> QED
    BY <2>1, <2>4, <2>5 DEF NeededIsHeld
<1> QED
  BY <1>1, CompactionInvHolds, PTL

\* Compaction of the index and of the log, restarts and replays keep every key
\* that exists at a revision from the highest compaction on.
THEOREM ExistingSurvives == Spec => []ExistingKeysKept
<1>1. CompactionInv => ExistingKeysKept
  <2> SUFFICES ASSUME CompactionInv, NEW k \in Keys, NEW at \in floor..Len(log), Exists(k, at)
               PROVE  LatestIn(index, k, at) = LastWrite(k, at)
    BY DEF ExistingKeysKept
  <2> DEFINE l == LatestIn(index, k, at)
             w == LastWrite(k, at)
  <2>1. TypeOK /\ IndexOfWrites /\ ExistingIsHeld /\ floor \in Nat /\ Len(log) \in Nat
    BY Numbers DEF CompactionInv
  <2>2. at \in Nat /\ floor <= at /\ at <= Len(log)
    BY <2>1
  <2>3. index[k].revs \subseteq Nat \ {0}
    BY <2>1, EntryRevs
  <2>4. l \in 0..at /\ (l # 0 => l \in index[k].revs) /\ \A r \in index[k].revs : r <= at => r <= l
    BY <2>2, <2>3, LatestInSpec
  <2>5. /\ w \in 0..at /\ (w # 0 => Touches(log[w], k))
        /\ \A r \in 1..at : Touches(log[r], k) => r <= w
    BY <2>2, LastWriteSpec
  <2>6. w > 0 /\ ~Deletes(log[w], k)
    BY DEF Exists
  <2> HIDE DEF l, w
  <2>7. w \in 1..Len(log) /\ w <= at /\ Touches(log[w], k)
    BY <2>1, <2>2, <2>5, <2>6
  <2>8. \A s \in 1..floor : Touches(log[s], k) => s <= w
    BY <2>1, <2>2, <2>5
  <2>9. w \in index[k].revs
    BY <2>1, <2>6, <2>7, <2>8 DEF ExistingIsHeld
  <2>10. w <= l
    BY <2>4, <2>7, <2>9
  <2>11. l <= w
    <3>1. l # 0
      BY <2>4, <2>7, <2>10
    <3>2. l \in 1..at /\ Touches(log[l], k)
      BY <2>1, <2>2, <2>4, <3>1 DEF IndexOfWrites
    <3> QED
      BY <2>5, <3>2
  <2> QED
    BY <2>4, <2>5, <2>10, <2>11 DEF l, w
<1> QED
  BY <1>1, CompactionInvHolds, PTL
=============================================================================
