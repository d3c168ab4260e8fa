------------------------------- MODULE LogCodec -------------------------------
(***************************************************************************)
(* The encoding of a log file (logcodec.go) and its users in the filesystem *)
(* log: appending a batch with the spans of its records, copying live       *)
(* records into a compacted file, and recovering a file from what a cut     *)
(* short write left of it.                                                  *)
(*                                                                         *)
(* A byte is a number below 2 * Base; a varint has one digit of base Base   *)
(* per byte, and Base added to all but the last (protowire has 128).  A     *)
(* message is its revision and then arbitrary bytes.                        *)
(***************************************************************************)
EXTENDS Integers, Sequences, SequencesExt

CONSTANTS Base,         \* of varints
          Lengths,      \* of messages
          Fills,        \* what the bytes of a message are
          MaxRecords    \* bound on the records appended

CodecAssumption ==
    Base \in Nat \ {0, 1} /\ Lengths \subseteq Nat \ {0} /\ Fills \subseteq 0..2 * Base - 1

VARIABLES data,         \* the file's bytes
          spans, revisions,   \* the log's index of it
          last,         \* the revision of the last record appended
          synced,       \* bytes that a crash leaves
          closed        \* whether the file was closed and compacted

vars == <<data, spans, revisions, last, synced, closed>>

magic == <<Base, 0>>

Failed == [ok |-> FALSE]
From(s, i) == SubSeq(s, i, Len(s))

\* protowire.AppendVarint and ConsumeVarint; zero bytes consumed: there are too few.
RECURSIVE Varint(_)
Varint(n) == IF n < Base THEN <<n>> ELSE <<Base + (n % Base)>> \o Varint(n \div Base)

RECURSIVE ConsumeVarint(_)
ConsumeVarint(bytes) ==
    IF bytes = <<>> THEN [value |-> 0, size |-> 0]
    ELSE IF Head(bytes) < Base THEN [value |-> Head(bytes), size |-> 1]
    ELSE LET rest == ConsumeVarint(Tail(bytes))
         IN IF rest.size = 0 THEN rest
            ELSE [value |-> Head(bytes) - Base + Base * rest.value, size |-> rest.size + 1]

-----------------------------------------------------------------------------
Message(revision, length, fill) == <<revision>> \o [i \in 1..length - 1 |-> fill]

\* EncodedRecord.Revision: 0 for a message without a header.
Revision(m) == IF m = <<>> THEN 0 ELSE Head(m)

\* WriteRecord.
WriteRecord(m) == Varint(Len(m)) \o m

\* AppendRecordsAt: the bytes, and the spans relative to them.
RECURSIVE AppendRecordsAt(_, _)
AppendRecordsAt(buf, messages) ==
    IF messages = <<>> THEN [buf |-> buf, spans |-> <<>>]
    ELSE LET m == Head(messages)
             prefixed == buf \o Varint(Len(m))
             rest == AppendRecordsAt(prefixed \o m, Tail(messages))
         IN [buf |-> rest.buf, spans |-> <<[offset |-> Len(prefixed), length |-> Len(m)]>> \o rest.spans]

Bytes(span, bytes) == SubSeq(bytes, span.offset + 1, span.offset + span.length)

\* Whether the bytes end before the record does, or no record follows.
Torn(bytes, prefix, span) == prefix.size = 0 \/ Len(bytes) - span.offset < span.length

\* Scan, from a position on.
RECURSIVE ScanFrom(_, _)
ScanFrom(bytes, pos) ==
    LET prefix == ConsumeVarint(From(bytes, pos + 1))
        span == [offset |-> pos + prefix.size, length |-> prefix.value]
        rest == ScanFrom(bytes, span.offset + span.length)
    IN IF Torn(bytes, prefix, span) THEN [ok |-> TRUE, spans |-> <<>>, revisions |-> <<>>, complete |-> pos]
       ELSE IF Revision(Bytes(span, bytes)) = 0 \/ ~rest.ok THEN Failed
       ELSE [rest EXCEPT !.spans = <<span>> \o @, !.revisions = <<Revision(Bytes(span, bytes))>> \o @]

Scan(bytes) == IF ~IsPrefix(magic, bytes) THEN Failed ELSE ScanFrom(bytes, Len(magic))

\* Offsets refuses a torn tail.
Offsets(bytes) ==
    LET s == Scan(bytes) IN IF ~s.ok \/ s.complete # Len(bytes) THEN Failed ELSE s

\* Decode: the messages in turn.
RECURSIVE DecodeFrom(_)
DecodeFrom(bytes) ==
    IF bytes = <<>> THEN [ok |-> TRUE, messages |-> <<>>]
    ELSE LET prefix == ConsumeVarint(bytes)
             rest == DecodeFrom(From(bytes, prefix.size + prefix.value + 1))
         IN IF prefix.size = 0 \/ Len(bytes) - prefix.size < prefix.value \/ ~rest.ok THEN Failed
            ELSE [rest EXCEPT !.messages = <<SubSeq(bytes, prefix.size + 1, prefix.size + prefix.value)>> \o @]

Decode(bytes) == IF ~IsPrefix(magic, bytes) THEN Failed ELSE DecodeFrom(From(bytes, Len(magic) + 1))

-----------------------------------------------------------------------------
Init ==
    /\ data = magic /\ spans = <<>> /\ revisions = <<>>
    /\ last = 0 /\ synced = Len(magic) /\ closed = FALSE

\* The spans are left relative to the batch.
Published_Relative(encoded) == encoded.spans

\* commitBatch moves the batch's spans to where the file ended.
Published(encoded) ==
    [i \in DOMAIN encoded.spans |-> [encoded.spans[i] EXCEPT !.offset = @ + Len(data)]]

\* commitBatch: the write; the index follows once it is synced.
AppendBatch(lengths, fill) ==
    /\ ~closed /\ synced = Len(data) /\ last + Len(lengths) <= MaxRecords
    /\ LET messages == [i \in DOMAIN lengths |-> Message(last + i, lengths[i], fill)]
           encoded == AppendRecordsAt(<<>>, messages)
       IN /\ data' = data \o encoded.buf
          /\ spans' = spans \o Published(encoded)
          /\ revisions' = revisions \o [i \in DOMAIN messages |-> last + i]
    /\ last' = last + Len(lengths)
    /\ UNCHANGED <<synced, closed>>

Sync ==
    /\ synced < Len(data)
    /\ synced' = Len(data)
    /\ UNCHANGED <<data, spans, revisions, last, closed>>

\* A crash leaves what was synced and part of the write; open scans the file
\* and truncates it.
Recover(length) ==
    /\ length \in synced..Len(data) - 1
    /\ LET s == Scan(SubSeq(data, 1, length)) IN
       /\ s.ok
       /\ data' = SubSeq(data, 1, s.complete) /\ synced' = s.complete
       /\ spans' = s.spans /\ revisions' = s.revisions
       /\ last' = IF s.revisions = <<>> THEN 0 ELSE Last(s.revisions)
    /\ UNCHANGED closed

\* compactGroup: the live records' bytes are written to a new file.
Copied(keep) ==
    LET kept == SelectSeq([i \in DOMAIN spans |-> i], LAMBDA i : revisions[i] \in keep)
    IN [i \in DOMAIN kept |-> Bytes(spans[kept[i]], data)]

\* Spans of a copied record: its bytes end what was written so far.
RECURSIVE CopiedSpans(_, _)
CopiedSpans(messages, size) ==
    IF messages = <<>> THEN <<>>
    ELSE LET end == size + Len(WriteRecord(Head(messages)))
         IN <<[offset |-> end - Len(Head(messages)), length |-> Len(Head(messages))]>>
                \o CopiedSpans(Tail(messages), end)

Compact(keep) ==
    /\ synced = Len(data) /\ keep # ToSet(revisions) /\ keep # {}
    /\ LET messages == Copied(keep) IN
       /\ data' = magic \o FlattenSeq([i \in DOMAIN messages |-> WriteRecord(messages[i])])
       /\ spans' = CopiedSpans(messages, Len(magic))
       /\ revisions' = SelectSeq(revisions, LAMBDA r : r \in keep)
       /\ synced' = Len(data')
    /\ closed' = TRUE
    /\ UNCHANGED last

Next ==
    \/ \E n \in 1..2 : \E lengths \in [1..n -> Lengths] : \E fill \in Fills : AppendBatch(lengths, fill)
    \/ Sync
    \/ \E length \in Len(magic)..Len(data) : Recover(length)
    \/ \E keep \in SUBSET ToSet(revisions) : Compact(keep)

Spec == Init /\ [][Next]_vars

-----------------------------------------------------------------------------
\* The index that commits, compactions and recoveries keep is the one that Scan
\* and Offsets read back from the file, and a span's bytes are the message that
\* Decode finds in its place.
IndexIsScan ==
    /\ LET s == Offsets(data) IN s.ok /\ s.spans = spans /\ s.revisions = revisions
    /\ LET d == Decode(data) IN d.ok /\ d.messages = [i \in DOMAIN spans |-> Bytes(spans[i], data)]

\* Wherever a write is cut short, inside a length prefix too, Scan finds exactly
\* the records that are whole and where they end, and it never fails.
CutsAreTornTails ==
    \A n \in Len(magic)..Len(data) :
        LET s == Scan(SubSeq(data, 1, n))
            whole == SelectSeq(spans, LAMBDA sp : sp.offset + sp.length <= n)
        IN /\ s.ok /\ s.spans = whole
           /\ s.complete = IF whole = <<>> THEN Len(magic) ELSE Last(whole).offset + Last(whole).length
==============================================================================
