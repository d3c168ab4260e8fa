---------------------------- MODULE MCServices ----------------------------
(***************************************************************************)
(* The server's watch streams and leases, and the load generator's executor, *)
(* on small instances, one at a time.  `part' says which one runs, the      *)
(* others stay in their first state.  There are two leases, and a key that  *)
(* moves between them.                                                      *)
(***************************************************************************)
EXTENDS Lease, TLC

CONSTANTS s1, l1, l2, k1, w1, w2

VARIABLES part,
          head, compacted, server, stopping, rpc, done, requests, next, watch, active, out, errors,
          changes, compactedRev, bumps, known, start, writing, writes, op, clean, seen, samples,
          list, lists, round, compactVersion, compactRev

streams == <<head, compacted, server, stopping, rpc, done, requests, next, watch, active, out, errors>>
executor == <<changes, compactedRev, bumps, known, start, writing, writes, op, clean, seen, samples,
              list, lists, round, compactVersion, compactRev>>

Streams == INSTANCE WatchStream WITH
    Streams <- {s1}, Ids <- {0}, Starts <- {1}, Stops <- FALSE, LateStreams <- FALSE,
    MaxWatches <- 2, MaxLog <- 2, MaxReadErrors <- 0

\* Writes of one key by two workers, with and without the watch; a list among
\* the writes of one worker, and among the rounds of the compactor.
Writes == INSTANCE Executor WITH
    log <- changes, compacted <- compactedRev, inflight <- writing,
    Workers <- {w1, w2}, Keys <- {1}, Kinds <- {"create", "update", "upsert", "delete"},
    PageSize <- 1, MaxRev <- 4, MaxWrites <- 3, MaxSeen <- 0, MaxLists <- 0, MaxRounds <- 0
Watches == INSTANCE Executor WITH
    log <- changes, compacted <- compactedRev, inflight <- writing,
    Workers <- {w1, w2}, Keys <- {1}, Kinds <- {"create", "update", "delete"},
    PageSize <- 1, MaxRev <- 3, MaxWrites <- 3, MaxSeen <- 2, MaxLists <- 0, MaxRounds <- 0
Lists == INSTANCE Executor WITH
    log <- changes, compacted <- compactedRev, inflight <- writing,
    Workers <- {w1}, Keys <- {1, 2}, Kinds <- {"create", "delete"},
    PageSize <- 1, MaxRev <- 4, MaxWrites <- 3, MaxSeen <- 0, MaxLists <- 1, MaxRounds <- 0
Rounds == INSTANCE Executor WITH
    log <- changes, compacted <- compactedRev, inflight <- writing,
    Workers <- {w1}, Keys <- {1, 2}, Kinds <- {"create"},
    PageSize <- 1, MaxRev <- 5, MaxWrites <- 2, MaxSeen <- 0, MaxLists <- 1, MaxRounds <- 3

ASSUME /\ Streams!WatchStreamAssumption
       /\ Writes!ExecutorAssumption /\ Lists!ExecutorAssumption

-----------------------------------------------------------------------------
MCInit ==
    /\ Streams!Init /\ Init
    /\ \/ part \in {"streams", "leases", "writes", "watches"} /\ Writes!Init
       \/ part \in {"lists", "rounds"} /\ Lists!Init

MCNext ==
    /\ \/ part = "streams" /\ Streams!Next /\ UNCHANGED <<vars, executor>>
       \/ part = "leases" /\ Next /\ failures' + restarts' <= 1
             /\ UNCHANGED <<streams, executor>>
       \/ /\ \/ part = "writes" /\ Writes!Next
             \/ part = "watches" /\ Watches!Next
             \/ part = "lists" /\ Lists!Next
             \/ part = "rounds" /\ Rounds!Next
          /\ UNCHANGED <<streams, vars>>
    /\ UNCHANGED part

MCSpec == MCInit /\ [][MCNext]_<<part, streams, vars, executor>>

\* Workers are interchangeable where there are two, and so are the leases.
Symmetry == Permutations({w1, w2}) \cup Permutations({l1, l2})

-----------------------------------------------------------------------------
\* Each watch of a stream gets its Created and then every revision, once and in
\* order (WatchStream).
EachWatchInOrder == part = "streams" => Streams!TypeOK /\ Streams!EachWatchInOrder

\* What the client remembers of a key is what the server has, and a conditional
\* write gives up only when another write came between (Executor).
GivesUpOnlyWhenRaced ==
    part = "writes" => Writes!TypeOK /\ Writes!KnownIsCurrent /\ Writes!GivesUpOnlyWhenRaced

\* A watch lag is never measured from an earlier write (Executor).
LagNeverOverstated == part = "watches" => Watches!LagNeverOverstated

\* A paginated list is the keys of one revision, and outlives one round of the
\* compactor (Executor).
ListIsSnapshot ==
    /\ part \in {"lists", "rounds"} => Lists!ListIsSnapshot
    /\ part = "rounds" => Rounds!ListHasARound
=============================================================================
