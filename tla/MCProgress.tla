----------------------------- MODULE MCProgress -----------------------------
(***************************************************************************)
(* What must come to an end, on small instances, one at a time: reads of    *)
(* files that are replaced, keys of leases that are gone, the watches of a  *)
(* stream and the server's stop, and a run of the load generator.  `part'   *)
(* says which one runs, the others stay in their first state.               *)
(***************************************************************************)
EXTENDS FileRead

CONSTANTS s1, l1, k1, w1, w2, r1, r2, NoLease, Absent

VARIABLES part,
          head, compacted, server, stopping, rpc, done, requests, next, watch, active, out, errors,
          commits, replay, record, value, lm, inflight, todo, retiring, deleting, status, failures, restarts,
          phase, main, expired, closed, loop, queue, accepted, ran, worker, podGen, pods, births

streams == <<head, compacted, server, stopping, rpc, done, requests, next, watch, active, out, errors>>
leases == <<commits, replay, record, value, lm, inflight, todo, retiring, deleting, status, failures, restarts>>
pool == <<phase, main, expired, closed, loop, queue, accepted, ran, worker, podGen, pods, births>>

\* A watch whose log cannot be read once, on a server that is stopped.
Streams == INSTANCE WatchStream WITH
    Streams <- {s1}, Ids <- {0}, Starts <- {0, 1}, Stops <- TRUE, LateStreams <- FALSE,
    MaxWatches <- 1, MaxLog <- 2, MaxReadErrors <- 1

\* One lease and one key, a transaction that fails and a restart.
Leases == INSTANCE Lease WITH
    Ids <- {l1}, Keys <- {k1}, MaxLog <- 4, MaxFailures <- 1, MaxRestarts <- 1

\* Two workers behind a queue of one job.
Pool == INSTANCE WorkloadRun WITH
    done <- expired, Workers <- {w1, w2}, Slots <- {1}, QueueCap <- 1, MaxJobs <- 4

ASSUME Streams!WatchStreamAssumption /\ Pool!WorkloadRunAssumption

-----------------------------------------------------------------------------
MCInit ==
    /\ Init /\ Streams!Init /\ Leases!Init /\ Pool!Init
    /\ \A r \in Readers : rev[r] = 1
    /\ part \in {"files", "streams", "leases", "pool"} /\ (part # "files" => canMap)

MCNext ==
    /\ \/ part = "files" /\ Next /\ UNCHANGED <<streams, leases, pool>>
       \/ part = "streams" /\ Streams!Next /\ UNCHANGED <<vars, leases, pool>>
       \/ part = "leases" /\ Leases!Next /\ UNCHANGED <<vars, streams, pool>>
       \/ part = "pool" /\ Pool!Next /\ UNCHANGED <<vars, streams, leases>>
    /\ UNCHANGED part

\* The fairness of FileRead, WatchStream, Lease and WorkloadRun.
MCSpec ==
    /\ MCInit /\ [][MCNext]_<<part, vars, streams, leases, pool>>
    /\ \A r \in Readers : WF_vars(part = "files" /\ ReaderStep(r))
    /\ WF_leases(part = "leases" /\ Leases!Expirer) /\ WF_leases(part = "leases" /\ Leases!Deleter)
    /\ WF_streams(part = "streams" /\ Streams!StopStep)
    /\ WF_streams(part = "streams" /\ Streams!HandlerStep(s1))
    /\ WF_streams(part = "streams" /\ Streams!RequestStep(s1))
    /\ WF_streams(/\ part = "streams" /\ watch[s1] # <<>>
                  /\ Streams!RunCheck(s1, 1) \/ Streams!RunSend(s1, 1))
    /\ \A l \in Pool!Loops : WF_pool(part = "pool" /\ Pool!LoopStep(l))
    /\ \A w \in {w1, w2} : WF_pool(part = "pool" /\ Pool!WorkerStep(w))
    /\ WF_pool(part = "pool" /\ Pool!MainStep)
    /\ WF_pool(part = "pool" /\ phase = "steady" /\ Pool!Deadline)

-----------------------------------------------------------------------------
\* The watchers of a stream that is gone end, and GracefulStop returns
\* (WatchStream).
StreamsEnd == Streams!WatchersEnd /\ Streams!StopReturns

\* Keys of a lease that is gone are deleted (Lease).
OrphansGo == Leases!OrphansGo

\* The phases of a run end in order: no loop sends on the closed channel, and the
\* watches stop after the jobs that were accepted have run (WorkloadRun).
EndsInOrder == part = "pool" => Pool!TypeOK /\ Pool!NoSendOnClosed /\ Pool!RunsBeforeStop

\* A run of the load generator returns (WorkloadRun).
RunReturns == part = "pool" => Pool!RunReturns
=============================================================================
