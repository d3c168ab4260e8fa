----------------------------- MODULE WatchStream -----------------------------
(***************************************************************************)
(* The watch streams of the API server (api/server.go): the goroutine that  *)
(* handles a stream's requests, the Run goroutine of each of its watches,   *)
(* the RPC handler that cleans up, and GracefulStop.                        *)
(*                                                                         *)
(* The storage's watcher is that of module Watch, one revision per          *)
(* response and every revision matching.  A progress request is answered    *)
(* and changes nothing.                                                     *)
(***************************************************************************)
EXTENDS Integers, Sequences, FiniteSets, FiniteSetsExt

CONSTANTS Streams,          \* the streams clients may open
          Ids,              \* watch IDs clients may choose; 0 lets the server
          Starts,           \* start revisions clients ask for; 0 is now
          Stops,            \* whether the server is stopped
          LateStreams,      \* whether streams are opened while the server stops
          MaxWatches,       \* bound on the watches of a stream
          MaxLog,           \* bound on the revisions
          MaxReadErrors     \* bound on the reads of the log that fail

WatchStreamAssumption ==
    Stops \in BOOLEAN /\ LateStreams \in BOOLEAN /\ Ids \subseteq Nat /\ Starts \subseteq Nat

VARIABLES head,       \* the log's revision
          compacted,  \* the compacted revision
          server,     \* how far GracefulStop has got
          stopping,   \* streams GracefulStop has still to clean up
          rpc,        \* the handler of each stream
          done,       \* whether the stream's context has ended
          requests,   \* the goroutine that handles the stream's requests
          next,       \* watchStream.nextWatchID
          watch,      \* the watchers of each stream, in order of creation
          active,     \* watchStream.watches: which of them are in the map
          out,        \* the responses sent on each stream
          errors

vars == <<head, compacted, server, stopping, rpc, done, requests, next, watch, active, out, errors>>

Idle == [step |-> "idle", id |-> 0, start |-> 0]
Ended == [Idle EXCEPT !.step = "ended"]

Init ==
    /\ head = 1 /\ compacted = 0 /\ server = "up" /\ stopping = {} /\ errors = 0
    /\ rpc = [s \in Streams |-> "none"] /\ done = [s \in Streams |-> FALSE]
    /\ requests = [s \in Streams |-> Idle] /\ next = [s \in Streams |-> 1]
    /\ watch = [s \in Streams |-> <<>>] /\ active = [s \in Streams |-> {}]
    /\ out = [s \in Streams |-> <<>>]

Response(id, kind, revision) == [id |-> id, kind |-> kind, revision |-> revision]

\* stream.Send: it fails once the handler has returned.
SentOn(s, responses) == [out EXCEPT ![s] = IF rpc[s] = "gone" THEN @ ELSE @ \o responses]

\* watcher.Close, which wakes Run.
ClosedWatch(w) ==
    [w EXCEPT !.closed = TRUE, !.run = IF @ = "asleep" THEN "check" ELSE @]
CloseAll(ws, which) == [n \in DOMAIN ws |-> IF n \in which THEN ClosedWatch(ws[n]) ELSE ws[n]]

-----------------------------------------------------------------------------
(* The log, as far as watches see it.                                      *)

Commit ==
    /\ head < MaxLog
    /\ head' = head + 1
    /\ watch' = [s \in Streams |-> [n \in DOMAIN watch[s] |->
                    IF watch[s][n].run = "asleep" THEN [watch[s][n] EXCEPT !.run = "check"]
                    ELSE watch[s][n]]]
    /\ UNCHANGED <<compacted, server, stopping, rpc, done, requests, next, active, out, errors>>

\* Positions of the watchers that hold a compaction back.
OpenPositions ==
    UNION {{watch[s][n].pos : n \in {m \in DOMAIN watch[s] : ~watch[s][m].closed}} : s \in Streams}

Compact ==
    /\ compacted < Min({head} \cup OpenPositions)
    /\ compacted' = Min({head} \cup OpenPositions)
    /\ UNCHANGED <<head, server, stopping, rpc, done, requests, next, watch, active, out, errors>>

-----------------------------------------------------------------------------
(* Watch, the RPC handler.                                                 *)

OpenStream(s) ==
    /\ rpc[s] = "none" /\ server \in {"up", "storage", "unlocked"} /\ (server # "up" => LateStreams)
    /\ rpc' = [rpc EXCEPT ![s] = "open"]
    /\ UNCHANGED <<head, compacted, server, stopping, done, requests, next, watch, active, out, errors>>

\* The client goes away, or the request goroutine has returned.
ContextEnds(s) ==
    /\ rpc[s] = "open" /\ ~done[s]
    /\ done' = [done EXCEPT ![s] = TRUE]
    /\ UNCHANGED <<head, compacted, server, stopping, rpc, requests, next, watch, active, out, errors>>

MuFree(s) == requests[s].step # "announce"

\* cleanup, under ws.mu.
Cleanup(s) ==
    /\ MuFree(s)
    /\ watch' = [watch EXCEPT ![s] = CloseAll(@, active[s])]
    /\ active' = [active EXCEPT ![s] = {}]

CleanUpStream(s) ==
    /\ rpc[s] = "open" /\ done[s] /\ Cleanup(s)
    /\ rpc' = [rpc EXCEPT ![s] = "cleaned"]
    /\ UNCHANGED <<head, compacted, server, stopping, done, requests, next, out, errors>>

\* The handler leaves watchStreams, under s.mu, and returns.
LeaveStreams(s) ==
    /\ rpc[s] = "cleaned" /\ server # "locked"
    /\ rpc' = [rpc EXCEPT ![s] = "gone"]
    /\ UNCHANGED <<head, compacted, server, stopping, done, requests, next, watch, active, out, errors>>

-----------------------------------------------------------------------------
(* handleRequests.  A request that was received is handled even if the      *)
(* stream ends meanwhile.                                                   *)

Creations(s) == {i \in DOMAIN out[s] : out[s][i].kind = "created"}

Receive(s, step, id, start) ==
    /\ rpc[s] \in {"open", "cleaned"} /\ requests[s].step = "idle"
    /\ step = "create" => Cardinality(Creations(s)) < MaxWatches
    /\ requests' = [requests EXCEPT ![s] = [step |-> step, id |-> id, start |-> start]]
    /\ UNCHANGED <<head, compacted, server, stopping, rpc, done, next, watch, active, out, errors>>

\* Recv fails once the client or the handler is gone; the goroutine ends and
\* cancels the context.
ReceiveFails(s) ==
    /\ rpc[s] # "none" /\ requests[s].step = "idle"
    /\ requests' = [requests EXCEPT ![s] = Ended]
    /\ done' = [done EXCEPT ![s] = TRUE]
    /\ UNCHANGED <<head, compacted, server, stopping, rpc, next, watch, active, out, errors>>

\* handleCreateRequest: the watch's ID, the storage's watcher, ...
ActiveIds(s) == {watch[s][n].id : n \in active[s]}
FreeId(s) == Min({id \in next[s]..next[s] + MaxWatches : id \notin ActiveIds(s)})
WatchId(s) == IF requests[s].id = 0 THEN FreeId(s) ELSE requests[s].id

NewWatch(id, start) ==
    [id |-> id, pos |-> IF start = 0 THEN head ELSE start - 1, closed |-> FALSE, run |-> "new"]

\* Run is started before the response is sent.
CreateWatch_RunsAtOnce(s) ==
    /\ requests[s].step = "create" /\ ~(requests[s].start \in 1..compacted)
    /\ requests[s].id \notin ActiveIds(s)
    /\ LET id == WatchId(s) IN
       /\ requests' = [requests EXCEPT ![s] = [@ EXCEPT !.step = "announce", !.id = id]]
       /\ next' = [next EXCEPT ![s] = IF requests[s].id = 0 THEN id + 1 ELSE @]
       /\ watch' = [watch EXCEPT ![s] =
                       Append(@, [NewWatch(id, requests[s].start) EXCEPT !.run = "check"])]
    /\ UNCHANGED <<head, compacted, server, stopping, rpc, done, active, out, errors>>

CreateWatch(s) ==
    /\ requests[s].step = "create"
    /\ LET id == WatchId(s)
           start == requests[s].start
           inUse == requests[s].id # 0 /\ requests[s].id \in ActiveIds(s)
           refused == start > 0 /\ start <= compacted
       IN /\ requests' = [requests EXCEPT ![s] =
                             IF inUse THEN Ended ELSE IF refused THEN Idle
                             ELSE [step |-> "announce", id |-> id, start |-> start]]
          /\ done' = [done EXCEPT ![s] = @ \/ inUse]
          /\ next' = [next EXCEPT ![s] = IF requests[s].id = 0 THEN id + 1 ELSE @]
          /\ watch' = [watch EXCEPT ![s] = IF inUse \/ refused THEN @ ELSE Append(@, NewWatch(id, start))]
          /\ out' = IF refused /\ ~inUse
                    THEN SentOn(s, <<Response(id, "created", 0), Response(id, "canceled", compacted)>>)
                    ELSE out
    /\ UNCHANGED <<head, compacted, server, stopping, rpc, active, errors>>

\* ... the response, the map and the Run goroutine, with ws.mu held until now.
CreateAnnounce(s) ==
    /\ requests[s].step = "announce"
    /\ LET n == Len(watch[s]) IN
       /\ out' = SentOn(s, <<Response(watch[s][n].id, "created", watch[s][n].pos)>>)
       /\ active' = [active EXCEPT ![s] = @ \cup {n}]
       /\ watch' = [watch EXCEPT ![s][n].run = "check"]
    /\ requests' = [requests EXCEPT ![s] = Idle]
    /\ UNCHANGED <<head, compacted, server, stopping, rpc, done, next, errors>>

\* handleCancelRequest.
CancelWatch(s) ==
    /\ requests[s].step = "cancel"
    /\ LET gone == {n \in active[s] : watch[s][n].id = requests[s].id} IN
       /\ watch' = [watch EXCEPT ![s] = CloseAll(@, gone)]
       /\ active' = [active EXCEPT ![s] = @ \ gone]
       /\ out' = IF gone = {} THEN out
                 ELSE SentOn(s, <<Response(requests[s].id, "canceled", head)>>)
    /\ requests' = [requests EXCEPT ![s] = Idle]
    /\ UNCHANGED <<head, compacted, server, stopping, rpc, done, next, errors>>

-----------------------------------------------------------------------------
(* Run, and what the server does when it returns an error.                 *)

RunCheck(s, n) ==
    /\ watch[s][n].run = "check" /\ head <= watch[s][n].pos
    /\ watch' = [watch EXCEPT ![s][n] =
                    IF done[s] THEN [@ EXCEPT !.run = "ended", !.closed = TRUE]
                    ELSE IF @.closed THEN [@ EXCEPT !.run = "ended"]
                    ELSE [@ EXCEPT !.run = "asleep"]]
    /\ UNCHANGED <<head, compacted, server, stopping, rpc, done, requests, next, active, out, errors>>

RunSend(s, n) ==
    /\ watch[s][n].run = "check" /\ head > watch[s][n].pos
    /\ out' = SentOn(s, <<Response(watch[s][n].id, "event", watch[s][n].pos + 1)>>)
    /\ watch' = [watch EXCEPT ![s][n] =
                    IF rpc[s] = "gone" THEN [@ EXCEPT !.run = "ended", !.closed = TRUE]
                    ELSE [@ EXCEPT !.pos = @ + 1]]
    /\ UNCHANGED <<head, compacted, server, stopping, rpc, done, requests, next, active, errors>>

\* The log cannot be read: Run returns the error, which is logged.
RunFails(s, n) ==
    /\ watch[s][n].run = "check" /\ head > watch[s][n].pos /\ errors < MaxReadErrors
    /\ errors' = errors + 1
    /\ watch' = [watch EXCEPT ![s][n] = [@ EXCEPT !.run = "ended", !.closed = TRUE]]
    /\ UNCHANGED <<head, compacted, server, stopping, rpc, done, requests, next, active, out>>

-----------------------------------------------------------------------------
(* GracefulStop.                                                           *)

\* storage.GracefulStop closes every watcher.
StopStorage ==
    /\ Stops /\ server = "up"
    /\ server' = "storage"
    /\ watch' = [s \in Streams |-> CloseAll(watch[s], DOMAIN watch[s])]
    /\ UNCHANGED <<head, compacted, stopping, rpc, done, requests, next, active, out, errors>>

InStreams == {s \in Streams : rpc[s] \in {"open", "cleaned"}}

StopLock ==
    /\ server = "storage"
    /\ server' = "locked" /\ stopping' = InStreams
    /\ UNCHANGED <<head, compacted, rpc, done, requests, next, watch, active, out, errors>>

\* cleanup(true), for one stream after the other; here without the cancel.
StopStream_NoCancel(s) ==
    /\ server = "locked" /\ s \in stopping /\ Cleanup(s)
    /\ stopping' = stopping \ {s}
    /\ UNCHANGED <<head, compacted, server, rpc, done, requests, next, out, errors>>

StopStream(s) ==
    /\ server = "locked" /\ s \in stopping /\ Cleanup(s)
    /\ stopping' = stopping \ {s}
    /\ done' = [done EXCEPT ![s] = TRUE]
    /\ UNCHANGED <<head, compacted, server, rpc, requests, next, out, errors>>

StopUnlock ==
    /\ server = "locked" /\ stopping = {}
    /\ server' = "unlocked"
    /\ UNCHANGED <<head, compacted, stopping, rpc, done, requests, next, watch, active, out, errors>>

\* grpc.GracefulStop refuses new streams and waits for the others.
StopDrain ==
    /\ server = "unlocked"
    /\ server' = "draining"
    /\ UNCHANGED <<head, compacted, stopping, rpc, done, requests, next, watch, active, out, errors>>

StopDone ==
    /\ server = "draining" /\ InStreams = {}
    /\ server' = "stopped"
    /\ UNCHANGED <<head, compacted, stopping, rpc, done, requests, next, watch, active, out, errors>>

StopStep == StopLock \/ StopUnlock \/ StopDrain \/ StopDone \/ \E s \in Streams : StopStream(s)
HandlerStep(s) == CleanUpStream(s) \/ LeaveStreams(s)
RequestStep(s) == CreateWatch(s) \/ CreateAnnounce(s) \/ CancelWatch(s)

Next ==
    \/ Commit \/ Compact \/ StopStorage \/ StopLock \/ StopUnlock \/ StopDrain \/ StopDone
    \/ \E s \in Streams :
           \/ OpenStream(s) \/ ContextEnds(s) \/ CleanUpStream(s) \/ LeaveStreams(s)
           \/ \E id \in Ids : \E start \in Starts : Receive(s, "create", id, start)
           \/ \E id \in 1..MaxWatches : Receive(s, "cancel", id, 0)
           \/ ReceiveFails(s) \/ CreateWatch(s) \/ CreateAnnounce(s) \/ CancelWatch(s)
           \/ StopStream(s)
           \/ \E n \in DOMAIN watch[s] : RunCheck(s, n) \/ RunSend(s, n) \/ RunFails(s, n)

Spec == Init /\ [][Next]_vars

\* Every goroutine's next step is taken in the end: each watch's Run, each
\* stream's handler and request goroutine, and GracefulStop once called.
FairSpec ==
    /\ Spec /\ WF_vars(StopStep)
    /\ \A s \in Streams :
           /\ WF_vars(HandlerStep(s)) /\ WF_vars(RequestStep(s))
           /\ \A n \in 1..MaxWatches :
                  WF_vars(n \in DOMAIN watch[s] /\ (RunCheck(s, n) \/ RunSend(s, n)))

-----------------------------------------------------------------------------
TypeOK ==
    /\ head \in 1..MaxLog /\ compacted \in 0..head
    /\ \A s \in Streams :
          /\ active[s] \subseteq DOMAIN watch[s]
          /\ \A m, n \in active[s] : watch[s][m].id = watch[s][n].id => m = n
          /\ \A n \in DOMAIN watch[s] : watch[s][n].run \in {"new", "check", "asleep", "ended"}
          /\ rpc[s] \in {"cleaned", "gone"} => done[s]

Of(s, id) == SelectSeq(out[s], LAMBDA r : r.id = id)

\* On a stream whose IDs the server chooses, the responses of each watch are
\* one Created, then every revision after its start, once and in order, with at
\* most one Canceled among them, however its creation, other watches, a cancel
\* and commits interleave.
EachWatchInOrder ==
    \A s \in Streams : \A n \in DOMAIN watch[s] :
        LET all == Of(s, watch[s][n].id)
            events == SelectSeq(all, LAMBDA r : r.kind = "event")
        IN /\ all # <<>> => Head(all).kind = "created"
           /\ Cardinality({i \in DOMAIN all : all[i].kind # "event"}) <= 2
           /\ \A i \in DOMAIN events : events[i].revision = Head(all).revision + i

\* "any changes after the requested revision": a client is sent no revision from
\* before the start of the watch it last created under that ID.
OnlyRequested ==
    \A s \in {t \in Streams : ~done[t]} : \A i, j \in DOMAIN out[s] :
        (/\ i < j /\ out[s][i].id = out[s][j].id
         /\ out[s][i].kind = "created" /\ out[s][j].kind = "event")
            => out[s][i].revision < out[s][j].revision

\* A watcher outlives its stream by a bounded time only: once the handler has
\* returned, all its watchers are closed and their Runs return, also those that
\* were being created.  An open watcher holds compaction back.
WatchersEnd ==
    \A s \in Streams :
        (rpc[s] = "gone") ~> (\A n \in DOMAIN watch[s] : watch[s][n].closed /\ watch[s][n].run = "ended")

\* "GracefulStop stops the gRPC server gracefully": it returns.
StopReturns == (server = "storage") ~> (server = "stopped")

\* "the server will query the change log for any changes after the requested
\* revision and stream them back": a client whose watch was created, and that
\* was told nothing else, is sent what is committed, or its stream ends.
CreatedIsServed ==
    \A s \in Streams : \A n \in 1..MaxWatches : \A r \in 1..MaxLog :
        (n \in active[s] /\ head >= r /\ r > watch[s][n].pos)
            ~> (done[s] \/ n \notin active[s] \/ watch[s][n].pos >= r)
==============================================================================
