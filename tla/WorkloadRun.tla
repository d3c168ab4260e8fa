---------------------------- MODULE WorkloadRun ----------------------------
(***************************************************************************)
(* The phases of the load generator (pkg/workload/runner.go) on its pool of *)
(* workers (scheduler.go): Populate brings up the pods, then Steady runs    *)
(* its loops until the deadline, drains the pool and stops its watches.     *)
(*                                                                         *)
(* A job is the registration of a node or the churn of a pod slot, or, with *)
(* slot 0, any of the jobs that touch no pod (lease renewals, counts,       *)
(* compactions...).  A node has one slot here.  The operations of a job are *)
(* those of Executor; here each call works or fails.                        *)
(***************************************************************************)
EXTENDS Integers, Sequences, FiniteSets

CONSTANTS Workers,    \* the pool's workers
          Slots,      \* the pod slots, 1..n
          QueueCap,   \* the pool's queue, workers*4 in the code
          MaxJobs     \* bound on the jobs submitted

WorkloadRunAssumption == IsFiniteSet(Slots) /\ Slots = 1..Cardinality(Slots)

VARIABLES phase,      \* "populate" or "steady"
          main,       \* where the phase's function is
          done,       \* the context that bounds the scheduling is done
          closed,     \* the jobs channel is closed
          loop,       \* the loops that submit jobs
          queue, accepted, ran,  \* the jobs channel; the jobs sent and run
          worker,     \* what each worker is doing
          podGen,     \* the generation of each slot
          pods, births           \* the pods there are; the names given out

poolVars == <<closed, queue, accepted, ran>>
podVars == <<podGen, pods, births>>
vars == <<phase, main, done, loop, worker, poolVars, podVars>>

Loops == {"populate", "churn", "every"}
LoopsOf(p) == IF p = "populate" THEN {"populate"} ELSE {"churn", "every"}

Free == [pc |-> "free", job |-> 0, slot |-> 0, gen |-> 0]
Asleep == [pc |-> "sleep", next |-> 0]
Returned == [pc |-> "returned", next |-> 0]

-----------------------------------------------------------------------------
(* The loops: Populate's own, spread and every.                            *)

\* sleepUntil: Populate's loop does not sleep.
Sleep_IgnoresDone(l) ==
    /\ loop[l].pc = "sleep"
    /\ loop' = IF accepted < MaxJobs THEN [loop EXCEPT ![l].pc = "submit"] ELSE loop
    /\ UNCHANGED <<phase, main, done, worker, poolVars, podVars>>

Sleep(l) ==
    /\ loop[l].pc = "sleep"
    /\ IF done /\ l # "populate"
       THEN loop' = [loop EXCEPT ![l] = Returned]
       ELSE accepted < MaxJobs /\ loop' = [loop EXCEPT ![l].pc = "submit"]
    /\ UNCHANGED <<phase, main, done, worker, poolVars, podVars>>

\* After its last job Populate's loop ends; spread begins again.
After(l) ==
    CASE l = "every" -> Asleep
      [] l = "churn" -> [pc |-> "sleep", next |-> (loop[l].next % Cardinality(Slots)) + 1]
      [] OTHER       -> IF loop[l].next = Cardinality(Slots) THEN Returned
                        ELSE [pc |-> "sleep", next |-> loop[l].next + 1]

Send(l) ==
    /\ queue' = Append(queue, [job |-> accepted + 1, slot |-> loop[l].next])
    /\ accepted' = accepted + 1
    /\ loop' = [loop EXCEPT ![l] = After(l)]

\* submit: the job is queued, or the context is done.  With both possible the
\* select takes either.  Populate does not look at the answer for its first.
Submit(l) ==
    /\ loop[l].pc = "submit"
    /\ \/ Len(queue) < QueueCap /\ Send(l)
       \/ /\ done
          /\ loop' = [loop EXCEPT ![l] = IF l = "populate" /\ loop[l].next = 0
                                         THEN After(l) ELSE Returned]
          /\ UNCHANGED <<queue, accepted>>
    /\ UNCHANGED <<phase, main, done, worker, closed, ran, podVars>>

\* The phase's time is over, or the generator is interrupted.
Deadline ==
    /\ ~done /\ main # "returned"
    /\ done' = TRUE
    /\ UNCHANGED <<phase, main, loop, worker, poolVars, podVars>>

-----------------------------------------------------------------------------
(* The workers, and the jobs that they run.                                *)

\* registerNode starts the slot's pod, churnPod first stops the one there is.
FirstStep(slot) ==
    IF slot = 0 THEN "call" ELSE IF phase = "populate" THEN "start" ELSE "stop"

Take(w) ==
    /\ worker[w].pc = "free" /\ queue # <<>>
    /\ LET j == Head(queue)
       IN worker' = [worker EXCEPT ![w] =
             [pc |-> FirstStep(j.slot), job |-> j.job, slot |-> j.slot,
              gen |-> IF j.slot = 0 THEN 0 ELSE podGen[j.slot]]]
    /\ queue' = Tail(queue)
    /\ UNCHANGED <<phase, main, done, loop, closed, accepted, ran, podVars>>

JobDone(w) ==
    /\ worker' = [worker EXCEPT ![w] = Free]
    /\ ran' = ran \cup {worker[w].job}

Call(w) ==
    /\ worker[w].pc = "call"
    /\ JobDone(w)
    /\ UNCHANGED <<phase, main, done, loop, closed, queue, accepted, podVars>>

\* stopPod, which may fail and leave the pod.
StopPod(w) ==
    /\ worker[w].pc = "stop"
    /\ pods' \in {pods, pods \ {<<worker[w].slot, worker[w].gen>>}}
    /\ worker' = [worker EXCEPT ![w].pc = "store"]
    /\ UNCHANGED <<phase, main, done, loop, poolVars, podGen, births>>

\* churnPod stores the next generation.
StoreGen(w) ==
    /\ worker[w].pc = "store"
    /\ podGen' = [podGen EXCEPT ![worker[w].slot] = worker[w].gen + 1]
    /\ worker' = [worker EXCEPT ![w].pc = "start", ![w].gen = @ + 1]
    /\ UNCHANGED <<phase, main, done, loop, poolVars, pods, births>>

\* startPod: the create works unless the name is there, or fails; the end of
\* registerNode and of churnPod.
StartPod(w) ==
    /\ worker[w].pc = "start"
    /\ LET pod == <<worker[w].slot, worker[w].gen>> IN
       \/ pod \notin pods /\ pods' = pods \cup {pod} /\ births' = Append(births, pod)
       \/ UNCHANGED <<pods, births>>
    /\ JobDone(w)
    /\ UNCHANGED <<phase, main, done, loop, closed, queue, accepted, podGen>>

\* The channel is closed and empty: the worker's loop ends.
Exit(w) ==
    /\ worker[w].pc = "free" /\ queue = <<>> /\ closed
    /\ worker' = [worker EXCEPT ![w].pc = "exited"]
    /\ UNCHANGED <<phase, main, done, loop, poolVars, podVars>>

-----------------------------------------------------------------------------
(* Populate and Steady.                                                    *)

CloseJobs_Early ==
    /\ main = "loops"
    /\ \E l \in LoopsOf(phase) : loop[l].pc = "returned"
    /\ closed' = TRUE /\ main' = "drain"
    /\ UNCHANGED <<phase, done, loop, queue, accepted, ran, worker, podVars>>

\* loops.Wait, then the closing of the channel.
CloseJobs ==
    /\ main = "loops"
    /\ \A l \in LoopsOf(phase) : loop[l].pc = "returned"
    /\ closed' = TRUE /\ main' = "drain"
    /\ UNCHANGED <<phase, done, loop, queue, accepted, ran, worker, podVars>>

\* close waits for the workers.  Populate returns, with an error if it was
\* interrupted; otherwise Steady begins, with a pool of its own.  Steady goes
\* on to stop its watches.
Drained ==
    /\ main = "drain"
    /\ \A w \in Workers : worker[w].pc = "exited"
    /\ IF phase = "populate" /\ ~done
       THEN /\ phase' = "steady" /\ main' = "loops" /\ closed' = FALSE
            /\ worker' = [w \in Workers |-> Free]
            /\ loop' = [l \in Loops |-> IF l = "churn" THEN [Asleep EXCEPT !.next = 1]
                                        ELSE Asleep]
       ELSE /\ main' = IF phase = "populate" THEN "returned" ELSE "watches"
            /\ UNCHANGED <<phase, closed, worker, loop>>
    /\ UNCHANGED <<done, queue, accepted, ran, podVars>>

StopWatches ==
    /\ main = "watches"
    /\ main' = "returned"
    /\ UNCHANGED <<phase, done, loop, worker, poolVars, podVars>>

-----------------------------------------------------------------------------
Init ==
    /\ phase = "populate" /\ main = "loops" /\ done = FALSE /\ closed = FALSE
    /\ loop = [l \in Loops |-> Asleep]
    /\ queue = <<>> /\ accepted = 0 /\ ran = {}
    /\ worker = [w \in Workers |-> Free]
    /\ podGen = [s \in Slots |-> 0] /\ pods = {} /\ births = <<>>

LoopStep(l) == l \in LoopsOf(phase) /\ (Sleep(l) \/ Submit(l))

WorkerStep(w) ==
    Take(w) \/ Call(w) \/ StopPod(w) \/ StoreGen(w) \/ StartPod(w) \/ Exit(w)

MainStep == CloseJobs \/ Drained \/ StopWatches

Finished == main = "returned" /\ UNCHANGED vars

Next ==
    \/ \E l \in Loops : LoopStep(l)
    \/ \E w \in Workers : WorkerStep(w)
    \/ MainStep \/ Deadline \/ Finished

Spec == Init /\ [][Next]_vars

\* The goroutines run, and Steady's context has a deadline.
FairSpec ==
    /\ Spec
    /\ \A l \in Loops : WF_vars(LoopStep(l))
    /\ \A w \in Workers : WF_vars(WorkerStep(w))
    /\ WF_vars(MainStep)
    /\ WF_vars(phase = "steady" /\ Deadline)

-----------------------------------------------------------------------------
TypeOK ==
    /\ Len(queue) <= QueueCap /\ accepted \in 0..(MaxJobs + 1) /\ ran \subseteq 1..accepted
    /\ \A l \in Loops : loop[l].pc \in {"sleep", "submit", "returned"}
    /\ main \in {"loops", "drain", "watches", "returned"}

\* No loop sends on the closed channel, which would panic: the channel is
\* closed only once every loop of the phase has returned.
NoSendOnClosed ==
    closed => \A l \in LoopsOf(phase) : loop[l].pc = "returned"

\* "waits for in-flight ops, so the watches still see their events": when the
\* watches are stopped, and when the phase returns, every job that was accepted
\* has run to its end, none twice, whenever the deadline came.
RunsBeforeStop ==
    main \in {"watches", "returned"} => ran = 1..accepted /\ queue = <<>>

\* "incremented on every churn so that names are never reused" (podGen): no
\* name is given to two pods.
NamesNeverReused ==
    \A i, j \in 1..Len(births) : births[i] = births[j] => i = j

\* Once the deadline has come the run ends: full queues, blocked submits and
\* sleeping loops never keep a phase from returning.
RunReturns == <>(main = "returned")
=============================================================================
