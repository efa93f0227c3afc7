----------------------------- MODULE ParserPool -----------------------------
(***************************************************************************)
(* parse_files: worker threads parse the umbrella batches while the calling*)
(* thread hands the finished ones, in canonical order, to the sink that    *)
(* writes them.  A worker publishes its batch under stream_mutex and then  *)
(* waits on slot_consumed while too many batches are waiting; the caller   *)
(* waits on slot_ready for the batch it wants next.  A parse may throw     *)
(* (contained in its slot), the sink may throw, a thread may fail to start.*)
(*                                                                         *)
(* Everything done while holding stream_mutex is one step.  A condition    *)
(* variable is the set of its waiters: notify_one removes any one of them, *)
(* and a waiter may also leave for no reason.                              *)
(***************************************************************************)
EXTENDS Integers, Sequences, FiniteSets

CONSTANTS
    MaxJobs,  \* the most worker threads any call asks for
    Calls     \* the calls of parse_files: batches, threads asked for, a sink or not

ASSUME ParserPoolAssumption ==
    /\ MaxJobs \in Nat \ {0}
    /\ Calls \subseteq [batches : Nat \ {0}, jobs : 1..MaxJobs, sink : BOOLEAN]

Workers == 1..MaxJobs

VARIABLES
    call,        \* the call being made; it never changes
    next,        \* the atomic counter of the next unclaimed batch
    stop,        \* the flag set by stop_workers
    unaware,     \* the workers that may still read it as FALSE
    slot,        \* parts[b]: "empty", "writing", "part", "exception" or "taken"
    ready,       \* the batches published to the caller
    pending,     \* how many of them it has not taken yet
    wpc, hand,   \* each worker: where it is, the batch it claimed
    roomWaiters, \* the workers waiting on slot_consumed
    cpc, want,   \* the calling thread: where it is, the batch it wants
    launched,    \* the threads it has started
    failed,      \* whether it has an exception to rethrow
    delivered    \* what the sink has accepted

vars == <<call, next, stop, unaware, slot, ready, pending, wpc, hand, roomWaiters, cpc,
          want, launched, failed, delivered>>
shared == <<next, stop, unaware, slot, ready, pending, delivered>>
workers == <<wpc, hand, roomWaiters>>
caller == <<cpc, want, launched, failed>>

NumBatches == call.batches
Batches == 1..NumBatches
NoSink == ~call.sink
EffectiveJobs == IF call.jobs <= NumBatches THEN call.jobs ELSE NumBatches

\* The threads of this call; a single job runs on the calling thread.
Team == IF EffectiveJobs = 1 THEN {} ELSE 1..EffectiveJobs

MaxPending == 2 * EffectiveJobs

TypeOK ==
    /\ call \in Calls
    /\ next \in 1..(NumBatches + 1)
    /\ stop \in BOOLEAN
    /\ unaware \subseteq Team
    /\ slot \in [Batches -> {"empty", "writing", "part", "exception", "taken"}]
    /\ ready \subseteq Batches
    /\ pending \in 0..NumBatches
    /\ wpc \in [Workers -> {"unborn", "loop", "parse", "publish", "wait", "woken", "done"}]
    /\ hand \in [Workers -> Batches \union {0}]
    /\ roomWaiters \subseteq Workers
    /\ cpc \in {"launch", "await", "asleep", "notify", "sink", "stop", "wake",
                "join", "merge", "returned", "raised"}
    /\ want \in 1..(NumBatches + 1)
    /\ launched \subseteq Team
    /\ failed \in BOOLEAN
    /\ delivered \in Seq(Batches)

Init ==
    /\ call \in Calls
    /\ next = 1 /\ stop = FALSE /\ unaware = {}
    /\ slot = [b \in Batches |-> "empty"]
    /\ ready = {} /\ pending = 0
    /\ wpc = [w \in Workers |-> "unborn"]
    /\ hand = [w \in Workers |-> 0]
    /\ roomWaiters = {}
    /\ cpc = "launch" /\ want = 1
    /\ launched = {} /\ failed = FALSE
    /\ delivered = <<>>

-----------------------------------------------------------------------------
(* The workers.                                                            *)

Unclaimed == next <= NumBatches

\* stop is read without the mutex: until the worker next takes the mutex it may
\* read a stale FALSE.
GoesOn(w) == ~stop \/ w \in unaware

\* Mutant of Claim: the counter is not atomic, so an increment may be lost.
ClaimRacy(w) ==
    /\ wpc[w] = "loop" /\ GoesOn(w) /\ Unclaimed
    /\ next' \in {next, next + 1}
    /\ hand' = [hand EXCEPT ![w] = next]
    /\ slot' = [slot EXCEPT ![next] = "writing"]
    /\ wpc' = [wpc EXCEPT ![w] = "parse"]
    /\ UNCHANGED <<call, stop, unaware, ready, pending, roomWaiters, caller, delivered>>

\* next.fetch_add(1).
Claim(w) ==
    /\ wpc[w] = "loop" /\ GoesOn(w) /\ Unclaimed
    /\ next' = next + 1
    /\ hand' = [hand EXCEPT ![w] = next]
    /\ slot' = [slot EXCEPT ![next] = "writing"]
    /\ wpc' = [wpc EXCEPT ![w] = "parse"]
    /\ UNCHANGED <<call, stop, unaware, ready, pending, roomWaiters, caller, delivered>>

\* No batch is left, or stop was seen.
Quit(w) ==
    /\ wpc[w] = "loop" /\ (stop \/ ~Unclaimed)
    /\ wpc' = [wpc EXCEPT ![w] = "done"]
    /\ UNCHANGED <<call, shared, hand, roomWaiters, caller>>

\* parse_into_slot: an exception becomes a diagnostic in an otherwise empty part.
ParseIntoSlot(w) ==
    /\ wpc[w] = "parse"
    /\ \E result \in {"part", "exception"} :
          slot' = [slot EXCEPT ![hand[w]] = result]
    /\ wpc' = [wpc EXCEPT ![w] = IF NoSink THEN "loop" ELSE "publish"]
    /\ UNCHANGED <<call, next, stop, unaware, ready, pending, hand, roomWaiters, caller,
                   delivered>>

\* Mutants of RoomFor: the stop flag is not part of the predicate; no limit.
RoomOnly(n) == n < MaxPending
RoomAlways(n) == TRUE

\* The predicate of slot_consumed, for n pending batches.
RoomFor(n) == n < MaxPending \/ stop

\* slot_ready.notify_one: only the caller ever waits there.
WakeCaller == cpc' = IF cpc = "asleep" THEN "await" ELSE cpc

\* The batch is published unconditionally; only then does the worker wait.
Publish(w) ==
    /\ wpc[w] = "publish"
    /\ ready' = ready \union {hand[w]}
    /\ pending' = pending + 1
    /\ unaware' = unaware \ {w}
    /\ WakeCaller
    /\ IF RoomFor(pending')
       THEN wpc' = [wpc EXCEPT ![w] = "loop"] /\ UNCHANGED roomWaiters
       ELSE /\ wpc' = [wpc EXCEPT ![w] = "wait"]
            /\ roomWaiters' = roomWaiters \union {w}
    /\ UNCHANGED <<call, next, stop, slot, hand, want, launched, failed, delivered>>

\* A waiter wakes although nobody notified it.
SpuriousWake(w) ==
    /\ w \in roomWaiters
    /\ roomWaiters' = roomWaiters \ {w}
    /\ wpc' = [wpc EXCEPT ![w] = "woken"]
    /\ UNCHANGED <<call, shared, hand, caller>>

\* Back under the mutex, a woken worker looks at the predicate again.
Recheck(w) ==
    /\ wpc[w] = "woken"
    /\ unaware' = unaware \ {w}
    /\ IF RoomFor(pending)
       THEN wpc' = [wpc EXCEPT ![w] = "loop"] /\ UNCHANGED roomWaiters
       ELSE /\ wpc' = [wpc EXCEPT ![w] = "wait"]
            /\ roomWaiters' = roomWaiters \union {w}
    /\ UNCHANGED <<call, next, stop, slot, ready, pending, delivered, hand, caller>>

-----------------------------------------------------------------------------
(* The calling thread.                                                     *)

Goto(from, to) == cpc = from /\ cpc' = to

\* The next thread is started.
Launch ==
    /\ cpc = "launch"
    /\ \E w \in Team \ launched :
          /\ w = Cardinality(launched) + 1
          /\ launched' = launched \union {w}
          /\ wpc' = [wpc EXCEPT ![w] = "loop"]
    /\ UNCHANGED <<call, shared, hand, roomWaiters, cpc, want, failed>>

\* The operating system refuses one: stop the others, join them, rethrow.
LaunchFails ==
    /\ launched # Team
    /\ Goto("launch", "stop")
    /\ failed' = TRUE
    /\ UNCHANGED <<call, shared, workers, want, launched>>

\* All threads run.  Without a sink there is nothing to drain.
Launched ==
    /\ launched = Team
    /\ Goto("launch", IF NoSink /\ Team # {} THEN "join" ELSE "await")
    /\ UNCHANGED <<call, shared, workers, want, launched, failed>>

\* slot_ready.wait: the wanted batch is not there yet.
Sleep ==
    /\ Team # {} /\ want \in Batches \ ready
    /\ Goto("await", "asleep")
    /\ UNCHANGED <<call, shared, workers, want, launched, failed>>

\* The wanted batch is moved out of its slot.
Take ==
    /\ Team # {} /\ want \in ready
    /\ Goto("await", "notify")
    /\ slot' = [slot EXCEPT ![want] = "taken"]
    /\ pending' = pending - 1
    /\ UNCHANGED <<call, next, stop, unaware, ready, delivered, workers, want, launched, failed>>

\* slot_consumed.notify_one, after the mutex is released.
NotifyOne ==
    /\ Goto("notify", "sink")
    /\ \/ /\ roomWaiters = {}
          /\ UNCHANGED <<wpc, roomWaiters>>
       \/ \E w \in roomWaiters :
             /\ roomWaiters' = roomWaiters \ {w}
             /\ wpc' = [wpc EXCEPT ![w] = "woken"]
    /\ UNCHANGED <<call, shared, hand, want, launched, failed>>

\* With one job the caller parses the batches itself; the sink, if there is
\* one, gets each batch before the next one is parsed.
ParseInline ==
    /\ Team = {} /\ want \in Batches
    /\ IF NoSink THEN want' = want + 1 /\ cpc' = cpc /\ cpc = "await"
                 ELSE Goto("await", "sink") /\ UNCHANGED want
    /\ \E result \in {"part", "exception"} :
          slot' = [slot EXCEPT ![want] = IF NoSink THEN result ELSE "taken"]
    /\ UNCHANGED <<call, next, stop, unaware, ready, pending, delivered, workers, launched, failed>>

\* part_sink accepts the batch.
Consume ==
    /\ Goto("sink", "await")
    /\ delivered' = Append(delivered, want)
    /\ want' = want + 1
    /\ UNCHANGED <<call, next, stop, unaware, slot, ready, pending, workers, launched, failed>>

\* part_sink throws.
SinkFails ==
    /\ ~NoSink
    /\ Goto("sink", "stop")
    /\ failed' = TRUE
    /\ UNCHANGED <<call, shared, workers, want, launched>>

\* stop_workers: the flag is set under the mutex ...
SetStop ==
    /\ Goto("stop", "wake")
    /\ stop' = TRUE
    /\ unaware' = Team
    /\ UNCHANGED <<call, next, slot, ready, pending, delivered, workers, want, launched, failed>>

\* ... and every waiter is notified.
NotifyAll ==
    /\ Goto("wake", "join")
    /\ roomWaiters' = {}
    /\ wpc' = [w \in Workers |-> IF w \in roomWaiters THEN "woken" ELSE wpc[w]]
    /\ UNCHANGED <<call, shared, hand, want, launched, failed>>

\* Mutant of Exhausted: one short.
ExhaustedEarly == want >= NumBatches

Exhausted == want > NumBatches

\* The consumption loop is done.
Drained ==
    /\ Exhausted
    /\ Goto("await", "join")
    /\ want' = IF NoSink THEN 1 ELSE want
    /\ UNCHANGED <<call, shared, workers, launched, failed>>

\* Mutant of Joined: nobody waits for the threads.
JoinedNone == TRUE

Joined == \A w \in launched : wpc[w] = "done"

\* The threads are joined; then an exception is rethrown.
Join ==
    /\ Joined
    /\ Goto("join", IF failed THEN "raised" ELSE IF NoSink THEN "merge" ELSE "returned")
    /\ UNCHANGED <<call, shared, workers, want, launched, failed>>

\* Mutant of MergeNext: the last part is left out.
MergeAllButLast == IF want < NumBatches THEN "merge" ELSE "returned"

MergeNext == IF want <= NumBatches THEN "merge" ELSE "returned"

\* Without a sink the parts are merged now, in canonical order.
Merge ==
    /\ Goto("merge", MergeNext)
    /\ IF cpc' = "merge"
       THEN delivered' = Append(delivered, want) /\ want' = want + 1
       ELSE UNCHANGED <<delivered, want>>
    /\ UNCHANGED <<call, next, stop, unaware, slot, ready, pending, workers, launched, failed>>

-----------------------------------------------------------------------------
WorkerStep(w) ==
    Claim(w) \/ Quit(w) \/ ParseIntoSlot(w) \/ Publish(w) \/ Recheck(w)

CallerStep ==
    \/ Launch \/ LaunchFails \/ Launched
    \/ Sleep \/ Take \/ NotifyOne \/ ParseInline
    \/ Consume \/ SinkFails \/ Drained
    \/ SetStop \/ NotifyAll \/ Join \/ Merge

Next ==
    \/ CallerStep
    \/ \E w \in Workers : WorkerStep(w) \/ SpuriousWake(w)

Spec == Init /\ [][Next]_vars

\* The operating system schedules every thread.
FairSpec == Spec /\ WF_vars(CallerStep) /\ \A w \in Workers : WF_vars(WorkerStep(w))

-----------------------------------------------------------------------------
(* Properties.                                                             *)

\* The IR waiting to be written stays bounded, whatever the number of batches:
\* the limit, and one batch of every other worker that was still parsing when
\* it was reached ("a couple of batches rather than the whole project's IR").
BoundedBacklog == pending <= MaxPending + EffectiveJobs - 1

\* pending is what the predicate of slot_consumed takes it for, and no slot is
\* handed on while a worker still writes it or is overwritten once it is.
SlotsAreOwned ==
    /\ pending = Cardinality({b \in ready : slot[b] # "taken"})
    /\ \A b \in ready : slot[b] \in {"part", "exception", "taken"}
    /\ \A w \in Workers : wpc[w] \in {"parse", "publish"} =>
          /\ hand[w] \notin ready
          /\ \A v \in Workers \ {w} : wpc[v] \in {"parse", "publish"} => hand[v] # hand[w]

\* No thread outlives the call, even when an exception leaves it: the workers
\* use its stack frame.
NoThreadOutlives ==
    cpc \in {"merge", "returned", "raised"} =>
        \A w \in Workers : wpc[w] \in {"unborn", "done"}

\* parse_files implements BatchStream: each batch once, in canonical order, all
\* of them or an exception, and always an end ("what keeps this deadlock-free").
Stream == INSTANCE BatchStream
            WITH total <- NumBatches,
                 outcome <- IF cpc \in {"returned", "raised"} THEN cpc ELSE "running"
Streams == Stream!Spec
=============================================================================
