-------------------------- MODULE ParserPoolProofs --------------------------
(***************************************************************************)
(* Theorems about parse_files, for any number of threads and batches: the  *)
(* threads own their slots, the backlog is bounded, none of them outlives  *)
(* the call, and what the sink gets is a BatchStream.                      *)
(***************************************************************************)
EXTENDS ParserPool, FiniteSetTheorems, TLAPS

(***************************************************************************)
(* The inductive invariant, in parts.                                      *)
(***************************************************************************)

\* TypeOK without the bounds of pending, which need BacklogInv.
Types ==
    /\ call \in Calls
    /\ next \in 1..(NumBatches + 1)
    /\ stop \in BOOLEAN
    /\ unaware \subseteq Team
    /\ slot \in [Batches -> {"empty", "writing", "part", "exception", "taken"}]
    /\ ready \subseteq Batches
    /\ wpc \in [Workers -> {"unborn", "loop", "parse", "publish", "wait", "woken", "done"}]
    /\ hand \in [Workers -> Batches \union {0}]
    /\ roomWaiters \subseteq Workers
    /\ cpc \in {"launch", "await", "asleep", "notify", "sink", "stop", "wake",
                "join", "merge", "returned", "raised"}
    /\ want \in 1..(NumBatches + 1)
    /\ launched \subseteq Team
    /\ failed \in BOOLEAN
    /\ delivered \in Seq(Batches)

Holds(w) == wpc[w] \in {"parse", "publish"}

\* Who was started, who waits, who holds which batch: a claimed one that nobody
\* else holds and that is not published.
WorkerInv ==
    /\ \A w \in Workers : wpc[w] = "unborn" <=> w \notin launched
    /\ roomWaiters = {w \in Workers : wpc[w] = "wait"}
    /\ \A w \in Workers : Holds(w) => /\ hand[w] \in Batches /\ hand[w] < next
                                      /\ hand[w] \notin ready
    /\ \A v, w \in Workers : Holds(v) /\ Holds(w) /\ v # w => hand[v] # hand[w]
    /\ \A w \in Workers : wpc[w] = "publish" => slot[hand[w]] \in {"part", "exception"}
    /\ \A b \in ready : b < next /\ slot[b] \in {"part", "exception", "taken"}
    /\ Team = {} => ready = {}

\* Where the calling thread may be, and what it has delivered there.
CallerInv ==
    /\ cpc = "launch" => want = 1
    /\ cpc \in {"asleep", "notify", "sink"} => want \in Batches /\ ~NoSink
    /\ cpc = "await" /\ NoSink => Team = {}
    /\ failed => cpc \in {"stop", "wake", "join", "raised"}
    /\ cpc \in {"stop", "wake", "raised"} => failed
    /\ cpc = "join" /\ ~failed => want = IF NoSink THEN 1 ELSE NumBatches + 1
    /\ \A k \in DOMAIN delivered : delivered[k] = k
    /\ Len(delivered) = IF NoSink /\ cpc \notin {"merge", "returned"} THEN 0 ELSE want - 1
    /\ cpc \in {"merge", "returned", "raised"} => Joined
    /\ stop => cpc \in {"wake", "join", "merge", "returned", "raised"}

\* The taken batches are those before the one that is wanted.
TakenInv ==
    Team # {} => \A b \in Batches : slot[b] = "taken" =>
        b <= want /\ (cpc \in {"launch", "await", "asleep"} => b < want)

PoolInv == Types /\ WorkerInv /\ CallerInv /\ TakenInv

\* The batches that pending counts.
Backlog == {b \in ready : slot[b] # "taken"}

LEMMA CallFacts ==
    ASSUME call \in Calls
    PROVE  /\ NumBatches \in Nat \ {0} /\ call.jobs \in Workers /\ call.sink \in BOOLEAN
           /\ EffectiveJobs \in 1..NumBatches /\ EffectiveJobs \in Workers
           /\ Team \subseteq Workers
           /\ MaxJobs \in Nat \ {0}
BY ParserPoolAssumption DEF NumBatches, Workers, EffectiveJobs, Team

LEMMA InitPool == Init => PoolInv
<1> SUFFICES ASSUME Init PROVE PoolInv  OBVIOUS
<1>1. call \in Calls  BY DEF Init
<1>2. NumBatches \in Nat \ {0} /\ MaxJobs \in Nat \ {0}  BY <1>1, CallFacts
<1>3. Types
  <2>1. slot \in [Batches -> {"empty", "writing", "part", "exception", "taken"}]
    BY DEF Init
  <2>2. wpc \in [Workers -> {"unborn", "loop", "parse", "publish", "wait", "woken", "done"}]
    BY DEF Init
  <2>3. hand \in [Workers -> Batches \union {0}]  BY DEF Init
  <2>4. next \in 1..(NumBatches + 1) /\ want \in 1..(NumBatches + 1)  BY <1>2 DEF Init
  <2>5. delivered \in Seq(Batches)  BY DEF Init
  <2> QED  BY <1>1, <2>1, <2>2, <2>3, <2>4, <2>5 DEF Init, Types
<1>4. WorkerInv  BY <1>2 DEF Init, WorkerInv, Holds
<1>5. CallerInv  BY <1>2 DEF Init, CallerInv
<1>6. TakenInv  BY <1>2 DEF Init, TakenInv
<1> QED  BY <1>3, <1>4, <1>5, <1>6 DEF PoolInv

LEMMA CallStays ==
    ASSUME call' = call
    PROVE  /\ NumBatches' = NumBatches /\ Batches' = Batches /\ NoSink' = NoSink
           /\ EffectiveJobs' = EffectiveJobs /\ Team' = Team /\ MaxPending' = MaxPending
BY DEF NumBatches, Batches, NoSink, EffectiveJobs, Team, MaxPending

-----------------------------------------------------------------------------
(* One lemma per action.                                                   *)

LEMMA ClaimKeeps ==
    ASSUME PoolInv, NEW w \in Workers, Claim(w)
    PROVE  PoolInv'
<1>1. NumBatches \in Nat \ {0} /\ Team \subseteq Workers  BY CallFacts DEF PoolInv, Types
<1>2. Types'
  BY <1>1, CallStays DEF PoolInv, Types, Claim, Unclaimed, caller, Batches
<1>3. WorkerInv'
  BY CallStays DEF PoolInv, Types, WorkerInv, Holds, Claim, Unclaimed, caller, Batches
<1>4. CallerInv'
  BY CallStays DEF PoolInv, CallerInv, Joined, Claim, caller, Batches
<1>5. TakenInv'
  BY CallStays DEF PoolInv, TakenInv, Claim, caller
<1> QED  BY <1>2, <1>3, <1>4, <1>5 DEF PoolInv

LEMMA QuitKeeps ==
    ASSUME PoolInv, NEW w \in Workers, Quit(w)
    PROVE  PoolInv'
<1>1. Types'
  BY CallStays DEF PoolInv, Types, Quit, shared, caller
<1>2. WorkerInv'
  BY CallStays DEF PoolInv, WorkerInv, Holds, Quit, shared, caller
<1>3. CallerInv'
  BY CallStays DEF PoolInv, CallerInv, Joined, Quit, shared, caller
<1>4. TakenInv'
  BY CallStays DEF PoolInv, TakenInv, Quit, shared, caller
<1> QED  BY <1>1, <1>2, <1>3, <1>4 DEF PoolInv

LEMMA ParseIntoSlotKeeps ==
    ASSUME PoolInv, NEW w \in Workers, ParseIntoSlot(w)
    PROVE  PoolInv'
<1>1. Types'
  BY CallStays DEF PoolInv, Types, ParseIntoSlot, caller
<1>2. WorkerInv'
  BY CallStays DEF PoolInv, Types, WorkerInv, Holds, ParseIntoSlot, caller, Batches
<1>3. CallerInv'
  BY CallStays DEF PoolInv, CallerInv, Joined, ParseIntoSlot, caller, Batches
<1>4. TakenInv'
  BY CallStays DEF PoolInv, TakenInv, ParseIntoSlot, caller
<1> QED  BY <1>1, <1>2, <1>3, <1>4 DEF PoolInv

LEMMA PublishKeeps ==
    ASSUME PoolInv, NEW w \in Workers, Publish(w)
    PROVE  PoolInv'
<1>1. call' = call  BY DEF Publish
<1>2. NumBatches \in Nat \ {0} /\ Team \subseteq Workers  BY CallFacts DEF PoolInv, Types
<1>3. Holds(w) /\ wpc[w] = "publish"  BY DEF Publish, Holds
<1>4. hand[w] \in Batches /\ hand[w] < next /\ slot[hand[w]] \in {"part", "exception"}
  BY <1>3 DEF PoolInv, WorkerInv
<1>5. \/ /\ wpc' = [wpc EXCEPT ![w] = "loop"] /\ roomWaiters' = roomWaiters
      \/ /\ wpc' = [wpc EXCEPT ![w] = "wait"] /\ roomWaiters' = roomWaiters \union {w}
  BY DEF Publish
<1>6. /\ ready' = ready \union {hand[w]} /\ unaware' = unaware \ {w}
      /\ cpc' \in {cpc, "await"} /\ (cpc' # cpc => cpc = "asleep")
      /\ UNCHANGED <<next, stop, slot, hand, want, launched, failed, delivered>>
  BY DEF Publish, WakeCaller
<1>7. Types'
  BY <1>1, <1>4, <1>5, <1>6, CallStays DEF PoolInv, Types
<1>8. WorkerInv'
  BY <1>1, <1>3, <1>5, <1>6, CallStays DEF PoolInv, Types, WorkerInv, Holds
<1>9. CallerInv'
  BY <1>1, <1>2, <1>3, <1>5, <1>6, CallStays DEF PoolInv, Types, CallerInv, Joined
<1>10. TakenInv'
  BY <1>1, <1>6, CallStays DEF PoolInv, TakenInv
<1> QED  BY <1>7, <1>8, <1>9, <1>10 DEF PoolInv

LEMMA SpuriousWakeKeeps ==
    ASSUME PoolInv, NEW w \in Workers, SpuriousWake(w)
    PROVE  PoolInv'
<1>1. Types'
  BY CallStays DEF PoolInv, Types, SpuriousWake, shared, caller
<1>2. WorkerInv'
  BY CallStays DEF PoolInv, Types, WorkerInv, Holds, SpuriousWake, shared, caller
<1>3. CallerInv'
  BY CallStays DEF PoolInv, WorkerInv, CallerInv, Joined, SpuriousWake, shared, caller
<1>4. TakenInv'
  BY CallStays DEF PoolInv, TakenInv, SpuriousWake, shared, caller
<1> QED  BY <1>1, <1>2, <1>3, <1>4 DEF PoolInv

LEMMA RecheckKeeps ==
    ASSUME PoolInv, NEW w \in Workers, Recheck(w)
    PROVE  PoolInv'
<1>1. NumBatches \in Nat \ {0} /\ Team \subseteq Workers  BY CallFacts DEF PoolInv, Types
<1>2. Types'
  BY CallStays DEF PoolInv, Types, Recheck, caller
<1>3. WorkerInv'
  BY CallStays DEF PoolInv, Types, WorkerInv, Holds, Recheck, caller
<1>4. CallerInv'
  BY <1>1, CallStays DEF PoolInv, Types, CallerInv, Joined, Recheck, caller
<1>5. TakenInv'
  BY CallStays DEF PoolInv, TakenInv, Recheck, caller
<1> QED  BY <1>2, <1>3, <1>4, <1>5 DEF PoolInv

LEMMA LaunchKeeps ==
    ASSUME PoolInv, Launch
    PROVE  PoolInv'
<1>1. Types'
  BY CallStays DEF PoolInv, Types, Launch, shared
<1>2. WorkerInv'
  BY CallStays DEF PoolInv, Types, WorkerInv, Holds, Launch, shared
<1>3. CallerInv'
  BY CallStays DEF PoolInv, CallerInv, Launch, shared
<1>4. TakenInv'
  BY CallStays DEF PoolInv, TakenInv, Launch, shared
<1> QED  BY <1>1, <1>2, <1>3, <1>4 DEF PoolInv

LEMMA LaunchFailsKeeps ==
    ASSUME PoolInv, LaunchFails
    PROVE  PoolInv'
<1>1. Types'
  BY CallStays DEF PoolInv, Types, LaunchFails, Goto, shared, workers
<1>2. WorkerInv'
  BY CallStays DEF PoolInv, WorkerInv, Holds, LaunchFails, shared, workers
<1>3. CallerInv'
  BY CallStays DEF PoolInv, CallerInv, LaunchFails, Goto, shared
<1>4. TakenInv'
  BY CallStays DEF PoolInv, TakenInv, LaunchFails, Goto, shared
<1> QED  BY <1>1, <1>2, <1>3, <1>4 DEF PoolInv

LEMMA LaunchedKeeps ==
    ASSUME PoolInv, Launched
    PROVE  PoolInv'
<1>1. Types'
  BY CallStays DEF PoolInv, Types, Launched, Goto, shared, workers
<1>2. WorkerInv'
  BY CallStays DEF PoolInv, WorkerInv, Holds, Launched, shared, workers
<1>3. CallerInv'
  BY CallStays DEF PoolInv, CallerInv, Launched, Goto, shared
<1>4. TakenInv'
  BY CallStays DEF PoolInv, TakenInv, Launched, Goto, shared
<1> QED  BY <1>1, <1>2, <1>3, <1>4 DEF PoolInv

LEMMA SleepKeeps ==
    ASSUME PoolInv, Sleep
    PROVE  PoolInv'
<1>1. Types'
  BY CallStays DEF PoolInv, Types, Sleep, Goto, shared, workers
<1>2. WorkerInv'
  BY CallStays DEF PoolInv, WorkerInv, Holds, Sleep, shared, workers
<1>3. CallerInv'
  BY CallStays DEF PoolInv, CallerInv, Sleep, Goto, shared
<1>4. TakenInv'
  BY CallStays DEF PoolInv, TakenInv, Sleep, Goto, shared
<1> QED  BY <1>1, <1>2, <1>3, <1>4 DEF PoolInv

LEMMA TakeKeeps ==
    ASSUME PoolInv, Take
    PROVE  PoolInv'
<1>1. Types'
  BY CallStays DEF PoolInv, Types, Take, Goto, workers
<1>2. WorkerInv'
  BY CallStays DEF PoolInv, WorkerInv, Holds, Take, workers, Batches
<1>3. CallerInv'
  BY CallStays DEF PoolInv, Types, CallerInv, Take, Goto, Batches
<1>4. TakenInv'
  BY CallStays DEF PoolInv, TakenInv, Take, Goto, Batches
<1> QED  BY <1>1, <1>2, <1>3, <1>4 DEF PoolInv

LEMMA NotifyOneKeeps ==
    ASSUME PoolInv, NotifyOne
    PROVE  PoolInv'
<1>1. Types'
  BY CallStays DEF PoolInv, Types, NotifyOne, Goto, shared
<1>2. WorkerInv'
  BY CallStays DEF PoolInv, Types, WorkerInv, Holds, NotifyOne, Goto, shared
<1>3. CallerInv'
  BY CallStays DEF PoolInv, CallerInv, NotifyOne, Goto, shared
<1>4. TakenInv'
  BY CallStays DEF PoolInv, TakenInv, NotifyOne, Goto, shared
<1> QED  BY <1>1, <1>2, <1>3, <1>4 DEF PoolInv

LEMMA ParseInlineKeeps ==
    ASSUME PoolInv, ParseInline
    PROVE  PoolInv'
<1>1. NumBatches \in Nat \ {0} /\ Team \subseteq Workers  BY CallFacts DEF PoolInv, Types
<1>2. Types'
  BY <1>1, CallStays DEF PoolInv, Types, ParseInline, Goto, workers, Batches
<1>3. WorkerInv'
  BY CallStays DEF PoolInv, Types, WorkerInv, Holds, ParseInline, workers
<1>4. CallerInv'
  BY CallStays DEF PoolInv, CallerInv, ParseInline, Goto, Batches
<1>5. TakenInv'
  BY CallStays DEF TakenInv, ParseInline
<1> QED  BY <1>2, <1>3, <1>4, <1>5 DEF PoolInv

LEMMA ConsumeKeeps ==
    ASSUME PoolInv, Consume
    PROVE  PoolInv'
<1>1. NumBatches \in Nat \ {0} /\ Team \subseteq Workers  BY CallFacts DEF PoolInv, Types
<1>2. Types'
  BY <1>1, CallStays DEF PoolInv, Types, Consume, Goto, workers, Batches, CallerInv
<1>3. WorkerInv'
  BY CallStays DEF PoolInv, WorkerInv, Holds, Consume, workers
<1>4. CallerInv'
  BY CallStays DEF PoolInv, Types, CallerInv, Consume, Goto
<1>5. TakenInv'
  BY CallStays DEF PoolInv, Types, TakenInv, Consume, Batches
<1> QED  BY <1>2, <1>3, <1>4, <1>5 DEF PoolInv

LEMMA SinkFailsKeeps ==
    ASSUME PoolInv, SinkFails
    PROVE  PoolInv'
<1>1. Types'
  BY CallStays DEF PoolInv, Types, SinkFails, Goto, shared, workers
<1>2. WorkerInv'
  BY CallStays DEF PoolInv, WorkerInv, Holds, SinkFails, shared, workers
<1>3. CallerInv'
  BY CallStays DEF PoolInv, CallerInv, SinkFails, Goto, shared
<1>4. TakenInv'
  BY CallStays DEF PoolInv, TakenInv, SinkFails, Goto, shared
<1> QED  BY <1>1, <1>2, <1>3, <1>4 DEF PoolInv

LEMMA SetStopKeeps ==
    ASSUME PoolInv, SetStop
    PROVE  PoolInv'
<1>1. Types'
  BY CallStays DEF PoolInv, Types, SetStop, Goto, workers
<1>2. WorkerInv'
  BY CallStays DEF PoolInv, WorkerInv, Holds, SetStop, workers
<1>3. CallerInv'
  BY CallStays DEF PoolInv, CallerInv, SetStop, Goto
<1>4. TakenInv'
  BY CallStays DEF PoolInv, TakenInv, SetStop, Goto
<1> QED  BY <1>1, <1>2, <1>3, <1>4 DEF PoolInv

LEMMA NotifyAllKeeps ==
    ASSUME PoolInv, NotifyAll
    PROVE  PoolInv'
<1>1. Types'
  BY CallStays DEF PoolInv, Types, NotifyAll, Goto, shared
<1>2. WorkerInv'
  BY CallStays DEF PoolInv, WorkerInv, Holds, NotifyAll, shared
<1>3. CallerInv'
  BY CallStays DEF PoolInv, CallerInv, NotifyAll, Goto, shared
<1>4. TakenInv'
  BY CallStays DEF PoolInv, TakenInv, NotifyAll, Goto, shared
<1> QED  BY <1>1, <1>2, <1>3, <1>4 DEF PoolInv

LEMMA DrainedKeeps ==
    ASSUME PoolInv, Drained
    PROVE  PoolInv'
<1>1. NumBatches \in Nat \ {0} /\ Team \subseteq Workers  BY CallFacts DEF PoolInv, Types
<1>2. Types'
  BY <1>1, CallStays DEF PoolInv, Types, Drained, Goto, shared, workers
<1>3. WorkerInv'
  BY CallStays DEF PoolInv, WorkerInv, Holds, Drained, shared, workers
<1>4. CallerInv'
  BY <1>1, CallStays DEF PoolInv, Types, CallerInv, Drained, Exhausted, Goto, shared
<1>5. TakenInv'
  BY CallStays DEF PoolInv, CallerInv, TakenInv, Drained, Goto, shared
<1> QED  BY <1>2, <1>3, <1>4, <1>5 DEF PoolInv

LEMMA JoinKeeps ==
    ASSUME PoolInv, Join
    PROVE  PoolInv'
<1>1. Types'
  BY CallStays DEF PoolInv, Types, Join, Goto, shared, workers
<1>2. WorkerInv'
  BY CallStays DEF PoolInv, WorkerInv, Holds, Join, shared, workers
<1>3. CallerInv'
  BY CallStays DEF PoolInv, CallerInv, Join, Joined, Goto, shared, workers
<1>4. TakenInv'
  BY CallStays DEF PoolInv, TakenInv, Join, Goto, shared
<1> QED  BY <1>1, <1>2, <1>3, <1>4 DEF PoolInv

LEMMA MergeKeeps ==
    ASSUME PoolInv, Merge
    PROVE  PoolInv'
<1>1. call' = call  BY DEF Merge
<1>2. NumBatches \in Nat \ {0} /\ Team \subseteq Workers  BY CallFacts DEF PoolInv, Types
<1>3. /\ cpc = "merge"
      /\ UNCHANGED <<next, stop, unaware, slot, ready, pending, workers, launched, failed>>
  BY DEF Merge, Goto
<1>4. /\ delivered \in Seq(Batches) /\ Len(delivered) = want - 1 /\ want \in 1..(NumBatches + 1)
      /\ \A k \in DOMAIN delivered : delivered[k] = k
  BY <1>3 DEF PoolInv, Types, CallerInv
<1>5. /\ delivered' \in Seq(Batches) /\ want' \in 1..(NumBatches + 1) /\ want' >= want
      /\ \A k \in DOMAIN delivered' : delivered'[k] = k
      /\ Len(delivered') = want' - 1
  <2>1. CASE want <= NumBatches
    <3>1. delivered' = Append(delivered, want) /\ want' = want + 1
      BY <2>1 DEF Merge, MergeNext, Goto
    <3>2. want \in Batches  BY <1>2, <1>4, <2>1 DEF Batches
    <3> QED  BY <1>2, <1>4, <3>1, <3>2 DEF Batches
  <2>2. CASE ~(want <= NumBatches)
    <3>1. UNCHANGED <<delivered, want>>  BY <2>2 DEF Merge, MergeNext, Goto
    <3> QED  BY <1>2, <1>4, <3>1
  <2> QED  BY <2>1, <2>2
<1>6. cpc' \in {"merge", "returned"} /\ ~failed /\ Joined'
  BY <1>3 DEF PoolInv, CallerInv, Joined, workers, Merge, MergeNext, Goto
<1>7. Types'
  BY <1>1, <1>3, <1>5, <1>6, CallStays DEF PoolInv, Types, workers
<1>8. WorkerInv'
  BY <1>1, <1>3, CallStays DEF PoolInv, WorkerInv, Holds, workers
<1>9. CallerInv'
  BY <1>3, <1>5, <1>6 DEF CallerInv
<1>10. TakenInv'
  BY <1>1, <1>3, <1>5, <1>6, CallStays DEF PoolInv, Types, TakenInv, Batches
<1> QED  BY <1>7, <1>8, <1>9, <1>10 DEF PoolInv

LEMMA NextPool == PoolInv /\ [Next]_vars => PoolInv'
<1> SUFFICES ASSUME PoolInv, [Next]_vars PROVE PoolInv'  OBVIOUS
<1>1. ASSUME NEW w \in Workers, WorkerStep(w) \/ SpuriousWake(w) PROVE PoolInv'
  BY <1>1, ClaimKeeps, QuitKeeps, ParseIntoSlotKeeps, PublishKeeps, RecheckKeeps,
     SpuriousWakeKeeps DEF WorkerStep
<1>2. CASE CallerStep
  BY <1>2, LaunchKeeps, LaunchFailsKeeps, LaunchedKeeps, SleepKeeps, TakeKeeps,
     NotifyOneKeeps, ParseInlineKeeps, ConsumeKeeps, SinkFailsKeeps, SetStopKeeps,
     NotifyAllKeeps, DrainedKeeps, JoinKeeps, MergeKeeps DEF CallerStep
<1>3. CASE UNCHANGED vars
  BY <1>3, CallStays
     DEF vars, PoolInv, Types, WorkerInv, CallerInv, TakenInv, Holds, Joined
<1> QED  BY <1>1, <1>2, <1>3 DEF Next

LEMMA PoolInvariant == Spec => []PoolInv
BY InitPool, NextPool, PTL DEF Spec

-----------------------------------------------------------------------------
(* The backlog.                                                            *)

\* The workers that may publish one more batch before they look at the limit.
Coming == {w \in Team : \/ wpc[w] \in {"unborn", "parse", "publish"}
                        \/ wpc[w] = "loop" /\ GoesOn(w)}

BacklogInv ==
    /\ pending = Cardinality(Backlog)
    /\ pending + Cardinality(Coming) <= MaxPending + EffectiveJobs - 1

LEMMA Counted ==
    ASSUME PoolInv
    PROVE  /\ IsFiniteSet(Backlog) /\ Cardinality(Backlog) \in 0..NumBatches
           /\ IsFiniteSet(Coming) /\ Cardinality(Coming) \in 0..EffectiveJobs
<1>1. NumBatches \in Nat \ {0} /\ EffectiveJobs \in Nat \ {0}
  BY CallFacts DEF PoolInv, Types
<1>2. IsFiniteSet(Batches) /\ Cardinality(Batches) = NumBatches
  BY <1>1, FS_Interval DEF Batches
<1>3. Backlog \subseteq Batches  BY DEF PoolInv, Types, Backlog
<1>4. IsFiniteSet(Backlog) /\ Cardinality(Backlog) \in 0..NumBatches
  BY <1>1, <1>2, <1>3, FS_Subset, FS_CardinalityType
<1>5. IsFiniteSet(1..EffectiveJobs) /\ Cardinality(1..EffectiveJobs) = EffectiveJobs
  BY <1>1, FS_Interval
<1>6. Coming \subseteq 1..EffectiveJobs  BY DEF Coming, Team
<1>7. IsFiniteSet(Coming) /\ Cardinality(Coming) \in 0..EffectiveJobs
  <2>1. IsFiniteSet(Coming) /\ Cardinality(Coming) <= Cardinality(1..EffectiveJobs)
    BY <1>5, <1>6, FS_Subset
  <2> QED  BY <1>1, <1>5, <2>1, FS_CardinalityType
<1> QED  BY <1>4, <1>7

LEMMA CountedNext ==
    ASSUME PoolInv, call' = call
    PROVE  Cardinality(Coming') \in 0..EffectiveJobs
<1>1. EffectiveJobs \in Nat \ {0}  BY CallFacts DEF PoolInv, Types
<1>2. IsFiniteSet(1..EffectiveJobs) /\ Cardinality(1..EffectiveJobs) = EffectiveJobs
  BY <1>1, FS_Interval
<1>3. Coming' \subseteq 1..EffectiveJobs  BY CallStays DEF Coming, Team
<1>4. IsFiniteSet(Coming') /\ Cardinality(Coming') <= Cardinality(1..EffectiveJobs)
  BY <1>2, <1>3, FS_Subset
<1> QED  BY <1>1, <1>2, <1>4, FS_CardinalityType

\* A step that publishes and takes nothing, and brings nobody nearer to it.
LEMMA CalmStep ==
    ASSUME PoolInv, PoolInv', BacklogInv, call' = call,
           pending' = pending, Backlog' = Backlog, Coming' \subseteq Coming
    PROVE  BacklogInv'
<1>1. Cardinality(Coming') <= Cardinality(Coming)  BY Counted, FS_Subset
<1>2. EffectiveJobs \in Nat /\ MaxPending \in Nat
  BY CallFacts DEF PoolInv, Types, MaxPending
<1>3. Cardinality(Coming) \in Nat /\ Cardinality(Coming)' \in Nat /\ Cardinality(Backlog) \in Nat
  <2>1. Cardinality(Coming') \in Nat  BY Counted, FS_Subset, FS_CardinalityType
  <2> QED  BY <2>1, Counted
<1> QED  BY <1>1, <1>2, <1>3, CallStays DEF BacklogInv

\* A worker publishes: one more waits, and either there is room yet, or this
\* worker will publish no other before it has looked.
LEMMA PublishCounts ==
    ASSUME PoolInv, PoolInv', BacklogInv, NEW w \in Workers, Publish(w)
    PROVE  BacklogInv'
<1>1. /\ call' = call /\ pending' = pending + 1 /\ ready' = ready \union {hand[w]}
      /\ slot' = slot /\ stop' = stop /\ unaware' = unaware \ {w}
      /\ wpc[w] = "publish"
  BY DEF Publish
<1>2. hand[w] \notin ready /\ slot[hand[w]] # "taken" /\ w \in Team
  BY <1>1 DEF PoolInv, WorkerInv, Types, Holds
<1>3. Backlog' = Backlog \union {hand[w]} /\ hand[w] \notin Backlog
  BY <1>1, <1>2 DEF Backlog
<1>4. Cardinality(Backlog') = Cardinality(Backlog) + 1
  BY <1>3, Counted, FS_AddElement
<1>5. w \in Coming  BY <1>1, <1>2 DEF Coming
<1>6. Cardinality(Coming \ {w}) = Cardinality(Coming) - 1
  BY <1>5, Counted, FS_RemoveElement
<1>7. /\ EffectiveJobs \in Nat /\ MaxPending \in Nat
      /\ Cardinality(Backlog) \in Nat /\ Cardinality(Coming) \in Nat
      /\ Cardinality(Coming') \in 0..EffectiveJobs
  <2>1. EffectiveJobs \in Nat /\ MaxPending \in Nat
    BY CallFacts DEF PoolInv, Types, MaxPending
  <2>2. Cardinality(Coming') \in 0..EffectiveJobs  BY <1>1, CountedNext
  <2> QED  BY <2>1, <2>2, Counted
<1>8. CASE pending' < MaxPending
  BY <1>1, <1>4, <1>7, <1>8, CallStays DEF BacklogInv
<1>9. CASE ~(pending' < MaxPending)
  <2>1. \/ wpc' = [wpc EXCEPT ![w] = "wait"]
        \/ stop /\ wpc' = [wpc EXCEPT ![w] = "loop"]
    BY <1>9 DEF Publish, RoomFor
  <2>2. Coming' \subseteq Coming \ {w}
    BY <1>1, <2>1, CallStays, CallFacts DEF Coming, GoesOn, PoolInv, Types
  <2>3. Cardinality(Coming') <= Cardinality(Coming) - 1
    BY <1>6, <2>2, Counted, FS_Subset, FS_RemoveElement
  <2> QED  BY <1>1, <1>4, <1>7, <2>3, CallStays DEF BacklogInv
<1> QED  BY <1>8, <1>9

\* A woken worker goes on only if there is room, or to its end.
LEMMA RecheckCounts ==
    ASSUME PoolInv, PoolInv', BacklogInv, NEW w \in Workers, Recheck(w)
    PROVE  BacklogInv'
<1>1. /\ call' = call /\ pending' = pending /\ ready' = ready /\ slot' = slot
      /\ stop' = stop /\ unaware' = unaware \ {w} /\ wpc[w] = "woken"
  BY DEF Recheck
<1>2. Backlog' = Backlog  BY <1>1 DEF Backlog
<1>3. CASE pending < MaxPending
  <2>1. Cardinality(Coming') \in 0..EffectiveJobs  BY <1>1, CountedNext
  <2>2. EffectiveJobs \in Nat /\ MaxPending \in Nat /\ Cardinality(Backlog) \in Nat
    BY CallFacts, Counted DEF PoolInv, Types, MaxPending
  <2> QED  BY <1>1, <1>2, <1>3, <2>1, <2>2, CallStays DEF BacklogInv
<1>4. CASE ~(pending < MaxPending)
  <2>1. \/ wpc' = [wpc EXCEPT ![w] = "wait"]
        \/ stop /\ wpc' = [wpc EXCEPT ![w] = "loop"]
    BY <1>4 DEF Recheck, RoomFor
  <2>2. Coming' \subseteq Coming
    BY <1>1, <2>1, CallStays, CallFacts DEF Coming, GoesOn, PoolInv, Types
  <2> QED  BY <1>1, <1>2, <2>2, CalmStep
<1> QED  BY <1>3, <1>4

\* The caller takes a batch that is there and not taken yet.
LEMMA TakeCounts ==
    ASSUME PoolInv, PoolInv', BacklogInv, Take
    PROVE  BacklogInv'
<1>1. /\ call' = call /\ pending' = pending - 1 /\ ready' = ready
      /\ slot' = [slot EXCEPT ![want] = "taken"]
      /\ UNCHANGED <<stop, unaware, wpc>>
      /\ want \in ready /\ Team # {} /\ cpc = "await"
  BY DEF Take, Goto, workers
<1>2. want \in Batches /\ slot[want] # "taken"
  BY <1>1 DEF PoolInv, Types, TakenInv, Batches
<1>3. Backlog' = Backlog \ {want} /\ want \in Backlog
  BY <1>1, <1>2 DEF Backlog, PoolInv, Types
<1>4. Cardinality(Backlog') = Cardinality(Backlog) - 1
  BY <1>3, Counted, FS_RemoveElement
<1>5. Coming' = Coming  BY <1>1, CallStays DEF Coming, GoesOn
<1>6. /\ EffectiveJobs \in Nat /\ MaxPending \in Nat
      /\ Cardinality(Backlog) \in Nat /\ Cardinality(Coming) \in Nat
  BY Counted, CallFacts DEF PoolInv, Types, MaxPending
<1> QED  BY <1>1, <1>4, <1>5, <1>6, CallStays DEF BacklogInv

LEMMA InitBacklog == Init => BacklogInv
<1> SUFFICES ASSUME Init PROVE BacklogInv  OBVIOUS
<1>1. Backlog = {} /\ pending = 0  BY DEF Init, Backlog
<1>2. Cardinality(Coming) \in 0..EffectiveJobs  BY InitPool, Counted
<1>3. EffectiveJobs \in Nat \ {0}  BY InitPool, CallFacts DEF PoolInv, Types
<1> QED  BY <1>1, <1>2, <1>3, FS_EmptySet DEF BacklogInv, MaxPending

LEMMA NextBacklog == PoolInv /\ PoolInv' /\ BacklogInv /\ [Next]_vars => BacklogInv'
<1> SUFFICES ASSUME PoolInv, PoolInv', BacklogInv, [Next]_vars PROVE BacklogInv'  OBVIOUS
<1>1. ASSUME NEW w \in Workers, Claim(w) PROVE BacklogInv'
  <2>1. call' = call /\ pending' = pending  BY <1>1 DEF Claim
  <2>2. Backlog' = Backlog  BY <1>1 DEF Claim, Backlog, PoolInv, Types, WorkerInv
  <2>3. Coming' \subseteq Coming
    BY <1>1, <2>1, CallStays DEF Claim, Coming, GoesOn, PoolInv, Types
  <2> QED  BY <2>1, <2>2, <2>3, CalmStep
<1>2. ASSUME NEW w \in Workers, Quit(w) PROVE BacklogInv'
  <2>1. call' = call /\ pending' = pending /\ Backlog' = Backlog
    BY <1>2 DEF Quit, shared, Backlog
  <2>2. Coming' \subseteq Coming
    BY <1>2, <2>1, CallStays DEF Quit, shared, Coming, GoesOn, PoolInv, Types
  <2> QED  BY <2>1, <2>2, CalmStep
<1>3. ASSUME NEW w \in Workers, ParseIntoSlot(w) PROVE BacklogInv'
  <2>1. call' = call /\ pending' = pending  BY <1>3 DEF ParseIntoSlot
  <2>2. Backlog' = Backlog
    BY <1>3 DEF ParseIntoSlot, Backlog, PoolInv, Types, WorkerInv, Holds
  <2>3. Coming' \subseteq Coming
    BY <1>3, <2>1, CallStays DEF ParseIntoSlot, Coming, GoesOn, PoolInv, Types
  <2> QED  BY <2>1, <2>2, <2>3, CalmStep
<1>4. ASSUME NEW w \in Workers, SpuriousWake(w) PROVE BacklogInv'
  <2>1. call' = call /\ pending' = pending /\ Backlog' = Backlog
    BY <1>4 DEF SpuriousWake, shared, Backlog
  <2>2. Coming' \subseteq Coming
    BY <1>4, <2>1, CallStays DEF SpuriousWake, shared, Coming, GoesOn, PoolInv, Types
  <2> QED  BY <2>1, <2>2, CalmStep
<1>5. CASE Launch
  <2>1. call' = call /\ pending' = pending /\ Backlog' = Backlog
    BY <1>5 DEF Launch, shared, Backlog
  <2>2. Coming' \subseteq Coming
    BY <1>5, <2>1, CallStays, CallFacts
       DEF Launch, shared, Coming, GoesOn, PoolInv, Types, WorkerInv
  <2> QED  BY <2>1, <2>2, CalmStep
<1>6. CASE NotifyOne \/ NotifyAll
  <2>1. call' = call /\ pending' = pending /\ Backlog' = Backlog
    BY <1>6 DEF NotifyOne, NotifyAll, shared, Backlog
  <2>2. Coming' \subseteq Coming
    BY <1>6, <2>1, CallStays, CallFacts
       DEF NotifyOne, NotifyAll, shared, Coming, GoesOn, PoolInv, Types, WorkerInv
  <2> QED  BY <2>1, <2>2, CalmStep
<1>7. CASE ParseInline
  <2>1. call' = call /\ pending' = pending /\ UNCHANGED <<ready, stop, unaware, wpc>> /\ Team = {}
    BY <1>7 DEF ParseInline, workers
  <2>2. Backlog' = Backlog  BY <2>1 DEF Backlog, PoolInv, WorkerInv
  <2>3. Coming' \subseteq Coming  BY <2>1, CallStays DEF Coming, GoesOn
  <2> QED  BY <2>1, <2>2, <2>3, CalmStep
<1>8. CASE SetStop
  <2>1. call' = call /\ pending' = pending /\ Backlog' = Backlog /\ ~stop /\ wpc' = wpc
    BY <1>8 DEF SetStop, Goto, Backlog, workers, PoolInv, CallerInv
  <2>2. Coming' \subseteq Coming  BY <2>1, CallStays DEF Coming, GoesOn
  <2> QED  BY <2>1, <2>2, CalmStep
<1>9. CASE \/ LaunchFails \/ Launched \/ Sleep \/ Consume \/ SinkFails
           \/ Drained \/ Join \/ Merge \/ UNCHANGED vars
  <2>1. UNCHANGED <<call, stop, unaware, slot, ready, pending, wpc>>
    BY <1>9 DEF LaunchFails, Launched, Sleep, Consume, SinkFails, Drained, Join, Merge,
                vars, shared, workers
  <2>2. Backlog' = Backlog  BY <2>1 DEF Backlog
  <2>3. Coming' \subseteq Coming  BY <2>1, CallStays DEF Coming, GoesOn
  <2> QED  BY <2>1, <2>2, <2>3, CalmStep
<1> QED
  BY <1>1, <1>2, <1>3, <1>4, <1>5, <1>6, <1>7, <1>8, <1>9, PublishCounts, RecheckCounts,
     TakeCounts DEF Next, WorkerStep, CallerStep

LEMMA Invariant == Spec => [](PoolInv /\ BacklogInv)
BY InitPool, NextPool, InitBacklog, NextBacklog, PTL DEF Spec

-----------------------------------------------------------------------------
(* Theorems.                                                               *)

\* The variables keep their types; pending never underflows its size_t.
THEOREM TypeCorrect == Spec => []TypeOK
<1>1. PoolInv /\ BacklogInv => TypeOK
  <2> SUFFICES ASSUME PoolInv, BacklogInv PROVE TypeOK  OBVIOUS
  <2>1. pending \in 0..NumBatches  BY Counted DEF BacklogInv
  <2> QED  BY <2>1 DEF PoolInv, Types, TypeOK
<1> QED  BY <1>1, Invariant, PTL

\* However slow the sink is, the parts that wait for it are at most the limit and
\* one for every other worker (BoundedBacklog).
THEOREM BacklogIsBounded == Spec => []BoundedBacklog
<1>1. PoolInv /\ BacklogInv => BoundedBacklog
  <2> SUFFICES ASSUME PoolInv, BacklogInv PROVE BoundedBacklog  OBVIOUS
  <2>1. /\ Cardinality(Coming) \in Nat /\ Cardinality(Backlog) \in Nat
        /\ EffectiveJobs \in Nat /\ MaxPending \in Nat
    BY Counted, CallFacts DEF PoolInv, Types, MaxPending
  <2> QED  BY <2>1 DEF BacklogInv, BoundedBacklog
<1> QED  BY <1>1, Invariant, PTL

\* No two threads use a slot at a time, and pending counts the parts that wait
\* (SlotsAreOwned).
THEOREM SlotsHaveOneOwner == Spec => []SlotsAreOwned
<1>1. PoolInv /\ BacklogInv => SlotsAreOwned
  BY DEF PoolInv, WorkerInv, Holds, BacklogInv, Backlog, SlotsAreOwned
<1> QED  BY <1>1, Invariant, PTL

\* The call does not end, normally or not, before its threads (NoThreadOutlives).
THEOREM ThreadsEndFirst == Spec => []NoThreadOutlives
<1>1. PoolInv => NoThreadOutlives
  BY DEF PoolInv, WorkerInv, CallerInv, Joined, NoThreadOutlives
<1> QED  BY <1>1, PoolInvariant, PTL

-----------------------------------------------------------------------------
(* Refinement: the safety part of Streams.                                 *)

LEMMA StreamStep ==
    ASSUME PoolInv, PoolInv', [Next]_vars
    PROVE  [Stream!Next]_(Stream!vars)
<1>1. NumBatches \in Nat \ {0}  BY CallFacts DEF PoolInv, Types
<1>2. CASE Consume
  <2>1. /\ cpc = "sink" /\ cpc' = "await" /\ call' = call
        /\ delivered' = Append(delivered, want)
    BY <1>2 DEF Consume, Goto
  <2>2. want \in 1..NumBatches /\ Len(delivered) = want - 1
    BY <2>1 DEF PoolInv, CallerInv, Batches
  <2>3. Len(delivered) + 1 = want /\ Len(delivered) < NumBatches  BY <1>1, <2>2
  <2> QED  BY <2>1, <2>3, CallStays DEF Stream!Next, Stream!Deliver
<1>3. CASE Merge
  <2>1. cpc = "merge" /\ call' = call /\ want \in 1..(NumBatches + 1) /\ Len(delivered) = want - 1
    BY <1>3 DEF Merge, Goto, PoolInv, Types, CallerInv
  <2>2. CASE want <= NumBatches
    <3>1. cpc' = "merge" /\ delivered' = Append(delivered, want)
      BY <1>3, <2>2 DEF Merge, MergeNext, Goto
    <3> QED  BY <1>1, <2>1, <2>2, <3>1, CallStays DEF Stream!Next, Stream!Deliver
  <2>3. CASE ~(want <= NumBatches)
    <3>1. cpc' = "returned" /\ delivered' = delivered
      BY <1>3, <2>3 DEF Merge, MergeNext, Goto
    <3> QED  BY <1>1, <2>1, <2>3, <3>1, CallStays DEF Stream!Next, Stream!Return
  <2> QED  BY <2>2, <2>3
<1>4. CASE Join
  <2>1. /\ cpc = "join" /\ call' = call /\ delivered' = delivered
        /\ cpc' = IF failed THEN "raised" ELSE IF NoSink THEN "merge" ELSE "returned"
    BY <1>4 DEF Join, Goto, shared
  <2>2. CASE failed
    BY <2>1, <2>2, CallStays DEF Stream!Next, Stream!Raise
  <2>3. CASE ~failed /\ NoSink
    BY <2>1, <2>3, CallStays DEF Stream!vars
  <2>4. CASE ~failed /\ ~NoSink
    <3>1. Len(delivered) = NumBatches
      BY <1>1, <2>1, <2>4 DEF PoolInv, CallerInv
    <3> QED  BY <2>1, <2>4, <3>1, CallStays DEF Stream!Next, Stream!Return
  <2> QED  BY <2>2, <2>3, <2>4
<1>5. ASSUME call' = call, delivered' = delivered, cpc' = cpc
      PROVE  UNCHANGED Stream!vars
  BY <1>5, CallStays DEF Stream!vars
<1>6. ASSUME call' = call, delivered' = delivered,
             cpc \notin {"returned", "raised"}, cpc' \notin {"returned", "raised"}
      PROVE  UNCHANGED Stream!vars
  BY <1>6, CallStays DEF Stream!vars
<1>7. ASSUME NEW w \in Workers, WorkerStep(w) \/ SpuriousWake(w)
      PROVE  UNCHANGED Stream!vars
  <2>1. call' = call /\ delivered' = delivered
    BY <1>7 DEF WorkerStep, Claim, Quit, ParseIntoSlot, Publish, Recheck, SpuriousWake, shared
  <2>2. cpc' = cpc \/ (cpc = "asleep" /\ cpc' = "await")
    BY <1>7 DEF WorkerStep, Claim, Quit, ParseIntoSlot, Publish, WakeCaller, Recheck,
                SpuriousWake, caller
  <2>3. CASE cpc' = cpc  BY <1>5, <2>1, <2>3
  <2>4. CASE cpc = "asleep" /\ cpc' = "await"  BY <1>6, <2>1, <2>4
  <2> QED  BY <2>2, <2>3, <2>4
<1>8. CASE \/ Launch \/ LaunchFails \/ Launched \/ Sleep \/ Take \/ NotifyOne \/ ParseInline
           \/ SinkFails \/ SetStop \/ NotifyAll \/ Drained
  <2>1. call' = call /\ delivered' = delivered
    BY <1>8 DEF Launch, LaunchFails, Launched, Sleep, Take, NotifyOne, ParseInline, SinkFails,
                SetStop, NotifyAll, Drained, shared
  <2>2. cpc \notin {"returned", "raised"} /\ cpc' \notin {"returned", "raised"}
    BY <1>8 DEF Launch, LaunchFails, Launched, Sleep, Take, NotifyOne, ParseInline, SinkFails,
                SetStop, NotifyAll, Drained, Goto
  <2> QED  BY <1>6, <2>1, <2>2
<1> QED  BY <1>2, <1>3, <1>4, <1>5, <1>7, <1>8 DEF Next, CallerStep, vars

\* The sink gets the batches once each and in canonical order, all of them before
\* the call returns; parse_files implements BatchStream but for its fairness.
THEOREM StreamsInOrder == Spec => Stream!Init /\ [][Stream!Next]_(Stream!vars)
<1>1. Init => Stream!Init
  <2> SUFFICES ASSUME Init PROVE Stream!Init  OBVIOUS
  <2>1. NumBatches \in Nat \ {0}  BY InitPool, CallFacts DEF PoolInv, Types
  <2> QED  BY <2>1 DEF Init, Stream!Init
<1>2. PoolInv /\ PoolInv' /\ [Next]_vars => [Stream!Next]_(Stream!vars)
  BY StreamStep
<1> QED  BY <1>1, <1>2, PoolInvariant, PTL DEF Spec
=============================================================================
