-------------------------- MODULE BuildLockProofs --------------------------
(***************************************************************************)
(* For every set of callers: at most one build at a time, a lock file that *)
(* names the build that runs, and the step simulation of SerialBuilds.     *)
(***************************************************************************)
EXTENDS BuildLock, TLAPS

IInv == TypeOK /\ LockInv /\ NamesBuilder

LEMMA InitIInv == Init => IInv
BY NoOneAssumption
   DEF Init, IInv, TypeOK, LockInv, NamesBuilder, Waiting, Holding

\* One step per action; each is by a caller p, and q ranges over all callers.
LEMMA NextIInv == IInv /\ [Next]_vars => IInv'
<1> SUFFICES ASSUME IInv, [Next]_vars PROVE IInv'
  OBVIOUS
<1> USE NoOneAssumption
    DEF IInv, TypeOK, LockInv, NamesBuilder, Waiting, Holding, Goto
<1>1. ASSUME NEW p \in Procs, Enter(p) PROVE IInv'
  BY <1>1 DEF Enter
<1>2. ASSUME NEW p \in Procs, Expire(p) PROVE IInv'
  BY <1>2 DEF Expire
<1>3. ASSUME NEW p \in Procs, TryLock(p) PROVE IInv'
  BY <1>3 DEF TryLock, Free
<1>4. ASSUME NEW p \in Procs, CheckDeadline(p) PROVE IInv'
  BY <1>4 DEF CheckDeadline
<1>5. ASSUME NEW p \in Procs, Report(p) PROVE IInv'
  BY <1>5 DEF Report
<1>6. ASSUME NEW p \in Procs, Stamp(p) PROVE IInv'
  BY <1>6 DEF Stamp
<1>7. ASSUME NEW p \in Procs, StampFails(p) PROVE IInv'
  BY <1>7 DEF StampFails
<1>8. ASSUME NEW p \in Procs, Finish(p) PROVE IInv'
  BY <1>8 DEF Finish
<1>9. ASSUME NEW p \in Procs, Wipe(p) PROVE IInv'
  BY <1>9 DEF Wipe
<1>10. ASSUME NEW p \in Procs, Unlock(p) PROVE IInv'
  BY <1>10 DEF Unlock, Released
<1>11. ASSUME NEW p \in Procs, Kill(p) PROVE IInv'
  BY <1>11 DEF Kill
<1>12. CASE UNCHANGED vars
  BY <1>12 DEF vars
<1>13. QED
  BY <1>1, <1>2, <1>3, <1>4, <1>5, <1>6, <1>7, <1>8, <1>9, <1>10, <1>11, <1>12
     DEF Next, Step

LEMMA InductiveInvariant == Spec => []IInv
BY InitIInv, NextIInv, PTL DEF Spec

\* The variables keep their types.
THEOREM TypeCorrect == Spec => []TypeOK
<1>1. IInv => TypeOK
  BY DEF IInv
<1>2. QED
  BY <1>1, InductiveInvariant, PTL

\* The lock is held exactly by the caller past _try_lock, so it outlives
\* neither a build nor a process.
THEOREM LockHeldByHolder == Spec => []LockInv
<1>1. IInv => LockInv
  BY DEF IInv
<1>2. QED
  BY <1>1, InductiveInvariant, PTL

\* No two incremental builds of one cache directory overlap.
THEOREM NoOverlap == Spec => []MutualExclusion
<1>1. IInv => MutualExclusion
  BY DEF IInv, LockInv, Holding, MutualExclusion
<1>2. QED
  BY <1>1, InductiveInvariant, PTL

\* The lock file names the build that is running.
THEOREM LockFileNamesBuilder == Spec => []NamesBuilder
<1>1. IInv => NamesBuilder
  BY DEF IInv
<1>2. QED
  BY <1>1, InductiveInvariant, PTL

-----------------------------------------------------------------------------
(* Refinement.                                                             *)

\* Who Running is, given the lock invariant.
LEMMA RunningIs ==
    ASSUME IInv
    PROVE  /\ \A p \in Procs : pc[p] = "build" => Running = p
           /\ (\A p \in Procs : pc[p] # "build") => Running = NoOne
BY DEF IInv, LockInv, Holding, Running

LEMMA RunningStep ==
    ASSUME IInv, IInv', [Next]_vars
    PROVE  [Serial!Next]_Running
<1> DEFINE Building(p) == pc[p] = "build"
<1>1. \A p \in Procs : Building(p) => owner = p
  BY DEF IInv, LockInv, Holding
<1>2. \A p \in Procs : Building(p)' => owner' = p
  BY DEF IInv, LockInv, Holding
<1>3. /\ \A p \in Procs : Building(p) => Running = p
      /\ (\A p \in Procs : ~Building(p)) => Running = NoOne
  BY RunningIs
<1>4. /\ \A p \in Procs : Building(p)' => Running' = p
      /\ (\A p \in Procs : ~Building(p)') => Running' = NoOne
  BY DEF IInv, LockInv, Holding, Running
<1>5. ASSUME NEW p \in Procs, Stamp(p) PROVE Serial!Begin(p)
  <2>1. pc[p] = "stamp" /\ Building(p)'
    BY <1>5 DEF Stamp, Goto, IInv, TypeOK
  <2>2. owner = p
    BY <2>1 DEF IInv, LockInv, Holding
  <2>3. \A q \in Procs : ~Building(q)
    BY <1>1, <2>1, <2>2
  <2>4. QED
    BY <1>3, <1>4, <2>1, <2>3 DEF Serial!Begin
<1>6. ASSUME NEW p \in Procs, Finish(p) \/ Kill(p), Building(p) PROVE Serial!End(p)
  <2>1. \A q \in Procs : ~Building(q)'
    <3>1. \A q \in Procs : Building(q)' => Building(q) /\ q # p
      BY <1>6 DEF Finish, Kill, Goto, IInv, TypeOK
    <3>2. QED
      BY <1>1, <1>6, <3>1
  <2>2. QED
    BY <1>3, <1>4, <1>6, <2>1 DEF Serial!End
<1>7. ASSUME \A q \in Procs : Building(q)' <=> Building(q) PROVE UNCHANGED Running
  <2>1. CASE \E q \in Procs : Building(q)
    BY <1>3, <1>4, <1>7, <2>1
  <2>2. CASE \A q \in Procs : ~Building(q)
    BY <1>3, <1>4, <1>7, <2>2
  <2>3. QED
    BY <2>1, <2>2
<1>8. ASSUME NEW p \in Procs,
             \/ Enter(p) \/ Expire(p) \/ TryLock(p) \/ CheckDeadline(p)
             \/ Report(p) \/ StampFails(p) \/ Wipe(p) \/ Unlock(p)
             \/ Kill(p) /\ ~Building(p)
      PROVE  \A q \in Procs : Building(q)' <=> Building(q)
  BY <1>8 DEF Enter, Expire, TryLock, CheckDeadline, Report, StampFails, Wipe,
              Unlock, Kill, Goto, IInv, TypeOK
<1>9. CASE UNCHANGED vars
  <2>1. \A q \in Procs : Building(q)' <=> Building(q)
    BY <1>9 DEF vars
  <2>2. QED
    BY <1>7, <2>1
<1>10. ASSUME NEW p \in Procs, Finish(p) PROVE Building(p)
  BY <1>10 DEF Finish, Goto
<1>11. QED
  BY <1>5, <1>6, <1>7, <1>8, <1>9, <1>10 DEF Next, Step, Serial!Next

\* The builds under the lock are the serial builds of the abstract module.
THEOREM LockImplementsSerialBuilds == Spec => Serialised
<1>1. Init => Serial!Init
  BY DEF Init, Running, Serial!Init
<1>2. IInv /\ IInv' /\ [Next]_vars => [Serial!Next]_Running
  BY RunningStep
<1>3. QED
  BY <1>1, <1>2, InductiveInvariant, PTL DEF Spec, Serialised, Serial!Spec
=============================================================================
