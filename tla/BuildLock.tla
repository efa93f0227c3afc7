------------------------------ MODULE BuildLock ------------------------------
(***************************************************************************)
(* build_lock: the advisory lock an incremental build holds on its cache   *)
(* directory.  Each member of Procs is a caller of build() (a process, or  *)
(* a thread with its own descriptor of the lock file).  It polls for the   *)
(* lock until its deadline passes, writes its name into the lock file,     *)
(* builds, truncates the file and unlocks.  A process may be killed at any *)
(* moment: the operating system drops its lock, its name stays behind.     *)
(* The validation of the timeout precedes all of this and changes nothing. *)
(***************************************************************************)
CONSTANTS
    Procs,   \* the callers of build()
    NoOne    \* nobody: a free lock, an empty lock file ("an unknown process")

ASSUME NoOneAssumption == NoOne \notin Procs

VARIABLES
    owner,     \* who holds the operating system's lock on the file
    text,      \* whose pid the lock file's content names
    pc,        \* where each caller is
    expired    \* the callers whose deadline has passed

vars == <<owner, text, pc, expired>>

Waiting == {"try", "check", "report"}
Holding == {"stamp", "build", "wipe", "unlock"}

TypeOK ==
    /\ owner \in Procs \union {NoOne}
    /\ text \in Procs \union {NoOne}
    /\ pc \in [Procs -> {"out", "raise"} \union Waiting \union Holding]
    /\ expired \subseteq Procs

Init ==
    /\ owner = NoOne
    /\ text = NoOne
    /\ pc = [p \in Procs |-> "out"]
    /\ expired = {}

Goto(p, from, to) == pc[p] = from /\ pc' = [pc EXCEPT ![p] = to]

\* The lock file is opened (never truncated) and the deadline is set.
Enter(p) ==
    /\ Goto(p, "out", "try")
    /\ expired' = expired \ {p}
    /\ UNCHANGED <<owner, text>>

\* Time passes while p waits.
Expire(p) ==
    /\ pc[p] \in Waiting
    /\ expired' = expired \union {p}
    /\ UNCHANGED <<owner, text, pc>>

\* Mutant of Free: a lock file that names nobody is taken for a free lock.
FreeByText == text = NoOne

Free == owner = NoOne

\* _try_lock: LOCK_EX | LOCK_NB.
TryLock(p) ==
    /\ IF Free THEN Goto(p, "try", "stamp") /\ owner' = p
               ELSE Goto(p, "try", "check") /\ UNCHANGED owner
    /\ UNCHANGED <<text, expired>>

\* Mutant of CheckDeadline: the deadline is never looked at.
CheckNoDeadline(p) ==
    /\ Goto(p, "check", "try")
    /\ UNCHANGED <<owner, text, expired>>

\* The lock is taken: give up if the deadline passed, else sleep and try again.
CheckDeadline(p) ==
    /\ IF p \in expired THEN Goto(p, "check", "report")
                        ELSE Goto(p, "check", "try")
    /\ UNCHANGED <<owner, text, expired>>

\* _read_holder: the timeout error names whoever the file names at this moment.
Report(p) ==
    /\ Goto(p, "report", "raise")
    /\ UNCHANGED <<owner, text, expired>>

\* The new holder replaces the file's content by its own pid.
Stamp(p) ==
    /\ Goto(p, "stamp", "build")
    /\ text' = p
    /\ UNCHANGED <<owner, expired>>

\* Replacing the content fails, and the error leaves build_lock: the truncation
\* (the old name is still there), the write, or the fsync after it.
StampFails(p) ==
    /\ Goto(p, "stamp", "unlock")
    /\ text' \in {text, NoOne, p}
    /\ UNCHANGED <<owner, expired>>

\* The build returns or raises.
Finish(p) ==
    /\ Goto(p, "build", "wipe")
    /\ UNCHANGED <<owner, text, expired>>

\* Mutant of Wipe: the lock is let go first, the content goes afterwards.
WipeUnlocked(p) ==
    \/ /\ pc[p] = "wipe" /\ owner = p
       /\ owner' = NoOne
       /\ UNCHANGED <<text, pc, expired>>
    \/ /\ owner # p
       /\ Goto(p, "wipe", "unlock")
       /\ text' = NoOne
       /\ UNCHANGED <<owner, expired>>

\* The file is truncated while the lock is still held; an error is ignored.
Wipe(p) ==
    /\ Goto(p, "wipe", "unlock")
    /\ text' \in {NoOne, text}
    /\ UNCHANGED <<owner, expired>>

\* Mutant of Released: whoever unlocks frees the lock.
ReleasedByAnyone(p) == NoOne

\* Unlocking affects the lock only through the descriptor that took it.
Released(p) == IF owner = p THEN NoOne ELSE owner

\* The outermost finally: every caller passes here, the holder and the one
\* whose wait timed out.
Unlock(p) ==
    /\ pc[p] \in {"unlock", "raise"}
    /\ pc' = [pc EXCEPT ![p] = "out"]
    /\ owner' = Released(p)
    /\ UNCHANGED <<text, expired>>

\* p is killed; the lock goes with its descriptor.
Kill(p) ==
    /\ pc[p] # "out"
    /\ pc' = [pc EXCEPT ![p] = "out"]
    /\ owner' = IF owner = p THEN NoOne ELSE owner
    /\ UNCHANGED <<text, expired>>

\* What p does without outside help, once it has asked for the lock.
Step(p) ==
    \/ TryLock(p)
    \/ CheckDeadline(p)
    \/ Report(p)
    \/ Stamp(p)
    \/ StampFails(p)
    \/ Finish(p)
    \/ Wipe(p)
    \/ Unlock(p)

Next == \E p \in Procs : Step(p) \/ Enter(p) \/ Expire(p) \/ Kill(p)

Spec == Init /\ [][Next]_vars

\* Callers are scheduled, and time passes for the one that waits.
Fairness == \A p \in Procs : WF_vars(Step(p)) /\ WF_vars(Expire(p))

FairSpec == Spec /\ Fairness

-----------------------------------------------------------------------------
(* Properties.                                                             *)

\* Two builds of one cache directory never run at the same time
\* (docs/usage.md, "Concurrent builds").
MutualExclusion ==
    \A p, q \in Procs : pc[p] = "build" /\ pc[q] = "build" => p = q

\* The lock is held exactly by the one caller that is past _try_lock: a dead or
\* finished build never keeps the directory locked.
LockInv ==
    \A p \in Procs : pc[p] \in Holding <=> owner = p

\* While a build runs the lock file names it, whatever was left in the file by
\* an earlier holder, killed or not, and whatever the others do meanwhile.
NamesBuilder == \A p \in Procs : pc[p] = "build" => text = p

\* Nobody waits forever: a caller gets its turn, gives up, or is killed.
Answered ==
    \A p \in Procs : pc[p] \in Waiting ~> pc[p] \in {"build", "out"}

\* The builds are the abstract ones of SerialBuilds.
Running == IF \E p \in Procs : pc[p] = "build"
           THEN CHOOSE p \in Procs : pc[p] = "build" ELSE NoOne

Serial == INSTANCE SerialBuilds WITH running <- Running
Serialised == Serial!Spec
=============================================================================
