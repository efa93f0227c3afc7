---------------------------- MODULE SerialBuilds ----------------------------
(***************************************************************************)
(* What build_lock promises the rest of the pipeline: the incremental      *)
(* builds of one cache directory run one after the other.  A build that    *)
(* begins ends, or dies, before the next one begins.                       *)
(***************************************************************************)
CONSTANTS Procs, NoOne
VARIABLE running

Init == running = NoOne

Begin(p) == running = NoOne /\ running' = p
End(p) == running = p /\ running' = NoOne

Next == \E p \in Procs : Begin(p) \/ End(p)

Spec == Init /\ [][Next]_running
=============================================================================
