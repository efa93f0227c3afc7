---------------------------- MODULE BatchStream ----------------------------
(***************************************************************************)
(* What parse_files promises its sink: the batches arrive once each, in    *)
(* canonical order, whatever the job count; the call returns after the     *)
(* last one, or an exception ends the stream early.  Either way it ends.   *)
(***************************************************************************)
EXTENDS Integers, Sequences

VARIABLES
    total,      \* the batches of this call
    delivered,  \* those the sink has accepted
    outcome

vars == <<total, delivered, outcome>>

Init == total \in Nat \ {0} /\ delivered = <<>> /\ outcome = "running"

Deliver ==
    /\ outcome = "running" /\ Len(delivered) < total
    /\ delivered' = Append(delivered, Len(delivered) + 1)
    /\ UNCHANGED <<total, outcome>>

Return ==
    /\ outcome = "running" /\ Len(delivered) = total
    /\ outcome' = "returned"
    /\ UNCHANGED <<total, delivered>>

Raise ==
    /\ outcome = "running"
    /\ outcome' = "raised"
    /\ UNCHANGED <<total, delivered>>

Next == Deliver \/ Return \/ Raise

Spec == Init /\ [][Next]_vars /\ WF_vars(Next)
=============================================================================
