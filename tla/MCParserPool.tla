---------------------------- MODULE MCParserPool ----------------------------
(* TLC values for ParserPool: a call for each shape the code distinguishes. *)
EXTENDS ParserPool

SomeCalls ==
    {[batches |-> 6, jobs |-> 2, sink |-> TRUE],   \* two more than the limit
     [batches |-> 2, jobs |-> 3, sink |-> TRUE],   \* more jobs than batches
     [batches |-> 3, jobs |-> 2, sink |-> FALSE],
     [batches |-> 3, jobs |-> 1, sink |-> TRUE],
     [batches |-> 3, jobs |-> 1, sink |-> FALSE],
     [batches |-> 1, jobs |-> 3, sink |-> TRUE]}
=============================================================================
