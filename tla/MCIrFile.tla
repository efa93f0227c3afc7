---- MODULE MCIrFile ----
(* Where kills may strike. *)
EXTENDS IrFile

KillsAnywhere == {"direct", "sibling"} \X Phases
KillsThatHeal ==
    KillsAnywhere \ {<<"direct", "swept">>, <<"sibling", "committed">>,
                     <<"sibling", "checkpoint">>}
====
