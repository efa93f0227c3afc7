------------------------------- MODULE Lists -------------------------------
(***************************************************************************)
(* The list comprehension with a condition, which the code filters by.     *)
(***************************************************************************)
EXTENDS Naturals, SequencesExt

\* The entries of s at the places I, in order.
Chosen(s, I) == FlattenSeq([i \in DOMAIN s |-> IF i \in I THEN <<s[i]>> ELSE <<>>])
=============================================================================
