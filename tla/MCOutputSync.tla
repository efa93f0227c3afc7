---- MODULE MCOutputSync ----
(* Values for the runs of OutputSync. *)
EXTENDS OutputSync, TLC

CONSTANTS a, b, bundled, declared, custom

Row(c, x, e) == [core |-> c, extra |-> x, entry |-> e]

\* One page; two; the other page's extra fields, or index entry, changed.
Trees == {a :> Row(1, 1, 1) @@ b :> None,
          a :> Row(1, 1, 1) @@ b :> Row(1, 1, 1),
          a :> Row(1, 2, 1) @@ b :> Row(1, 1, 1),
          a :> Row(1, 1, 2) @@ b :> Row(1, 1, 1)}

\* The bundled templates; two overrides of which one declares itself; and, in
\* the runs that use it, a declared one.
Templates == [c \in Cfgs |-> IF c = bundled THEN {}
                             ELSE IF c = custom THEN {"declared", "undeclared"}
                             ELSE {"declared"}]

AnyOrder == Kinds \X Kinds
CachedFirst == {f \in AnyOrder : f[2] = "cached" => f[1] = "cached"}
=============================================================================
