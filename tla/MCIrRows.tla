------------------------------ MODULE MCIrRows ------------------------------
(* Small source trees for the runs of IrRows: a namespace that two inputs  *)
(* reopen and the first documents, a function that moves, a group.         *)
EXTENDS IrRows

ThreeInputs == <<"a", "b", "c">>
FourFiles == {"a", "b", "c", "h"}
SameFlags(i) == 0

Says(text, in) == [text |-> text, groups |-> in]
Decl(def, sig, refs, comment) == [def |-> def, sig |-> sig, refs |-> refs, comment |-> comment]
Block(text, defining) == [group |-> "g", text |-> text, defining |-> defining]
File(decls, block, incs) == [decls |-> decls, block |-> block, incs |-> incs]
No == [u \in {} |-> None]
Fn == [u \in {"f"} |-> Decl(FALSE, 2, <<"ns">>, Says(3, <<"g">>))]
Ns(said) == [u \in {"ns"} |-> Decl(TRUE, 1, <<>>, said)]

\* The function is at home in a, in c or nowhere; a or c defines the group; b
\* also includes others; the inputs in by include h.
TreesWith(others) ==
    {LET H(f) == IF f \in by THEN {"h"} ELSE {} IN
     [f \in FourFiles |->
        CASE f = "a" -> File(Ns(said) @@ (IF home = "a" THEN Fn ELSE No),
                             IF at[1] = "a" THEN Block(at[2], TRUE) ELSE None, {})
          [] f = "b" -> File(Ns(None), Block(7, FALSE), others \union H("b"))
          [] f = "c" -> File(IF home = "c" THEN Fn ELSE No,
                             IF at[1] = "c" THEN Block(at[2], TRUE) ELSE None, H("c"))
          [] f = "h" -> File(No, old, {})] :
        home \in {"a", "c", None}, by \in {{"b", "c"}, {"b"}, {}}, old \in {None, Block(8, FALSE)},
        said \in {Says(1, <<>>), Says(2, <<"g">>)},
        at \in {<<"a", 5>>, <<"a", 6>>, <<"c", 5>>}}
SomeTrees == TreesWith({"a"})
LooseTrees == TreesWith({})
=============================================================================
