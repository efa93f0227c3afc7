---- MODULE MCDiagnostics ----
(* Two inputs that may include a header, each with something to report. *)
EXTENDS Diagnostics

TwoInputs == <<"a.h", "b.h">>
ThreeFiles == {"a.h", "b.h", "c.h"}
\* A header is fine or warns.  An input is alone, or with the header, or fails
\* to compile with the header.
SomeContents(f) == IF f = "c.h" THEN {"fine", "warns"} ELSE {"alone", "with", "fails"}
HeadersOf(c) == IF c \in {"with", "fails"} THEN {"c.h"} ELSE {}
SomeConfigs == {[log |-> FALSE, strict |-> FALSE], [log |-> TRUE, strict |-> FALSE],
                [log |-> FALSE, strict |-> TRUE]}

Diag(s, f, x, n) == [severity |-> s, file |-> f, text |-> x, notes |-> n]
Told(f, x) == <<f, x>>
\* Where a header is included from is in a note.
ProblemsIn(u, f, c) ==
    CASE c = "warns" -> <<Diag(2, f, Told(f, "warns"), <<u>>)>>
      [] c = "fails" -> <<Diag(2, f, Told(f, "warns"), <<>>), Diag(3, f, Told(f, "fails"), <<u>>)>>
      [] OTHER -> <<>>
Unlocated == <<Diag(2, "", <<"flags">>, <<>>)>>

\* What Picture rests on.
ASSUME PictureAssumption == Located /\ HeadersAgree
====
