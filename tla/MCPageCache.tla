---- MODULE MCPageCache ----
(* Small source trees for the runs of PageCache. *)
EXTENDS PageCache

\* Name components: their collation, slugs and lower case.
Collation(x) ==
    CASE x = "<C&>" -> 0 [] x = "<C*>" -> 1 [] x = "<C>" -> 2 [] x = "<T>" -> 3 [] x = "<U>" -> 4
      [] x = "BUF" -> 5 [] x = "Base" -> 6 [] x = "Buf" -> 7 [] x = "Duo" -> 8
      [] x = "Index" -> 9 [] x = "at" -> 10 [] x = "go" -> 11 [] x = "group_g" -> 12
      [] x = "index" -> 13 [] x = "ns" -> 14 [] x = "one" -> 15
      [] x = "operator+" -> 16 [] x = "put" -> 17 [] x = "shade" -> 18
Words(x) ==
    CASE x \in {"<C>", "<C*>", "<C&>"} -> <<"C">>
      [] x = "<T>" -> <<"T">>
      [] x = "<U>" -> <<"U">>
      [] x = "group_g" -> <<"group", "g">>
      [] x = "group_h" -> <<"group", "h">>
      [] x = "operator+" -> <<"operator">>
      [] x = "util.h" -> <<"util", "h">>
      [] OTHER -> <<x>>
LowerCase(w) == IF w = "Index" THEN "index" ELSE w
Root == [slug |-> <<"index">>, tag |-> <<>>, pad |-> 0]

Symbols == <<"ns", "duoref", "duo", "duoptr", "plus", "alias", "low", "cap", "ggg", "go1", "go2",
             "buf", "at", "base", "put", "m1", "m2", "enum", "one", "var">>
TwoGroups == <<"g", "h">>
TwoFiles == <<"a/util.h", "b/util.h">>
UtilH(f) == "util.h"
GroupOf(g) == IF g = "g" THEN "group_g" ELSE "group_h"

Row0 == [kind |-> "record", parent |-> None, path |-> <<"Buf">>, spec |-> <<>>, sig |-> <<0, 1>>,
         comment |-> 1, relates |-> <<>>, refs |-> <<>>, file |-> "a/util.h", line |-> 1]
In(row, path, line) == [row EXCEPT !.path = path, !.line = line, !.parent = "ns"]
At(row, path, line) == [row EXCEPT !.path = path, !.line = line]
Bland(row) == [row EXCEPT !.comment = None]
OfKind(k) == [Row0 EXCEPT !.kind = k]

\* The IR with the symbols of the record f.
Tree(f, groups) ==
    [sym |-> f @@ [u \in ToSet(Symbols) |-> None], grp |-> groups]
NoGroups == [g |-> None, h |-> None]

Ns == At(OfKind("namespace"), <<"ns">>, 1)

\* Specializations whose slugs agree, an operator and a type, in a namespace.
Specialized ==
    {Tree([ns |-> n, duoref |-> o, duo |-> d, duoptr |-> p,
           plus |-> In(OfKind("function"), <<"ns", "operator+">>, 4),
           alias |-> In(OfKind("alias"), <<"ns", "shade">>, 5)], NoGroups) :
        n \in {Ns, Bland(Ns)},
        d \in {None, [In(Row0, <<"ns", "Duo">>, 2) EXCEPT !.spec = <<"<C>">>]},
        p \in {None, Bland([In(Row0, <<"ns", "Duo">>, 3) EXCEPT !.spec = <<"<C*>">>])},
        o \in {None, [In(Row0, <<"ns", "Duo">>, 2) EXCEPT !.spec = <<"<C&>">>]}}

\* Names that meet the root document, a group's page, or one another.
Group(title, parent, members) == [title |-> title, parent |-> parent, members |-> members]
Clashing ==
    {Tree([low |-> i, cap |-> j, ggg |-> k, go1 |-> o,
           go2 |-> At([OfKind("function") EXCEPT !.sig = <<0, 2>>], <<"go">>, 5)], gs) :
        i \in {None, At(Row0, <<"index">>, 1)},
        j \in {None, At(Row0, <<"Index">>, 2)},
        k \in {None, At(Row0, <<"group_g">>, 3)},
        o \in {None, At(OfKind("function"), <<"go">>, 4)},
        gs \in {NoGroups, [g |-> Group(1, None, <<"ggg", "go1">>),
                           h |-> Group(2, "g", <<"low">>)]}}

\* A class template, a member defined in another file, a base class that may be
\* missing, and a function that relates to the template.
Buf(s, x) == [In(Row0, <<"ns", "Buf">>, 2) EXCEPT
                 !.spec = <<x>>, !.sig = <<0, s>>, !.refs = <<[to |-> "base", spelling |-> "Base"]>>]
Member == [In(OfKind("function"), <<"ns", "Buf", "at">>, 3) EXCEPT
              !.parent = "buf", !.file = "b/util.h"]
Put == [At(OfKind("function"), <<"put">>, 4) EXCEPT !.relates = <<"Buf">>, !.file = "b/util.h"]
Spread ==
    {Tree([ns |-> n, buf |-> c, at |-> a, base |-> b, put |-> p], NoGroups) :
        n \in {Bland(Ns), [Bland(Ns) EXCEPT !.file = "b/util.h"]},
        c \in {Buf(1, "<T>"), Bland(Buf(2, "<U>"))},
        a \in {None, Member, Bland(Member)},
        b \in {None, At(Row0, <<"Base">>, 5)},
        p \in {None, Put}}

\* One macro in two files, an enum, and groups that list them.
Macro(f) == [At(OfKind("macro"), <<"BUF">>, 1) EXCEPT !.file = f]
One(s) == [At(OfKind("enumerator"), <<"one">>, 3) EXCEPT !.parent = "enum", !.sig = s]
Repeated ==
    {Tree([m1 |-> x, m2 |-> y, enum |-> At(OfKind("enum"), <<"shade">>, 2), one |-> e], gs) :
        x \in {None, Macro("a/util.h"), Bland(Macro("a/util.h"))},
        y \in {None, Bland(Macro("b/util.h"))},
        e \in {One(<<0, 1>>), One(<<0, 2>>)},
        gs \in {[g |-> Group(1, None, <<"m1">>), h |-> None],
                [g |-> Group(1, None, <<"m1">>), h |-> Group(2, "g", <<"enum">>)],
                [g |-> Group(2, "h", <<"m1">>), h |-> Group(1, None, <<"enum">>)]}}

\* A specialized variable template, one argument of which has two spellings.
Var(x) == [At(OfKind("variable"), <<"one">>, 5) EXCEPT !.spec = <<x>>]
Respelled == {Tree([var |-> Var(x)], NoGroups) : x \in {"<T>", "<U>"}}

Listed(S) == FoldSet(LAMBDA x, s : Append(s, x), <<>>, S)
SomeProjects == Each(<<Specialized, Clashing, Spread, Repeated, Respelled>>, Listed)
SomeModes ==
    Listed({m \in [by : {"symbol", "file", "class", "namespace"},
                   undocumented : BOOLEAN, wide : BOOLEAN] : m.wide => ~m.undocumented})

\* For one macro in two files, a page per file.
Duplicates == <<Listed(Repeated)>>
RespelledAlone == <<Listed(Respelled)>>
ByFile == <<[by |-> "file", undocumented |-> TRUE, wide |-> FALSE]>>
=============================================================================
