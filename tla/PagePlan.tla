------------------------------ MODULE PagePlan ------------------------------
(***************************************************************************)
(* Which pages the generator plans for an IR, what each renders, and the   *)
(* stem (file name) each gets.                                             *)
(*                                                                         *)
(* A name is a path: the sequence of its components, a specialization's    *)
(* argument list being the last.  Its slug is the words its components     *)
(* leave once every other character has become an underscore (WordsOf), so *)
(* different names may share a slug; a file system that ignores case sees  *)
(* words in lower case (Lower).  A digest of a name is the name.           *)
(* Left out: truncation, which ends a long slug in such a digest, and the  *)
(* slug "global" of a name that leaves no word.                            *)
(***************************************************************************)
EXTENDS Naturals, FiniteSets, Lists

CONSTANTS
    RowOrder,   \* the symbols (USRs) an IR may have, in the order of their rows
    Groups,     \* the documentation groups there may be, in the order of their ids
    Files,      \* parsed files, in the order of their paths and of their rows
    BaseName(_),\* the last component of a file's path
    GroupName(_),\* "group_" and a group's id, a name that a symbol may have too
    Rank(_),    \* the collation of name components, as numbers
    WordsOf(_), \* the words of a component's slug
    Lower(_),   \* a word in lower case
    Operators,  \* the spellings that start with "operator"
    Reserved,   \* the stem of the root document
    None        \* no symbol, file, group or comment

(***************************************************************************)
(* An IR r has rows r.sym[u] and r.grp[g].  A symbol's row: kind (the      *)
(* kinds that planning treats alike are one), parent, path, spec (its      *)
(* argument list, <<>> or one component), sig (specifiers, then the rest   *)
(* of what the directive shows), comment, relates (the name a \relates     *)
(* gives, or None), refs, file, line.  A group's: title, parent, members.  *)
(* A mode m has by (group_by), undocumented and wide.                      *)
(***************************************************************************)
Usrs == ToSet(RowOrder)
KindNo == [namespace |-> 1, record |-> 2, function |-> 5, field |-> 9, variable |-> 10,
           enum |-> 11, enumerator |-> 12, alias |-> 14, macro |-> 18]

Present(r) == {u \in DOMAIN r.sym : r.sym[u] # None}
Kind(r, u) == r.sym[u].kind
Spelling(r, u) == Last(r.sym[u].path)
Documented(r, u) == r.sym[u].comment # None
Container(r, u) == Kind(r, u) \in {"namespace", "record"}
ChildrenOf(r, u) == {c \in Present(r) : r.sym[c].parent = u}

\* The entries of s of which Test holds.
Those(s, Test(_)) == Chosen(s, {i \in DOMAIN s : Test(s[i])})

\* Op of every entry of s.  (The concatenation has TLC evaluate them once.)
Each(s, Op(_)) == <<>> \o [i \in DOMAIN s |-> Op(s[i])]

-----------------------------------------------------------------------------
(* The store's queries.                                                    *)

Less(x, y) == \E i \in 1..Len(y) : /\ \A j \in 1..(i - 1) : j <= Len(x) /\ x[j] = y[j]
                                   /\ i > Len(x) \/ x[i] < y[i]

Ranks(path) == Each(path, LAMBDA c : Rank(c))

\* s sorted by its entries' keys, entries with equal keys left in their order.
Before(keys, i, j) == Less(keys[i], keys[j]) \/ (~Less(keys[j], keys[i]) /\ i < j)
PlaceOf(keys, i) == Cardinality({j \in DOMAIN keys : Before(keys, j, i)}) + 1
SortedBy(s, keys) == [k \in DOMAIN s |-> s[CHOOSE i \in DOMAIN s : PlaceOf(keys, i) = k]]
Sorted(s, Key(_)) == IF Len(s) < 2 THEN s ELSE <<>> \o SortedBy(s, Each(s, Key))

\* The rows of some symbols.
RowsOf(S) == Those(RowOrder, LAMBDA u : u \in S)
\* ORDER BY kind, line, qualified_name.
ByLine(r, S) ==
    Sorted(RowsOf(S), LAMBDA u : <<KindNo[Kind(r, u)], r.sym[u].line>> \o Ranks(r.sym[u].path))
\* ORDER BY kind, qualified_name.
ByName(r, S) == Sorted(RowsOf(S), LAMBDA u : <<KindNo[Kind(r, u)]>> \o Ranks(r.sym[u].path))

\* Where f is not None, a file's page is being planned or rendered.
InScope(r, u, f) == f = None \/ r.sym[u].file = f

HasDocumentedDescendant(r, u, f) ==
    LET below[s \in Present(r)] == \E c \in ChildrenOf(r, s) :
                                       InScope(r, c, f) /\ (Documented(r, c) \/ below[c])
    IN  below[u]

Visible(m, r, u, f) ==
    /\ InScope(r, u, f)
    /\ m.undocumented \/ Documented(r, u) \/ HasDocumentedDescendant(r, u, f)

Children(m, r, u, f) == ByLine(r, {c \in ChildrenOf(r, u) : Visible(m, r, c, f)})
Roots(m, r) == ByName(r, {u \in Present(r) : r.sym[u].parent = None /\ Visible(m, r, u, None)})

\* Mutant of FileRoots: only the roots of the whole database.
FileRootsGlobal(m, r, f) ==
    ByName(r, {u \in Present(r) : r.sym[u].parent = None /\ Visible(m, r, u, f)})

FileRoots(m, r, f) ==
    ByName(r, {u \in Present(r) : /\ Visible(m, r, u, f)
                                  /\ ~\E p \in Present(r) : /\ p = r.sym[u].parent
                                                            /\ r.sym[p].file = f})

\* ORDER BY title, id.
GroupsOf(r) == Sorted(Those(Groups, LAMBDA g : r.grp[g] # None),
                      LAMBDA g : <<r.grp[g].title>>)
Subgroups(r, g) == Those(GroupsOf(r), LAMBDA s : r.grp[s].parent = g)
GroupSymbols(r, g) == Those(r.grp[g].members, LAMBDA u : u \in Present(r))

-----------------------------------------------------------------------------
(* The pages of each grouping, in order.  A page's id says what it is for; *)
(* deep are the symbols it renders with all below them, shallow the        *)
(* namespace it heads; up is the namespace whose hub lists it, None if the *)
(* index does; entry is its caption there.                                 *)

Page(id, name, deep) == [id |-> id, name |-> name, deep |-> deep, shallow |-> <<>>,
                         file |-> None, up |-> None, entry |-> name]

PageName(r, u) ==
    IF Kind(r, u) = "record" THEN r.sym[u].path \o r.sym[u].spec ELSE r.sym[u].path

SymbolPage(r, u) == Page(<<"symbol", u>>, PageName(r, u), <<u>>)
SymbolPages(m, r) == Each(Roots(m, r), LAMBDA u : SymbolPage(r, u))

FilePage(m, r, f) ==
    [Page(<<"file", f>>, <<BaseName(f)>>, FileRoots(m, r, f)) EXCEPT !.file = f]
FilePages(m, r) ==
    Those(Each(Files, LAMBDA f : FilePage(m, r, f)), LAMBDA p : p.deep # <<>>)

\* Descends through namespaces; a record keeps all that is below it.
NamespacePage(m, r, u) ==
    LET leaves == Those(Children(m, r, u, None), LAMBDA c : ~Container(r, c))
        own == [Page(<<"namespace", u>>, r.sym[u].path, leaves) EXCEPT !.shallow = <<u>>]
    IN  IF leaves # <<>> \/ Documented(r, u) THEN <<own>> ELSE <<>>
Containers(m, r, u) == Those(Children(m, r, u, None), LAMBDA c : Container(r, c))
ClassPages(m, r) ==
    LET from[u \in Present(r)] ==
            IF Kind(r, u) # "namespace" THEN <<SymbolPage(r, u)>>
            ELSE NamespacePage(m, r, u)
                 \o FlattenSeq(Each(Containers(m, r, u), LAMBDA c : from[c]))
    IN  from

ScopePath(r, s) == IF s = None THEN <<>> ELSE r.sym[s].path
BySpelling(r, s) == Sorted(s, LAMBDA u : <<Rank(Spelling(r, u))>>)

\* _emit_lumped_page: one page for the members of a bucket, if there are any.
Lumped(r, s, suffix, members) ==
    LET listed == Sorted(members, LAMBDA u : <<Rank(Spelling(r, u))>> \o r.sym[u].sig)
    IN  IF members = <<>> THEN <<>>
        ELSE <<[Page(<<suffix, s>>, ScopePath(r, s) \o <<suffix>>, listed)
                    EXCEPT !.up = s, !.entry = <<suffix>>]>>

\* _emit_function_pages: one page per name, and one for the operators.
FunctionPages(r, s, functions) ==
    LET named == Those(functions, LAMBDA u : Spelling(r, u) \notin Operators)
        names == Sorted(SetToSeq({Spelling(r, u) : u \in ToSet(named)}), LAMBDA x : <<Rank(x)>>)
        Overloads(x) == Sorted(Those(named, LAMBDA u : Spelling(r, u) = x),
                               LAMBDA u : r.sym[u].sig)
        NamePage(x) == [Page(<<"overloads", s, x>>, r.sym[Overloads(x)[1]].path, Overloads(x))
                            EXCEPT !.up = s, !.entry = <<x>>]
    IN  Each(names, NamePage)
        \o Lumped(r, s, "operators",
                  Those(functions, LAMBDA u : Spelling(r, u) \in Operators))

\* Mutant of HubKept: an undocumented namespace is an empty shell.
HubKeptDocumented(r, ns, below) == Documented(r, ns)

HubKept(r, ns, below) == below # <<>> \/ Documented(r, ns)

\* The pages below a namespace, and then its hub.
HubPage(r, s, ns, below) ==
    below \o IF HubKept(r, ns, below)
             THEN <<[Page(<<"hub", ns>>, r.sym[ns].path, <<>>)
                         EXCEPT !.shallow = <<ns>>, !.up = s, !.entry = <<Spelling(r, ns)>>]>>
             ELSE <<>>

\* The pages of what is in a scope, its namespaces aside.
MemberPages(r, s, members) ==
    LET Of(kinds) == Those(members, LAMBDA u : Kind(r, u) \in kinds)
        RecordPage(u) == [SymbolPage(r, u) EXCEPT
                             !.up = s, !.entry = <<Spelling(r, u)>> \o r.sym[u].spec]
    IN  Each(BySpelling(r, Of({"record"})), RecordPage)
        \o FunctionPages(r, s, Of({"function"}))
        \o Lumped(r, s, "types", Of({"enum", "alias"}))
        \o Lumped(r, s, "constants", Of({"variable", "macro"}))
        \o Lumped(r, s, "other", Of({"field", "enumerator"}))

Members(m, r, s) == IF s = None THEN Roots(m, r) ELSE Children(m, r, s, None)
Namespaces(r, members) == BySpelling(r, Those(members, LAMBDA u : Kind(r, u) = "namespace"))
ScopePages(m, r) ==
    LET from[s \in Present(r) \union {None}] ==
            FlattenSeq(Each(Namespaces(r, Members(m, r, s)),
                            LAMBDA ns : HubPage(r, s, ns, from[ns])))
            \o MemberPages(r, s, Members(m, r, s))
    IN  from

GroupPages(r) ==
    Each(Those(GroupsOf(r), LAMBDA g : r.grp[g].parent = None)
             \o Those(GroupsOf(r), LAMBDA g : r.grp[g].parent # None),
         LAMBDA g : Page(<<"group", g>>, <<GroupName(g)>>, <<>>))

WalkPages(m, r) ==
    (CASE m.by = "symbol"    -> SymbolPages(m, r)
       [] m.by = "file"      -> FilePages(m, r)
       [] m.by = "class"     -> FlattenSeq(Each(Roots(m, r), LAMBDA u : ClassPages(m, r)[u]))
       [] m.by = "namespace" -> ScopePages(m, r)[None])
    \o GroupPages(r)

\* What is rendered below each symbol, in order.
Below(m, r, f) ==
    LET below[u \in Present(r)] ==
            IF Container(r, u)
            THEN FlattenSeq(Each(Children(m, r, u, f), LAMBDA c : <<c>> \o below[c])) ELSE <<>>
    IN  below

\* The symbols a page renders.
RenderedBy(m, r, p) ==
    LET below == Below(m, r, p.file)
    IN  p.shallow \o FlattenSeq(Each(p.deep, LAMBDA u : <<u>> \o below[u]))

-----------------------------------------------------------------------------
(* Stems.                                                                  *)

Stem(name, tag) == [slug |-> FlattenSeq(Each(name, LAMBDA c : WordsOf(c))), tag |-> tag, pad |-> 0]

\* Mutant of Fold: names that differ in case alone are different files.
FoldNot(stem) == stem

Fold(stem) == [stem EXCEPT !.slug = Each(stem.slug, LAMBDA w : Lower(w))]

\* The discovery pass of plan_pages: the slugs that several names ask for.
Contested(walk) ==
    LET asked == Each(walk, LAMBDA p : Fold(Stem(p.name, <<>>)))
    IN  {asked[i] : i \in {k \in DOMAIN walk : \E j \in DOMAIN walk :
                              asked[j] = asked[k] /\ walk[j].name # walk[k].name}}

\* Mutant of Wanted: the first page to ask for a contested stem keeps it.
WantedFirst(walk, contested, i) ==
    LET bare == Stem(walk[i].name, <<>>)
    IN  IF /\ Fold(bare) \in contested
           /\ \E j \in 1..(i - 1) : Fold(Stem(walk[j].name, <<>>)) = Fold(bare)
        THEN Stem(walk[i].name, <<walk[i].name>>) ELSE bare

\* A contested stem is settled with a digest of each name.
Wanted(walk, contested, i) ==
    LET bare == Stem(walk[i].name, <<>>)
    IN  IF Fold(bare) \in contested THEN Stem(walk[i].name, <<walk[i].name>>) ELSE bare

\* _unique_stem adds an underscore for every earlier page, or root document,
\* that has the stem.
WithStems(walk, wanted) ==
    LET seen == <<Fold(Reserved)>> \o Each(wanted, Fold)
        Padding(i) == Cardinality({j \in 1..i : seen[j] = seen[i + 1]})
    IN  <<>> \o [i \in DOMAIN walk |->
                    [page |-> walk[i], stem |-> [wanted[i] EXCEPT !.pad = Padding(i)]]]

\* plan_pages: the walk, each page with its stem.
Settled(walk, contested) ==
    WithStems(walk, <<>> \o [i \in DOMAIN walk |-> Wanted(walk, contested, i)])
Stemmed(walk) == Settled(walk, Contested(walk))
PlanPages(m, r) == Stemmed(WalkPages(m, r))
=============
