----------------------------- MODULE PageCache ------------------------------
(***************************************************************************)
(* The page cache: a build plans its pages, keys each by a fingerprint of  *)
(* what it reads from the IR, replays the text stored under that key and   *)
(* renders the others.  A build is one step (it holds the build lock);     *)
(* between two builds the IR may become any other IR of the project.  The  *)
(* render configuration, which the key covers as well, stays the same.     *)
(*                                                                         *)
(* A text is what its template read, in five parts: body; which            *)
(* declarations are degraded to code blocks because another symbol keeps   *)
(* the directive (repeats); the template heads of enclosing scopes         *)
(* (heads); the argument lists of what is no record (arguments); the       *)
(* captions in a hub's toctree (captions).  What a page alone determines   *)
(* (_register_declaration, the wording) follows from these.                *)
(***************************************************************************)
EXTENDS PagePlan

CONSTANTS
    Projects,   \* some projects: for each the IRs its source tree may have
    Modes       \* some configurations: grouping, undocumented, wide fingerprints

Row == [kind : DOMAIN KindNo, parent : Usrs \union {None}, path : Seq(STRING),
        spec : Seq(STRING), sig : Nat \X Nat, comment : Nat \union {None},
        relates : Seq(STRING), refs : Seq([to : Usrs, spelling : STRING]),
        file : ToSet(Files), line : Nat]
GroupRow == [title : Nat, parent : ToSet(Groups) \union {None}, members : Seq(Usrs)]

\* Parents form a forest: the visitor descends from a symbol to those below it,
\* into namespaces and records only (is_scope); an enum has its enumerators.
IrOK(r) ==
    /\ DOMAIN r.sym = Usrs
    /\ \A u \in Present(r) : /\ r.sym[u] \in Row /\ r.sym[u].path # <<>>
                             /\ r.sym[u].parent \in Present(r) \union {None}
                             /\ \A i \in DOMAIN r.sym[u].path : Rank(r.sym[u].path[i]) \in Nat
    /\ \A S \in SUBSET Present(r) :
           S # {} => \E u \in S : ChildrenOf(r, u) \intersect S = {}
    /\ \A u \in Present(r) : \A c \in ChildrenOf(r, u) :
           Container(r, u) \/ (Kind(r, u) = "enum" /\ Kind(r, c) = "enumerator")
    /\ \A g \in ToSet(Groups) : r.grp[g] \in GroupRow \union {None}

\* Two IRs of one project: a USR names its scopes, and what a record's row says
\* of its type (signature and type_repr, sig here) spells its argument list.
SameTree(r, s) ==
    \A u \in Present(r) \intersect Present(s) :
        /\ s.sym[u].path = r.sym[u].path /\ s.sym[u].parent = r.sym[u].parent
        /\ Kind(r, u) = "record" /\ Kind(s, u) = "record" /\ s.sym[u].sig = r.sym[u].sig
           => s.sym[u].spec = r.sym[u].spec

Irs == UNION {ToSet(Projects[t]) : t \in DOMAIN Projects}
ASSUME PagesAssumption ==
    /\ Modes \in Seq([by : {"symbol", "file", "class", "namespace"},
                      undocumented : BOOLEAN, wide : BOOLEAN])
    /\ Projects \in Seq(Seq(Irs)) /\ \A r \in Irs : IrOK(r)
    /\ \A t \in DOMAIN Projects : \A r, s \in ToSet(Projects[t]) : SameTree(r, s)
    /\ RowOrder \in Seq(Usrs) /\ Groups \in Seq(ToSet(Groups)) /\ Files \in Seq(ToSet(Files))
    /\ IsInjective(RowOrder) /\ IsInjective(Files)
    /\ None \notin Usrs \union ToSet(Files)
    /\ Reserved = [slug |-> Reserved.slug, tag |-> <<>>, pad |-> 0]

VARIABLES
    config,     \* the configuration, by its number
    project,    \* the project, by its number
    built,      \* the number of the IR of the last build, 0 before the first
    cache       \* page_cache: a key and a text per stem

vars == <<config, project, built, cache>>

-----------------------------------------------------------------------------
(* What the templates read.                                                *)

\* content_hash, and what the wide fingerprint adds.
Content(r, u) == LET s == r.sym[u] IN <<s.kind, s.path, s.sig, s.comment, s.relates>>
WideFields(r, u) == LET s == r.sym[u] IN <<Last(s.path), s.spec, s.parent, s.file, s.line>>

\* related: the functions whose \relates names u, qualified or not.
Related(m, r, u) ==
    LET Naming(name) ==
            Sorted(Those(RowOrder, LAMBDA v : /\ v \in Present(r) /\ v # u
                                              /\ r.sym[v].relates = name
                                              /\ m.undocumented \/ Documented(r, v)),
                   LAMBDA v : Ranks(r.sym[v].path))
        bare == <<Spelling(r, u)>>
    IN  Naming(r.sym[u].path) \o IF bare = r.sym[u].path THEN <<>> ELSE Naming(bare)

Enumerators(r, u) == ByLine(r, {e \in ChildrenOf(r, u) : Kind(r, e) = "enumerator"})

\* xref: a link to a symbol that is there, the written spelling otherwise.  The
\* base classes and friends of a record are links; an alias spells its target.
Xref(r, ref) == IF ref.to \in Present(r) THEN <<"link", r.sym[ref.to].path>>
                ELSE <<"code", ref.spelling>>
XrefOrSpelling(r, u, ref) ==
    IF Kind(r, u) = "record" THEN Xref(r, ref) ELSE <<"code", ref.spelling>>

\* What the template of u shows of the IR.
Shows(m, r, u) ==
    [row     |-> Content(r, u),
     wide    |-> IF m.wide THEN WideFields(r, u) ELSE <<>>,
     args    |-> IF Kind(r, u) = "record" THEN r.sym[u].spec ELSE <<>>,
     refs    |-> Each(r.sym[u].refs, LAMBDA ref : XrefOrSpelling(r, u, ref)),
     related |-> IF Kind(r, u) = "record"
                 THEN Each(Related(m, r, u), LAMBDA v : r.sym[v].path) ELSE <<>>,
     values  |-> IF Kind(r, u) = "enum"
                 THEN Each(Enumerators(r, u), LAMBDA e : Content(r, e)) ELSE <<>>]

\* _member_qualifier, enum_scope: the templates around u, innermost first.
Heads(r, u) ==
    LET Own(p) == IF r.sym[p].spec = <<>> THEN <<>> ELSE <<<<r.sym[p].sig, r.sym[p].spec>>>>
        around[s \in Present(r)] == LET p == r.sym[s].parent
                                    IN  IF p = None THEN <<>> ELSE Own(p) \o around[p]
    IN  around[u]

\* _declaration_identity: macros by name, functions by their directive without
\* leading specifiers.
Identity(r, u) ==
    CASE Kind(r, u) = "macro"    -> <<"macro", r.sym[u].path>>
      [] Kind(r, u) = "function" -> <<"function", r.sym[u].path, r.sym[u].sig[2], Heads(r, u)>>
      [] OTHER                   -> None

\* _is_repeat_declaration: of the symbols with one identity the first keeps its
\* directive, documented ones before others, then by file and line.
Canonical(r, id) ==
    Sorted(Those(RowOrder, LAMBDA v : v \in Present(r) /\ Identity(r, v) = id),
           LAMBDA v : <<IF Documented(r, v) THEN 0 ELSE 1,
                        SelectInSeq(Files, LAMBDA f : f = r.sym[v].file), r.sym[v].line>>)[1]
Repeat(r, u) == Identity(r, u) # None /\ Canonical(r, Identity(r, u)) # u

\* The pages a hub lists, and the stem of a group's page.
ListedBy(planned, p) == IF p.id[1] = "hub"
                        THEN Those(planned, LAMBDA q : q.page.up = p.id[2]) ELSE <<>>
GroupStem(planned, g) ==
    planned[SelectInSeq(planned, LAMBDA q : q.page.id = <<"group", g>>)].stem

GroupReads(r, planned, p) ==
    IF p.id[1] # "group" THEN <<>>
    ELSE LET g == p.id[2]
         IN  <<r.grp[g].title, Each(Subgroups(r, g), LAMBDA s : <<s, GroupStem(planned, s)>>)>>

Text(m, r, planned, p) ==
    LET usrs == RenderedBy(m, r, p)
        listed == ListedBy(planned, p)
    IN  [body      |-> [name  |-> p.name, file |-> p.file,
                        shows |-> Each(usrs, LAMBDA u : Shows(m, r, u)),
                        toc   |-> Each(listed, LAMBDA q : q.stem),
                        group |-> GroupReads(r, planned, p),
                        links |-> IF p.id[1] = "group"
                                  THEN Each(GroupSymbols(r, p.id[2]), LAMBDA u : r.sym[u].path)
                                  ELSE <<>>],
         repeats   |-> {u \in ToSet(usrs) : Repeat(r, u)},
         heads     |-> Each(usrs, LAMBDA u : Heads(r, u)),
         arguments |-> Each(usrs, LAMBDA u : r.sym[u].spec),
         captions  |-> Each(listed, LAMBDA q : q.page.entry)]

-----------------------------------------------------------------------------
(* page_fingerprint, as the list of its tokens.                            *)

\* Mutant of ReferenceTokens: the target's row does not ride along.
ReferenceTokensBare(r, u) == Each(r.sym[u].refs, LAMBDA ref : <<"R", u, ref>>)

ReferenceTokens(r, u) ==
    FlattenSeq(Each(r.sym[u].refs, LAMBDA ref : <<<<"R", u, ref>>>>
        \o IF ref.to \in Present(r) THEN <<<<"T", ref.to, Content(r, ref.to)>>>> ELSE <<>>))

SymbolTokens(m, r, u) ==
    <<<<"S", u, Content(r, u)>>>>
    \o (IF m.wide THEN <<<<"W", u, WideFields(r, u)>>>> ELSE <<>>)
    \o ReferenceTokens(r, u)
    \o Each(Related(m, r, u), LAMBDA v : <<"L", u, v, Content(r, v)>>)
    \o (IF Kind(r, u) = "enum"
        THEN Each(Enumerators(r, u), LAMBDA e : <<"E", e, Content(r, e)>>) ELSE <<>>)

GroupTokens(r, planned, p) ==
    <<<<"G", p.id[2], GroupReads(r, planned, p)>>>>
    \o Each(GroupSymbols(r, p.id[2]), LAMBDA u : <<"GM", u, Content(r, u)>>)

PageFingerprint(m, r, planned, p) ==
    Each(ListedBy(planned, p), LAMBDA q : <<"TOC", q.stem>>)
    \o (IF p.file = None THEN <<>> ELSE <<<<"FILEPATH", p.file>>>>)
    \o IF p.id[1] = "group" THEN GroupTokens(r, planned, p)
       ELSE FlattenSeq(Each(RenderedBy(m, r, p), LAMBDA u : SymbolTokens(m, r, u)))

-----------------------------------------------------------------------------
(* Builds.                                                                 *)

Label(r, p) == IF p.id[1] = "group" THEN <<r.grp[p.id[2]].title>> ELSE p.name
IndexKey(r, planned) ==
    Each(planned, LAMBDA q : <<q.stem, Label(r, q.page), q.page.up = None>>)
\* render_index.
InIndex(r, planned) ==
    Each(Those(planned, LAMBDA q : q.page.up = None), LAMBDA q : <<q.stem, Label(r, q.page)>>)

\* The rows of page_cache that a render from nothing writes.
PageRow(m, r, planned, p) ==
    [key |-> PageFingerprint(m, r, planned, p), text |-> Text(m, r, planned, p)]
RenderFresh(m, r, planned) ==
    [stem \in {Reserved} \union {q.stem : q \in ToSet(planned)} |->
        IF stem = Reserved THEN [key |-> IndexKey(r, planned), text |-> InIndex(r, planned)]
        ELSE PageRow(m, r, planned, (CHOOSE q \in ToSet(planned) : q.stem = stem).page)]

\* By configuration, project and IR: the plan, with what each page shows, and
\* the rows.
ForAll(Op(_, _)) ==
    Each(Modes, LAMBDA m : Each(Projects, LAMBDA irs : Each(irs, LAMBDA r : Op(m, r))))
Plans == ForAll(PlanPages)
ShownBy == ForAll(LAMBDA m, r : Each(PlanPages(m, r), LAMBDA q : RenderedBy(m, r, q.page)))
Renders == ForAll(LAMBDA m, r : RenderFresh(m, r, PlanPages(m, r)))

Init ==
    /\ config \in DOMAIN Modes /\ project \in DOMAIN Projects
    /\ built = 0 /\ cache = [stem \in {} |-> None]

\* Mutant of Replayed: a page is replayed as long as it is there.
ReplayedAny(stem, key) == stem \in DOMAIN cache

\* cached_page.
Replayed(stem, key) == stem \in DOMAIN cache /\ cache[stem].key = key

\* _rendered_files; record_pages keeps the rows of this render's stems only.
Build(next) ==
    LET rendered == Renders[config][project][next]
    IN  /\ built' = next
        /\ cache' = [stem \in DOMAIN rendered |->
                        IF Replayed(stem, rendered[stem].key) THEN cache[stem] ELSE rendered[stem]]
        /\ UNCHANGED <<config, project>>

Next == \E next \in DOMAIN Projects[project] : Build(next)

Spec == Init /\ [][Next]_vars

-----------------------------------------------------------------------------
(* Properties.                                                             *)

\* The last build: its configuration, its IR, its plan, what each page shows,
\* and what it would have rendered had it replayed nothing.
mode == Modes[config]
ir == Projects[project][built]
pages == IF built = 0 THEN <<>> ELSE Plans[config][project][built]
shown == ShownBy[config][project][built]
fresh == Renders[config][project][built]

\* No two pages, and no page and the root document, are one file, not even
\* where a file system ignores case: writing one would overwrite the other.
OneFile(a, b) == /\ Each(a.slug, LAMBDA w : Lower(w)) = Each(b.slug, LAMBDA w : Lower(w))
                 /\ a.tag = b.tag /\ a.pad = b.pad
DistinctFiles ==
    \A i \in DOMAIN pages :
        /\ ~OneFile(pages[i].stem, Reserved)
        /\ \A j \in DOMAIN pages \ {i} : ~OneFile(pages[i].stem, pages[j].stem)

\* Under every grouping each symbol that is to be shown is rendered on one
\* page, once.  A namespace that has no comment may have no heading anywhere.
Due(u) == Visible(mode, ir, u, IF mode.by = "file" THEN ir.sym[u].file ELSE None)
EachOnce ==
    LET all == FlattenSeq(shown)
        Times(u) == Cardinality({i \in DOMAIN all : all[i] = u})
    IN  built # 0 =>
        \A u \in Present(ir) :
            /\ Times(u) <= 1
            /\ Due(u) /\ Kind(ir, u) # "enumerator" =>
                   Times(u) = 1 \/ (Kind(ir, u) = "namespace" /\ ~Documented(ir, u))

\* The pages as written, replayed or not, hang together: every page is listed
\* in one toctree, once, and is reached from the index; no subgroup link dangles.
Toctree(s) == IF s = Reserved THEN Each(cache[s].text, LAMBDA e : e[1])
              ELSE cache[s].text.body.toc
\* In as many steps as there are pages.
FromIndex ==
    LET within[n \in 0..Len(pages)] ==
            IF n = 0 THEN {Reserved}
            ELSE LET S == within[n - 1] IN S \union UNION {ToSet(Toctree(s)) : s \in S}
    IN  within[Len(pages)]
Linked ==
    built # 0 =>
    LET stems == DOMAIN cache
        listed == FlattenSeq(Each(<<Reserved>> \o Each(pages, LAMBDA q : q.stem), Toctree))
    IN  /\ \A s \in stems \ {Reserved} : Cardinality({i \in DOMAIN listed : listed[i] = s}) = 1
        /\ ToSet(listed) \subseteq stems
        /\ FromIndex = stems
        /\ \A q \in ToSet(pages) : q.page.id[1] = "group" =>
               \A s \in ToSet(cache[q.stem].text.body.group[2]) : s[2] \in stems

\* A replayed page shows what a render would: its symbols, their cross
\* references, related functions, enumerators, toctree and group.  The other
\* parts of a text (repeats, heads, arguments, captions) are not in its key: see
\* OneDirective and ArgumentsFresh.
ReplayIsRender ==
    built # 0 =>
        /\ \A q \in ToSet(pages) : cache[q.stem].text.body = fresh[q.stem].text.body
        /\ cache[Reserved].text = fresh[Reserved].text

\* A page keeps its stem (its URL) whatever else comes and goes, unless its
\* slug becomes or ceases to be contested.  Twins, pages of one name, are
\* the exception: see PadIsLastResort.
Alone(planned, i) == \A j \in DOMAIN planned \ {i} : planned[j].page.name # planned[i].page.name
HasRival(planned, name) == Fold(Stem(name, <<>>)) \in Contested(Each(planned, LAMBDA q : q.page))
StemsKept ==
    \A i \in DOMAIN pages : \A j \in DOMAIN pages' :
        LET name == pages[i].page.name
        IN  /\ pages'[j].page.id = pages[i].page.id /\ pages'[j].page.name = name
            /\ Alone(pages, i) /\ Alone(pages', j)
            /\ HasRival(pages, name) <=> HasRival(pages', name)
            => pages'[j].stem = pages[i].stem
StemStable == [][StemsKept]_vars

\* Of the symbols with one identity, one alone is written as a directive.
\* _canonical_declarations: "the choice is stable no matter which pages render
\* (or re-render) in which order -- including incremental rebuilds that replay
\* some pages from cache".
Written == UNION {ToSet(shown[i]) \ cache[pages[i].stem].text.repeats :
                      i \in DOMAIN pages}
OneDirective ==
    \A u, v \in Written : Identity(ir, u) # None /\ Identity(ir, u) = Identity(ir, v) => u = v

\* The argument lists shown are those of the IR.  "content_hash folds in what the
\* bundled templates render" (_wide_tokens); it leaves display_name out, where a
\* specialized variable template has its arguments.
ArgumentsFresh ==
    \A q \in ToSet(pages) : cache[q.stem].text.arguments = fresh[q.stem].text.arguments

\* Trailing underscores are "the last resort: a name colliding with a reserved
\* stem, and the vanishingly unlikely digest collision" (_unique_stem).
PadIsLastResort ==
    \A q \in ToSet(pages) : q.stem.pad > 0 =>
        Fold([q.stem EXCEPT !.pad = 0]) = Fold(Reserved)
=============================================================================
