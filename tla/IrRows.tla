------------------------------- MODULE IrRows -------------------------------
(***************************************************************************)
(* The rows of the IR.  A full parse fills an empty database batch by      *)
(* batch (write_part); a partial one re-parses the inputs that an edit     *)
(* reaches and replaces their rows in place (write_tus), every batch in    *)
(* one module.  Either is one step: it is a transaction, or a file that is *)
(* renamed when it is complete (module IrFile).                            *)
(*                                                                         *)
(* A file's content is what the visitor takes from it: the symbols it      *)
(* declares, at most one group block, its #includes.  A declaration has    *)
(* def (it is the definition), sig (what else the row shows), refs (its    *)
(* outgoing references) and comment (None, or the text, which its fields   *)
(* follow from, and the groups its \ingroup names).  A group block has the *)
(* group, its text (title, brief, detail and parent, which are merged      *)
(* alike; None where they are left out) and defining (\defgroup).  A        *)
(* forward declaration of a tag without a comment of its own declares      *)
(* nothing: handle_symbol skips it before it looks at anything else.       *)
(***************************************************************************)
EXTENDS Naturals, FiniteSets, SequencesExt, Lists

CONSTANTS
    Files,      \* the files there may be
    Inputs,     \* the inputs, in canonical order
    Usrs,       \* symbols
    Callables,  \* those of a function-like kind (a USR has one kind)
    Groups,     \* documentation groups
    Trees,      \* source trees: functions from files to contents
    FlagsOf(_), \* the flags an input is compiled with
    FullBatch,  \* how many inputs share an umbrella in a full parse
    PartBatch,  \* and in a partial one
    None

InputSet == ToSet(Inputs)

\* What a file holds.  _resolve_inputs yields no path twice.
ContentOK(c) ==
    /\ c.incs \subseteq Files
    /\ c.block # None => c.block.defining \in BOOLEAN
    /\ \A u \in DOMAIN c.decls :
           /\ c.decls[u].def \in BOOLEAN /\ c.decls[u].refs \in Seq(Usrs)
           /\ c.decls[u].comment # None => c.decls[u].comment.groups \in Seq(Groups)

ASSUME RowsAssumption ==
    /\ IsFiniteSet(Files) /\ Inputs \in Seq(Files)
    /\ \A k, l \in DOMAIN Inputs : Inputs[k] = Inputs[l] => k = l
    /\ FullBatch \in Nat \ {0} /\ PartBatch \in Nat \ {0}
    /\ \A t \in Trees : DOMAIN t = Files /\ \A f \in Files : ContentOK(t[f])

VARIABLES
    tree,       \* the tree of the last parse, None before the first
    files,      \* table files: the content its hash is of, by path
    symbols,    \* table symbols and, with each symbol, all that is deleted with it
    groups      \* table groups

vars == <<tree, files, symbols, groups>>

-----------------------------------------------------------------------------
(* Parsing.                                                                *)

\* What including f reads.
Closure(t, f) ==
    {g \in Files : \A S \in SUBSET Files :
        f \in S /\ (\A s \in S : t[s].incs \subseteq S) => g \in S}
Reached(t, I) == UNION {Closure(t, i) : i \in I}

\* make_batches: each batch takes inputs of one set of flags.
Placed(bs, i, size) ==
    LET same == {k \in DOMAIN bs : FlagsOf(bs[k][1]) = FlagsOf(i)}
        slot == IF same = {} THEN 0 ELSE CHOOSE k \in same : \A l \in same : l <= k
    IN  IF slot = 0 \/ Len(bs[slot]) >= size THEN Append(bs, <<i>>)
        ELSE [bs EXCEPT ![slot] = Append(@, i)]
Batches(I, size) ==
    FoldLeft(LAMBDA bs, i : Placed(bs, i, size), <<>>,
             Chosen(Inputs, {k \in DOMAIN Inputs : Inputs[k] \in I}))

Declares(t, f, u) == u \in DOMAIN t[f].decls

\* The comment libclang answers with for u in a batch: the one its own
\* declaration has, or one that a declaration the unit reaches has.
RawComment(t, batch, u) ==
    LET Own(S) == {f \in S : Declares(t, f, u) /\ t[f].decls[u].comment # None}
        members == Own(ToSet(batch))
        near == IF members # {} THEN members ELSE Own(Reached(t, ToSet(batch)))
    IN  IF near = {} THEN None ELSE t[CHOOSE f \in near : TRUE].decls[u].comment

\* handle_symbol: the first declaration of a batch makes the row, a definition
\* that comes later makes it one, and gives it its signature if it is callable.
SymbolOf(t, batch, u) ==
    LET where == Chosen(batch, {k \in DOMAIN batch : Declares(t, batch[k], u)})
        defs == Chosen(where, {k \in DOMAIN where : t[where[k]].decls[u].def})
        raw == RawComment(t, batch, u)
        D(s) == t[s[1]].decls[u]
    IN  [row |-> [file |-> where[1], def |-> defs # <<>>, doc |-> raw # None,
                  sig |-> IF u \in Callables /\ defs # <<>> THEN D(defs).sig ELSE D(where).sig],
         refs |-> D(where).refs, comment |-> raw]

\* Mutant of Merged: the last write wins.
MergedLast(old, new) == [text |-> new.text, def |-> old.def \/ new.def]

\* merge_group_block, and the upsert of a group row.
Merged(old, new) ==
    [text |-> IF \/ new.def /\ old.def
                 \/ new.def /\ new.text # None
                 \/ old.text = None THEN new.text ELSE old.text,
     def |-> old.def \/ new.def]

MergedAll(old, rows) == FoldLeft(Merged, old, rows)

Stub == [text |-> None, def |-> FALSE]

\* register_symbol_groups: the groups that the comments a batch sees name.
Joined(t, batch) ==
    {g \in Groups : \E u \in Usrs : \E f \in ToSet(batch) :
        /\ Declares(t, f, u)
        /\ RawComment(t, batch, u) # None
        /\ g \in ToSet(RawComment(t, batch, u).groups)}

\* The blocks of a group in a batch, in order.
BlocksOf(t, batch, g) ==
    LET where == Chosen(batch, {k \in DOMAIN batch : LET block == t[batch[k]].block
                                                     IN  block # None /\ block.group = g})
    IN  [k \in DOMAIN where |-> [text |-> t[where[k]].block.text,
                                 def  |-> t[where[k]].block.defining]]

\* The groups of a batch: of those only joined, a stub.
GroupsOf(t, batch) ==
    [g \in {g \in Groups : BlocksOf(t, batch, g) # <<>>} \union Joined(t, batch) |->
        MergedAll(Stub, BlocksOf(t, batch, g))]

\* The part a batch yields; a module is a sequence of parts.
PartOf(t, batch) ==
    [symbols |-> [u \in {u \in Usrs : \E f \in ToSet(batch) : Declares(t, f, u)} |->
                     SymbolOf(t, batch, u)],
     groups |-> GroupsOf(t, batch)]
Parts(t, I, size) == LET bs == Batches(I, size) IN [k \in DOMAIN bs |-> PartOf(t, bs[k])]

-----------------------------------------------------------------------------
(* Writing: insert_rows, table by table.                                   *)

\* The upsert of a symbol: a definition on record keeps its row.
Upserted(old, new) ==
    [(IF old.def /\ ~new.def THEN old ELSE new) EXCEPT
        !.def = old.def \/ new.def, !.doc = old.doc \/ new.doc]

UpsertedAll(old, new) == FoldLeft(LAMBDA row, s : Upserted(row, s.row), old, new)

\* Mutant of Projected: rows are added, none are cleared.
ProjectedAppend(old, written) == old \o written

\* comment_fields and group_members are projections of comments, kept here as
\* the comments they are of.  Those of a symbol that the module has a comment
\* of are cleared, once; then the rows of all its comments come.
Projected(old, written) == IF written = <<>> THEN old ELSE written

\* What some of the tables have under a key, in order.
Under(tables, key) ==
    LET with == Chosen(tables, {k \in DOMAIN tables : key \in DOMAIN tables[k]})
    IN  [k \in DOMAIN with |-> with[k][key]]
Keys(tables) == UNION {DOMAIN tables[k] : k \in DOMAIN tables}

\* The rows of u once a module is in; new are its rows of u.
SymbolRows(db, new, u) ==
    LET old == IF u \in DOMAIN db THEN db[u]
               ELSE [row |-> new[1].row, refs |-> <<>>, comment |-> None, projected |-> <<>>]
        said == [k \in DOMAIN new |-> new[k].comment]
        docs == Chosen(said, {k \in DOMAIN said : said[k] # None})
    IN  [row       |-> UpsertedAll(old.row, new),
         refs      |-> old.refs \o FlattenSeq([k \in DOMAIN new |-> new[k].refs]),
         comment   |-> IF docs = <<>> THEN old.comment ELSE Last(docs),
         projected |-> Projected(old.projected, docs)]

InsertSymbols(db, parts) ==
    LET new == [k \in DOMAIN parts |-> parts[k].symbols]
    IN  [u \in DOMAIN db \union Keys(new) |-> SymbolRows(db, Under(new, u), u)]

InsertGroups(db, parts) ==
    LET new == [k \in DOMAIN parts |-> parts[k].groups]
    IN  [g \in DOMAIN db \union Keys(new) |->
            LET rows == Under(new, g)
            IN  MergedAll(IF g \in DOMAIN db THEN db[g] ELSE rows[1], rows)]

NoRows == [symbols |-> <<>>, groups |-> <<>>]
InsertRows(db, parts) == [symbols |-> InsertSymbols(db.symbols, parts),
                          groups  |-> InsertGroups(db.groups, parts)]

\* parse_to_sqlite: write_part, batch by batch, into an empty database.
FullRows(t) == FoldLeft(LAMBDA db, p : InsertRows(db, <<p>>), NoRows, Parts(t, InputSet, FullBatch))

\* Mutant of ReplacedFiles: only files that have symbols are replaced.
ReplacedFilesFresh(stale, parts) ==
    UNION {{p.symbols[u].row.file : u \in DOMAIN p.symbols} : p \in ToSet(parts)}

\* replaced_ids.
ReplacedFiles(stale, parts) ==
    stale \union UNION {{p.symbols[u].row.file : u \in DOMAIN p.symbols} : p \in ToSet(parts)}

\* delete_files_rows, and the cascade.
Without(rows, gone) == [u \in {v \in DOMAIN rows : rows[v].row.file \notin gone} |-> rows[u]]

-----------------------------------------------------------------------------
(* Builds.                                                                 *)

Init == tree = None /\ files = <<>> /\ symbols = <<>> /\ groups = <<>>

\* parse_to_sqlite: the first build, or one with another configuration.
FullParse(next) ==
    LET db == FullRows(next)
    IN  /\ tree' = next
        /\ files' = [f \in Reached(next, InputSet) |-> next[f]]
        /\ symbols' = db.symbols /\ groups' = db.groups

\* parse_status: the inputs one of whose files has changed.
Stale(t, next) == {i \in InputSet : \E f \in Closure(t, i) : next[f] # t[f]}

\* Mutant of Vanished: no file ever leaves.
VanishedNone(t, next, stale) == {}

\* deps_only_from: what only stale inputs reached; drop_vanished_files takes
\* those of them that the new parse no longer reaches.
Vanished(t, next, stale) ==
    (Reached(t, stale) \ Reached(t, InputSet \ stale)) \ Reached(next, stale)

\* parse_tus_to_sqlite, write_tus.
PartialParse(next) ==
    LET stale == Stale(tree, next)
        parts == Parts(next, stale, PartBatch)
        fresh == Reached(next, stale)
        vanished == Vanished(tree, next, stale)
        db == InsertRows([symbols |-> Without(symbols, ReplacedFiles(stale, parts) \union vanished),
                          groups  |-> groups], parts)
    IN  /\ tree # None /\ stale # {}
        /\ tree' = next
        /\ files' = [f \in (DOMAIN files \union fresh) \ vanished |->
                        IF f \in fresh THEN next[f] ELSE files[f]]
        /\ symbols' = db.symbols /\ groups' = db.groups

Next == \E next \in Trees : FullParse(next) \/ PartialParse(next)

Spec == Init /\ [][Next]_vars

-----------------------------------------------------------------------------
(* Properties.                                                             *)

Parsed == tree # None
Where(u) == {i \in InputSet : Declares(tree, i, u)}
Writing(u) == {i \in Where(u) : tree[i].decls[u].comment # None}

\* The files of the database are those a full parse would list, under the
\* hashes it would give them: no file that has left every closure lingers.
FilesAsFull == Parsed => files = [f \in Reached(tree, InputSet) |-> tree[f]]

\* A symbol that no two files ever declare at once has the rows a full parse
\* would give it, references and comment included, wherever it has moved.
Homed == {u \in Usrs : \A t \in Trees : Cardinality({f \in Files : Declares(t, f, u)}) <= 1}
HomedAsFull ==
    Parsed => \A u \in Homed :
        /\ u \in DOMAIN symbols <=> u \in DOMAIN FullRows(tree).symbols
        /\ u \in DOMAIN symbols => symbols[u] = FullRows(tree).symbols[u]

\* Of a symbol that one input documents, however many declare it, the database
\* has that comment and its projections, once, if every input that declares it
\* reaches the one that documents it.  (insert_rows: "every stage downstream reads
\* *all* of them, so the symbol's brief and prose were rendered once per write".)
HasItsComment(u) ==
    \A i \in Writing(u) : Cardinality(Writing(u)) = 1 =>
        /\ u \in DOMAIN symbols /\ symbols[u].row.doc
        /\ symbols[u].comment = tree[i].decls[u].comment
        /\ symbols[u].projected = <<tree[i].decls[u].comment>>
Near == {u \in Usrs : \A t \in Trees : \A i, j \in InputSet :
            Declares(t, i, u) /\ Declares(t, j, u) /\ t[j].decls[u].comment # None
            => j \in Closure(t, i)}
DocumentedOnce == Parsed => \A u \in Near : HasItsComment(u)

\* A group that no two inputs ever define at once has the text its \defgroup says,
\* whichever batch or parse wrote last; and a symbol's memberships name groups that
\* are there.
Defining(t, g) == {i \in InputSet : /\ t[i].block # None /\ t[i].block.group = g
                                    /\ t[i].block.defining}
Owned == {g \in Groups : \A t \in Trees : Cardinality(Defining(t, g)) <= 1}
GroupAsDefined ==
    Parsed =>
        /\ \A g \in Owned : \A i \in Defining(tree, g) :
               tree[i].block.text # None =>
                   g \in DOMAIN groups /\ groups[g].text = tree[i].block.text
        /\ \A u \in DOMAIN symbols : \A k \in DOMAIN symbols[u].projected :
               ToSet(symbols[u].projected[k].groups) \subseteq DOMAIN groups

\* Nor does a partial parse take away what an input it leaves alone declares
\* or documents: "leaving every other TU's rows in place" (_incremental_build).
OthersStay ==
    Parsed => \A u \in Usrs : HasItsComment(u) /\ (Where(u) # {} => u \in DOMAIN symbols)
=============================================================================
