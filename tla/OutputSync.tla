----------------------------- MODULE OutputSync -----------------------------
(***************************************************************************)
(* What clangquill keeps in its output directories: the pages, the index   *)
(* page, the manifest beside them, and, in the bookkeeping database, the   *)
(* outputs table and the page cache.  Three kinds of build write there: a  *)
(* build with a cache directory ("cached"), a stateless one ("plain") and  *)
(* the Sphinx extension's placeholder when libclang is missing ("stub").   *)
(* The same directory belongs to people too: they edit, touch, delete and  *)
(* add files in it.                                                        *)
(*                                                                         *)
(* The parse is one step here (IncrementalBuild has its steps).  An IR     *)
(* says, for each page it has, what the fingerprints tell apart.  A page's *)
(* text is the render configuration and what its template read; its hash   *)
(* is the text.  A file's stat is abstracted to whether it is the one in   *)
(* the outputs table: no two writes of a file leave it with one stat.      *)
(***************************************************************************)
EXTENDS Naturals

CONSTANTS
    Dirs,         \* output directories
    Pages,        \* stems a plan can give a page
    Index,        \* the root document
    Irs,          \* what a parse can yield
    Cfgs,         \* render configurations
    TemplatesOf,  \* the override templates of a configuration, by declaration
    None,         \* a missing file, row or page
    Hand,         \* what a person writes
    Torn,         \* what is left of a page when its writer dies
    Stub,         \* the placeholder's text
    Kinds,        \* the kinds of build that run
    Follows,      \* which kind of build may come next after which
    HandAt,       \* the build phases during which people touch the directories
    StatRace,     \* those of "check" and "write" during which they may save a
                  \* page between the look at it and the stat taken of it
    FailAt,       \* the build phases in which a build may die
    CacheLoss,    \* whether the bookkeeping may be lost between builds
    MaxMoves      \* bound: edits, losses and deaths in a behaviour

Names == Pages \union {Index}
Phases == {"idle", "check", "parse", "render", "write", "delete", "manifest", "seal"}
Facts == Pages \X {"core", "extra", "entry"} \X Nat
Texts == [cfg : Cfgs, reads : SUBSET Facts]
Keys == [fp : Cfgs \X Dirs, reads : SUBSET Facts]
FileStates == [text : Texts \union {Hand, Torn, Stub}, indexed : BOOLEAN, noted : BOOLEAN]
CachedPages == [key : Keys, text : Texts]

ASSUME ConstantsAssumption ==
    /\ Index \notin Pages
    /\ Irs \subseteq [Pages -> [core : Nat, extra : Nat, entry : Nat] \union {None}]
    /\ None \notin Names \union Irs \union Texts \union FileStates \union CachedPages
    /\ None \notin {Hand, Torn, Stub} \union Kinds \union (Cfgs \X Dirs)
    /\ Hand \notin Texts \union {Torn, Stub}
    /\ TemplatesOf \in [Cfgs -> SUBSET {"declared", "undeclared"}]
    /\ Kinds \subseteq {"cached", "plain", "stub"} /\ Follows \subseteq Kinds \X Kinds
    /\ HandAt \subseteq Phases /\ FailAt \subseteq Phases \ {"idle"}
    /\ StatRace \subseteq {"check", "write"} /\ CacheLoss \in BOOLEAN /\ MaxMoves \in Nat

VARIABLES
    tree,                             \* the IR a parse would give now
    out, manifest,                    \* per directory: files, and their manifest
    bkIr, bkRender, idx, pageCache,   \* bookkeeping: parse, render, outputs, pages
    pc, kind, dir, rc,                \* the running build, or the last one
    ir, rendered, todo, cur,          \* ... its IR, its render, its loops
    outcome, clean, mine,             \* history: see the properties
    moves                             \* bound

bookkeeping == <<bkIr, bkRender, idx, pageCache>>
job == <<kind, dir, rc>>
work == <<ir, rendered, todo, cur>>
history == <<outcome, clean, mine>>
vars == <<tree, out, manifest, bookkeeping, pc, job, work, history, moves>>

File(text) == [text |-> text, indexed |-> FALSE, noted |-> FALSE]
NoFiles == [n \in Names |-> None]
Listed(table) == {n \in Names : table[n] # None}

TypeOK ==
    /\ tree \in Irs /\ ir \in Irs
    /\ out \in [Dirs -> [Names -> FileStates \union {None}]]
    /\ manifest \in [Dirs -> SUBSET Names]
    /\ bkIr \in Irs \union {None}
    /\ bkRender \in (Cfgs \X Dirs) \union {None}
    /\ idx \in [Names -> Texts \union {None}]
    /\ pageCache \in [Names -> CachedPages \union {None}]
    /\ pc \in Phases /\ kind \in Kinds \union {None} /\ dir \in Dirs /\ rc \in Cfgs
    /\ rendered \in [Names -> Texts \union {None, Stub}]
    /\ todo \subseteq Names /\ cur \in Names \union {None}
    /\ outcome \in {"none", "ok", "failed"} /\ clean \in BOOLEAN
    /\ mine \in [Dirs -> SUBSET Names]
    /\ moves \in 0..MaxMoves

Init ==
    /\ tree \in Irs /\ ir = tree
    /\ out = [d \in Dirs |-> NoFiles]
    /\ manifest = [d \in Dirs |-> {}]
    /\ bkIr = None /\ bkRender = None /\ idx = NoFiles /\ pageCache = NoFiles
    /\ pc = "idle" /\ kind = None /\ dir \in Dirs /\ rc \in Cfgs
    /\ rendered = NoFiles /\ todo = {} /\ cur = None
    /\ outcome = "none" /\ clean = FALSE
    /\ mine = [d \in Dirs |-> {}]
    /\ moves = 0

-----------------------------------------------------------------------------
(* Rendering: what a template reads, what the page key covers.             *)

PagesOf(r) == {p \in Pages : r[p] # None}
Outputs(r) == PagesOf(r) \union {Index}

Core(r, p) == {<<p, "core", r[p].core>>}
Documented(r, p) == Core(r, p) \union {<<p, "extra", r[p].extra>>}
Entries(r) == {<<p, "entry", r[p].entry>> : p \in PagesOf(r)}
Everything(r) == Entries(r) \union UNION {Documented(r, p) : p \in PagesOf(r)}

\* What the templates of configuration c read for output n: the bundled ones
\* their page's core; declared ones every documented field; an undeclared one
\* may reach anything.
Reads(c, r, n) ==
    IF "undeclared" \in TemplatesOf[c] THEN Everything(r)
    ELSE IF n = Index THEN Entries(r)
    ELSE IF "declared" \in TemplatesOf[c] THEN Documented(r, n)
    ELSE Core(r, n)

Text(c, r, n) == [cfg |-> c, reads |-> Reads(c, r, n)]

\* Mutant of Memoised: one declaration speaks for all templates.
MemoisedAny(c) == TemplatesOf[c] = {} \/ "declared" \in TemplatesOf[c]

\* _page_cache_mode: pages are memoised unless some template does not declare
\* itself, on the wide fingerprint when there is any override template.
Memoised(c) == "undeclared" \notin TemplatesOf[c]
Wide(c) == TemplatesOf[c] # {}

\* page_fingerprint, and the index's own key.
Fingerprint(c, r, n) ==
    IF n = Index THEN Entries(r)
    ELSE IF Wide(c) THEN Documented(r, n)
    ELSE Core(r, n)

\* _render_fingerprint covers the configuration, its templates and output_dir.
Fp == <<rc, dir>>
Key(n) == [fp |-> Fp, reads |-> Fingerprint(rc, ir, n)]

\* cached_page, or else a render.
Replayed(n) ==
    IF Memoised(rc) /\ pageCache[n] # None /\ pageCache[n].key = Key(n)
    THEN pageCache[n].text
    ELSE Text(rc, ir, n)

-----------------------------------------------------------------------------
(* Starting a build.                                                       *)

\* _output_intact: the stat is the recorded one, or the content is.
Intact(d, n) == out[d][n] # None /\ (out[d][n].indexed \/ out[d][n].text = idx[n])

OutputsIntact(d) == Listed(idx) # {} /\ \A n \in Listed(idx) : Intact(d, n)

Begin(k, d, c) ==
    /\ pc = "idle"
    /\ kind = None \/ <<kind, k>> \in Follows
    /\ kind' = k /\ dir' = d /\ rc' = c
    /\ ir' = tree
    /\ clean' = TRUE

\* A build ends: its locals are gone.
End(how) ==
    /\ pc' = "idle" /\ outcome' = how
    /\ rendered' = NoFiles /\ todo' = {} /\ cur' = None

\* The stats a build had noted are gone with it.
Unnoted(o) == [d \in Dirs |-> [n \in Names |->
    IF o[d][n] = None THEN None ELSE [o[d][n] EXCEPT !.noted = FALSE]]]

\* Both records say there is nothing to do: the outputs decide.
MayNoop(d, c) == bkIr = tree /\ bkRender = <<c, d>> /\ Listed(idx) # {}

\* A cached build that has to parse (its IR is stale, or strict mode or a lost
\* log forces it), or only to render, or first to look at its outputs.
StartCached(d, c) ==
    /\ "cached" \in Kinds /\ Begin("cached", d, c)
    /\ \/ pc' = "parse" /\ UNCHANGED todo
       \/ bkIr = tree /\ ~MayNoop(d, c) /\ pc' = "render" /\ UNCHANGED todo
       \/ MayNoop(d, c) /\ pc' = "check" /\ todo' = Listed(idx)
    /\ UNCHANGED <<tree, out, manifest, bookkeeping, rendered, cur, outcome, mine,
                   moves>>

\* _outputs_intact, one recorded output after the other: first what is there
\* (_output_intact), then, in a step of its own, the stat it has.
CheckPage(n) ==
    /\ pc = "check" /\ cur = None /\ n \in todo
    /\ Intact(dir, n)
    /\ cur' = n
    /\ UNCHANGED <<tree, out, manifest, bookkeeping, pc, job, ir, rendered, todo,
                   history, moves>>

RestatPage(n) ==
    /\ pc = "check" /\ cur = n
    /\ out' = IF out[dir][n] = None THEN out ELSE [out EXCEPT ![dir][n].noted = TRUE]
    /\ cur' = None
    /\ todo' = todo \ {n}
    /\ UNCHANGED <<tree, manifest, bookkeeping, pc, job, ir, rendered, history, moves>>

\* The first output that is not intact ends the look, and nothing is healed.
RenderAnyway(n) ==
    /\ pc = "check" /\ cur = None /\ n \in todo
    /\ ~Intact(dir, n)
    /\ out' = Unnoted(out)
    /\ todo' = {}
    /\ pc' = "render"
    /\ UNCHANGED <<tree, manifest, bookkeeping, job, ir, rendered, cur, history, moves>>

\* Mutant of Healed: a touched page is hashed again by every build.
HealedNot == Unnoted(out)

\* refresh_output_stats: the stats noted become the recorded ones.
Healed == [d \in Dirs |-> [n \in Names |->
    IF out[d][n] = None THEN None
    ELSE [out[d][n] EXCEPT !.indexed = out[d][n].indexed \/ out[d][n].noted,
                           !.noted = FALSE]]]

\* The noop shortcut: every output was intact when the build came to it.
Noop ==
    /\ pc = "check" /\ todo = {} /\ cur = None
    /\ out' = Healed
    /\ End("ok")
    /\ UNCHANGED <<tree, manifest, bookkeeping, job, ir, clean, mine, moves>>

\* record_parse clears the render record in the same transaction.
RecordParse ==
    /\ pc = "parse"
    /\ bkIr' = ir /\ bkRender' = None
    /\ pc' = "render"
    /\ UNCHANGED <<tree, out, manifest, idx, pageCache, job, work, history, moves>>

\* _rendered_files; record_pages stores what was rendered and drops the rest.
Render ==
    /\ pc = "render"
    /\ rendered' = [n \in Names |-> IF n \in Outputs(ir) THEN Replayed(n) ELSE None]
    /\ pageCache' = IF ~Memoised(rc) THEN pageCache
                    ELSE [n \in Names |-> IF n \notin Outputs(ir) THEN None
                            ELSE [key |-> Key(n), text |-> Replayed(n)]]
    /\ todo' = Outputs(ir)
    /\ pc' = "write"
    /\ UNCHANGED <<tree, out, manifest, bkIr, bkRender, idx, job, ir, cur, history,
                   moves>>

\* _full_build renders every page before it writes the first.
StartPlain(d, c) ==
    /\ "plain" \in Kinds /\ Begin("plain", d, c)
    /\ rendered' = [n \in Names |-> IF n \in Outputs(tree) THEN Text(c, tree, n) ELSE None]
    /\ todo' = Outputs(tree)
    /\ pc' = "write"
    /\ UNCHANGED <<tree, out, manifest, bookkeeping, cur, outcome, mine, moves>>

\* _write_placeholder writes a root document and nothing else.
StartStub(d, c) ==
    /\ "stub" \in Kinds /\ Begin("stub", d, c)
    /\ rendered' = [NoFiles EXCEPT ![Index] = Stub]
    /\ todo' = {Index}
    /\ pc' = "write"
    /\ UNCHANGED <<tree, out, manifest, bookkeeping, cur, outcome, mine, moves>>

-----------------------------------------------------------------------------
(* Writing: _apply_outputs, generate, prune_stale.                         *)

\* Pages in any order, the index last.
NextOutput(n) == pc = "write" /\ cur = None /\ n \in todo /\ (n = Index => todo = {Index})

\* Mutant of Outdated: a stateless build writes whatever it rendered.
OutdatedPlain(n) == kind = "cached" => idx[n] # rendered[n] \/ ~Intact(dir, n)

\* Whether output n is to be written: by the outputs table in a cached build, by
\* the bytes on disk in the others (write_if_changed).
Outdated(n) ==
    IF kind = "cached" THEN idx[n] # rendered[n] \/ ~Intact(dir, n)
    ELSE out[dir][n] = None \/ out[dir][n].text # rendered[n]

\* The output whose write is next, if it has to be written.
BeingWritten == {n \in todo : NextOutput(n) /\ Outdated(n)}

Wrote(n, text) ==
    /\ out' = [out EXCEPT ![dir][n] = File(text)]
    /\ mine' = [mine EXCEPT ![dir] = @ \union {n}]

WritePage(n) ==
    /\ NextOutput(n)
    /\ IF Outdated(n) THEN Wrote(n, rendered[n]) ELSE UNCHANGED <<out, mine>>
    /\ IF kind = "cached" THEN cur' = n /\ UNCHANGED todo
       ELSE todo' = todo \ {n} /\ UNCHANGED cur
    /\ UNCHANGED <<tree, manifest, bookkeeping, pc, job, ir, rendered, outcome, clean,
                   moves>>

\* A cached build takes the file's stat for the new index, afterwards.
StatPage(n) ==
    /\ pc = "write" /\ cur = n
    /\ out' = IF out[dir][n] = None THEN out ELSE [out EXCEPT ![dir][n].noted = TRUE]
    /\ cur' = None
    /\ todo' = todo \ {n}
    /\ UNCHANGED <<tree, manifest, bookkeeping, pc, job, ir, rendered, history, moves>>

\* Mutant of Vanished: whatever is in the directory and not in the render.
VanishedUnlisted == Listed(out[dir]) \ Listed(rendered)

\* The outputs of earlier builds that this one does not have: those in the
\* outputs table, or in the manifest.
Vanished == (IF kind = "cached" THEN Listed(idx) ELSE manifest[dir]) \ Listed(rendered)

FindVanished ==
    /\ pc = "write" /\ todo = {} /\ cur = None
    /\ todo' = Vanished
    /\ pc' = "delete"
    /\ UNCHANGED <<tree, out, manifest, bookkeeping, job, ir, rendered, cur, history,
                   moves>>

DeletePage(n) ==
    /\ pc = "delete" /\ n \in todo
    /\ out' = [out EXCEPT ![dir][n] = None]
    /\ mine' = [mine EXCEPT ![dir] = @ \ {n}]
    /\ todo' = todo \ {n}
    /\ UNCHANGED <<tree, manifest, bookkeeping, pc, job, ir, rendered, cur, outcome,
                   clean, moves>>

Deleted == pc = "delete" /\ todo = {}

\* Mutant of StatsOf: the files' stats of now are recorded, of unwritten ones too.
StatsOfAll(d) == [n \in Names |->
    IF out[d][n] = None THEN None
    ELSE [out[d][n] EXCEPT !.indexed = n \in Listed(rendered), !.noted = FALSE]]

\* The outputs table is replaced by the new index: a file has the recorded stat
\* if it still has the one that was noted.
StatsOf(d) == [n \in Names |->
    IF out[d][n] = None THEN None
    ELSE [out[d][n] EXCEPT !.indexed = out[d][n].noted, !.noted = FALSE]]

RecordOutputs ==
    /\ Deleted /\ kind = "cached"
    /\ idx' = rendered
    /\ out' = [d \in Dirs |-> StatsOf(d)]
    /\ pc' = "manifest"
    /\ UNCHANGED <<tree, manifest, bkIr, bkRender, pageCache, job, work, history, moves>>

\* Mutant of NewManifest: a cached build relies on its outputs table alone.
NewManifestPlain == IF kind = "cached" THEN manifest[dir] ELSE Listed(rendered)

\* A cached build keeps the manifest too, for a later build without a cache.
NewManifest == Listed(rendered)

ManifestDue == pc = "manifest" \/ (Deleted /\ kind # "cached")

WriteManifest ==
    /\ ManifestDue
    /\ manifest' = [manifest EXCEPT ![dir] = NewManifest]
    /\ IF kind = "cached" THEN pc' = "seal" /\ UNCHANGED <<rendered, todo, cur, outcome>>
       ELSE End("ok")
    /\ UNCHANGED <<tree, out, bookkeeping, job, ir, clean, mine, moves>>

RecordRender ==
    /\ pc = "seal"
    /\ bkRender' = Fp
    /\ End("ok")
    /\ UNCHANGED <<tree, out, manifest, bkIr, idx, pageCache, job, ir, clean, mine,
                   moves>>

-----------------------------------------------------------------------------
(* What goes wrong, and what people do.                                    *)

Move == moves < MaxMoves /\ moves' = moves + 1

\* A build dies: between two steps, in the middle of a page, or in the middle of
\* the manifest, which then does not parse and counts as empty.
Fail ==
    /\ pc \in FailAt /\ Move
    /\ \/ out' = Unnoted(out) /\ UNCHANGED <<manifest, mine>>
       \/ \E n \in BeingWritten :
            /\ out' = Unnoted([out EXCEPT ![dir][n] = File(Torn)])
            /\ mine' = [mine EXCEPT ![dir] = @ \union {n}]
            /\ UNCHANGED manifest
       \/ /\ ManifestDue
          /\ manifest' = [manifest EXCEPT ![dir] = {}]
          /\ out' = Unnoted(out)
          /\ UNCHANGED mine
    /\ End("failed") /\ clean' = FALSE
    /\ UNCHANGED <<tree, bookkeeping, job, ir>>

\* A person saves, touches or deletes a file in an output directory.
HandEdit(d, n) ==
    /\ pc \in HandAt /\ Move
    /\ \/ /\ pc \in StatRace \/ d # dir \/ n # cur
          /\ out' = [out EXCEPT ![d][n] = File(Hand)]
       \/ out[d][n] # None /\ out' = [out EXCEPT ![d][n] = File(out[d][n].text)]
       \/ out[d][n] # None /\ out' = [out EXCEPT ![d][n] = None]
    /\ clean' = FALSE
    /\ UNCHANGED <<tree, manifest, bookkeeping, pc, job, work, outcome, mine>>

\* The tree is read as a build begins: an edit during the build is one after it.
EditTree ==
    /\ pc = "idle" /\ Move
    /\ tree' \in Irs \ {tree}
    /\ UNCHANGED <<out, manifest, bookkeeping, pc, job, work, history>>

\* The bookkeeping is deleted, unreadable, or of another CACHE_VERSION.
LoseCache ==
    /\ CacheLoss /\ pc = "idle" /\ Move
    /\ bkIr' = None /\ bkRender' = None /\ idx' = NoFiles /\ pageCache' = NoFiles
    /\ out' = [d \in Dirs |-> [n \in Names |->
                 IF out[d][n] = None THEN None ELSE File(out[d][n].text)]]
    /\ clean' = FALSE
    /\ UNCHANGED <<tree, manifest, pc, job, work, outcome, mine>>

-----------------------------------------------------------------------------

Start == \E d \in Dirs, c \in Cfgs :
    StartCached(d, c) \/ StartPlain(d, c) \/ StartStub(d, c)
Step ==
    \/ RecordParse \/ Render \/ FindVanished \/ RecordOutputs \/ WriteManifest
    \/ RecordRender \/ Noop
    \/ \E n \in Names : CheckPage(n) \/ RestatPage(n) \/ RenderAnyway(n)
    \/ \E n \in Names : WritePage(n) \/ StatPage(n) \/ DeletePage(n)
Environment ==
    \/ Fail \/ EditTree \/ LoseCache
    \/ \E d \in Dirs, n \in Names : HandEdit(d, n)

Next == Start \/ Step \/ Environment

Spec == Init /\ [][Next]_vars

-----------------------------------------------------------------------------
(* Properties.                                                             *)

\* What a build of the last kind writes for output n when it reuses nothing.
Wanted(n) ==
    IF kind = "stub" THEN IF n = Index THEN Stub ELSE None
    ELSE IF n \in Outputs(ir) THEN Text(rc, ir, n) ELSE None

\* The last build has returned and nobody has interfered since it began.
Settled == pc = "idle" /\ outcome = "ok" /\ clean

\* Reuse never shows: after a build, whatever it skipped, replayed from the page
\* cache or found on disk, every output is there and is what a render from
\* nothing gives, whoever damaged the directory or died in it before.
PagesRight == Settled => \A n \in Names :
    Wanted(n) # None => out[dir][n] # None /\ out[dir][n].text = Wanted(n)

\* "deletes pages whose symbols disappeared" (docs/usage.md): after a build, its
\* directory holds no generated page that the build does not have.
NoOrphans == Settled => \A n \in Names :
    out[dir][n] # None /\ Wanted(n) = None => out[dir][n].text = Hand

\* "Re-running an unchanged build regenerates nothing": after a cached build the
\* next one takes the noop shortcut, and reads no page to find that out.
NextIsNoop == Settled /\ kind = "cached" =>
    /\ bkIr = ir /\ bkRender = Fp /\ OutputsIntact(dir)
    /\ \A n \in Listed(idx) : out[dir][n].indexed

\* The stat fast path of _output_intact never vouches for a changed page.
StatsHonest == \A d \in Dirs, n \in Names :
    out[d][n] # None /\ out[d][n].indexed => out[d][n].text = idx[n]

\* "hand-written files that happen to share output_dir are never touched"
\* (prune_stale): what a build deletes is nothing, or a file clangquill wrote
\* there since it last deleted it.
ForeignSafe == [][\A n \in Names :
    DeletePage(n) => out[dir][n] = None \/ n \in mine[dir]]_vars

\* "a page is only written when its content actually changed" (docs/usage.md):
\* no step of a build writes a file that holds the same text already.
Untouched == \A n \in BeingWritten :
    out[dir][n] # None => out[dir][n].text # rendered[n]
=============================================================================
