# Clangquill in TLA+

Clangquill parses C++ headers with libclang, stores what it finds in a SQLite
database (the *IR*), and renders the IR to Markdown pages.  With a cache
directory a build is incremental: it keeps the IR and a bookkeeping database
between runs and reuses as much of the previous parse and render as it can.
The state that survives a build (two databases, a page directory, a lock file, a
log), the files that change under it, the threads of a parse, and the pages a
render plans and replays are what this project models.  Paths below are relative to the repository's root.

## 1. Inventory

| Component | State | Operations | What makes it correct |
|---|---|---|---|
| Incremental build: `pipeline.py` `_incremental_build`, `cache.py` | the IR; tables `meta`, `inputs`, `tu_inputs`, `outputs`, `page_cache`; the pages | scan and heal, noop, full parse, partial parse, record, render, record | the pages are those of a stateless build; a second build does nothing; a crash or a lost store never makes a later build wrong |
| Build lock: `_lock.py` | lock on a file, its content, a deadline per waiter | poll, time out, stamp, release, die | one build at a time; nobody waits for ever; a dead holder blocks nobody |
| Parser pool: `parser.cpp` `parse_files` | slots, counter, two condition variables, stop flag | claim, parse, publish, wait, take, write, stop, join | each batch once, in canonical order, whatever the job count; bounded backlog; no deadlock; no thread outlives the call |
| Digests and closures: `parser.cpp` `record_file`, `include_closure` | a process-wide memo of digests keyed by stat | record a unit's files | the digest is that of the bytes parsed |
| Outputs: `pipeline.py` `_apply_outputs`, `_outputs_intact`, `prune_stale` | pages, `outputs` table, manifest | write changed, delete vanished, verify, prune | every page of the render and no other page of ours |
| Page cache and page planning: `generator.py`, `store.py`, `_rendered_files` | table `page_cache` | plan pages and stems, fingerprint, replay, render | every symbol on one page; no two pages one file; a replayed page is the page a render would give |
| Diagnostics: `pipeline.py`, `parser.cpp`, `_report_strict`, `_enforce_strict` | the render summary, a log file | capture, merge, carry forward, replay, log, judge | a partial build reports what a full one would; a strict build fails on a dirty tree, and only then |
| IR store: `sqlite_store.cpp`, `module.cpp`, `store.py` | the database file, its write-ahead log, temporary siblings; tables of symbols, files, references, groups, modules | full write, streamed write, `write_tus`, drop | a partial write leaves the rows of a full one; readers see old or new |
| AST visitor, references: `ast_visitor.cpp`, `cursor_utils.cpp` | rows under construction | visit | one row per entity, whichever unit saw it |
| Comments: `comment/*.cpp`, `doxygen_comment_parser.cpp`, `comments.py` | none | text to fields | pure function |
| Compilation database: `compile_db.cpp` | none after loading | lookup, filter flags | pure function |
| Hashes: `hash/*.cpp` | none | SHA-256 | pure function |
| Configuration, CLI, Sphinx | none between calls | validate, call `build()` | arguments reach `build()` |

How they interact: `build()` resolves the inputs, takes the **build lock** of the
cache directory and runs `_incremental_build` under it.  That scans the files the
bookkeeping tracks, and calls the core for a full parse (`parse_to_sqlite` into
a temporary database that replaces the IR) or a partial one (`parse_tus_to_sqlite`
into the IR in place).  Both run the **parser pool**; a full parse streams each
batch to the **IR store** while later batches are still being parsed.  The
bookkeeping is then advanced in one transaction, the pages are rendered from the
IR and compared with the **outputs** index, and a last transaction records the
render.  Source files may be saved at any moment, by people who know nothing of
all this; a build may be killed at any moment.

`PROJECT.json` lists the hazards of this code, each at its line, with the
properties that guard it.

## 2. Modules

| Module | What it is |
|---|---|
| `IncrementalBuild` | one cache directory, its source tree, and the builds that run on it one after the other |
| `IncrementalBuildInv` | the inductive invariant `IInv` and the conditions `Quiet` under which it is one |
| `IncrementalBuildProofs` | theorems about `IncrementalBuild` |
| `OutputSync` | the output directories, their lists (outputs table, manifest, page cache), and the builds and people that write there |
| `OutputSyncProofs` | theorems about `OutputSync` |
| `PagePlan` | pure operators: the store's queries, the pages of each grouping, what each renders, the stems |
| `PageCache` | a build that plans, fingerprints, replays and renders; extends `PagePlan` |
| `PageCacheProofs` | theorems about `PageCache` |
| `Diagnostics` | what builds report, log and judge |
| `DiagnosticsProofs` | theorems about `Diagnostics` |
| `IrFile` | the IR as files: database, write-ahead log, temporary databases; one writer that may be killed |
| `IrRows` | the IR as rows: what a batch yields, what `insert_rows` makes of it; full and partial parses |
| `IrProofs` | theorems about `IrFile` and `IrRows`, which share no name (hence `FileInit`, `FileNext`, `FileSpec`) |
| `Lists`, `ListsProofs` | `Chosen`, the list comprehension with a condition; lemmas about it, `FlattenSeq`, `SetToSeq`, `FoldLeft` and recursion down a forest |
| `MCIncrementalBuild`, `MCOutputSync`, `MCParserPool`, `MCPageCache`, `MCDiagnostics`, `MCIrFile`, `MCIrRows` | values for TLC |
| `BuildLock` | the lock of one cache directory |
| `SerialBuilds` | what the lock promises: the abstract specification of `BuildLock` |
| `BuildLockProofs` | theorems about `BuildLock` |
| `ParserPool` | `parse_files`: workers, back-pressure, ordered drain, stop and join |
| `BatchStream` | what the sink is promised: the abstract specification of `ParserPool` |
| `ParserPoolProofs` | theorems about `ParserPool` |

### IncrementalBuild and the code

*Data.*  A file holds a member of `Contents`, and its SHA-256 is that member: no
property speaks of collisions.  A stat is a pair of mtime and size, because the
fast paths compare exactly these; all contents have one size in the runs, which
is the case in which only the mtime can tell an edit.  What the parser makes of
a unit is determined by the parse configuration and by what each file it
reached held, so a unit's rows are that *view*; a page set is the views of all
units and the render configuration.  Every input is a translation unit of its
own (`tu_batch = 1`), the finest interleaving of reads.  Views are independent of
one another, where in the code units share rows: what this module says is that
nothing *stale* is used, and `IrRows` has what becomes of shared rows.

| Variables | Code |
|---|---|
| `disk`, `mtime`, `now` | source tree, `st_mtime_ns`, `time.time_ns()` |
| `irState`, `irTu`, `irFiles` | `clangquill.sqlite`: absent, unreadable or usable; units' rows; `files` rows |
| `bkFp`, `bkSha`, `bkStat`, `bkDeps` | bookkeeping: parse fingerprint; `inputs.sha256`; `inputs.mtime_ns, size_bytes`; `tu_inputs` |
| `bkRender`, `bkOut` | render fingerprint and summary; `outputs` table |
| `pages` | the output directory (`Torn`: no single render wrote it) |
| `memo` | `record_file`'s process-wide table of digests |
| `pc`, `cfg`, `rcfg`, `force` | the running build and its configuration; `force`: strict mode, or the diagnostics log is gone |
| `todo`, `probe`, `changed`, `healed` | the loop of `_scan_inputs` |
| `plan`, `stale`, `started`, `tuRead`, `tuRows` | the parse: verdict, stale inputs, `parse_started_ns`, what libclang read, what `record_file` hashed |
| `outcome`, `clean` | history only: how the last build ended, whether nothing was edited or lost since it started |

| Action | Code |
|---|---|
| `StartBuild` | `build`: inputs found, lock taken; a process of its own or one that has built before |
| `ScanStat`, `ScanHash` | one file of `_scan_inputs`: stat, then (another step) hash |
| `Noop`, `ScanDone` | heals committed; the noop shortcut, or the verdict of `parse_status` and `_parse_status`, an unreadable IR being unlinked |
| `BeginParse` | `parse_started_ns` |
| `ReadTu`, `HashTu` | libclang reads a unit; `record_file` reads its files again |
| `CommitFull` | the temporary database replaces the IR |
| `CommitTus`, `AbortTus` | `write_tus` in one transaction, or no write at all if a unit failed |
| `Record` | `record_parse` or `record_partial_parse`, one transaction |
| `WritePages`, `RecordOutputs`, `RecordRender` | pages, `record_outputs`, `record_render` |
| `Fail` | a raise or a kill in a phase of `FailAt`; the pages may be left torn |
| `Edit`, `Tick`, `LoseIr`, `LoseBook`, `DamagePages` | the environment |

`HashTu` takes the stat and the bytes of a file in one step; in the code they are
two system calls, and `record_file` keeps the digest out of its memo when the
size disagrees.  The `outputs` table's own stat fast path is abstracted: an
output is intact when it is what the index says.

### OutputSync and the code

Where `IncrementalBuild` writes all pages in one step, this module takes the parse as
one step and follows every file.  An IR says for each page it has what the
fingerprints tell apart: `core` (what the narrow page fingerprint covers), `extra`
(what the wide one adds) and `entry` (its label and `top_level`, which the index
shows).  A text is the render configuration and what the templates read; a hash
is the text.  The stat of a file is abstracted to `indexed` (it is the stat in the
outputs table) and `noted` (it is the stat the running build took for the new
index); no two writes of a file are taken to leave it with one stat.  The root
document is the same in every configuration.

| Variables | Code |
|---|---|
| `tree` | what a parse would give now |
| `out`, `manifest` | per directory: its files; `.clangquill-manifest.json` (one that does not parse counts as empty) |
| `bkIr`, `bkRender`, `idx`, `pageCache` | bookkeeping: the parse, the render record, `outputs`, `page_cache` |
| `kind`, `dir`, `rc` | the running build (or the last): cached, plain (stateless) or stub (placeholder); `output_dir`; configuration |
| `ir`, `rendered`, `todo`, `cur` | its IR, its render, the outputs left to write or delete, the page whose stat is due |
| `mine` | history: the names clangquill wrote in a directory since it last deleted them |

| Action | Code |
|---|---|
| `StartCached`, `RecordParse`, `Render` | `_incremental_build` up to `_rendered_files`, which commits the page cache |
| `CheckPage`, `RestatPage` | `_outputs_intact`, one output after the other: is it intact (`_output_intact`), then the stat that will be healed |
| `RenderAnyway`, `Noop` | the first output that is not intact; all of them are (`refresh_output_stats`, `_noop_result`) |
| `StartPlain`, `StartStub` | `_full_build` up to its first write; `_write_placeholder` |
| `WritePage`, `StatPage` | one output of `_apply_outputs` (write, then stat), or of `generate` (`write_if_changed`) |
| `FindVanished`, `DeletePage` | the deletions of `_apply_outputs` (by its table) and of `prune_stale` (by the manifest) |
| `RecordOutputs`, `WriteManifest`, `RecordRender` | the ends of `_apply_outputs`, `prune_stale`, `_incremental_build` |
| `Fail` | death between two steps, in the middle of a page (`Torn`) or of the manifest |
| `HandEdit`, `EditTree`, `LoseCache` | people; the source tree; a bookkeeping database that is deleted, unreadable or of another version |

In the check as in the write, a stat is taken in a step of its own, later than the
content it is to vouch for was seen.  `StatRace` says in which of the two a person
may save the page in between.

### BuildLock and the code

Every member of `Procs` is a call of `build()` with its own descriptor.  `pc` goes
`out`, `try` (`_try_lock`), `check` (the deadline), `report` (`_read_holder`),
`raise`; or `try`, `stamp`, `build`, `wipe`, `unlock`.  `expired` holds the callers
whose deadline has passed.  `Kill` drops the lock, as the operating system
does, and leaves the file's content behind.

### ParserPool and the code

A critical section of `stream_mutex` is one step; everything else that touches
shared state is a step of its own.  A condition variable is its set of waiters:
`notify_one` removes any one of them, and a waiter may wake up by itself.
`stop` is read without the mutex in the loop condition, so after it is set each
worker may read the old value until it next takes the mutex (`unaware`).  `call` is
the call's shape: batches, threads asked for, and whether there is a sink.

### PagePlan, PageCache and the code

A row keeps what planning and rendering can tell apart: kind (kinds that planning
treats alike are one), parent, path, argument list, signature, comment,
`\relates`, references, file and line.  A name is the sequence of its
components; its slug is the words they leave (`WordsOf`), so `Duo<C>` and
`Duo<C*>` share one, and `Lower` is what a file system without case makes of
it.  A digest is the name itself.  A group's page has the name `group_<id>`
(`GroupName`), which a symbol may have too: two pages of one name are told apart by
underscores, not by digests.  The truncation of stems beyond 96 characters and the
slug `global` of a name without a word (`_slug`) are left out.

| Operators | Code |
|---|---|
| `Children`, `Roots`, `FileRoots`, `Visible`, `HasDocumentedDescendant` | the generator's methods of these names over `store.py`'s queries and their ORDER BY |
| `SymbolPages`, `FilePages`, `GroupPages`, and `ClassPages`, `ScopePages` with `HubPage`, `MemberPages` | `_plan_symbol_pages`, `_plan_file_pages`, `_emit_class_plans`, `_emit_namespace_scope` and `_emit_namespace_hub`, `_plan_group_pages` |
| `FunctionPages`, `Lumped` | `_emit_function_pages`, `_emit_lumped_page` |
| `Contested`, `Wanted`, `PlanPages` | the discovery pass and the naming pass of `plan_pages`, `_unique_stem` |
| `Text` | what the templates read: `Shows` per symbol, toctree, group, and the four parts that no key covers (`repeats`, `heads`, `arguments`, `captions`) |
| `PageFingerprint` | `page_fingerprint` as the list of its tokens |
| `Build` | `_rendered_files`: plan, key, replay or render, index, `record_pages` |

An ORDER BY is `SortedBy`: the place of a row is the number of rows that come before it.
What the generator or a template computes by recursion down the tree of symbols is a
function of the symbol or scope: `ClassPages`, `ScopePages`, and `Below`, what a listing
renders under a symbol.

A build is one step: it holds the lock, and what may happen in the middle of it is
the subject of `OutputSync`.  The variables are numbers, of the configuration
(`group_by`, undocumented symbols, wide keys), of the project and of the IR of the
last build, and the `page_cache` table.  What a render from nothing makes of an IR
depends on nothing else, so `Plans`, `ShownBy` and `Renders` are constants: a plan,
the symbols its pages show and the rows of `page_cache`, by those three numbers.

### Diagnostics and the code

| Variables | Code |
|---|---|
| `tree` | the source files |
| `book`, `summary` | parse fingerprint, digests and `tu_inputs`; the diagnostics of the render summary |
| `log` | the log file, and of which units |
| `cfg`, `cached`, `plan`, `previous`, `records`, `picture` | the running build: configuration, kind, units to parse, `previous_diagnostics`, the parse's records, `full_diagnostics` |
| `result`, `shown`, `gap` | history: what the last build reported, the last cached one, whether a death lost a summary |

| Action | Code |
|---|---|
| `Noop` | `_noop_result` |
| `StartCached`, `StartPlain` | `_incremental_build` with `_parse_status`; `_full_build` |
| `Parse` | the parse, `merge_diagnostics`, `_carry_forward_diagnostics` |
| `WriteLog` | `_write_diagnostics_log_if_any` |
| `Record` | `record_parse`, `record_partial_parse` (the summary goes) |
| `Render` | `record_render`, the return, the front end's verdict |
| `Fail`, `Edit`, `LoseLog`, `LoseCache` | a raise or a kill; the environment |

A diagnostic carries its notes (the code keeps them behind it in one list).  What
a file is told may depend on the unit.  Two conditions are named, because
`Picture` needs them and the code does not bring them about: `Located` (a diagnostic
names its file by the path that the walk of the includes has for it) and
`HeadersAgree` (what a header is told is the same, but for the notes, whichever unit
reaches it).  `MCDiagnostics` assumes them of its constants; section 4 says
what happens without.

### IrFile and the code

A parse's content is a number.  `View` is what SQLite shows a reader: the file, or
what a log next to it makes of it, and `Mixed` if the log is for another file.

| Action | Code |
|---|---|
| `BeginFull`, `Sweep`, `Rename`, `FailFull` | `write_streamed_full_parse`, straight into the IR ("direct", `parse_to_sqlite` on it) or into a temporary sibling that `_parse_into` renames ("sibling") |
| `BeginPartial`, `Commit`, `FailPartial` | `_ir_is_readable`, then `write_tus` |
| `BeginCheckpoint`, `EndCheckpoint` | the last connection closes: the log is copied and deleted |
| `Kill`, `Damage` | death in a phase of `KillAt`; a truncated file |
| `Discard` | `_parse_status` unlinks an unreadable IR |

### IrRows and the code

A parse is one step, because it is one transaction or one rename (`IrFile`).  A file
holds what the visitor takes from it: declarations with their comments, at most one
group block, includes.  The parameters, template parameters and enumerators of a symbol follow
its signature and are not rows of their own; `comment_fields` and `group_members` are
projections of a comment, so a symbol has the list of the comments they are projections of
(`projected`: twice the comment is twice the rows).  All that a foreign key deletes
with a symbol is kept with it.

| Variables | Code |
|---|---|
| `tree` | the source tree of the last parse; the bookkeeping's digests and `tu_inputs` follow from it |
| `files` | table `files` |
| `symbols` | `symbols`, `references_`, `comments`, `comment_fields`, `group_members` |
| `groups` | table `groups` |

| Action or operator | Code |
|---|---|
| `Batches`, `PartOf`, `SymbolOf`, `RawComment` | `make_batches`; one `UmbrellaParser` run: `handle_symbol`, `record_comment` |
| `GroupsOf`, `BlocksOf`, `Merged` | `ensure_group`, `merge_group_block`, `register_symbol_groups`; the upsert of a group |
| `InsertRows`, `Upserted`, `Projected` | `insert_rows` |
| `FullParse` | `parse_to_sqlite`: `write_part` batch by batch into an empty database |
| `PartialParse`, `Stale`, `Vanished`, `ReplacedFiles` | `_incremental_build`'s partial branch, `deps_only_from`, `parse_tus_to_sqlite`, `write_tus` with `drop_vanished_files` |

Two things the module keeps and no property forbids: a symbol's references pile up
with every write that does not delete its row (hence `HomedAsFull` is about symbols with
one home, `Homed`), and a partial parse never drops a group that nothing mentions any
more.  For the same reason, when one of two files that both define a group stops
doing so, the group keeps what that file said until the other is parsed again;
`GroupAsDefined` is about groups that no two inputs define at once (`Owned`).

## 3. Runs

Bounds of the `IncrementalBuild` runs: two inputs, one header that one of two contents
includes, one size for both contents, one or two configurations, a clock that
stops at `MaxTime = 2`.  Two inputs are what the interesting cases need: one stale
and one reused, sharing a header or not.  Every save (and every loss of a store)
takes a tick, so a behaviour has up to two of them and any number of builds:
build, edit, build, revert, build is within it.  Where a run has
`EditTicks = 0`, the number of saves is not bounded at all.

| Run | Question | Set-up |
|---|---|---|
| `IncrementalBuild_reuse` | does reuse ever show; is a second build a noop; do IR, bookkeeping and render record describe one another | late saves, crashes and losses together; two render configurations (interchangeable, hence the symmetry); one long-lived process, so `memo` is kept |
| `IncrementalBuild_late` | is the slack of the restat guard enough; does a failing partial parse write anything | mtimes two ticks apart, slack one tick, any number of saves within a tick, from the verdict on; an input may vanish and come back. No deadlock check: no build starts while an input is missing |
| `IncrementalBuild_watch` | do builds end; do repeated builds converge | two parse configurations, strict builds, late saves, losses; every build a process of its own |
| `BuildLock_callers` | one build at a time, with kills; does everybody get an answer; is it `SerialBuilds` | three callers: a holder, a waiter and one that comes in between |
| `ParserPool_calls` | is it `BatchStream`; bounded backlog; ownership; join | the calls of `MCParserPool`: six batches on two workers (the limit is four, so both workers reach it), more jobs than batches, one job, one batch, no sink. No deadlock check: the call returns |
| `OutputSync_repair` | are all pages right after any damage; does the next build see it from the stats alone | one directory, two pages and the index; a declared template, and a declared beside an undeclared one; cached and stateless builds in any order; three edits, deaths or losses, which is enough to die in a write, damage what was written and change the tree; people save pages while a build looks at them, and while it writes |
| `OutputSync_steady` | do pages go with their symbols; is an unchanged page left alone; are other people's files | the same pages, the bundled templates and a mixed override; cached builds first, then stateless ones and placeholders; deaths only where the lists are in step |
| `PageCache_edits` | does every page have a file of its own and a place in the tree of pages; is each symbol on one; does replay ever show; do stems move | five source trees of up to six symbols each (`MCPageCache`), every grouping, documented or all symbols, narrow and wide keys; any IR of the tree may follow any other |
| `Diagnostics_builds` | are the reports of partial builds those of whole ones; is the strict verdict right; does the log tell everything | two inputs that may share a header with a warning, an unlocated warning, three configurations, two edits or losses, deaths anywhere |
| `IrFile_kills` | do readers get what was committed last; do dead parses leave litter | up to five parses in a row, kills in every phase that heals, one damage. No deadlock check: the parses are counted |
| `IrRows_partial` | do partial parses leave the rows of a full one: files, symbols that move, comments, groups | three inputs, two to an umbrella in a full parse and all in one in a partial one; a header that some include; any tree may follow any other |

Bounds of `PageCache_edits`: each tree has what one hazard needs (three
specializations that share a slug; an index page, an `Index` class and a group whose
page's name a class has; a member defined in another file, a base that comes
and goes, a related function; one macro in two files and moving subgroups; a variable
template whose argument is spelled anew).
Two IRs in a row are what a replay needs, and the run has any number.
`Diagnostics_builds` needs two events: one makes a unit stale, the other dirties or
mends the one that is carried.  `IrFile_kills` needs three parses for a log that
outlives a second one; it has five.  The trees of `IrRows_partial` (`MCIrRows`) have a
namespace that two inputs reopen and one documents, a function that moves between two
inputs or goes, a group that one of two inputs defines and a third only names,
and a header that comes, changes and goes.

`IncrementalBuild_hash_gap` shows the first finding below.  Type invariants and the
inductive invariants are proved, so no run repeats them.

`OutputSync_repair` has no death between the output index and the render record (with
two configurations the next build may then be a noop on the wrong pages: the old
render record is still there), and, like every run, no save of a page between the look
at it, or its write, and the stat taken of it (`OutputSync_healed.cfg` has one).
`OutputSync_steady` needs its order of builds: after a loss of the bookkeeping, or
after a stateless build, a cached build rewrites pages that are already right
(it compares with its table, not with the file), although docs/usage.md says
that a page is only written when its content changed.

*Fairness.*  `FairSpec` of `IncrementalBuild` says only that a build that holds the
lock runs on; `WatchSpec` adds that somebody keeps building (a watcher, a CI
job), which `Converges` needs, the clock's bound being what stops the edits.  In
`BuildLock` a caller is scheduled and the time of a waiter passes; nothing says that
the lock comes free, so `Answered` rests on the deadline alone.  In `ParserPool`
each thread is scheduled; a woken worker runs again.  None is assumed to be
notified.

## 4. Findings

One run is refuted by TLC, against a sentence of the repository:
`IncrementalBuild_hash_gap`.  `record_file` hashes a second read of the file; a save
between libclang's read and that one is never parsed (pipeline.py:1022).

More disagreements came up.  They are not listed in PROJECT.json; TLC reports each
under the configuration that the table names, or under a listed run's with the change
that it gives.

| Property | Reproduced by | What happens |
|---|---|---|
| `IncrementalBuild.CacheHitIr` | `IncrementalBuild_unrecorded.cfg` (`"record"` in `FailAt`) | a crash between the IR and its bookkeeping, then a revert of the edit: a cache hit on the wrong IR (docs of `_render_fingerprint`, pipeline.py:659) |
| `IncrementalBuild.Fresh` | `IncrementalBuild_new_header.cfg` (`MayMiss <- TheHeader`; or `FirstInput`) | a header that did not exist is not tracked: creating it changes nothing; so for an input that could not be opened in a full parse (docs/usage.md:128) |
| `OutputSync.StatsHonest` | `OutputSync_healed.cfg` (`"check"` in `StatRace`) | `_outputs_intact` heals a page with a stat it takes after its look at the content; a page saved in between is recorded as identical, and no build notices or repairs the edit until the page's own text changes (pipeline.py:1276, "Touched-but-identical pages have their stat fast-path healed"; cache.py:569). So between a page's write and its stat (`"write"`) |
| `OutputSync.NoOrphans` | `OutputSync_switch.cfg` (builds in any order) | a cached build after a stateless one, a lost cache or a death: pages whose symbols went stay, and are then listed nowhere (docs/usage.md:138) |
| `OutputSync.ForeignSafe` | `OutputSync_foreign.cfg` (two directories) | a cached build with another `output_dir` deletes files there that only share a name with pages of the old one (pipeline.py:1344) |
| `PageCache.OneDirective` | `PageCache_directives.cfg` | of two equal declarations the one that keeps its directive changes when the other's comment or file does; the page that is replayed keeps the old choice, and there are two directives or none (`_canonical_declarations` says the choice is stable "including incremental rebuilds that replay some pages") |
| `PageCache.ArgumentsFresh` | `PageCache_arguments.cfg` | a specialized variable template whose argument is respelled (`v<Scalar>` becomes `v<double>`, the same USR): the page shows the arguments of `display_name` (`_variable_declaration`, generator.py:1126), which `content_hash` leaves out (`kSymbolHashFields`), so the old page is replayed (generator.py:2154: "`content_hash` folds in what the bundled templates render") |
| `PageCache.PadIsLastResort` | `PageCache_edits` with this invariant | two pages of one *name* (a class and a function `go`, two files `util.h`) are no rivals for `_contested`, so they are told apart by underscores, in the order of the walk (`_unique_stem` calls that the last resort) |
| `Diagnostics.PictureAlways` | `Diagnostics_builds` with this invariant | a build dies after it recorded its parse: the summary went with the old parse, and the diagnostics of the units that were not stale are reported by no cached build until they are parsed again (`BuildResult.diagnostic_records`: "the whole project's diagnostic picture") |
| `Diagnostics.Picture` | `Diagnostics_builds` without `HeadersAgree` (a header with a warning for `a.h` alone) | `b.h` alone is parsed again: the header is among the files it reaches, so the carried warning is superseded by nothing (`_carry_forward_diagnostics`, pipeline.py:530: "a previously carried diagnostic located in one of them is superseded") |
| `Diagnostics.Picture` | the same without `Located` | a diagnostic under another name of its file (the presumed name of a `#line`, or a path the walk normalises, parser.cpp:526) is superseded by no re-parse, and stays after it is fixed |
| `IrFile.Settled` | `IrFile_kills` with `<<"direct", "swept">>` in `KillAt` | a parse straight into the IR dies after it has swept the log away: the committed rows in that log are lost, or the half-copied file is left (module.cpp:257, #317) |
| `IrFile.NothingRidesAlong` | `IrFile_rides.cfg` | a partial parse dies between its commit and its checkpoint, the next full parse renames a new database under the log that is left: readers get a mixture |
| `IrRows.DocumentedOnce` | `IrRows_doubled.cfg` (`tu_batch = 1`) | a partial parse merges its batches into one module, in which a namespace that two units saw documented has its comment twice; `insert_rows` clears the old fields once and inserts both lists (its comment: rendered "once per write"; tests/test_parse_sqlite.py:466) |
| `IrRows.OthersStay` | `IrRows_wiped.cfg` | a row is anchored to one file; when that file is parsed again without it, the row goes with its comment, though inputs that were left alone declare or document it (pipeline.py:1034: "leaving every other TU's rows in place") |

`PageCache`'s `ReplayIsRender` leaves out two more parts of a page that no key covers:
the template heads of enclosing scopes that a member shows, and a hub's captions
(when `Duo<C>` becomes `Duo<C*>` alone under one stem).  `IrFile` shows another: the
temporary databases of killed cached builds are never reclaimed, because
`reclaim_stale_temp_siblings` goes by the target's name and `_parse_into` takes a new
one each time (`BoundedLitter` is about direct parses).

The assumption `Quiet` excludes what `IncrementalBuild_hash_gap`,
`IncrementalBuild_unrecorded` and `IncrementalBuild_new_header` show, and three narrower races that TLC also finds when the constants allow them: a partial
parse pairs the new stat and the old digest of a file it did not touch if that
file is saved between its scan and the start of the parse (`EditAt` with `"ready"`);
a healed stat has no restat guard, so a save in the same tick is lost
(`EditTicks = 0` with `"scan"`); and a render-only build that dies before its render
record leaves the old one over the new pages (`FailAt` with `"seal"`).

## 5. Proofs

Checked by TLAPS for every value of the constants that the named assumptions
allow.  `IncrementalBuild.ConstantsAssumption` types the constants (inputs and
headers are disjoint; `IncludesOf` maps contents to headers);
`SlackAssumption` says that the slack covers the granularity; `NoneAssumption`
says that SQL NULL is not a row, a page set, a probe or a digest;
`BuildLock.NoOneAssumption` that nobody is not a caller.  `DiagnosticsAssumption` types the
constants, says that `None` is no diagnostic, log or bookkeeping, that a location-less
diagnostic names no file, and that equal texts name equal files (they begin with
the location).  `RowsAssumption` types the source trees (`ContentOK`) and says that no
input is listed twice (`_resolve_inputs` keeps a `seen` set) and that a batch holds
at least one.  `PagesAssumption` types configurations, projects and symbols, says that the
parents of an IR form a forest (`IrOK`; a USR contains those of its scopes), that in two
IRs of one project a USR has the same scopes and a record with the same signature and
type the same argument list (`SameTree`: libclang spells that type with its arguments),
that only namespaces, records and, of enumerators, enums have children (the visitor
descends nowhere else), that the store lists a symbol's row and a file once (primary keys),
and that the root document has neither digest nor padding.

| Theorem | Says | Assuming |
|---|---|---|
| `IncrementalBuildProofs.TypeCorrect` | `[]TypeOK` | nothing more |
| `IncrementalIsFresh` | `[]Fresh`: a build with no edit during it leaves pages that are made of no stale view | `Quiet` |
| `FastPathIsHonest` | `[]FastPathHonest` | `Quiet` |
| `RenderMetaIsHonest` | `[]RenderMetaHonest` | `Quiet` |
| `CacheHitIsIr` | `[]CacheHitIr` | `Quiet` |
| `BookkeepingDescribesIr` | `[]BookDescribesIr` | `Quiet` |
| `SecondBuildIsNoop` | `[]NextIsNoop`: on a tree nobody touched a build finds nothing to do | `Quiet` |
| `NoFileIsOrphaned` | `[]NoOrphanFiles`: the IR lists exactly the files that units reach | `Quiet` |
| `RestatGuardHolds` | `[]RestatGuard`: what a full parse records is honest, however coarse the clock | `NewProcess \subseteq {TRUE}`: every build is a process of its own |
| `NoUnitIsWiped` | `NoWipe`: no partial parse empties a unit | nothing more |
| `BuildLockProofs.TypeCorrect`, `LockHeldByHolder`, `NoOverlap`, `LockFileNamesBuilder` | the safety properties of the lock | nothing more |
| `LockImplementsSerialBuilds` | `BuildLock` implements `SerialBuilds` | nothing more |
| `OutputSyncProofs.TypeCorrect` | `[]TypeOK` | nothing more |
| `StatsAreHonest` | `[]StatsHonest`: a recorded stat never vouches for other content | `StatRace = {}` |
| `PagesAreRight` | `[]PagesRight`: reuse never shows in the pages | `Sealed` |
| `SecondBuildIsNoop` | `[]NextIsNoop`: the next build takes the shortcut and reads no page | `Sealed` |
| `NoPageIsOrphaned` | `[]NoOrphans` | `Orderly` |
| `UnchangedIsUntouched` | `[]Untouched`: no page is rewritten with the text it has | `Orderly` |
| `ForeignIsSafe` | `ForeignSafe`: what a build deletes is clangquill's | `Orderly` |
| `IrProofs.FileTypeCorrect` | `[]TypeOK` of `IrFile` | `IrFileAssumption` |
| `IrIsSettled` | `[]Settled`: between writers, readers get what was committed last | `IrFileAssumption`, `Heals` |
| `LitterIsBounded` | `[]BoundedLitter` | `IrFileAssumption` |
| `FilesAreAsFull` | `[]FilesAsFull`: the `files` table is that of a full parse | `RowsAssumption` |
| `HomedRowsAreAsFull` | `[]HomedAsFull`: a symbol with one home has the rows of a full parse, wherever it moves, and none when it is gone | the same |
| `GroupsAreAsDefined` | `[]GroupAsDefined`: a group has the text of its `\defgroup`, whoever writes last; memberships name groups that are there | the same |
| `CommentsAreShownOnce` | `[]DocumentedOnce`: a symbol that one input documents has that comment, projected once, however many inputs declare it | and `Gathered` |
| `ParserPoolProofs.TypeCorrect` | `[]TypeOK` | `ParserPoolAssumption` |
| `BacklogIsBounded` | `[]BoundedBacklog` | the same |
| `SlotsHaveOneOwner` | `[]SlotsAreOwned` | the same |
| `ThreadsEndFirst` | `[]NoThreadOutlives` | the same |
| `StreamsInOrder` | the safety part of `Streams`: every step is one of `BatchStream` or a stutter | the same |
| `DiagnosticsProofs.StrictVerdictIsWhole` | `[]StrictIsWhole`: what a strict build reports is a whole parse of the tree as it is | `DiagnosticsAssumption` |
| `StrictIsHonest` | `[]StrictHonest`: it fails exactly when the tree has a warning | the same |
| `LogsTold` | `LogTold`: a build's log has every warning that was not reported before | the same |
| `ReportsPicture` | `[]Picture`: partial builds report what a whole parse would, each diagnostic once | and `Located`, `HeadersAgree` |
| `PageCacheProofs.PagesAreFiles` | `[]DistinctFiles`: no two pages of a plan share a file, and none takes `index` or the diagnostics page, in a file system without case too | `PagesAssumption` |
| `StemsAreStable` | `StemStable`: a page whose name nobody else wants keeps its stem, whatever else was edited | the same |
| `ReplaysAreRenders` | `[]ReplayIsRender`: what is replayed, page or index, has the body that a render from nothing would give it | the same |
| `SymbolsAreShownOnce` | `[]EachOnce`: under every grouping no symbol is rendered twice, on one page or on two, and none that is to be shown is left out | the same |
| `PagesAreLinked` | `[]Linked`: the toctrees as written, replayed or not, list each page once and lead to all of them; no subgroup link dangles | the same |

*The argument.*  `Fresh` speaks only of the end of a build; what makes it true is what
every earlier build left behind.  `IInv` says, phase by phase: every recorded
stat is a *witness* (it lies in the past, and as long as the file still has that
stat it still has the recorded content: `StatInv`); the recorded digests and
dependencies are *closed* (they are exactly an include closure: `BookInv`); the IR is
the views that the bookkeeping describes, except in the window between them
(`IrInv`); so is the output index, as long as the render record stands
(`RenderInv`).  During a scan every tracked file is still to do, known to differ,
or as recorded (`ScanInv`); from there to the parse every difference belongs to a
unit that will be parsed (`PlanInv`); what the parse wrote is closed again
(`RecordInv`).  The step where most could go wrong is `CommitTus`: the rows of
re-parsed units merged into an IR whose other rows were written earlier.  Lemma
`CommitTusStep` shows that the result is, unit by unit, the view a full parse would
have, and no file more or less in the IR.  (Units that share a symbol share its rows:
there a partial parse can differ from a full one, see `IrRows` and section 4.)  It
needs `Dropped` in both directions: a file reached by re-parsed units only goes
unless they reach it again; one reached by another unit stays.

`NextIsNoop` is kept by `NoopStays`: a build succeeds by the shortcut or by its render
record, and `IInv` gives that either leaves nothing to do; a save, a loss, a death or
a new build ends `Succeeded` or `clean`.  `NoFileIsOrphaned`
keeps `FilesMatch` in every phase: a commit of units drops a file exactly when the
units that reached it no longer do.

`RestatGuardHolds` is not under `Quiet`: files may be saved, come and go and builds may
die at any moment, on a clock of any granularity.  `GuardInv` follows a content from
the parser's read to the record: *whatever was read since the parse began is still
there, or the file was saved too late for its stat to be recorded* (`Guarded`).
`SlackAssumption` is what makes the truncated time of a save late enough
(`TruncatedLate`), and a process of its own is what keeps digests of earlier builds
out of `memo`.

`StatsAreHonest` rests on `StatInv`: only the running cached build notes a stat, while it
looks at the outputs or between its first write and its new index, and only of a file
that holds what its row will say (`Due`: what the row says already, in a look; what was
rendered, in a write); and the page whose stat is due holds it too.  The second part
is where a save in between would break it, as `OutputSync_healed` shows.

Whatever dies, is lost or is saved by hand, and wherever, `JobInv` holds: a row of the page
cache holds what its key says (`CacheInv`), which is right for a page because the key
covers what the templates read whenever pages are memoised (`KeyCovers`); where a
build is says what it has (`PhaseInv`); and while a render record stands, the outputs
table lists the outputs of the recorded parse, though perhaps with the texts of another
configuration (`TableInv`).

`Sealed` says `StatRace = {}` and that no build dies between its output index and its render
record; deaths anywhere else, saves by hand, lost page caches and any order of
builds, directories and configurations remain.  `SyncInv` then adds that the outputs table
is that of the render record, texts included, as long as that stands (`IndexInv`), and
that what is written and not to do is as wanted (`DirInv`).

`Orderly` takes one directory, cached builds before the others, no lost page cache, no
save between a look and its stat (`StatRace = {}`), and deaths before the first write or
between manifest and render record: what `OutputSync_steady` runs with.  Then manifest, outputs table and the
files that are not a person's list the same names at rest (`ListInv`, `MadeInv`), what a
build writes or deletes is clangquill's (`OwnInv`), and its texts are those of the table
(`TextInv`).  A build that dies before its render record breaks `IndexInv`, so this
argument rests on `JobInv` instead: a noop needs the names in the table, not their texts.

`IrIsSettled` rests on `ViewInv`: in every phase but one readers are served with what
was committed last, and a cached build finds no log it did not write itself.
The second part is what a kill after the commit breaks, hence `Heals`; `LogInv` is
needed because a log written over damaged content can only hold damaged content.

`FilesAreAsFull` splits the files of a partial parse into those that fresh units reach,
those that only stale units reached, and the rest: an input that is not stale has
the closure it had (`ClosureStays`), so what it reaches is there under the content it has.

The theorems about symbols and groups have four layers, each for lists of any length.
*Batches*: whatever the flags, `make_batches` puts each input in exactly one place
(`BatchesHold`).  *A batch*: a symbol with one home gets one row, with that home's comment
(`SymbolOfHome`); the row of a group is its `\defgroup`'s if that is in the batch, and of
no `\defgroup` if not (`BatchDefines`, `BatchDefinesNot`).  *A module*: a row that comes
once is written as it is (`NewRows`), a symbol that no part has keeps its rows
(`OldRows`), and a `\defgroup` survives every merge, in whichever order (`MergedTakes`,
`MergedKeeps`).  *A build*: `HomeInv` and `GroupInv` replace "as a full parse" by what the
home or the definer says (`HasHome`, `HasGroup`), for a full parse by induction over its
parts, for a partial one by whether the home is stale.  If it is, the old rows go: the old
home was stale too, or the symbol would have two.  If not, neither
`ReplacedFiles` nor `Vanished` has it (`ReplacesStale`, `OthersAre`) and no part brings
the symbol.  `FoldLeft` cannot have a lemma for every operator; `ListsProofs` has its
operator as a constant, `Op`, and `IrProofs` instantiates it once for each fold.

`DocumentedOnce` is false in general (section 4), and `Gathered` names what it needs: only
inputs document the symbol (a batch without one takes the comment of a header that it
reaches); no partial parse has it in two batches (`IrRows_doubled`); and no input stops to declare it
while another goes on documenting it (`IrRows_wiped`).  The constants of `IrRows_partial`
satisfy all three, with a namespace that two inputs declare and one documents and a
function that moves between inputs.  `DocInv` adds that every row is *anchored to an input that declares its symbol*.
So when a partial parse has the symbol (in one batch, which reaches the comment,
`RawOfSole`), what it writes replaces the comment and its projections (`SaidTaken`); when
it has not, no stale input declared it, the anchor is not stale, and the rows stay as they
are (`PartialSays`).  In a full parse each batch that has the symbol says the same again,
in a write of its own (`FullSays`).

The theorems about `ParserPool` hold for any number of threads and batches.  `PoolInv`
says who holds what: a claimed batch is held by one worker or published (`WorkerInv`),
the caller has delivered exactly the batches before `want` (`CallerInv`), and what
is taken lies before it (`TakenInv`).  `BoundedBacklog` needs more, because a worker looks at
the limit only after it has published: `BacklogInv` counts, with the batches that are
published and not taken, the workers that are still `Coming`, who may publish one
more before they look.

The theorems about `Diagnostics` read a list as what it *tells*: its set of diagnostics
without their notes, from a severity up (`Told`).  Merging, capturing and flattening are
first shown to act on that set, and merging to leave no identity twice;
then lists go, and `CarriedIsWhole` is about sets: what was told of the files that stale
units neither reach nor alone reached, and what they are told now, is what all units
are told now.  `PictureInv` says that bookkeeping and summary are of one tree (`Kept`),
that a build re-parses what that tree and the present one differ in (`Carried`), and
where its picture is (`Pictured`, `Settled`, `Reported`).  Where a lemma needs an
induction over a list, it takes a least counterexample instead: the first entry
of an identity, the partial results of `FlattenSeq` as a function that is chosen.
`LogTold` needs `LogInv` alone: a cached build either replays or carries forward what was
`shown`, or has it from its own parse, and that is in the log from when it is written.

The theorems about `PageCache` speak of any IR whose parents form a forest, any names
and any slugs.  First the plan must be a list at all.  The planner recurses down the
forest; `Recursion` of `ListsProofs` shows that a recursion in which a value depends on
the children's only has a solution, so `ClassPages` and `ScopePages` are what their
definitions say (`ClassPagesAre`, `ScopePagesAre`, `BelowIs`), and that each of their values is a
list follows by a least counterexample in the forest.  Sorting is right because distinct
rows take distinct places, which fill `1..n` (`PlacesAreTaken`, `SortedByHasEntries`).
Then names: a page's padding is the number of earlier claims on its folded stem, so two
pages of one folded stem differ in it, and `Reserved` is claimed before any page
(`PaddingFacts`, `StemsAreFiles`).  A page that is alone with its slug and digest has no
padding, unless it steps aside for `Reserved` (`AlonePads`), and whether a digest is in its stem depends on which names the
other pages have, not on their order (`StemOfName`): that is `StemStable`.

`ReplayIsRender` needs the invariant `ReplayInv`: every row of `page_cache` was rendered
from *some* IR of the project, perhaps builds ago, and the rows have the stems and keys
of the last build.  What is left is that a key fixes the body (`KeyFixesBody`), for any
two IRs.  A fingerprint is one long list of tokens; a symbol may have any number of them,
and so may a reference.  It can be read in one way only, because each token's tag says
which part it is of: `OneSplit` cuts a list where the tags of one part end, `ToldBlocks`
cuts it at each tag that begins a block.  So equal fingerprints have equal parts
(`FingerprintFixesParts`), the same symbols in order (`TokensFixPage`) and the same
references, related functions and values of each (`TokensFixParts`, `TokensFixShows`).
The name of a page is not in its key: that it is fixed as well follows from how each walk
names pages, for their file or for the symbol that heads them (`GoodPage`, `WalkIs`;
one lemma for each emitter of the planner, by a least counterexample down the forest).
The argument lists of variables, which the key does not cover, are in no body:
proving this lemma showed that they must not be.

`EachOnce` is a fact about plans, and `ReplayInv` is not needed for it.  Each symbol has a
tree: itself and what is visible below it.  Trees of siblings are apart
(`TreesAreApart`), so pages that each show part of a tree of their own can be put together
in any number (`Tiles`: none shows a symbol twice, none shows one outside its trees;
`Fits`: and with a container all that is in it).  There is one lemma for each emitter:
`SymbolPagesTile`, `FilePagesTile`, `LumpedFits` for the buckets, `FunctionPagesFit` for the
overloads of a name, `NamespacePageTiles`, `HubPageTiles`.  The two walks that recurse
(`ClassPagesTile`, `ScopesTile`) take a least container whose pages do not tile its tree.
A file's pages are the exception: a member of a record may be declared in another file,
so what a page of a file shows is cut to the file first (`FilePageOnce`).

`Linked` is about what is on disk, so it does need `ReplayInv`: a replayed page or index
has the body of a new one, and its toctree is in the body.  In a plan each page has a place
to hang from: the index, or the hub of its namespace, and that hub is a *later* page of
the plan, because `_emit_namespace_hub` appends it after what is below (`Hung`, `ScopesHang`).  No page hangs
from two: two hubs of one namespace would both show it (`HubsApart`, from `WalkTiles`).  So
the toctrees tile the stems (`ListedIs`), and since every page is listed by a later one or
by the index, page `i` of `n` is reached in `n + 1 - i` steps (`AllReached`).  A group has a
page even if it is empty (`GroupsHavePages`): that is why links to subgroups do not dangle.

*Not provable here.*  Liveness (`BuildEnds`, `Converges`, `Answered`, `Streams`' last
conjunct) and anything about ENABLED stay with TLC.

*Model-checked only.*  The liveness properties.  Every invariant and every action
property of a passing run is a theorem.

## 6. Not modelled

`PROJECT.json` has a row with the reason for every component.  In short: the
translation of one cursor, the comment parser, the compilation database and SHA-256 are pure
functions of their input; configuration, CLI and Sphinx extension hold no state
between builds.  Of the generator, the text of a directive (`_qualify`, the repair of
libclang's spellings, comments and wrapping) is taken as the signature it is made of.
Of the diagnostics, two builds that write one log at once (each renames a whole
file) and the nested records of a recovered parse are left out.  Of the store, the
whole-module `write`, which only tests call.  Of the parser pool, the fallback from an
umbrella to single inputs, the recovery from a crash of libclang, and a worker's `Parser`
constructor that throws: it stands outside the worker's `try` (parser.cpp:1290) and would
end the process.

## 7. Plan

1. Operators: compilation database lookup, comment blocks, each against a reference
   definition over bounded inputs; stem truncation.
2. Composition: `BuildLock` with `IncrementalBuild`, inputs being resolved before
   the lock; `IncrementalBuild` refining a stateless build.
