-------------------------- MODULE IncrementalBuild --------------------------
(***************************************************************************)
(* One cache directory of clangquill, and the builds that run on it one    *)
(* after the other (BuildLock is what serialises them).  A build scans the *)
(* tracked files, re-parses all, some or none of the translation units,    *)
(* moves the new IR into place, records the parse in the bookkeeping       *)
(* database, renders, and records the render.  Between any two of these    *)
(* steps a source file may be edited and the build may die.                *)
(*                                                                         *)
(* A file's bytes are a member of Contents; the SHA-256 of a file is taken *)
(* to be its content, and a stat is the pair of mtime and size.  A         *)
(* translation unit's contribution to the IR is the view it was parsed     *)
(* from: the parse configuration and the content of every file it reached. *)
(* A page is what the templates make of such a view, so the pages are the  *)
(* views themselves and the render configuration.  One input is one        *)
(* translation unit (tu_batch = 1, the finest interleaving).  Views of     *)
(* different units are independent, so what is said here is that nothing   *)
(* stale is used; the rows that units share are the subject of IrRows.     *)
(***************************************************************************)
EXTENDS Integers

CONSTANTS
    NumInputs,    \* the resolved inputs, numbered in canonical parse order
    Headers,      \* every other file a translation unit can reach
    Contents,     \* what a file can hold
    SizeOf,       \* size in bytes of each content
    IncludesOf,   \* the headers an input with this content #includes
    ParseCfgs,    \* values of the parse fingerprint
    RenderCfgs,   \* values of the render fingerprint
    None,         \* SQL NULL, a missing row, a missing file
    Torn,         \* an output directory that no single render wrote
    Granularity,  \* clock ticks per representable mtime
    Slack,        \* _MTIME_GRANULARITY_NS, in clock ticks
    EditTicks,    \* clock ticks that pass in one edit (0: many edits per tick)
    MaxTime,      \* bound: the clock stops here
    EditAt,       \* the build phases during which files may be edited
    FailAt,       \* the build phases in which a build may die
    MayMiss,      \* the files that can be missing from the tree
    ForceFull,    \* values of "strict mode is on, or the configured log is gone"
    NewProcess,   \* whether a build can, or must, run in a process of its own
    Damage        \* which stores may be lost between two builds

Inputs == 1..NumInputs
Files == Inputs \union Headers
Phases == {"idle", "scan", "ready", "parse", "record", "write", "index", "seal"}
Stats == Nat \X Nat

ASSUME ConstantsAssumption ==
    /\ NumInputs \in Nat \ {0}
    /\ Inputs \intersect Headers = {}
    /\ SizeOf \in [Contents -> Nat]
    /\ IncludesOf \in [Contents -> SUBSET Headers]
    /\ None \notin Contents \union ParseCfgs \union RenderCfgs \union Stats
    /\ Torn # None
    /\ Granularity \in Nat \ {0} /\ Slack \in Nat /\ EditTicks \in Nat
    /\ MaxTime \in Nat
    /\ EditAt \subseteq Phases /\ FailAt \subseteq Phases \ {"idle"}
    /\ MayMiss \subseteq Files
    /\ ForceFull \subseteq BOOLEAN /\ NewProcess \subseteq BOOLEAN
    /\ Damage \subseteq {"ir", "book", "pages"}

\* The slack covers the coarsest timestamp (the comment on _MTIME_GRANULARITY_NS).
ASSUME SlackAssumption == Slack >= Granularity - 1

VARIABLES
    now, disk, mtime,                       \* clock and source tree
    irState, irTu, irFiles,                 \* clangquill.sqlite
    bkFp, bkSha, bkStat, bkDeps,            \* clangquill-cache.sqlite: the parse
    bkRender, bkOut,                        \* clangquill-cache.sqlite: the render
    pages,                                  \* the output directory
    memo,                                   \* record_file's process-wide digests
    pc, cfg, rcfg, force,                   \* the running build and its config
    todo, probe, changed, healed,           \* ... its scan
    plan, stale, started, tuRead, tuRows,   \* ... its parse
    outcome, clean                          \* history: see Fresh

world == <<now, disk, mtime>>
ir == <<irState, irTu, irFiles>>
bookParse == <<bkFp, bkSha, bkStat, bkDeps>>
bookRender == <<bkRender, bkOut>>
job == <<cfg, rcfg, force>>
scan == <<todo, probe, changed, healed>>
parse == <<stale, started, tuRead, tuRows>>
vars == <<world, ir, bookParse, bookRender, pages, memo, pc, job, scan, plan,
          parse, outcome, clean>>

-----------------------------------------------------------------------------
(* Values.                                                                 *)

NoRows == [f \in Files |-> None]
NoView == [cfg |-> None, src |-> NoRows]
Rows == [Files -> Contents \union {None}]
Views == [cfg : ParseCfgs \union {None}, src : Rows]
PageSets == [rcfg : RenderCfgs, tu : [Inputs -> Views]]
Probes == [file : Files, stat : Stats]
Digests == [stat : Stats, sha : Contents]

ASSUME NoneAssumption == None \notin Rows \union PageSets \union Probes \union Digests

\* The files the parser reaches from input i as the tree stands.
Reached(i) ==
    IF disk[i] = None THEN {}
    ELSE {i} \union {h \in IncludesOf[disk[i]] : disk[h] # None}

\* What the parser makes of input i under configuration c, as the tree stands.
ViewNow(i, c) ==
    [cfg |-> c, src |-> [f \in Files |-> IF f \in Reached(i) THEN disk[f] ELSE None]]

DepsOf(view) == {f \in Files : view.src[f] # None}

StatNow(f) == <<mtime[f], SizeOf[disk[f]]>>
Truncated(t) == t - (t % Granularity)
Tracked == {f \in Files : bkSha[f] # None}

TypeOK ==
    /\ now \in Nat
    /\ disk \in [Files -> Contents \union {None}]
    /\ mtime \in [Files -> Nat]
    /\ irState \in {"none", "corrupt", "ok"}
    /\ irTu \in [Inputs -> Views]
    /\ irFiles \in Rows
    /\ bkFp \in ParseCfgs \union {None}
    /\ bkSha \in Rows
    /\ bkStat \in [Files -> Stats \union {None}]
    /\ bkDeps \in [Inputs -> SUBSET Files]
    /\ bkRender \in RenderCfgs \union {None}
    /\ bkOut \in PageSets \union {None}
    /\ pages \in PageSets \union {None, Torn}
    /\ memo \in [Files -> Digests \union {None}]
    /\ pc \in Phases
    /\ cfg \in ParseCfgs
    /\ rcfg \in RenderCfgs
    /\ force \in BOOLEAN
    /\ todo \subseteq Files
    /\ probe \in Probes \union {None}
    /\ changed \subseteq Files
    /\ healed \in [Files -> Stats \union {None}]
    /\ plan \in {"full", "partial", "render"}
    /\ stale \subseteq Inputs
    /\ started \in Nat
    /\ tuRead \in [Inputs -> Views]
    /\ tuRows \in [Inputs -> Rows \union {None}]
    /\ outcome \in {"none", "running", "failed", "noop", "built"}
    /\ clean \in BOOLEAN

-----------------------------------------------------------------------------
Init ==
    /\ now = 0
    /\ disk \in [Files -> Contents \union {None}]
    /\ \A f \in Files \ MayMiss : disk[f] # None
    /\ mtime = [f \in Files |-> 0]
    /\ irState = "none" /\ irTu = [i \in Inputs |-> NoView] /\ irFiles = NoRows
    /\ bkFp = None /\ bkSha = NoRows /\ bkStat = NoRows
    /\ bkDeps = [i \in Inputs |-> {}]
    /\ bkRender = None /\ bkOut = None
    /\ pages = None
    /\ memo = NoRows
    /\ pc = "idle"
    /\ cfg \in ParseCfgs /\ rcfg \in RenderCfgs /\ force = FALSE
    /\ todo = {} /\ probe = None /\ changed = {} /\ healed = NoRows
    /\ plan = "render" /\ stale = {} /\ started = 0
    /\ tuRead = [i \in Inputs |-> NoView] /\ tuRows = [i \in Inputs |-> None]
    /\ outcome = "none" /\ clean = FALSE

-----------------------------------------------------------------------------
(* The source tree, the clock and the stores, as others change them.       *)

Tick ==
    /\ now < MaxTime
    /\ now' = now + 1
    /\ UNCHANGED <<disk, mtime, ir, bookParse, bookRender, pages, memo, pc, job,
                   scan, plan, parse, outcome, clean>>

\* An editor saves c over f (or touches it, or removes it).
Edit(f, c) ==
    /\ pc \in EditAt
    /\ now + EditTicks <= MaxTime
    /\ c = None => f \in MayMiss
    /\ now' = now + EditTicks
    /\ disk' = [disk EXCEPT ![f] = c]
    /\ mtime' = [mtime EXCEPT ![f] = Truncated(now')]
    /\ clean' = (clean /\ c = disk[f])
    /\ UNCHANGED <<ir, bookParse, bookRender, pages, memo, pc, job, scan, plan,
                   parse, outcome>>

Damaging(store) ==
    /\ pc = "idle" /\ store \in Damage
    /\ now < MaxTime /\ now' = now + 1
    /\ UNCHANGED <<disk, mtime, memo, pc, job, scan, plan, parse, outcome>>

\* The IR is deleted, or left truncated or at another schema version.
LoseIr ==
    /\ Damaging("ir")
    /\ irState' \in {"none"} \union (IF irState = "none" THEN {} ELSE {"corrupt"})
    /\ irTu' = [i \in Inputs |-> NoView] /\ irFiles' = NoRows
    /\ clean' = FALSE
    /\ UNCHANGED <<bookParse, bookRender, pages>>

\* BuildCache.open discards a corrupt bookkeeping database, or one of another
\* CACHE_VERSION, and starts from an empty one.
LoseBook ==
    /\ Damaging("book")
    /\ bkFp' = None /\ bkSha' = NoRows /\ bkStat' = NoRows
    /\ bkDeps' = [i \in Inputs |-> {}]
    /\ bkRender' = None /\ bkOut' = None
    /\ clean' = FALSE
    /\ UNCHANGED <<ir, pages>>

DamagePages ==
    /\ Damaging("pages") /\ pages # None
    /\ pages' = Torn
    /\ clean' = FALSE
    /\ UNCHANGED <<ir, bookParse, bookRender>>

-----------------------------------------------------------------------------
(* The scan: _parse_status, parse_status, _scan_inputs.                    *)

\* Mutants of Usable: the fingerprint, or the IR file, is not looked at.
UsableAnyCfg(c) == irState # "none" /\ Tracked # {}
UsableNoIr(c) == bkFp = c /\ Tracked # {}

\* The bookkeeping describes this configuration and there is an IR to reuse.
Usable(c) == irState # "none" /\ bkFp = c /\ Tracked # {}

\* The inputs whose translation unit pulled f in, last time it was parsed.
OwnersOf(f) == {i \in Inputs : f \in bkDeps[i]}

\* A build gets the lock.  _resolve_inputs has found every input.  It runs in a
\* new process, or in one that has built before (fresh = FALSE).
StartBuild(c, r, strict, fresh) ==
    /\ pc = "idle"
    /\ \A i \in Inputs : disk[i] # None
    /\ cfg' = c /\ rcfg' = r /\ force' = strict
    /\ memo' = IF fresh THEN NoRows ELSE memo
    /\ todo' = IF Usable(c) THEN Tracked ELSE {}
    /\ pc' = "scan"
    /\ outcome' = "running" /\ clean' = TRUE
    /\ UNCHANGED <<world, ir, bookParse, bookRender, pages, probe, changed,
                   healed, plan, parse>>

\* One tracked file is stat'd: it is gone, or its stat is the recorded one and
\* its content is not looked at, or it has to be hashed.
ScanStat(f) ==
    /\ pc = "scan" /\ probe = None /\ f \in todo
    /\ todo' = todo \ {f}
    /\ \/ /\ disk[f] = None
          /\ changed' = changed \union {f}
          /\ UNCHANGED probe
       \/ /\ disk[f] # None
          /\ bkStat[f] = StatNow(f)
          /\ UNCHANGED <<changed, probe>>
       \/ /\ disk[f] # None
          /\ bkStat[f] # StatNow(f)
          /\ probe' = [file |-> f, stat |-> StatNow(f)]
          /\ UNCHANGED changed
    /\ UNCHANGED <<world, ir, bookParse, bookRender, pages, memo, pc, job,
                   healed, plan, parse, outcome, clean>>

\* The file stat'd last is hashed: unchanged content heals its recorded stat.
ScanHash ==
    /\ pc = "scan" /\ probe # None
    /\ IF disk[probe.file] = bkSha[probe.file]
       THEN /\ healed' = [healed EXCEPT ![probe.file] = probe.stat]
            /\ UNCHANGED changed
       ELSE /\ changed' = changed \union {probe.file}
            /\ UNCHANGED healed
    /\ probe' = None
    /\ UNCHANGED <<world, ir, bookParse, bookRender, pages, memo, pc, job, todo,
                   plan, parse, outcome, clean>>

\* The verdict on the cached parse, before the IR itself is looked at.
Verdict ==
    IF force \/ ~Usable(cfg) \/ (\E f \in changed : OwnersOf(f) = {}) THEN "full"
    ELSE IF changed = {} THEN "render"
    ELSE "partial"

HealedStats == [f \in Files |-> IF healed[f] # None THEN healed[f] ELSE bkStat[f]]

\* Mutant of NoopNow: the outputs are not verified.
NoopUnverified == Verdict = "render" /\ irState = "ok" /\ bkRender = rcfg

\* The parse is current, so is the render, and the outputs are intact.
NoopNow == Verdict = "render" /\ irState = "ok" /\ bkRender = rcfg
           /\ bkOut # None /\ pages = bkOut

Idle(result) ==
    /\ pc' = "idle"
    /\ outcome' = result
    /\ todo' = {} /\ probe' = None /\ changed' = {} /\ healed' = NoRows
    /\ plan' = "render" /\ stale' = {} /\ started' = 0
    /\ tuRead' = [i \in Inputs |-> NoView] /\ tuRows' = [i \in Inputs |-> None]

ScanFinished == pc = "scan" /\ todo = {} /\ probe = None

Noop ==
    /\ ScanFinished
    /\ NoopNow
    /\ bkStat' = HealedStats
    /\ Idle("noop")
    /\ UNCHANGED <<world, ir, bkFp, bkSha, bkDeps, bookRender, pages, memo, job,
                   clean>>

\* An unreadable IR is unlinked and the build falls back to a full parse.
ScanDone ==
    /\ ScanFinished
    /\ ~NoopNow
    /\ bkStat' = HealedStats
    /\ LET discard == Verdict # "full" /\ irState = "corrupt" IN
         /\ irState' = IF discard THEN "none" ELSE irState
         /\ plan' = IF discard THEN "full" ELSE Verdict
         /\ stale' = CASE plan' = "full" -> Inputs
                       [] plan' = "partial" -> UNION {OwnersOf(f) : f \in changed}
                       [] OTHER -> {}
    /\ changed' = {} /\ healed' = NoRows
    /\ pc' = "ready"
    /\ UNCHANGED <<world, irTu, irFiles, bkFp, bkSha, bkDeps, bookRender, pages,
                   memo, job, todo, probe, started, tuRead, tuRows, outcome, clean>>

-----------------------------------------------------------------------------
(* The parse: _parse_into, _parse_tus_into and, below them, parse_inputs.  *)

\* parse_started_ns is read after the scan and before libclang runs.
BeginParse ==
    /\ pc = "ready"
    /\ started' = now
    /\ pc' = IF plan = "render" THEN "write" ELSE "parse"
    /\ UNCHANGED <<world, ir, bookParse, bookRender, pages, memo, job, scan, plan,
                   stale, tuRead, tuRows, outcome, clean>>

\* libclang reads input i and everything it reaches.
ReadTu(i) ==
    /\ pc = "parse" /\ i \in stale /\ tuRead[i] = NoView
    /\ tuRead' = [tuRead EXCEPT ![i] = ViewNow(i, cfg)]
    /\ UNCHANGED <<world, ir, bookParse, bookRender, pages, memo, pc, job, scan,
                   plan, stale, started, tuRows, outcome, clean>>

\* Mutant of Digest: a remembered digest is reused whatever the stat says.
DigestByPath(f) == IF disk[f] = None THEN None
                   ELSE IF memo[f] # None THEN memo[f].sha ELSE disk[f]

\* The digest record_file returns for f: the one remembered for this stat, or
\* that of the bytes now on disk; none when the file cannot be opened.
Digest(f) ==
    IF disk[f] = None THEN None
    ELSE IF memo[f] # None /\ memo[f].stat = StatNow(f) THEN memo[f].sha
    ELSE disk[f]

\* After libclang is done with i, record_file opens each file it reached again.
HashTu(i) ==
    /\ pc = "parse" /\ i \in stale /\ tuRead[i] # NoView /\ tuRows[i] = None
    /\ LET reached == DepsOf(tuRead[i])
           rows == [f \in Files |-> IF f \in reached THEN Digest(f) ELSE None]
       IN /\ tuRows' = [tuRows EXCEPT ![i] = rows]
          /\ memo' = [f \in Files |->
                        IF rows[f] = None THEN memo[f]
                        ELSE [stat |-> StatNow(f), sha |-> rows[f]]]
    /\ UNCHANGED <<world, ir, bookParse, bookRender, pages, pc, job, scan, plan,
                   stale, started, tuRead, outcome, clean>>

\* Mutant of ParseFinished: a partial parse waits for every input.
ParseFinishedAll == pc = "parse" /\ \A i \in Inputs : tuRows[i] # None

ParseFinished == pc = "parse" /\ \A i \in stale : tuRows[i] # None

\* The units whose parse produced a files row for f.
Readers(f) == {i \in stale : tuRows[i][f] # None}
FirstRow(f) == tuRows[CHOOSE i \in Readers(f) : \A j \in Readers(f) : i <= j][f]
LastRow(f) == tuRows[CHOOSE i \in Readers(f) : \A j \in Readers(f) : j <= i][f]

\* A full parse streams every batch, in canonical order, into a new database
\* (upsert_files: the last batch's row wins) that then replaces the IR.  An
\* input that failed to parse is only a diagnostic.
CommitFull ==
    /\ ParseFinished /\ plan = "full"
    /\ irState' = "ok"
    /\ irTu' = tuRead
    /\ irFiles' = [f \in Files |-> IF Readers(f) = {} THEN None ELSE LastRow(f)]
    /\ pc' = "record"
    /\ UNCHANGED <<world, bookParse, bookRender, pages, memo, job, scan, plan,
                   parse, outcome, clean>>

\* Mutant of TuFailed: hard failures go unnoticed.
TuNeverFails(i) == FALSE

TuFailed(i) == DepsOf(tuRead[i]) = {}

\* Mutant of Dropped: no file ever leaves the IR.
DroppedNone == {}

\* deps_only_from: the files that only re-parsed units reached last time.
Dropped == {f \in Files : OwnersOf(f) # {} /\ OwnersOf(f) \subseteq stale}

\* A partial parse merges its units (merge_into: the first unit's row wins),
\* then replaces their rows and drops the files left unreached, in one
\* transaction of write_tus.  (What that does to a row that another unit
\* declares too is in IrRows.)
CommitTus ==
    /\ ParseFinished /\ plan = "partial"
    /\ \A i \in stale : ~TuFailed(i)
    /\ irTu' = [i \in Inputs |-> IF i \in stale THEN tuRead[i] ELSE irTu[i]]
    /\ irFiles' = [f \in Files |-> IF Readers(f) # {} THEN FirstRow(f)
                                   ELSE IF f \in Dropped THEN None
                                   ELSE irFiles[f]]
    /\ pc' = "record"
    /\ UNCHANGED <<world, irState, bookParse, bookRender, pages, memo, job, scan,
                   plan, parse, outcome, clean>>

\* ... unless one of them failed: parse_inputs raises before the first write.
AbortTus ==
    /\ ParseFinished /\ plan = "partial"
    /\ \E i \in stale : TuFailed(i)
    /\ Idle("failed")
    /\ UNCHANGED <<world, ir, bookParse, bookRender, pages, memo, job, clean>>

-----------------------------------------------------------------------------
(* The bookkeeping: record_parse and record_partial_parse.                 *)

\* Mutants of FastPathMtime: no restat guard, or one that trusts the clock.
MtimeUnguarded(f) == IF disk[f] = None THEN None ELSE mtime[f]
MtimeNoSlack(f) == IF disk[f] = None \/ mtime[f] >= started THEN None ELSE mtime[f]

\* A file written at or after the parse began must be hashed next time.
FastPathMtime(f) ==
    IF disk[f] = None \/ mtime[f] >= started - Slack THEN None ELSE mtime[f]

\* The inputs row of a file the IR knows with digest sha.
StatRow(f, sha) ==
    IF sha = None \/ FastPathMtime(f) = None THEN None
    ELSE <<FastPathMtime(f), SizeOf[sha]>>

\* Mutant of FreshDeps: a partial parse keeps the old dependencies.
FreshDepsFullOnly ==
    [i \in Inputs |-> IF plan = "full" THEN DepsOf(tuRead[i]) ELSE bkDeps[i]]

FreshDeps ==
    [i \in Inputs |-> IF i \in stale THEN DepsOf(tuRead[i])
                      ELSE IF plan = "full" THEN {} ELSE bkDeps[i]]

\* Mutant of ClearedRender: the last render stays on the books.
KeptRender == bkRender

\* _clear_render_meta: the render fingerprint and summary go.
ClearedRender == None

\* One transaction: the parse advances and the render bookkeeping is cleared.
Record ==
    /\ pc = "record"
    /\ bkFp' = IF plan = "full" THEN cfg ELSE bkFp
    /\ bkDeps' = FreshDeps
    /\ bkSha' = [f \in Files |->
                   IF plan = "full" \/ \E i \in Inputs : f \in FreshDeps[i]
                   THEN irFiles[f] ELSE None]
    /\ bkStat' = [f \in Files |-> StatRow(f, bkSha'[f])]
    /\ bkRender' = ClearedRender
    /\ pc' = "write"
    /\ UNCHANGED <<world, ir, bkOut, pages, memo, job, scan, plan, parse, outcome,
                   clean>>

-----------------------------------------------------------------------------
(* The render: _rendered_files, _apply_outputs, record_render.             *)

WritePages ==
    /\ pc = "write"
    /\ pages' = [rcfg |-> rcfg, tu |-> irTu]
    /\ pc' = "index"
    /\ UNCHANGED <<world, ir, bookParse, bookRender, memo, job, scan, plan, parse,
                   outcome, clean>>

RecordOutputs ==
    /\ pc = "index"
    /\ bkOut' = pages
    /\ pc' = "seal"
    /\ UNCHANGED <<world, ir, bookParse, bkRender, pages, memo, job, scan, plan,
                   parse, outcome, clean>>

RecordRender ==
    /\ pc = "seal"
    /\ bkRender' = rcfg
    /\ Idle("built")
    /\ UNCHANGED <<world, ir, bookParse, bkOut, pages, memo, job, clean>>

\* The build raises or is killed; only what it committed stays.
Fail ==
    /\ pc \in FailAt
    /\ Idle("failed")
    /\ \/ UNCHANGED pages
       \/ pc = "write" /\ pages' = Torn
    /\ UNCHANGED <<world, ir, bookParse, bookRender, memo, job, clean>>

-----------------------------------------------------------------------------
BuildStep ==
    \/ \E f \in Files : ScanStat(f)
    \/ ScanHash
    \/ Noop
    \/ ScanDone
    \/ BeginParse
    \/ \E i \in Inputs : ReadTu(i) \/ HashTu(i)
    \/ CommitFull
    \/ CommitTus
    \/ AbortTus
    \/ Record
    \/ WritePages
    \/ RecordOutputs
    \/ RecordRender

Start == \E c \in ParseCfgs, r \in RenderCfgs, strict \in ForceFull,
            fresh \in NewProcess : StartBuild(c, r, strict, fresh)

Environment ==
    \/ Tick
    \/ \E f \in Files, c \in Contents \union {None} : Edit(f, c)
    \/ LoseIr
    \/ LoseBook
    \/ DamagePages
    \/ Fail

Next == BuildStep \/ Start \/ Environment

Spec == Init /\ [][Next]_vars

\* A build that holds the lock runs on.
FairSpec == Spec /\ WF_vars(BuildStep)

\* ... and somebody keeps building (a documentation watcher, a CI job).
WatchSpec == FairSpec /\ WF_vars(Start)

-----------------------------------------------------------------------------
(* Properties.                                                             *)

\* The pages a build of this configuration makes of the tree as it stands.
PagesNow == [rcfg |-> rcfg, tu |-> [i \in Inputs |-> ViewNow(i, cfg)]]

Succeeded == outcome \in {"noop", "built"}

\* A build that succeeded, with nothing edited since it started, leaves pages
\* that are made of no stale view: reusing the parse and the render never shows
\* (docs/usage.md, "Incremental builds"), as far as units are independent.  Of
\* the rows that they share IrRows says where that ends.
Fresh == Succeeded /\ clean => pages = PagesNow

\* The converse economy: after such a build the bookkeeping is such that the
\* same build again finds nothing to do ("Re-running an unchanged build
\* therefore regenerates nothing").
NextIsNoop ==
    Succeeded /\ clean =>
        /\ Usable(cfg) /\ bkRender = rcfg /\ pages = bkOut
        /\ \A f \in Tracked : disk[f] = bkSha[f]

\* The fast path never lies: a tracked file whose stat is the recorded one has
\* the recorded content (_scan_inputs may skip the hash).
FastPathHonest ==
    \A f \in Tracked : disk[f] # None /\ bkStat[f] = StatNow(f) => disk[f] = bkSha[f]

\* The restat guard of _fast_path_mtime: what a full parse records is honest,
\* whatever is saved while its results are being recorded and rendered, and
\* however coarse the file system's clock.
RestatGuard ==
    pc \in {"write", "index", "seal"} /\ plan = "full" => FastPathHonest

\* What a cache hit stands for: while no build runs, the IR of every unit was
\* made from the recorded configuration and the recorded content of the
\* recorded dependencies (its view; the rows it shares are IrRows' subject).
BookDescribesIr ==
    pc = "idle" /\ irState = "ok" /\ bkFp # None =>
        \A i \in Inputs :
            /\ irTu[i].cfg = bkFp
            /\ DepsOf(irTu[i]) = bkDeps[i]
            /\ \A f \in bkDeps[i] : irTu[i].src[f] = bkSha[f]

\* A file is in the IR exactly when some unit reaches it: one removed from an
\* include closure does not keep rendering until the next full rebuild.
NoOrphanFiles ==
    pc = "idle" /\ irState = "ok" =>
        {f \in Files : irFiles[f] # None} = UNION {DepsOf(irTu[i]) : i \in Inputs}

\* A partial parse never replaces a unit's documentation with nothing
\* (parse_inputs: "Bail before writing on any hard parse failure").
NoWipe ==
    [][plan = "partial" /\ irState' = "ok" =>
          \A i \in Inputs : DepsOf(irTu[i]) # {} => DepsOf(irTu'[i]) # {}]_vars

\* The noop shortcut trusts only a complete render: whenever the render
\* bookkeeping is valid, the recorded outputs are what that render
\* configuration makes of the recorded parse (record_parse clears it in the
\* transaction that advances the parse, the comment on _clear_render_meta).
RenderMetaHonest ==
    pc = "idle" /\ bkRender # None =>
        /\ bkOut # None
        /\ bkOut.rcfg = bkRender
        /\ \A i \in Inputs :
              /\ bkOut.tu[i].cfg = bkFp
              /\ \A f \in bkDeps[i] : bkOut.tu[i].src[f] = bkSha[f]

\* _render_fingerprint: a parse served from cache "already guarantees the IR is
\* byte-identical to the run that produced the cached render".
CacheHitIr ==
    pc = "ready" /\ plan = "render" /\ irState = "ok" /\ bkRender # None =>
        bkOut # None /\ bkOut.tu = irTu

\* _incremental_build: "the hashes recorded below come from the parser's read
\* of each file".
HashIsOfParserRead ==
    pc = "record" => \A i \in stale : \A f \in DepsOf(tuRead[i]) :
                        irFiles[f] = tuRead[i].src[f]

\* Once edits stop, the pages settle on the tree, whatever stores were lost
\* meanwhile: unreadable ones are rebuilt, damaged pages repaired.
Converges ==
    <>[](pages \in PageSets /\ \A i \in Inputs : pages.tu[i].src = ViewNow(i, cfg).src)

\* Every build that gets the lock ends, and so gives the lock back.
BuildEnds == pc # "idle" ~> pc = "idle"
=============================================================================
