---------------------------- MODULE Diagnostics ----------------------------
(***************************************************************************)
(* What builds report of libclang's diagnostics.  A parse that covers all  *)
(* inputs knows them all; an incremental one knows those of the units it   *)
(* re-parsed and carries the others forward from the summary of the last   *)
(* render; a fully cached one replays that summary.  The log file holds    *)
(* the records of one parse.                                               *)
(*                                                                         *)
(* A diagnostic comes with its notes, flattened behind it in the code.     *)
(* The parse itself is one step, the tree keeps still during a build, and  *)
(* digests tell the stale units exactly: what happens where they do not is *)
(* the subject of IncrementalBuild.                                        *)
(***************************************************************************)
EXTENDS Naturals, SequencesExt, FiniteSets, Lists

CONSTANTS
    Inputs,             \* the inputs, in the parser's canonical order
    Files,              \* inputs and headers
    Contents(_),        \* what a file may hold
    Includes(_),        \* the headers a content includes
    Problems(_, _, _),  \* a unit, a file it reaches, its content: the diagnostics there
    Everywhere,         \* the diagnostics without a location: every unit has them
    Configs,            \* [log, strict]: diagnostics_log, warnings_as_errors
    MaxEvents,          \* bound: saves of a source file, losses of log or cache
    None                \* absent

Units == ToSet(Inputs)
NoFile == ""
WarningSeverity == 2
ErrorSeverity == 3
Trees == {t \in [Files -> UNION {Contents(f) : f \in Files}] : \A f \in Files : t[f] \in Contents(f)}
Diagnostic == [severity : Nat, file : Files \union {NoFile}, text : Seq(STRING), notes : Seq(STRING)]
Bookkeeping ==
    [fp : BOOLEAN, views : [Units -> UNION {[F -> UNION {Contents(f) : f \in Files}] : F \in SUBSET Files}]]
LogFile == [partial : {None} \union SUBSET Units, records : Seq(Diagnostic)]

\* What merge_diagnostics and the carry-forward know a diagnostic by.
Identity(d) == <<d.severity, d.text>>

\* Whatever some unit may be told.
Known ==
    ToSet(Everywhere)
    \union UNION {UNION {ToSet(Problems(u, f, c)) : u \in Units, c \in Contents(f)} : f \in Files}

ASSUME DiagnosticsAssumption ==
    /\ Inputs \in Seq(Files) /\ IsFiniteSet(Files) /\ NoFile \notin Files
    /\ Configs \subseteq [log : BOOLEAN, strict : BOOLEAN]
    /\ \A f \in Files : \A c \in Contents(f) :
           /\ Includes(c) \subseteq Files
           /\ \A u \in Units : Problems(u, f, c) \in Seq(Diagnostic)
    /\ Everywhere \in Seq(Diagnostic)
    /\ \A d \in ToSet(Everywhere) : d.file = NoFile
    /\ None \notin Seq(Diagnostic) /\ None \notin LogFile /\ None \notin Bookkeeping
    \* The text says where: the comments of merge_diagnostics and of the carry-forward.
    /\ \A d, e \in Known : Identity(d) = Identity(e) => d.file = e.file

WithoutNotes(ds) == [i \in DOMAIN ds |-> [ds[i] EXCEPT !.notes = <<>>]]

\* What Picture needs of the diagnostics: one names its file by the path that the
\* walk of the includes gives it, and what a header is told does not depend on
\* the unit, but for the notes.
Located ==
    \A f \in Files : \A c \in Contents(f) : \A u \in Units : \A d \in ToSet(Problems(u, f, c)) :
        d.file = f
HeadersAgree ==
    \A f \in Files : \A c \in Contents(f) : \A u, v \in Units :
        ToSet(WithoutNotes(Problems(u, f, c))) = ToSet(WithoutNotes(Problems(v, f, c)))

VARIABLES
    tree,       \* the source files
    book,       \* bookkeeping: parse fingerprint, and what each unit reached
    summary,    \* the diagnostics in the render summary, None without one
    log,        \* the log file: records, and how many units when not all
    pc, cfg, cached, plan, previous,    \* the running build
    records,    \* its parse's diagnostics
    picture,    \* what it will report
    result,     \* what the last build reported; None during the next,
                \* or after an edit or a loss
    shown,      \* what the last cached build reported
    gap,        \* history: a death has lost the summary of a recorded parse
    events

vars == <<tree, book, summary, log, pc, cfg, cached, plan, previous, records, picture,
          result, shown, gap, events>>
build == <<pc, cfg, cached, plan, previous, records, picture>>

-----------------------------------------------------------------------------
(* The parser.                                                             *)

Reached(t, u) == {u} \union Includes(t[u])
View(t, u) == [f \in Reached(t, u) |-> t[f]]

Emitted(t, u) ==
    Problems(u, u, t[u])
    \o FlattenSeq(SetToSeq({Problems(u, f, t[f]) : f \in Reached(t, u) \ {u}}))
    \o Everywhere

\* capture_all_diagnostics: errors alone, or everything with its notes.
Capture(c) == c.log \/ c.strict
AtLeast(severity, ds) == Chosen(ds, {i \in DOMAIN ds : ds[i].severity >= severity})
Captured(c, ds) == IF Capture(c) THEN ds ELSE WithoutNotes(AtLeast(ErrorSeverity, ds))

\* merge_diagnostics: a diagnostic goes, with its notes, if an earlier one is it.
Identities(ds) == {Identity(d) : d \in ToSet(ds)}
Merged(ds) ==
    Chosen(ds, {i \in DOMAIN ds : \A j \in 1..(i - 1) : Identity(ds[j]) # Identity(ds[i])})

Parsed(t, c, units) ==
    Merged(FlattenSeq([i \in DOMAIN Inputs |->
                          IF Inputs[i] \in units THEN Captured(c, Emitted(t, Inputs[i])) ELSE <<>>]))

-----------------------------------------------------------------------------
(* Which units a build parses.                                             *)

Stale == {u \in Units : \E f \in DOMAIN book.views[u] : book.views[u][f] # tree[f]}

Reparse == [whole |-> FALSE, units |-> Stale]
Everything == [whole |-> TRUE, units |-> Units]

\* Mutant of ParsePlan: a strict build trusts the cache.
ParsePlanCached(c) ==
    IF book = None \/ Units = {} \/ (c.log /\ log = None) THEN Everything
    ELSE IF book.fp # Capture(c) THEN Everything ELSE Reparse

\* _parse_status: a whole parse, or one of the stale units, if any; a book that
\* tracks no file is not trusted.
ParsePlan(c) ==
    IF book = None \/ Units = {} \/ (c.log /\ log = None) \/ c.strict THEN Everything
    ELSE IF book.fp # Capture(c) THEN Everything ELSE Reparse

\* deps_only_from.
OnlyFrom(units) ==
    (UNION {DOMAIN book.views[u] : u \in units}) \ (UNION {DOMAIN book.views[u] : u \in Units \ units})

WarningsOrWorse(ds) == WithoutNotes(AtLeast(WarningSeverity, ds))

\* Mutant of CarryForward: files that only left the closure are not superseded.
CarryForwardReached(old, reached, dropped, ds) ==
    LET fresh == WarningsOrWorse(ds)
        kept == Chosen(old, {i \in DOMAIN old : /\ old[i].file \notin reached
                                                /\ Identity(old[i]) \notin Identities(fresh)})
    IN  Merged(kept) \o fresh

\* _carry_forward_diagnostics.
CarryForward(old, reached, dropped, ds) ==
    LET fresh == WarningsOrWorse(ds)
        kept == Chosen(old, {i \in DOMAIN old : /\ old[i].file \notin reached \union dropped
                                                /\ Identity(old[i]) \notin Identities(fresh)})
    IN  Merged(kept) \o fresh

-----------------------------------------------------------------------------
(* A build.                                                                *)

Init ==
    /\ tree \in Trees
    /\ book = None /\ summary = None /\ log = None
    /\ pc = "idle" /\ cfg = None /\ cached = FALSE /\ plan = None
    /\ previous = <<>> /\ records = <<>> /\ picture = <<>>
    /\ result = None /\ shown = <<>> /\ gap = FALSE /\ events = 0

Idle == /\ pc' = "idle" /\ cfg' = None /\ cached' = FALSE /\ plan' = None
        /\ previous' = <<>> /\ records' = <<>> /\ picture' = <<>>

\* What a build returns; front ends fail a strict one on any warning.
Returns(c, ofCache, ds) ==
    /\ result' = [cfg |-> c, cached |-> ofCache, records |-> ds]
    /\ shown' = IF ofCache THEN ds ELSE shown
Failed(r) == r.cfg.strict /\ WarningsOrWorse(r.records) # <<>>

\* _noop_result; the pages are intact and the render configuration is as it was.
Noop(c) ==
    /\ pc = "idle" /\ ParsePlan(c) = [whole |-> FALSE, units |-> {}] /\ summary # None
    /\ Returns(c, TRUE, summary)
    /\ UNCHANGED <<tree, book, summary, log, build, gap, events>>

\* A build of the cache directory that does not end there.
StartCached(c) ==
    /\ pc = "idle" /\ pc' = "parse"
    /\ cfg' = c /\ cached' = TRUE /\ plan' = ParsePlan(c)
    /\ previous' = IF summary = None THEN <<>> ELSE summary
    /\ result' = None
    /\ UNCHANGED <<tree, book, summary, log, records, picture, shown, gap, events>>

\* _full_build: a stateless one.
StartPlain(c) ==
    /\ pc = "idle" /\ pc' = "parse"
    /\ cfg' = c /\ cached' = FALSE /\ plan' = Everything
    /\ result' = None
    /\ UNCHANGED <<tree, book, summary, log, previous, records, picture, shown, gap, events>>

\* Whether the build parses at all.
Parses == plan.whole \/ plan.units # {}

Parse ==
    /\ pc = "parse" /\ pc' = "log"
    /\ LET ds == Parsed(tree, cfg, plan.units)
       IN  /\ records' = ds
           /\ picture' =
                IF ~cached THEN ds
                ELSE IF plan.whole THEN WarningsOrWorse(ds)
                ELSE IF ~Parses THEN previous
                ELSE CarryForward(previous, UNION {Reached(tree, u) : u \in plan.units},
                                  OnlyFrom(plan.units), ds)
    /\ UNCHANGED <<tree, book, summary, log, cfg, cached, plan, previous, result, shown, gap, events>>

\* Mutant of Logs: an incremental build leaves the log alone.
LogsWhole == cfg.log /\ plan.whole

Logs == cfg.log /\ Parses

\* write_diagnostics_log, renamed into place.
WriteLog ==
    /\ pc = "log" /\ pc' = IF cached THEN "record" ELSE "render"
    /\ log' = IF Logs THEN [partial |-> IF plan.whole THEN None ELSE plan.units, records |-> records]
              ELSE log
    /\ UNCHANGED <<tree, book, summary, cfg, cached, plan, previous, records, picture,
                   result, shown, gap, events>>

\* record_parse, record_partial_parse: the summary goes with the parse it was of.
Record ==
    /\ pc = "record" /\ pc' = "render"
    /\ IF ~Parses THEN UNCHANGED <<book, summary, gap>>
       ELSE /\ book' = [fp |-> Capture(cfg),
                        views |-> [u \in Units |-> IF u \in plan.units THEN View(tree, u)
                                                   ELSE book.views[u]]]
            /\ summary' = None
            /\ gap' = (gap /\ plan.units # Units)
    /\ UNCHANGED <<tree, log, cfg, cached, plan, previous, records, picture, result, shown, events>>

\* The pages are written; record_render.
Render ==
    /\ pc = "render" /\ Idle
    /\ Returns(cfg, cached, picture)
    /\ summary' = IF cached THEN picture ELSE summary
    /\ UNCHANGED <<tree, book, log, gap, events>>

\* A kill, a parse that fails, a template that raises.
Fail ==
    /\ pc # "idle" /\ Idle
    /\ gap' = (gap \/ (pc = "render" /\ cached /\ summary = None))
    /\ UNCHANGED <<tree, book, summary, log, result, shown, events>>

Event == events < MaxEvents /\ events' = events + 1
Edit ==
    /\ pc = "idle" /\ Event
    /\ \E f \in Files : \E c \in Contents(f) \ {tree[f]} : tree' = [tree EXCEPT ![f] = c]
    /\ result' = None
    /\ UNCHANGED <<book, summary, log, build, shown, gap>>

LoseLog == /\ pc = "idle" /\ Event /\ log' = None /\ result' = None
           /\ UNCHANGED <<tree, book, summary, build, shown, gap>>
LoseCache == /\ pc = "idle" /\ Event /\ book' = None /\ summary' = None
             /\ result' = None /\ UNCHANGED <<tree, log, build, shown, gap>>

Next ==
    \/ \E c \in Configs : Noop(c) \/ StartCached(c) \/ StartPlain(c)
    \/ Parse \/ WriteLog \/ Record \/ Render \/ Fail
    \/ Edit \/ LoseLog \/ LoseCache

Spec == Init /\ [][Next]_vars
-----------------------------------------------------------------------------
(* Properties.                                                             *)

Complete(r) == WarningsOrWorse(Parsed(tree, r.cfg, Units))

\* Whatever a build parsed, it reports the warnings and errors that a whole
\* parse would, each once, as long as no death has lost the summary that a
\* re-parse carries forward (see PictureAlways).
Picture ==
    result # None =>
    LET told == WarningsOrWorse(result.records)
    IN  /\ \A i, j \in DOMAIN told : Identity(told[i]) = Identity(told[j]) => i = j
        /\ ~gap => ToSet(told) = ToSet(Complete(result))

\* A strict build fails if and only if the tree has a warning, whatever earlier
\* builds reported, lost or left behind.
StrictHonest ==
    result # None /\ result.cfg.strict => (Failed(result) <=> Complete(result) # <<>>)

\* When a cached build with a log ends, the log is there, and has every warning
\* that the cached build before did not report.
LogTold ==
    [][pc' = "idle" /\ result' # None /\ result'.cached /\ result'.cfg.log
       => /\ log' # None
          /\ Identities(result'.records) \ Identities(shown) \subseteq Identities(log'.records)]_vars

\* BuildResult.diagnostic_records: "The whole project's diagnostic picture, not
\* just what this run parsed", also after a build that died between recording
\* its parse and recording its render.
PictureAlways ==
    result # None => ToSet(WarningsOrWorse(result.records)) = ToSet(Complete(result))
=============================================================================
