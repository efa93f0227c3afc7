------------------------------- MODULE IrFile -------------------------------
(***************************************************************************)
(* The IR on disk: a SQLite database in WAL mode, replaced by full parses  *)
(* and rewritten in place by partial ones, one writer at a time, any of    *)
(* which may be killed.  A full parse is streamed into a temporary sibling *)
(* of its target and renamed over it (write_streamed_full_parse).  Its     *)
(* target is the IR itself where the core is called directly, as scripts   *)
(* do ("direct"); a cached build has the core write a temporary database   *)
(* and renames that one over the IR in its turn ("sibling").               *)
(*                                                                         *)
(* What a parse stores is a number, Mixed any content no parse stored.     *)
(* Readers apply the committed frames of a write-ahead log to the file     *)
(* next to it, whatever file that is.                                      *)
(***************************************************************************)
EXTENDS Naturals

CONSTANTS
    Targets,        \* of {"direct", "sibling"}
    KillAt,         \* pairs of a target and a phase in which a kill may strike
    MaxParses,      \* bound: parses, and so contents
    MaxDamage,      \* bound: times the file is truncated behind everybody's back
    Absent, Mixed

Phases == {"stream", "swept", "write", "committed", "checkpoint"}
Stored == 1..MaxParses

ASSUME IrFileAssumption ==
    /\ Targets \subseteq {"direct", "sibling"} /\ KillAt \subseteq {"direct", "sibling"} \X Phases
    /\ MaxParses \in Nat /\ MaxDamage \in Nat
    /\ Absent \notin Stored /\ Mixed \notin Stored /\ Absent # Mixed

\* No kill strikes where no later writer can heal what it leaves: the log gone and
\* the file not yet replaced; a log that a cached build's next rename passes by.
Heals ==
    \A k \in {<<"direct", "swept">>, <<"sibling", "committed">>,
              <<"sibling", "checkpoint">>} : k \notin KillAt

VARIABLES
    target,     \* where the full parses of this IR go
    main,       \* the database file: base, and whether a checkpoint is half done
    wal,        \* its -wal: the base it is for, and what it makes of it
    pc,         \* the writer's phase, "idle" without one
    parses,     \* parses so far, the running one included
    litter,     \* temporary databases that killed writers left
    damage,
    last        \* history: what was committed last

fileVars == <<target, main, wal, pc, parses, litter, damage, last>>

NoWal == [over |-> Absent, holds |-> Absent]
File(content) == [base |-> content, part |-> FALSE]

\* What a reader gets, mode=ro or not.
View ==
    IF main.base = Absent THEN Absent
    ELSE IF wal = NoWal THEN IF main.part THEN Mixed ELSE main.base
    ELSE IF wal.over = main.base THEN wal.holds ELSE Mixed

TypeOK ==
    /\ target \in Targets /\ pc \in Phases \union {"idle"}
    /\ main \in [base : Stored \union {Absent, Mixed}, part : BOOLEAN]
    /\ wal \in [over : Stored \union {Absent, Mixed}, holds : Stored \union {Absent, Mixed}]
    /\ parses \in 0..MaxParses /\ litter \in Nat /\ damage \in 0..MaxDamage
    /\ last \in Stored \union {Absent, Mixed}

FileInit ==
    /\ target \in Targets
    /\ main = File(Absent) /\ wal = NoWal
    /\ pc = "idle" /\ parses = 0 /\ litter = 0 /\ damage = 0 /\ last = Absent

-----------------------------------------------------------------------------
(* A full parse.                                                           *)

\* Mutant of Reclaimed: nothing is reclaimed.
ReclaimedNever == FALSE

\* reclaim_stale_temp_siblings knows temporaries by the name of their target;
\* _parse_into gives its target a new random name each time.
Reclaimed == target = "direct"

BeginFull ==
    /\ pc = "idle" /\ pc' = "stream"
    /\ parses < MaxParses /\ parses' = parses + 1
    /\ litter' = IF Reclaimed THEN 0 ELSE litter
    /\ UNCHANGED <<target, main, wal, damage, last>>

\* Mutant of Sidecars: they stay where they are.
SidecarsKept == wal

\* remove_stale_sidecars, of its own target: the IR, or the sibling.
Sidecars == IF target = "direct" THEN NoWal ELSE wal

\* Every batch is committed and checkpointed, the temporary database closed.
Sweep ==
    /\ pc = "stream" /\ pc' = "swept"
    /\ wal' = Sidecars
    /\ UNCHANGED <<target, main, parses, litter, damage, last>>

\* rename, replace.
Rename ==
    /\ pc = "swept" /\ pc' = "idle"
    /\ main' = File(parses) /\ last' = parses
    /\ UNCHANGED <<target, wal, parses, litter, damage>>

\* A batch raises: the temporary database is removed.
FailFull ==
    /\ pc = "stream" /\ pc' = "idle"
    /\ UNCHANGED <<target, main, wal, parses, litter, damage, last>>

-----------------------------------------------------------------------------
(* A partial parse: write_tus, on a connection that is closed after it.    *)

\* _ir_is_readable: content no parse stored may or may not be noticed.
BeginPartial ==
    /\ pc = "idle" /\ View # Absent /\ pc' = "write"
    /\ parses < MaxParses /\ parses' = parses + 1
    /\ UNCHANGED <<target, main, wal, litter, damage, last>>

Commit ==
    /\ pc = "write" /\ pc' = "committed"
    /\ LET rows == IF View = Mixed THEN Mixed ELSE parses
       IN  /\ wal' = [over |-> main.base, holds |-> rows]
           /\ last' = rows
    /\ UNCHANGED <<target, main, parses, litter, damage>>

\* A unit does not parse, or the transaction rolls back; earlier frames remain.
FailPartial ==
    /\ pc = "write" /\ pc' = IF wal = NoWal THEN "idle" ELSE "committed"
    /\ UNCHANGED <<target, main, wal, parses, litter, damage, last>>

\* The last connection to close copies the log into the file and deletes it.
BeginCheckpoint ==
    /\ pc = "committed" /\ pc' = "checkpoint"
    /\ main' = [main EXCEPT !.part = TRUE]
    /\ UNCHANGED <<target, wal, parses, litter, damage, last>>
EndCheckpoint ==
    /\ pc = "checkpoint" /\ pc' = "idle"
    /\ main' = File(View) /\ wal' = NoWal
    /\ UNCHANGED <<target, parses, litter, damage, last>>

-----------------------------------------------------------------------------
(* Kills, damage and recovery.                                             *)

Kill ==
    /\ <<target, pc>> \in KillAt /\ pc' = "idle"
    /\ litter' = IF pc \in {"stream", "swept"} THEN litter + 1 ELSE litter
    /\ UNCHANGED <<target, main, wal, parses, damage, last>>

\* A full disk, another program.
Damage ==
    /\ pc = "idle" /\ main.base # Absent
    /\ damage < MaxDamage /\ damage' = damage + 1
    /\ main' = File(Mixed) /\ last' = Mixed
    /\ UNCHANGED <<target, wal, pc, parses, litter>>

\* _parse_status: an IR that cannot be read is unlinked.
Discard ==
    /\ pc = "idle" /\ target = "sibling" /\ View = Mixed
    /\ main' = File(Absent) /\ last' = Absent
    /\ UNCHANGED <<target, wal, pc, parses, litter, damage>>

FileNext ==
    \/ BeginFull \/ Sweep \/ Rename \/ FailFull
    \/ BeginPartial \/ Commit \/ FailPartial \/ BeginCheckpoint \/ EndCheckpoint
    \/ Kill \/ Damage \/ Discard

FileSpec == FileInit /\ [][FileNext]_fileVars

-----------------------------------------------------------------------------
(* Properties.                                                             *)

\* Between two writers readers get what was committed last, and nothing else:
\* a full parse that fails or is killed leaves the IR untouched, one that ends
\* replaces it whole, with nothing of an earlier write riding along.  True where
\* Heals is (write_streamed_full_parse, write_tus).
Settled == pc = "idle" => View = last

\* Killed parses do not leave one temporary database each: the next parse into
\* the same target reclaims them.
BoundedLitter == target = "direct" => litter <= 1

\* "Clear it before the swap so the replacement really is just the fresh file,
\* nothing riding along with it" (write_streamed_full_parse), of a cached build.
NothingRidesAlong == pc = "idle" /\ View = Mixed => last = Mixed
=============================================================================
