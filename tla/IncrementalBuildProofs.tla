----------------------- MODULE IncrementalBuildProofs -----------------------
(***************************************************************************)
(* For every tree, configuration and clock: the variables keep their types; *)
(* under the conditions of Quiet, IInv is inductive, so that what an       *)
(* incremental build leaves is what a stateless build would leave, and the *)
(* next one finds nothing to do; the restat guard holds whenever files are *)
(* saved, and no unit is wiped.                                            *)
(***************************************************************************)
EXTENDS IncrementalBuildInv, WellFoundedInduction, TLAPS

-----------------------------------------------------------------------------
(* Numbers.                                                                *)

\* A non-empty set of naturals has a least member.
LEMMA LeastNat ==
    ASSUME NEW T \in SUBSET Nat, T # {}
    PROVE  \E x \in T : \A y \in T : x <= y
<1>1. PICK x \in T : \A y \in T : ~ (<<y, x>> \in OpToRel(<, Nat))
  BY NatLessThanWellFounded, WFMin
<1>2. ASSUME NEW y \in T PROVE x <= y
  <2>1. x \in Nat /\ y \in Nat
    OBVIOUS
  <2>2. y < x => <<y, x>> \in OpToRel(<, Nat)
    BY <2>1 DEF OpToRel
  <2>3. ~(y < x)
    BY <1>1, <2>2, Zenon
  <2>4. QED
    BY <2>1, <2>3
<1>3. QED
  BY <1>2

\* A non-empty set of inputs has a first and a last member.
LEMMA FirstAndLastInput ==
    ASSUME NEW T \in SUBSET Inputs, T # {}
    PROVE  /\ \E x \in T : \A y \in T : x <= y
           /\ \E x \in T : \A y \in T : y <= x
<1>1. NumInputs \in Nat /\ T \subseteq Nat
  BY ConstantsAssumption DEF Inputs
<1>2. \E x \in T : \A y \in T : x <= y
  BY <1>1, LeastNat
<1>3. \E x \in T : \A y \in T : y <= x
  <2> DEFINE U == {NumInputs - x : x \in T}
  <2>1. U \in SUBSET Nat /\ U # {}
    <3>1. \A x \in T : NumInputs - x \in Nat
      BY <1>1 DEF Inputs
    <3>2. QED
      BY <3>1
  <2>2. PICK u \in U : \A w \in U : u <= w
    BY <2>1, LeastNat
  <2>3. PICK x \in T : u = NumInputs - x
    OBVIOUS
  <2>4. ASSUME NEW y \in T PROVE y <= x
    <3>1. NumInputs - y \in U
      OBVIOUS
    <3>2. NumInputs - x <= NumInputs - y
      BY <2>2, <2>3, <3>1
    <3>3. QED
      BY <1>1, <3>2
  <2>5. QED
    BY <2>4
<1>4. QED
  BY <1>2, <1>3

LEMMA TruncatedType ==
    ASSUME NEW t \in Nat
    PROVE  Truncated(t) \in Nat
<1>1. Granularity \in Nat /\ Granularity > 0
  BY ConstantsAssumption
<1>2. t % Granularity \in 0 .. (Granularity - 1)
  BY <1>1
<1>3. t % Granularity <= t
  BY <1>1, SMTT(30)
<1>4. QED
  BY <1>2, <1>3 DEF Truncated

-----------------------------------------------------------------------------
(* Types.                                                                  *)

TypeInv == TypeOK /\ (pc = "index" => pages \in PageSets)

LEMMA ValueTypes ==
    /\ NoRows \in Rows
    /\ NoRows \in [Files -> Stats \union {None}]
    /\ NoRows \in [Files -> Digests \union {None}]
    /\ NoView \in Views
    /\ \A view : DepsOf(view) \subseteq Files
BY DEF NoRows, Rows, NoView, Views, DepsOf

LEMMA StatType ==
    ASSUME TypeOK, NEW f \in Files, disk[f] # None
    PROVE  StatNow(f) \in Stats /\ disk[f] \in Contents
BY ConstantsAssumption DEF TypeOK, StatNow, Stats

LEMMA ViewType ==
    ASSUME TypeOK, NEW i \in Inputs, NEW c \in ParseCfgs
    PROVE  ViewNow(i, c) \in Views
BY DEF TypeOK, ViewNow, Views, Rows

\* The row of the first and of the last unit to have read f.
LEMMA RowType ==
    ASSUME TypeOK, ParseFinished, NEW f \in Files, Readers(f) # {}
    PROVE  FirstRow(f) \in Contents \union {None} /\ LastRow(f) \in Contents \union {None}
<1>1. Readers(f) \in SUBSET Inputs
  BY DEF TypeOK, Readers
<1>2. PICK x \in Readers(f) : \A y \in Readers(f) : x <= y
  BY <1>1, FirstAndLastInput
<1>3. PICK z \in Readers(f) : \A y \in Readers(f) : y <= z
  BY <1>1, FirstAndLastInput
<1>4. \A i \in Readers(f) : tuRows[i][f] \in Contents \union {None}
  <2>1. \A i \in Readers(f) : tuRows[i] \in Rows
    BY <1>1 DEF TypeOK, Readers, ParseFinished
  <2>2. QED
    BY <2>1 DEF Rows
<1>5. QED
  BY <1>2, <1>3, <1>4 DEF FirstRow, LastRow

LEMMA InitType == Init => TypeInv
<1> SUFFICES ASSUME Init PROVE TypeInv
  OBVIOUS
<1>1. bkDeps \in [Inputs -> SUBSET Files] /\ mtime \in [Files -> Nat]
      /\ tuRead \in [Inputs -> Views] /\ irTu \in [Inputs -> Views]
      /\ tuRows \in [Inputs -> Rows \union {None}]
  BY ValueTypes DEF Init
<1>2. QED
  BY <1>1, ValueTypes DEF Init, TypeInv, TypeOK, Phases

\* One step per action.
LEMMA NextType == TypeInv /\ [Next]_vars => TypeInv'
<1> SUFFICES ASSUME TypeInv, [Next]_vars PROVE TypeInv'
  OBVIOUS
<1>t. TypeOK
  BY DEF TypeInv
<1> USE DEF TypeInv
<1>1. ASSUME Tick PROVE TypeInv'
  BY <1>t, <1>1, ConstantsAssumption DEF Tick, TypeOK, ir, bookParse, bookRender, job, scan, parse
<1>2. ASSUME NEW f \in Files, NEW c \in Contents \union {None}, Edit(f, c) PROVE TypeInv'
  <2>1. now' \in Nat
    BY <1>t, <1>2, ConstantsAssumption DEF Edit, TypeOK
  <2>2. Truncated(now') \in Nat
    BY <2>1, TruncatedType
  <2>3. QED
    BY <1>t, <1>2, <2>1, <2>2
       DEF Edit, TypeOK, ir, bookParse, bookRender, job, scan, parse
<1>3. ASSUME LoseIr PROVE TypeInv'
  <2>1. now' \in Nat /\ irState' \in {"none", "corrupt", "ok"}
    BY <1>t, <1>3, ConstantsAssumption DEF LoseIr, Damaging, TypeOK
  <2>2. irTu' \in [Inputs -> Views] /\ irFiles' \in Rows /\ clean' \in BOOLEAN
    BY <1>3, ValueTypes DEF LoseIr
  <2>3. QED
    BY <1>t, <1>3, <2>1, <2>2
       DEF LoseIr, Damaging, TypeOK, bookParse, bookRender, job, scan, parse
<1>4. ASSUME LoseBook PROVE TypeInv'
  <2>1. now' \in Nat /\ bkDeps' \in [Inputs -> SUBSET Files]
    BY <1>t, <1>4, ConstantsAssumption DEF LoseBook, Damaging, TypeOK
  <2>2. QED
    BY <1>t, <1>4, <2>1, ValueTypes
       DEF LoseBook, Damaging, TypeOK, ir, job, scan, parse
<1>5. ASSUME DamagePages PROVE TypeInv'
  <2>1. now' \in Nat
    BY <1>t, <1>5, ConstantsAssumption DEF DamagePages, Damaging, TypeOK
  <2>2. clean' \in BOOLEAN /\ pages' \in PageSets \union {None, Torn} /\ pc' # "index"
    BY <1>5 DEF DamagePages, Damaging
  <2>3. QED
    BY <1>t, <1>5, <2>1, <2>2
       DEF DamagePages, Damaging, TypeOK, ir, bookParse, bookRender, job, scan, parse
<1>6. ASSUME Fail PROVE TypeInv'
  BY <1>t, <1>6, ValueTypes
     DEF Fail, Idle, TypeOK, Phases, world, ir, bookParse, bookRender, job
<1>7. ASSUME NEW c \in ParseCfgs, NEW r \in RenderCfgs, NEW strict \in ForceFull,
             NEW fresh \in NewProcess, StartBuild(c, r, strict, fresh)
      PROVE  TypeInv'
  BY <1>t, <1>7, ValueTypes, ConstantsAssumption
     DEF StartBuild, TypeOK, Tracked, Phases, world, ir, bookParse, bookRender, parse
<1>8. ASSUME NEW f \in Files, ScanStat(f) PROVE TypeInv'
  BY <1>t, <1>8, StatType
     DEF ScanStat, Probes, TypeOK, world, ir, bookParse, bookRender, job, parse
<1>9. ASSUME ScanHash PROVE TypeInv'
  BY <1>t, <1>9 DEF ScanHash, Probes, TypeOK, world, ir, bookParse, bookRender, job, parse
<1>10. HealedStats \in [Files -> Stats \union {None}]
  BY <1>t DEF TypeOK, HealedStats
<1>11. ASSUME Noop PROVE TypeInv'
  BY <1>t, <1>10, <1>11, ValueTypes
     DEF Noop, Idle, TypeOK, Phases, world, ir, bookRender, job
<1>12. ASSUME ScanDone PROVE TypeInv'
  BY <1>t, <1>10, <1>12, ValueTypes
     DEF ScanDone, Verdict, OwnersOf, TypeOK, Phases, world, bookRender, job
<1>13. ASSUME BeginParse PROVE TypeInv'
  BY <1>t, <1>13 DEF BeginParse, TypeOK, Phases, world, ir, bookParse, bookRender, job, scan
<1>14. ASSUME NEW i \in Inputs, ReadTu(i) PROVE TypeInv'
  BY <1>t, <1>14, ViewType
     DEF ReadTu, TypeOK, world, ir, bookParse, bookRender, job, scan
<1>15. ASSUME NEW i \in Inputs, HashTu(i) PROVE TypeInv'
  <2> DEFINE rows == [f \in Files |-> IF f \in DepsOf(tuRead[i]) THEN Digest(f) ELSE None]
  <2>1. \A f \in Files : Digest(f) \in Contents \union {None}
    BY <1>t DEF TypeOK, Digest, Digests
  <2>2. rows \in Rows
    BY <2>1 DEF Rows
  <2>3. \A f \in Files : rows[f] # None => disk[f] # None /\ rows[f] \in Contents
    BY <2>1 DEF Digest
  <2>4. \A f \in Files : rows[f] # None =>
           [stat |-> StatNow(f), sha |-> rows[f]] \in Digests
    BY <1>t, <2>3, StatType DEF Digests
  <2> HIDE DEF rows
  <2>5. /\ tuRows' = [tuRows EXCEPT ![i] = rows]
        /\ memo' = [f \in Files |-> IF rows[f] = None THEN memo[f]
                                    ELSE [stat |-> StatNow(f), sha |-> rows[f]]]
    BY <1>15 DEF HashTu, rows
  <2>6. QED
    BY <1>t, <1>15, <2>2, <2>4, <2>5
       DEF HashTu, TypeOK, world, ir, bookParse, bookRender, job, scan
<1>16. ASSUME CommitFull PROVE TypeInv'
  BY <1>t, <1>16, RowType
     DEF CommitFull, TypeOK, Rows, Phases, world, bookParse, bookRender, job, scan, parse
<1>17. ASSUME CommitTus PROVE TypeInv'
  BY <1>t, <1>17, RowType
     DEF CommitTus, TypeOK, Rows, Phases, world, bookParse, bookRender, job, scan, parse
<1>18. ASSUME AbortTus PROVE TypeInv'
  BY <1>t, <1>18, ValueTypes
     DEF AbortTus, Idle, TypeOK, Phases, world, ir, bookParse, bookRender, job
<1>19. ASSUME Record PROVE TypeInv'
  <2>1. FreshDeps \in [Inputs -> SUBSET Files]
    BY <1>t, ValueTypes DEF TypeOK, FreshDeps
  <2>2. bkSha' \in Rows
    BY <1>t, <1>19 DEF Record, TypeOK, Rows
  <2>3. ASSUME NEW f \in Files, NEW sha \in Contents \union {None}
        PROVE  StatRow(f, sha) \in Stats \union {None}
    BY <1>t, ConstantsAssumption DEF TypeOK, StatRow, FastPathMtime, Stats
  <2>4. bkStat' \in [Files -> Stats \union {None}]
    BY <1>19, <2>2, <2>3 DEF Record, Rows
  <2>5. QED
    BY <1>t, <1>19, <2>1, <2>2, <2>4
       DEF Record, ClearedRender, TypeOK, Phases, world, ir, job, scan, parse
<1>20. ASSUME WritePages PROVE TypeInv'
  BY <1>t, <1>20
     DEF WritePages, TypeOK, PageSets, Phases, world, ir, bookParse, bookRender, job,
         scan, parse
<1>21. ASSUME RecordOutputs PROVE TypeInv'
  BY <1>t, <1>21
     DEF RecordOutputs, TypeOK, Phases, world, ir, bookParse, job, scan, parse
<1>22. ASSUME RecordRender PROVE TypeInv'
  BY <1>t, <1>22, ValueTypes
     DEF RecordRender, Idle, TypeOK, Phases, world, ir, bookParse, job
<1>23. CASE UNCHANGED vars
  BY <1>t, <1>23
     DEF vars, TypeOK, world, ir, bookParse, bookRender, job, scan, parse
<1>24. QED
  BY <1>1, <1>2, <1>3, <1>4, <1>5, <1>6, <1>7, <1>8, <1>9, <1>11, <1>12, <1>13,
     <1>14, <1>15, <1>16, <1>17, <1>18, <1>19, <1>20, <1>21, <1>22, <1>23
     DEF Next, BuildStep, Start, Environment

\* The variables keep their types, whatever is edited, lost or killed when.
THEOREM TypeCorrect == Spec => []TypeOK
<1>1. TypeInv => TypeOK
  BY DEF TypeInv
<1>2. QED
  BY <1>1, InitType, NextType, PTL DEF Spec

-----------------------------------------------------------------------------
(* The invariant.                                                          *)

\* With one tick per mtime nothing is lost of the clock.
LEMMA TruncatedFine ==
    ASSUME Quiet, NEW t \in Nat
    PROVE  Truncated(t) = t
BY DEF Quiet, Truncated

\* What a parse of the tree makes of input i when no file is missing.
LEMMA ReachedQuiet ==
    ASSUME TypeOK, ClockInv, NEW i \in Inputs
    PROVE  /\ Reached(i) = {i} \union IncludesOf[disk[i]]
           /\ Reached(i) \subseteq Files
           /\ \A c : DepsOf(ViewNow(i, c)) = Reached(i)
<1>1. i \in Files /\ disk[i] \in Contents
  BY DEF TypeOK, ClockInv, Files
<1>2. IncludesOf[disk[i]] \subseteq Headers /\ Headers \subseteq Files
  BY <1>1, ConstantsAssumption DEF Files
<1>3. Reached(i) = {i} \union IncludesOf[disk[i]] /\ Reached(i) \subseteq Files
  BY <1>1, <1>2 DEF Reached, ClockInv
<1>4. ASSUME NEW c PROVE DepsOf(ViewNow(i, c)) = Reached(i)
  BY <1>3 DEF DepsOf, ViewNow, ClockInv
<1>5. QED
  BY <1>3, <1>4

\* When the tree is as booked, the booked views are those of the tree.
LEMMA BookIsNow ==
    ASSUME TypeOK, ClockInv, BookInv, bkFp = cfg, TreeAsBooked
    PROVE  BookViews = [i \in Inputs |-> ViewNow(i, cfg)]
<1>1. bkFp # None
  BY ConstantsAssumption DEF TypeOK
<1>2. Closed(bkDeps, bkSha)
  BY <1>1 DEF BookInv
<1>3. ASSUME NEW i \in Inputs PROVE BookView(i) = ViewNow(i, cfg)
  <2>1. i \in Files /\ disk[i] = bkSha[i]
    BY <1>2 DEF Closed, TreeAsBooked, Tracked, Files
  <2>2. bkDeps[i] = Reached(i)
    BY <1>2, <2>1, ReachedQuiet DEF Closed
  <2>3. \A f \in bkDeps[i] : f \in Files => disk[f] = bkSha[f]
    BY <1>2 DEF Closed, TreeAsBooked, Tracked
  <2>4. [f \in Files |-> IF f \in bkDeps[i] THEN bkSha[f] ELSE None]
        = [f \in Files |-> IF f \in Reached(i) THEN disk[f] ELSE None]
    BY <2>2, <2>3
  <2>5. QED
    BY <2>4 DEF BookView, ViewNow
<1>4. QED
  BY <1>3 DEF BookViews

LEMMA InitIInv == Quiet /\ Init => IInv
<1> SUFFICES ASSUME Quiet, Init PROVE IInv
  OBVIOUS
<1>1. TypeOK
  BY InitType DEF TypeInv
<1>2. ClockInv /\ StatInv /\ BookInv /\ IrInv /\ RenderInv
  BY ConstantsAssumption
     DEF Init, Quiet, ClockInv, StatInv, BookInv, IrInv, RenderInv, NoRows
<1>3. ScanInv /\ PlanInv /\ ParseInv /\ RecordInv /\ WriteInv /\ EndInv
  BY DEF Init, ScanInv, PlanInv, ParseInv, RecordInv, WriteInv, EndInv, Fresh,
         Succeeded, NoRows
<1>4. QED
  BY <1>1, <1>2, <1>3 DEF IInv

LEMMA TypeStep == ASSUME IInv, [Next]_vars PROVE TypeOK'
<1>1. TypeInv
  BY DEF IInv, TypeInv, WriteInv, TypeOK, PageSets
<1>2. QED
  BY <1>1, NextType DEF TypeInv

\* The clock goes on, or nothing happens.
LEMMA TickStep == ASSUME IInv, Tick \/ UNCHANGED vars, TypeOK' PROVE IInv'
<1> USE DEF Tick, vars, ir, bookParse, bookRender, job, scan, parse, world
<1>0. now <= now' /\ now \in Int /\ now' \in Int
  BY DEF IInv, TypeOK
<1>1. ClockInv'
  BY <1>0 DEF IInv, TypeOK, ClockInv
<1>2. StatInv'
  <2>1. \A f \in Files : StatNow(f)' = StatNow(f)
    BY DEF StatNow
  <2>2. ASSUME NEW f \in Files PROVE
           /\ bkStat[f] # None => bkStat[f][1] \in Int
           /\ memo[f] # None => memo[f].stat[1] \in Int
    BY DEF IInv, TypeOK, Stats, Digests
  <2>3. QED
    BY <1>0, <2>1, <2>2 DEF IInv, StatInv, Witness
<1>3. BookInv' /\ IrInv' /\ RenderInv'
  BY DEF IInv, BookInv, Closed, IrInv, RenderInv, BookViews, BookView
<1>4. ScanInv' /\ PlanInv'
  BY DEF IInv, ScanInv, PlanInv, Usable, Tracked, StatNow, OwnersOf
<1>5. ParseInv' /\ RecordInv'
  <2>1. \A i \in Inputs : \A c : ViewNow(i, c)' = ViewNow(i, c)
    BY DEF ViewNow, Reached
  <2>2. started <= now => started <= now'
    BY <1>0 DEF IInv, TypeOK
  <2>3. ParseInv'
    BY <2>1, <2>2 DEF IInv, ParseInv
  <2>4. FreshDeps' = FreshDeps
    BY DEF FreshDeps
  <2>5. RecordInv'
    BY <2>2, <2>4 DEF IInv, RecordInv, Closed
  <2>6. QED
    BY <2>3, <2>5
<1>6. WriteInv' /\ EndInv'
  BY DEF IInv, WriteInv, EndInv, Fresh, Succeeded, PagesNow, TreeAsBooked, Tracked,
         ViewNow, Reached
<1>7. QED
  BY <1>1, <1>2, <1>3, <1>4, <1>5, <1>6 DEF IInv

\* A save gets an mtime of its own, so every stat taken before is of the past.
LEMMA EditStep ==
    ASSUME Quiet, IInv, TypeOK',
           NEW f \in Files, NEW c \in Contents \union {None}, Edit(f, c)
    PROVE  IInv'
<1> USE DEF ir, bookParse, bookRender, job, scan, parse
<1>0. /\ c # None /\ now \in Nat /\ now' \in Nat /\ now < now'
      /\ mtime' = [mtime EXCEPT ![f] = now']
  <2>1. c # None /\ now \in Nat /\ now' \in Nat /\ now < now'
    BY ConstantsAssumption DEF IInv, TypeOK, Edit, Quiet
  <2>2. Truncated(now') = now'
    BY <2>1, TruncatedFine
  <2>3. QED
    BY <2>1, <2>2 DEF Edit
<1>1. ClockInv'
  BY <1>0 DEF IInv, TypeOK, ClockInv, Edit
<1>2. StatInv'
  <2>1. \A g \in Files \ {f} : StatNow(g)' = StatNow(g) /\ disk'[g] = disk[g]
    BY <1>0 DEF StatNow, Edit, IInv, TypeOK
  <2>2. StatNow(f)'[1] = now'
    BY <1>0 DEF StatNow, IInv, TypeOK
  <2>3. ASSUME NEW g \in Files PROVE
           /\ bkStat[g] # None => bkStat[g][1] \in Nat
           /\ memo[g] # None => memo[g].stat[1] \in Nat
    BY DEF IInv, TypeOK, Stats, Digests
  <2>4. ASSUME NEW g \in Files, NEW stat, NEW sha, stat[1] \in Nat, Witness(stat, sha, g)
        PROVE  Witness(stat, sha, g)'
    BY <1>0, <2>1, <2>2, <2>4 DEF Witness
  <2>5. UNCHANGED <<bkStat, bkSha, memo>>
    BY DEF Edit
  <2>6. QED
    BY <2>3, <2>4, <2>5 DEF IInv, StatInv
<1>3. BookInv' /\ IrInv' /\ RenderInv'
  BY DEF Edit, IInv, BookInv, Closed, IrInv, RenderInv, BookViews, BookView
<1>4. pc' = pc /\ pc \notin {"scan", "ready", "parse"}
  BY DEF Edit, Quiet
<1>5. ScanInv' /\ PlanInv' /\ ParseInv'
  BY <1>4 DEF Edit, IInv, ScanInv, PlanInv, ParseInv, NoRows
<1>6. clean' => clean /\ disk' = disk
  BY DEF Edit, IInv, TypeOK
<1>7. RecordInv'
  <2>1. ASSUME NEW g \in Files, pc = "record", irFiles[g] # None
        PROVE  disk'[g] = irFiles[g] \/ (~clean' /\ mtime'[g] > started)
    BY <1>0, <1>6, <2>1 DEF Edit, IInv, TypeOK, RecordInv
  <2>2. FreshDeps' = FreshDeps
    BY DEF Edit, FreshDeps
  <2>3. started <= now => started <= now'
    BY <1>0 DEF IInv, TypeOK
  <2>4. QED
    BY <2>1, <2>2, <2>3 DEF Edit, IInv, RecordInv, Closed
<1>8. WriteInv' /\ EndInv'
  BY <1>6 DEF Edit, IInv, WriteInv, EndInv, Fresh, Succeeded, PagesNow, TreeAsBooked,
              Tracked, ViewNow, Reached
<1>9. QED
  BY <1>1, <1>2, <1>3, <1>5, <1>7, <1>8 DEF IInv

\* A store is lost between two builds.
LEMMA DamageStep ==
    ASSUME IInv, LoseIr \/ LoseBook \/ DamagePages, TypeOK'
    PROVE  IInv'
<1> USE DEF ir, bookParse, bookRender, job, scan, parse
<1>0. /\ pc = "idle" /\ now <= now' /\ now \in Int /\ now' \in Int
      /\ UNCHANGED <<disk, mtime, memo, pc, cfg, rcfg, force, todo, probe, changed,
                     healed, plan, stale, started, tuRead, tuRows, outcome>>
  BY DEF IInv, TypeOK, LoseIr, LoseBook, DamagePages, Damaging
<1>1. ClockInv'
  BY <1>0 DEF IInv, TypeOK, ClockInv
<1>2. StatInv'
  <2>1. \A f \in Files : StatNow(f)' = StatNow(f)
    BY <1>0 DEF StatNow
  <2>2. ASSUME NEW f \in Files PROVE
           /\ bkStat[f] # None => bkStat[f][1] \in Int
           /\ memo[f] # None => memo[f].stat[1] \in Int
    BY DEF IInv, TypeOK, Stats, Digests
  <2>3. bkStat' = NoRows \/ UNCHANGED <<bkStat, bkSha>>
    BY DEF LoseIr, LoseBook, DamagePages
  <2>4. QED
    BY <1>0, <2>1, <2>2, <2>3 DEF IInv, StatInv, Witness, NoRows
<1>3. BookInv' /\ IrInv' /\ RenderInv'
  BY <1>0 DEF IInv, BookInv, Closed, IrInv, RenderInv, BookViews, BookView, LoseIr,
              LoseBook, DamagePages
<1>4. ScanInv' /\ PlanInv' /\ ParseInv' /\ RecordInv' /\ WriteInv'
  BY <1>0 DEF IInv, ScanInv, PlanInv, ParseInv, RecordInv, WriteInv, NoRows
<1>5. EndInv'
  <2>1. ~clean' \/ UNCHANGED <<pages, clean>>
    BY DEF LoseIr, LoseBook, DamagePages
  <2>2. QED
    BY <1>0, <2>1 DEF IInv, EndInv, Fresh, Succeeded, PagesNow, ViewNow, Reached
<1>6. QED
  BY <1>1, <1>2, <1>3, <1>4, <1>5 DEF IInv

\* A build that ends without having been recorded, in a phase Quiet allows.
LEMMA FailStep ==
    ASSUME Quiet, IInv, Fail \/ AbortTus, TypeOK'
    PROVE  IInv'
<1> USE DEF world, ir, bookParse, bookRender, job
<1>0. /\ pc \in {"scan", "ready", "parse", "write", "index"} /\ pc' = "idle"
      /\ UNCHANGED <<world, ir, bookParse, bookRender, job, memo, clean>>
      /\ outcome' = "failed"
      /\ todo' = {} /\ probe' = None /\ changed' = {} /\ healed' = NoRows
      /\ tuRead' = [i \in Inputs |-> NoView] /\ tuRows' = [i \in Inputs |-> None]
  BY DEF Fail, AbortTus, ParseFinished, Idle, Quiet
<1>1. ClockInv' /\ StatInv'
  BY <1>0 DEF IInv, ClockInv, StatInv, Witness, StatNow
<1>2. BookInv' /\ IrInv' /\ RenderInv'
  BY <1>0 DEF IInv, BookInv, Closed, IrInv, RenderInv, BookViews, BookView
<1>3. ScanInv' /\ PlanInv' /\ ParseInv' /\ RecordInv' /\ WriteInv' /\ EndInv'
  BY <1>0 DEF ScanInv, PlanInv, ParseInv, RecordInv, WriteInv, EndInv, Fresh,
              Succeeded, NoRows
<1>4. QED
  BY <1>1, <1>2, <1>3 DEF IInv

LEMMA StartStep ==
    ASSUME IInv, TypeOK', NEW c \in ParseCfgs, NEW r \in RenderCfgs,
           NEW strict \in ForceFull, NEW fresh \in NewProcess,
           StartBuild(c, r, strict, fresh)
    PROVE  IInv'
<1> USE DEF world, ir, bookParse, bookRender, parse, StartBuild
<1>1. ClockInv'
  BY DEF IInv, ClockInv
<1>2. StatInv'
  BY DEF IInv, StatInv, Witness, StatNow, NoRows
<1>3. BookInv' /\ IrInv' /\ RenderInv'
  BY DEF IInv, BookInv, Closed, IrInv, RenderInv, BookViews, BookView
<1>4. ScanInv'
  BY DEF IInv, ScanInv, Usable, Tracked, NoRows
<1>5. PlanInv' /\ ParseInv' /\ RecordInv' /\ WriteInv' /\ EndInv'
  BY DEF IInv, PlanInv, ParseInv, RecordInv, WriteInv, EndInv, Fresh, Succeeded
<1>6. QED
  BY <1>1, <1>2, <1>3, <1>4, <1>5 DEF IInv

\* The scan looks at one file; what it leaves unhashed is as recorded.
LEMMA ScanStatStep ==
    ASSUME IInv, TypeOK', NEW f \in Files, ScanStat(f)
    PROVE  IInv'
<1> USE DEF world, ir, bookParse, bookRender, job, parse, ScanStat
<1>1. ClockInv' /\ StatInv' /\ BookInv' /\ IrInv' /\ RenderInv'
  BY DEF IInv, ClockInv, StatInv, Witness, StatNow, BookInv, Closed, IrInv, RenderInv,
         BookViews, BookView
<1>2. ScanInv'
  <2>1. bkStat[f] # None /\ bkStat[f] = StatNow(f) => disk[f] = bkSha[f]
    BY DEF IInv, StatInv, Witness
  <2>2. None # StatNow(f) \/ disk[f] = None
    BY StatType, ConstantsAssumption DEF IInv
  <2>3. /\ probe' # None => probe'.stat = StatNow(probe'.file)
        /\ UNCHANGED healed /\ pc' = "scan"
    BY ConstantsAssumption
  <2>p. disk[f] # None => [file |-> f, stat |-> StatNow(f)] # None
    BY NoneAssumption, StatType DEF Probes, IInv
  <2>4. ASSUME Usable(cfg), NEW g \in Tracked
        PROVE  \/ g \in todo' \/ g \in changed' \/ disk[g] = bkSha[g]
               \/ probe' # None /\ probe'.file = g
    <3>1. CASE g # f
      <4>1. g \in todo \/ g \in changed \/ disk[g] = bkSha[g]
        BY <2>4 DEF IInv, ScanInv
      <4>2. todo' = todo \ {f} /\ changed \subseteq changed'
        OBVIOUS
      <4>3. QED
        BY <3>1, <4>1, <4>2
    <3>2. CASE g = f
      BY <2>1, <2>2, <2>p, <3>2
    <3>3. QED
      BY <3>1, <3>2
  <2>5. QED
    BY <2>3, <2>4 DEF IInv, ScanInv, Usable, Tracked, StatNow
<1>3. PlanInv' /\ ParseInv' /\ RecordInv' /\ WriteInv' /\ EndInv'
  BY DEF IInv, PlanInv, ParseInv, RecordInv, WriteInv, EndInv, Fresh, Succeeded
<1>4. QED
  BY <1>1, <1>2, <1>3 DEF IInv

LEMMA ScanHashStep == ASSUME IInv, TypeOK', ScanHash PROVE IInv'
<1> USE DEF world, ir, bookParse, bookRender, job, parse, ScanHash
<1>1. ClockInv' /\ StatInv' /\ BookInv' /\ IrInv' /\ RenderInv'
  BY DEF IInv, ClockInv, StatInv, Witness, StatNow, BookInv, Closed, IrInv, RenderInv,
         BookViews, BookView
<1>2. pc = "scan"
  BY DEF IInv, ScanInv
<1>3. ScanInv'
  BY <1>2 DEF IInv, TypeOK, ScanInv, Usable, Tracked, StatNow
<1>4. PlanInv' /\ ParseInv' /\ RecordInv' /\ WriteInv' /\ EndInv'
  BY <1>2 DEF IInv, PlanInv, ParseInv, RecordInv, WriteInv, EndInv, Fresh, Succeeded
<1>5. QED
  BY <1>1, <1>3, <1>4 DEF IInv

\* Healing writes down stats of content just hashed.
LEMMA HealedStatInv ==
    ASSUME IInv, bkStat' = HealedStats, UNCHANGED <<world, bkSha, memo>>
    PROVE  StatInv'
<1>1. ASSUME NEW f \in Files, healed[f] # None
      PROVE  bkSha[f] # None /\ Witness(healed[f], bkSha[f], f)
  <2>1. healed[f] = StatNow(f) /\ disk[f] = bkSha[f] /\ disk[f] # None /\ mtime[f] <= now
    BY <1>1 DEF IInv, ScanInv, ClockInv
  <2>2. QED
    BY <2>1 DEF Witness, StatNow
<1>2. QED
  BY <1>1 DEF IInv, StatInv, Witness, HealedStats, world, StatNow

LEMMA ScanDoneStep == ASSUME IInv, TypeOK', ScanDone PROVE IInv'
<1> USE DEF world, bookRender, job, ScanDone, ScanFinished
<1>1. StatInv'
  BY HealedStatInv
<1>2. ClockInv' /\ BookInv' /\ IrInv' /\ RenderInv'
  BY DEF IInv, ClockInv, BookInv, Closed, IrInv, RenderInv, BookViews, BookView
<1>3. ScanInv'
  BY DEF IInv, ScanInv, NoRows
<1>4. PlanInv'
  <2>1. plan' = "full" => stale' = Inputs
    OBVIOUS
  <2>2. ASSUME plan' # "full"
        PROVE  /\ Usable(cfg) /\ irState # "corrupt" /\ irState' = irState
               /\ plan' = Verdict /\ Verdict \in {"render", "partial"}
    BY <2>2 DEF Verdict
  <2>3. ASSUME plan' # "full" PROVE irState' = "ok" /\ bkFp' = cfg'
    BY <2>2, <2>3 DEF IInv, TypeOK, Usable
  <2>4. ASSUME plan' # "full", NEW f \in Tracked
        PROVE  disk[f] = bkSha[f] \/ (plan' = "partial" /\ OwnersOf(f) \subseteq stale')
    <3>1. f \in changed \/ disk[f] = bkSha[f]
      BY <2>2, <2>4 DEF IInv, ScanInv
    <3>2. CASE f \in changed
      <4>1. plan' = "partial"
        BY <2>2, <2>4, <3>2 DEF Verdict
      <4>2. QED
        BY <3>2, <4>1
    <3>3. QED
      BY <3>1, <3>2
  <2>5. QED
    BY <2>1, <2>3, <2>4 DEF PlanInv, Tracked, OwnersOf
<1>5. ParseInv' /\ RecordInv' /\ WriteInv' /\ EndInv'
  BY DEF IInv, ParseInv, RecordInv, WriteInv, EndInv, Fresh, Succeeded
<1>6. QED
  BY <1>1, <1>2, <1>3, <1>4, <1>5 DEF IInv

\* The shortcut: tree, bookkeeping, recorded outputs and pages all agree.
LEMMA NoopStep == ASSUME IInv, TypeOK', Noop PROVE IInv'
<1> USE DEF world, ir, bookRender, job, Noop, Idle, ScanFinished
<1>1. StatInv'
  BY HealedStatInv
<1>2. ClockInv' /\ BookInv' /\ IrInv' /\ RenderInv'
  BY DEF IInv, ClockInv, BookInv, Closed, IrInv, RenderInv, BookViews, BookView
<1>3. ScanInv' /\ PlanInv' /\ ParseInv' /\ RecordInv' /\ WriteInv'
  BY DEF IInv, ScanInv, PlanInv, ParseInv, RecordInv, WriteInv, NoRows
<1>4. pages = PagesNow
  <2>1. Usable(cfg) /\ changed = {} /\ bkRender = rcfg /\ pages = bkOut
    BY DEF NoopNow, Verdict
  <2>2. bkFp = cfg /\ TreeAsBooked
    BY <2>1 DEF IInv, ScanInv, Usable, TreeAsBooked
  <2>3. bkRender # None
    BY <2>1, ConstantsAssumption DEF IInv, TypeOK
  <2>4. bkOut = [rcfg |-> rcfg, tu |-> BookViews]
    BY <2>1, <2>3 DEF IInv, RenderInv
  <2>5. QED
    BY <2>1, <2>2, <2>4, BookIsNow DEF IInv, PagesNow
<1>5. EndInv'
  BY <1>4 DEF EndInv, Fresh, PagesNow, ViewNow, Reached
<1>6. QED
  BY <1>1, <1>2, <1>3, <1>5 DEF IInv

LEMMA BeginParseStep == ASSUME IInv, TypeOK', BeginParse PROVE IInv'
<1> USE DEF world, ir, bookParse, bookRender, job, scan, BeginParse
<1>1. ClockInv' /\ StatInv' /\ BookInv' /\ IrInv' /\ RenderInv'
  BY DEF IInv, ClockInv, StatInv, Witness, StatNow, BookInv, Closed, IrInv, RenderInv,
         BookViews, BookView
<1>2. ScanInv' /\ PlanInv'
  BY DEF IInv, ScanInv, PlanInv, NoRows, Tracked, OwnersOf, StatNow
<1>3. ParseInv' /\ RecordInv'
  BY DEF IInv, TypeOK, ParseInv, RecordInv
<1>4. WriteInv' /\ EndInv'
  BY DEF IInv, PlanInv, WriteInv, TreeAsBooked, Tracked, EndInv, Fresh, Succeeded
<1>5. QED
  BY <1>1, <1>2, <1>3, <1>4 DEF IInv

LEMMA ReadTuStep == ASSUME IInv, TypeOK', NEW i \in Inputs, ReadTu(i) PROVE IInv'
<1> USE DEF world, ir, bookParse, bookRender, job, scan, ReadTu
<1>1. ClockInv' /\ StatInv' /\ BookInv' /\ IrInv' /\ RenderInv'
  BY DEF IInv, ClockInv, StatInv, Witness, StatNow, BookInv, Closed, IrInv, RenderInv,
         BookViews, BookView
<1>2. ScanInv' /\ PlanInv'
  BY DEF IInv, ScanInv, PlanInv, NoRows, Tracked, OwnersOf, StatNow
<1>3. ParseInv'
  <2>1. \A j \in Inputs : \A c : ViewNow(j, c)' = ViewNow(j, c)
    BY DEF ViewNow, Reached
  <2>2. ASSUME NEW j \in Inputs
        PROVE  /\ tuRead'[j] # NoView => tuRead'[j] = ViewNow(j, cfg)
               /\ tuRows'[j] # None => tuRead'[j] # NoView /\ tuRows'[j] = tuRead'[j].src
    BY DEF IInv, TypeOK, ParseInv
  <2>3. QED
    BY <2>1, <2>2 DEF IInv, ParseInv
<1>4. RecordInv' /\ WriteInv' /\ EndInv'
  BY DEF IInv, RecordInv, WriteInv, EndInv, Fresh, Succeeded
<1>5. QED
  BY <1>1, <1>2, <1>3, <1>4 DEF IInv

\* A remembered digest, like one just computed, is that of the tree.
LEMMA DigestIsNow ==
    ASSUME IInv, NEW f \in Files
    PROVE  Digest(f) = disk[f] /\ disk[f] # None
BY DEF IInv, ClockInv, StatInv, Witness, Digest

LEMMA HashTuStep == ASSUME IInv, TypeOK', NEW i \in Inputs, HashTu(i) PROVE IInv'
<1> USE DEF world, ir, bookParse, bookRender, job, scan
<1> DEFINE rows == [f \in Files |-> IF f \in DepsOf(tuRead[i]) THEN Digest(f) ELSE None]
<1>1. tuRead[i] = ViewNow(i, cfg)
  BY DEF HashTu, IInv, ParseInv
<1>2. rows = tuRead[i].src
  BY <1>1, DigestIsNow, ReachedQuiet DEF IInv, ViewNow
<1>3. \A f \in Files : rows[f] # None => rows[f] = disk[f]
  BY DigestIsNow
<1> HIDE DEF rows
<1>4. /\ tuRows' = [tuRows EXCEPT ![i] = rows]
      /\ memo' = [f \in Files |-> IF rows[f] = None THEN memo[f]
                                  ELSE [stat |-> StatNow(f), sha |-> rows[f]]]
      /\ UNCHANGED <<world, ir, bookParse, bookRender, pages, pc, job, scan, plan,
                     stale, started, tuRead, outcome, clean>>
      /\ pc = "parse" /\ tuRead[i] # NoView
  BY DEF HashTu, rows
<1>5. StatInv'
  <2>1. ASSUME NEW f \in Files, memo'[f] # None
        PROVE  Witness(memo'[f].stat, memo'[f].sha, f)
    <3>1. CASE rows[f] = None
      BY <1>4, <2>1, <3>1 DEF IInv, StatInv
    <3>2. CASE rows[f] # None
      BY <1>3, <1>4, <3>2 DEF IInv, ClockInv, Witness, StatNow
    <3>3. QED
      BY <3>1, <3>2
  <2>2. QED
    BY <1>4, <2>1 DEF IInv, StatInv, Witness, StatNow
<1>6. ClockInv' /\ BookInv' /\ IrInv' /\ RenderInv'
  BY <1>4 DEF IInv, ClockInv, BookInv, Closed, IrInv, RenderInv, BookViews, BookView
<1>7. ScanInv' /\ PlanInv'
  BY <1>4 DEF IInv, ScanInv, PlanInv, NoRows, Tracked, OwnersOf, StatNow
<1>8. ParseInv'
  <2>1. \A j \in Inputs : \A c : ViewNow(j, c)' = ViewNow(j, c)
    BY <1>4 DEF ViewNow, Reached
  <2>2. ASSUME NEW j \in Inputs, tuRows'[j] # None
        PROVE  tuRead[j] # NoView /\ tuRows'[j] = tuRead[j].src
    BY <1>2, <1>4, <2>2 DEF IInv, TypeOK, ParseInv
  <2>3. QED
    BY <1>4, <2>1, <2>2 DEF IInv, ParseInv
<1>9. RecordInv' /\ WriteInv' /\ EndInv'
  BY <1>4 DEF IInv, RecordInv, WriteInv, EndInv, Fresh, Succeeded
<1>10. QED
  BY <1>5, <1>6, <1>7, <1>8, <1>9 DEF IInv

\* What the parse of the stale units has produced.
LEMMA ParsedRows ==
    ASSUME IInv, ParseFinished
    PROVE  /\ \A i \in stale : /\ tuRead[i] = ViewNow(i, cfg)
                               /\ DepsOf(tuRead[i]) = Reached(i)
           /\ \A f \in Files : Readers(f) = {i \in stale : f \in Reached(i)}
           /\ \A f \in Files : Readers(f) # {} =>
                 FirstRow(f) = disk[f] /\ LastRow(f) = disk[f]
<1>1. ASSUME NEW i \in stale
      PROVE  /\ tuRead[i] = ViewNow(i, cfg) /\ tuRows[i] = ViewNow(i, cfg).src
             /\ DepsOf(tuRead[i]) = Reached(i)
  <2>1. i \in Inputs /\ tuRows[i] # None /\ pc = "parse"
    BY DEF IInv, TypeOK, ParseFinished
  <2>2. tuRead[i] = ViewNow(i, cfg) /\ tuRows[i] = tuRead[i].src
    BY <2>1 DEF IInv, ParseInv
  <2>3. QED
    BY <2>1, <2>2, ReachedQuiet DEF IInv
<1>2. ASSUME NEW i \in stale, NEW f \in Files
      PROVE  /\ tuRows[i][f] # None <=> f \in Reached(i)
             /\ f \in Reached(i) => tuRows[i][f] = disk[f]
  <2>1. tuRows[i] = ViewNow(i, cfg).src
    BY <1>1
  <2>2. tuRows[i][f] = IF f \in Reached(i) THEN disk[f] ELSE None
    BY <2>1 DEF ViewNow
  <2>3. disk[f] # None
    BY DEF IInv, ClockInv
  <2>4. QED
    BY <2>2, <2>3
<1>3. ASSUME NEW f \in Files PROVE Readers(f) = {i \in stale : f \in Reached(i)}
  BY <1>2 DEF Readers
<1>4. ASSUME NEW f \in Files, Readers(f) # {}
      PROVE  FirstRow(f) = disk[f] /\ LastRow(f) = disk[f]
  <2>1. Readers(f) \in SUBSET Inputs
    BY DEF IInv, TypeOK, Readers
  <2>2. PICK x \in Readers(f) : \A y \in Readers(f) : x <= y
    BY <1>4, <2>1, FirstAndLastInput
  <2>3. PICK z \in Readers(f) : \A y \in Readers(f) : y <= z
    BY <1>4, <2>1, FirstAndLastInput
  <2>4. \A i \in Readers(f) : tuRows[i][f] = disk[f]
    BY <1>2, <1>3
  <2>5. QED
    BY <2>2, <2>3, <2>4 DEF FirstRow, LastRow
<1>5. QED
  BY <1>1, <1>3, <1>4

\* A commit that leaves the IR of a full parse of the tree re-establishes what
\* Record relies on.
LEMMA CommitEstablishes ==
    ASSUME IInv, TypeOK',
           pc = "parse", pc' = "record",
           plan = "full" \/ (plan = "partial" /\ bkFp = cfg),
           \A i \in Inputs : FreshDeps[i] = Reached(i) /\ irTu'[i] = ViewNow(i, cfg),
           \A f \in Files : irFiles'[f] = IF \E i \in Inputs : f \in Reached(i)
                                          THEN disk[f] ELSE None,
           irState' = "ok",
           UNCHANGED <<world, bookParse, bookRender, pages, memo, job, scan, plan,
                       parse, outcome, clean>>
    PROVE  IInv'
<1> USE DEF world, bookParse, bookRender, job, scan, parse
<1>1. ClockInv' /\ StatInv' /\ BookInv' /\ IrInv' /\ RenderInv'
  BY DEF IInv, ClockInv, StatInv, Witness, StatNow, BookInv, Closed, IrInv, RenderInv,
         BookViews, BookView
<1>2. ScanInv' /\ PlanInv' /\ ParseInv' /\ WriteInv' /\ EndInv'
  BY DEF IInv, ScanInv, PlanInv, ParseInv, WriteInv, EndInv, Fresh, Succeeded, NoRows
<1>3. RecordInv'
  <2>1. FreshDeps' = FreshDeps
    BY DEF FreshDeps
  <2>2. \A f \in Files : disk[f] # None
    BY DEF IInv, ClockInv
  <2>3. Closed(FreshDeps, irFiles')
    <3>1. ASSUME NEW i \in Inputs
          PROVE irFiles'[i] = disk[i] /\ FreshDeps[i] = {i} \union IncludesOf[disk[i]]
      BY ReachedQuiet DEF IInv, Files
    <3>2. QED
      BY <2>2, <3>1 DEF Closed, Files
  <2>4. ASSUME NEW i \in Inputs
        PROVE  irTu'[i] = [cfg |-> cfg,
                           src |-> [f \in Files |-> IF f \in FreshDeps[i]
                                                    THEN irFiles'[f] ELSE None]]
    BY DEF ViewNow
  <2>5. started <= now
    BY DEF IInv, ParseInv
  <2>6. QED
    BY <2>1, <2>2, <2>3, <2>4, <2>5 DEF RecordInv, Closed
<1>4. QED
  BY <1>1, <1>2, <1>3 DEF IInv

LEMMA CommitFullStep == ASSUME IInv, TypeOK', CommitFull PROVE IInv'
<1>1. pc = "parse" /\ stale = Inputs
  BY DEF CommitFull, ParseFinished, IInv, PlanInv
<1>2. \A i \in Inputs : tuRead[i] = ViewNow(i, cfg) /\ DepsOf(tuRead[i]) = Reached(i)
  BY <1>1, ParsedRows DEF CommitFull
<1>3. \A i \in Inputs : FreshDeps[i] = Reached(i) /\ irTu'[i] = ViewNow(i, cfg)
  BY <1>1, <1>2 DEF CommitFull, FreshDeps
<1>4. ASSUME NEW f \in Files
      PROVE  irFiles'[f] = IF \E i \in Inputs : f \in Reached(i) THEN disk[f] ELSE None
  <2>1. /\ Readers(f) = {i \in Inputs : f \in Reached(i)}
        /\ Readers(f) # {} => LastRow(f) = disk[f]
    BY <1>1, ParsedRows DEF CommitFull
  <2>2. irFiles'[f] = IF Readers(f) = {} THEN None ELSE LastRow(f)
    BY DEF CommitFull
  <2>3. QED
    BY <2>1, <2>2
<1>5. QED
  BY <1>1, <1>3, <1>4, CommitEstablishes DEF CommitFull

\* The heart of the matter: a partial parse leaves the views of a full one.
LEMMA CommitTusStep == ASSUME IInv, TypeOK', CommitTus PROVE IInv'
<1>1. /\ pc = "parse" /\ plan = "partial" /\ irState = "ok" /\ bkFp = cfg
      /\ bkFp # None /\ Closed(bkDeps, bkSha)
      /\ irTu = BookViews /\ irFiles = bkSha /\ stale \subseteq Inputs
  BY ConstantsAssumption
     DEF CommitTus, ParseFinished, IInv, TypeOK, PlanInv, BookInv, IrInv
\* A unit that is not re-parsed reaches only files that are as booked.
<1>2. ASSUME NEW i \in Inputs \ stale
      PROVE  /\ \A f \in bkDeps[i] : f \in Files /\ disk[f] = bkSha[f]
             /\ bkDeps[i] = Reached(i)
             /\ irTu[i] = ViewNow(i, cfg)
  <2>1. bkDeps[i] \subseteq Files
    BY DEF IInv, TypeOK
  <2>2. ASSUME NEW f \in bkDeps[i] PROVE disk[f] = bkSha[f]
    <3>1. f \in Tracked
      BY <1>1, <2>1 DEF Closed, Tracked
    <3>2. ~(OwnersOf(f) \subseteq stale)
      BY DEF OwnersOf
    <3>3. QED
      BY <1>1, <3>1, <3>2 DEF IInv, PlanInv
  <2>3. bkDeps[i] = Reached(i)
    BY <1>1, <2>2, ReachedQuiet DEF Closed, IInv
  <2>4. [f \in Files |-> IF f \in bkDeps[i] THEN bkSha[f] ELSE None]
        = [f \in Files |-> IF f \in Reached(i) THEN disk[f] ELSE None]
    BY <2>2, <2>3
  <2>5. QED
    BY <1>1, <2>1, <2>2, <2>3, <2>4 DEF BookViews, BookView, ViewNow
<1>3. \A i \in stale : tuRead[i] = ViewNow(i, cfg) /\ DepsOf(tuRead[i]) = Reached(i)
  BY ParsedRows DEF CommitTus
<1>4. \A i \in Inputs : FreshDeps[i] = Reached(i) /\ irTu'[i] = ViewNow(i, cfg)
  BY <1>1, <1>2, <1>3 DEF CommitTus, FreshDeps
<1>5. ASSUME NEW f \in Files
      PROVE  irFiles'[f] = IF \E i \in Inputs : f \in Reached(i) THEN disk[f] ELSE None
  <2>1. /\ Readers(f) = {i \in stale : f \in Reached(i)}
        /\ Readers(f) # {} => FirstRow(f) = disk[f]
    BY ParsedRows DEF CommitTus
  <2>2. irFiles'[f] = IF Readers(f) # {} THEN FirstRow(f)
                      ELSE IF f \in Dropped THEN None ELSE bkSha[f]
    BY <1>1 DEF CommitTus
  <2>3. CASE Readers(f) # {}
    BY <1>1, <2>1, <2>2, <2>3
  <2>4. CASE Readers(f) = {} /\ \E i \in Inputs : f \in Reached(i)
    <3>1. PICK i \in Inputs \ stale : f \in Reached(i)
      BY <2>1, <2>4
    <3>2. i \in OwnersOf(f) /\ disk[f] = bkSha[f]
      BY <1>2, <3>1 DEF OwnersOf
    <3>3. QED
      BY <2>2, <2>4, <3>1, <3>2 DEF Dropped
  <2>5. CASE Readers(f) = {} /\ ~\E i \in Inputs : f \in Reached(i)
    <3>1. OwnersOf(f) \subseteq stale
      BY <1>2, <2>5 DEF OwnersOf
    <3>2. OwnersOf(f) = {} => bkSha[f] = None
      BY <1>1 DEF Closed, OwnersOf
    <3>3. QED
      BY <2>2, <2>5, <3>1, <3>2 DEF Dropped
  <2>6. QED
    BY <2>3, <2>4, <2>5
<1>6. QED
  BY <1>1, <1>4, <1>5, CommitEstablishes DEF CommitTus

\* What is recorded is what the IR holds; a stat is recorded only when it
\* vouches for the recorded digest.
LEMMA RecordStep == ASSUME IInv, TypeOK', Record PROVE IInv'
<1> USE DEF world, ir, job, scan, parse
<1>1. /\ pc = "record" /\ pc' = "write"
      /\ bkDeps' = FreshDeps /\ bkSha' = irFiles /\ bkFp' = cfg /\ bkRender' = None
      /\ bkStat' = [f \in Files |-> StatRow(f, irFiles[f])]
      /\ UNCHANGED <<world, ir, bkOut, pages, memo, job, scan, plan, parse, outcome, clean>>
  <2>1. \A f \in Files : plan = "full" \/ (\E i \in Inputs : f \in FreshDeps[i])
                         \/ irFiles[f] = None
    BY DEF Record, IInv, RecordInv, Closed
  <2>2. irFiles \in Rows
    BY DEF IInv, TypeOK
  <2>3. bkSha' = irFiles
    BY <2>1, <2>2 DEF Record, Rows
  <2>4. QED
    BY <2>3 DEF Record, ClearedRender, IInv, RecordInv
<1>2. StatInv'
  <2>1. ASSUME NEW f \in Files, bkStat'[f] # None
        PROVE  irFiles[f] # None /\ bkStat'[f][1] = mtime[f] /\ disk[f] = irFiles[f]
    <3>1. /\ irFiles[f] # None /\ FastPathMtime(f) # None
          /\ bkStat'[f] = <<FastPathMtime(f), SizeOf[irFiles[f]]>>
      BY <1>1, <2>1 DEF StatRow
    <3>2. FastPathMtime(f) = mtime[f] /\ ~(mtime[f] >= started - Slack)
      BY <3>1 DEF FastPathMtime
    <3>3. ~(mtime[f] > started)
      BY <3>2, ConstantsAssumption DEF IInv, TypeOK
    <3>4. QED
      BY <1>1, <3>1, <3>2, <3>3 DEF IInv, RecordInv
  <2>2. ASSUME NEW f \in Files, bkStat'[f] # None
        PROVE  bkSha'[f] # None /\ Witness(bkStat'[f], bkSha'[f], f)
    BY <1>1, <2>1, <2>2 DEF IInv, ClockInv, Witness
  <2>3. QED
    BY <1>1, <2>2 DEF IInv, StatInv, Witness, StatNow
<1>3. BookInv'
  <2>1. cfg # None /\ Closed(FreshDeps, irFiles)
    BY <1>1, ConstantsAssumption DEF IInv, TypeOK, RecordInv
  <2>2. QED
    BY <1>1, <2>1 DEF BookInv, Closed
<1>4. IrInv'
  <2>1. \A i \in Inputs : irTu[i] = BookView(i)'
    BY <1>1 DEF IInv, RecordInv, BookView
  <2>2. irTu = BookViews'
    BY <2>1 DEF IInv, TypeOK, BookViews
  <2>3. QED
    BY <1>1, <2>2 DEF IrInv
<1>5. WriteInv'
  <2>1. clean => \A f \in Files : irFiles[f] # None => disk[f] = irFiles[f]
    BY <1>1 DEF IInv, RecordInv
  <2>2. QED
    BY <1>1, <2>1 DEF IInv, RecordInv, WriteInv, TreeAsBooked, Tracked
<1>6. ClockInv' /\ RenderInv' /\ ScanInv' /\ PlanInv' /\ ParseInv' /\ RecordInv' /\ EndInv'
  BY <1>1 DEF IInv, ClockInv, RenderInv, ScanInv, PlanInv, ParseInv, RecordInv, EndInv,
              Fresh, Succeeded, NoRows
<1>7. QED
  BY <1>2, <1>3, <1>4, <1>5, <1>6 DEF IInv

LEMMA RenderStep ==
    ASSUME IInv, TypeOK', WritePages \/ RecordOutputs
    PROVE  IInv'
<1> USE DEF world, ir, bookParse, bookRender, job, scan, parse, WritePages, RecordOutputs
<1>1. ClockInv' /\ StatInv' /\ BookInv' /\ IrInv'
  BY DEF IInv, ClockInv, StatInv, Witness, StatNow, BookInv, Closed, IrInv, BookViews,
         BookView
<1>2. RenderInv'
  BY DEF IInv, RenderInv, BookViews, BookView
<1>3. ScanInv' /\ PlanInv' /\ ParseInv' /\ RecordInv' /\ EndInv'
  BY DEF IInv, ScanInv, PlanInv, ParseInv, RecordInv, EndInv, Fresh, Succeeded, NoRows
<1>4. WriteInv'
  BY DEF IInv, WriteInv, TreeAsBooked, Tracked
<1>5. QED
  BY <1>1, <1>2, <1>3, <1>4 DEF IInv

\* The render is recorded: pages, recorded outputs, IR and bookkeeping agree,
\* and so does the tree if nothing was saved meanwhile.
LEMMA SealStep == ASSUME IInv, TypeOK', RecordRender PROVE IInv'
<1> USE DEF world, ir, bookParse, job, RecordRender, Idle
<1>1. /\ bkFp = cfg /\ bkFp # None /\ irTu = BookViews
      /\ pages = [rcfg |-> rcfg, tu |-> BookViews] /\ bkOut = pages
      /\ clean => TreeAsBooked
  BY ConstantsAssumption DEF IInv, TypeOK, IrInv, WriteInv
<1>2. ClockInv' /\ StatInv' /\ BookInv' /\ IrInv'
  BY <1>1 DEF IInv, ClockInv, StatInv, Witness, StatNow, BookInv, Closed, IrInv,
              BookViews, BookView
<1>3. RenderInv'
  BY <1>1 DEF RenderInv, BookViews, BookView
<1>4. ScanInv' /\ PlanInv' /\ ParseInv' /\ RecordInv' /\ WriteInv'
  BY DEF ScanInv, PlanInv, ParseInv, RecordInv, WriteInv, NoRows, IInv
<1>5. clean => pages = PagesNow
  BY <1>1, BookIsNow DEF IInv, PagesNow
<1>6. EndInv'
  BY <1>5 DEF EndInv, Fresh, PagesNow, ViewNow, Reached
<1>7. QED
  BY <1>2, <1>3, <1>4, <1>6 DEF IInv

LEMMA NextIInv == Quiet /\ IInv /\ [Next]_vars => IInv'
<1> SUFFICES ASSUME Quiet, IInv, [Next]_vars PROVE IInv'
  OBVIOUS
<1>1. TypeOK'
  BY TypeStep
<1>2. ASSUME BuildStep PROVE IInv'
  BY <1>1, <1>2, ScanStatStep, ScanHashStep, NoopStep, ScanDoneStep, BeginParseStep,
     ReadTuStep, HashTuStep, CommitFullStep, CommitTusStep, FailStep, RecordStep,
     RenderStep, SealStep
     DEF BuildStep
<1>3. ASSUME Start PROVE IInv'
  BY <1>1, <1>3, StartStep DEF Start
<1>4. ASSUME Environment PROVE IInv'
  BY <1>1, <1>4, TickStep, EditStep, DamageStep, FailStep DEF Environment
<1>5. CASE UNCHANGED vars
  BY <1>1, <1>5, TickStep
<1>6. QED
  BY <1>2, <1>3, <1>4, <1>5 DEF Next

LEMMA InductiveInvariant == ASSUME Quiet PROVE Spec => []IInv
<1>1. Init => IInv
  BY InitIInv
<1>2. IInv /\ [Next]_vars => IInv'
  BY NextIInv
<1>3. QED
  BY <1>1, <1>2, PTL DEF Spec

-----------------------------------------------------------------------------
(* What follows from it.                                                   *)

\* A build that succeeded, with nothing edited since it began, leaves pages that
\* are made of every unit's view of the present tree, and of no stale one.
THEOREM IncrementalIsFresh == ASSUME Quiet PROVE Spec => []Fresh
<1>1. IInv => Fresh
  BY DEF IInv, EndInv
<1>2. QED
  BY <1>1, InductiveInvariant, PTL

\* A tracked file whose stat is the recorded one holds the recorded content.
THEOREM FastPathIsHonest == ASSUME Quiet PROVE Spec => []FastPathHonest
<1>1. IInv => FastPathHonest
  <2> SUFFICES ASSUME IInv, NEW f \in Tracked, disk[f] # None, bkStat[f] = StatNow(f)
               PROVE  disk[f] = bkSha[f]
    BY DEF FastPathHonest
  <2>1. f \in Files /\ StatNow(f) # None
    BY StatType, ConstantsAssumption DEF Tracked, IInv
  <2>2. QED
    BY <2>1 DEF IInv, StatInv, Witness
<1>2. QED
  BY <1>1, InductiveInvariant, PTL

LEMMA BookedOutput ==
    ASSUME TypeOK, bkRender # None
    PROVE  [rcfg |-> bkRender, tu |-> BookViews] # None
<1>1. \A i \in Inputs : BookView(i) \in Views
  BY DEF TypeOK, BookView, Views, Rows
<1>2. [rcfg |-> bkRender, tu |-> BookViews] \in PageSets
  BY <1>1 DEF TypeOK, BookViews, PageSets
<1>3. QED
  BY <1>2, NoneAssumption

\* Valid render bookkeeping describes a complete render of the recorded parse.
THEOREM RenderMetaIsHonest == ASSUME Quiet PROVE Spec => []RenderMetaHonest
<1>1. IInv => RenderMetaHonest
  <2> SUFFICES ASSUME IInv, pc = "idle", bkRender # None
               PROVE  RenderMetaHonest
    BY DEF RenderMetaHonest
  <2>1. bkOut = [rcfg |-> bkRender, tu |-> BookViews]
    BY DEF IInv, RenderInv
  <2>2. bkOut # None
    BY <2>1, BookedOutput DEF IInv
  <2>3. \A i \in Inputs : bkDeps[i] \subseteq Files
    BY DEF IInv, TypeOK
  <2>4. QED
    BY <2>1, <2>2, <2>3 DEF RenderMetaHonest, BookViews, BookView
<1>2. QED
  BY <1>1, InductiveInvariant, PTL

\* A parse served from cache has the IR that made the recorded outputs.
THEOREM CacheHitIsIr == ASSUME Quiet PROVE Spec => []CacheHitIr
<1>1. IInv => CacheHitIr
  <2> SUFFICES ASSUME IInv, pc = "ready", plan = "render", irState = "ok", bkRender # None
               PROVE  bkOut # None /\ bkOut.tu = irTu
    BY DEF CacheHitIr
  <2>1. bkOut = [rcfg |-> bkRender, tu |-> BookViews]
    BY DEF IInv, RenderInv
  <2>2. bkFp # None
    BY DEF IInv, BookInv
  <2>3. irTu = BookViews
    BY <2>2 DEF IInv, IrInv
  <2>4. QED
    BY <2>1, <2>3, BookedOutput DEF IInv
<1>2. QED
  BY <1>1, InductiveInvariant, PTL

\* At rest the IR is made from the recorded configuration and contents.
THEOREM BookkeepingDescribesIr == ASSUME Quiet PROVE Spec => []BookDescribesIr
<1>1. IInv => BookDescribesIr
  <2> SUFFICES ASSUME IInv, pc = "idle", irState = "ok", bkFp # None, NEW i \in Inputs
               PROVE  /\ irTu[i].cfg = bkFp
                      /\ DepsOf(irTu[i]) = bkDeps[i]
                      /\ \A f \in bkDeps[i] : irTu[i].src[f] = bkSha[f]
    BY DEF BookDescribesIr
  <2>1. irTu[i] = BookView(i) /\ Closed(bkDeps, bkSha) /\ bkDeps[i] \subseteq Files
    BY DEF IInv, TypeOK, IrInv, BookInv, BookViews
  <2>2. QED
    BY <2>1 DEF BookView, DepsOf, Closed
<1>2. QED
  BY <1>1, InductiveInvariant, PTL

\* How a build comes to succeed, and what may happen once it has.
LEMMA NoopStays ==
    ASSUME IInv, [Next]_vars, NextIsNoop
    PROVE  NextIsNoop'
<1> SUFFICES ASSUME Succeeded', clean'
             PROVE  /\ Usable(cfg)' /\ bkRender' = rcfg' /\ pages' = bkOut'
                    /\ \A f \in Tracked' : disk'[f] = bkSha'[f]
  BY DEF NextIsNoop
<1>1. CASE Noop
  <2>1. bkRender = rcfg /\ pages = bkOut /\ Usable(cfg) /\ changed = {}
    BY <1>1 DEF Noop, NoopNow, Verdict
  <2>2. \A f \in Tracked : disk[f] = bkSha[f]
    BY <1>1, <2>1 DEF Noop, ScanFinished, IInv, ScanInv
  <2>3. QED
    BY <1>1, <2>1, <2>2 DEF Noop, Usable, Tracked, world, ir, job, bookRender
<1>2. CASE RecordRender
  <2>1. irState = "ok" /\ bkFp = cfg /\ bkOut = pages /\ TreeAsBooked
    BY <1>2 DEF RecordRender, IInv, WriteInv
  <2>2. 1 \in Inputs /\ 1 \in Files
    BY ConstantsAssumption DEF Inputs, Files
  <2>3. bkSha[1] # None
    BY <2>1, <2>2, ConstantsAssumption DEF IInv, TypeOK, BookInv, Closed
  <2>4. Usable(cfg)
    BY <2>1, <2>2, <2>3 DEF Usable, Tracked
  <2>5. QED
    BY <1>2, <2>1, <2>4
    DEF RecordRender, TreeAsBooked, Usable, Tracked, world, ir, bookParse, job
<1>3. CASE Succeeded /\ clean /\ UNCHANGED <<disk, irState, bookParse, bookRender, pages, job>>
  BY <1>3 DEF NextIsNoop, Usable, Tracked, bookParse, bookRender, job
<1>4. CASE Tick \/ UNCHANGED vars
  BY <1>4, <1>3 DEF Tick, vars, world, ir, Succeeded
<1>5. ASSUME NEW f \in Files, NEW c \in Contents \union {None}, Edit(f, c)
      PROVE  disk' = disk /\ UNCHANGED <<irState, bookParse, bookRender, pages, job>>
             /\ Succeeded /\ clean
  BY <1>5 DEF Edit, ir, IInv, TypeOK, Succeeded
<1>6. CASE \E f \in Files, c \in Contents \union {None} : Edit(f, c)
  BY <1>3, <1>5, <1>6
<1>7. CASE LoseIr \/ LoseBook \/ DamagePages \/ Fail \/ Start
  BY <1>7 DEF LoseIr, LoseBook, DamagePages, Fail, Start, StartBuild, Idle, Succeeded
<1>8. CASE BuildStep /\ ~Noop /\ ~RecordRender
  <2>1. ~Succeeded
    BY <1>8 DEF BuildStep, IInv, EndInv, ScanStat, ScanHash, ScanDone, ScanFinished,
       BeginParse, ReadTu, HashTu, CommitFull, CommitTus, AbortTus, ParseFinished,
       Record, WritePages, RecordOutputs
  <2>2. outcome' = outcome \/ outcome' = "failed"
    BY <1>8 DEF BuildStep, ScanStat, ScanHash, ScanDone, BeginParse, ReadTu, HashTu,
       CommitFull, CommitTus, AbortTus, Idle, Record, WritePages, RecordOutputs
  <2>3. QED
    BY <2>1, <2>2 DEF Succeeded
<1>9. QED
  BY <1>1, <1>2, <1>4, <1>6, <1>7, <1>8 DEF Next, Environment

\* After a build that succeeded on a tree nobody touched, the same build again
\* finds nothing to parse, nothing to render and nothing to write.
THEOREM SecondBuildIsNoop == ASSUME Quiet PROVE Spec => []NextIsNoop
<1>1. Init => NextIsNoop
  BY DEF Init, NextIsNoop, Succeeded
<1>2. QED
  BY <1>1, NoopStays, InductiveInvariant, PTL DEF Spec

\* NoOrphanFiles, in every phase.
FilesMatch ==
    irState = "ok" =>
        {f \in Files : irFiles[f] # None} = UNION {DepsOf(irTu[i]) : i \in Inputs}

\* A commit leaves an IR whose files are those its units reach: RecordInv says so.
LEMMA CommitMatches == TypeOK /\ RecordInv /\ pc = "record" => FilesMatch
<1> SUFFICES ASSUME TypeOK, RecordInv, pc = "record"
             PROVE  FilesMatch
  OBVIOUS
<1>1. Closed(FreshDeps, irFiles)
  BY DEF RecordInv
<1>2. ASSUME NEW i \in Inputs
      PROVE  DepsOf(irTu[i]) = {f \in Files : f \in FreshDeps[i]}
  <2>1. irTu[i] = [cfg |-> cfg, src |-> [f \in Files |-> IF f \in FreshDeps[i]
                                                         THEN irFiles[f] ELSE None]]
    BY DEF RecordInv
  <2>2. \A f \in Files : f \in FreshDeps[i] => irFiles[f] # None
    BY <1>1 DEF Closed
  <2>3. QED
    BY <2>1, <2>2 DEF DepsOf
<1>3. \A f \in Files : irFiles[f] # None <=> \E i \in Inputs : f \in FreshDeps[i]
  BY <1>1 DEF Closed
<1>4. QED
  BY <1>2, <1>3 DEF FilesMatch

LEMMA FilesKeepMatching ==
    ASSUME IInv, IInv', [Next]_vars, FilesMatch
    PROVE  FilesMatch'
<1>1. CASE CommitFull \/ CommitTus
  <2>1. (TypeOK /\ RecordInv /\ pc = "record")'
    BY <1>1 DEF IInv, CommitFull, CommitTus
  <2>2. QED
    BY <2>1, CommitMatches, PTL
<1>2. CASE UNCHANGED ir
  BY <1>2 DEF FilesMatch, ir, DepsOf
<1>3. CASE irState' # "ok"
  BY <1>3 DEF FilesMatch
<1>4. CASE ScanDone
  <2>1. UNCHANGED <<irTu, irFiles>> /\ (irState' = "ok" => irState = "ok")
    BY <1>4 DEF ScanDone
  <2>2. QED
    BY <2>1 DEF FilesMatch, DepsOf
<1>5. CASE LoseIr
  BY <1>3, <1>5 DEF LoseIr
<1>6. CASE BuildStep /\ ~CommitFull /\ ~CommitTus /\ ~ScanDone
  BY <1>2, <1>6 DEF BuildStep, ScanStat, ScanHash, Noop, BeginParse, ReadTu, HashTu,
     AbortTus, Record, WritePages, RecordOutputs, RecordRender
<1>7. CASE Start \/ UNCHANGED vars
  BY <1>2, <1>7 DEF Start, StartBuild, vars
<1>8. CASE Environment /\ ~LoseIr
  BY <1>2, <1>8 DEF Environment, Tick, Edit, LoseBook, DamagePages, Fail
<1>9. QED
  BY <1>1, <1>4, <1>5, <1>6, <1>7, <1>8 DEF Next

\* A file is in the IR exactly when some unit reaches it, after any sequence of
\* full and partial parses, deaths and losses.
THEOREM NoFileIsOrphaned == ASSUME Quiet PROVE Spec => []NoOrphanFiles
<1>1. Init => FilesMatch
  BY DEF Init, FilesMatch
<1>2. FilesMatch => NoOrphanFiles
  BY DEF FilesMatch, NoOrphanFiles
<1>3. QED
  BY <1>1, <1>2, FilesKeepMatching, InductiveInvariant, PTL DEF Spec

-----------------------------------------------------------------------------
(* The restat guard, with files that come and go, deaths and saves at any  *)
(* moment, on a clock of any granularity.                                  *)

\* What was read as sha since the parse began is still there, or the file was
\* saved too late for its stat to be recorded.
Guarded(f, sha) == disk[f] # None => disk[f] = sha \/ mtime[f] >= started - Slack

GuardInv ==
    /\ pc \in {"idle", "scan", "ready"} => \A i \in Inputs : tuRows[i] = None
    /\ pc \in {"scan", "ready"} => memo = NoRows
    /\ pc \in {"parse", "record", "write", "index", "seal"} => started <= now
    /\ pc = "parse" => \A f \in Files :
          /\ memo[f] # None => Guarded(f, memo[f].sha)
          /\ \A i \in Inputs : tuRows[i] # None /\ tuRows[i][f] # None =>
                Guarded(f, tuRows[i][f])
    /\ pc = "record" /\ plan = "full" =>
          \A f \in Files : irFiles[f] # None => Guarded(f, irFiles[f])
    /\ pc \in {"write", "index", "seal"} /\ plan = "full" =>
          \A f \in Files : bkStat[f] # None =>
              bkStat[f][1] < started - Slack /\ Guarded(f, bkSha[f])

LEMMA GuardSuffices == TypeOK /\ GuardInv => RestatGuard
<1> SUFFICES ASSUME TypeOK, GuardInv, pc \in {"write", "index", "seal"}, plan = "full",
                    NEW f \in Tracked, disk[f] # None, bkStat[f] = StatNow(f)
             PROVE  disk[f] = bkSha[f]
  BY DEF RestatGuard, FastPathHonest
<1>1. f \in Files /\ StatNow(f) # None /\ StatNow(f)[1] = mtime[f]
  BY StatType, ConstantsAssumption DEF Tracked, StatNow
<1>2. mtime[f] < started - Slack /\ Guarded(f, bkSha[f])
  BY <1>1 DEF GuardInv
<1>3. mtime[f] \in Nat /\ started \in Nat /\ Slack \in Nat
  BY <1>1, ConstantsAssumption DEF TypeOK
<1>4. QED
  BY <1>2, <1>3 DEF Guarded

\* The slack covers what the clock's granularity hides.
LEMMA TruncatedLate ==
    ASSUME NEW t \in Nat
    PROVE  Truncated(t) >= t - Slack
<1>1. Granularity \in Nat /\ Granularity > 0 /\ Slack \in Nat /\ Slack >= Granularity - 1
  BY ConstantsAssumption, SlackAssumption
<1>2. t % Granularity \in 0 .. (Granularity - 1)
  BY <1>1
<1>3. QED
  BY <1>1, <1>2 DEF Truncated

\* A save since the parse began is guarded, whatever the file held before.
LEMMA SavedLate ==
    ASSUME TypeOK, started <= now, NEW f \in Files, NEW c, Edit(f, c)
    PROVE  mtime'[f] >= started' - Slack
<1>1. /\ mtime'[f] = Truncated(now') /\ started' = started
      /\ now' = now + EditTicks
  BY DEF Edit, parse, TypeOK
<1>2. now \in Nat /\ started \in Nat /\ EditTicks \in Nat
  BY ConstantsAssumption DEF TypeOK
<1>3. now' \in Nat /\ started <= now'
  BY <1>1, <1>2
<1>4. Truncated(now') >= now' - Slack /\ Truncated(now') \in Nat
  BY <1>3, TruncatedLate, TruncatedType
<1>5. QED
  BY <1>1, <1>2, <1>3, <1>4, SlackAssumption, ConstantsAssumption

LEMMA EditGuarded ==
    ASSUME TypeOK, GuardInv, NEW f \in Files, NEW c, Edit(f, c)
    PROVE  GuardInv'
<1>1. UNCHANGED <<pc, plan, started, memo, tuRows, irFiles, bkStat, bkSha>>
  BY DEF Edit, parse, ir, bookParse
<1>2. now' >= now /\ now' \in Nat
  BY ConstantsAssumption DEF Edit, TypeOK
<1>3. ASSUME started <= now, NEW g \in Files, NEW sha, Guarded(g, sha)
      PROVE  (Guarded(g, sha))'
  <2>1. CASE g = f
    BY <1>3, <2>1, SavedLate DEF Guarded
  <2>2. CASE g # f
    BY <1>1, <1>3, <2>2 DEF Guarded, Edit, TypeOK
  <2>3. QED
    BY <2>1, <2>2
<1>4. pc \in {"parse", "record", "write", "index", "seal"} => started <= now /\ started <= now'
  BY <1>2 DEF GuardInv, TypeOK
<1>5. \A g \in Files : \A sha : started <= now /\ Guarded(g, sha) =>
          (disk'[g] # None => disk'[g] = sha \/ mtime'[g] >= started - Slack)
  BY <1>1, <1>3 DEF Guarded
<1>6. QED
  BY <1>1, <1>4, <1>5 DEF GuardInv, Guarded

\* Both kinds of digest, remembered and read, are guarded.
LEMMA HashGuarded ==
    ASSUME TypeOK, GuardInv, NEW i \in Inputs, HashTu(i)
    PROVE  GuardInv'
<1> DEFINE rows == [f \in Files |-> IF f \in DepsOf(tuRead[i]) THEN Digest(f) ELSE None]
<1>1. /\ tuRows' = [tuRows EXCEPT ![i] = rows] /\ tuRows \in [Inputs -> Rows \union {None}]
      /\ memo' = [f \in Files |-> IF rows[f] = None THEN memo[f]
                                  ELSE [stat |-> StatNow(f), sha |-> rows[f]]]
      /\ pc = "parse" /\ UNCHANGED <<pc, plan, started, now, disk, mtime>>
  BY DEF HashTu, world, TypeOK
<1>2. ASSUME NEW f \in Files PROVE rows[f] # None => Guarded(f, rows[f])
  BY <1>1 DEF Digest, Guarded, GuardInv
<1> HIDE DEF rows
<1>3. \A f \in Files : \A sha : (Guarded(f, sha))' <=> Guarded(f, sha)
  BY <1>1 DEF Guarded
<1>4. ASSUME NEW f \in Files
      PROVE  /\ memo'[f] # None => Guarded(f, memo'[f].sha)
             /\ \A j \in Inputs : tuRows'[j] # None /\ tuRows'[j][f] # None =>
                   Guarded(f, tuRows'[j][f])
  BY <1>1, <1>2 DEF GuardInv
<1>5. QED
  BY <1>1, <1>4 DEF GuardInv, Guarded

LEMMA CommitGuarded ==
    ASSUME TypeOK, GuardInv, CommitFull
    PROVE  GuardInv'
<1>1. /\ ParseFinished /\ pc = "parse" /\ pc' = "record" /\ started <= now
      /\ UNCHANGED <<now, disk, mtime, started, memo, tuRows, plan>>
      /\ irFiles' = [f \in Files |-> IF Readers(f) = {} THEN None ELSE LastRow(f)]
  BY DEF CommitFull, ParseFinished, world, parse, GuardInv
<1>2. ASSUME NEW f \in Files, Readers(f) # {}, LastRow(f) # None
      PROVE  Guarded(f, LastRow(f))
  <2>1. Readers(f) \in SUBSET Inputs
    BY DEF TypeOK, Readers
  <2>2. PICK z \in Readers(f) : \A y \in Readers(f) : y <= z
    BY <1>2, <2>1, FirstAndLastInput
  <2>3. \A z1 \in Readers(f) : Guarded(f, tuRows[z1][f])
    BY <1>1, <2>1 DEF Readers, ParseFinished, GuardInv
  <2>4. QED
    BY <2>2, <2>3 DEF LastRow
<1>3. QED
  BY <1>1, <1>2 DEF GuardInv, Guarded

\* The stats that record_parse keeps are older than the guard.
LEMMA RecordGuarded ==
    ASSUME TypeOK, GuardInv, Record
    PROVE  GuardInv'
<1>1. /\ pc = "record" /\ pc' = "write" /\ started <= now
      /\ UNCHANGED <<now, disk, mtime, started, plan>>
      /\ bkStat' = [f \in Files |-> StatRow(f, bkSha'[f])]
      /\ plan = "full" => bkSha' = [f \in Files |-> irFiles[f]]
  BY DEF Record, world, parse, GuardInv
<1>2. ASSUME NEW f \in Files, plan = "full", bkStat'[f] # None
      PROVE  bkStat'[f][1] < started - Slack /\ Guarded(f, bkSha'[f])
  <2>1. bkSha'[f] = irFiles[f]
    BY <1>1, <1>2
  <2>2. /\ bkSha'[f] # None /\ disk[f] # None /\ ~(mtime[f] >= started - Slack)
        /\ bkStat'[f] = <<mtime[f], SizeOf[bkSha'[f]]>>
    BY <1>1, <1>2 DEF StatRow, FastPathMtime
  <2>3. mtime[f] \in Nat /\ started \in Nat /\ Slack \in Nat
    BY ConstantsAssumption DEF TypeOK
  <2>4. bkStat'[f][1] < started - Slack
    BY <2>2, <2>3
  <2>5. QED
    BY <1>1, <1>2, <2>1, <2>2, <2>4 DEF GuardInv
<1>3. QED
  BY <1>1, <1>2 DEF GuardInv, Guarded

LEMMA NextGuarded ==
    ASSUME NewProcess \subseteq {TRUE}, TypeOK, GuardInv, [Next]_vars
    PROVE  GuardInv'
<1> USE DEF GuardInv, Guarded
<1>1. CASE Tick
  BY <1>1 DEF Tick, TypeOK, ir, bookParse, scan, parse
<1>2. CASE UNCHANGED vars
  BY <1>2 DEF vars, world, ir, bookParse, scan, parse
<1>3. CASE LoseIr \/ LoseBook \/ DamagePages
  BY <1>3 DEF LoseIr, LoseBook, DamagePages, Damaging, ir, bookParse, scan, parse, TypeOK
<1>4. CASE Fail \/ Noop \/ AbortTus \/ RecordRender
  BY <1>4 DEF Fail, Noop, AbortTus, RecordRender, Idle
<1>5. CASE Start
  BY <1>5 DEF Start, StartBuild, world, ir, bookParse, parse
<1>6. CASE (\E f \in Files : ScanStat(f)) \/ ScanHash \/ ScanDone
  BY <1>6 DEF ScanStat, ScanHash, ScanDone, ScanFinished, world, ir, bookParse, parse
<1>7. CASE BeginParse
  BY <1>7 DEF BeginParse, world, ir, bookParse, TypeOK, NoRows
<1>8. CASE \E i \in Inputs : ReadTu(i)
  BY <1>8 DEF ReadTu, world, ir, bookParse
<1>9. CASE CommitTus
  BY <1>9 DEF CommitTus, ParseFinished, world, parse
<1>10. CASE WritePages \/ RecordOutputs
  BY <1>10 DEF WritePages, RecordOutputs, world, ir, bookParse, parse
<1>11. CASE \E f \in Files, c \in Contents \union {None} : Edit(f, c)
  BY <1>11, EditGuarded
<1>12. CASE \E i \in Inputs : HashTu(i)
  BY <1>12, HashGuarded
<1>13. CASE CommitFull
  BY <1>13, CommitGuarded
<1>14. CASE Record
  BY <1>14, RecordGuarded
<1>15. QED
  BY <1>1, <1>2, <1>3, <1>4, <1>5, <1>6, <1>7, <1>8, <1>9, <1>10, <1>11, <1>12,
     <1>13, <1>14 DEF Next, BuildStep, Environment

\* What a full parse records is honest, however coarse the clock and whenever
\* files are saved, if every build is a process of its own.
THEOREM RestatGuardHolds == ASSUME NewProcess \subseteq {TRUE} PROVE Spec => []RestatGuard
<1>1. Init => GuardInv
  BY DEF Init, GuardInv
<1>2. QED
  BY <1>1, NextGuarded, GuardSuffices, TypeCorrect, PTL DEF Spec

\* No partial parse replaces the documentation of a unit with nothing.
THEOREM NoUnitIsWiped == Spec => NoWipe
<1> DEFINE Kept == plan = "partial" /\ irState' = "ok" =>
                       \A i \in Inputs : DepsOf(irTu[i]) # {} => DepsOf(irTu'[i]) # {}
<1>1. ASSUME CommitTus PROVE Kept
  BY <1>1 DEF CommitTus, TuFailed
<1>2. ASSUME UNCHANGED irTu \/ irState' # "ok" \/ plan # "partial" PROVE Kept
  BY <1>2 DEF DepsOf
<1>3. ASSUME Start PROVE Kept
  BY <1>2, <1>3 DEF Start, StartBuild, ir
<1>4. ASSUME Environment PROVE Kept
  BY <1>2, <1>4 DEF Environment, Tick, Edit, LoseIr, LoseBook, DamagePages, Fail, ir
<1>5. ASSUME BuildStep, ~CommitTus PROVE Kept
  BY <1>2, <1>5 DEF BuildStep, ScanStat, ScanHash, Noop, ScanDone, BeginParse, ReadTu,
     HashTu, CommitFull, AbortTus, Record, WritePages, RecordOutputs, RecordRender, ir
<1>6. [Next]_vars => [Kept]_vars
  BY <1>1, <1>3, <1>4, <1>5 DEF Next
<1> HIDE DEF Kept
<1>7. Spec => [][Kept]_vars
  BY <1>6, PTL DEF Spec
<1>8. QED
  BY <1>7 DEF NoWipe, Kept
=============================================================================
