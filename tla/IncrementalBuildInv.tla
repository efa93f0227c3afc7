------------------------ MODULE IncrementalBuildInv ------------------------
(***************************************************************************)
(* Why a reused parse and a reused render never show, as an invariant that *)
(* is inductive when the conditions of Quiet hold.  Each condition is one  *)
(* a run shows to be needed (README, "Findings").                          *)
(***************************************************************************)
EXTENDS IncrementalBuild

\* Nothing is saved between the scan and the end of the parse, no build dies
\* between the IR and its bookkeeping or between the outputs and theirs, the
\* clock tells two saves apart, and no file is missing.
Quiet ==
    /\ EditAt \subseteq {"idle", "record", "write", "index", "seal"}
    /\ FailAt \subseteq {"scan", "ready", "parse", "write", "index"}
    /\ Granularity = 1 /\ EditTicks > 0
    /\ MayMiss = {}

\* The view of input i that the bookkeeping describes.
BookView(i) ==
    [cfg |-> bkFp,
     src |-> [f \in Files |-> IF f \in bkDeps[i] THEN bkSha[f] ELSE None]]
BookViews == [i \in Inputs |-> BookView(i)]

\* The tracked files hold what the bookkeeping says.
TreeAsBooked == \A f \in Tracked : disk[f] = bkSha[f]

\* A closed set of views: every input with the headers its content includes,
\* and a digest for exactly these files.
Closed(deps, sha) ==
    /\ \A i \in Inputs : sha[i] # None /\ deps[i] = {i} \union IncludesOf[sha[i]]
    /\ \A f \in Files : sha[f] # None <=> \E i \in Inputs : f \in deps[i]

ClockInv == \A f \in Files : disk[f] # None /\ mtime[f] <= now

\* A stat taken of content sha at or before now is never again the stat of f
\* once f holds something else.
Witness(stat, sha, f) == stat[1] <= now /\ (stat = StatNow(f) => disk[f] = sha)

StatInv == \A f \in Files :
    /\ bkStat[f] # None => bkSha[f] # None /\ Witness(bkStat[f], bkSha[f], f)
    /\ memo[f] # None => Witness(memo[f].stat, memo[f].sha, f)

BookInv ==
    \/ bkFp = None /\ bkSha = NoRows /\ bkRender = None
    \/ bkFp # None /\ Closed(bkDeps, bkSha)

IrInv ==
    irState = "ok" /\ bkFp # None /\ pc # "record" =>
        irTu = BookViews /\ irFiles = bkSha

RenderInv ==
    bkRender # None /\ pc # "seal" => bkOut = [rcfg |-> bkRender, tu |-> BookViews]

ScanInv ==
    /\ pc # "scan" => todo = {} /\ probe = None /\ changed = {} /\ healed = NoRows
    /\ pc = "scan" /\ Usable(cfg) =>
          \A f \in Tracked :
             \/ f \in todo \/ f \in changed \/ disk[f] = bkSha[f]
             \/ probe # None /\ probe.file = f
    /\ probe # None => probe.stat = StatNow(probe.file)
    /\ \A f \in Files : healed[f] # None =>
          healed[f] = StatNow(f) /\ disk[f] = bkSha[f]

PlanInv ==
    pc \in {"ready", "parse"} =>
        /\ plan = "full" => stale = Inputs
        /\ plan # "full" =>
              /\ irState = "ok" /\ bkFp = cfg
              /\ \A f \in Tracked :
                    \/ disk[f] = bkSha[f]
                    \/ plan = "partial" /\ OwnersOf(f) \subseteq stale

ParseInv ==
    /\ pc \in {"idle", "scan", "ready"} =>
          \A i \in Inputs : tuRead[i] = NoView /\ tuRows[i] = None
    /\ pc = "parse" =>
          /\ plan # "render" /\ started <= now
          /\ \A i \in Inputs :
                /\ tuRead[i] # NoView => tuRead[i] = ViewNow(i, cfg)
                /\ tuRows[i] # None => tuRead[i] # NoView /\ tuRows[i] = tuRead[i].src

\* What Record will write down is closed, is what the IR holds, and is what the
\* tree holds but for files saved since the parse began.
RecordInv ==
    pc = "record" =>
        /\ irState = "ok" /\ started <= now
        /\ plan = "full" \/ (plan = "partial" /\ bkFp = cfg)
        /\ Closed(FreshDeps, irFiles)
        /\ \A i \in Inputs :
              irTu[i] = [cfg |-> cfg,
                         src |-> [f \in Files |-> IF f \in FreshDeps[i]
                                                  THEN irFiles[f] ELSE None]]
        /\ \A f \in Files : irFiles[f] # None =>
              \/ disk[f] = irFiles[f]
              \/ ~clean /\ mtime[f] > started

WriteInv ==
    pc \in {"write", "index", "seal"} =>
        /\ irState = "ok" /\ bkFp = cfg
        /\ clean => TreeAsBooked
        /\ pc # "write" => pages = [rcfg |-> rcfg, tu |-> irTu]
        /\ pc = "seal" => bkOut = pages

EndInv == (Succeeded => pc = "idle") /\ Fresh

IInv ==
    /\ TypeOK
    /\ ClockInv /\ StatInv /\ BookInv /\ IrInv /\ RenderInv
    /\ ScanInv /\ PlanInv /\ ParseInv /\ RecordInv /\ WriteInv /\ EndInv
=============================================================================
