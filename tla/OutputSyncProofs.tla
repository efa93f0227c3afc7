-------------------------- MODULE OutputSyncProofs --------------------------
(***************************************************************************)
(* Theorems about OutputSync, for every set of directories, pages, IRs and *)
(* configurations and every order of builds: its state is well typed; the  *)
(* recorded stat of a page never vouches for other content; reuse never    *)
(* shows (Sealed); and nothing is orphaned, rewritten for nothing or taken *)
(* from a person (Orderly).                                                *)
(***************************************************************************)
EXTENDS OutputSync, TLAPS

\* A render is of the type of texts, and so is a key of the type of keys.
LEMMA TextType ==
    ASSUME NEW c \in Cfgs, NEW r \in Irs, NEW n \in Outputs(r)
    PROVE  Text(c, r, n) \in Texts /\ Fingerprint(c, r, n) \in SUBSET Facts
<1>1. \A p \in PagesOf(r) : Documented(r, p) \in SUBSET Facts /\ Core(r, p) \in SUBSET Facts
  <2> SUFFICES ASSUME NEW p \in PagesOf(r)
               PROVE  Documented(r, p) \in SUBSET Facts /\ Core(r, p) \in SUBSET Facts
    OBVIOUS
  <2>1. p \in Pages /\ r[p] \in [core : Nat, extra : Nat, entry : Nat]
    BY ConstantsAssumption DEF PagesOf
  <2>2. r[p].core \in Nat /\ r[p].extra \in Nat
    BY <2>1
  <2> QED
    BY <2>1, <2>2 DEF Documented, Core, Facts
<1>2. Entries(r) \in SUBSET Facts
  <2> SUFFICES ASSUME NEW p \in PagesOf(r)
               PROVE  <<p, "entry", r[p].entry>> \in Facts
    BY DEF Entries
  <2>1. p \in Pages /\ r[p] \in [core : Nat, extra : Nat, entry : Nat]
    BY ConstantsAssumption DEF PagesOf
  <2>2. r[p].entry \in Nat
    BY <2>1
  <2> QED
    BY <2>1, <2>2 DEF Facts
<1>3. Everything(r) \in SUBSET Facts
  BY <1>1, <1>2 DEF Everything
<1>4. n # Index => n \in PagesOf(r)
  BY DEF Outputs
<1>5. Reads(c, r, n) \in SUBSET Facts
  BY <1>1, <1>2, <1>3, <1>4 DEF Reads
<1>6. Fingerprint(c, r, n) \in SUBSET Facts
  BY <1>1, <1>2, <1>4 DEF Fingerprint
<1> QED
  BY <1>5, <1>6 DEF Text, Texts

LEMMA OutputNames == ASSUME NEW r PROVE Outputs(r) \subseteq Names
BY DEF Outputs, PagesOf, Names

\* What type correctness rests on: between builds there is no render, only the
\* placeholder's is not made of texts, and what is to be written was rendered.
TypeInv ==
    /\ TypeOK
    /\ pc = "idle" => rendered = NoFiles
    /\ kind # "stub" => rendered \in [Names -> Texts \union {None}]
    /\ pc = "write" => todo \subseteq Listed(rendered)

LEMMA NoFilesType ==
    /\ NoFiles \in [Names -> Texts \union {None}]
    /\ NoFiles \in [Names -> Texts \union {None, Stub}]
    /\ NoFiles \in [Names -> CachedPages \union {None}]
    /\ NoFiles \in [Names -> FileStates \union {None}]
BY DEF NoFiles

\* Writing, flagging and deleting leave a file state or nothing.
LEMMA FileType ==
    /\ \A t \in Texts \union {Hand, Torn, Stub} : File(t) \in FileStates
    /\ \A f \in FileStates, v \in BOOLEAN :
         /\ [f EXCEPT !.indexed = v] \in FileStates
         /\ [f EXCEPT !.noted = v] \in FileStates
         /\ [f EXCEPT !.indexed = v, !.noted = FALSE] \in FileStates
    /\ \A f \in FileStates : /\ f.text \in Texts \union {Hand, Torn, Stub}
                             /\ f.indexed \in BOOLEAN /\ f.noted \in BOOLEAN
BY DEF File, FileStates

LEMMA UnnotedType ==
    ASSUME NEW o \in [Dirs -> [Names -> FileStates \union {None}]]
    PROVE  Unnoted(o) \in [Dirs -> [Names -> FileStates \union {None}]]
<1>1. \A d \in Dirs, n \in Names : o[d][n] # None => o[d][n] \in FileStates
  OBVIOUS
<1>2. \A d \in Dirs, n \in Names :
        (IF o[d][n] = None THEN None ELSE [o[d][n] EXCEPT !.noted = FALSE])
           \in FileStates \union {None}
  BY <1>1, FileType
<1> QED
  BY <1>2 DEF Unnoted

LEMMA InitType == Init => TypeInv
<1> SUFFICES ASSUME Init PROVE TypeInv
  OBVIOUS
<1>1. out \in [Dirs -> [Names -> FileStates \union {None}]]
  BY NoFilesType DEF Init
<1>2. moves \in 0..MaxMoves
  BY ConstantsAssumption DEF Init
<1>3. ir \in Irs /\ mine \in [Dirs -> SUBSET Names] /\ manifest \in [Dirs -> SUBSET Names]
  BY DEF Init
<1> QED
  BY <1>1, <1>2, <1>3, NoFilesType DEF Init, TypeInv, TypeOK, Phases

LEMMA NextType == TypeInv /\ [Next]_vars => TypeInv'
<1> SUFFICES ASSUME TypeInv, [Next]_vars PROVE TypeInv'
  OBVIOUS
<1>t. TypeOK
  BY DEF TypeInv
<1>o. \A d \in Dirs, n \in Names : out[d][n] # None => out[d][n] \in FileStates
  BY <1>t DEF TypeOK
<1>1. CASE Noop
  <2>1. \A d \in Dirs, n \in Names :
          (IF out[d][n] = None THEN None
           ELSE [out[d][n] EXCEPT !.indexed = out[d][n].indexed \/ out[d][n].noted,
                                  !.noted = FALSE])
             \in FileStates \union {None}
    BY <1>o, FileType
  <2>2. out' \in [Dirs -> [Names -> FileStates \union {None}]]
    BY <2>1, <1>1 DEF Noop, Healed
  <2> QED
    BY <1>1, <1>t, <2>2, NoFilesType
       DEF Noop, End, TypeInv, TypeOK, bookkeeping, job, Phases
<1>2. ASSUME NEW d \in Dirs, NEW c \in Cfgs, StartCached(d, c) PROVE TypeInv'
  <2>1. rendered' = NoFiles
    BY <1>2 DEF StartCached, Begin, TypeInv
  <2>2. todo' \subseteq Names /\ pc' \in Phases /\ pc' \notin {"idle", "write"}
    BY <1>2, <1>t DEF StartCached, Listed, TypeOK, Phases
  <2> QED
    BY <1>2, <1>t, <2>1, <2>2, NoFilesType
       DEF StartCached, Begin, TypeInv, TypeOK, bookkeeping, Phases
<1>3. ASSUME NEW d \in Dirs, NEW c \in Cfgs, StartPlain(d, c) PROVE TypeInv'
  <2>1. tree \in Irs
    BY <1>t DEF TypeOK
  <2>2. \A n \in Names : (IF n \in Outputs(tree) THEN Text(c, tree, n) ELSE None)
                            \in Texts \union {None}
    BY <2>1, TextType
  <2>3. rendered' \in [Names -> Texts \union {None}]
    BY <1>3, <2>2 DEF StartPlain
  <2>4. rendered' \in [Names -> Texts \union {None, Stub}] /\ todo' \subseteq Names
    BY <2>3, <1>3, OutputNames DEF StartPlain
  <2>5. todo' \subseteq Listed(rendered')
    <3>1. \A n \in Outputs(tree) : rendered'[n] = Text(c, tree, n) /\ n \in Names
      BY <1>3, OutputNames DEF StartPlain
    <3>2. \A n \in Outputs(tree) : Text(c, tree, n) # None
      BY <2>1, TextType, ConstantsAssumption
    <3> QED
      BY <3>1, <3>2, <1>3 DEF StartPlain, Listed
  <2> QED
    BY <1>3, <1>t, <2>3, <2>4, <2>5 DEF Listed, StartPlain, Begin, TypeInv, TypeOK, bookkeeping, Phases
<1>4. ASSUME NEW d \in Dirs, NEW c \in Cfgs, StartStub(d, c) PROVE TypeInv'
  <2>1. rendered' \in [Names -> Texts \union {None, Stub}] /\ todo' \subseteq Names
    BY <1>4 DEF StartStub, NoFiles, Names
  <2>2. todo' \subseteq Listed(rendered')
    BY <1>4, ConstantsAssumption DEF StartStub, NoFiles, Names, Listed
  <2> QED
    BY <1>4, <1>t, <2>1, <2>2 DEF Listed, StartStub, Begin, TypeInv, TypeOK, bookkeeping, Phases
<1>5. CASE RecordParse
  BY <1>5, <1>t DEF RecordParse, TypeInv, TypeOK, job, work, history, Phases
<1>6. CASE Render
  <2>1. ir \in Irs /\ rc \in Cfgs /\ dir \in Dirs
    BY <1>t DEF TypeOK
  <2>2. ASSUME NEW n \in Outputs(ir)
        PROVE  Replayed(n) \in Texts /\ Key(n) \in Keys
    <3>1. n \in Names
      BY OutputNames
    <3>2. pageCache[n] # None => pageCache[n] \in CachedPages
      BY <3>1, <1>t DEF TypeOK
    <3>3. pageCache[n] # None => pageCache[n].text \in Texts
      BY <3>2 DEF CachedPages
    <3>4. Text(rc, ir, n) \in Texts /\ Fingerprint(rc, ir, n) \in SUBSET Facts
      BY <2>1, TextType
    <3>5. Replayed(n) \in Texts
      BY <3>3, <3>4 DEF Replayed
    <3> QED
      BY <3>4, <3>5, <2>1 DEF Key, Keys, Fp
  <2>3. rendered' \in [Names -> Texts \union {None}]
    BY <1>6, <2>2 DEF Render
  <2>4. pageCache' \in [Names -> CachedPages \union {None}]
    <3>1. \A n \in Outputs(ir) : [key |-> Key(n), text |-> Replayed(n)] \in CachedPages
      BY <2>2 DEF CachedPages
    <3> QED
      BY <3>1, <1>6, <1>t DEF Render, TypeOK
  <2>5. rendered' \in [Names -> Texts \union {None, Stub}] /\ todo' \subseteq Names
    BY <2>3, <1>6, OutputNames DEF Render
  <2>6. todo' \subseteq Listed(rendered')
    <3>1. \A n \in Outputs(ir) : rendered'[n] = Replayed(n) /\ n \in Names
      BY <1>6, OutputNames DEF Render
    <3> QED
      BY <3>1, <2>2, <1>6, ConstantsAssumption DEF Render, Listed
  <2> QED
    BY <1>6, <1>t, <2>3, <2>4, <2>5, <2>6 DEF Listed, Render, TypeInv, TypeOK, job, history, Phases
<1>7. ASSUME NEW n \in Names, WritePage(n) PROVE TypeInv'
  <2>1. out' \in [Dirs -> [Names -> FileStates \union {None}]]
    <3>1. rendered[n] # None => File(rendered[n]) \in FileStates
      BY <1>t, FileType DEF TypeOK
    <3>2. File(rendered[n]) \in FileStates
      BY <3>1, <1>7 DEF WritePage, NextOutput, TypeInv, Listed
    <3> QED
      <4>1. CASE Outdated(n)
        BY <3>2, <4>1, <1>7, <1>t DEF WritePage, Wrote, TypeOK
      <4>2. CASE ~Outdated(n)
        BY <4>2, <1>7, <1>t DEF WritePage, TypeOK
      <4> QED
        BY <4>1, <4>2
  <2>2. mine' \in [Dirs -> SUBSET Names]
    BY <1>7, <1>t DEF WritePage, Wrote, TypeOK
  <2>3. todo' \subseteq todo /\ cur' \in Names \union {None}
    BY <1>7, <1>t DEF WritePage, TypeOK
  <2>4. todo' \subseteq Names
    BY <2>3, <1>t DEF TypeOK
  <2> QED
    BY <1>7, <1>t, <2>1, <2>2, <2>3, <2>4
       DEF Listed, WritePage, NextOutput, TypeInv, TypeOK, bookkeeping, job
<1>8. ASSUME NEW n \in Names, StatPage(n) PROVE TypeInv'
  <2>1. out' \in [Dirs -> [Names -> FileStates \union {None}]]
    <3>1. out[dir][n] # None => [out[dir][n] EXCEPT !.noted = TRUE] \in FileStates
      BY <1>o, <1>t, FileType DEF TypeOK
    <3> QED
      BY <3>1, <1>8, <1>t DEF StatPage, TypeOK
  <2> QED
    BY <1>8, <1>t, <2>1 DEF Listed, StatPage, TypeInv, TypeOK, bookkeeping, job, history
<1>9. CASE FindVanished
  <2>1. todo' \subseteq Names
    BY <1>9, <1>t DEF FindVanished, Vanished, Listed, TypeOK
  <2> QED
    BY <1>9, <1>t, <2>1 DEF FindVanished, TypeInv, TypeOK, bookkeeping, job, history, Phases
<1>10. ASSUME NEW n \in Names, DeletePage(n) PROVE TypeInv'
  <2>1. out' \in [Dirs -> [Names -> FileStates \union {None}]]
        /\ mine' \in [Dirs -> SUBSET Names] /\ todo' \subseteq Names
    BY <1>10, <1>t DEF DeletePage, TypeOK
  <2> QED
    BY <1>10, <1>t, <2>1 DEF DeletePage, TypeInv, TypeOK, bookkeeping, job
<1>11. CASE RecordOutputs
  <2>1. \A d \in Dirs, n \in Names :
          (IF out[d][n] = None THEN None
           ELSE [out[d][n] EXCEPT !.indexed = out[d][n].noted, !.noted = FALSE])
             \in FileStates \union {None}
    BY <1>o, FileType
  <2>2. out' \in [Dirs -> [Names -> FileStates \union {None}]]
    BY <2>1, <1>11 DEF RecordOutputs, StatsOf
  <2>3. idx' \in [Names -> Texts \union {None}]
    BY <1>11 DEF RecordOutputs, TypeInv
  <2> QED
    BY <1>11, <1>t, <2>2, <2>3
       DEF RecordOutputs, Deleted, TypeInv, TypeOK, job, work, history, Phases
<1>12. CASE WriteManifest
  <2>1. manifest' \in [Dirs -> SUBSET Names]
    BY <1>12, <1>t DEF WriteManifest, NewManifest, Listed, TypeOK
  <2>2. CASE kind = "cached"
    BY <1>12, <1>t, <2>1, <2>2
       DEF WriteManifest, TypeInv, TypeOK, bookkeeping, job, Phases
  <2>3. CASE kind # "cached"
    BY <1>12, <1>t, <2>1, <2>3, NoFilesType
       DEF WriteManifest, End, TypeInv, TypeOK, bookkeeping, job, Phases
  <2> QED
    BY <2>2, <2>3
<1>13. CASE RecordRender
  <2>1. bkRender' \in (Cfgs \X Dirs) \union {None}
    BY <1>13, <1>t DEF RecordRender, Fp, TypeOK
  <2> QED
    BY <1>13, <1>t, <2>1, NoFilesType DEF RecordRender, End, TypeInv, TypeOK, job, Phases
<1>14. CASE Fail
  <2>2. out' \in [Dirs -> [Names -> FileStates \union {None}]]
    <3>1. \A n \in Names : [out EXCEPT ![dir][n] = File(Torn)]
                              \in [Dirs -> [Names -> FileStates \union {None}]]
      BY FileType, <1>t DEF TypeOK
    <3>2. BeingWritten \subseteq Names /\ out \in [Dirs -> [Names -> FileStates \union {None}]]
      BY <1>t DEF BeingWritten, TypeOK
    <3>3. \/ out' = Unnoted(out)
          \/ \E n \in BeingWritten : out' = Unnoted([out EXCEPT ![dir][n] = File(Torn)])
      BY <1>14 DEF Fail
    <3>4. CASE out' = Unnoted(out)
      BY <3>4, <3>2, UnnotedType
    <3>5. ASSUME NEW n \in BeingWritten, out' = Unnoted([out EXCEPT ![dir][n] = File(Torn)])
          PROVE  out' \in [Dirs -> [Names -> FileStates \union {None}]]
      BY <3>5, <3>1, <3>2, UnnotedType
    <3> QED
      BY <3>3, <3>4, <3>5
  <2>3. mine' \in [Dirs -> SUBSET Names] /\ manifest' \in [Dirs -> SUBSET Names]
    <3>1. \/ UNCHANGED mine
          \/ \E n \in BeingWritten : mine' = [mine EXCEPT ![dir] = @ \union {n}]
      BY <1>14 DEF Fail
    <3>2. UNCHANGED manifest \/ manifest' = [manifest EXCEPT ![dir] = {}]
      BY <1>14 DEF Fail
    <3>3. BeingWritten \subseteq Names
      BY <1>t DEF BeingWritten, TypeOK
    <3> QED
      BY <3>1, <3>2, <3>3, <1>t DEF TypeOK
  <2>4. moves' \in 0..MaxMoves
    BY <1>14, <1>t, ConstantsAssumption DEF Fail, Move, TypeOK
  <2> QED
    BY <1>14, <1>t, <2>2, <2>3, <2>4, NoFilesType
       DEF Fail, End, TypeInv, TypeOK, bookkeeping, job, Phases
<1>15. ASSUME NEW d \in Dirs, NEW n \in Names, HandEdit(d, n) PROVE TypeInv'
  <2>1. out' \in [Dirs -> [Names -> FileStates \union {None}]]
    <3>1. File(Hand) \in FileStates /\ (out[d][n] # None => File(out[d][n].text) \in FileStates)
      BY <1>o, FileType
    <3>2. \/ out' = [out EXCEPT ![d][n] = File(Hand)]
          \/ out[d][n] # None /\ out' = [out EXCEPT ![d][n] = File(out[d][n].text)]
          \/ out' = [out EXCEPT ![d][n] = None]
      BY <1>15 DEF HandEdit
    <3> QED
      BY <3>1, <3>2, <1>t DEF TypeOK
  <2>2. moves' \in 0..MaxMoves
    BY <1>15, <1>t, ConstantsAssumption DEF HandEdit, Move, TypeOK
  <2> QED
    BY <1>15, <1>t, <2>1, <2>2 DEF HandEdit, TypeInv, TypeOK, bookkeeping, job, work
<1>16. CASE EditTree
  <2>1. moves' \in 0..MaxMoves
    BY <1>16, <1>t, ConstantsAssumption DEF EditTree, Move, TypeOK
  <2> QED
    BY <1>16, <1>t, <2>1 DEF EditTree, TypeInv, TypeOK, bookkeeping, job, work, history
<1>17. CASE LoseCache
  <2>1. out' \in [Dirs -> [Names -> FileStates \union {None}]]
    <3>1. \A d \in Dirs, n \in Names : out[d][n] # None => File(out[d][n].text) \in FileStates
      BY <1>o, FileType
    <3> QED
      BY <3>1, <1>17 DEF LoseCache
  <2>2. moves' \in 0..MaxMoves
    BY <1>17, <1>t, ConstantsAssumption DEF LoseCache, Move, TypeOK
  <2> QED
    BY <1>17, <1>t, <2>1, <2>2, NoFilesType DEF LoseCache, TypeInv, TypeOK, job, work
<1>18. CASE UNCHANGED vars
  BY <1>18, <1>t DEF vars, TypeInv, TypeOK, bookkeeping, job, work, history
<1>19. ASSUME NEW n \in Names, CheckPage(n) PROVE TypeInv'
  BY <1>19, <1>t DEF CheckPage, TypeInv, TypeOK, bookkeeping, job, history
<1>20. ASSUME NEW n \in Names, RestatPage(n) PROVE TypeInv'
  <2>1. out' \in [Dirs -> [Names -> FileStates \union {None}]]
    <3>1. out[dir][n] # None => [out[dir][n] EXCEPT !.noted = TRUE] \in FileStates
      BY <1>o, <1>t, FileType DEF TypeOK
    <3> QED
      BY <3>1, <1>20, <1>t DEF RestatPage, TypeOK
  <2> QED
    BY <1>20, <1>t, <2>1 DEF RestatPage, TypeInv, TypeOK, bookkeeping, job, history
<1>21. ASSUME NEW n \in Names, RenderAnyway(n) PROVE TypeInv'
  <2>1. out' \in [Dirs -> [Names -> FileStates \union {None}]]
    BY <1>21, <1>t, UnnotedType DEF RenderAnyway, TypeOK
  <2> QED
    BY <1>21, <1>t, <2>1 DEF RenderAnyway, TypeInv, TypeOK, bookkeeping, job, history, Phases
<1> QED
  BY <1>1, <1>2, <1>3, <1>4, <1>5, <1>6, <1>7, <1>8, <1>9, <1>10, <1>11, <1>12, <1>13,
     <1>14, <1>15, <1>16, <1>17, <1>18, <1>19, <1>20, <1>21
     DEF Next, Start, Step, Environment

\* Every variable always has its type.
THEOREM TypeCorrect == Spec => []TypeOK
<1>1. TypeInv => TypeOK
  BY DEF TypeInv
<1> QED
  BY <1>1, InitType, NextType, PTL DEF Spec

-----------------------------------------------------------------------------

\* What a file of the running build holds when its stat is noted: the recorded
\* text in a look at the outputs, the rendered one when they are written.
Due(n) == IF pc = "check" THEN idx[n] ELSE rendered[n]

\* Why the recorded stats are honest: a stat is noted only by the running cached
\* build and only for the text that is due, which is what the table records.
StatInv ==
    /\ StatsHonest
    /\ \A d \in Dirs, n \in Names : out[d][n] # None /\ out[d][n].noted =>
         /\ d = dir /\ kind = "cached" /\ pc \in {"check", "write", "delete"}
         /\ out[d][n].text = Due(n)
    /\ pc = "check" => kind = "cached"
    /\ cur # None =>
         /\ pc \in {"check", "write"} /\ kind = "cached"
         /\ out[dir][cur] # None => out[dir][cur].text = Due(cur)

\* A file as it is written has no recorded stat; flagging leaves its text.
LEMMA FileFields ==
    /\ \A t : File(t).text = t /\ File(t).indexed = FALSE /\ File(t).noted = FALSE
    /\ \A f \in FileStates, v \in BOOLEAN :
         /\ [f EXCEPT !.indexed = v].text = f.text
         /\ [f EXCEPT !.indexed = v].noted = f.noted
         /\ [f EXCEPT !.noted = v].text = f.text
         /\ [f EXCEPT !.noted = v].indexed = f.indexed
         /\ [f EXCEPT !.noted = v].noted = v
         /\ [f EXCEPT !.indexed = v, !.noted = FALSE].text = f.text
         /\ [f EXCEPT !.indexed = v, !.noted = FALSE].indexed = v
         /\ [f EXCEPT !.indexed = v, !.noted = FALSE].noted = FALSE
BY DEF File, FileStates

LEMMA NextStats == StatRace = {} /\ TypeOK /\ StatInv /\ [Next]_vars => StatInv'
<1> SUFFICES ASSUME StatRace = {}, TypeOK, StatInv, [Next]_vars PROVE StatInv'
  OBVIOUS
<1>t. out \in [Dirs -> [Names -> FileStates \union {None}]] /\ dir \in Dirs
      /\ cur \in Names \union {None}
  BY DEF TypeOK
<1>o. \A d \in Dirs, n \in Names : out[d][n] # None => out[d][n] \in FileStates
  BY <1>t
<1>n. None \notin Names
  BY ConstantsAssumption
\* Between builds nothing is noted.
<1>i. pc = "idle" => /\ cur = None
                     /\ \A d \in Dirs, n \in Names : out[d][n] # None => ~out[d][n].noted
  BY DEF StatInv
\* Where a build gives up the stats it noted.
<1>u. ASSUME NEW o \in [Dirs -> [Names -> FileStates \union {None}]], out' = Unnoted(o),
             \A d \in Dirs, n \in Names :
               o[d][n] # None /\ o[d][n].indexed => o[d][n].text = idx[n],
             UNCHANGED idx, cur' = None, pc' # "check"
      PROVE  StatInv'
  <2>1. ASSUME NEW d \in Dirs, NEW n \in Names, out'[d][n] # None
        PROVE  /\ ~out'[d][n].noted
               /\ out'[d][n].indexed => out'[d][n].text = idx[n]
    <3>1. o[d][n] \in FileStates /\ out'[d][n] = [o[d][n] EXCEPT !.noted = FALSE]
      BY <1>u, <2>1 DEF Unnoted
    <3>2. o[d][n] # None
      BY <3>1, ConstantsAssumption
    <3> QED
      BY <3>1, <3>2, <1>u, FileFields
  <2> QED
    BY <2>1, <1>u DEF StatInv, StatsHonest
<1>1. CASE Noop
  <2>1. UNCHANGED idx /\ cur' = None /\ pc = "check" /\ pc' = "idle"
    BY <1>1 DEF Noop, End, bookkeeping
  <2>2. ASSUME NEW e \in Dirs, NEW m \in Names, out'[e][m] # None
        PROVE  /\ ~out'[e][m].noted
               /\ out'[e][m].indexed => out'[e][m].text = idx[m]
    <3> DEFINE v == out[e][m].indexed \/ out[e][m].noted
    <3>1. out[e][m] # None /\ out'[e][m] = [out[e][m] EXCEPT !.indexed = v, !.noted = FALSE]
      BY <2>2, <1>1 DEF Noop, Healed
    <3>2. out[e][m] \in FileStates /\ v \in BOOLEAN
      BY <3>1, <1>o
    <3> HIDE DEF v
    <3>3. /\ out'[e][m].text = out[e][m].text /\ out'[e][m].indexed = v
          /\ out'[e][m].noted = FALSE
      <4> HIDE <2>2
      <4> QED
        BY <3>1, <3>2, FileFields
    <3>4. v => out[e][m].text = idx[m]
      BY <3>1, <2>1 DEF v, StatInv, StatsHonest, Due
    <3> QED
      BY <3>3, <3>4
  <2> QED
    BY <2>1, <2>2 DEF StatInv, StatsHonest
<1>2. ASSUME pc = "idle", UNCHANGED <<out, idx, cur>>, pc' = "check" => kind' = "cached"
      PROVE  StatInv'
  BY <1>2, <1>i DEF StatInv, StatsHonest
<1>3. ASSUME NEW d \in Dirs, NEW c \in Cfgs,
             StartCached(d, c) \/ StartPlain(d, c) \/ StartStub(d, c)
      PROVE  StatInv'
  BY <1>2, <1>3 DEF StartCached, StartPlain, StartStub, Begin, bookkeeping
<1>17. ASSUME NEW n \in Names, CheckPage(n) PROVE StatInv'
  <2>1. UNCHANGED <<out, idx, dir, kind, pc, rendered>> /\ pc = "check" /\ cur' = n
    BY <1>17 DEF CheckPage, bookkeeping, job
  <2>2. out[dir][n] # None /\ out[dir][n].text = Due(n)
    BY <2>1, <1>17, <1>t DEF CheckPage, Intact, StatInv, StatsHonest, Due
  <2> QED
    BY <2>1, <2>2 DEF StatInv, StatsHonest, Due
<1>18. ASSUME NEW n \in Names, RenderAnyway(n) PROVE StatInv'
  BY <1>18, <1>u, <1>t DEF RenderAnyway, bookkeeping, StatInv, StatsHonest
<1>4. CASE RecordParse \/ Render
  BY <1>4 DEF RecordParse, Render, StatInv, StatsHonest, job, work, history
<1>5. ASSUME NEW n \in Names, WritePage(n) PROVE StatInv'
  <2>1. \A e \in Dirs, m \in Names : (e # dir \/ m # n) => out'[e][m] = out[e][m]
    BY <1>5, <1>t DEF WritePage, Wrote
  <2>2. UNCHANGED <<idx, dir, kind, pc, rendered>> /\ pc = "write" /\ cur = None
    BY <1>5 DEF WritePage, NextOutput, bookkeeping, job
  <2>3. CASE Outdated(n)
    <3>1. out'[dir][n] = File(rendered[n])
      BY <2>3, <1>5, <1>t DEF WritePage, Wrote
    <3>2. cur' = None \/ (cur' = n /\ kind = "cached")
      BY <1>5, <2>2 DEF WritePage
    <3> QED
      BY <3>1, <3>2, <2>1, <2>2, FileFields DEF StatInv, StatsHonest, Due
  <2>4. CASE ~Outdated(n)
    <3>1. UNCHANGED out
      BY <2>4, <1>5 DEF WritePage
    <3>2. CASE kind = "cached"
      <4>1. out[dir][n].text = rendered[n]
        BY <2>4, <3>2, <1>t DEF Outdated, Intact, StatInv, StatsHonest
      <4>2. cur' = n
        BY <3>2, <1>5 DEF WritePage
      <4> QED
        BY <3>1, <3>2, <4>1, <4>2, <2>2 DEF StatInv, StatsHonest, Due
    <3>3. CASE kind # "cached"
      BY <3>1, <3>3, <2>2, <1>5 DEF WritePage, StatInv, StatsHonest
    <3> QED
      BY <3>2, <3>3
  <2> QED
    BY <2>3, <2>4
<1>6. ASSUME NEW n \in Names, StatPage(n) \/ RestatPage(n) PROVE StatInv'
  <2>1. UNCHANGED <<idx, dir, kind, pc, rendered>> /\ cur = n /\ cur' = None
    BY <1>6 DEF StatPage, RestatPage, bookkeeping, job
  <2>2. /\ pc \in {"check", "write"} /\ kind = "cached"
        /\ out[dir][n] # None => out[dir][n].text = Due(n)
    BY <2>1, <1>n DEF StatInv
  <2>3. \A e \in Dirs, m \in Names : (e # dir \/ m # n) => out'[e][m] = out[e][m]
    BY <1>6, <1>t DEF StatPage, RestatPage
  <2>4. CASE out[dir][n] = None
    BY <2>4, <1>6, <2>1 DEF StatPage, RestatPage, StatInv, StatsHonest, Due
  <2>5. CASE out[dir][n] # None
    <3>1. out'[dir][n] = [out[dir][n] EXCEPT !.noted = TRUE]
      BY <2>5, <1>6, <1>t DEF StatPage, RestatPage
    <3>2. /\ out'[dir][n].text = Due(n) /\ out'[dir][n].text = out[dir][n].text
          /\ out'[dir][n].indexed = out[dir][n].indexed
      BY <3>1, <2>2, <2>5, <1>o, <1>t, FileFields
    <3>3. ASSUME NEW e \in Dirs, NEW m \in Names, out'[e][m] # None
          PROVE  /\ out'[e][m].indexed => out'[e][m].text = idx[m]
                 /\ out'[e][m].noted => e = dir /\ out'[e][m].text = Due(m)
      <4>1. CASE e = dir /\ m = n
        BY <4>1, <3>2, <2>5 DEF StatInv, StatsHonest
      <4>2. CASE e # dir \/ m # n
        BY <4>2, <3>3, <2>3 DEF StatInv, StatsHonest
      <4> QED
        BY <4>1, <4>2
    <3> QED
      BY <3>3, <2>1, <2>2 DEF StatInv, StatsHonest, Due
  <2> QED
    BY <2>4, <2>5
<1>7. CASE FindVanished
  BY <1>7 DEF FindVanished, StatInv, StatsHonest, bookkeeping, job, history, Due
<1>8. ASSUME NEW n \in Names, DeletePage(n) PROVE StatInv'
  <2>1. \A e \in Dirs, m \in Names : out'[e][m] # None => out'[e][m] = out[e][m]
    BY <1>8, <1>t DEF DeletePage
  <2>2. cur = None /\ cur' = None
    BY <1>8 DEF DeletePage, StatInv
  <2>3. UNCHANGED <<idx, dir, kind, pc, rendered>>
    BY <1>8 DEF DeletePage, bookkeeping, job
  <2> QED
    BY <2>1, <2>2, <2>3 DEF StatInv, StatsHonest, Due
<1>9. CASE RecordOutputs
  <2>0. pc = "delete" /\ pc' = "manifest"
    BY <1>9 DEF RecordOutputs, Deleted
  <2>1. ASSUME NEW e \in Dirs, NEW m \in Names, out'[e][m] # None
        PROVE  /\ ~out'[e][m].noted
               /\ out'[e][m].indexed => out'[e][m].text = rendered[m]
    <3>1. out[e][m] # None
          /\ out'[e][m] = [out[e][m] EXCEPT !.indexed = out[e][m].noted, !.noted = FALSE]
      BY <2>1, <1>9 DEF RecordOutputs, StatsOf
    <3>2. /\ out'[e][m].text = out[e][m].text /\ out'[e][m].indexed = out[e][m].noted
          /\ out'[e][m].noted = FALSE
      <4>1. out[e][m] \in FileStates
        BY <3>1, <1>o
      <4>2. out[e][m].noted \in BOOLEAN
        BY <4>1, FileType
      <4> HIDE <2>1
      <4> QED
        BY <3>1, <4>1, <4>2, FileFields
    <3> QED
      BY <2>0, <3>1, <3>2 DEF StatInv, Due
  <2>2. cur' = None /\ idx' = rendered
    BY <1>9 DEF RecordOutputs, Deleted, StatInv, work
  <2> QED
    BY <2>0, <2>1, <2>2 DEF StatInv, StatsHonest
\* A manifest is due when nothing is noted any more.
<1>10. CASE WriteManifest
  <2>1. cur = None /\ cur' = None /\ UNCHANGED <<out, idx>> /\ pc' # "check"
    BY <1>10 DEF WriteManifest, ManifestDue, Deleted, End, StatInv, bookkeeping
  <2>2. \A d \in Dirs, n \in Names : out[d][n] # None => ~out[d][n].noted
    BY <1>10 DEF WriteManifest, ManifestDue, Deleted, StatInv
  <2> QED
    BY <2>1, <2>2 DEF StatInv, StatsHonest
<1>11. CASE RecordRender
  BY <1>11 DEF RecordRender, End, StatInv, StatsHonest
<1>12. CASE Fail
  <2>1. UNCHANGED idx /\ cur' = None /\ pc' # "check"
    BY <1>12 DEF Fail, End, bookkeeping
  <2>3. CASE out' = Unnoted(out)
    BY <2>1, <2>3, <1>u, <1>t DEF StatInv, StatsHonest
  <2>4. ASSUME NEW n \in BeingWritten, out' = Unnoted([out EXCEPT ![dir][n] = File(Torn)])
        PROVE  StatInv'
    <3>1. n \in Names
      BY DEF BeingWritten, TypeOK
    <3> DEFINE o == [out EXCEPT ![dir][n] = File(Torn)]
    <3>2. o \in [Dirs -> [Names -> FileStates \union {None}]]
      BY <3>1, <1>t, FileType
    <3>3. \A d \in Dirs, m \in Names :
            o[d][m] # None /\ o[d][m].indexed => o[d][m].text = idx[m]
      BY <3>1, <1>t, FileFields DEF StatInv, StatsHonest
    <3> QED
      BY <2>1, <2>4, <3>2, <3>3, <1>u
  <2> QED
    BY <1>12, <2>3, <2>4 DEF Fail
<1>13. ASSUME NEW d \in Dirs, NEW n \in Names, HandEdit(d, n) PROVE StatInv'
  <2>1. \A e \in Dirs, m \in Names : (e # d \/ m # n) => out'[e][m] = out[e][m]
    BY <1>13, <1>t DEF HandEdit
  <2>2. out'[d][n] # None => ~out'[d][n].indexed /\ ~out'[d][n].noted
    BY <1>13, <1>t, FileFields DEF HandEdit
  <2>3. UNCHANGED <<idx, dir, kind, pc, rendered, cur>>
    BY <1>13 DEF HandEdit, bookkeeping, job, work
  <2>4. ASSUME cur' # None
        PROVE  /\ pc' \in {"check", "write"} /\ kind' = "cached"
               /\ out'[dir'][cur'] # None => out'[dir'][cur'].text = Due(cur)
    <3>1. CASE d = dir /\ n = cur
      <4>1. out'[d][n] # None => out[d][n] # None /\ out'[d][n].text = out[d][n].text
        BY <3>1, <1>13, <1>t, FileFields DEF HandEdit
      <4> QED
        BY <3>1, <4>1, <2>3, <2>4 DEF StatInv
    <3>2. CASE ~(d = dir /\ n = cur)
      BY <3>2, <2>1, <2>3, <2>4, <1>t DEF StatInv
    <3> QED
      BY <3>1, <3>2
  <2>5. ASSUME NEW e \in Dirs, NEW m \in Names, out'[e][m] # None
        PROVE  /\ out'[e][m].indexed => out'[e][m].text = idx'[m]
               /\ out'[e][m].noted => /\ e = dir' /\ kind' = "cached"
                                      /\ pc' \in {"check", "write", "delete"}
                                      /\ out'[e][m].text = Due(m)
    BY <2>1, <2>2, <2>3, <2>5 DEF StatInv, StatsHonest
  <2> QED
    BY <2>3, <2>4, <2>5 DEF StatInv, StatsHonest, Due
<1>14. CASE EditTree
  BY <1>14, <1>2 DEF EditTree, bookkeeping, work
<1>15. CASE LoseCache
  <2>1. \A e \in Dirs, m \in Names :
          out'[e][m] # None => ~out'[e][m].indexed /\ ~out'[e][m].noted
    BY <1>15, FileFields DEF LoseCache
  <2>2. cur' = None /\ pc' # "check"
    BY <1>15, <1>i DEF LoseCache, work
  <2> QED
    BY <2>1, <2>2 DEF StatInv, StatsHonest
<1>16. CASE UNCHANGED vars
  BY <1>16 DEF vars, StatInv, StatsHonest, Due, bookkeeping, job, work, history
<1> QED
  BY <1>1, <1>3, <1>4, <1>5, <1>6, <1>7, <1>8, <1>9, <1>10, <1>11, <1>12, <1>13, <1>14,
     <1>15, <1>16, <1>17, <1>18 DEF Next, Start, Step, Environment

\* The stat fast path of _output_intact never vouches for a page that changed, in
\* any order of builds of any kind, edits, deaths and losses, if no page is saved
\* between its write, or a noop build's look at it, and the stat then taken of it.
THEOREM StatsAreHonest == ASSUME StatRace = {} PROVE Spec => []StatsHonest
<1>1. Init => StatInv
  BY ConstantsAssumption DEF Init, StatInv, StatsHonest, NoFiles
<1>2. TypeOK /\ StatInv /\ [Next]_vars => StatInv'
  BY NextStats
<1>3. StatInv => StatsHonest
  BY DEF StatInv
<1> QED
  BY <1>1, <1>2, <1>3, TypeCorrect, PTL DEF Spec

-----------------------------------------------------------------------------
(* Where a build is, whoever died before it.                               *)

\* A row of the page cache holds what its key says.
CacheInv == \A n \in Names : pageCache[n] # None =>
    pageCache[n].text = [cfg |-> pageCache[n].key.fp[1], reads |-> pageCache[n].key.reads]

\* Where a build is, and what it has by then.
PhaseInv ==
    /\ pc \in {"check", "parse", "render", "manifest", "seal"} => kind = "cached"
    /\ pc = "check" => bkRender = Fp /\ Listed(idx) # {}
    /\ pc \notin {"idle", "parse"} /\ kind = "cached" => bkIr = ir
    /\ pc \in {"write", "delete", "manifest", "seal"} => \A n \in Names : rendered[n] = Wanted(n)
    /\ pc = "delete" => \A n \in todo : Wanted(n) = None
    /\ pc \in {"manifest", "seal"} => idx = rendered

\* As long as a render record stands, the outputs table lists the outputs of the
\* recorded parse, whatever configuration their texts are of.
TableInv == bkRender # None => bkIr # None /\ Listed(idx) = Outputs(bkIr)

JobInv == CacheInv /\ PhaseInv /\ TableInv

\* The page key covers what the templates read, whenever pages are memoised.
LEMMA KeyCovers ==
    ASSUME NEW c \in Cfgs, NEW r, NEW n, Memoised(c)
    PROVE  Reads(c, r, n) = Fingerprint(c, r, n)
<1>1. TemplatesOf[c] \subseteq {"declared", "undeclared"} /\ "undeclared" \notin TemplatesOf[c]
  BY ConstantsAssumption DEF Memoised
<1>2. Wide(c) <=> "declared" \in TemplatesOf[c]
  BY <1>1 DEF Wide
<1> QED
  BY <1>1, <1>2 DEF Reads, Fingerprint

\* A replayed page is what a render would give.
LEMMA ReplayIsText ==
    ASSUME TypeOK, CacheInv, NEW n \in Names
    PROVE  Replayed(n) = Text(rc, ir, n)
<1>1. rc \in Cfgs
  BY DEF TypeOK
<1>2. ASSUME Memoised(rc), pageCache[n] # None, pageCache[n].key = Key(n)
      PROVE  pageCache[n].text = Text(rc, ir, n)
  <2>1. pageCache[n].key.fp[1] = rc /\ pageCache[n].key.reads = Fingerprint(rc, ir, n)
    BY <1>2 DEF Key, Fp
  <2> QED
    BY <1>1, <1>2, <2>1, KeyCovers DEF CacheInv, Text
<1> QED
  BY <1>2 DEF Replayed

LEMMA SameJob ==
    ASSUME UNCHANGED <<kind, rc, ir>>
    PROVE  \A n : Wanted(n)' = Wanted(n)
BY DEF Wanted, Text

\* A start touches no list.
LEMMA StartJob ==
    ASSUME JobInv, Start
    PROVE  JobInv'
<1>1. /\ UNCHANGED bookkeeping
      /\ \/ /\ pc' \in {"check", "parse", "render"} /\ kind' = "cached"
            /\ pc' # "parse" => bkIr' = ir'
            /\ pc' = "check" => bkRender' = <<rc', dir'>> /\ Listed(idx') # {}
         \/ pc' = "write" /\ kind' # "cached" /\ \A n \in Names : rendered'[n] = Wanted(n)'
  <2>1. ASSUME NEW d \in Dirs, NEW c \in Cfgs, StartCached(d, c)
        PROVE  /\ UNCHANGED bookkeeping /\ pc' \in {"check", "parse", "render"}
               /\ kind' = "cached" /\ (pc' # "parse" => bkIr' = ir')
               /\ pc' = "check" => bkRender' = <<rc', dir'>> /\ Listed(idx') # {}
    BY <2>1 DEF StartCached, MayNoop, Begin, bookkeeping
  <2>2. ASSUME NEW d \in Dirs, NEW c \in Cfgs, StartPlain(d, c) \/ StartStub(d, c)
        PROVE  /\ UNCHANGED bookkeeping /\ pc' = "write" /\ kind' # "cached"
               /\ \A n \in Names : rendered'[n] = Wanted(n)'
    BY <2>2 DEF StartPlain, StartStub, Begin, Wanted, NoFiles, Names
  <2> QED
    BY <2>1, <2>2 DEF Start
<1> QED
  BY <1>1 DEF bookkeeping, JobInv, CacheInv, PhaseInv, TableInv, Listed, Fp

\* Nor does a look at the outputs.
LEMMA LookJob ==
    ASSUME JobInv,
           Noop \/ \E n \in Names : CheckPage(n) \/ RestatPage(n) \/ RenderAnyway(n)
    PROVE  JobInv'
<1>1. /\ UNCHANGED <<bkIr, bkRender, idx, pageCache, kind, rc, dir, ir>>
      /\ pc = "check" /\ pc' \in {"check", "render", "idle"}
  BY DEF Noop, End, CheckPage, RestatPage, RenderAnyway, bookkeeping, job
<1> QED
  BY <1>1 DEF JobInv, CacheInv, PhaseInv, TableInv, Listed, Fp

\* Each page of a render is what a render from nothing gives, and so is the row
\* that memoises it.
LEMMA RenderJob ==
    ASSUME TypeOK, JobInv, Render
    PROVE  JobInv'
<1>1. /\ UNCHANGED <<bkIr, bkRender, idx, kind, rc, ir>> /\ pc = "render" /\ pc' = "write"
      /\ kind = "cached" /\ bkIr = ir
  BY DEF Render, job, JobInv, PhaseInv
<1>2. \A n \in Names : rendered'[n] = Wanted(n)'
  BY <1>1, SameJob, ReplayIsText DEF Render, JobInv, Wanted
<1>3. CacheInv'
  <2>1. CASE ~Memoised(rc)
    BY <2>1 DEF Render, JobInv, CacheInv
  <2>2. CASE Memoised(rc)
    <3>1. ASSUME NEW n \in Names, pageCache'[n] # None
          PROVE  pageCache'[n] = [key |-> Key(n), text |-> Text(rc, ir, n)]
      BY <2>2, <3>1, ReplayIsText DEF Render, JobInv
    <3>2. \A n \in Names : Text(rc, ir, n) = [cfg |-> Key(n).fp[1], reads |-> Key(n).reads]
      BY <2>2, KeyCovers DEF TypeOK, Text, Key, Fp
    <3>3. ASSUME NEW n \in Names, pageCache'[n] # None
          PROVE  pageCache'[n].key = Key(n) /\ pageCache'[n].text = Text(rc, ir, n)
      <4>1. pageCache'[n] = [key |-> Key(n), text |-> Text(rc, ir, n)]
        BY <3>1, <3>3
      <4> QED
        BY <4>1
    <3> QED
      BY <3>2, <3>3 DEF CacheInv
  <2> QED
    BY <2>1, <2>2
<1> QED
  BY <1>1, <1>2, <1>3 DEF JobInv, PhaseInv, TableInv, Listed

\* The loops over the outputs and the vanished touch files only.
LEMMA LoopJob ==
    ASSUME TypeOK, JobInv,
           FindVanished \/ \E n \in Names : WritePage(n) \/ StatPage(n) \/ DeletePage(n)
    PROVE  JobInv'
<1>1. /\ UNCHANGED <<bkIr, bkRender, idx, pageCache, kind, rc, ir, rendered>>
      /\ \/ pc' = pc /\ pc \in {"write", "delete"} /\ todo' \subseteq todo
         \/ pc = "write" /\ pc' = "delete" /\ todo' \subseteq Names \ Listed(rendered)
  BY DEF FindVanished, WritePage, NextOutput, StatPage, DeletePage, bookkeeping, job, history,
     Vanished, Listed, TypeOK
<1>2. \A m : Wanted(m)' = Wanted(m)
  BY <1>1, SameJob
<1> QED
  BY <1>1, <1>2 DEF JobInv, CacheInv, PhaseInv, TableInv, Listed

\* What a cached build wants is what its outputs are.
LEMMA WantedOutputs ==
    ASSUME TypeOK, kind = "cached"
    PROVE  {n \in Names : Wanted(n) # None} = Outputs(ir)
<1>1. \A n \in Outputs(ir) : Text(rc, ir, n) # None
  BY TextType, ConstantsAssumption DEF TypeOK
<1> QED
  BY <1>1, OutputNames DEF Wanted

\* The records: the parse clears the render record, the outputs table lists the
\* outputs of the parse that is recorded by then.
LEMMA RecordJob ==
    ASSUME TypeOK, JobInv, RecordParse \/ RecordOutputs \/ WriteManifest \/ RecordRender
    PROVE  JobInv'
<1>1. UNCHANGED <<pageCache, kind, rc, ir>>
  BY DEF RecordParse, RecordOutputs, WriteManifest, RecordRender, bookkeeping, job, work
<1>2. \A m : Wanted(m)' = Wanted(m)
  BY <1>1, SameJob
<1>3. CASE RecordParse
  BY <1>1, <1>3 DEF RecordParse, work, job, JobInv, CacheInv, PhaseInv, TableInv
<1>4. CASE RecordOutputs
  <2>1. /\ UNCHANGED <<bkIr, bkRender, rendered, todo>> /\ pc = "delete" /\ pc' = "manifest"
        /\ kind = "cached" /\ idx' = rendered
    BY <1>4 DEF RecordOutputs, Deleted, work
  <2>2. bkIr = ir /\ \A n \in Names : rendered[n] = Wanted(n)
    BY <2>1 DEF JobInv, PhaseInv
  <2>3. Listed(rendered) = Outputs(bkIr)
    BY <2>1, <2>2, WantedOutputs DEF Listed
  <2>4. TableInv'
    BY <2>1, <2>3 DEF JobInv, TableInv, Listed
  <2>5. CacheInv' /\ PhaseInv'
    BY <1>1, <1>2, <2>1, <2>2 DEF JobInv, CacheInv, PhaseInv
  <2> QED
    BY <2>4, <2>5 DEF JobInv
<1>5. CASE WriteManifest
  <2>1. /\ UNCHANGED <<bkIr, bkRender, idx>>
        /\ \/ pc = "manifest" /\ pc' = "seal" /\ UNCHANGED rendered
           \/ pc' = "idle"
    BY <1>5 DEF WriteManifest, ManifestDue, End, bookkeeping, JobInv, PhaseInv
  <2> QED
    BY <1>1, <1>2, <2>1 DEF JobInv, CacheInv, PhaseInv, TableInv, Listed
<1>6. CASE RecordRender
  <2>1. UNCHANGED <<bkIr, idx>> /\ pc = "seal" /\ pc' = "idle"
    BY <1>6 DEF RecordRender, End
  <2>2. kind = "cached" /\ bkIr = ir /\ \A n \in Names : idx[n] = Wanted(n)
    BY <2>1 DEF JobInv, PhaseInv
  <2>3. bkIr # None /\ Listed(idx) = Outputs(bkIr)
    BY <2>2, WantedOutputs, ConstantsAssumption DEF Listed, TypeOK
  <2> QED
    BY <1>1, <2>1, <2>3 DEF JobInv, CacheInv, PhaseInv, TableInv, Listed
<1> QED
  BY <1>3, <1>4, <1>5, <1>6

\* A death ends the build; nothing else reaches the bookkeeping, and a loss all of it.
LEMMA EnvironmentJob ==
    ASSUME JobInv, Environment
    PROVE  JobInv'
<1>1. CASE Fail
  BY <1>1 DEF Fail, End, bookkeeping, JobInv, CacheInv, PhaseInv, TableInv, Listed
<1>2. CASE LoseCache
  BY <1>2 DEF LoseCache, NoFiles, JobInv, CacheInv, PhaseInv, TableInv
<1>3. CASE EditTree \/ \E d \in Dirs, n \in Names : HandEdit(d, n)
  <2>1. UNCHANGED <<bookkeeping, pc, job, work>>
    BY <1>3 DEF EditTree, HandEdit
  <2>2. \A m : Wanted(m)' = Wanted(m)
    BY <2>1, SameJob DEF job, work
  <2> QED
    BY <2>1, <2>2 DEF bookkeeping, job, work, JobInv, CacheInv, PhaseInv, TableInv, Listed, Fp
<1> QED
  BY <1>1, <1>2, <1>3 DEF Environment

LEMMA NextJob == TypeOK /\ JobInv /\ [Next]_vars => JobInv'
<1> SUFFICES ASSUME TypeOK, JobInv, [Next]_vars PROVE JobInv'
  OBVIOUS
<1>1. CASE Start
  BY <1>1, StartJob
<1>2. CASE Step
  BY <1>2, LookJob, RenderJob, LoopJob, RecordJob DEF Step
<1>3. CASE Environment
  BY <1>3, EnvironmentJob
<1>4. CASE UNCHANGED vars
  <2>1. UNCHANGED <<bookkeeping, pc, job, work>>
    BY <1>4 DEF vars
  <2>2. \A m : Wanted(m)' = Wanted(m)
    BY <2>1, SameJob DEF job, work
  <2> QED
    BY <2>1, <2>2 DEF bookkeeping, job, work, JobInv, CacheInv, PhaseInv, TableInv, Listed, Fp
<1> QED
  BY <1>1, <1>2, <1>3, <1>4 DEF Next

\* Nothing is assumed here of who dies, where, or of what is lost.
LEMMA JobInvariant == Spec => [](TypeInv /\ JobInv)
<1>1. Init => JobInv
  BY ConstantsAssumption DEF Init, NoFiles, JobInv, CacheInv, PhaseInv, TableInv
<1>2. TypeInv /\ JobInv /\ [Next]_vars => JobInv'
  BY NextJob DEF TypeInv
<1> QED
  BY <1>1, <1>2, InitType, NextType, PTL DEF Spec

-----------------------------------------------------------------------------
(* What a build leaves.                                                    *)

\* No build dies between its output index and its render record, and no page is
\* saved between the look at it, or its write, and the stat taken of it.
Sealed == StatRace = {} /\ FailAt \intersect {"manifest", "seal"} = {}

\* What a render from nothing gives for output n.
Whole(c, r, n) == IF n \in Outputs(r) THEN Text(c, r, n) ELSE None

\* As long as the render record stands, the outputs table is that render's.
IndexInv == bkRender # None /\ pc \notin {"manifest", "seal"} =>
    bkIr # None /\ \A n \in Names : idx[n] = Whole(bkRender[1], bkIr, n)

There(n) == out[dir][n] # None /\ out[dir][n].text = Wanted(n)
Noted(n) == kind = "cached" => out[dir][n].noted

\* What the directory holds of a build that nobody interferes with.
DirInv == clean =>
    /\ pc = "check" => \A n \in Names \ todo : Wanted(n) # None =>
          There(n) /\ (out[dir][n].indexed \/ out[dir][n].noted)
    /\ pc = "write" => \A n \in Names \ todo : Wanted(n) # None => There(n) /\ Noted(n)
    /\ pc \in {"check", "write"} /\ cur # None => out[dir][cur] # None
    /\ pc = "delete" => \A n \in Names : Wanted(n) # None => There(n) /\ Noted(n)
    /\ pc \in {"manifest", "seal"} => \A n \in Names : Wanted(n) # None =>
          There(n) /\ out[dir][n].indexed

SyncInv == IndexInv /\ DirInv /\ PagesRight /\ NextIsNoop

\* During a look at the outputs, the table is what this build would write.
LEMMA LookIndex ==
    ASSUME TypeOK, JobInv, SyncInv, pc = "check"
    PROVE  bkRender # None /\ \A n \in Names : idx[n] = Wanted(n)
<1>1. bkRender = <<rc, dir>> /\ kind = "cached" /\ bkIr = ir
  BY DEF JobInv, PhaseInv, Fp
<1>2. bkRender # None
  BY <1>1, ConstantsAssumption DEF TypeOK
<1> QED
  BY <1>1, <1>2 DEF SyncInv, IndexInv, Whole, Wanted

\* A build that starts: nothing is written yet.
LEMMA StartSync ==
    ASSUME TypeOK, TypeOK', StatInv, JobInv', SyncInv, NEW d \in Dirs, NEW c \in Cfgs,
           StartCached(d, c) \/ StartPlain(d, c) \/ StartStub(d, c)
    PROVE  SyncInv'
<1>1. /\ UNCHANGED <<bookkeeping, out, cur>> /\ pc = "idle" /\ cur = None
      /\ ir' = tree /\ rc' = c
  BY DEF StartCached, StartPlain, StartStub, Begin, StatInv
<1>2. IndexInv'
  BY <1>1 DEF SyncInv, IndexInv, Whole, bookkeeping, StartCached, StartPlain, StartStub
<1>3. CASE StartCached(d, c)
  <2>1. /\ kind' = "cached" /\ pc' \in {"check", "parse", "render"} /\ cur' = None
        /\ pc' = "check" => todo' = Listed(idx')
    BY <1>1, <1>3 DEF StartCached, Begin, bookkeeping
  <2>2. ASSUME pc' = "check", NEW n \in Names \ todo' PROVE Wanted(n)' = None
    <3>1. bkRender' = <<rc', dir'>> /\ bkIr' = ir' /\ bkRender' # None
      BY <2>1, <2>2, ConstantsAssumption DEF JobInv, PhaseInv, Fp, TypeOK
    <3>2. idx'[n] = Wanted(n)'
      BY <1>2, <2>1, <2>2, <3>1 DEF IndexInv, Whole, Wanted
    <3> QED
      BY <2>1, <2>2, <3>2 DEF Listed
  <2> QED
    BY <1>2, <2>1, <2>2 DEF SyncInv, DirInv, PagesRight, NextIsNoop, Settled
<1>4. CASE StartPlain(d, c) \/ StartStub(d, c)
  <2>1. pc' = "write" /\ kind' # "cached" /\ cur' = None
    BY <1>1, <1>4 DEF StartPlain, StartStub, Begin
  <2>2. \A n \in Names : rendered'[n] = Wanted(n)'
    BY <1>1, <1>4 DEF StartPlain, StartStub, Begin, Wanted, NoFiles, Names
  <2>3. \A n \in Names : Wanted(n)' # None => n \in todo'
    BY <1>1, <1>4 DEF StartPlain, StartStub, Begin, Wanted
  <2> QED
    BY <1>2, <2>1, <2>2, <2>3
    DEF SyncInv, DirInv, PagesRight, NextIsNoop, Settled
<1> QED
  BY <1>3, <1>4

\* A look at an output: what is intact is what is wanted, and so is its stat.
LEMMA LookSync ==
    ASSUME TypeOK, StatInv, JobInv, SyncInv, NEW n \in Names,
           CheckPage(n) \/ RestatPage(n) \/ RenderAnyway(n)
    PROVE  SyncInv'
<1>1. /\ UNCHANGED <<bkIr, bkRender, idx, pageCache, kind, rc, dir, ir, clean>>
      /\ pc = "check" /\ dir \in Dirs /\ n # None
      /\ out \in [Dirs -> [Names -> FileStates \union {None}]]
  BY ConstantsAssumption
     DEF CheckPage, RestatPage, RenderAnyway, bookkeeping, job, history, TypeOK
<1>2. \A m : Wanted(m)' = Wanted(m)
  BY <1>1, SameJob
<1>3. pc' \in {"check", "render"}
  BY <1>1 DEF CheckPage, RestatPage, RenderAnyway
<1>4. IndexInv' /\ PagesRight' /\ NextIsNoop'
  BY <1>1, <1>3 DEF SyncInv, IndexInv, Whole, PagesRight, NextIsNoop, Settled
<1>5. CASE CheckPage(n)
  <2>1. UNCHANGED <<pc, out, todo>> /\ cur' = n /\ out[dir][n] # None
    BY <1>5 DEF CheckPage, Intact
  <2> QED
    BY <1>1, <1>2, <1>4, <2>1 DEF SyncInv, DirInv, There
<1>6. CASE RestatPage(n)
  <2>1. UNCHANGED pc /\ cur = n /\ cur' = None /\ todo' = todo \ {n}
    BY <1>6 DEF RestatPage
  <2>2. \A m \in Names : m # n => out'[dir][m] = out[dir][m]
    BY <1>1, <1>6 DEF RestatPage
  <2>3. ASSUME clean, Wanted(n) # None PROVE There(n)' /\ out'[dir][n].noted
    <3>1. out[dir][n] # None /\ out[dir][n] \in FileStates /\ out[dir][n].text = Wanted(n)
      BY <1>1, <2>1, <2>3, LookIndex DEF SyncInv, DirInv, StatInv, Due
    <3>2. out'[dir][n] = [out[dir][n] EXCEPT !.noted = TRUE]
      BY <1>1, <1>6, <3>1 DEF RestatPage
    <3>3. out'[dir][n].noted = TRUE /\ out'[dir][n].text = out[dir][n].text
      BY <3>1, <3>2 DEF FileStates
    <3>4. out'[dir][n] # None
      BY <3>1, <3>2, FileType, ConstantsAssumption
    <3> QED
      BY <1>1, <1>2, <3>1, <3>3, <3>4 DEF There
  <2>4. ASSUME clean, NEW m \in Names \ todo', Wanted(m) # None
        PROVE  There(m)' /\ (out'[dir][m].indexed \/ out'[dir][m].noted)
    <3>1. CASE m = n
      BY <2>3, <2>4, <3>1
    <3>2. CASE m # n
      <4>1. There(m) /\ (out[dir][m].indexed \/ out[dir][m].noted)
        BY <1>1, <2>1, <2>4, <3>2 DEF SyncInv, DirInv
      <4> QED
        BY <1>1, <1>2, <2>2, <3>2, <4>1 DEF There
    <3> QED
      BY <3>1, <3>2
  <2>5. DirInv'
    BY <1>1, <1>2, <2>1, <2>4 DEF DirInv
  <2> QED
    BY <1>4, <2>5 DEF SyncInv
<1>7. CASE RenderAnyway(n)
  <2>1. pc' = "render"
    BY <1>7 DEF RenderAnyway
  <2> QED
    BY <1>4, <2>1 DEF SyncInv, DirInv
<1> QED
  BY <1>5, <1>6, <1>7

\* The noop shortcut: the outputs are those of a render of this parse.
LEMMA NoopSync ==
    ASSUME TypeOK, StatInv, JobInv, SyncInv, Noop
    PROVE  SyncInv'
<1>1. /\ UNCHANGED <<bkIr, bkRender, idx, kind, rc, dir, ir, clean>> /\ out' = Healed
      /\ pc = "check" /\ pc' = "idle" /\ todo = {} /\ kind = "cached"
      /\ bkIr = ir /\ bkRender = Fp /\ Listed(idx) # {} /\ dir \in Dirs
      /\ out \in [Dirs -> [Names -> FileStates \union {None}]]
  BY DEF Noop, End, bookkeeping, job, JobInv, PhaseInv, TypeOK
<1>2. \A m : Wanted(m)' = Wanted(m)
  BY <1>1, SameJob
<1>3. \A n \in Names : idx[n] = Wanted(n)
  BY <1>1, LookIndex
<1>4. ASSUME clean, NEW n \in Names, Wanted(n) # None
      PROVE  There(n)' /\ out'[dir][n].indexed
  <2> DEFINE v == out[dir][n].indexed \/ out[dir][n].noted
  <2>1. out[dir][n] # None /\ out[dir][n] \in FileStates /\ out[dir][n].text = Wanted(n) /\ v
    BY <1>1, <1>4 DEF SyncInv, DirInv, There
  <2>2. out'[dir][n] = [out[dir][n] EXCEPT !.indexed = v, !.noted = FALSE]
    BY <1>1, <2>1 DEF Healed
  <2>3. out[dir][n] \in FileStates /\ v \in BOOLEAN
    BY <2>1
  <2> HIDE DEF v
  <2>4. out'[dir][n] \in FileStates
    BY <2>2, <2>3, FileType
  <2>5. out'[dir][n].text = out[dir][n].text /\ out'[dir][n].indexed = v
    BY <2>2, <2>3, FileFields
  <2> QED
    BY <1>1, <1>2, <2>1, <2>4, <2>5, ConstantsAssumption DEF There
<1>5. PagesRight'
  BY <1>1, <1>2, <1>4 DEF PagesRight, Settled, There
<1>6. NextIsNoop'
  BY <1>1, <1>2, <1>3, <1>4
  DEF NextIsNoop, Settled, OutputsIntact, Intact, Listed, Fp, There
<1>7. IndexInv' /\ DirInv'
  BY <1>1 DEF SyncInv, IndexInv, Whole, DirInv
<1> QED
  BY <1>5, <1>6, <1>7 DEF SyncInv

LEMMA ParseSync ==
    ASSUME TypeOK, SyncInv, RecordParse
    PROVE  SyncInv'
BY ConstantsAssumption
DEF RecordParse, SyncInv, IndexInv, DirInv, PagesRight, NextIsNoop,
    Settled, work, job

LEMMA RenderSync ==
    ASSUME TypeOK, StatInv, JobInv, SyncInv, Render
    PROVE  SyncInv'
<1>1. /\ UNCHANGED <<bkIr, bkRender, idx, kind, rc, dir, ir, cur>> /\ pc = "render"
      /\ pc' = "write" /\ kind = "cached" /\ bkIr = ir /\ todo' = Outputs(ir)
  BY DEF Render, job, JobInv, PhaseInv
<1>2. cur = None
  BY <1>1 DEF StatInv
<1>3. \A n \in Names : Wanted(n)' # None => n \in todo'
  BY <1>1, SameJob DEF Wanted
<1> QED
  BY <1>1, <1>2, <1>3 DEF SyncInv, IndexInv, Whole, DirInv, PagesRight, NextIsNoop, Settled

LEMMA WriteSync ==
    ASSUME TypeInv, StatInv, JobInv, SyncInv, NEW n \in Names, WritePage(n)
    PROVE  SyncInv'
<1>1. /\ UNCHANGED <<bkIr, bkRender, idx, pageCache, kind, rc, dir, ir, pc, rendered, clean>>
      /\ pc = "write" /\ cur = None /\ n \in todo /\ dir \in Dirs
      /\ out \in [Dirs -> [Names -> FileStates \union {None}]]
  BY DEF WritePage, NextOutput, bookkeeping, job, TypeInv, TypeOK
<1>2. rendered[n] # None /\ rendered[n] \in Texts \union {None, Stub} /\ rendered[n] = Wanted(n)
  BY <1>1 DEF TypeInv, TypeOK, Listed, JobInv, PhaseInv
<1>3. out'[dir][n] # None /\ out'[dir][n].text = rendered[n]
  <2>1. CASE Outdated(n)
    <3>1. n \in Names /\ out' = [out EXCEPT ![dir][n] = File(rendered[n])]
      BY <2>1 DEF WritePage, Wrote
    <3>2. out'[dir][n] = File(rendered[n])
      BY <1>1, <3>1
    <3>3. File(rendered[n]) \in FileStates
      BY <1>2, FileType
    <3> QED
      BY <3>2, <3>3, FileFields, ConstantsAssumption
  <2>2. CASE ~Outdated(n)
    BY <1>1, <2>2 DEF WritePage, Outdated, Intact, StatInv, StatsHonest
  <2> QED
    BY <2>1, <2>2
<1>4. \A m \in Names : m # n => out'[dir][m] = out[dir][m]
  BY <1>1 DEF WritePage, Wrote
<1>5. todo' \subseteq todo /\ \A m \in todo \ todo' : m = n /\ kind # "cached"
  BY DEF WritePage
<1>6. cur' # None => cur' = n
  BY <1>1 DEF WritePage
<1>7. \A m : Wanted(m)' = Wanted(m)
  BY <1>1, SameJob
<1>8. DirInv'
  <2> SUFFICES ASSUME clean PROVE DirInv'
    BY <1>1 DEF DirInv
  <2>1. ASSUME NEW m \in Names \ todo', Wanted(m) # None
        PROVE  There(m)' /\ Noted(m)'
    <3>1. CASE m = n
      BY <1>1, <1>2, <1>3, <1>5, <1>7, <2>1, <3>1 DEF There, Noted
    <3>2. CASE m # n
      <4>1. There(m) /\ Noted(m)
        BY <1>1, <1>5, <2>1, <3>2 DEF SyncInv, DirInv
      <4> QED
        BY <1>1, <1>4, <1>7, <3>2, <4>1 DEF There, Noted
    <3> QED
      BY <3>1, <3>2
  <2> QED
    BY <1>1, <1>3, <1>6, <1>7, <2>1 DEF DirInv
<1>9. IndexInv' /\ PagesRight' /\ NextIsNoop'
  BY <1>1, <1>7
  DEF SyncInv, IndexInv, Whole, PagesRight, NextIsNoop, Settled
<1> QED
  BY <1>8, <1>9 DEF SyncInv

LEMMA StatSync ==
    ASSUME TypeInv, StatInv, JobInv, SyncInv, NEW n \in Names, StatPage(n)
    PROVE  SyncInv'
<1>1. /\ UNCHANGED <<bkIr, bkRender, idx, pageCache, kind, rc, dir, ir, pc, rendered, clean>>
      /\ pc = "write" /\ cur = n /\ cur' = None /\ todo' = todo \ {n} /\ n # None /\ dir \in Dirs
      /\ out \in [Dirs -> [Names -> FileStates \union {None}]]
  BY ConstantsAssumption DEF StatPage, bookkeeping, job, history, TypeInv, TypeOK
<1>2. pc = "write" /\ (out[dir][n] # None => out[dir][n].text = rendered[n])
  BY <1>1 DEF StatInv, Due
<1>3. \A m \in Names : m # n => out'[dir][m] = out[dir][m]
  BY <1>1 DEF StatPage
<1>4. \A m : Wanted(m)' = Wanted(m)
  BY <1>1, SameJob
<1>5. ASSUME clean
      PROVE  out'[dir][n] # None /\ out'[dir][n].text = Wanted(n) /\ out'[dir][n].noted
  <2>1. out[dir][n] # None /\ out[dir][n] \in FileStates
    BY <1>1, <1>2, <1>5 DEF SyncInv, DirInv
  <2>2. out'[dir][n] = [out[dir][n] EXCEPT !.noted = TRUE]
    BY <1>1, <2>1 DEF StatPage
  <2>3. out'[dir][n].noted = TRUE /\ out'[dir][n].text = out[dir][n].text
    BY <2>1, <2>2 DEF FileStates
  <2>4. out'[dir][n] # None
    BY <2>1, <2>2, FileType, ConstantsAssumption
  <2> QED
    BY <1>2, <2>1, <2>3, <2>4 DEF JobInv, PhaseInv
<1>6. DirInv'
  <2> SUFFICES ASSUME clean PROVE DirInv'
    BY <1>1 DEF DirInv
  <2>1. ASSUME NEW m \in Names \ todo', Wanted(m) # None
        PROVE  There(m)' /\ Noted(m)'
    <3>1. CASE m = n
      BY <1>1, <1>4, <1>5, <3>1 DEF There, Noted
    <3>2. CASE m # n
      <4>1. There(m) /\ Noted(m)
        BY <1>1, <1>2, <2>1, <3>2 DEF SyncInv, DirInv
      <4> QED
        BY <1>1, <1>3, <1>4, <3>2, <4>1 DEF There, Noted
    <3> QED
      BY <3>1, <3>2
  <2> QED
    BY <1>1, <1>2, <1>4, <2>1 DEF DirInv
<1>7. IndexInv' /\ PagesRight' /\ NextIsNoop'
  BY <1>1, <1>2, <1>4
  DEF SyncInv, IndexInv, Whole, PagesRight, NextIsNoop, Settled
<1> QED
  BY <1>6, <1>7 DEF SyncInv

\* What vanished is not wanted, so deleting it takes nothing away.
LEMMA DeleteSync ==
    ASSUME TypeInv, StatInv, JobInv, SyncInv,
           FindVanished \/ \E n \in Names : DeletePage(n)
    PROVE  SyncInv'
<1>1. /\ UNCHANGED <<bkIr, bkRender, idx, pageCache, kind, rc, dir, ir, rendered, clean, cur>>
      /\ pc \in {"write", "delete"} /\ pc' = "delete" /\ dir \in Dirs
      /\ out \in [Dirs -> [Names -> FileStates \union {None}]]
  BY DEF FindVanished, DeletePage, bookkeeping, job, history, TypeInv, TypeOK
<1>2. \A m : Wanted(m)' = Wanted(m)
  BY <1>1, SameJob
<1>3. \A n \in Names : rendered[n] = Wanted(n)
  BY <1>1 DEF JobInv, PhaseInv
<1>4. \A n \in todo' : Wanted(n) = None
  <2>1. CASE FindVanished
    BY <1>3, <2>1 DEF FindVanished, Vanished, Listed, TypeInv, TypeOK
  <2>2. CASE \E n \in Names : DeletePage(n)
    BY <2>2 DEF DeletePage, JobInv, PhaseInv
  <2> QED
    BY <2>1, <2>2
<1>5. \A m \in Names : Wanted(m) # None => out'[dir][m] = out[dir][m]
  <2>1. CASE FindVanished
    BY <2>1 DEF FindVanished
  <2>2. ASSUME NEW n \in Names, DeletePage(n)
        PROVE  \A m \in Names : Wanted(m) # None => out'[dir][m] = out[dir][m]
    <3>1. Wanted(n) = None
      BY <2>2 DEF DeletePage, JobInv, PhaseInv
    <3> QED
      BY <1>1, <2>2, <3>1 DEF DeletePage
  <2> QED
    BY <2>1, <2>2
<1>6. ASSUME clean, NEW m \in Names, Wanted(m) # None
      PROVE  There(m) /\ Noted(m)
  BY <1>1, <1>6 DEF FindVanished, DeletePage, SyncInv, DirInv
<1>7. DirInv'
  BY <1>1, <1>2, <1>5, <1>6 DEF DirInv, There, Noted
<1>8. IndexInv' /\ PagesRight' /\ NextIsNoop'
  BY <1>1, <1>2, <1>3, <1>4
  DEF SyncInv, IndexInv, Whole, PagesRight, NextIsNoop, Settled
<1> QED
  BY <1>7, <1>8 DEF SyncInv

LEMMA RecordSync ==
    ASSUME TypeInv, StatInv, SyncInv, RecordOutputs
    PROVE  SyncInv'
<1>1. /\ UNCHANGED <<bkIr, bkRender, pageCache, kind, rc, dir, ir, rendered, clean>>
      /\ pc = "delete" /\ pc' = "manifest" /\ kind = "cached" /\ idx' = rendered
      /\ dir \in Dirs /\ out \in [Dirs -> [Names -> FileStates \union {None}]]
      /\ out' = [d \in Dirs |-> StatsOf(d)]
  BY DEF RecordOutputs, Deleted, job, work, history, TypeInv, TypeOK
<1>2. \A m : Wanted(m)' = Wanted(m)
  BY <1>1, SameJob
<1>3. ASSUME NEW m \in Names, There(m), Noted(m)
      PROVE  There(m)' /\ out'[dir][m].indexed
  <2>1. out[dir][m] # None /\ out[dir][m] \in FileStates /\ out[dir][m].noted
        /\ out[dir][m].text = Wanted(m)
    BY <1>1, <1>3 DEF There, Noted
  <2>2. out'[dir][m] = [out[dir][m] EXCEPT !.indexed = out[dir][m].noted, !.noted = FALSE]
    BY <1>1, <2>1 DEF StatsOf
  <2>3. out[dir][m].noted \in BOOLEAN
    BY <2>1 DEF FileStates
  <2>4. /\ out'[dir][m].text = out[dir][m].text
        /\ out'[dir][m].indexed = out[dir][m].noted
    BY <2>1, <2>2 DEF FileStates
  <2>5. out'[dir][m] # None
    <3>1. out'[dir][m] \in FileStates
      BY <2>1, <2>2, <2>3 DEF FileStates
    <3> QED
      BY <3>1, ConstantsAssumption
  <2> QED
    BY <1>1, <1>2, <2>1, <2>4, <2>5 DEF There
<1>4. DirInv'
  BY <1>1, <1>2, <1>3 DEF DirInv, SyncInv
<1>5. IndexInv' /\ PagesRight' /\ NextIsNoop'
  BY <1>1, <1>2
  DEF SyncInv, IndexInv, PagesRight, NextIsNoop, Settled
<1> QED
  BY <1>4, <1>5 DEF SyncInv

LEMMA ManifestSync ==
    ASSUME TypeInv, StatInv, JobInv, SyncInv, WriteManifest
    PROVE  SyncInv'
<1>1. /\ UNCHANGED <<bkIr, bkRender, idx, pageCache, kind, rc, dir, ir, out, clean>>
      /\ pc \in {"manifest", "delete"}
  BY DEF WriteManifest, ManifestDue, Deleted, bookkeeping, job
<1>2. \A m : Wanted(m)' = Wanted(m)
  BY <1>1, SameJob
<1>3. CASE kind = "cached"
  <2>1. pc = "manifest" /\ pc' = "seal" /\ UNCHANGED <<rendered, todo, cur>>
    BY <1>3 DEF WriteManifest, ManifestDue
  <2> QED
    BY <1>1, <1>2, <1>3, <2>1
    DEF SyncInv, IndexInv, DirInv, There, PagesRight, NextIsNoop, Settled
<1>4. CASE kind # "cached"
  <2>1. pc = "delete" /\ pc' = "idle"
    BY <1>1, <1>4 DEF WriteManifest, End, JobInv, PhaseInv
  <2>2. PagesRight'
    BY <1>1, <1>2, <2>1 DEF PagesRight, Settled, SyncInv, DirInv, There
  <2> QED
    BY <1>1, <1>2, <1>4, <2>1, <2>2
    DEF SyncInv, IndexInv, Whole, DirInv, NextIsNoop
<1> QED
  BY <1>3, <1>4

\* The render record seals what the index says, and the next build is a noop.
LEMMA SealSync ==
    ASSUME TypeInv, StatInv, JobInv, SyncInv, RecordRender
    PROVE  SyncInv'
<1>1. /\ UNCHANGED <<bkIr, idx, pageCache, kind, rc, dir, ir, out, clean>>
      /\ pc = "seal" /\ pc' = "idle" /\ bkRender' = <<rc, dir>> /\ kind = "cached"
      /\ bkIr = ir /\ idx = rendered /\ rc \in Cfgs /\ ir \in Irs
  BY DEF RecordRender, End, Fp, JobInv, PhaseInv, TypeInv, TypeOK, job
<1>2. \A m : Wanted(m)' = Wanted(m)
  BY <1>1, SameJob
<1>3. \A n \in Names : idx[n] = Wanted(n) /\ Wanted(n) = Whole(rc, ir, n)
  BY <1>1 DEF JobInv, PhaseInv, Wanted, Whole
<1>4. ASSUME clean, NEW n \in Names, Wanted(n) # None
      PROVE  There(n) /\ out[dir][n].indexed
  BY <1>1, <1>4 DEF SyncInv, DirInv
<1>5. Index \in Listed(idx)
  <2>1. Index \in Outputs(ir) /\ Index \in Names
    BY DEF Outputs, Names
  <2>2. Text(rc, ir, Index) # None
    BY <1>1, <2>1, TextType, ConstantsAssumption
  <2> QED
    BY <1>3, <2>1, <2>2 DEF Listed, Whole
<1>6. PagesRight'
  BY <1>1, <1>2, <1>4 DEF PagesRight, Settled, There
<1>7. NextIsNoop'
  BY <1>1, <1>3, <1>4, <1>5
  DEF NextIsNoop, Settled, OutputsIntact, Intact, Listed, Fp, There
<1>8. IndexInv'
  BY <1>1, <1>3, ConstantsAssumption DEF IndexInv, Whole
<1>9. DirInv'
  BY <1>1 DEF SyncInv, DirInv
<1> QED
  BY <1>6, <1>7, <1>8, <1>9 DEF SyncInv

\* Deaths, people and losses only end what is clean.
LEMMA EnvironmentSync ==
    ASSUME Sealed, TypeInv, StatInv, SyncInv, Environment
    PROVE  SyncInv'
<1>1. CASE Fail
  BY <1>1 DEF Sealed, Fail, End, bookkeeping, SyncInv, IndexInv, Whole,
     DirInv, PagesRight, NextIsNoop, Settled
<1>2. CASE \E d \in Dirs, n \in Names : HandEdit(d, n)
  <2>1. UNCHANGED <<bookkeeping, pc, job, work>> /\ ~clean'
    BY <1>2 DEF HandEdit
  <2>2. \A m : Wanted(m)' = Wanted(m)
    BY <2>1, SameJob DEF job, work
  <2> QED
    BY <2>1, <2>2 DEF bookkeeping, job, work, SyncInv, IndexInv, Whole,
       DirInv, PagesRight, NextIsNoop, Settled
<1>3. CASE EditTree
  <2>1. UNCHANGED <<out, bookkeeping, pc, job, work, clean, outcome>> /\ pc = "idle"
    BY <1>3 DEF EditTree, history
  <2>2. \A m : Wanted(m)' = Wanted(m)
    BY <2>1, SameJob DEF job, work
  <2> QED
    BY <2>1, <2>2 DEF bookkeeping, job, work, SyncInv, IndexInv, Whole,
       DirInv, PagesRight, NextIsNoop, Settled, OutputsIntact, Intact, Listed, Fp
<1>4. CASE LoseCache
  BY <1>4 DEF LoseCache, NoFiles, SyncInv, IndexInv, DirInv, PagesRight,
     NextIsNoop, Settled
<1> QED
  BY <1>1, <1>2, <1>3, <1>4 DEF Environment

LEMMA NextSync ==
    /\ Sealed /\ TypeInv /\ TypeInv' /\ StatInv /\ JobInv /\ JobInv' /\ SyncInv /\ [Next]_vars
    => SyncInv'
<1> SUFFICES ASSUME Sealed, TypeInv, TypeInv', StatInv, JobInv, JobInv', SyncInv, [Next]_vars
             PROVE  SyncInv'
  OBVIOUS
<1>t. TypeOK /\ TypeOK'
  BY DEF TypeInv
<1>1. CASE Start
  BY <1>t, <1>1, StartSync DEF Start
<1>2. CASE Step
  BY <1>t, <1>2, LookSync, NoopSync, ParseSync, RenderSync, WriteSync, StatSync, DeleteSync, RecordSync,
     ManifestSync, SealSync DEF Step
<1>3. CASE Environment
  BY <1>3, EnvironmentSync
<1>4. CASE UNCHANGED vars
  <2>1. UNCHANGED <<out, bookkeeping, pc, job, work, history>>
    BY <1>4 DEF vars
  <2>2. \A m : Wanted(m)' = Wanted(m)
    BY <2>1, SameJob DEF job, work
  <2> QED
    BY <2>1, <2>2 DEF bookkeeping, job, work, history, SyncInv, IndexInv, Whole,
       DirInv, There, Noted, PagesRight, NextIsNoop, Settled, OutputsIntact, Intact, Listed, Fp
<1> QED
  BY <1>1, <1>2, <1>3, <1>4 DEF Next

LEMMA SyncInvariant == ASSUME Sealed PROVE Spec => []SyncInv
<1>1. Init => StatInv /\ SyncInv
  BY ConstantsAssumption
  DEF Init, StatInv, StatsHonest, NoFiles, SyncInv, IndexInv, DirInv, PagesRight, NextIsNoop,
      Settled
<1>2. TypeInv /\ StatInv /\ [Next]_vars => StatInv'
  BY NextStats DEF Sealed, TypeInv
<1>3. TypeInv /\ TypeInv' /\ StatInv /\ JobInv /\ JobInv' /\ SyncInv /\ [Next]_vars => SyncInv'
  BY NextSync
<1>4. Spec => [](TypeInv /\ JobInv)
  BY JobInvariant
<1> QED
  BY <1>1, <1>2, <1>3, <1>4, PTL DEF Spec

\* Whatever a build skipped, replayed or found on disk, and whatever earlier
\* builds, people, deaths and losses left there, its pages are those of a render
\* from nothing.
THEOREM PagesAreRight == ASSUME Sealed PROVE Spec => []PagesRight
<1>1. SyncInv => PagesRight
  BY DEF SyncInv
<1> QED
  BY <1>1, SyncInvariant, PTL

\* After a cached build the next one takes the noop shortcut, by stats alone.
THEOREM SecondBuildIsNoop == ASSUME Sealed PROVE Spec => []NextIsNoop
<1>1. SyncInv => NextIsNoop
  BY DEF SyncInv
<1> QED
  BY <1>1, SyncInvariant, PTL

-----------------------------------------------------------------------------
(* What a build leaves alone.                                              *)

\* There is one directory, stateless builds and placeholders come after the
\* cached ones, and no build dies while its lists are behind its files: before the
\* first write, or after the manifest.
Orderly ==
    /\ StatRace = {} /\ ~CacheLoss /\ FailAt \subseteq {"check", "parse", "render", "seal"}
    /\ \A d, e \in Dirs : d = e
    /\ \A f \in Follows : f[2] = "cached" => f[1] = "cached"

\* A file that is not a person's.
Made(n) == out[dir][n] # None /\ out[dir][n].text # Hand

\* The manifest and, until a build without a cache, the outputs table list the
\* same names: all there is of clangquill's, and nothing that is not.
ListInv ==
    /\ pc # "idle" => kind # None
    /\ kind \in {None, "cached"} /\ pc # "manifest" => Listed(idx) = manifest[dir]
    /\ pc \notin {"delete", "manifest"} => manifest[dir] \subseteq mine[dir]
    /\ pc = "idle" /\ outcome = "ok" => manifest[dir] = {n \in Names : Wanted(n) # None}

MadeInv == \A n \in Names : Made(n) =>
    /\ n \in mine[dir]
    /\ pc \in {"idle", "check", "parse", "render", "seal"} => n \in manifest[dir]
    /\ pc = "write" => n \in manifest[dir] \union Listed(rendered)
    /\ pc = "delete" => n \in todo \union Listed(rendered)
    /\ pc = "manifest" => n \in Listed(rendered)

\* What a running build has written is clangquill's, and so is what it deletes.
OwnInv ==
    /\ pc = "write" => Listed(rendered) \ todo \subseteq mine[dir]
    /\ pc = "write" /\ cur # None => cur \in mine[dir]
    /\ pc = "delete" => todo \union Listed(rendered) \subseteq mine[dir]
    /\ pc = "manifest" => Listed(rendered) \subseteq mine[dir]

\* As long as builds are cached, what is clangquill's is what the table says.
TextInv == kind \in {None, "cached"} => \A n \in Names : Made(n) =>
    /\ pc \in {"idle", "check", "parse", "render", "manifest", "seal"} =>
          out[dir][n].text = idx[n]
    /\ pc = "write" /\ n \in todo /\ n # cur => out[dir][n].text = idx[n]
    /\ pc = "write" /\ n \notin todo /\ n \in Listed(rendered) => out[dir][n].text = rendered[n]
    /\ pc = "delete" /\ n \notin todo => out[dir][n].text = rendered[n]

OrderInv == ListInv /\ MadeInv /\ OwnInv /\ TextInv

LEMMA OneDir == ASSUME Orderly, TypeOK, TypeOK' PROVE dir' = dir
BY DEF Orderly, TypeOK

\* A look at the outputs notes stats, or gives them up, and changes nothing else.
LEMMA LookOrder ==
    ASSUME TypeOK, JobInv, OrderInv, NEW n \in Names,
           CheckPage(n) \/ RestatPage(n) \/ RenderAnyway(n)
    PROVE  OrderInv'
<1>1. /\ UNCHANGED <<manifest, idx, mine, kind, rc, ir, dir, outcome>>
      /\ pc = "check" /\ pc' \in {"check", "render"} /\ dir \in Dirs /\ kind = "cached"
      /\ out \in [Dirs -> [Names -> FileStates \union {None}]]
  BY DEF CheckPage, RestatPage, RenderAnyway, bookkeeping, job, history, TypeOK, JobInv, PhaseInv
<1>2. ASSUME NEW m \in Names, Made(m)'
      PROVE  Made(m) /\ out'[dir][m].text = out[dir][m].text
  <2>1. out'[dir][m] # None
    BY <1>1, <1>2 DEF Made
  <2>2. out[dir][m] # None /\ out'[dir][m].text = out[dir][m].text
    <3>1. CASE out'[dir][m] = out[dir][m]
      BY <2>1, <3>1
    <3>2. CASE RestatPage(n) /\ out'[dir][m] # out[dir][m]
      <4>1. /\ out[dir][m] # None /\ out[dir][m] \in FileStates
            /\ out'[dir][m] = [out[dir][m] EXCEPT !.noted = TRUE]
        BY <1>1, <3>2 DEF RestatPage
      <4> QED
        BY <4>1 DEF FileStates
    <3>3. CASE RenderAnyway(n)
      <4>1. /\ out[dir][m] # None /\ out[dir][m] \in FileStates
            /\ out'[dir][m] = [out[dir][m] EXCEPT !.noted = FALSE]
        BY <1>1, <2>1, <3>3 DEF RenderAnyway, Unnoted
      <4> QED
        BY <4>1 DEF FileStates
    <3> QED
      BY <3>1, <3>2, <3>3 DEF CheckPage
  <2> QED
    BY <1>1, <1>2, <2>2 DEF Made
<1> QED
  BY <1>1, <1>2 DEF OrderInv, ListInv, MadeInv, OwnInv, TextInv

\* A noop heals stats and nothing else; the lists are those of the render.
LEMMA NoopOrder ==
    ASSUME TypeOK, JobInv, OrderInv, Noop
    PROVE  OrderInv'
<1>1. /\ UNCHANGED <<manifest, idx, mine, kind, rc, ir, dir>> /\ out' = Healed
      /\ pc = "check" /\ pc' = "idle" /\ kind = "cached"
      /\ bkIr = ir /\ bkRender = <<rc, dir>> /\ dir \in Dirs /\ rc \in Cfgs
      /\ out \in [Dirs -> [Names -> FileStates \union {None}]]
  BY DEF Noop, End, Fp, bookkeeping, job, TypeOK, JobInv, PhaseInv
<1>2. \A m : Wanted(m)' = Wanted(m)
  BY <1>1, SameJob
<1>3. ASSUME NEW m \in Names, Made(m)'
      PROVE  Made(m) /\ out'[dir][m].text = out[dir][m].text
  <2> DEFINE v == out[dir][m].indexed \/ out[dir][m].noted
  <2>1. out[dir][m] # None /\ out'[dir][m] = [out[dir][m] EXCEPT !.indexed = v, !.noted = FALSE]
    BY <1>1, <1>3 DEF Healed, Made
  <2>2. out[dir][m] \in FileStates /\ v \in BOOLEAN
    BY <1>1, <2>1
  <2> HIDE DEF v
  <2>3. out'[dir][m].text = out[dir][m].text
    BY <2>1, <2>2, FileFields
  <2> QED
    BY <1>1, <1>3, <2>1, <2>3 DEF Made
<1>4. bkRender # None
  BY <1>1, ConstantsAssumption
<1>5. manifest[dir] = {m \in Names : Wanted(m) # None}
  BY <1>1, <1>4, WantedOutputs DEF JobInv, TableInv, OrderInv, ListInv
<1> QED
  BY <1>1, <1>2, <1>3, <1>5 DEF OrderInv, ListInv, MadeInv, OwnInv, TextInv

LEMMA StartOrder ==
    ASSUME Orderly, TypeInv, TypeInv', StatInv, OrderInv, NEW d \in Dirs, NEW c \in Cfgs,
           StartCached(d, c) \/ StartPlain(d, c) \/ StartStub(d, c)
    PROVE  OrderInv'
<1>1. /\ UNCHANGED <<manifest, idx, mine, dir, out, cur>> /\ pc = "idle" /\ cur = None
      /\ pc' \in {"check", "parse", "render", "write"}
  BY OneDir DEF StartCached, StartPlain, StartStub, Begin, StatInv, bookkeeping, TypeInv
<1>2. \/ kind \in {None, "cached"} /\ None # kind' /\ kind' = "cached" /\ pc' # "write"
      \/ kind' \in {"plain", "stub"} /\ None # kind' /\ pc' = "write" /\ todo' = Listed(rendered')
  <2>1. CASE StartCached(d, c)
    <3>1. kind = None \/ <<kind, "cached">> \in Follows
      BY <2>1 DEF StartCached, Begin
    <3>2. kind \in {None, "cached"} /\ None # "cached"
      BY <2>1, <3>1, ConstantsAssumption DEF Orderly, StartCached
    <3> QED
      BY <2>1, <3>2 DEF StartCached, Begin
  <2>2. CASE StartPlain(d, c) \/ StartStub(d, c)
    <3>1. kind' \in Kinds /\ kind' \in {"plain", "stub"} /\ pc' = "write"
      BY <2>2 DEF StartPlain, StartStub, Begin
    <3>2. Listed(rendered') \subseteq todo'
      BY <2>2 DEF StartPlain, StartStub, Listed, NoFiles, Names
    <3>3. todo' \subseteq Listed(rendered')
      BY <3>1 DEF TypeInv
    <3> QED
      BY <3>1, <3>2, <3>3, ConstantsAssumption
  <2> QED
    BY <2>1, <2>2
<1>3. ListInv' /\ MadeInv' /\ OwnInv' /\ TextInv'
  BY <1>1, <1>2 DEF OrderInv, ListInv, MadeInv, OwnInv, TextInv, Made
<1> QED
  BY <1>3 DEF OrderInv

LEMMA ParseOrder ==
    ASSUME OrderInv, StatInv, TypeInv, TypeInv', JobInv, RecordParse \/ Render
    PROVE  OrderInv'
<1>1. /\ UNCHANGED <<manifest, idx, mine, dir, out, cur, kind, outcome>> /\ pc \in {"parse", "render"}
      /\ cur = None /\ kind = "cached"
      /\ pc' = "render" \/ (pc' = "write" /\ Listed(rendered') = todo')
  <2>1. CASE RecordParse
    BY <2>1 DEF RecordParse, work, history, job, StatInv, JobInv, PhaseInv
  <2>2. CASE Render
    <3>1. Listed(rendered') \subseteq todo'
      BY <2>2 DEF Render, Listed
    <3> QED
      BY <2>2, <3>1 DEF Render, history, job, StatInv, JobInv, PhaseInv, TypeInv
  <2> QED
    BY <2>1, <2>2
<1> QED
  BY <1>1 DEF OrderInv, ListInv, MadeInv, OwnInv, TextInv, Made

\* Writing: a page is written over nothing, over a person's file, or over what
\* the table says; one that is left alone is clangquill's already.
LEMMA WriteOrder ==
    ASSUME TypeInv, StatInv, OrderInv, NEW n \in Names, WritePage(n)
    PROVE  OrderInv'
<1>1. /\ UNCHANGED <<manifest, idx, kind, rc, dir, ir, pc, rendered, outcome>>
      /\ pc = "write" /\ cur = None /\ n \in todo /\ dir \in Dirs /\ n # None
      /\ out \in [Dirs -> [Names -> FileStates \union {None}]] /\ mine \in [Dirs -> SUBSET Names]
  BY ConstantsAssumption DEF WritePage, NextOutput, bookkeeping, job, TypeInv, TypeOK
<1>2. n \in Listed(rendered) /\ rendered[n] \in Texts \union {Stub} /\ rendered[n] # Hand
  BY <1>1, ConstantsAssumption DEF TypeInv, TypeOK, Listed
<1>3. out'[dir][n] # None /\ out'[dir][n].text = rendered[n] /\ n \in mine'[dir]
  <2>1. CASE Outdated(n)
    <3>1. /\ out' = [out EXCEPT ![dir][n] = File(rendered[n])]
          /\ mine' = [mine EXCEPT ![dir] = @ \union {n}]
      BY <2>1 DEF WritePage, Wrote
    <3>2. out'[dir][n] = File(rendered[n]) /\ n \in mine'[dir]
      BY <1>1, <3>1
    <3>3. File(rendered[n]) \in FileStates
      BY <1>2, FileType
    <3> QED
      BY <3>2, <3>3, FileFields, ConstantsAssumption
  <2>2. CASE ~Outdated(n)
    <3>1. out[dir][n] # None /\ out[dir][n].text = rendered[n] /\ UNCHANGED <<out, mine>>
      BY <1>1, <2>2 DEF WritePage, Outdated, Intact, StatInv, StatsHonest
    <3> QED
      BY <1>2, <3>1 DEF OrderInv, MadeInv, Made
  <2> QED
    BY <2>1, <2>2
<1>4. /\ \A m \in Names : m # n => out'[dir][m] = out[dir][m]
      /\ mine[dir] \subseteq mine'[dir]
  BY <1>1 DEF WritePage, Wrote
<1>5. \/ kind = "cached" /\ todo' = todo /\ cur' = n
      \/ kind # "cached" /\ todo' = todo \ {n} /\ cur' = None
  BY <1>1 DEF WritePage
<1>6. ASSUME NEW m \in Names, m # n
      PROVE  Made(m)' <=> Made(m)
  BY <1>1, <1>4, <1>6 DEF Made
<1>7. ListInv'
  BY <1>1, <1>4 DEF OrderInv, ListInv
<1>8. MadeInv'
  BY <1>1, <1>2, <1>3, <1>4, <1>6 DEF OrderInv, MadeInv
<1>9. OwnInv'
  BY <1>1, <1>3, <1>4, <1>5 DEF OrderInv, OwnInv
<1>10. TextInv'
  <2> SUFFICES ASSUME kind \in {None, "cached"}, NEW m \in Names, Made(m)'
               PROVE  /\ m \in todo' /\ m # cur' => out'[dir][m].text = idx[m]
                      /\ m \notin todo' /\ m \in Listed(rendered) => out'[dir][m].text = rendered[m]
    BY <1>1 DEF TextInv
  <2>1. CASE m = n
    BY <1>1, <1>3, <1>5, <2>1
  <2>2. CASE m # n
    <3>1. kind = "cached" /\ m # None
      BY <1>1, ConstantsAssumption DEF OrderInv, ListInv
    <3>2. todo' = todo /\ Made(m) /\ out'[dir][m] = out[dir][m]
      BY <1>4, <1>5, <1>6, <2>2, <3>1
    <3> QED
      BY <1>1, <3>1, <3>2 DEF OrderInv, TextInv
  <2> QED
    BY <2>1, <2>2
<1> QED
  BY <1>7, <1>8, <1>9, <1>10 DEF OrderInv

LEMMA StatOrder ==
    ASSUME TypeInv, StatInv, OrderInv, NEW n \in Names, StatPage(n)
    PROVE  OrderInv'
<1>1. /\ UNCHANGED <<manifest, idx, mine, kind, rc, dir, ir, pc, rendered, outcome>>
      /\ pc = "write" /\ cur = n /\ cur' = None /\ todo' = todo \ {n} /\ n # None /\ dir \in Dirs
      /\ out \in [Dirs -> [Names -> FileStates \union {None}]]
  BY ConstantsAssumption DEF StatPage, bookkeeping, job, history, TypeInv, TypeOK
<1>2. pc = "write" /\ (out[dir][n] # None => out[dir][n].text = rendered[n])
  BY <1>1 DEF StatInv, Due
<1>3. ASSUME NEW m \in Names
      PROVE  /\ Made(m)' => Made(m)
             /\ out'[dir][m] # None => out'[dir][m].text = out[dir][m].text
  <2>1. CASE m = n /\ out[dir][n] # None
    <3>1. out[dir][n] \in FileStates /\ out'[dir][n] = [out[dir][n] EXCEPT !.noted = TRUE]
      BY <1>1, <2>1 DEF StatPage
    <3>2. out'[dir][n].text = out[dir][n].text
      BY <3>1 DEF FileStates
    <3> QED
      BY <1>1, <2>1, <3>2 DEF Made
  <2>2. CASE ~(m = n /\ out[dir][n] # None)
    <3>1. out'[dir][m] = out[dir][m]
      BY <1>1, <2>2 DEF StatPage
    <3> QED
      BY <1>1, <3>1 DEF Made
  <2> QED
    BY <2>1, <2>2
<1>4. ListInv' /\ MadeInv' /\ OwnInv'
  BY <1>1, <1>2, <1>3 DEF OrderInv, ListInv, MadeInv, OwnInv
<1>5. TextInv'
  <2> SUFFICES ASSUME kind \in {None, "cached"}, NEW m \in Names, Made(m)'
               PROVE  /\ m \in todo' => out'[dir][m].text = idx[m]
                      /\ m \notin todo' /\ m \in Listed(rendered) => out'[dir][m].text = rendered[m]
    BY <1>1, <1>2 DEF TextInv
  <2>1. Made(m) /\ out'[dir][m].text = out[dir][m].text /\ out[dir][m] # None
    BY <1>1, <1>3 DEF Made
  <2>2. CASE m = n
    BY <1>1, <1>2, <2>1, <2>2
  <2>3. CASE m # n
    BY <1>1, <1>2, <2>1, <2>3 DEF OrderInv, TextInv
  <2> QED
    BY <2>2, <2>3
<1> QED
  BY <1>4, <1>5 DEF OrderInv

LEMMA FindOrder ==
    ASSUME TypeInv, OrderInv, FindVanished
    PROVE  OrderInv'
<1>1. /\ UNCHANGED <<manifest, idx, mine, kind, dir, rendered, outcome, out, cur>>
      /\ pc = "write" /\ pc' = "delete" /\ todo = {} /\ cur = None /\ todo' = Vanished
  BY DEF FindVanished, bookkeeping, job, history
<1>2. Vanished = manifest[dir] \ Listed(rendered)
  BY DEF Vanished, OrderInv, ListInv, FindVanished
<1>3. ListInv' /\ MadeInv' /\ OwnInv'
  BY <1>1, <1>2 DEF OrderInv, ListInv, MadeInv, OwnInv, Made
<1>4. TextInv'
  BY <1>1, <1>2 DEF OrderInv, TextInv, MadeInv, Made
<1> QED
  BY <1>3, <1>4 DEF OrderInv

LEMMA DeleteOrder ==
    ASSUME TypeInv, JobInv, OrderInv, NEW n \in Names, DeletePage(n)
    PROVE  OrderInv'
<1>1. /\ UNCHANGED <<manifest, idx, kind, rc, ir, dir, rendered, outcome, cur, pc>>
      /\ pc = "delete" /\ todo' = todo \ {n} /\ n \in todo /\ dir \in Dirs
      /\ out' = [out EXCEPT ![dir][n] = None] /\ mine' = [mine EXCEPT ![dir] = @ \ {n}]
      /\ out \in [Dirs -> [Names -> FileStates \union {None}]] /\ mine \in [Dirs -> SUBSET Names]
  BY DEF DeletePage, bookkeeping, job, TypeInv, TypeOK
<1>2. n \notin Listed(rendered)
  BY <1>1 DEF JobInv, PhaseInv, Listed
<1>3. out'[dir][n] = None /\ \A m \in Names : m # n => out'[dir][m] = out[dir][m]
  BY <1>1
<1>4. mine'[dir] = mine[dir] \ {n}
  BY <1>1
<1>5. \A m \in Names : Made(m)' => m # n /\ Made(m)
  BY <1>1, <1>3 DEF Made
<1> QED
  BY <1>1, <1>2, <1>3, <1>4, <1>5 DEF OrderInv, ListInv, MadeInv, OwnInv, TextInv

LEMMA RecordOrder ==
    ASSUME TypeInv, OrderInv, RecordOutputs
    PROVE  OrderInv'
<1>1. /\ UNCHANGED <<manifest, mine, kind, rc, ir, dir, rendered, outcome, cur, todo>>
      /\ pc = "delete" /\ pc' = "manifest" /\ todo = {} /\ idx' = rendered /\ dir \in Dirs
      /\ out \in [Dirs -> [Names -> FileStates \union {None}]]
      /\ out' = [d \in Dirs |-> StatsOf(d)] /\ kind = "cached"
  BY DEF RecordOutputs, Deleted, job, work, history, TypeInv, TypeOK
<1>2. ASSUME NEW m \in Names, out'[dir][m] # None
      PROVE  out[dir][m] # None /\ out'[dir][m].text = out[dir][m].text
  <2>1. out[dir][m] # None /\ out[dir][m] \in FileStates
        /\ out'[dir][m] = [out[dir][m] EXCEPT !.indexed = out[dir][m].noted, !.noted = FALSE]
    BY <1>1, <1>2 DEF StatsOf
  <2> QED
    BY <2>1 DEF FileStates
<1>3. \A m \in Names : Made(m)' => Made(m)
  BY <1>1, <1>2 DEF Made
<1>4. ListInv' /\ MadeInv' /\ OwnInv'
  BY <1>1, <1>3 DEF OrderInv, ListInv, MadeInv, OwnInv
<1>5. TextInv'
  BY <1>1, <1>2, <1>3 DEF OrderInv, TextInv, Made
<1> QED
  BY <1>4, <1>5 DEF OrderInv

\* The lists are level again.
LEMMA ManifestOrder ==
    ASSUME TypeInv, JobInv, OrderInv, WriteManifest \/ RecordRender
    PROVE  OrderInv'
<1>1. /\ UNCHANGED <<mine, kind, rc, ir, dir, out, idx>> /\ dir \in Dirs
      /\ manifest \in [Dirs -> SUBSET Names]
  BY DEF WriteManifest, RecordRender, bookkeeping, job, TypeInv, TypeOK
<1>2. \A m : Wanted(m)' = Wanted(m)
  BY <1>1, SameJob
<1>3. CASE WriteManifest
  <2>1. /\ manifest'[dir] = Listed(rendered) /\ pc \in {"manifest", "delete"}
        /\ pc = "delete" => todo = {} /\ kind # "cached"
        /\ Listed(rendered) = {n \in Names : Wanted(n) # None}
    BY <1>1, <1>3 DEF WriteManifest, NewManifest, ManifestDue, Deleted, JobInv, PhaseInv, Listed
  <2>2. \/ pc' = "seal" /\ kind = "cached" /\ pc = "manifest" /\ idx = rendered
        \/ pc' = "idle" /\ kind # "cached" /\ pc = "delete"
    BY <1>3, <2>1 DEF WriteManifest, End, JobInv, PhaseInv
  <2>3. pc = "delete" => kind # None
    BY <1>3, <2>1 DEF OrderInv, ListInv
  <2> QED
    BY <1>1, <1>2, <2>1, <2>2, <2>3 DEF OrderInv, ListInv, MadeInv, OwnInv, TextInv, Made
<1>4. CASE RecordRender
  <2>1. pc = "seal" /\ pc' = "idle" /\ UNCHANGED manifest /\ kind = "cached"
        /\ idx = rendered
    BY <1>4 DEF RecordRender, End, JobInv, PhaseInv
  <2>2. \A n \in Names : idx[n] = Wanted(n)
    BY <2>1 DEF JobInv, PhaseInv
  <2>3. ListInv'
    BY <1>1, <1>2, <2>1, <2>2 DEF OrderInv, ListInv, Listed
  <2> QED
    BY <1>1, <2>1, <2>3 DEF OrderInv, ListInv, MadeInv, OwnInv, TextInv, Made
<1> QED
  BY <1>3, <1>4

\* Where a build may die its lists are level; a person's save is a person's.
LEMMA EnvironmentOrder ==
    ASSUME Orderly, TypeInv, OrderInv, Environment
    PROVE  OrderInv'
<1>t. dir \in Dirs /\ out \in [Dirs -> [Names -> FileStates \union {None}]]
  BY DEF TypeInv, TypeOK
<1>1. CASE Fail
  <2>1. /\ UNCHANGED <<idx, kind, rc, ir, dir>> /\ pc \in {"check", "parse", "render", "seal"}
        /\ pc' = "idle" /\ outcome' = "failed"
    BY <1>1 DEF Fail, End, Orderly, bookkeeping, job
  <2>2. BeingWritten = {} /\ ~ManifestDue
    BY <2>1 DEF BeingWritten, NextOutput, ManifestDue, Deleted
  <2>3. UNCHANGED <<manifest, mine>> /\ out' = Unnoted(out)
    BY <1>1, <2>2 DEF Fail
  <2>4. ASSUME NEW m \in Names, out'[dir][m] # None
        PROVE  out[dir][m] # None /\ out'[dir][m].text = out[dir][m].text
    <3>1. out[dir][m] # None /\ out[dir][m] \in FileStates
          /\ out'[dir][m] = [out[dir][m] EXCEPT !.noted = FALSE]
      BY <1>t, <2>3, <2>4 DEF Unnoted
    <3> QED
      BY <3>1 DEF FileStates
  <2>5. \A m \in Names : Made(m)' => Made(m)
    BY <2>1, <2>4 DEF Made
  <2> QED
    BY <2>1, <2>3, <2>4, <2>5 DEF OrderInv, ListInv, MadeInv, OwnInv, TextInv, Made
<1>2. ASSUME NEW d \in Dirs, NEW n \in Names, HandEdit(d, n) PROVE OrderInv'
  <2>1. /\ UNCHANGED <<idx, kind, rc, ir, dir, manifest, mine, pc, outcome, todo, cur, rendered>>
        /\ d = dir
    BY <1>t, <1>2 DEF HandEdit, bookkeeping, job, work, Orderly
  <2>2. \A m \in Names : m # n => out'[dir][m] = out[dir][m]
    BY <1>t, <1>2, <2>1 DEF HandEdit
  <2>3. Made(n)' => Made(n) /\ out'[dir][n].text = out[dir][n].text
    BY <1>t, <1>2, <2>1, FileFields DEF HandEdit, Made
  <2>4. ASSUME NEW m \in Names, Made(m)'
        PROVE  Made(m) /\ out'[dir][m].text = out[dir][m].text
    BY <2>1, <2>2, <2>3, <2>4 DEF Made
  <2>5. \A m : Wanted(m)' = Wanted(m)
    BY <2>1, SameJob
  <2> QED
    BY <2>1, <2>4, <2>5 DEF OrderInv, ListInv, MadeInv, OwnInv, TextInv
<1>3. CASE EditTree
  <2>1. UNCHANGED <<idx, kind, rc, ir, dir, manifest, mine, pc, outcome, todo, cur, rendered, out>>
    BY <1>3 DEF EditTree, bookkeeping, job, work, history
  <2>2. \A m : Wanted(m)' = Wanted(m)
    BY <2>1, SameJob
  <2> QED
    BY <2>1, <2>2 DEF OrderInv, ListInv, MadeInv, OwnInv, TextInv, Made
<1>4. ~LoseCache
  BY DEF LoseCache, Orderly
<1> QED
  BY <1>1, <1>2, <1>3, <1>4 DEF Environment

LEMMA NextOrder ==
    /\ Orderly /\ TypeInv /\ TypeInv' /\ StatInv /\ JobInv /\ OrderInv /\ [Next]_vars
    => OrderInv'
<1> SUFFICES ASSUME Orderly, TypeInv, TypeInv', StatInv, JobInv, OrderInv, [Next]_vars
             PROVE  OrderInv'
  OBVIOUS
<1>t. TypeOK /\ TypeOK'
  BY DEF TypeInv
<1>1. CASE Start
  BY <1>t, <1>1, StartOrder DEF Start
<1>2. CASE Step
  BY <1>t, <1>2, LookOrder, NoopOrder, ParseOrder, WriteOrder, StatOrder, FindOrder, DeleteOrder, RecordOrder,
     ManifestOrder DEF Step
<1>3. CASE Environment
  BY <1>3, EnvironmentOrder
<1>4. CASE UNCHANGED vars
  <2>1. UNCHANGED <<out, bookkeeping, pc, job, work, history, manifest>>
    BY <1>4 DEF vars
  <2>2. \A m : Wanted(m)' = Wanted(m)
    BY <2>1, SameJob DEF job, work
  <2> QED
    BY <2>1, <2>2 DEF bookkeeping, job, work, history, OrderInv, ListInv, MadeInv, OwnInv,
       TextInv, Made, Listed
<1> QED
  BY <1>1, <1>2, <1>3, <1>4 DEF Next

LEMMA OrderInvariant ==
    ASSUME Orderly PROVE Spec => [](TypeInv /\ StatInv /\ OrderInv)
<1>1. Init => StatInv /\ OrderInv
  BY ConstantsAssumption
  DEF Init, StatInv, StatsHonest, NoFiles, OrderInv, ListInv, MadeInv, OwnInv, TextInv,
      Made, Listed
<1>2. TypeInv /\ StatInv /\ [Next]_vars => StatInv'
  BY NextStats DEF Orderly, TypeInv
<1>3. TypeInv /\ TypeInv' /\ StatInv /\ JobInv /\ OrderInv /\ [Next]_vars => OrderInv'
  BY NextOrder
<1>4. Spec => [](TypeInv /\ JobInv)
  BY JobInvariant
<1> QED
  BY <1>1, <1>2, <1>3, <1>4, PTL DEF Spec

\* "deletes pages whose symbols disappeared": a build leaves no generated page
\* that it does not have.
THEOREM NoPageIsOrphaned == ASSUME Orderly PROVE Spec => []NoOrphans
<1>1. OrderInv => NoOrphans
  BY DEF OrderInv, ListInv, MadeInv, Made, NoOrphans, Settled
<1> QED
  BY <1>1, OrderInvariant, PTL

\* "a page is only written when its content actually changed".
THEOREM UnchangedIsUntouched == ASSUME Orderly PROVE Spec => []Untouched
<1>1. TypeInv /\ StatInv /\ OrderInv => Untouched
  <2> SUFFICES ASSUME TypeInv, StatInv, OrderInv, NEW n \in BeingWritten, out[dir][n] # None,
                      out[dir][n].text = rendered[n]
               PROVE  FALSE
    BY DEF Untouched
  <2>1. pc = "write" /\ cur = None /\ n \in todo /\ Outdated(n) /\ n \in Names
    BY DEF BeingWritten, NextOutput, TypeInv, TypeOK
  <2>2. rendered[n] # Hand /\ Made(n)
    BY <2>1, ConstantsAssumption DEF TypeInv, TypeOK, Listed, Made
  <2>3. kind = "cached"
    BY <2>1 DEF Outdated
  <2>4. out[dir][n].text = idx[n]
    BY <2>1, <2>2, <2>3, ConstantsAssumption DEF OrderInv, TextInv
  <2> QED
    BY <2>1, <2>3, <2>4 DEF Outdated, Intact
<1> QED
  BY <1>1, OrderInvariant, PTL

\* "hand-written files that happen to share output_dir are never touched".
THEOREM ForeignIsSafe == ASSUME Orderly PROVE Spec => ForeignSafe
<1> DEFINE Safe == \A n \in Names : DeletePage(n) => out[dir][n] = None \/ n \in mine[dir]
<1>1. OrderInv => Safe
  BY DEF OrderInv, OwnInv, DeletePage
<1>2. Spec => []OrderInv
  BY OrderInvariant, PTL
<1> HIDE DEF Safe
<1>3. Spec => [][Safe]_vars
  BY <1>1, <1>2, PTL
<1> QED
  BY <1>3 DEF ForeignSafe, Safe
=============================================================================
