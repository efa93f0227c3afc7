------------------------- MODULE DiagnosticsProofs --------------------------
(***************************************************************************)
(* What builds report of libclang's diagnostics, for any inputs, headers,  *)
(* contents, diagnostics and number of builds: a strict build's verdict is *)
(* on the tree as it is; the log has what was not reported before; and, if *)
(* the diagnostics are Located and HeadersAgree, the picture is whole.     *)
(*                                                                         *)
(* First come the lists: what capturing, merging and carrying forward keep *)
(* of them, as sets of diagnostics without their notes (Told), and that    *)
(* what is carried forward with what is parsed again is what a whole parse *)
(* tells (CarriedIsWhole).                                                 *)
(***************************************************************************)
EXTENDS Diagnostics, ListsProofs, FiniteSetTheorems

-----------------------------------------------------------------------------
(* Lists of diagnostics.                                                   *)

\* A diagnostic without its notes.
Bare(d) == [d EXCEPT !.notes = <<>>]

\* No diagnostic is there twice.
Distinct(ds) == \A i, j \in DOMAIN ds : Identity(ds[i]) = Identity(ds[j]) => i = j

\* What some diagnostics tell from a severity up, and what a list tells.
Above(severity, D) == {Bare(d) : d \in {e \in D : e.severity >= severity}}
Told(ds) == Above(WarningSeverity, ToSet(ds))

\* Without its notes a diagnostic keeps identity, severity and file.
LEMMA BareFacts ==
    ASSUME NEW d \in Diagnostic
    PROVE  /\ Bare(d) \in Diagnostic /\ Bare(Bare(d)) = Bare(d)
           /\ Bare(d).severity = d.severity /\ Bare(d).file = d.file
           /\ Identity(Bare(d)) = Identity(d)
<1>1. <<>> \in Seq(STRING)
  OBVIOUS
<1> QED
  BY <1>1 DEF Bare, Diagnostic, Identity

\* Two diagnostics of one identity and place are one but for their notes.
LEMMA SameBare ==
    ASSUME NEW d \in Diagnostic, NEW e \in Diagnostic, Identity(d) = Identity(e), d.file = e.file
    PROVE  Bare(d) = Bare(e)
BY DEF Bare, Diagnostic, Identity

\* Nor does a list lose anything else, or repeat itself, without its notes.
LEMMA WithoutNotesFacts ==
    ASSUME NEW ds \in Seq(Diagnostic)
    PROVE  /\ WithoutNotes(ds) \in Seq(Diagnostic)
           /\ ToSet(WithoutNotes(ds)) = {Bare(d) : d \in ToSet(ds)}
           /\ Distinct(ds) => Distinct(WithoutNotes(ds))
<1>1. PICK n \in Nat : DOMAIN ds = 1..n /\ \A i \in 1..n : ds[i] \in Diagnostic
  OBVIOUS
<1>2. WithoutNotes(ds) = [i \in 1..n |-> Bare(ds[i])]
  BY <1>1 DEF WithoutNotes, Bare
<1>3. \A i \in 1..n : Bare(ds[i]) \in Diagnostic /\ Identity(Bare(ds[i])) = Identity(ds[i])
  BY <1>1, BareFacts
<1>4. WithoutNotes(ds) \in Seq(Diagnostic)
  BY <1>2, <1>3
<1> HIDE DEF Bare
<1> QED
  BY <1>1, <1>2, <1>3, <1>4 DEF ToSet, Distinct

\* A part of a list without repetition is one.
LEMMA ChosenDistinct ==
    ASSUME NEW ds \in Seq(Diagnostic), NEW I, Distinct(ds)
    PROVE  Distinct(Chosen(ds, I))
<1>1. PICK p : Places(Chosen(ds, I), p, ds, I \intersect DOMAIN ds)
  BY ChosenPlaces
<1>2. DOMAIN Chosen(ds, I) = 1..Len(Chosen(ds, I)) /\ Len(Chosen(ds, I)) \in Nat
  BY ChosenPlaces
<1>3. DOMAIN ds \subseteq Nat
  OBVIOUS
<1> SUFFICES ASSUME NEW i \in DOMAIN Chosen(ds, I), NEW j \in DOMAIN Chosen(ds, I),
                    Identity(Chosen(ds, I)[i]) = Identity(Chosen(ds, I)[j])
             PROVE  i = j
  BY DEF Distinct
<1>4. p[i] \in DOMAIN ds /\ p[j] \in DOMAIN ds
      /\ Chosen(ds, I)[i] = ds[p[i]] /\ Chosen(ds, I)[j] = ds[p[j]]
  BY <1>1, <1>2 DEF Places
<1>5. p[i] = p[j]
  BY <1>4 DEF Distinct
<1>6. ~ (i < j) /\ ~ (j < i)
  BY <1>1, <1>2, <1>3, <1>4, <1>5 DEF Places
<1> QED
  BY <1>2, <1>6

\* A filter by severity keeps what is as severe, and repeats nothing.
LEMMA AtLeastFacts ==
    ASSUME NEW ds \in Seq(Diagnostic), NEW severity \in Nat
    PROVE  /\ AtLeast(severity, ds) \in Seq(Diagnostic)
           /\ ToSet(AtLeast(severity, ds)) = {d \in ToSet(ds) : d.severity >= severity}
           /\ Distinct(ds) => Distinct(AtLeast(severity, ds))
<1> DEFINE I == {i \in DOMAIN ds : ds[i].severity >= severity}
<1>1. AtLeast(severity, ds) = Chosen(ds, I)
  BY DEF AtLeast
<1>2. ToSet(Chosen(ds, I)) = {ds[i] : i \in I \intersect DOMAIN ds}
  BY ChosenSet
<1>3. {ds[i] : i \in I \intersect DOMAIN ds} = {d \in ToSet(ds) : d.severity >= severity}
  BY DEF ToSet
<1> HIDE DEF I
<1>4. Chosen(ds, I) \in Seq(Diagnostic)
  BY ChosenPlaces
<1>5. Distinct(ds) => Distinct(Chosen(ds, I))
  BY ChosenDistinct
<1> QED
  BY <1>1, <1>2, <1>3, <1>4, <1>5

\* What `WarningsOrWorse` keeps is what is told.
LEMMA WarningsFacts ==
    ASSUME NEW ds \in Seq(Diagnostic)
    PROVE  /\ WarningsOrWorse(ds) \in Seq(Diagnostic)
           /\ ToSet(WarningsOrWorse(ds)) = Told(ds)
           /\ Told(WarningsOrWorse(ds)) = Told(ds)
           /\ Distinct(ds) => Distinct(WarningsOrWorse(ds))
<1>1. PICK as \in Seq(Diagnostic) : as = AtLeast(WarningSeverity, ds)
  BY AtLeastFacts DEF WarningSeverity
<1>2. /\ ToSet(as) = {d \in ToSet(ds) : d.severity >= WarningSeverity}
      /\ Distinct(ds) => Distinct(as)
  BY <1>1, AtLeastFacts DEF WarningSeverity
<1>3. WarningsOrWorse(ds) = WithoutNotes(as)
  BY <1>1 DEF WarningsOrWorse
<1>4. ToSet(WithoutNotes(as)) = Told(ds)
  BY <1>2, WithoutNotesFacts DEF Told, Above
<1>5. \A d \in ToSet(ds) : d \in Diagnostic
  BY DEF ToSet
<1>6. Above(WarningSeverity, Told(ds)) = Told(ds)
  BY <1>5, BareFacts DEF Told, Above
<1> QED
  BY <1>2, <1>3, <1>4, <1>6, WithoutNotesFacts DEF Told

\* The first entry of an identity.
LEMMA FirstOf ==
    ASSUME NEW ds \in Seq(Diagnostic), NEW i \in DOMAIN ds
    PROVE  \E k \in DOMAIN ds : /\ Identity(ds[k]) = Identity(ds[i])
                                /\ \A j \in 1..(k - 1) : Identity(ds[j]) # Identity(ds[k])
<1> DEFINE T == {k \in DOMAIN ds : Identity(ds[k]) = Identity(ds[i])}
<1>1. T \subseteq Nat /\ T # {}
  OBVIOUS
<1>2. PICK k \in T : \A j \in T : ~ (<<j, k>> \in OpToRel(<, Nat))
  <2> HIDE DEF T
  <2> QED
    BY <1>1, NatLessThanWellFounded, WFMin
<1>3. PICK n \in Nat : DOMAIN ds = 1..n
  OBVIOUS
<1>4. \A j \in 1..(k - 1) : j \in DOMAIN ds /\ j \in Nat /\ k \in Nat /\ j < k
  BY <1>3
<1>5. ASSUME NEW j \in 1..(k - 1) PROVE j \notin T
  <2> HIDE DEF T
  <2>1. <<j, k>> \in OpToRel(<, Nat)
    BY <1>4 DEF OpToRel
  <2> QED
    BY <1>2, <2>1
<1> QED
  BY <1>4, <1>5

\* Merging the units' lists leaves one diagnostic of each identity.
LEMMA MergedFacts ==
    ASSUME NEW ds \in Seq(Diagnostic)
    PROVE  /\ Merged(ds) \in Seq(Diagnostic) /\ Distinct(Merged(ds))
           /\ ToSet(Merged(ds)) \subseteq ToSet(ds)
           /\ \A d \in ToSet(ds) : \E e \in ToSet(Merged(ds)) : Identity(e) = Identity(d)
           /\ Distinct(ds) => ToSet(Merged(ds)) = ToSet(ds)
<1> DEFINE First(i) == \A j \in 1..(i - 1) : Identity(ds[j]) # Identity(ds[i])
           I == {i \in DOMAIN ds : First(i)}
<1>1. Merged(ds) = Chosen(ds, I)
  BY DEF Merged
<1>2. ToSet(Chosen(ds, I)) = {ds[i] : i \in I \intersect DOMAIN ds} /\ I \intersect DOMAIN ds = I
  BY ChosenSet
<1>3. Chosen(ds, I) \in Seq(Diagnostic)
  BY ChosenPlaces
<1>4. \A d \in ToSet(ds) : \E e \in ToSet(Merged(ds)) : Identity(e) = Identity(d)
  <2> SUFFICES ASSUME NEW i \in DOMAIN ds
               PROVE  \E e \in ToSet(Merged(ds)) : Identity(e) = Identity(ds[i])
    BY DEF ToSet
  <2>1. PICK k \in DOMAIN ds : Identity(ds[k]) = Identity(ds[i]) /\ First(k)
    BY FirstOf
  <2>2. ds[k] \in ToSet(Merged(ds))
    BY <1>1, <1>2, <2>1
  <2> QED
    BY <2>1, <2>2
<1>5. ASSUME Distinct(ds) PROVE ToSet(ds) \subseteq ToSet(Merged(ds))
  <2>1. \A i \in DOMAIN ds : i \in I
    BY <1>5 DEF Distinct
  <2> QED
    BY <1>1, <1>2, <2>1 DEF ToSet
<1>6. \A i \in I, j \in I : Identity(ds[i]) = Identity(ds[j]) => i = j
  <2> SUFFICES ASSUME NEW i \in I, NEW j \in I, Identity(ds[i]) = Identity(ds[j]), i # j
               PROVE  FALSE
    OBVIOUS
  <2>1. i \in Nat \ {0} /\ j \in Nat \ {0}
    OBVIOUS
  <2>2. i < j \/ j < i
    BY <2>1
  <2>3. i \in 1..(j - 1) \/ j \in 1..(i - 1)
    BY <2>1, <2>2
  <2> QED
    BY <2>3
<1> HIDE DEF I
<1>7. Distinct(Chosen(ds, I))
  <2>1. PICK p : Places(Chosen(ds, I), p, ds, I \intersect DOMAIN ds)
    BY ChosenPlaces
  <2>2. DOMAIN Chosen(ds, I) = 1..Len(Chosen(ds, I)) /\ Len(Chosen(ds, I)) \in Nat
    BY <1>3
  <2>3. DOMAIN ds \subseteq Nat
    OBVIOUS
  <2> SUFFICES ASSUME NEW i \in DOMAIN Chosen(ds, I), NEW j \in DOMAIN Chosen(ds, I),
                      Identity(Chosen(ds, I)[i]) = Identity(Chosen(ds, I)[j])
               PROVE  i = j
    BY DEF Distinct
  <2>4. /\ p[i] \in I \intersect DOMAIN ds /\ p[j] \in I \intersect DOMAIN ds
        /\ Chosen(ds, I)[i] = ds[p[i]] /\ Chosen(ds, I)[j] = ds[p[j]]
    BY <2>1, <2>2 DEF Places
  <2>5. p[i] = p[j]
    BY <1>6, <2>4
  <2>6. ~ (i < j) /\ ~ (j < i)
    BY <2>1, <2>2, <2>3, <2>4, <2>5 DEF Places
  <2> QED
    BY <2>2, <2>6
<1>8. ToSet(Merged(ds)) \subseteq ToSet(ds)
  BY <1>1, <1>2 DEF ToSet
<1> QED
  BY <1>1, <1>3, <1>4, <1>5, <1>7, <1>8

\* SetToSeq lists a finite set.
LEMMA ListedSet ==
    ASSUME NEW S, IsFiniteSet(S)
    PROVE  SetToSeq(S) \in Seq(S) /\ ToSet(SetToSeq(S)) = S
<1>1. PICK n \in Nat : n = Cardinality(S)
  BY FS_CardinalityType
<1>2. \E f \in [1..n -> S] : IsInjective(f)
  BY <1>1, FS_CardinalityType DEF ExistsBijection, Bijection, Injection
<1>3. SetToSeq(S) \in [1..n -> S] /\ IsInjective(SetToSeq(S))
  BY <1>1, <1>2 DEF SetToSeq
<1>4. PICK f : f = SetToSeq(S)
  OBVIOUS
<1>5. f \in Injection(1..n, S)
  BY <1>3, <1>4 DEF Injection
<1>6. Cardinality(1..n) = n
  BY FS_Interval
<1>7. f \in Surjection(1..n, S)
  BY <1>1, <1>5, <1>6, FS_Injection
<1>8. DOMAIN f = 1..n /\ \A x \in S : \E i \in 1..n : f[i] = x
  BY <1>3, <1>4, <1>7 DEF Surjection
<1>9. f \in Seq(S)
  BY <1>3, <1>4
<1>10. ToSet(f) = S
  BY <1>3, <1>4, <1>8 DEF ToSet
<1> QED
  BY <1>4, <1>9, <1>10

\* What the compiler can say are diagnostics.
LEMMA KnownIsDiagnostic == Known \subseteq Diagnostic
<1>1. \A d \in ToSet(Everywhere) : d \in Diagnostic
  BY DiagnosticsAssumption DEF ToSet
<1>2. ASSUME NEW f \in Files, NEW u \in Units, NEW c \in Contents(f), NEW d \in ToSet(Problems(u, f, c))
      PROVE  d \in Diagnostic
  <2>1. Problems(u, f, c) \in Seq(Diagnostic)
    BY DiagnosticsAssumption
  <2> QED
    BY <2>1, <1>2 DEF ToSet
<1> QED
  BY <1>1, <1>2 DEF Known

\* The text says all, but for the notes.
LEMMA KnownOnce ==
    ASSUME NEW d \in Known, NEW e \in Known, Identity(d) = Identity(e)
    PROVE  Bare(d) = Bare(e)
<1>1. d.file = e.file
  BY DiagnosticsAssumption
<1> QED
  BY <1>1, KnownIsDiagnostic, SameBare

\* A list of diagnostics some unit may be told, with their notes or without.
Heard(ds) == ds \in Seq(Diagnostic) /\ \A d \in ToSet(ds) : d \in Diagnostic /\ \E e \in Known : Bare(d) = Bare(e)

\* Merging loses no diagnostic but for its notes.
LEMMA MergedTold ==
    ASSUME NEW ds, Heard(ds)
    PROVE  Heard(Merged(ds)) /\ Distinct(Merged(ds)) /\ Told(Merged(ds)) = Told(ds)
<1>1. /\ Merged(ds) \in Seq(Diagnostic) /\ Distinct(Merged(ds))
      /\ ToSet(Merged(ds)) \subseteq ToSet(ds)
      /\ \A d \in ToSet(ds) : \E e \in ToSet(Merged(ds)) : Identity(e) = Identity(d)
  BY MergedFacts DEF Heard
<1>2. ASSUME NEW d \in ToSet(ds), NEW e \in ToSet(ds), Identity(e) = Identity(d)
      PROVE  Bare(d) = Bare(e) /\ d.severity = e.severity
  <2>1. PICK x \in Known : Bare(d) = Bare(x)
    BY DEF Heard
  <2>2. PICK y \in Known : Bare(e) = Bare(y)
    BY DEF Heard
  <2>3. d \in Diagnostic /\ e \in Diagnostic /\ x \in Diagnostic /\ y \in Diagnostic
    BY KnownIsDiagnostic DEF Heard
  <2>4. Identity(x) = Identity(d) /\ Identity(y) = Identity(e)
    BY <2>1, <2>2, <2>3, BareFacts
  <2>5. Bare(x) = Bare(y)
    BY <1>2, <2>4, KnownOnce
  <2>6. Bare(d).severity = d.severity /\ Bare(e).severity = e.severity
    BY <2>3, BareFacts
  <2> QED
    BY <2>1, <2>2, <2>5, <2>6
<1>3. Told(Merged(ds)) \subseteq Told(ds)
  BY <1>1 DEF Told, Above
<1>4. ASSUME NEW d \in ToSet(ds), d.severity >= WarningSeverity
      PROVE  \E e \in ToSet(Merged(ds)) : e.severity >= WarningSeverity /\ Bare(e) = Bare(d)
  <2>1. PICK e \in ToSet(Merged(ds)) : Identity(e) = Identity(d)
    BY <1>1
  <2>2. Bare(d) = Bare(e) /\ d.severity = e.severity
    BY <1>1, <1>2, <2>1
  <2> QED
    BY <1>4, <2>1, <2>2
<1>5. Told(ds) \subseteq Told(Merged(ds))
  BY <1>4 DEF Told, Above
<1>6. Heard(Merged(ds))
  BY <1>1 DEF Heard
<1> QED
  BY <1>1, <1>3, <1>5, <1>6

\* What a unit is told of what it sees, and what a build keeps of that.
Seen(u, v) == ToSet(Everywhere) \union UNION {ToSet(Problems(u, f, v[f])) : f \in DOMAIN v}
Floor(all) == IF all THEN WarningSeverity ELSE ErrorSeverity
Says(all, u, v) == Above(Floor(all), Seen(u, v))

\* What a unit sees in a tree, typed.
LEMMA ViewFacts ==
    ASSUME NEW t \in Trees, NEW u \in Units
    PROVE  /\ u \in Files /\ u \in Reached(t, u) /\ Reached(t, u) \subseteq Files
           /\ DOMAIN View(t, u) = Reached(t, u)
           /\ \A f \in Reached(t, u) : View(t, u)[f] = t[f] /\ t[f] \in Contents(f)
<1>1. u \in Files
  BY DiagnosticsAssumption DEF Units, ToSet
<1>2. \A f \in Files : t[f] \in Contents(f)
  BY DEF Trees
<1>3. Includes(t[u]) \subseteq Files
  BY <1>1, <1>2, DiagnosticsAssumption
<1> QED
  BY <1>1, <1>2, <1>3 DEF View, Reached

\* What a unit emits is what is seen of its view.
LEMMA EmittedFacts ==
    ASSUME NEW t \in Trees, NEW u \in Units
    PROVE  /\ Emitted(t, u) \in Seq(Diagnostic)
           /\ ToSet(Emitted(t, u)) = Seen(u, View(t, u))
           /\ Seen(u, View(t, u)) \subseteq Known
<1> DEFINE R == Reached(t, u) \ {u}
           P(f) == Problems(u, f, t[f])
           S == {P(f) : f \in R}
           Heap(F) == UNION {ToSet(P(f)) : f \in F}
<1>1. P(u) \in Seq(Diagnostic) /\ \A f \in R : P(f) \in Seq(Diagnostic)
  BY ViewFacts, DiagnosticsAssumption
<1>2. IsFiniteSet(S)
  <2>1. R \subseteq Files
    BY ViewFacts
  <2>2. IsFiniteSet(R)
    BY <2>1, FS_Subset, DiagnosticsAssumption
  <2>3. [f \in R |-> P(f)] \in Surjection(R, S)
    BY DEF Surjection
  <2> HIDE DEF R, S, P
  <2> QED
    BY <2>2, <2>3, FS_Surjection
<1>3. SetToSeq(S) \in Seq(S) /\ ToSet(SetToSeq(S)) = S /\ S \subseteq Seq(Diagnostic)
  <2>1. S \subseteq Seq(Diagnostic)
    BY <1>1
  <2> HIDE DEF S
  <2> QED
    BY <1>2, <2>1, ListedSet
<1>4. PICK ss \in Seq(Seq(Diagnostic)) : ss = SetToSeq(S)
  <2> HIDE DEF S
  <2> QED
    BY <1>3, SeqMonotonic
<1>5. FlattenSeq(ss) \in Seq(Diagnostic) /\ ToSet(FlattenSeq(ss)) = UNION {ToSet(ss[i]) : i \in DOMAIN ss}
  BY InFlattened
<1>6. UNION {ToSet(ss[i]) : i \in DOMAIN ss} = Heap(R)
  <2>1. S = {ss[i] : i \in DOMAIN ss}
    BY <1>3, <1>4 DEF ToSet
  <2>2. ASSUME NEW i \in DOMAIN ss PROVE \E f \in R : ss[i] = P(f)
    BY <2>1
  <2>3. ASSUME NEW f \in R PROVE \E i \in DOMAIN ss : ss[i] = P(f)
    BY <2>1
  <2> HIDE DEF S, P, R
  <2> QED
    BY <2>2, <2>3
<1>7. Emitted(t, u) = (P(u) \o FlattenSeq(ss)) \o Everywhere
  BY <1>4 DEF Emitted
<1> HIDE DEF S, P
<1>8. Everywhere \in Seq(Diagnostic)
  BY DiagnosticsAssumption
<1>9. PICK ps \in Seq(Diagnostic) : ps = P(u)
  BY <1>1
<1>10. PICK fs \in Seq(Diagnostic) : fs = FlattenSeq(ss)
  BY <1>5
<1>11. PICK pf \in Seq(Diagnostic) : pf = ps \o fs
  BY ConcatProperties
<1>12. ToSet(pf) = ToSet(ps) \union ToSet(fs)
  BY <1>11, AppendedSet
<1>13. pf \o Everywhere \in Seq(Diagnostic) /\ ToSet(pf \o Everywhere) = ToSet(pf) \union ToSet(Everywhere)
  BY <1>8, ConcatProperties, AppendedSet
<1>14. Seen(u, View(t, u)) = Heap(Reached(t, u)) \union ToSet(Everywhere)
  BY ViewFacts DEF Seen, P
<1>15. Reached(t, u) = R \union {u}
  BY ViewFacts
<1> HIDE DEF R
<1>16. Heap(R \union {u}) = ToSet(P(u)) \union Heap(R)
  OBVIOUS
<1>17. Heap(Reached(t, u)) \subseteq Known
  BY ViewFacts DEF P, Known
<1>18. ToSet(Everywhere) \subseteq Known
  BY DEF Known
<1> HIDE DEF Heap
<1>19. ToSet(Emitted(t, u)) = (ToSet(P(u)) \union Heap(R)) \union ToSet(Everywhere)
  BY <1>5, <1>6, <1>7, <1>9, <1>10, <1>11, <1>12, <1>13
<1>20. ToSet(Emitted(t, u)) = Seen(u, View(t, u))
  BY <1>14, <1>15, <1>16, <1>19
<1>21. Emitted(t, u) \in Seq(Diagnostic)
  BY <1>7, <1>9, <1>10, <1>11, <1>13
<1> QED
  BY <1>14, <1>17, <1>18, <1>20, <1>21

\* What a build captures of it is what its configuration lets through.
LEMMA CapturedFacts ==
    ASSUME NEW c \in Configs, NEW t \in Trees, NEW u \in Units
    PROVE  /\ Heard(Captured(c, Emitted(t, u)))
           /\ Told(Captured(c, Emitted(t, u))) = Says(Capture(c), u, View(t, u))
<1>1. PICK ds \in Seq(Diagnostic) : ds = Emitted(t, u) /\ ToSet(ds) = Seen(u, View(t, u))
  BY EmittedFacts
<1>2. ToSet(ds) \subseteq Known /\ Known \subseteq Diagnostic
  BY <1>1, EmittedFacts, KnownIsDiagnostic
<1>3. CASE Capture(c)
  <2>1. Captured(c, ds) = ds
    BY <1>3 DEF Captured
  <2>2. Heard(ds)
    BY <1>2 DEF Heard
  <2>3. Told(ds) = Says(Capture(c), u, View(t, u))
    BY <1>1, <1>3 DEF Told, Says, Floor
  <2> QED
    BY <1>1, <2>1, <2>2, <2>3
<1>4. CASE ~ Capture(c)
  <2>1. PICK es \in Seq(Diagnostic) :
            es = AtLeast(ErrorSeverity, ds) /\ ToSet(es) = {d \in ToSet(ds) : d.severity >= ErrorSeverity}
    BY AtLeastFacts DEF ErrorSeverity
  <2>2. Captured(c, ds) = WithoutNotes(es)
    BY <1>4, <2>1 DEF Captured
  <2>3. /\ WithoutNotes(es) \in Seq(Diagnostic)
        /\ ToSet(WithoutNotes(es)) = Above(ErrorSeverity, ToSet(ds))
    BY <2>1, WithoutNotesFacts DEF Above
  <2>4. ASSUME NEW x \in ToSet(WithoutNotes(es))
        PROVE  /\ x \in Diagnostic /\ Bare(x) = x /\ x.severity >= ErrorSeverity
               /\ \E e \in Known : x = Bare(e)
    <3>1. PICK d \in ToSet(ds) : x = Bare(d) /\ d.severity >= ErrorSeverity
      BY <2>3 DEF Above
    <3> QED
      BY <1>2, <3>1, BareFacts
  <2>5. Heard(WithoutNotes(es))
    BY <2>3, <2>4 DEF Heard
  <2>6. \A x \in ToSet(WithoutNotes(es)) : x.severity >= WarningSeverity
    <3>1. ASSUME NEW x \in Diagnostic, x.severity >= ErrorSeverity PROVE x.severity >= WarningSeverity
      BY <3>1 DEF Diagnostic, WarningSeverity, ErrorSeverity
    <3> QED
      BY <2>4, <3>1
  <2>7. Told(WithoutNotes(es)) = ToSet(WithoutNotes(es))
    BY <2>4, <2>6 DEF Told, Above
  <2>8. Says(Capture(c), u, View(t, u)) = Above(ErrorSeverity, ToSet(ds))
    BY <1>1, <1>4 DEF Says, Floor
  <2> QED
    BY <1>1, <2>2, <2>3, <2>5, <2>7, <2>8
<1> QED
  BY <1>3, <1>4

\* What a parse of some units reports: each diagnostic once, and no other.
LEMMA ParsedFacts ==
    ASSUME NEW c \in Configs, NEW t \in Trees, NEW U \in SUBSET Units
    PROVE  /\ Heard(Parsed(t, c, U)) /\ Distinct(Parsed(t, c, U))
           /\ Told(Parsed(t, c, U)) = UNION {Says(Capture(c), u, View(t, u)) : u \in U}
<1> DEFINE Part(i) == IF Inputs[i] \in U THEN Captured(c, Emitted(t, Inputs[i])) ELSE <<>>
           ss == [i \in DOMAIN Inputs |-> Part(i)]
           all == FlattenSeq(ss)
           Own(u) == Captured(c, Emitted(t, u))
<1>1. PICK n \in Nat : DOMAIN Inputs = 1..n
  BY DiagnosticsAssumption
<1>2. \A u \in Units : Heard(Own(u)) /\ Told(Own(u)) = Says(Capture(c), u, View(t, u))
  BY CapturedFacts
<1>3. \A i \in DOMAIN Inputs : Inputs[i] \in Units
  BY DEF Units, ToSet
<1>4. \A i \in DOMAIN Inputs : Part(i) \in Seq(Diagnostic)
  BY <1>2, <1>3 DEF Heard
<1>5. ss \in Seq(Seq(Diagnostic)) /\ DOMAIN ss = DOMAIN Inputs
  <2>1. ss \in [1..n -> Seq(Diagnostic)]
    BY <1>1, <1>4
  <2> QED
    BY <1>1, <2>1
<1>6. all \in Seq(Diagnostic) /\ ToSet(all) = UNION {ToSet(ss[i]) : i \in DOMAIN ss}
  <2> HIDE DEF ss
  <2> QED
    BY <1>5, InFlattened
<1>7. ASSUME NEW d
      PROVE  d \in ToSet(all) <=> \E u \in U : d \in ToSet(Own(u))
  <2>1. ASSUME NEW i \in DOMAIN ss, d \in ToSet(ss[i]) PROVE \E u \in U : d \in ToSet(Own(u))
    <3>1. ss[i] = Part(i)
      BY <1>5
    <3>2. Inputs[i] \in U
      <4>1. ToSet(<<>>) = {}
        BY DEF ToSet
      <4> QED
        BY <2>1, <3>1, <4>1
    <3> QED
      BY <2>1, <3>1, <3>2
  <2>2. ASSUME NEW u \in U, d \in ToSet(Own(u)) PROVE \E i \in DOMAIN ss : d \in ToSet(ss[i])
    <3>1. PICK i \in DOMAIN Inputs : Inputs[i] = u
      BY DEF Units, ToSet
    <3>2. ss[i] = Own(u)
      BY <3>1
    <3> QED
      BY <1>5, <2>2, <3>1, <3>2
  <2> HIDE DEF ss, Own
  <2> QED
    BY <1>6, <2>1, <2>2
<1> HIDE DEF all, ss, Own
<1>8. Heard(all)
  BY <1>2, <1>6, <1>7 DEF Heard
<1>9. Told(all) = UNION {Told(Own(u)) : u \in U}
  BY <1>7 DEF Told, Above
<1>10. UNION {Told(Own(u)) : u \in U} = UNION {Says(Capture(c), u, View(t, u)) : u \in U}
  BY <1>2
<1>11. Parsed(t, c, U) = Merged(all)
  BY DEF Parsed, all, ss
<1> QED
  BY <1>8, <1>9, <1>10, <1>11, MergedTold

\* Lists that share no identity can be appended without a repetition.
LEMMA AppendedDistinct ==
    ASSUME NEW s \in Seq(Diagnostic), NEW r \in Seq(Diagnostic), Distinct(s), Distinct(r),
           Identities(s) \intersect Identities(r) = {}
    PROVE  Distinct(s \o r)
<1>1. PICK m \in Nat : m = Len(s) /\ DOMAIN s = 1..m
  OBVIOUS
<1>2. PICK n \in Nat : n = Len(r) /\ DOMAIN r = 1..n
  OBVIOUS
<1>3. /\ DOMAIN (s \o r) = 1..(m + n)
      /\ \A i \in 1..(m + n) : (s \o r)[i] = IF i <= m THEN s[i] ELSE r[i - m]
  BY <1>1, <1>2
<1>4. ASSUME NEW i \in 1..m, NEW j \in 1..n PROVE Identity(s[i]) # Identity(r[j])
  BY <1>1, <1>2 DEF Identities, ToSet
<1> SUFFICES ASSUME NEW i \in 1..(m + n), NEW j \in 1..(m + n),
                    Identity((s \o r)[i]) = Identity((s \o r)[j])
             PROVE  i = j
  BY <1>3 DEF Distinct
<1>5. CASE i <= m /\ j <= m
  <2>1. i \in 1..m /\ j \in 1..m
    BY <1>5
  <2> QED
    BY <1>1, <1>3, <1>5, <2>1 DEF Distinct
<1>6. CASE i <= m /\ ~ (j <= m)
  <2>1. i \in 1..m /\ j - m \in 1..n
    BY <1>6
  <2> QED
    BY <1>3, <1>4, <1>6, <2>1
<1>7. CASE ~ (i <= m) /\ j <= m
  <2>1. j \in 1..m /\ i - m \in 1..n
    BY <1>7
  <2> QED
    BY <1>3, <1>4, <1>7, <2>1
<1>8. CASE ~ (i <= m) /\ ~ (j <= m)
  <2>1. i - m \in 1..n /\ j - m \in 1..n
    BY <1>8
  <2>2. i - m = j - m
    BY <1>2, <1>3, <1>8, <2>1 DEF Distinct
  <2> QED
    BY <2>2
<1> QED
  BY <1>5, <1>6, <1>7, <1>8

\* What was told, unless it is superseded, and what is told now.
Carry(told, reached, dropped, fresh) ==
    {x \in told : x.file \notin reached \union dropped /\ Identity(x) \notin {Identity(y) : y \in fresh}}
    \union fresh

\* What a partial parse makes of what was told before.
LEMMA CarryForwardFacts ==
    ASSUME NEW old \in Seq(Diagnostic), Distinct(old), NEW ds \in Seq(Diagnostic), Distinct(ds),
           NEW reached, NEW dropped
    PROVE  LET all == CarryForward(old, reached, dropped, ds)
           IN  /\ all \in Seq(Diagnostic) /\ Distinct(all)
               /\ Told(all) = Carry(Told(old), reached, dropped, Told(ds))
               /\ Identities(all) \subseteq Identities(old) \union Identities(ds)
<1>1. PICK fresh \in Seq(Diagnostic) : fresh = WarningsOrWorse(ds)
  BY WarningsFacts
<1>2. ToSet(fresh) = Told(ds) /\ Told(fresh) = Told(ds) /\ Distinct(fresh)
  BY <1>1, WarningsFacts
<1> DEFINE Keeps(d) == d.file \notin reached \union dropped /\ Identity(d) \notin Identities(fresh)
           I == {i \in DOMAIN old : Keeps(old[i])}
<1>3. PICK kept \in Seq(Diagnostic) : kept = Chosen(old, I)
  <2> HIDE DEF I
  <2> QED
    BY ChosenPlaces
<1>4. ToSet(kept) = {d \in ToSet(old) : Keeps(d)}
  <2>1. ToSet(kept) = {old[i] : i \in I \intersect DOMAIN old}
    BY <1>3, ChosenSet
  <2> QED
    BY <2>1 DEF ToSet
<1>5. Distinct(kept)
  <2> HIDE DEF I
  <2> QED
    BY <1>3, ChosenDistinct
<1>6. Merged(kept) \in Seq(Diagnostic) /\ Distinct(Merged(kept)) /\ ToSet(Merged(kept)) = ToSet(kept)
  BY <1>5, MergedFacts
<1>7. PICK mk \in Seq(Diagnostic) : mk = Merged(kept)
  BY <1>6
<1>8. CarryForward(old, reached, dropped, ds) = mk \o fresh
  BY <1>1, <1>3, <1>7 DEF CarryForward
<1>9. mk \o fresh \in Seq(Diagnostic) /\ ToSet(mk \o fresh) = ToSet(mk) \union ToSet(fresh)
  BY ConcatProperties, AppendedSet
<1>10. Identities(mk) \intersect Identities(fresh) = {}
  BY <1>4, <1>6, <1>7 DEF Identities
<1>11. Distinct(mk \o fresh)
  BY <1>2, <1>6, <1>7, <1>10, AppendedDistinct
<1>12. Identities(fresh) = {Identity(y) : y \in Told(ds)}
  BY <1>2 DEF Identities
<1>13. \A d \in ToSet(old) : d \in Diagnostic
  BY DEF ToSet
<1> HIDE DEF I
<1>14. Told(mk) = {x \in Told(old) : Keeps(x)}
  <2>1. ASSUME NEW d \in ToSet(old) PROVE Keeps(Bare(d)) <=> Keeps(d)
    BY <1>13, BareFacts
  <2> HIDE DEF Keeps
  <2> QED
    BY <1>4, <1>6, <1>7, <2>1 DEF Told, Above
<1>15. Told(mk \o fresh) = Told(mk) \union Told(fresh)
  BY <1>9 DEF Told, Above
<1>16. Identities(mk \o fresh) \subseteq Identities(old) \union Identities(ds)
  <2>1. Identities(mk) \subseteq Identities(old)
    BY <1>4, <1>6, <1>7 DEF Identities
  <2>2. \A d \in ToSet(ds) : d \in Diagnostic /\ Identity(Bare(d)) = Identity(d)
    BY BareFacts DEF ToSet
  <2>3. Identities(fresh) \subseteq Identities(ds)
    BY <1>12, <2>2 DEF Identities, Told, Above
  <2>4. Identities(mk \o fresh) = Identities(mk) \union Identities(fresh)
    BY <1>9 DEF Identities
  <2> QED
    BY <2>1, <2>3, <2>4
<1> QED
  BY <1>2, <1>8, <1>9, <1>11, <1>12, <1>14, <1>15, <1>16 DEF Carry

\* What is told without a place is told everywhere, and what is told of a file
\* by every unit that reaches it.
LEMMA ToldAgain ==
    ASSUME Located, HeadersAgree, NEW all, NEW t \in Trees, NEW u \in Units,
           NEW x \in Says(all, u, View(t, u))
    PROVE  /\ x.file = NoFile \/ x.file \in Reached(t, u)
           /\ \A s \in Trees : \A v \in Units :
                  x.file = NoFile \/ (x.file \in Reached(s, v) /\ s[x.file] = t[x.file])
                  => x \in Says(all, v, View(s, v))
<1>1. PICK d \in Seen(u, View(t, u)) : x = Bare(d) /\ d.severity >= Floor(all)
  BY DEF Says, Above
<1>2. d \in Known /\ d \in Diagnostic
  BY EmittedFacts, KnownIsDiagnostic
<1>3. x.file = d.file
  BY <1>1, <1>2, BareFacts
<1>4. CASE d \in ToSet(Everywhere)
  <2>1. x.file = NoFile
    BY <1>3, <1>4, DiagnosticsAssumption
  <2> QED
    BY <1>1, <1>4, <2>1 DEF Says, Above, Seen
<1>5. CASE d \notin ToSet(Everywhere)
  <2>1. PICK f \in Reached(t, u) : d \in ToSet(Problems(u, f, t[f]))
    BY <1>5, ViewFacts DEF Seen
  <2>2. f \in Files /\ t[f] \in Contents(f)
    BY ViewFacts
  <2>3. x.file = f /\ f # NoFile
    BY <1>3, <2>1, <2>2, DiagnosticsAssumption DEF Located
  <2> SUFFICES ASSUME NEW s \in Trees, NEW v \in Units, f \in Reached(s, v), s[f] = t[f]
               PROVE  x \in Says(all, v, View(s, v))
    BY <2>3
  <2>4. Problems(u, f, t[f]) \in Seq(Diagnostic) /\ Problems(v, f, t[f]) \in Seq(Diagnostic)
    BY <2>2, DiagnosticsAssumption
  <2>5. {Bare(e) : e \in ToSet(Problems(u, f, t[f]))} = {Bare(e) : e \in ToSet(Problems(v, f, t[f]))}
    <3>1. /\ ToSet(WithoutNotes(Problems(u, f, t[f]))) = {Bare(e) : e \in ToSet(Problems(u, f, t[f]))}
          /\ ToSet(WithoutNotes(Problems(v, f, t[f]))) = {Bare(e) : e \in ToSet(Problems(v, f, t[f]))}
      BY <2>4, WithoutNotesFacts
    <3>2. ToSet(WithoutNotes(Problems(u, f, t[f]))) = ToSet(WithoutNotes(Problems(v, f, t[f])))
      BY <2>2 DEF HeadersAgree
    <3> QED
      BY <3>1, <3>2
  <2>6. PICK e \in ToSet(Problems(v, f, t[f])) : Bare(e) = x
    BY <1>1, <2>1, <2>5
  <2>7. e \in Seen(v, View(s, v))
    BY <2>6, ViewFacts DEF Seen
  <2>8. e \in Diagnostic
    BY <2>4, <2>6 DEF ToSet
  <2>9. e.severity = d.severity
    BY <1>1, <1>2, <2>6, <2>8, BareFacts
  <2> QED
    BY <1>1, <2>6, <2>7, <2>9 DEF Says, Above
<1> QED
  BY <1>4, <1>5

\* What a parse of some units of a tree reaches and tells, and what a whole one does.
Reach(t, U) == UNION {Reached(t, u) : u \in U}
Fresh(all, t, U) == UNION {Says(all, u, View(t, u)) : u \in U}
Whole(all, t) == Fresh(all, t, Units)

\* What is told is told once.
LEMMA SaysOnce ==
    ASSUME NEW all, NEW s \in Trees, NEW t \in Trees, NEW u \in Units, NEW v \in Units,
           NEW x \in Says(all, u, View(s, u)), NEW y \in Says(all, v, View(t, v)),
           Identity(x) = Identity(y)
    PROVE  x = y
<1>1. PICK d \in Known : x = Bare(d)
  BY EmittedFacts DEF Says, Above
<1>2. PICK e \in Known : y = Bare(e)
  BY EmittedFacts DEF Says, Above
<1>3. Identity(d) = Identity(x) /\ Identity(e) = Identity(y)
  BY <1>1, <1>2, KnownIsDiagnostic, BareFacts
<1> QED
  BY <1>1, <1>2, <1>3, KnownOnce

\* The units U are parsed again, the others see what they saw: with what was told
\* of the rest, that is what a whole parse would tell.
LEMMA CarriedIsWhole ==
    ASSUME Located, HeadersAgree, NEW all, NEW s \in Trees, NEW t \in Trees,
           NEW U \in SUBSET Units, U # {}, \A u \in Units \ U : View(t, u) = View(s, u),
           NEW old, old \subseteq Whole(all, s)
    PROVE  LET told == Carry(old, Reach(t, U), Reach(s, U) \ Reach(s, Units \ U), Fresh(all, t, U))
           IN  /\ told \subseteq Whole(all, t)
               /\ old = Whole(all, s) \/ U = Units => told = Whole(all, t)
<1> DEFINE reached == Reach(t, U)
           dropped == Reach(s, U) \ Reach(s, Units \ U)
           fresh == Fresh(all, t, U)
           told == Carry(old, reached, dropped, fresh)
<1>0. /\ \A f : f \in reached <=> \E u \in U : f \in Reached(t, u)
      /\ \A f : f \in dropped <=> /\ \E u \in U : f \in Reached(s, u)
                                  /\ \A u \in Units \ U : f \notin Reached(s, u)
      /\ \A x : x \in fresh <=> \E u \in U : x \in Says(all, u, View(t, u))
      /\ \A x : x \in told <=> \/ x \in fresh
                               \/ /\ x \in old /\ x.file \notin reached \union dropped
                                  /\ Identity(x) \notin {Identity(y) : y \in fresh}
      /\ \A x, r : x \in Whole(all, r) <=> \E u \in Units : x \in Says(all, u, View(r, u))
  BY DEF Reach, Fresh, Carry, Whole
<1> HIDE DEF reached, dropped, fresh, told
<1>1. \A u \in Units \ U : Reached(t, u) = Reached(s, u) /\ \A f \in Reached(s, u) : s[f] = t[f]
  <2> TAKE u \in Units \ U
  <2>1. View(t, u) = View(s, u)
    OBVIOUS
  <2>2. DOMAIN View(t, u) = Reached(t, u) /\ DOMAIN View(s, u) = Reached(s, u)
    BY ViewFacts
  <2>3. \A f \in Reached(s, u) : View(s, u)[f] = s[f] /\ View(t, u)[f] = t[f]
    BY <2>1, <2>2, ViewFacts
  <2> QED
    BY <2>1, <2>2, <2>3
<1>2. fresh \subseteq Whole(all, t)
  BY <1>0
<1>3. ASSUME NEW x \in told, x \notin fresh
      PROVE  \E v \in Units \ U : x \in Says(all, v, View(t, v))
  <2>1. x \in old /\ x.file \notin reached \union dropped
    BY <1>0, <1>3
  <2>2. PICK u \in Units : x \in Says(all, u, View(s, u))
    BY <1>0, <2>1
  <2>3. CASE u \in U
    <3>1. x \notin Says(all, u, View(t, u))
      BY <1>0, <1>3, <2>3
    <3>2. x.file # NoFile
      BY <2>2, <3>1, ToldAgain
    <3>3. x.file \in Reached(s, u)
      BY <2>2, <3>2, ToldAgain
    <3>4. PICK v \in Units \ U : x.file \in Reached(s, v)
      BY <1>0, <2>1, <2>3, <3>3
    <3>5. x \in Says(all, v, View(t, v))
      BY <1>1, <2>2, <3>4, ToldAgain
    <3> QED
      BY <3>4, <3>5
  <2>4. CASE u \notin U
    BY <2>2, <2>4
  <2> QED
    BY <2>3, <2>4
<1>4. told \subseteq Whole(all, t)
  BY <1>0, <1>2, <1>3
<1>5. ASSUME old = Whole(all, s) \/ U = Units, NEW x \in Whole(all, t), x \notin fresh PROVE x \in told
  <2>1. PICK u \in Units \ U : x \in Says(all, u, View(t, u))
    BY <1>0, <1>5
  <2>2. x \in Says(all, u, View(s, u)) /\ x \in old
    BY <1>0, <1>5, <2>1
  <2>3. Identity(x) \notin {Identity(y) : y \in fresh}
    BY <1>0, <1>5, <2>1, SaysOnce
  <2>4. x.file = NoFile \/ x.file \in Reached(s, u)
    BY <2>2, ToldAgain
  <2>5. x.file # NoFile
    BY <1>0, <1>5, <2>1, ToldAgain
  <2>6. x.file \notin reached
    BY <1>0, <1>1, <1>5, <2>1, <2>2, <2>4, <2>5, ToldAgain
  <2>7. x.file \notin dropped
    BY <1>0, <2>1, <2>4, <2>5
  <2> QED
    BY <1>0, <2>2, <2>3, <2>6, <2>7
<1>6. fresh \subseteq told
  BY <1>0
<1> QED
  BY <1>2, <1>4, <1>5, <1>6 DEF told, reached, dropped, fresh

-----------------------------------------------------------------------------
(* The builds.                                                             *)

Types ==
    /\ tree \in Trees /\ cached \in BOOLEAN /\ gap \in BOOLEAN
    /\ pc \in {"idle", "parse", "log", "record", "render"}
    /\ pc # "idle" => /\ cfg \in Configs /\ result = None
                     /\ plan.units \subseteq Units /\ (plan.whole => plan.units = Units)
    /\ pc = "record" => cached
    /\ result # None => result.cfg \in Configs /\ result.records \in Seq(Diagnostic)
    /\ summary # None => summary \in Seq(Diagnostic)
    /\ previous \in Seq(Diagnostic) /\ records \in Seq(Diagnostic) /\ picture \in Seq(Diagnostic)

\* A plan is of units, and parses a part only over a book of the same capture.
LEMMA PlanTypes ==
    ASSUME NEW c \in Configs
    PROVE  /\ ParsePlan(c).units \subseteq Units /\ (ParsePlan(c).whole => ParsePlan(c).units = Units)
           /\ \/ ParsePlan(c) = Everything
              \/ /\ ParsePlan(c) = Reparse /\ Units # {} /\ ~ c.strict
                 /\ book # None /\ book.fp = Capture(c) /\ (c.log => log # None)
           /\ Everything # Reparse
<1>1. Stale \subseteq Units
  BY DEF Stale
<1> QED
  BY <1>1 DEF ParsePlan, Everything, Reparse

\* The carry-forward of lists is one, with repetitions or without.
LEMMA CarriedType ==
    ASSUME NEW old \in Seq(Diagnostic), NEW ds \in Seq(Diagnostic), NEW reached, NEW dropped
    PROVE  CarryForward(old, reached, dropped, ds) \in Seq(Diagnostic)
<1>1. PICK fresh \in Seq(Diagnostic) : fresh = WarningsOrWorse(ds)
  BY WarningsFacts
<1> DEFINE I == {i \in DOMAIN old : /\ old[i].file \notin reached \union dropped
                                    /\ Identity(old[i]) \notin Identities(fresh)}
<1>2. CarryForward(old, reached, dropped, ds) = Merged(Chosen(old, I)) \o fresh
  BY <1>1 DEF CarryForward
<1> HIDE DEF I
<1>3. Chosen(old, I) \in Seq(Diagnostic)
  BY ChosenPlaces
<1>4. PICK mk \in Seq(Diagnostic) : mk = Merged(Chosen(old, I))
  BY <1>3, MergedFacts
<1> QED
  BY <1>2, <1>4, ConcatProperties

\* An edit leaves a tree.
LEMMA TreeKept ==
    ASSUME tree \in Trees, NEW f \in Files, NEW c \in Contents(f)
    PROVE  [tree EXCEPT ![f] = c] \in Trees
BY DEF Trees

\* Every step keeps the types.
LEMMA TypesStep == Types /\ [Next]_vars => Types'
<1> SUFFICES ASSUME Types, [Next]_vars PROVE Types'
  OBVIOUS
<1> USE DEF Types
<1>0. <<>> \in Seq(Diagnostic)
  OBVIOUS
<1>1. ASSUME NEW c \in Configs, Noop(c) PROVE Types'
  <2>1. result' = [cfg |-> c, cached |-> TRUE, records |-> summary]
    BY <1>1 DEF Noop, Returns
  <2> QED
    BY <1>1, <2>1 DEF Noop, build
<1>2. ASSUME NEW c \in Configs, StartCached(c) PROVE Types'
  BY <1>0, <1>2, PlanTypes DEF StartCached
<1>3. ASSUME NEW c \in Configs, StartPlain(c) PROVE Types'
  BY <1>3 DEF StartPlain, Everything
<1>4. CASE Parse
  <2>1. PICK U \in SUBSET Units : U = plan.units
    BY <1>4 DEF Parse
  <2>2. Heard(Parsed(tree, cfg, U)) /\ Distinct(Parsed(tree, cfg, U))
    BY <1>4, ParsedFacts DEF Parse
  <2>3. PICK ds \in Seq(Diagnostic) : ds = Parsed(tree, cfg, plan.units) /\ Distinct(ds)
    BY <2>1, <2>2 DEF Heard
  <2>4. WarningsOrWorse(ds) \in Seq(Diagnostic)
    BY WarningsFacts
  <2>5. \A r, d : CarryForward(previous, r, d, ds) \in Seq(Diagnostic)
    BY <1>4, CarriedType
  <2>6. records' = ds /\ picture' \in Seq(Diagnostic)
    BY <1>4, <2>3, <2>4, <2>5 DEF Parse
  <2> QED
    BY <1>4, <2>6 DEF Parse
<1>5. CASE WriteLog
  BY <1>5 DEF WriteLog
<1>6. CASE Record
  <2>1. gap' \in BOOLEAN /\ (summary' # None => summary' \in Seq(Diagnostic))
    BY <1>6 DEF Record
  <2> QED
    BY <1>6, <2>1 DEF Record
<1>7. CASE Render
  <2>1. result' = [cfg |-> cfg, cached |-> cached, records |-> picture]
    BY <1>7 DEF Render, Returns
  <2>2. summary' # None => summary' \in Seq(Diagnostic)
    BY <1>7 DEF Render
  <2> QED
    BY <1>0, <1>7, <2>1, <2>2 DEF Render, Idle
<1>8. CASE Fail
  BY <1>0, <1>8 DEF Fail, Idle
<1>9. CASE Edit
  BY <1>9, TreeKept DEF Edit, build
<1>10. CASE LoseLog
  BY <1>10 DEF LoseLog, build
<1>11. CASE LoseCache
  BY <1>11 DEF LoseCache, build
<1>12. CASE UNCHANGED vars
  BY <1>12 DEF vars, build
<1> QED
  BY <1>1, <1>2, <1>3, <1>4, <1>5, <1>6, <1>7, <1>8, <1>9, <1>10, <1>11, <1>12 DEF Next

\* They hold at first.
LEMMA TypesInit == Init => Types
<1>1. <<>> \in Seq(Diagnostic)
  OBVIOUS
<1> QED
  BY <1>1 DEF Init, Types

-----------------------------------------------------------------------------
(* The verdict of a strict build.                                          *)

ThisTree(c) == Parsed(tree, c, Units)

\* A strict build reports what a whole parse of the tree as it is gives, in
\* full or from the warnings up, whatever an earlier build recorded, lost or
\* left in the cache: what its verdict rests on (_parse_status, _report_strict).
StrictIsWhole ==
    result # None /\ result.cfg.strict =>
        result.records \in {ThisTree(result.cfg), WarningsOrWorse(ThisTree(result.cfg))}

\* A strict build that runs parses everything, and has from its parse on what
\* that gave.
StrictInv ==
    /\ pc \in {"idle", "parse", "log", "record", "render"}
    /\ pc # "idle" => cfg \in Configs /\ result = None
    /\ pc # "idle" /\ cfg.strict =>
        /\ plan = Everything
        /\ pc # "parse" => picture \in {ThisTree(cfg), WarningsOrWorse(ThisTree(cfg))}

\* What a build that starts parses: everything if it is strict.
LEMMA StrictPlan == ASSUME NEW c \in Configs, c.strict PROVE ParsePlan(c) = Everything
BY DEF ParsePlan

\* The strict build's part of the invariant is kept by every step.
LEMMA StrictStep ==
    StrictInv /\ StrictIsWhole /\ [Next]_vars => StrictInv' /\ StrictIsWhole'
<1> SUFFICES ASSUME StrictInv, StrictIsWhole, [Next]_vars PROVE StrictInv' /\ StrictIsWhole'
  OBVIOUS
<1> USE DEF StrictInv, StrictIsWhole, ThisTree
<1>1. ASSUME NEW c \in Configs, Noop(c) PROVE StrictInv' /\ StrictIsWhole'
  <2>1. ~ c.strict
    BY <1>1, StrictPlan DEF Noop, Everything
  <2>2. result'.cfg = c
    BY <1>1 DEF Noop, Returns
  <2> QED
    BY <1>1, <2>1, <2>2 DEF Noop, build
<1>2. ASSUME NEW c \in Configs, StartCached(c) PROVE StrictInv' /\ StrictIsWhole'
  BY <1>2, StrictPlan DEF StartCached
<1>3. ASSUME NEW c \in Configs, StartPlain(c) PROVE StrictInv' /\ StrictIsWhole'
  BY <1>3 DEF StartPlain
<1>4. CASE Parse
  <2>1. cfg.strict => plan.whole /\ plan.units = Units
    BY <1>4 DEF Parse, Everything
  <2>2. cfg.strict => picture' \in {ThisTree(cfg), WarningsOrWorse(ThisTree(cfg))}
    BY <1>4, <2>1 DEF Parse
  <2> QED
    BY <1>4, <2>2 DEF Parse
<1>5. CASE WriteLog
  BY <1>5 DEF WriteLog
<1>6. CASE Record
  BY <1>6 DEF Record
<1>7. CASE Render
  BY <1>7 DEF Render, Returns, Idle
<1>8. CASE Fail
  BY <1>8 DEF Fail, Idle
<1>9. CASE Edit
  BY <1>9 DEF Edit, build
<1>10. CASE LoseLog
  BY <1>10 DEF LoseLog, build
<1>11. CASE LoseCache
  BY <1>11 DEF LoseCache, build
<1>12. CASE UNCHANGED vars
  BY <1>12 DEF vars, build
<1> QED
  BY <1>1, <1>2, <1>3, <1>4, <1>5, <1>6, <1>7, <1>8, <1>9, <1>10, <1>11, <1>12 DEF Next

\* Strict builds judge the whole tree as it is.
THEOREM StrictVerdictIsWhole == Spec => []StrictIsWhole
<1>1. Init => StrictInv /\ StrictIsWhole
  BY DEF Init, StrictInv, StrictIsWhole
<1> QED
  BY <1>1, StrictStep, PTL DEF Spec

\* The verdict on a whole parse, in full or from the warnings up.
LEMMA WholeIsHonest == Types /\ StrictIsWhole => StrictHonest
<1> SUFFICES ASSUME Types, StrictIsWhole, result # None, result.cfg.strict
             PROVE  Failed(result) <=> Complete(result) # <<>>
  BY DEF StrictHonest
<1>1. Heard(ThisTree(result.cfg))
  BY ParsedFacts DEF Types, ThisTree
<1>2. PICK ds \in Seq(Diagnostic) : ds = ThisTree(result.cfg)
  BY <1>1 DEF Heard
<1>3. PICK ws \in Seq(Diagnostic) : ws = WarningsOrWorse(ds) /\ ToSet(ws) = Told(ds) /\ Told(ws) = Told(ds)
  BY WarningsFacts
<1>4. WarningsOrWorse(ws) \in Seq(Diagnostic) /\ ToSet(WarningsOrWorse(ws)) = ToSet(ws)
  BY <1>3, WarningsFacts
<1>5. \A s \in Seq(Diagnostic) : s = <<>> <=> ToSet(s) = {}
  <2> TAKE s \in Seq(Diagnostic)
  <2>1. PICK n \in Nat : n = Len(s) /\ DOMAIN s = 1..n
    OBVIOUS
  <2>2. ToSet(s) = {s[i] : i \in 1..n}
    BY <2>1 DEF ToSet
  <2>3. CASE n = 0
    <3>1. s = <<>> /\ 1..n = {}
      BY <2>1, <2>3
    <3> QED
      BY <2>2, <3>1
  <2>4. CASE n # 0
    <3>1. 1 \in 1..n /\ s # <<>>
      BY <2>1, <2>4
    <3> QED
      BY <2>2, <3>1
  <2> QED
    BY <2>3, <2>4
<1>6. WarningsOrWorse(ws) = <<>> <=> ws = <<>>
  BY <1>4, <1>5
<1>7. Complete(result) = ws
  BY <1>2, <1>3 DEF Complete, ThisTree
<1>8. result.records \in {ds, ws}
  BY <1>2, <1>3 DEF StrictIsWhole
<1> QED
  BY <1>3, <1>6, <1>7, <1>8 DEF Failed

\* A strict build fails if and only if the tree has a warning.
THEOREM StrictIsHonest == Spec => []StrictHonest
<1>1. Init => Types /\ StrictInv /\ StrictIsWhole
  BY TypesInit DEF Init, StrictInv, StrictIsWhole
<1>2. Types /\ StrictInv /\ StrictIsWhole /\ [Next]_vars => (Types /\ StrictInv /\ StrictIsWhole)'
  BY TypesStep, StrictStep
<1> QED
  BY <1>1, <1>2, WholeIsHonest, PTL DEF Spec

-----------------------------------------------------------------------------
(* The log.                                                                *)

\* A summary is what the last cached build reported.  A cached build replays or
\* carries forward what was reported, or has it from its own parse, and that is
\* in the log from when it is written.
LogInv ==
    /\ result # None => pc = "idle"
    /\ summary # None => summary = shown
    /\ pc # "idle" /\ cached =>
          /\ Identities(previous) \subseteq Identities(shown)
          /\ cfg.log /\ ~ Parses => log # None
    /\ pc \in {"log", "record", "render"} /\ cached =>
          Identities(picture) \subseteq
              Identities(shown) \union (IF Parses THEN Identities(records) ELSE {})
    /\ pc \in {"record", "render"} /\ cached /\ cfg.log /\ Parses =>
          log # None /\ log.records = records

LogStep == pc' = "idle" /\ result' # None /\ result'.cached /\ result'.cfg.log
           => /\ log' # None
              /\ Identities(result'.records) \ Identities(shown) \subseteq Identities(log'.records)

\* Warnings are what some of the diagnostics are.
LEMMA FreshIdentities ==
    ASSUME NEW ds \in Seq(Diagnostic)
    PROVE  Identities(WarningsOrWorse(ds)) \subseteq Identities(ds)
<1>1. ToSet(WarningsOrWorse(ds)) = Told(ds)
  BY WarningsFacts
<1>2. \A d \in ToSet(ds) : d \in Diagnostic /\ Identity(Bare(d)) = Identity(d)
  BY BareFacts DEF ToSet
<1> QED
  BY <1>1, <1>2 DEF Identities, Told, Above

\* What is carried forward was logged before or has just been said.
LEMMA CarriedIdentities ==
    ASSUME NEW old \in Seq(Diagnostic), NEW ds \in Seq(Diagnostic), NEW reached, NEW dropped
    PROVE  Identities(CarryForward(old, reached, dropped, ds)) \subseteq Identities(old) \union Identities(ds)
<1>1. PICK fresh \in Seq(Diagnostic) : fresh = WarningsOrWorse(ds)
  BY WarningsFacts
<1> DEFINE I == {i \in DOMAIN old : /\ old[i].file \notin reached \union dropped
                                    /\ Identity(old[i]) \notin Identities(fresh)}
<1>2. CarryForward(old, reached, dropped, ds) = Merged(Chosen(old, I)) \o fresh
  BY <1>1 DEF CarryForward
<1> HIDE DEF I
<1>3. PICK kept \in Seq(Diagnostic) : kept = Chosen(old, I) /\ ToSet(kept) \subseteq ToSet(old)
  <2>1. ToSet(Chosen(old, I)) = {old[i] : i \in I \intersect DOMAIN old}
    BY ChosenSet
  <2>2. Chosen(old, I) \in Seq(Diagnostic)
    BY ChosenPlaces
  <2>3. ToSet(Chosen(old, I)) \subseteq ToSet(old)
    BY <2>1 DEF ToSet
  <2> QED
    BY <2>2, <2>3
<1>4. PICK mk \in Seq(Diagnostic) : mk = Merged(kept) /\ ToSet(mk) \subseteq ToSet(kept)
  BY <1>3, MergedFacts
<1>5. ToSet(mk \o fresh) = ToSet(mk) \union ToSet(fresh)
  BY AppendedSet
<1>6. Identities(mk \o fresh) \subseteq Identities(old) \union Identities(fresh)
  BY <1>3, <1>4, <1>5 DEF Identities
<1> QED
  BY <1>1, <1>2, <1>3, <1>4, <1>6, FreshIdentities

\* Every step keeps the invariant of the log.
LEMMA LogInvStep == Types /\ LogInv /\ [Next]_vars => LogInv'
<1> SUFFICES ASSUME Types, LogInv, [Next]_vars PROVE LogInv'
  OBVIOUS
<1> USE DEF LogInv, Parses
<1>1. ASSUME NEW c \in Configs, Noop(c) PROVE LogInv'
  BY <1>1 DEF Noop, Returns, build
<1>2. ASSUME NEW c \in Configs, StartCached(c) PROVE LogInv'
  <2>1. Identities(previous') \subseteq Identities(shown')
    BY <1>2 DEF StartCached, Identities, ToSet
  <2>2. c.log /\ ~ Parses' => log # None
    BY <1>2, PlanTypes DEF StartCached, Everything
  <2> QED
    BY <1>2, <2>1, <2>2 DEF StartCached
<1>3. ASSUME NEW c \in Configs, StartPlain(c) PROVE LogInv'
  BY <1>3 DEF StartPlain
<1>4. CASE Parse
  <2>1. Heard(Parsed(tree, cfg, plan.units))
    BY <1>4, ParsedFacts DEF Parse, Types
  <2>2. PICK ds \in Seq(Diagnostic) : ds = Parsed(tree, cfg, plan.units)
    BY <2>1 DEF Heard
  <2>3. /\ Identities(WarningsOrWorse(ds)) \subseteq Identities(ds)
        /\ \A r, d : Identities(CarryForward(previous, r, d, ds))
                     \subseteq Identities(previous) \union Identities(ds)
    BY FreshIdentities, CarriedIdentities DEF Types
  <2>4. ASSUME cached
        PROVE  Identities(picture') \subseteq
                   Identities(shown) \union (IF Parses THEN Identities(ds) ELSE {})
    <3>1. CASE plan.whole
      BY <1>4, <2>2, <2>3, <2>4, <3>1 DEF Parse
    <3>2. CASE ~ plan.whole /\ plan.units = {}
      BY <1>4, <2>4, <3>2 DEF Parse
    <3>3. CASE ~ plan.whole /\ plan.units # {}
      BY <1>4, <2>2, <2>3, <2>4, <3>3 DEF Parse
    <3> QED
      BY <3>1, <3>2, <3>3
  <2> QED
    BY <1>4, <2>2, <2>4 DEF Parse
<1>5. CASE WriteLog
  <2>1. ASSUME Logs PROVE log' # None /\ log'.records = records
    <3>1. PICK p \in {None} \union SUBSET Units : log' = [partial |-> p, records |-> records]
      BY <1>5, <2>1 DEF WriteLog, Types
    <3>2. log' \in LogFile
      BY <3>1 DEF LogFile, Types
    <3> QED
      BY <3>1, <3>2, DiagnosticsAssumption
  <2> QED
    BY <1>5, <2>1 DEF WriteLog, Logs
<1>6. CASE Record
  BY <1>6 DEF Record
<1>7. CASE Render
  <2>1. summary' # None => summary' = shown'
    BY <1>7 DEF Render, Returns
  <2> QED
    BY <1>7, <2>1 DEF Render, Returns, Idle
<1>8. CASE Fail
  BY <1>8 DEF Fail, Idle
<1>9. CASE Edit
  BY <1>9 DEF Edit, build
<1>10. CASE LoseLog
  BY <1>10 DEF LoseLog, build
<1>11. CASE LoseCache
  BY <1>11 DEF LoseCache, build
<1>12. CASE UNCHANGED vars
  BY <1>12 DEF vars, build
<1> QED
  BY <1>1, <1>2, <1>3, <1>4, <1>5, <1>6, <1>7, <1>8, <1>9, <1>10, <1>11, <1>12 DEF Next

\* Under it, every step tells the log's news.
LEMMA LogToldStep == Types /\ LogInv /\ Next => LogStep
<1> SUFFICES ASSUME Types, LogInv, Next PROVE LogStep
  OBVIOUS
<1>1. ASSUME NEW c \in Configs, Noop(c) PROVE LogStep
  <2>1. result' = [cfg |-> c, cached |-> TRUE, records |-> summary] /\ log' = log /\ summary = shown
    BY <1>1 DEF Noop, Returns, LogInv
  <2>2. c.log => log # None
    <3>1. ParsePlan(c) # Everything
      BY <1>1 DEF Noop, Everything
    <3> QED
      BY <3>1, PlanTypes
  <2> QED
    BY <2>1, <2>2 DEF LogStep
<1>2. CASE Render
  <2>1. result' = [cfg |-> cfg, cached |-> cached, records |-> picture] /\ log' = log /\ pc = "render"
    BY <1>2 DEF Render, Returns
  <2>2. ASSUME cached, cfg.log, Parses PROVE LogStep
    BY <2>1, <2>2 DEF LogStep, LogInv
  <2>3. ASSUME cached, cfg.log, ~ Parses PROVE LogStep
    BY <2>1, <2>3 DEF LogStep, LogInv
  <2> QED
    BY <2>1, <2>2, <2>3 DEF LogStep
<1>3. CASE Fail
  BY <1>3 DEF Fail, LogInv, LogStep
<1>4. CASE Parse \/ WriteLog \/ Record \/ \E c \in Configs : StartCached(c) \/ StartPlain(c)
  BY <1>4 DEF Parse, WriteLog, Record, StartCached, StartPlain, LogStep, Types
<1>5. CASE Edit \/ LoseLog \/ LoseCache
  BY <1>5 DEF Edit, LoseLog, LoseCache, LogStep
<1> QED
  BY <1>1, <1>2, <1>3, <1>4, <1>5 DEF Next

\* The log of a cached build has every warning that was not reported before.
THEOREM LogsTold == Spec => LogTold
<1>1. Init => Types /\ LogInv
  BY TypesInit DEF Init, LogInv
<1>2. Types /\ LogInv /\ [Next]_vars => (Types /\ LogInv)'
  BY TypesStep, LogInvStep
<1>3. Types /\ LogInv /\ [Next]_vars => [LogStep]_vars
  BY LogToldStep
<1> QED
  BY <1>1, <1>2, <1>3, PTL DEF Spec, LogTold, LogStep

-----------------------------------------------------------------------------
(* The picture.                                                            *)

Recorded(t) == book.views = [u \in Units |-> View(t, u)]

\* A list tells each diagnostic once, no other than these, and all if complete.
Reports(ds, all, complete) ==
    Distinct(ds) /\ Told(ds) \subseteq all /\ (complete => Told(ds) = all)

\* What is kept between builds: the bookkeeping is of one tree, and a summary of
\* what that tree tells.
Kept ==
    /\ book = None => summary = None
    /\ book # None =>
        /\ book.fp \in BOOLEAN
        /\ \E t \in Trees : Recorded(t) /\ (summary # None => Reports(summary, Whole(book.fp, t), ~ gap))
        /\ ~ gap /\ ~ (pc = "render" /\ cached) => summary # None
\* A build parses everything, or the units that the bookkeeping has of another tree.
Carried ==
    /\ pc # "idle" /\ ~ cached => plan = Everything
    /\ pc \in {"parse", "log", "record"} /\ cached =>
          plan = Everything \/ (Units # {} /\ plan = Reparse /\ book # None /\ book.fp = Capture(cfg))
    /\ pc = "parse" /\ cached => previous = IF summary = None THEN <<>> ELSE summary
Pictured ==
    pc \in {"log", "record", "render"} =>
        Reports(picture, Whole(Capture(cfg), tree), ~ gap \/ plan.units = Units)
Settled ==
    pc = "render" /\ cached => book # None /\ book.fp = Capture(cfg) /\ Recorded(tree)
Reported ==
    result # None => Reports(result.records, Whole(Capture(result.cfg), tree), ~ gap)

PictureInv == Types /\ Kept /\ Carried /\ Pictured /\ Settled /\ Reported

\* The book of a whole parse is one.
LEMMA BookOf ==
    ASSUME NEW t \in Trees, NEW c \in Configs
    PROVE  Capture(c) \in BOOLEAN /\ [fp |-> Capture(c), views |-> [u \in Units |-> View(t, u)]] # None
<1>1. Capture(c) \in BOOLEAN
  BY DiagnosticsAssumption DEF Capture
<1> DEFINE C == UNION {Contents(f) : f \in Files}
<1>2. ASSUME NEW u \in Units PROVE View(t, u) \in UNION {[F -> C] : F \in SUBSET Files}
  <2>1. Reached(t, u) \in SUBSET Files /\ \A f \in Reached(t, u) : t[f] \in C
    BY ViewFacts
  <2> HIDE DEF C
  <2>2. View(t, u) \in [Reached(t, u) -> C]
    BY <2>1 DEF View
  <2> QED
    BY <2>1, <2>2
<1>3. [fp |-> Capture(c), views |-> [u \in Units |-> View(t, u)]] \in Bookkeeping
  BY <1>1, <1>2 DEF Bookkeeping
<1> QED
  BY <1>1, <1>3, DiagnosticsAssumption

\* A unit that is not stale sees what it saw.
LEMMA NotStale ==
    ASSUME NEW t \in Trees, tree \in Trees, Recorded(t)
    PROVE  \A u \in Units \ Stale : View(tree, u) = View(t, u)
<1> SUFFICES ASSUME NEW u \in Units, u \notin Stale PROVE View(tree, u) = View(t, u)
  OBVIOUS
<1>1. book.views[u] = View(t, u)
  BY DEF Recorded
<1>2. \A f \in Reached(t, u) : t[f] = tree[f]
  BY <1>1, ViewFacts DEF Stale
<1>3. Reached(tree, u) = Reached(t, u)
  BY <1>2, ViewFacts DEF Reached
<1> QED
  BY <1>2, <1>3 DEF View

\* A whole parse reports what there is, in both forms that are stored.
LEMMA ParsedReports ==
    ASSUME NEW c \in Configs, NEW t \in Trees
    PROVE  \A ds \in {Parsed(t, c, Units), WarningsOrWorse(Parsed(t, c, Units))} :
               Reports(ds, Whole(Capture(c), t), TRUE)
<1>1. Heard(Parsed(t, c, Units)) /\ Distinct(Parsed(t, c, Units))
      /\ Told(Parsed(t, c, Units)) = Whole(Capture(c), t)
  BY ParsedFacts DEF Whole, Fresh
<1>2. PICK ds \in Seq(Diagnostic) : ds = Parsed(t, c, Units)
  BY <1>1 DEF Heard
<1>3. Told(WarningsOrWorse(ds)) = Told(ds) /\ Distinct(WarningsOrWorse(ds))
  BY <1>1, <1>2, WarningsFacts
<1> QED
  BY <1>1, <1>2, <1>3 DEF Reports

\* A build that starts from this bookkeeping and re-parses what is stale.
LEMMA CarriedReports ==
    ASSUME Located, HeadersAgree, tree \in Trees, NEW t \in Trees, Recorded(t),
           NEW c \in Configs, NEW old \in Seq(Diagnostic), NEW complete \in BOOLEAN,
           Reports(old, Whole(Capture(c), t), complete), Stale # {}
    PROVE  Reports(CarryForward(old, UNION {Reached(tree, u) : u \in Stale}, OnlyFrom(Stale),
                                Parsed(tree, c, Stale)),
                   Whole(Capture(c), tree), complete \/ Stale = Units)
<1>1. PICK U \in SUBSET Units : U = Stale
  BY DEF Stale
<1>2. Heard(Parsed(tree, c, U)) /\ Distinct(Parsed(tree, c, U))
      /\ Told(Parsed(tree, c, U)) = Fresh(Capture(c), tree, U)
  BY ParsedFacts DEF Fresh
<1>3. PICK ds \in Seq(Diagnostic) : ds = Parsed(tree, c, U)
  BY <1>2 DEF Heard
<1>4. OnlyFrom(U) = Reach(t, U) \ Reach(t, Units \ U)
  <2>1. \A u \in Units : DOMAIN book.views[u] = Reached(t, u)
    BY ViewFacts DEF Recorded
  <2>2. UNION {DOMAIN book.views[u] : u \in U} = Reach(t, U)
    BY <2>1 DEF Reach
  <2>3. UNION {DOMAIN book.views[u] : u \in Units \ U} = Reach(t, Units \ U)
    BY <2>1 DEF Reach
  <2> QED
    BY <2>2, <2>3 DEF OnlyFrom
<1>5. PICK told : told = CarryForward(old, Reach(tree, U), OnlyFrom(U), ds)
  OBVIOUS
<1>6. /\ Distinct(told)
      /\ Told(told) = Carry(Told(old), Reach(tree, U), OnlyFrom(U), Fresh(Capture(c), tree, U))
  BY <1>2, <1>3, <1>5, CarryForwardFacts DEF Reports
<1>7. \A u \in Units \ U : View(tree, u) = View(t, u)
  BY <1>1, NotStale
<1>8. PICK before : before = Told(old) /\ before \subseteq Whole(Capture(c), t)
  BY DEF Reports
<1>9. /\ Told(told) \subseteq Whole(Capture(c), tree)
      /\ before = Whole(Capture(c), t) \/ U = Units => Told(told) = Whole(Capture(c), tree)
  <2>1. PICK b : b = Capture(c)
    OBVIOUS
  <2>2. PICK s \in Trees : s = tree
    OBVIOUS
  <2>3. U # {} /\ U \in SUBSET Units /\ \A u \in Units \ U : View(s, u) = View(t, u)
    BY <1>1, <1>7, <2>2
  <2>4. before \subseteq Whole(b, t)
    BY <1>8, <2>1
  <2>5. /\ Carry(before, Reach(s, U), Reach(t, U) \ Reach(t, Units \ U), Fresh(b, s, U)) \subseteq Whole(b, s)
        /\ before = Whole(b, t) \/ U = Units =>
             Carry(before, Reach(s, U), Reach(t, U) \ Reach(t, Units \ U), Fresh(b, s, U)) = Whole(b, s)
    BY <2>3, <2>4, CarriedIsWhole, Located, HeadersAgree, s \in Trees, t \in Trees
  <2> QED
    BY <1>4, <1>6, <1>8, <2>1, <2>2, <2>5
<1> QED
  BY <1>1, <1>3, <1>5, <1>6, <1>8, <1>9 DEF Reports, Reach

\* The invariant holds at first.
LEMMA PictureInit == Init => PictureInv
BY TypesInit DEF Init, PictureInv, Kept, Carried, Pictured, Settled, Reported

\* The bookkeeping of the tree as it is, where nothing is stale.
LEMMA NothingStale ==
    ASSUME NEW t \in Trees, tree \in Trees, Recorded(t), Stale = {}
    PROVE  Recorded(tree) /\ \A all : Whole(all, t) = Whole(all, tree)
<1>1. \A u \in Units : View(tree, u) = View(t, u)
  BY NotStale
<1> QED
  BY <1>1 DEF Recorded, Whole, Fresh

\* An empty list reports whatever may be left out.
LEMMA EmptyReports ==
    ASSUME NEW all
    PROVE  Reports(<<>>, all, FALSE)
BY DEF Reports, Distinct, Told, Above, ToSet

\* A build with nothing to do leaves book and log in step.
LEMMA PictureOfNoop ==
    ASSUME PictureInv, NEW c \in Configs, Noop(c)
    PROVE  PictureInv'
<1> USE DEF PictureInv
<1>1. Types'
  BY TypesStep DEF Next
<1>2. /\ result' = [cfg |-> c, cached |-> TRUE, records |-> summary] /\ pc = "idle" /\ summary # None
      /\ UNCHANGED <<tree, book, summary, log, pc, cfg, cached, plan, previous, records, picture, gap>>
  BY <1>1 DEF Noop, Returns, build
<1>3. ParsePlan(c) = Reparse /\ book # None /\ book.fp = Capture(c) /\ Stale = {}
  <2>1. ParsePlan(c) = [whole |-> FALSE, units |-> {}]
    BY DEF Noop
  <2>2. ParsePlan(c) # Everything
    BY <2>1 DEF Everything
  <2>3. ParsePlan(c) = Reparse /\ book # None /\ book.fp = Capture(c)
    BY <2>2, PlanTypes
  <2>4. Stale = {}
    BY <2>1, <2>3 DEF Reparse
  <2> QED
    BY <2>3, <2>4
<1>4. PICK t \in Trees : Recorded(t) /\ Reports(summary, Whole(book.fp, t), ~ gap)
  BY <1>2, <1>3 DEF Kept
<1>5. Whole(book.fp, t) = Whole(Capture(c), tree)
  BY <1>3, <1>4, NothingStale DEF Types
<1>6. Reports(summary, Whole(Capture(c), tree), ~ gap)
  BY <1>4, <1>5
<1>7. Reported'
  BY <1>2, <1>6 DEF Reported
<1>8. Kept' /\ Carried' /\ Pictured' /\ Settled'
  BY <1>2 DEF Kept, Carried, Pictured, Settled, Recorded, Reparse, Stale
<1> QED
  BY <1>1, <1>7, <1>8

\* A parse sets out what the log will be: the old part carried, the new part read.
LEMMA PictureOfParse ==
    ASSUME Located, HeadersAgree, PictureInv, Parse
    PROVE  PictureInv'
<1> USE DEF PictureInv
<1>1. Types'
  BY TypesStep DEF Next
<1>2. /\ pc = "parse" /\ pc' = "log" /\ cfg \in Configs /\ tree \in Trees /\ previous \in Seq(Diagnostic)
      /\ UNCHANGED <<tree, book, summary, log, cfg, cached, plan, previous, result, shown, gap>>
  BY DEF Parse, Types
<1> DEFINE Good == Reports(picture', Whole(Capture(cfg), tree), ~ gap \/ plan.units = Units)
<1>3. ASSUME plan = Everything PROVE Good
  <2>1. picture' \in {Parsed(tree, cfg, Units), WarningsOrWorse(Parsed(tree, cfg, Units))}
    BY <1>3 DEF Parse, Everything
  <2>2. Reports(picture', Whole(Capture(cfg), tree), TRUE)
    BY <1>2, <2>1, ParsedReports
  <2> QED
    BY <2>2 DEF Reports
<1>4. ASSUME plan # Everything PROVE Good
  <2>1. cached /\ plan = Reparse /\ Units # {} /\ book # None /\ book.fp = Capture(cfg)
        /\ previous = IF summary = None THEN <<>> ELSE summary
    BY <1>2, <1>4 DEF Carried
  <2>2. PICK t \in Trees :
            Recorded(t) /\ (summary # None => Reports(summary, Whole(Capture(cfg), t), ~ gap))
    BY <2>1 DEF Kept
  <2>3. ~ gap => summary # None
    BY <1>2, <2>1 DEF Kept
  <2>4. Reports(previous, Whole(Capture(cfg), t), ~ gap)
    <3>1. CASE summary # None
      BY <2>1, <2>2, <3>1
    <3>2. CASE summary = None
      BY <2>1, <2>3, <3>2, EmptyReports DEF Reports
    <3> QED
      BY <3>1, <3>2
  <2>5. plan.units = Stale /\ ~ plan.whole
    BY <2>1 DEF Reparse
  <2>6. ASSUME Stale = {} PROVE Good
    <3>1. picture' = previous
      BY <2>1, <2>5, <2>6 DEF Parse, Parses
    <3>2. Whole(Capture(cfg), t) = Whole(Capture(cfg), tree)
      BY <1>2, <2>2, <2>6, NothingStale
    <3>3. plan.units # Units
      BY <2>1, <2>5, <2>6
    <3> QED
      BY <2>4, <3>1, <3>2, <3>3 DEF Reports
  <2>7. ASSUME Stale # {} PROVE Good
    <3>1. picture' = CarryForward(previous, UNION {Reached(tree, u) : u \in Stale}, OnlyFrom(Stale),
                                  Parsed(tree, cfg, Stale))
      BY <2>1, <2>5, <2>7 DEF Parse, Parses
    <3>2. (~ gap) \in BOOLEAN
      OBVIOUS
    <3>3. Reports(picture', Whole(Capture(cfg), tree), ~ gap \/ Stale = Units)
      BY <1>2, <2>2, <2>4, <2>7, <3>1, <3>2, CarriedReports
    <3> QED
      BY <2>5, <3>3
  <2> QED
    BY <2>6, <2>7
<1>5. Good
  BY <1>3, <1>4
<1>6. Pictured'
  BY <1>2, <1>5 DEF Pictured
<1>7. Kept' /\ Carried' /\ Settled' /\ Reported'
  BY <1>2 DEF Kept, Carried, Settled, Reported, Recorded, Reparse, Stale, Types
<1> QED
  BY <1>1, <1>6, <1>7

\* Recording brings the book to where the parse was.
LEMMA PictureOfRecord ==
    ASSUME PictureInv, Record
    PROVE  PictureInv'
<1> USE DEF PictureInv
<1>1. Types'
  BY TypesStep DEF Next
<1>2. /\ pc = "record" /\ pc' = "render" /\ cfg \in Configs /\ tree \in Trees
      /\ plan.units \subseteq Units
      /\ UNCHANGED <<tree, log, cfg, cached, plan, previous, records, picture, result, shown>>
  BY DEF Record, Types
<1>3. Reported' /\ Carried'
  BY <1>2 DEF Reported, Carried, Types
<1>4. cached
  BY <1>2 DEF Types
<1>5. gap' = (IF Parses THEN gap /\ plan.units # Units ELSE gap)
  BY DEF Record
<1>6. Pictured'
  BY <1>2, <1>5 DEF Pictured, Reports, Types
<1>7. ASSUME ~ Parses PROVE Kept' /\ Settled'
  <2>1. UNCHANGED <<book, summary, gap>>
    BY <1>7 DEF Record
  <2>2. plan = Reparse /\ book # None /\ book.fp = Capture(cfg) /\ Stale = {}
    <3>1. plan # Everything
      BY <1>7 DEF Everything, Parses
    <3>2. plan = Reparse /\ book # None /\ book.fp = Capture(cfg)
      BY <1>2, <1>4, <3>1 DEF Carried
    <3> QED
      BY <1>7, <3>2 DEF Reparse, Parses
  <2>3. Recorded(tree)
    BY <1>2, <2>2, NothingStale DEF Kept
  <2>4. Kept'
    BY <1>2, <2>1 DEF Kept, Recorded
  <2> QED
    BY <1>2, <2>1, <2>2, <2>3, <2>4 DEF Settled, Recorded
<1>8. ASSUME Parses PROVE Kept' /\ Settled'
  <2>1. ASSUME NEW u \in Units, u \notin plan.units PROVE book.views[u] = View(tree, u)
    <3>1. plan = Reparse /\ book # None
      BY <1>2, <1>4, <2>1 DEF Carried, Everything
    <3>2. PICK t \in Trees : Recorded(t)
      BY <3>1 DEF Kept
    <3>3. View(tree, u) = View(t, u)
      BY <1>2, <2>1, <3>1, <3>2, NotStale DEF Reparse
    <3> QED
      BY <3>2, <3>3 DEF Recorded
  <2>2. book' = [fp |-> Capture(cfg), views |-> [u \in Units |-> View(tree, u)]] /\ summary' = None
    BY <1>8, <2>1 DEF Record
  <2>3. book' # None /\ book'.fp = Capture(cfg) /\ Capture(cfg) \in BOOLEAN
    BY <1>2, <2>2, BookOf
  <2>4. Recorded(tree)'
    BY <1>2, <2>2 DEF Recorded
  <2>5. Settled'
    BY <1>2, <2>3, <2>4 DEF Settled
  <2>6. \E t \in Trees : Recorded(t)'
    BY <1>2, <2>4 DEF Recorded
  <2> QED
    BY <1>2, <1>4, <2>2, <2>3, <2>5, <2>6 DEF Kept
<1> QED
  BY <1>1, <1>3, <1>6, <1>7, <1>8

\* Rendering writes the log that the parse set out.
LEMMA PictureOfRender ==
    ASSUME PictureInv, Render
    PROVE  PictureInv'
<1> USE DEF PictureInv
<1>1. Types'
  BY TypesStep DEF Next
<1>2. /\ pc = "render" /\ pc' = "idle" /\ cached' = FALSE /\ cfg \in Configs /\ tree \in Trees
      /\ result' = [cfg |-> cfg, cached |-> cached, records |-> picture]
      /\ summary' = (IF cached THEN picture ELSE summary)
      /\ UNCHANGED <<tree, book, log, gap>>
  BY DEF Render, Returns, Idle, Types
<1>3. Reports(picture, Whole(Capture(cfg), tree), ~ gap)
  BY <1>2 DEF Pictured, Reports
<1>4. Reported' /\ Carried' /\ Pictured' /\ Settled'
  BY <1>2, <1>3 DEF Reported, Carried, Pictured, Settled
<1>5. ASSUME cached PROVE Kept'
  <2>1. book # None /\ book.fp = Capture(cfg) /\ Recorded(tree) /\ Recorded(tree)' /\ Capture(cfg) \in BOOLEAN
    BY <1>2, <1>5, BookOf DEF Settled, Recorded
  <2>2. summary' # None /\ summary' = picture
    BY <1>2, <1>5, DiagnosticsAssumption DEF Types
  <2>3. \E t \in Trees : Recorded(t)' /\ Reports(picture, Whole(Capture(cfg), t), ~ gap)
    BY <1>2, <1>3, <2>1 DEF Recorded
  <2> QED
    BY <1>2, <2>1, <2>2, <2>3 DEF Kept
<1>6. ASSUME ~ cached PROVE Kept'
  BY <1>2, <1>6 DEF Kept, Recorded
<1> QED
  BY <1>1, <1>4, <1>5, <1>6

\* So every step keeps the invariant.
LEMMA PictureStep ==
    ASSUME Located, HeadersAgree
    PROVE  PictureInv /\ [Next]_vars => PictureInv'
<1> SUFFICES ASSUME PictureInv, [Next]_vars PROVE PictureInv'
  OBVIOUS
<1> USE DEF PictureInv
<1>0. Types'
  BY TypesStep
<1>1. ASSUME NEW c \in Configs, Noop(c) PROVE PictureInv'
  BY <1>1, PictureOfNoop
<1>2. ASSUME NEW c \in Configs, StartCached(c) PROVE PictureInv'
  <2>1. pc' = "parse" /\ cfg' = c /\ plan' = ParsePlan(c) /\ result' = None
        /\ previous' = (IF summary = None THEN <<>> ELSE summary)
        /\ pc = "idle" /\ cached' = TRUE /\ UNCHANGED <<tree, book, summary, gap>>
    BY <1>2 DEF StartCached
  <2>2. ParsePlan(c) = Everything
        \/ (Units # {} /\ ParsePlan(c) = Reparse /\ book # None /\ book.fp = Capture(c))
    BY PlanTypes
  <2>3. Everything' = Everything /\ Reparse' = Reparse
    BY <2>1 DEF Everything, Reparse, Stale
  <2>4. Carried'
    BY <2>1, <2>2, <2>3 DEF Carried
  <2> QED
    BY <1>0, <2>1, <2>4 DEF Kept, Pictured, Settled, Reported, Recorded
<1>3. ASSUME NEW c \in Configs, StartPlain(c) PROVE PictureInv'
  <2>1. pc' = "parse" /\ cached' = FALSE /\ plan' = Everything /\ result' = None
        /\ pc = "idle" /\ UNCHANGED <<tree, book, summary, gap>>
    BY <1>3 DEF StartPlain
  <2> QED
    BY <1>0, <2>1 DEF Kept, Carried, Pictured, Settled, Reported, Recorded, Everything
<1>4. CASE Parse
  BY <1>4, PictureOfParse
<1>5. CASE WriteLog
  <2>1. pc = "log" /\ pc' = (IF cached THEN "record" ELSE "render")
        /\ UNCHANGED <<tree, book, summary, cfg, cached, plan, picture, result, gap>>
    BY <1>5 DEF WriteLog
  <2>2. Everything' = Everything /\ Reparse' = Reparse
    BY <2>1 DEF Everything, Reparse, Stale
  <2> QED
    BY <1>0, <2>1, <2>2 DEF Kept, Carried, Pictured, Settled, Reported, Recorded
<1>6. CASE Record
  BY <1>6, PictureOfRecord
<1>7. CASE Render
  BY <1>7, PictureOfRender
<1>8. CASE Fail
  <2>1. pc # "idle" /\ pc' = "idle" /\ cached' = FALSE /\ UNCHANGED <<tree, book, summary, result>>
        /\ gap' = (gap \/ (pc = "render" /\ cached /\ summary = None))
    BY <1>8 DEF Fail, Idle
  <2>2. Kept'
    BY <2>1 DEF Kept, Recorded, Reports
  <2> QED
    BY <1>0, <2>1, <2>2 DEF Carried, Pictured, Settled, Reported, Types
<1>9. CASE Edit
  <2>1. pc = "idle" /\ result' = None /\ UNCHANGED <<book, summary, gap, pc, cached>>
    BY <1>9 DEF Edit, build
  <2> QED
    BY <1>0, <2>1 DEF Kept, Carried, Pictured, Settled, Reported, Recorded
<1>10. CASE LoseLog
  BY <1>0, <1>10 DEF LoseLog, build, Kept, Carried, Pictured, Settled, Reported, Recorded
<1>11. CASE LoseCache
  BY <1>0, <1>11 DEF LoseCache, build, Kept, Carried, Pictured, Settled, Reported
<1>12. CASE UNCHANGED vars
  BY <1>0, <1>12 DEF vars, Kept, Carried, Pictured, Settled, Reported, Recorded, Everything, Reparse, Stale
<1> QED
  BY <1>1, <1>2, <1>3, <1>4, <1>5, <1>6, <1>7, <1>8, <1>9, <1>10, <1>11, <1>12 DEF Next

\* The invariant says the property.
LEMMA PictureFromInv == PictureInv => Picture
<1> SUFFICES ASSUME PictureInv, result # None PROVE Picture
  BY DEF Picture
<1>1. PICK ds \in Seq(Diagnostic) : ds = result.records
  BY DEF PictureInv, Types
<1>2. Reports(ds, Whole(Capture(result.cfg), tree), ~ gap)
  BY <1>1 DEF PictureInv, Reported
<1>3. Distinct(WarningsOrWorse(ds)) /\ ToSet(WarningsOrWorse(ds)) = Told(ds)
  BY <1>2, WarningsFacts DEF Reports
<1>4. Heard(Parsed(tree, result.cfg, Units))
      /\ Told(Parsed(tree, result.cfg, Units)) = Whole(Capture(result.cfg), tree)
  BY ParsedFacts DEF PictureInv, Types, Whole, Fresh
<1>5. ToSet(Complete(result)) = Whole(Capture(result.cfg), tree)
  BY <1>4, WarningsFacts DEF Complete, Heard
<1> QED
  BY <1>1, <1>2, <1>3, <1>5 DEF Picture, Distinct, Reports

\* Any build reports what a whole parse would, each diagnostic once, as long as
\* no death has lost a summary (_carry_forward_diagnostics, _noop_result).
THEOREM ReportsPicture ==
    ASSUME Located, HeadersAgree
    PROVE  Spec => []Picture
BY PictureInit, PictureStep, PictureFromInv, PTL DEF Spec
=============================================================================
