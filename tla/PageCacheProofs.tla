--------------------------- MODULE PageCacheProofs ---------------------------
(***************************************************************************)
(* Page planning and replay, for any projects, names and configurations.   *)
(*                                                                         *)
(* A plan's stems are files of their own.  A page is named for its file or *)
(* for the symbol that heads it, and its fingerprint is a list of tokens   *)
(* that can be told apart by their heads, so the fingerprint fixes the     *)
(* body of its text; what is replayed under it is what would be rendered.  *)
(*                                                                         *)
(* Under every grouping the pages show each symbol once, and the toctrees  *)
(* list each page once: the symbols are a forest, the pages of siblings    *)
(* show different trees of it, and the page that lists one comes later.    *)
(***************************************************************************)
EXTENDS PageCache, ListsProofs, FiniteSetTheorems

-----------------------------------------------------------------------------
(* Sorting.                                                                *)

\* Lists of numbers are ordered strictly,
LEMMA LessIsStrict ==
    ASSUME NEW x \in Seq(Nat)
    PROVE  ~ Less(x, x)
BY DEF Less

\* and transitively.
LEMMA LessIsTransitive ==
    ASSUME NEW x \in Seq(Nat), NEW y \in Seq(Nat), NEW z \in Seq(Nat), Less(x, y), Less(y, z)
    PROVE  Less(x, z)
<1>1. PICK i \in 1..Len(y) : /\ \A j \in 1..(i - 1) : j <= Len(x) /\ x[j] = y[j]
                             /\ i > Len(x) \/ x[i] < y[i]
  BY DEF Less
<1>2. PICK k \in 1..Len(z) : /\ \A j \in 1..(k - 1) : j <= Len(y) /\ y[j] = z[j]
                             /\ k > Len(y) \/ y[k] < z[k]
  BY DEF Less
<1>3. CASE i <= k
  <2>1. \A j \in 1..(i - 1) : j <= Len(x) /\ x[j] = z[j]
    BY <1>1, <1>2, <1>3
  <2>2. i \in 1..Len(z)
    BY <1>3
  <2>3. i > Len(x) \/ x[i] < z[i]
    BY <1>1, <1>2, <1>3
  <2> QED
    BY <2>1, <2>2, <2>3 DEF Less
<1>4. CASE k < i
  <2>1. \A j \in 1..(k - 1) : j <= Len(x) /\ x[j] = z[j]
    BY <1>1, <1>2, <1>4
  <2>2. k <= Len(x) /\ x[k] = y[k] /\ k <= Len(y)
    BY <1>1, <1>4
  <2>3. x[k] < z[k]
    BY <1>2, <2>2
  <2> QED
    BY <2>1, <2>3 DEF Less
<1> QED
  BY <1>3, <1>4

\* Two lists that are not ordered are one.
LEMMA LessIsTotal ==
    ASSUME NEW x \in Seq(Nat), NEW y \in Seq(Nat), ~ Less(x, y), ~ Less(y, x)
    PROVE  x = y
<1> DEFINE Same(i) == i <= Len(x) /\ i <= Len(y) /\ x[i] = y[i]
           D == {i \in Nat \ {0} : (i <= Len(x) \/ i <= Len(y)) /\ ~ Same(i)}
<1>1. ASSUME D # {} PROVE FALSE
  <2>1. PICK i \in D : \A j \in D : ~ (<<j, i>> \in OpToRel(<, Nat))
    <3>1. D \subseteq Nat
      OBVIOUS
    <3> HIDE DEF D
    <3> QED
      BY <1>1, <3>1, NatLessThanWellFounded, WFMin
  <2>2. \A j \in D : ~ (j < i)
    BY <2>1 DEF OpToRel
  <2>3. \A j \in 1..(i - 1) : Same(j)
    <3> SUFFICES ASSUME NEW j \in 1..(i - 1), ~ Same(j) PROVE FALSE
      OBVIOUS
    <3>1. j \in Nat \ {0} /\ j < i
      OBVIOUS
    <3>2. j \notin D
      BY <2>2, <3>1
    <3>3. i <= Len(x) \/ i <= Len(y)
      OBVIOUS
    <3> QED
      BY <3>1, <3>2, <3>3
  <2>4. CASE i <= Len(y) /\ (i > Len(x) \/ x[i] < y[i])
    BY <2>3, <2>4 DEF Less
  <2>5. CASE i <= Len(x) /\ (i > Len(y) \/ y[i] < x[i])
    BY <2>3, <2>5 DEF Less
  <2>6. \/ i <= Len(y) /\ (i > Len(x) \/ x[i] < y[i])
        \/ i <= Len(x) /\ (i > Len(y) \/ y[i] < x[i])
    BY <2>3
  <2> QED
    BY <2>4, <2>5, <2>6
<1>2. Len(x) = Len(y)
  <2>1. Len(x) < Len(y) => Len(x) + 1 \in D
    OBVIOUS
  <2>2. Len(y) < Len(x) => Len(y) + 1 \in D
    OBVIOUS
  <2> HIDE DEF D
  <2> QED
    BY <1>1, <2>1, <2>2
<1>3. \A i \in 1..Len(x) : x[i] = y[i]
  <2> SUFFICES ASSUME NEW i \in 1..Len(x), x[i] # y[i] PROVE FALSE
    OBVIOUS
  <2>1. i \in D
    OBVIOUS
  <2> QED
    BY <1>1, <2>1
<1> QED
  BY <1>2, <1>3, SeqEqual

\* So places are.
LEMMA BeforeIsStrict ==
    ASSUME NEW n \in Nat, NEW keys \in [1..n -> Seq(Nat)]
    PROVE  /\ \A i \in 1..n : ~ Before(keys, i, i)
           /\ \A i, j \in 1..n : i # j => Before(keys, i, j) \/ Before(keys, j, i)
           /\ \A i, j, k \in 1..n : Before(keys, i, j) /\ Before(keys, j, k) => Before(keys, i, k)
<1>1. \A i \in 1..n : keys[i] \in Seq(Nat) /\ ~ Less(keys[i], keys[i])
  BY LessIsStrict
<1>2. \A i \in 1..n : ~ Before(keys, i, i)
  BY <1>1 DEF Before
<1>3. \A i, j \in 1..n : i # j => Before(keys, i, j) \/ Before(keys, j, i)
  BY DEF Before
<1>4. ASSUME NEW i \in 1..n, NEW j \in 1..n, NEW k \in 1..n, Before(keys, i, j), Before(keys, j, k)
      PROVE  Before(keys, i, k)
  <2>1. PICK x \in Seq(Nat) : x = keys[i]
    BY <1>1
  <2>2. PICK y \in Seq(Nat) : y = keys[j]
    BY <1>1
  <2>3. PICK z \in Seq(Nat) : z = keys[k]
    BY <1>1
  <2>4. Less(x, y) \/ (x = y /\ i < j)
    BY <1>4, <2>1, <2>2, LessIsTotal DEF Before
  <2>5. Less(y, z) \/ (y = z /\ j < k)
    BY <1>4, <2>2, <2>3, LessIsTotal DEF Before
  <2>6. Less(x, z) \/ (x = z /\ i < k)
    BY <2>4, <2>5, LessIsTransitive
  <2>7. x = z => ~ Less(z, x)
    BY LessIsStrict
  <2> QED
    BY <2>1, <2>3, <2>6, <2>7 DEF Before
<1> QED
  BY <1>2, <1>3, <1>4

\* Every place is taken, by one entry.
LEMMA PlacesAreTaken ==
    ASSUME NEW n \in Nat, NEW keys \in [1..n -> Seq(Nat)]
    PROVE  /\ \A i, j \in 1..n : PlaceOf(keys, i) = PlaceOf(keys, j) => i = j
           /\ \A k \in 1..n : \E i \in 1..n : PlaceOf(keys, i) = k
           /\ \A i \in 1..n : PlaceOf(keys, i) \in 1..n
<1> DEFINE D == 1..n
           Earlier(i) == {j \in D : Before(keys, j, i)}
<1>1. IsFiniteSet(D) /\ Cardinality(D) = n
  <2>1. IsFiniteSet(1..n) /\ Cardinality(1..n) = IF 1 > n THEN 0 ELSE n - 1 + 1
    BY FS_Interval
  <2> QED
    BY <2>1
<1>2. ASSUME NEW i \in D
      PROVE  /\ IsFiniteSet(Earlier(i)) /\ PlaceOf(keys, i) = Cardinality(Earlier(i)) + 1
             /\ Cardinality(Earlier(i)) \in Nat /\ PlaceOf(keys, i) \in D
  <2>1. Earlier(i) \subseteq D \ {i}
    BY BeforeIsStrict
  <2>2. IsFiniteSet(D \ {i}) /\ Cardinality(D \ {i}) = n - 1
    BY <1>1, FS_RemoveElement
  <2>3. IsFiniteSet(Earlier(i)) /\ Cardinality(Earlier(i)) <= n - 1
    BY <2>1, <2>2, FS_Subset
  <2>4. Cardinality(Earlier(i)) \in Nat
    BY <2>3, FS_CardinalityType
  <2>5. PlaceOf(keys, i) = Cardinality(Earlier(i)) + 1
    BY DEF PlaceOf
  <2> HIDE DEF Earlier
  <2> QED
    BY <2>3, <2>4, <2>5
<1>3. ASSUME NEW i \in D, NEW j \in D, Before(keys, i, j)
      PROVE  Cardinality(Earlier(i)) < Cardinality(Earlier(j))
  <2>1. Earlier(i) \union {i} \subseteq Earlier(j)
    BY <1>3, BeforeIsStrict
  <2>2. i \notin Earlier(i)
    BY BeforeIsStrict
  <2> HIDE DEF Earlier, D
  <2>3. /\ IsFiniteSet(Earlier(i) \union {i})
        /\ Cardinality(Earlier(i) \union {i}) = Cardinality(Earlier(i)) + 1
    BY <1>2, <2>2, FS_AddElement
  <2>4. Cardinality(Earlier(i) \union {i}) <= Cardinality(Earlier(j))
    BY <1>2, <2>1, FS_Subset
  <2> QED
    BY <1>2, <2>3, <2>4
<1>4. \A i, j \in D : PlaceOf(keys, i) = PlaceOf(keys, j) => i = j
  <2> HIDE DEF Earlier
  <2> SUFFICES ASSUME NEW i \in D, NEW j \in D, PlaceOf(keys, i) = PlaceOf(keys, j), i # j
               PROVE  FALSE
    OBVIOUS
  <2>1. Before(keys, i, j) \/ Before(keys, j, i)
    BY BeforeIsStrict
  <2>2. Cardinality(Earlier(i)) = Cardinality(Earlier(j))
    BY <1>2
  <2> QED
    BY <1>2, <1>3, <2>1, <2>2
<1>5. \A k \in D : \E i \in D : PlaceOf(keys, i) = k
  <2> DEFINE f == [i \in D |-> PlaceOf(keys, i)]
  <2>1. f \in Injection(D, D)
    <3>1. f \in [D -> D]
      BY <1>2
    <3> QED
      BY <1>4, <3>1 DEF Injection, IsInjective
  <2>2. f \in Surjection(D, D)
    <3> HIDE DEF f
    <3> QED
      BY <1>1, <2>1, FS_Injection
  <2> QED
    BY <2>2 DEF Surjection
<1>6. \A i \in D : PlaceOf(keys, i) \in D
  BY <1>2
<1> QED
  BY <1>4, <1>5, <1>6

\* A function of a list's places is a list.
LEMMA EachIsList ==
    ASSUME NEW s, IsList(s), NEW f, f = [i \in DOMAIN s |-> f[i]]
    PROVE  /\ IsList(f) /\ Len(f) = Len(s) /\ DOMAIN f = DOMAIN s /\ <<>> \o f = f
           /\ ToSet(f) = {f[i] : i \in DOMAIN s}
<1>1. Len(s) \in Nat /\ DOMAIN s = 1..Len(s)
  BY ListFacts
<1>2. DOMAIN f = 1..Len(s)
  BY <1>1
<1>3. IsList(f) /\ Len(f) = Len(s)
  <2>1. f = [i \in 1..Len(s) |-> f[i]]
    BY <1>1
  <2> QED
    BY <1>1, <1>2, <2>1, FunctionIsList
<1>4. <<>> \o f = f
  BY <1>3, ListFacts
<1> QED
  BY <1>1, <1>2, <1>3, <1>4 DEF ToSet

\* A sorted list is a list, whatever its keys,
LEMMA SortedByIsList ==
    ASSUME NEW s, IsList(s), NEW keys
    PROVE  /\ IsList(SortedBy(s, keys)) /\ Len(SortedBy(s, keys)) = Len(s)
           /\ <<>> \o SortedBy(s, keys) = SortedBy(s, keys)
<1> DEFINE f == SortedBy(s, keys)
<1>1. f = [k \in DOMAIN s |-> f[k]]
  BY DEF SortedBy
<1> HIDE DEF f
<1> QED
  BY <1>1, EachIsList DEF f

\* and has the entries it had if the keys are lists of numbers.
LEMMA SortedByHasEntries ==
    ASSUME NEW s, IsList(s),
           NEW keys, \A i \in DOMAIN s : keys[i] \in Seq(Nat), DOMAIN keys = DOMAIN s,
           keys = [i \in DOMAIN s |-> keys[i]]
    PROVE  ToSet(SortedBy(s, keys)) = ToSet(s)
<1>1. Len(s) \in Nat /\ DOMAIN s = 1..Len(s)
  BY ListFacts
<1>2. keys \in [1..Len(s) -> Seq(Nat)]
  BY <1>1
<1>3. /\ \A i, j \in DOMAIN s : PlaceOf(keys, i) = PlaceOf(keys, j) => i = j
      /\ \A k \in DOMAIN s : \E i \in DOMAIN s : PlaceOf(keys, i) = k
  <2>1. PICK n \in Nat : n = Len(s) /\ DOMAIN s = 1..n /\ keys \in [1..n -> Seq(Nat)]
    BY <1>1, <1>2, Zenon
  <2>2. PICK g \in [1..n -> Seq(Nat)] : g = keys
    BY <2>1
  <2>3. /\ \A i, j \in 1..n : PlaceOf(g, i) = PlaceOf(g, j) => i = j
        /\ \A k \in 1..n : \E i \in 1..n : PlaceOf(g, i) = k
    BY PlacesAreTaken
  <2> QED
    BY <2>1, <2>2, <2>3, Zenon
<1> DEFINE Of(k) == CHOOSE i \in DOMAIN s : PlaceOf(keys, i) = k
<1>4. \A k \in DOMAIN s : Of(k) \in DOMAIN s /\ PlaceOf(keys, Of(k)) = k
  BY <1>3
<1>5. \A i \in DOMAIN s : PlaceOf(keys, i) \in DOMAIN s
  <2>1. PICK n \in Nat : n = Len(s) /\ DOMAIN s = 1..n /\ keys \in [1..n -> Seq(Nat)]
    BY <1>1, <1>2, Zenon
  <2> QED
    BY <2>1, PlacesAreTaken
<1>6. \A i \in DOMAIN s : Of(PlaceOf(keys, i)) = i
  BY <1>3, <1>4, <1>5
<1>7. SortedBy(s, keys) = [k \in DOMAIN s |-> s[Of(k)]]
  BY DEF SortedBy
<1> HIDE DEF Of
<1>8. ToSet(SortedBy(s, keys)) = {s[Of(k)] : k \in DOMAIN s}
  BY <1>7 DEF ToSet
<1>9. {s[Of(k)] : k \in DOMAIN s} = {s[i] : i \in DOMAIN s}
  <2>1. ASSUME NEW i \in DOMAIN s
        PROVE  s[i] \in {s[Of(k)] : k \in DOMAIN s}
    BY <1>5, <1>6
  <2> QED
    BY <1>4, <2>1
<1> QED
  BY <1>8, <1>9 DEF ToSet

\* An entry that occurred once occurs once.
LEMMA SortedOnce ==
    ASSUME NEW s, Once(s), NEW keys, keys = [i \in DOMAIN s |-> keys[i]],
           \A i \in DOMAIN s : keys[i] \in Seq(Nat)
    PROVE  Once(SortedBy(s, keys))
<1>1. PICK n \in Nat : DOMAIN s = 1..n
  BY ListFacts DEF Once
<1>2. PICK g \in [1..n -> Seq(Nat)] : g = keys
  BY <1>1
<1> DEFINE Of(k) == CHOOSE i \in DOMAIN s : PlaceOf(keys, i) = k
<1>3. \A k \in 1..n : Of(k) \in 1..n /\ PlaceOf(keys, Of(k)) = k
  <2>1. \A k \in 1..n : \E i \in 1..n : PlaceOf(g, i) = k
    BY PlacesAreTaken
  <2> QED
    BY <1>1, <1>2, <2>1
<1>4. PICK t : t = SortedBy(s, keys)
  OBVIOUS
<1>5. t = [k \in 1..n |-> s[Of(k)]]
  BY <1>1, <1>4 DEF SortedBy
<1> HIDE DEF Of
<1>6. ASSUME NEW k \in 1..n, NEW l \in 1..n, t[k] = t[l] PROVE k = l
  <2>1. s[Of(k)] = s[Of(l)]
    BY <1>5, <1>6
  <2>2. Of(k) = Of(l)
    BY <1>1, <1>3, <2>1 DEF Once
  <2> QED
    BY <1>3, <2>2
<1>7. IsList(t)
  BY <1>4, SortedByIsList DEF Once
<1>8. DOMAIN t = 1..n
  BY <1>5
<1> QED
  BY <1>4, <1>6, <1>7, <1>8 DEF Once

\* It is not empty unless the list was.
LEMMA SortedKeeps ==
    ASSUME NEW s, IsList(s), NEW f, f = [i \in DOMAIN s |-> f[i]],
           \A i \in DOMAIN s : f[i] \in Seq(Nat)
    PROVE  LET t == IF Len(s) < 2 THEN s ELSE <<>> \o SortedBy(s, <<>> \o f)
           IN  /\ IsList(t) /\ ToSet(t) = ToSet(s) /\ (s # <<>> => t # <<>>)
               /\ Once(s) => Once(t)
<1>1. <<>> \o f = f
  BY EachIsList
<1>2. PICK t : t = SortedBy(s, f) /\ IsList(t) /\ Len(t) = Len(s) /\ <<>> \o t = t
  BY SortedByIsList
<1>3. ToSet(t) = ToSet(s)
  <2>1. DOMAIN f = DOMAIN s
    OBVIOUS
  <2> QED
    BY <1>2, <2>1, SortedByHasEntries
<1>4. s # <<>> => t # <<>>
  BY <1>2 DEF IsList
<1>5. Once(s) => Once(t)
  BY <1>2, SortedOnce
<1> QED
  BY <1>1, <1>2, <1>3, <1>4, <1>5

\* A pair of numbers is a list of numbers.
LEMMA PairIsNumbers ==
    ASSUME NEW x \in Nat \X Nat
    PROVE  x \in Seq(Nat)
<1>1. PICK a \in Nat, b \in Nat : x = <<a, b>>
  OBVIOUS
<1>2. <<a, b>> \in Seq(Nat)
  OBVIOUS
<1> QED
  BY <1>1, <1>2

-----------------------------------------------------------------------------
(* The store's queries.                                                    *)

\* Paths of an IR are ranked by numbers.
LEMMA RanksAreNumbers ==
    ASSUME NEW r, IrOK(r), NEW u \in Present(r)
    PROVE  Ranks(r.sym[u].path) \in Seq(Nat)
<1>1. PICK path : path = r.sym[u].path
  OBVIOUS
<1>2. path \in Seq(STRING) /\ \A i \in DOMAIN path : Rank(path[i]) \in Nat
  BY <1>1 DEF IrOK, Row
<1>3. IsList(path)
  BY <1>2, SequenceIsList
<1> DEFINE f == [i \in DOMAIN path |-> Rank(path[i])]
<1>4. Ranks(path) = <<>> \o f
  BY DEF Ranks, Each
<1>5. <<>> \o f = f
  BY <1>3, EachIsList
<1>6. f \in Seq(Nat)
  BY <1>2, <1>3, ListFacts
<1> QED
  BY <1>1, <1>4, <1>5, <1>6

\* Its kinds are numbers, and so are its lines.
LEMMA KindsAreNumbers ==
    ASSUME NEW r, IrOK(r), NEW u \in Present(r)
    PROVE  KindNo[Kind(r, u)] \in Nat /\ r.sym[u].line \in Nat
<1>1. r.sym[u] \in Row
  BY DEF IrOK
<1>2. r.sym[u].line \in Nat /\ r.sym[u].kind \in DOMAIN KindNo
  BY <1>1 DEF Row
<1>3. \A k \in DOMAIN KindNo : KindNo[k] \in Nat
  BY DEF KindNo
<1> QED
  BY <1>2, <1>3 DEF Kind

\* The rows of some symbols are their list.
LEMMA RowsAre ==
    ASSUME NEW S
    PROVE  Once(RowsOf(S)) /\ IsList(RowsOf(S)) /\ ToSet(RowsOf(S)) = S \intersect Usrs
<1>1. IsList(RowOrder) /\ Once(RowOrder)
  BY PagesAssumption, SequenceIsList DEF Once, IsInjective
<1> DEFINE I == {i \in DOMAIN RowOrder : RowOrder[i] \in S}
<1>2. RowsOf(S) = Chosen(RowOrder, I)
  BY DEF RowsOf, Those
<1>3. {RowOrder[i] : i \in I \intersect DOMAIN RowOrder} = S \intersect Usrs
  BY DEF Usrs, ToSet
<1> HIDE DEF I
<1> QED
  BY <1>1, <1>2, <1>3, ChosenList, OnceChosen

\* The queries answer with the symbols asked for.
LEMMA ByLineIs ==
    ASSUME NEW r, IrOK(r), NEW S, S \subseteq Present(r)
    PROVE  Once(ByLine(r, S)) /\ IsList(ByLine(r, S)) /\ ToSet(ByLine(r, S)) = S
<1> DEFINE s == RowsOf(S)
           key(u) == <<KindNo[Kind(r, u)], r.sym[u].line>> \o Ranks(r.sym[u].path)
           f == [i \in DOMAIN s |-> key(s[i])]
<1>1. Once(s) /\ IsList(s) /\ ToSet(s) = S
  <2>1. S \subseteq Usrs
    BY DEF Present, IrOK
  <2> QED
    BY <2>1, RowsAre
<1>2. ByLine(r, S) = IF Len(s) < 2 THEN s ELSE <<>> \o SortedBy(s, <<>> \o f)
  BY DEF ByLine, Sorted, Each
<1>3. \A u \in S : key(u) \in Seq(Nat)
  <2> SUFFICES ASSUME NEW u \in S PROVE key(u) \in Seq(Nat)
    OBVIOUS
  <2>1. Ranks(r.sym[u].path) \in Seq(Nat)
    BY RanksAreNumbers
  <2>2. KindNo[Kind(r, u)] \in Nat /\ r.sym[u].line \in Nat
    BY KindsAreNumbers
  <2> QED
    BY <2>1, <2>2
<1> HIDE DEF s, key
<1>4. \A i \in DOMAIN s : f[i] \in Seq(Nat)
  BY <1>1, <1>3 DEF ToSet
<1>5. f = [i \in DOMAIN s |-> f[i]]
  OBVIOUS
<1> HIDE DEF f
<1> QED
  BY <1>1, <1>2, <1>4, <1>5, SortedKeeps

\* Sorting by kind and path keeps the symbols.
LEMMA ByNameIs ==
    ASSUME NEW r, IrOK(r), NEW S, S \subseteq Present(r)
    PROVE  Once(ByName(r, S)) /\ IsList(ByName(r, S)) /\ ToSet(ByName(r, S)) = S
<1> DEFINE s == RowsOf(S)
           key(u) == <<KindNo[Kind(r, u)]>> \o Ranks(r.sym[u].path)
           f == [i \in DOMAIN s |-> key(s[i])]
<1>1. Once(s) /\ IsList(s) /\ ToSet(s) = S
  <2>1. S \subseteq Usrs
    BY DEF Present, IrOK
  <2> QED
    BY <2>1, RowsAre
<1>2. ByName(r, S) = IF Len(s) < 2 THEN s ELSE <<>> \o SortedBy(s, <<>> \o f)
  BY DEF ByName, Sorted, Each
<1>3. \A u \in S : key(u) \in Seq(Nat)
  <2> SUFFICES ASSUME NEW u \in S PROVE key(u) \in Seq(Nat)
    OBVIOUS
  <2>1. Ranks(r.sym[u].path) \in Seq(Nat)
    BY RanksAreNumbers
  <2>2. KindNo[Kind(r, u)] \in Nat
    BY KindsAreNumbers
  <2> QED
    BY <2>1, <2>2
<1> HIDE DEF s, key
<1>4. \A i \in DOMAIN s : f[i] \in Seq(Nat)
  BY <1>1, <1>3 DEF ToSet
<1>5. f = [i \in DOMAIN s |-> f[i]]
  OBVIOUS
<1> HIDE DEF f
<1> QED
  BY <1>1, <1>2, <1>4, <1>5, SortedKeeps

\* What is below a symbol, and what is at the root.
LEMMA ChildrenAre ==
    ASSUME NEW m, NEW r, IrOK(r), NEW u, NEW f
    PROVE  /\ IsList(Children(m, r, u, f)) /\ ToSet(Children(m, r, u, f)) \subseteq ChildrenOf(r, u)
           /\ Once(Children(m, r, u, f))
           /\ ToSet(Children(m, r, u, f)) = {c \in ChildrenOf(r, u) : Visible(m, r, c, f)}
<1> DEFINE S == {c \in ChildrenOf(r, u) : Visible(m, r, c, f)}
<1>1. S \subseteq Present(r) /\ S \subseteq ChildrenOf(r, u)
  BY DEF ChildrenOf
<1>2. Children(m, r, u, f) = ByLine(r, S)
  BY DEF Children
<1> HIDE DEF S
<1>3. Once(Children(m, r, u, f)) /\ IsList(Children(m, r, u, f)) /\ ToSet(Children(m, r, u, f)) = S
  BY <1>1, <1>2, ByLineIs
<1> QED
  BY <1>1, <1>3 DEF S

\* The roots are symbols without a parent, each once.
LEMMA RootsAre ==
    ASSUME NEW m, NEW r, IrOK(r)
    PROVE  /\ IsList(Roots(m, r)) /\ ToSet(Roots(m, r)) \subseteq ChildrenOf(r, None)
           /\ Once(Roots(m, r))
           /\ ToSet(Roots(m, r)) = {u \in ChildrenOf(r, None) : Visible(m, r, u, None)}
<1> DEFINE S == {u \in Present(r) : r.sym[u].parent = None /\ Visible(m, r, u, None)}
<1>1. S \subseteq Present(r) /\ S \subseteq ChildrenOf(r, None)
  BY DEF ChildrenOf
<1>2. Roots(m, r) = ByName(r, S)
  BY DEF Roots
<1> HIDE DEF S
<1>3. Once(Roots(m, r)) /\ IsList(Roots(m, r)) /\ ToSet(Roots(m, r)) = S
  BY <1>1, <1>2, ByNameIs
<1> QED
  BY <1>1, <1>3 DEF S, ChildrenOf

\* The roots of a file are symbols of the IR, each once.
LEMMA FileRootsAre ==
    ASSUME NEW m, NEW r, IrOK(r), NEW f
    PROVE  /\ IsList(FileRoots(m, r, f)) /\ ToSet(FileRoots(m, r, f)) \subseteq Present(r)
           /\ Once(FileRoots(m, r, f))
           /\ ToSet(FileRoots(m, r, f)) =
                  {u \in Present(r) : /\ Visible(m, r, u, f)
                                      /\ ~\E p \in Present(r) : /\ p = r.sym[u].parent
                                                                /\ r.sym[p].file = f}
<1> DEFINE S == {u \in Present(r) : /\ Visible(m, r, u, f)
                                    /\ ~\E p \in Present(r) : /\ p = r.sym[u].parent
                                                              /\ r.sym[p].file = f}
<1>1. S \subseteq Present(r)
  OBVIOUS
<1>2. FileRoots(m, r, f) = ByName(r, S)
  BY DEF FileRoots
<1> HIDE DEF S
<1>3. Once(FileRoots(m, r, f)) /\ IsList(FileRoots(m, r, f)) /\ ToSet(FileRoots(m, r, f)) = S
  BY <1>1, <1>2, ByNameIs
<1> QED
  BY <1>1, <1>3 DEF S

\* The last component of a path is ranked.
LEMMA SpellingIsRanked ==
    ASSUME NEW r, IrOK(r), NEW u \in Present(r)
    PROVE  Rank(Spelling(r, u)) \in Nat
<1>1. PICK path : path = r.sym[u].path
  OBVIOUS
<1>2. path \in Seq(STRING) /\ path # <<>> /\ \A i \in DOMAIN path : Rank(path[i]) \in Nat
  BY <1>1 DEF IrOK, Row
<1>3. Len(path) \in DOMAIN path
  BY <1>2
<1> QED
  BY <1>1, <1>2, <1>3 DEF Spelling, Last

\* What functions and constants are sorted by are lists of numbers.
LEMMA SigIsNumbers ==
    ASSUME NEW r, IrOK(r), NEW u \in Present(r)
    PROVE  r.sym[u].sig \in Seq(Nat) /\ <<Rank(Spelling(r, u))>> \o r.sym[u].sig \in Seq(Nat)
<1>1. r.sym[u].sig \in Nat \X Nat
  BY DEF IrOK, Row
<1>2. PICK x \in Seq(Nat) : x = r.sym[u].sig
  BY <1>1, PairIsNumbers
<1>3. PICK k \in Nat : k = Rank(Spelling(r, u))
  BY SpellingIsRanked
<1>4. <<k>> \o x \in Seq(Nat)
  OBVIOUS
<1> QED
  BY <1>2, <1>3, <1>4

-----------------------------------------------------------------------------
(* The walks.                                                              *)

\* The entries chosen from a set's list are a list.
LEMMA ChosenOf ==
    ASSUME NEW s, IsList(s), NEW I
    PROVE  IsList(Chosen(s, I)) /\ ToSet(Chosen(s, I)) \subseteq ToSet(s)
<1>1. {s[i] : i \in I \intersect DOMAIN s} \subseteq ToSet(s)
  BY DEF ToSet
<1> QED
  BY <1>1, ChosenList

\* A finite set has a list.
LEMMA SetHasList ==
    ASSUME NEW S, IsFiniteSet(S)
    PROVE  Once(SetToSeq(S)) /\ IsList(SetToSeq(S)) /\ ToSet(SetToSeq(S)) = S
<1>1. Cardinality(S) \in Nat /\ ExistsBijection(1..Cardinality(S), S)
  BY FS_CardinalityType
<1>2. PICK g : g \in Bijection(1..Cardinality(S), S)
  BY <1>1 DEF ExistsBijection
<1> DEFINE Is(f) == f \in [1..Cardinality(S) -> S] /\ IsInjective(f)
<1>3. Is(g)
  BY <1>2 DEF Bijection, Injection, IsInjective
<1>4. SetToSeq(S) = CHOOSE f \in [1..Cardinality(S) -> S] : IsInjective(f)
  BY DEF SetToSeq
<1>5. PICK f : f = SetToSeq(S)
  OBVIOUS
<1>6. f \in [1..Cardinality(S) -> S] /\ IsInjective(f)
  BY <1>3, <1>4, <1>5
<1>7. f \in Seq(S)
  BY <1>1, <1>6
<1>8. ToSet(f) = S
  <2>1. f \in Injection(1..Cardinality(S), S)
    BY <1>6 DEF Injection, IsInjective
  <2>2. IsFiniteSet(1..Cardinality(S)) /\ Cardinality(1..Cardinality(S)) = Cardinality(S)
    BY <1>1, FS_Interval
  <2>3. f \in Surjection(1..Cardinality(S), S)
    BY <2>1, <2>2, FS_Injection
  <2> QED
    BY <2>3, <1>6 DEF Surjection, ToSet
<1>9. IsList(f)
  BY <1>7, SequenceIsList
<1> QED
  BY <1>5, <1>6, <1>8, <1>9 DEF Once, IsInjective

\* A list's entries are finitely many, and so are their images.
LEMMA FinitelyMany ==
    ASSUME NEW s, IsList(s), NEW f, DOMAIN f = DOMAIN s, f = [i \in DOMAIN s |-> f[i]]
    PROVE  IsFiniteSet({f[i] : i \in DOMAIN s})
<1>1. PICK n \in Nat : DOMAIN s = 1..n
  BY ListFacts
<1>2. IsFiniteSet(1..n)
  BY <1>1, FS_Interval
<1>3. f \in Surjection(1..n, {f[i] : i \in 1..n})
  BY <1>1 DEF Surjection
<1> QED
  BY <1>1, <1>2, <1>3, FS_Surjection

\* Symbols and what is below each are a forest.
KidsOf(r) == [u \in Present(r) \union {None} |-> ChildrenOf(r, u)]

-----------------------------------------------------------------------------
(* The recursive functions of PagePlan and PageCache are what their         *)
(* definitions say: what they are of is a forest.  A step of each:          *)

\* ClassPages.
ClassStep(m, r, g, u) ==
    IF Kind(r, u) # "namespace" THEN <<SymbolPage(r, u)>>
    ELSE NamespacePage(m, r, u) \o FlattenSeq(Each(Containers(m, r, u), LAMBDA c : g[c]))

\* ScopePages.
ScopeOf(m, r, g, s) ==
    FlattenSeq(Each(Namespaces(r, Members(m, r, s)), LAMBDA ns : HubPage(r, s, ns, g[ns])))
    \o MemberPages(r, s, Members(m, r, s))

\* Below.
BelowStep(m, r, f, g, u) ==
    IF Container(r, u)
    THEN FlattenSeq(Each(Children(m, r, u, f), LAMBDA c : <<c>> \o g[c])) ELSE <<>>

\* HasDocumentedDescendant.
DescendantStep(r, f, g, s) ==
    \E c \in ChildrenOf(r, s) : InScope(r, c, f) /\ (Documented(r, c) \/ g[c])

\* FromIndex, a step of a toctree at a time.
WithinStep(root, tocs, g, k) ==
    IF k = 0 THEN {root} ELSE g[k - 1] \union UNION {tocs[s] : s \in g[k - 1]}

\* All of them, as one parameter of the lemma on recursion in a forest.
StepOf(par, g, x) ==
    IF par[1] = "ClassPages" THEN ClassStep(par[2], par[3], g, x)
    ELSE IF par[1] = "ScopePages" THEN ScopeOf(par[2], par[3], g, x)
    ELSE IF par[1] = "Below" THEN BelowStep(par[2], par[3], par[4], g, x)
    ELSE IF par[1] = "Descendants" THEN DescendantStep(par[2], par[3], g, x)
    ELSE WithinStep(par[2], par[3], g, x)

\* That lemma; one instance, for every obligation after it carries what is instantiated.
Forests == INSTANCE ListsProofs WITH Op <- StepOf

\* The containers in a symbol are children of it.
LEMMA ContainersAre ==
    ASSUME NEW m, NEW r, IrOK(r), NEW u
    PROVE  /\ IsList(Containers(m, r, u)) /\ ToSet(Containers(m, r, u)) \subseteq ChildrenOf(r, u)
           /\ Once(Containers(m, r, u))
           /\ ToSet(Containers(m, r, u)) =
                  {c \in ToSet(Children(m, r, u, None)) : Container(r, c)}
<1> DEFINE s == Children(m, r, u, None)
           I == {i \in DOMAIN s : Container(r, s[i])}
<1>1. Containers(m, r, u) = Chosen(s, I)
  BY DEF Containers, Those
<1>2. Once(s) /\ IsList(s) /\ ToSet(s) \subseteq ChildrenOf(r, u)
  BY ChildrenAre
<1>3. {s[i] : i \in I \intersect DOMAIN s} = {c \in ToSet(s) : Container(r, c)}
  BY DEF ToSet
<1> HIDE DEF s, I
<1>4. /\ IsList(Chosen(s, I)) /\ Once(Chosen(s, I))
      /\ ToSet(Chosen(s, I)) = {c \in ToSet(s) : Container(r, c)}
  BY <1>2, <1>3, ChosenList, OnceChosen
<1> QED
  BY <1>1, <1>2, <1>4 DEF s

\* ClassPages is what its definition says: the recursion ends in a forest.
LEMMA ClassPagesAre ==
    ASSUME NEW m, NEW r, IrOK(r)
    PROVE  ClassPages(m, r) = [u \in Present(r) |-> ClassStep(m, r, ClassPages(m, r), u)]
<1> DEFINE S == Present(r)
           Kids == KidsOf(r)
<1>1. PICK par : par = <<"ClassPages", m, r>>
  OBVIOUS
<1>2. \A g, x : StepOf(par, g, x) = ClassStep(m, r, g, x)
  BY <1>1 DEF StepOf
<1>3. Forests!Forest(S, Kids)
  BY DEF Forests!Forest, KidsOf, IrOK, ChildrenOf
<1>4. Forests!Downward(par, S, Kids)
  <2> SUFFICES ASSUME NEW u \in S, NEW f, NEW g, \A c \in Kids[u] : f[c] = g[c]
               PROVE  ClassStep(m, r, f, u) = ClassStep(m, r, g, u)
    BY <1>2 DEF Forests!Downward
  <2>1. PICK t : t = Containers(m, r, u)
    OBVIOUS
  <2>2. IsList(t) /\ ToSet(t) \subseteq Kids[u]
    BY <2>1, ContainersAre DEF KidsOf
  <2>3. \A i \in DOMAIN t : f[t[i]] = g[t[i]]
    BY <2>2 DEF ToSet
  <2>4. [i \in DOMAIN t |-> f[t[i]]] = [i \in DOMAIN t |-> g[t[i]]]
    BY <2>3
  <2>5. Each(t, LAMBDA c : f[c]) = Each(t, LAMBDA c : g[c])
    BY <2>4 DEF Each
  <2> QED
    BY <2>1, <2>5 DEF ClassStep
<1> HIDE DEF S, Kids
<1>5. PICK G : G = [u \in S |-> StepOf(par, G, u)]
  BY <1>3, <1>4, Forests!Recursion
<1> DEFINE Is(h) == h = [u \in S |-> ClassStep(m, r, h, u)]
<1>6. ClassPages(m, r) = CHOOSE h : Is(h)
  BY DEF ClassPages, ClassStep, S
<1>7. Is(G)
  BY <1>5, <1>2
<1> HIDE DEF Is
<1>8. Is(ClassPages(m, r))
  BY <1>6, <1>7
<1> QED
  BY <1>8 DEF Is, S

\* Sorting by spelling keeps the symbols.
LEMMA BySpellingIs ==
    ASSUME NEW r, IrOK(r), NEW s, IsList(s), ToSet(s) \subseteq Present(r)
    PROVE  /\ IsList(BySpelling(r, s)) /\ ToSet(BySpelling(r, s)) = ToSet(s)
           /\ Once(s) => Once(BySpelling(r, s))
<1> DEFINE key(u) == <<Rank(Spelling(r, u))>>
           f == [i \in DOMAIN s |-> key(s[i])]
<1>2. BySpelling(r, s) = IF Len(s) < 2 THEN s ELSE <<>> \o SortedBy(s, <<>> \o f)
  BY DEF BySpelling, Sorted, Each
<1>3. \A u \in ToSet(s) : key(u) \in Seq(Nat)
  BY SpellingIsRanked
<1> HIDE DEF key
<1>4. \A i \in DOMAIN s : f[i] \in Seq(Nat)
  BY <1>3 DEF ToSet
<1>5. f = [i \in DOMAIN s |-> f[i]]
  OBVIOUS
<1> HIDE DEF f
<1> QED
  BY <1>2, <1>4, <1>5, SortedKeeps

\* What is in a scope.
LEMMA MembersAre ==
    ASSUME NEW m, NEW r, IrOK(r), NEW s
    PROVE  /\ IsList(Members(m, r, s)) /\ ToSet(Members(m, r, s)) \subseteq ChildrenOf(r, s)
           /\ Once(Members(m, r, s))
           /\ ToSet(Members(m, r, s)) = {c \in ChildrenOf(r, s) : Visible(m, r, c, None)}
BY RootsAre, ChildrenAre DEF Members

\* The namespaces of a scope are children of it.
LEMMA NamespacesAre ==
    ASSUME NEW m, NEW r, IrOK(r), NEW s
    PROVE  /\ IsList(Namespaces(r, Members(m, r, s)))
           /\ ToSet(Namespaces(r, Members(m, r, s))) \subseteq ChildrenOf(r, s)
           /\ \A u \in ToSet(Namespaces(r, Members(m, r, s))) : Kind(r, u) = "namespace"
           /\ Once(Namespaces(r, Members(m, r, s)))
           /\ ToSet(Namespaces(r, Members(m, r, s))) =
                  {u \in ToSet(Members(m, r, s)) : Kind(r, u) = "namespace"}
<1> DEFINE t == Members(m, r, s)
           I == {i \in DOMAIN t : Kind(r, t[i]) = "namespace"}
<1>1. Namespaces(r, t) = BySpelling(r, Chosen(t, I))
  BY DEF Namespaces, Those
<1>2. IsList(t) /\ Once(t) /\ ToSet(t) \subseteq ChildrenOf(r, s)
  BY MembersAre
<1>3. {t[i] : i \in I \intersect DOMAIN t} = {u \in ToSet(t) : Kind(r, u) = "namespace"}
  BY DEF ToSet
<1>4. ChildrenOf(r, s) \subseteq Present(r)
  BY DEF ChildrenOf
<1> HIDE DEF t, I
<1>5. /\ IsList(Chosen(t, I)) /\ Once(Chosen(t, I))
      /\ ToSet(Chosen(t, I)) = {u \in ToSet(t) : Kind(r, u) = "namespace"}
  BY <1>2, <1>3, ChosenList, OnceChosen
<1>6. ToSet(Chosen(t, I)) \subseteq Present(r)
  BY <1>2, <1>4, <1>5
<1>7. /\ IsList(BySpelling(r, Chosen(t, I))) /\ Once(BySpelling(r, Chosen(t, I)))
      /\ ToSet(BySpelling(r, Chosen(t, I))) = ToSet(Chosen(t, I))
  BY <1>5, <1>6, BySpellingIs
<1> QED
  BY <1>1, <1>2, <1>5, <1>7 DEF t

\* ScopePages is what its definition says.
LEMMA ScopePagesAre ==
    ASSUME NEW m, NEW r, IrOK(r)
    PROVE  \A s \in Present(r) \union {None} :
               ScopePages(m, r)[s] = ScopeOf(m, r, ScopePages(m, r), s)
<1> DEFINE S == Present(r) \union {None}
           Kids == KidsOf(r)
<1>1. PICK par : par = <<"ScopePages", m, r>>
  OBVIOUS
<1>2. \A g, x : StepOf(par, g, x) = ScopeOf(m, r, g, x)
  BY <1>1 DEF StepOf
<1>3. Forests!Forest(S, Kids)
  <2>1. \A s \in S : Kids[s] \subseteq Present(r)
    BY DEF KidsOf, ChildrenOf
  <2>2. None \notin Present(r)
    BY PagesAssumption DEF Present, IrOK
  <2>3. ASSUME NEW T \in SUBSET S, T # {} PROVE \E s \in T : Kids[s] \intersect T = {}
    <3>1. CASE T \intersect Present(r) = {}
      BY <2>1, <2>3, <3>1
    <3>2. CASE T \intersect Present(r) # {}
      <4>1. PICK u \in T \intersect Present(r) : ChildrenOf(r, u) \intersect (T \intersect Present(r)) = {}
        BY <3>2 DEF IrOK
      <4> QED
        BY <2>1, <4>1 DEF KidsOf
    <3> QED
      BY <3>1, <3>2
  <2> QED
    BY <2>1, <2>3 DEF Forests!Forest
<1>4. Forests!Downward(par, S, Kids)
  <2> SUFFICES ASSUME NEW s \in S, NEW f, NEW g, \A c \in Kids[s] : f[c] = g[c]
               PROVE  ScopeOf(m, r, f, s) = ScopeOf(m, r, g, s)
    BY <1>2 DEF Forests!Downward
  <2>1. PICK t : t = Namespaces(r, Members(m, r, s))
    OBVIOUS
  <2>2. IsList(t) /\ ToSet(t) \subseteq Kids[s]
    BY <2>1, NamespacesAre DEF KidsOf
  <2>3. \A i \in DOMAIN t : f[t[i]] = g[t[i]]
    BY <2>2 DEF ToSet
  <2>4. [i \in DOMAIN t |-> HubPage(r, s, t[i], f[t[i]])] = [i \in DOMAIN t |-> HubPage(r, s, t[i], g[t[i]])]
    BY <2>3
  <2>5. Each(t, LAMBDA ns : HubPage(r, s, ns, f[ns])) = Each(t, LAMBDA ns : HubPage(r, s, ns, g[ns]))
    BY <2>4 DEF Each
  <2> QED
    BY <2>1, <2>5 DEF ScopeOf
<1> HIDE DEF S, Kids
<1>5. PICK G : G = [s \in S |-> StepOf(par, G, s)]
  BY <1>3, <1>4, Forests!Recursion
<1> DEFINE Is(h) == h = [s \in S |-> ScopeOf(m, r, h, s)]
<1>6. ScopePages(m, r) = CHOOSE h : Is(h)
  BY DEF ScopePages, ScopeOf, S
<1>7. Is(G)
  BY <1>5, <1>2
<1> HIDE DEF Is
<1>8. Is(ScopePages(m, r))
  BY <1>6, <1>7
<1>9. PICK h : h = ScopePages(m, r)
  OBVIOUS
<1>10. h = [s \in S |-> ScopeOf(m, r, h, s)]
  BY <1>8, <1>9 DEF Is
<1>11. \A s \in S : h[s] = ScopeOf(m, r, h, s)
  BY <1>10
<1> QED
  BY <1>9, <1>11 DEF S

-----------------------------------------------------------------------------
(* The pages of a walk: what names each, and what it is of.                *)

\* The symbol that heads a page.
Heading(p) == (p.shallow \o p.deep)[1]

\* A page's symbols are symbols of the IR.
SymbolsOf(r, p) ==
    /\ IsList(p.shallow) /\ IsList(p.deep)
    /\ ToSet(p.shallow) \subseteq Present(r) /\ ToSet(p.deep) \subseteq Present(r)

\* The page that a namespace's symbols of a kind share, if they share one.
LumpOf(r, u) ==
    CASE Kind(r, u) \in {"enum", "alias"}                             -> "types"
      [] Kind(r, u) \in {"variable", "macro"}                         -> "constants"
      [] Kind(r, u) \in {"field", "enumerator"}                       -> "other"
      [] Kind(r, u) = "function" /\ Spelling(r, u) \in Operators      -> "operators"
      [] Kind(r, u) \in {"namespace", "record"}                       -> "none"
      [] Kind(r, u) = "function" /\ Spelling(r, u) \notin Operators   -> "none"

\* What the symbol that heads a page is called there.
NameOf(by, r, u) ==
    IF by = "namespace" /\ LumpOf(r, u) # "none"
    THEN ScopePath(r, r.sym[u].parent) \o <<LumpOf(r, u)>> ELSE PageName(r, u)

\* A page of symbols is named for its file or for the symbol that heads it; where
\* pages are not grouped by namespace there are no hubs, and the index lists all;
\* a hub is headed by its namespace.
Placed(by, p) == /\ by # "namespace" => p.up = None /\ p.id[1] # "hub"
                 /\ p.id[1] = "hub" => p.shallow = <<p.id[2]>>
GoodPage(by, r, p) ==
    /\ p.id[1] # "group" /\ SymbolsOf(r, p) /\ Placed(by, p)
    /\ by = "file" => p.file \in ToSet(Files) /\ p.name = <<BaseName(p.file)>>
    /\ by # "file" => /\ p.file = None /\ p.shallow \o p.deep # <<>>
                      /\ p.name = NameOf(by, r, Heading(p))
Good(by, r, l) == IsList(l) /\ \A p \in ToSet(l) : GoodPage(by, r, p)

\* Good lists are put together: of nothing, of a page,
LEMMA GoodFew ==
    ASSUME NEW by, NEW r
    PROVE  Good(by, r, <<>>) /\ \A p : GoodPage(by, r, p) => Good(by, r, <<p>>)
BY ShortLists DEF Good, ToSet

\* of two,
LEMMA GoodBoth ==
    ASSUME NEW by, NEW r, NEW x, NEW y, Good(by, r, x), Good(by, r, y)
    PROVE  Good(by, r, x \o y)
BY AppendedList DEF Good

\* of many,
LEMMA GoodAll ==
    ASSUME NEW by, NEW r, NEW f, IsList(f), \A i \in DOMAIN f : Good(by, r, f[i])
    PROVE  Good(by, r, FlattenSeq(f))
<1>1. IsList(FlattenSeq(f)) /\ ToSet(FlattenSeq(f)) = UNION {ToSet(f[i]) : i \in DOMAIN f}
  BY FlattenedList DEF Good
<1> QED
  BY <1>1 DEF Good

\* and of a page for each entry.
LEMMA GoodEach ==
    ASSUME NEW by, NEW r, NEW t, IsList(t), NEW f, f = [i \in DOMAIN t |-> f[i]],
           \A i \in DOMAIN t : GoodPage(by, r, f[i])
    PROVE  Good(by, r, <<>> \o f)
BY EachIsList DEF Good

\* What is chosen of a good list is one.
LEMMA GoodChosen ==
    ASSUME NEW by, NEW r, NEW l, Good(by, r, l), NEW I
    PROVE  Good(by, r, Chosen(l, I))
BY ChosenOf DEF Good

\* Good pages that the hub of s, or the index, lists, none of them a hub; lists of
\* them are put together in the same ways.
GoodPageAt(r, s, p) == GoodPage("namespace", r, p) /\ p.up = s /\ p.id[1] # "hub"
GoodAt(r, s, l) == IsList(l) /\ \A p \in ToSet(l) : GoodPageAt(r, s, p)

\* Good pages of one level: nothing, a page,
LEMMA GoodFewAt ==
    ASSUME NEW r, NEW s
    PROVE  GoodAt(r, s, <<>>) /\ \A p : GoodPageAt(r, s, p) => GoodAt(r, s, <<p>>)
BY ShortLists DEF GoodAt, ToSet

\* two lists,
LEMMA GoodBothAt ==
    ASSUME NEW r, NEW s, NEW x, NEW y, GoodAt(r, s, x), GoodAt(r, s, y)
    PROVE  GoodAt(r, s, x \o y)
BY AppendedList DEF GoodAt

\* a page for each entry.
LEMMA GoodEachAt ==
    ASSUME NEW r, NEW s, NEW t, IsList(t), NEW f, f = [i \in DOMAIN t |-> f[i]],
           \A i \in DOMAIN t : GoodPageAt(r, s, f[i])
    PROVE  GoodAt(r, s, <<>> \o f)
BY EachIsList DEF GoodAt

\* Such pages are good.
LEMMA GoodAtIsGood ==
    ASSUME NEW r, NEW s, NEW l, GoodAt(r, s, l)
    PROVE  Good("namespace", r, l)
BY DEF GoodAt, GoodPageAt, Good

\* A list of one symbol.
LEMMA OneSymbol ==
    ASSUME NEW S, NEW u \in S
    PROVE  /\ IsList(<<>>) /\ IsList(<<u>>) /\ ToSet(<<>>) \subseteq S /\ ToSet(<<u>>) \subseteq S
           /\ <<>> \o <<u>> = <<u>> /\ <<u>> \o <<>> = <<u>> /\ <<u>> # <<>> /\ <<u>>[1] = u
<1>1. IsList(<<>>) /\ IsList(<<u>>) /\ ToSet(<<u>>) = {u} /\ <<u>> # <<>> /\ <<u>>[1] = u
  BY ShortLists, OneIs
<1>2. ToSet(<<>>) = {}
  BY DEF ToSet
<1>3. <<u>> \in Seq(S)
  OBVIOUS
<1>4. <<>> \o <<u>> = <<u>> /\ <<u>> \o <<>> = <<u>>
  BY <1>3, ConcatEmptySeq
<1> QED
  BY <1>1, <1>2, <1>4

\* A page of one symbol, named for it, is good,
LEMMA SymbolPageIsGood ==
    ASSUME NEW by, by # "file", NEW r, NEW u \in Present(r),
           by = "namespace" => LumpOf(r, u) = "none",
           NEW p, p.id[1] # "group", Placed(by, p), p.name = PageName(r, u), p.deep = <<u>>,
           p.shallow = <<>>, p.file = None
    PROVE  GoodPage(by, r, p)
<1>2. SymbolsOf(r, p) /\ p.shallow \o p.deep # <<>> /\ Heading(p) = u
  BY OneSymbol DEF SymbolsOf, Heading
<1> QED
  BY <1>2 DEF GoodPage, NameOf

\* and so is one that a namespace heads,
LEMMA HeadedPageIsGood ==
    ASSUME NEW by, by # "file", NEW r, NEW u \in Present(r), Kind(r, u) = "namespace",
           NEW p, p.id[1] # "group", Placed(by, p), p.name = r.sym[u].path, IsList(p.deep),
           ToSet(p.deep) \subseteq Present(r), p.shallow = <<u>>, p.file = None
    PROVE  GoodPage(by, r, p)
<1>1. PICK x : x = <<u>> /\ IsList(x) /\ ToSet(x) \subseteq Present(r) /\ x # <<>> /\ x[1] = u
  BY OneSymbol
<1>2. x \o p.deep # <<>> /\ (x \o p.deep)[1] = u
  BY <1>1, FirstOfBoth
<1>3. SymbolsOf(r, p) /\ p.shallow \o p.deep # <<>> /\ Heading(p) = u
  BY <1>1, <1>2 DEF SymbolsOf, Heading
<1>4. LumpOf(r, u) = "none" /\ PageName(r, u) = r.sym[u].path
  BY DEF LumpOf, PageName
<1> QED
  BY <1>3, <1>4 DEF GoodPage, NameOf

\* and one that symbols share, named for the first.
LEMMA SharedPageIsGood ==
    ASSUME NEW by, by # "file", NEW r, NEW p, p.id[1] # "group", Placed(by, p), p.shallow = <<>>,
           p.file = None, IsList(p.deep), ToSet(p.deep) \subseteq Present(r), p.deep # <<>>,
           \A u \in ToSet(p.deep) : u = p.deep[1] => p.name = NameOf(by, r, u)
    PROVE  GoodPage(by, r, p)
<1>1. PICK t : t = p.deep /\ IsList(t) /\ t # <<>> /\ <<>> \o t = t
  BY ListFacts
<1>2. Len(t) \in Nat /\ DOMAIN t = 1..Len(t)
  BY <1>1, ListFacts
<1>3. 1 \in DOMAIN t
  BY <1>1, <1>2 DEF IsList
<1>4. t[1] \in ToSet(t)
  BY <1>3 DEF ToSet
<1>5. IsList(<<>>) /\ ToSet(<<>>) = {}
  BY ShortLists DEF ToSet
<1>6. SymbolsOf(r, p) /\ p.shallow \o p.deep # <<>> /\ Heading(p) = t[1]
  BY <1>1, <1>5 DEF SymbolsOf, Heading
<1> QED
  BY <1>1, <1>4, <1>6 DEF GoodPage

\* A namespace's page is good,
LEMMA NamespacePageIsGood ==
    ASSUME NEW m, NEW r, IrOK(r), NEW u \in Present(r), Kind(r, u) = "namespace"
    PROVE  Good("class", r, NamespacePage(m, r, u))
<1> DEFINE s == Children(m, r, u, None)
           I == {i \in DOMAIN s : ~ Container(r, s[i])}
           leaves == Chosen(s, I)
           own == [Page(<<"namespace", u>>, r.sym[u].path, leaves) EXCEPT !.shallow = <<u>>]
<1>1. NamespacePage(m, r, u) = IF leaves # <<>> \/ Documented(r, u) THEN <<own>> ELSE <<>>
  BY DEF NamespacePage, Those
<1>2. IsList(leaves) /\ ToSet(leaves) \subseteq Present(r)
  <2>1. IsList(s) /\ ToSet(s) \subseteq Present(r)
    BY ChildrenAre DEF ChildrenOf
  <2> HIDE DEF s, I
  <2> QED
    BY <2>1, ChosenOf
<1> HIDE DEF leaves
<1>3. /\ own.id = <<"namespace", u>> /\ own.name = r.sym[u].path /\ own.deep = leaves
      /\ own.shallow = <<u>> /\ own.file = None /\ own.up = None
  BY DEF Page
<1>4. own.id[1] # "group" /\ Placed("class", own)
  BY <1>3 DEF Placed
<1> HIDE DEF own
<1>5. GoodPage("class", r, own)
  BY <1>2, <1>3, <1>4, HeadedPageIsGood
<1> QED
  BY <1>1, <1>5, GoodFew

\* and so are those of what is in it, by a least one of which they are not.
LEMMA ClassPagesAreGood ==
    ASSUME NEW m, NEW r, IrOK(r)
    PROVE  \A u \in Present(r) : Good("class", r, ClassPages(m, r)[u])
<1> DEFINE W == {u \in Present(r) : ~ Good("class", r, ClassPages(m, r)[u])}
<1> SUFFICES ASSUME W # {} PROVE FALSE
  OBVIOUS
<1>1. PICK u \in W : ChildrenOf(r, u) \intersect W = {}
  BY DEF IrOK
<1>2. u \in Present(r) /\ ~ Good("class", r, ClassPages(m, r)[u])
  OBVIOUS
<1>3. ClassPages(m, r)[u] = ClassStep(m, r, ClassPages(m, r), u)
  BY <1>2, ClassPagesAre
<1> DEFINE t == Containers(m, r, u)
           f == [i \in DOMAIN t |-> ClassPages(m, r)[t[i]]]
<1>4. IsList(t) /\ ToSet(t) \subseteq ChildrenOf(r, u)
  BY ContainersAre
<1>5. \A i \in DOMAIN t : Good("class", r, f[i])
  BY <1>1, <1>4 DEF ToSet, ChildrenOf
<1>6. ClassPages(m, r)[u] = IF Kind(r, u) # "namespace" THEN <<SymbolPage(r, u)>>
                            ELSE NamespacePage(m, r, u) \o FlattenSeq(<<>> \o f)
  BY <1>3 DEF ClassStep, Each
<1> HIDE DEF t
<1>7. IsList(f) /\ <<>> \o f = f /\ DOMAIN f = DOMAIN t
  BY <1>4, EachIsList
<1> HIDE DEF f
<1>8. Good("class", r, FlattenSeq(f))
  BY <1>5, <1>7, GoodAll
<1>9. Kind(r, u) = "namespace" => Good("class", r, NamespacePage(m, r, u) \o FlattenSeq(f))
  BY <1>2, <1>8, NamespacePageIsGood, GoodBoth
<1>10. Good("class", r, <<SymbolPage(r, u)>>)
  <2>1. PICK p : p = SymbolPage(r, u)
    OBVIOUS
  <2>2. /\ p.id[1] # "group" /\ p.name = PageName(r, u) /\ p.deep = <<u>>
        /\ p.shallow = <<>> /\ p.file = None /\ Placed("class", p)
    BY <2>1 DEF SymbolPage, Page, Placed
  <2>3. GoodPage("class", r, p)
    BY <1>2, <2>2, SymbolPageIsGood
  <2> QED
    BY <2>1, <2>3, GoodFew
<1> QED
  BY <1>2, <1>6, <1>7, <1>9, <1>10

\* A lumped page is good,
LEMMA LumpedIsGood ==
    ASSUME NEW r, IrOK(r), NEW s, NEW suffix, suffix \notin {"none", "group", "hub"},
           NEW members, IsList(members), ToSet(members) \subseteq ChildrenOf(r, s),
           \A u \in ToSet(members) : LumpOf(r, u) = suffix
    PROVE  GoodAt(r, s, Lumped(r, s, suffix, members))
<1> DEFINE key == [i \in DOMAIN members |-> <<Rank(Spelling(r, members[i]))>> \o r.sym[members[i]].sig]
           listed == IF Len(members) < 2 THEN members ELSE <<>> \o SortedBy(members, <<>> \o key)
           own == [Page(<<suffix, s>>, ScopePath(r, s) \o <<suffix>>, listed)
                      EXCEPT !.up = s, !.entry = <<suffix>>]
<1>1. Lumped(r, s, suffix, members) = IF members = <<>> THEN <<>> ELSE <<own>>
  BY DEF Lumped, Sorted, Each
<1>2. ToSet(members) \subseteq Present(r)
  BY DEF ChildrenOf
<1>3. key = [i \in DOMAIN members |-> key[i]] /\ \A i \in DOMAIN members : key[i] \in Seq(Nat)
  BY <1>2, SigIsNumbers DEF ToSet
<1> HIDE DEF key
<1>4. /\ IsList(listed) /\ ToSet(listed) = ToSet(members)
      /\ members # <<>> => listed # <<>>
  BY <1>3, SortedKeeps
<1> HIDE DEF listed
<1>5. /\ own.id = <<suffix, s>> /\ own.name = ScopePath(r, s) \o <<suffix>>
      /\ own.deep = listed /\ own.shallow = <<>> /\ own.file = None /\ own.up = s
  BY DEF Page
<1>6. own.id[1] # "group" /\ own.id[1] # "hub" /\ Placed("namespace", own)
  BY <1>5 DEF Placed
<1> HIDE DEF own
<1>7. \A u \in ToSet(listed) : own.name = NameOf("namespace", r, u)
  BY <1>4, <1>5 DEF NameOf, ChildrenOf
<1>8. members # <<>> => GoodPageAt(r, s, own)
  <2> SUFFICES ASSUME members # <<>> PROVE GoodPageAt(r, s, own)
    OBVIOUS
  <2>1. PICK by : by = "namespace" /\ by # "file"
    OBVIOUS
  <2>2. GoodPage("namespace", r, own)
    BY <1>2, <1>4, <1>5, <1>6, <1>7, <2>1, SharedPageIsGood
  <2> QED
    BY <1>5, <1>6, <2>2 DEF GoodPageAt
<1> QED
  BY <1>1, <1>8, GoodFewAt

\* and so are those of functions, a page for each name,
LEMMA FunctionPagesAreGood ==
    ASSUME NEW r, IrOK(r), NEW s, NEW functions, IsList(functions),
           ToSet(functions) \subseteq ChildrenOf(r, s),
           \A u \in ToSet(functions) : Kind(r, u) = "function"
    PROVE  GoodAt(r, s, FunctionPages(r, s, functions))
<1> DEFINE I == {i \in DOMAIN functions : Spelling(r, functions[i]) \notin Operators}
           J == {i \in DOMAIN functions : Spelling(r, functions[i]) \in Operators}
           named == Chosen(functions, I)
           lumped == Chosen(functions, J)
           spelled == [i \in DOMAIN named |-> Spelling(r, named[i])]
           N == {Spelling(r, u) : u \in ToSet(named)}
           t == SetToSeq(N)
           key == [i \in DOMAIN t |-> <<Rank(t[i])>>]
           names == IF Len(t) < 2 THEN t ELSE <<>> \o SortedBy(t, <<>> \o key)
           K(x) == {i \in DOMAIN named : Spelling(r, named[i]) = x}
           Same(x) == Chosen(named, K(x))
           sigs(x) == [i \in DOMAIN Same(x) |-> r.sym[Same(x)[i]].sig]
           Overloads(x) == IF Len(Same(x)) < 2 THEN Same(x)
                           ELSE <<>> \o SortedBy(Same(x), <<>> \o sigs(x))
           NamePage(x) == [Page(<<"overloads", s, x>>, r.sym[Overloads(x)[1]].path, Overloads(x))
                              EXCEPT !.up = s, !.entry = <<x>>]
           f == [i \in DOMAIN names |-> NamePage(names[i])]
<1>1. FunctionPages(r, s, functions) = (<<>> \o f) \o Lumped(r, s, "operators", lumped)
  BY DEF FunctionPages, Those, Sorted, Each
<1>2. /\ IsList(named) /\ ToSet(named) \subseteq ChildrenOf(r, s)
      /\ \A u \in ToSet(named) : /\ u \in Present(r) /\ Kind(r, u) = "function"
                                 /\ Spelling(r, u) \notin Operators
  <2>1. IsList(named) /\ ToSet(named) = {functions[i] : i \in I \intersect DOMAIN functions}
    <3> HIDE DEF I
    <3> QED
      BY ChosenList
  <2> HIDE DEF named
  <2>2. ASSUME NEW u \in ToSet(named)
        PROVE  u \in ToSet(functions) /\ Spelling(r, u) \notin Operators
    BY <2>1 DEF ToSet
  <2> QED
    BY <2>1, <2>2 DEF ChildrenOf
<1>3. /\ IsList(lumped) /\ ToSet(lumped) \subseteq ChildrenOf(r, s)
      /\ \A u \in ToSet(lumped) : LumpOf(r, u) = "operators"
  <2>1. IsList(lumped) /\ ToSet(lumped) = {functions[i] : i \in J \intersect DOMAIN functions}
    <3> HIDE DEF J
    <3> QED
      BY ChosenList
  <2> HIDE DEF lumped
  <2>2. ASSUME NEW u \in ToSet(lumped)
        PROVE  u \in ToSet(functions) /\ Spelling(r, u) \in Operators
    BY <2>1 DEF ToSet
  <2> QED
    BY <2>1, <2>2 DEF LumpOf
<1>4. GoodAt(r, s, Lumped(r, s, "operators", lumped))
  BY <1>3, LumpedIsGood
<1> HIDE DEF I, J, named, lumped
<1>5. IsFiniteSet(N)
  <2>1. N = {spelled[i] : i \in DOMAIN named}
    BY DEF ToSet
  <2> HIDE DEF N
  <2>2. PICK g : g = spelled
    OBVIOUS
  <2>3. DOMAIN g = DOMAIN named /\ g = [i \in DOMAIN named |-> g[i]]
    BY <2>2
  <2>4. IsFiniteSet({g[i] : i \in DOMAIN named})
    BY <1>2, <2>2, <2>3, FinitelyMany
  <2>5. N = {g[i] : i \in DOMAIN named}
    BY <2>1, <2>2
  <2> QED
    BY <2>4, <2>5
<1>6. IsList(t) /\ ToSet(t) = N
  <2> HIDE DEF N
  <2> QED
    BY <1>5, SetHasList
<1>7. key = [i \in DOMAIN t |-> key[i]] /\ \A i \in DOMAIN t : key[i] \in Seq(Nat)
  <2> HIDE DEF t
  <2>1. ASSUME NEW i \in DOMAIN t PROVE Rank(t[i]) \in Nat
    <3>1. t[i] \in N
      BY <1>6 DEF ToSet
    <3>2. PICK u \in ToSet(named) : t[i] = Spelling(r, u)
      BY <3>1
    <3> QED
      BY <1>2, <3>2, SpellingIsRanked
  <2>2. ASSUME NEW i \in DOMAIN t PROVE key[i] \in Seq(Nat)
    BY <2>1
  <2> QED
    BY <2>2
<1>8. IsList(names) /\ ToSet(names) = N
  <2> HIDE DEF t, key, N
  <2> QED
    BY <1>6, <1>7, SortedKeeps
<1> HIDE DEF t, key, names
<1>9. ASSUME NEW x \in N PROVE GoodPageAt(r, s, NamePage(x))
  <2>1. /\ IsList(Same(x)) /\ ToSet(Same(x)) \subseteq ToSet(named) /\ Same(x) # <<>>
    <3>1. IsList(Same(x)) /\ ToSet(Same(x)) = {named[i] : i \in K(x) \intersect DOMAIN named}
      <4> HIDE DEF K
      <4> QED
        BY <1>2, ChosenList
    <3>2. PICK u \in ToSet(named) : x = Spelling(r, u)
      OBVIOUS
    <3>3. PICK i \in DOMAIN named : named[i] = u
      BY <3>2 DEF ToSet
    <3>4. i \in K(x)
      BY <3>2, <3>3
    <3> HIDE DEF Same, K
    <3>5. u \in ToSet(Same(x))
      BY <3>1, <3>3, <3>4
    <3>6. ToSet(<<>>) = {}
      BY DEF ToSet
    <3> QED
      BY <3>1, <3>5, <3>6 DEF ToSet
  <2> HIDE DEF Same
  <2>2. PICK g : g = sigs(x)
    OBVIOUS
  <2>3. g = [i \in DOMAIN Same(x) |-> g[i]] /\ \A i \in DOMAIN Same(x) : g[i] \in Seq(Nat)
    <3>1. \A i \in DOMAIN Same(x) : Same(x)[i] \in Present(r)
      BY <1>2, <2>1 DEF ToSet
    <3>2. \A i \in DOMAIN Same(x) : r.sym[Same(x)[i]].sig \in Seq(Nat)
      BY <3>1, SigIsNumbers
    <3> QED
      BY <2>2, <3>2
  <2> HIDE DEF sigs
  <2>4. IsList(Overloads(x)) /\ ToSet(Overloads(x)) \subseteq ToSet(named) /\ Overloads(x) # <<>>
    <3>1. Overloads(x) = IF Len(Same(x)) < 2 THEN Same(x) ELSE <<>> \o SortedBy(Same(x), <<>> \o g)
      BY <2>2
    <3> HIDE DEF Overloads
    <3>2. PICK c : c = Same(x)
      OBVIOUS
    <3> QED
      BY <2>1, <2>3, <3>1, <3>2, SortedKeeps
  <2> HIDE DEF Overloads
  <2>5. PICK d : d = Overloads(x)
    OBVIOUS
  <2>6. PICK p : p = NamePage(x)
    OBVIOUS
  <2>7. /\ p.id = <<"overloads", s, x>> /\ p.name = r.sym[d[1]].path
        /\ p.deep = d /\ p.shallow = <<>> /\ p.file = None /\ p.up = s
    BY <2>5, <2>6 DEF Page
  <2>8. p.id[1] # "group" /\ p.id[1] # "hub" /\ Placed("namespace", p)
    BY <2>7 DEF Placed
  <2> HIDE DEF NamePage
  <2>9. \A u \in ToSet(d) : LumpOf(r, u) = "none" /\ PageName(r, u) = r.sym[u].path
    BY <1>2, <2>4, <2>5 DEF LumpOf, PageName
  <2>10. \A u \in ToSet(p.deep) : u = p.deep[1] => p.name = NameOf("namespace", r, u)
    BY <2>7, <2>9 DEF NameOf
  <2>11. ToSet(d) \subseteq Present(r) /\ IsList(d) /\ d # <<>>
    BY <1>2, <2>4, <2>5
  <2>12. PICK by : by = "namespace" /\ by # "file"
    OBVIOUS
  <2>13. GoodPage("namespace", r, p)
    BY <2>7, <2>8, <2>10, <2>11, <2>12, SharedPageIsGood
  <2> QED
    BY <2>6, <2>7, <2>8, <2>13 DEF GoodPageAt
<1> HIDE DEF NamePage, N
<1>10. GoodAt(r, s, <<>> \o f)
  <2>1. \A i \in DOMAIN names : GoodPageAt(r, s, f[i])
    BY <1>8, <1>9 DEF ToSet
  <2> QED
    BY <1>8, <2>1, GoodEachAt
<1> HIDE DEF f
<1> QED
  BY <1>1, <1>4, <1>10, GoodBothAt

\* and those of members of every kind.
LEMMA MemberPagesAreGood ==
    ASSUME NEW r, IrOK(r), NEW s, NEW members, IsList(members),
           ToSet(members) \subseteq ChildrenOf(r, s)
    PROVE  GoodAt(r, s, MemberPages(r, s, members))
<1> DEFINE I(kinds) == {i \in DOMAIN members : Kind(r, members[i]) \in kinds}
           Of(kinds) == Chosen(members, I(kinds))
           RecordPage(u) == [SymbolPage(r, u) EXCEPT
                                !.up = s, !.entry = <<Spelling(r, u)>> \o r.sym[u].spec]
           t == BySpelling(r, Of({"record"}))
           f == [i \in DOMAIN t |-> RecordPage(t[i])]
           types == Of({"enum", "alias"})
           constants == Of({"variable", "macro"})
           other == Of({"field", "enumerator"})
<1>1. MemberPages(r, s, members) =
          (((<<>> \o f) \o FunctionPages(r, s, Of({"function"})))
          \o Lumped(r, s, "types", types)) \o Lumped(r, s, "constants", constants)
          \o Lumped(r, s, "other", other)
  BY DEF MemberPages, Those, Each
<1>2. ASSUME NEW kinds
      PROVE  /\ IsList(Of(kinds)) /\ ToSet(Of(kinds)) \subseteq ChildrenOf(r, s)
             /\ \A u \in ToSet(Of(kinds)) : u \in Present(r) /\ Kind(r, u) \in kinds
  <2>1. /\ IsList(Of(kinds))
        /\ ToSet(Of(kinds)) = {members[i] : i \in I(kinds) \intersect DOMAIN members}
    <3> HIDE DEF I
    <3> QED
      BY ChosenList
  <2> HIDE DEF Of
  <2>2. ASSUME NEW u \in ToSet(Of(kinds)) PROVE u \in ToSet(members) /\ Kind(r, u) \in kinds
    BY <2>1 DEF ToSet
  <2> QED
    BY <2>1, <2>2 DEF ChildrenOf
<1> HIDE DEF I, Of
<1>3. GoodAt(r, s, Lumped(r, s, "types", types))
  <2>1. \A u \in ToSet(types) : LumpOf(r, u) = "types"
    BY <1>2 DEF LumpOf
  <2> QED
    BY <1>2, <2>1, LumpedIsGood
<1>4. GoodAt(r, s, Lumped(r, s, "constants", constants))
  <2>1. \A u \in ToSet(constants) : LumpOf(r, u) = "constants"
    BY <1>2 DEF LumpOf
  <2> QED
    BY <1>2, <2>1, LumpedIsGood
<1>5. GoodAt(r, s, Lumped(r, s, "other", other))
  <2>1. \A u \in ToSet(other) : LumpOf(r, u) = "other"
    BY <1>2 DEF LumpOf
  <2> QED
    BY <1>2, <2>1, LumpedIsGood
<1>6. GoodAt(r, s, FunctionPages(r, s, Of({"function"})))
  <2>1. \A u \in ToSet(Of({"function"})) : Kind(r, u) = "function"
    BY <1>2
  <2> QED
    BY <1>2, <2>1, FunctionPagesAreGood
<1> HIDE DEF types, constants, other
<1>7. GoodAt(r, s, <<>> \o f)
  <2>1. IsList(t) /\ ToSet(t) = ToSet(Of({"record"}))
    <3>1. ToSet(Of({"record"})) \subseteq Present(r)
      BY <1>2
    <3> QED
      BY <1>2, <3>1, BySpellingIs
  <2>2. \A u \in ToSet(t) : u \in Present(r) /\ Kind(r, u) = "record"
    BY <1>2, <2>1
  <2> HIDE DEF t
  <2>3. ASSUME NEW i \in DOMAIN t PROVE GoodPageAt(r, s, f[i])
    <3>1. PICK u : u = t[i] /\ u \in Present(r) /\ Kind(r, u) = "record"
      BY <2>2 DEF ToSet
    <3>2. PICK p : p = RecordPage(u)
      OBVIOUS
    <3>3. p.id = <<"symbol", u>> /\ p.name = PageName(r, u) /\ p.deep = <<u>>
          /\ p.shallow = <<>> /\ p.file = None /\ p.up = s
      BY <3>2 DEF SymbolPage, Page
    <3>4. p.id[1] # "group" /\ p.id[1] # "hub" /\ Placed("namespace", p)
      BY <3>3 DEF Placed
    <3>5. LumpOf(r, u) = "none"
      BY <3>1 DEF LumpOf
    <3>6. f[i] = p
      BY <3>1, <3>2
    <3> HIDE DEF f, RecordPage
    <3>7. GoodPage("namespace", r, p)
      BY <3>1, <3>3, <3>4, <3>5, SymbolPageIsGood
    <3> QED
      BY <3>3, <3>4, <3>6, <3>7 DEF GoodPageAt
  <2>4. f = [i \in DOMAIN t |-> f[i]]
    OBVIOUS
  <2> HIDE DEF f
  <2> QED
    BY <2>1, <2>3, <2>4, GoodEachAt
<1> HIDE DEF f
<1>8. GoodAt(r, s, (<<>> \o f) \o FunctionPages(r, s, Of({"function"})))
  BY <1>6, <1>7, GoodBothAt
<1>9. GoodAt(r, s, ((<<>> \o f) \o FunctionPages(r, s, Of({"function"})))
                           \o Lumped(r, s, "types", types))
  BY <1>3, <1>8, GoodBothAt
<1>10. GoodAt(r, s, (((<<>> \o f) \o FunctionPages(r, s, Of({"function"})))
                            \o Lumped(r, s, "types", types))
                            \o Lumped(r, s, "constants", constants))
  BY <1>4, <1>9, GoodBothAt
<1> QED
  BY <1>1, <1>5, <1>10, GoodBothAt

\* A hub is good, after what is below it,
LEMMA HubPageIsGood ==
    ASSUME NEW r, NEW s, NEW ns \in Present(r), Kind(r, ns) = "namespace",
           NEW below, Good("namespace", r, below)
    PROVE  Good("namespace", r, HubPage(r, s, ns, below))
<1> DEFINE own == [Page(<<"hub", ns>>, r.sym[ns].path, <<>>)
                      EXCEPT !.shallow = <<ns>>, !.up = s, !.entry = <<Spelling(r, ns)>>]
<1>1. HubPage(r, s, ns, below) = below \o IF HubKept(r, ns, below) THEN <<own>> ELSE <<>>
  BY DEF HubPage
<1>2. own.id = <<"hub", ns>> /\ own.name = r.sym[ns].path /\ own.deep = <<>>
      /\ own.shallow = <<ns>> /\ own.file = None
  BY DEF Page
<1>3. own.id[1] # "group" /\ Placed("namespace", own)
  BY <1>2 DEF Placed
<1> HIDE DEF own
<1>4. IsList(<<>>) /\ ToSet(<<>>) \subseteq Present(r)
  BY ShortLists DEF ToSet
<1>5. GoodPage("namespace", r, own)
  BY <1>2, <1>3, <1>4, HeadedPageIsGood
<1>6. Good("namespace", r, IF HubKept(r, ns, below) THEN <<own>> ELSE <<>>)
  BY <1>5, GoodFew
<1> QED
  BY <1>1, <1>6, GoodBoth

\* and all together are, by a least scope of which it is not so.
LEMMA ScopePagesAreGood ==
    ASSUME NEW m, NEW r, IrOK(r)
    PROVE  \A s \in Present(r) \union {None} : Good("namespace", r, ScopePages(m, r)[s])
<1> DEFINE S == Present(r) \union {None}
           W == {s \in S : ~ Good("namespace", r, ScopePages(m, r)[s])}
<1>1. ASSUME NEW s \in S, ChildrenOf(r, s) \intersect W = {}
      PROVE  s \notin W
  <2> DEFINE t == Namespaces(r, Members(m, r, s))
             f == [i \in DOMAIN t |-> HubPage(r, s, t[i], ScopePages(m, r)[t[i]])]
  <2>1. ScopePages(m, r)[s] = ScopeOf(m, r, ScopePages(m, r), s)
    BY ScopePagesAre
  <2>2. ScopePages(m, r)[s] = FlattenSeq(<<>> \o f) \o MemberPages(r, s, Members(m, r, s))
    BY <2>1 DEF ScopeOf, Each
  <2>3. /\ IsList(t) /\ ToSet(t) \subseteq ChildrenOf(r, s)
        /\ \A u \in ToSet(t) : Kind(r, u) = "namespace"
    BY NamespacesAre
  <2> HIDE DEF t
  <2>4. \A i \in DOMAIN t : Good("namespace", r, ScopePages(m, r)[t[i]])
    BY <1>1, <2>3 DEF ToSet, ChildrenOf
  <2>5. \A i \in DOMAIN t : Good("namespace", r, f[i])
    <3>1. \A i \in DOMAIN t : t[i] \in Present(r) /\ Kind(r, t[i]) = "namespace"
      BY <2>3 DEF ToSet, ChildrenOf
    <3> QED
      BY <2>4, <3>1, HubPageIsGood
  <2>6. IsList(f) /\ <<>> \o f = f /\ DOMAIN f = DOMAIN t
    BY <2>3, EachIsList
  <2> HIDE DEF f
  <2>7. Good("namespace", r, FlattenSeq(f))
    BY <2>5, <2>6, GoodAll
  <2>8. IsList(Members(m, r, s)) /\ ToSet(Members(m, r, s)) \subseteq ChildrenOf(r, s)
    BY MembersAre
  <2>9. Good("namespace", r, MemberPages(r, s, Members(m, r, s)))
    BY <2>8, MemberPagesAreGood, GoodAtIsGood
  <2>10. Good("namespace", r, ScopePages(m, r)[s])
    BY <2>2, <2>6, <2>7, <2>9, GoodBoth
  <2> QED
    BY <2>10
<1>2. W \intersect Present(r) = {}
  <2> SUFFICES ASSUME W \intersect Present(r) # {} PROVE FALSE
    OBVIOUS
  <2> HIDE DEF W
  <2>1. PICK u \in W \intersect Present(r) : ChildrenOf(r, u) \intersect (W \intersect Present(r)) = {}
    BY DEF IrOK
  <2>2. ChildrenOf(r, u) \intersect W = {} /\ u \in S
    BY <2>1 DEF ChildrenOf
  <2> QED
    BY <1>1, <2>1, <2>2
<1>3. None \notin W
  <2> HIDE DEF W
  <2>1. ChildrenOf(r, None) \intersect W = {}
    BY <1>2 DEF ChildrenOf
  <2> QED
    BY <1>1, <2>1
<1> QED
  BY <1>2, <1>3

\* The pages of symbols, in each grouping.
OwnPages(m, r) ==
    CASE m.by = "symbol"    -> SymbolPages(m, r)
      [] m.by = "file"      -> FilePages(m, r)
      [] m.by = "class"     -> FlattenSeq(Each(Roots(m, r), LAMBDA u : ClassPages(m, r)[u]))
      [] m.by = "namespace" -> ScopePages(m, r)[None]

\* A page for each root is good,
LEMMA SymbolPagesAreGood ==
    ASSUME NEW m, NEW r, IrOK(r)
    PROVE  Good("symbol", r, SymbolPages(m, r))
<1> DEFINE t == Roots(m, r)
           f == [i \in DOMAIN t |-> SymbolPage(r, t[i])]
<1>1. SymbolPages(m, r) = <<>> \o f
  BY DEF SymbolPages, Each
<1>2. IsList(t) /\ ToSet(t) \subseteq Present(r)
  BY RootsAre DEF ChildrenOf
<1> HIDE DEF t
<1>3. ASSUME NEW i \in DOMAIN t PROVE GoodPage("symbol", r, f[i])
  <2>1. PICK u : u = t[i] /\ u \in Present(r)
    BY <1>2 DEF ToSet
  <2>2. PICK p : p = SymbolPage(r, u)
    OBVIOUS
  <2>3. p.id = <<"symbol", u>> /\ p.name = PageName(r, u) /\ p.deep = <<u>>
        /\ p.shallow = <<>> /\ p.file = None /\ p.up = None
    BY <2>2 DEF SymbolPage, Page
  <2>4. p.id[1] # "group" /\ Placed("symbol", p)
    BY <2>3 DEF Placed
  <2>5. f[i] = p
    BY <2>1, <2>2
  <2> HIDE DEF f
  <2>6. GoodPage("symbol", r, p)
    BY <2>1, <2>3, <2>4, SymbolPageIsGood
  <2> QED
    BY <2>5, <2>6
<1>4. f = [i \in DOMAIN t |-> f[i]]
  OBVIOUS
<1> HIDE DEF f
<1> QED
  BY <1>1, <1>2, <1>3, <1>4, GoodEach

\* and so is one for each file,
LEMMA FilePagesAreGood ==
    ASSUME NEW m, NEW r, IrOK(r)
    PROVE  Good("file", r, FilePages(m, r))
<1> DEFINE f == [i \in DOMAIN Files |-> FilePage(m, r, Files[i])]
           I == {i \in DOMAIN (<<>> \o f) : (<<>> \o f)[i].deep # <<>>}
<1>1. FilePages(m, r) = Chosen(<<>> \o f, I)
  BY DEF FilePages, Those, Each
<1>2. IsList(Files)
  BY PagesAssumption, SequenceIsList
<1>3. ASSUME NEW i \in DOMAIN Files PROVE GoodPage("file", r, f[i])
  <2>1. PICK g : g = Files[i] /\ g \in ToSet(Files)
    BY DEF ToSet
  <2>2. PICK p : p = FilePage(m, r, g)
    OBVIOUS
  <2>3. p.id = <<"file", g>> /\ p.name = <<BaseName(g)>> /\ p.deep = FileRoots(m, r, g)
        /\ p.shallow = <<>> /\ p.file = g /\ p.up = None
    BY <2>2 DEF FilePage, Page
  <2>4. p.id[1] # "group" /\ Placed("file", p)
    BY <2>3 DEF Placed
  <2>5. f[i] = p
    BY <2>1, <2>2
  <2> HIDE DEF f
  <2>6. SymbolsOf(r, p)
    <3>1. IsList(<<>>) /\ ToSet(<<>>) \subseteq Present(r)
      BY ShortLists DEF ToSet
    <3>2. IsList(FileRoots(m, r, g)) /\ ToSet(FileRoots(m, r, g)) \subseteq Present(r)
      BY FileRootsAre
    <3> QED
      BY <2>3, <3>1, <3>2 DEF SymbolsOf
  <2>7. GoodPage("file", r, p)
    BY <2>1, <2>3, <2>4, <2>6 DEF GoodPage
  <2> QED
    BY <2>5, <2>7
<1>4. f = [i \in DOMAIN Files |-> f[i]]
  OBVIOUS
<1> HIDE DEF f, I
<1>5. Good("file", r, <<>> \o f)
  BY <1>2, <1>3, <1>4, GoodEach
<1> QED
  BY <1>1, <1>5, GoodChosen

\* and all that a grouping walks.
LEMMA OwnPagesAreGood ==
    ASSUME NEW m, NEW r, IrOK(r), m.by \in {"symbol", "file", "class", "namespace"}
    PROVE  Good(m.by, r, OwnPages(m, r))
<1>1. Good("class", r, FlattenSeq(Each(Roots(m, r), LAMBDA u : ClassPages(m, r)[u])))
  <2> DEFINE t == Roots(m, r)
             f == [i \in DOMAIN t |-> ClassPages(m, r)[t[i]]]
  <2>1. FlattenSeq(Each(Roots(m, r), LAMBDA u : ClassPages(m, r)[u])) = FlattenSeq(<<>> \o f)
    BY DEF Each
  <2>2. IsList(t) /\ ToSet(t) \subseteq Present(r)
    BY RootsAre DEF ChildrenOf
  <2> HIDE DEF t
  <2>3. \A i \in DOMAIN t : Good("class", r, f[i])
    BY <2>2, ClassPagesAreGood DEF ToSet
  <2>4. IsList(f) /\ <<>> \o f = f /\ DOMAIN f = DOMAIN t
    BY <2>2, EachIsList
  <2> HIDE DEF f
  <2> QED
    BY <2>1, <2>3, <2>4, GoodAll
<1>2. Good("namespace", r, ScopePages(m, r)[None])
  BY ScopePagesAreGood
<1>3. CASE m.by = "symbol"
  BY <1>3, SymbolPagesAreGood DEF OwnPages
<1>4. CASE m.by = "file"
  BY <1>4, FilePagesAreGood DEF OwnPages
<1>5. CASE m.by = "class"
  BY <1>5, <1>1 DEF OwnPages
<1>6. CASE m.by = "namespace"
  BY <1>6, <1>2 DEF OwnPages
<1> QED
  BY <1>3, <1>4, <1>5, <1>6

\* A group's page.
IsGroupPage(r, p) ==
    \E g \in ToSet(Groups) : r.grp[g] # None /\ p = Page(<<"group", g>>, <<GroupName(g)>>, <<>>)

\* The groups are those there are.
LEMMA GroupsAre ==
    ASSUME NEW r, IrOK(r)
    PROVE  /\ IsList(GroupsOf(r)) /\ ToSet(GroupsOf(r)) \subseteq ToSet(Groups)
           /\ \A g \in ToSet(GroupsOf(r)) : r.grp[g] # None
<1> DEFINE I == {i \in DOMAIN Groups : r.grp[Groups[i]] # None}
           t == Chosen(Groups, I)
           key == [i \in DOMAIN t |-> <<r.grp[t[i]].title>>]
<1>1. GroupsOf(r) = IF Len(t) < 2 THEN t ELSE <<>> \o SortedBy(t, <<>> \o key)
  BY DEF GroupsOf, Sorted, Those, Each
<1>2. IsList(Groups)
  BY PagesAssumption, SequenceIsList
<1>3. IsList(t) /\ \A g \in ToSet(t) : g \in ToSet(Groups) /\ r.grp[g] # None
  <2>1. IsList(t) /\ ToSet(t) = {Groups[i] : i \in I \intersect DOMAIN Groups}
    <3> HIDE DEF I
    <3> QED
      BY <1>2, ChosenList
  <2> HIDE DEF t
  <2> QED
    BY <2>1 DEF ToSet
<1>4. \A g \in ToSet(t) : r.grp[g].title \in Nat
  BY <1>3 DEF IrOK, GroupRow
<1> HIDE DEF t
<1>5. key = [i \in DOMAIN t |-> key[i]] /\ \A i \in DOMAIN t : key[i] \in Seq(Nat)
  BY <1>4 DEF ToSet
<1> HIDE DEF key
<1> QED
  BY <1>1, <1>3, <1>5, SortedKeeps

\* The pages of groups are theirs.
LEMMA GroupPagesAre ==
    ASSUME NEW r, IrOK(r)
    PROVE  IsList(GroupPages(r)) /\ \A p \in ToSet(GroupPages(r)) : IsGroupPage(r, p)
<1> DEFINE all == GroupsOf(r)
           I == {i \in DOMAIN all : r.grp[all[i]].parent = None}
           J == {i \in DOMAIN all : r.grp[all[i]].parent # None}
           t == Chosen(all, I) \o Chosen(all, J)
           f == [i \in DOMAIN t |-> Page(<<"group", t[i]>>, <<GroupName(t[i])>>, <<>>)]
<1>1. GroupPages(r) = <<>> \o f
  BY DEF GroupPages, Each, Those
<1>2. IsList(t) /\ ToSet(t) \subseteq ToSet(all)
  <2> HIDE DEF I, J, all
  <2>1. IsList(Chosen(all, I)) /\ ToSet(Chosen(all, I)) \subseteq ToSet(all)
    BY GroupsAre, ChosenOf DEF all
  <2>2. IsList(Chosen(all, J)) /\ ToSet(Chosen(all, J)) \subseteq ToSet(all)
    BY GroupsAre, ChosenOf DEF all
  <2> QED
    BY <2>1, <2>2, AppendedList
<1> HIDE DEF t
<1>3. \A i \in DOMAIN t : IsGroupPage(r, f[i])
  <2> SUFFICES ASSUME NEW i \in DOMAIN t PROVE IsGroupPage(r, f[i])
    OBVIOUS
  <2>1. PICK g : g = t[i] /\ g \in ToSet(Groups) /\ r.grp[g] # None
    BY <1>2, GroupsAre DEF ToSet
  <2>2. f[i] = Page(<<"group", g>>, <<GroupName(g)>>, <<>>)
    BY <2>1
  <2> QED
    BY <2>1, <2>2 DEF IsGroupPage
<1>4. f = [i \in DOMAIN t |-> f[i]]
  OBVIOUS
<1> HIDE DEF f
<1>5. IsList(f) /\ <<>> \o f = f /\ ToSet(f) = {f[i] : i \in DOMAIN t}
  BY <1>2, <1>4, EachIsList
<1> QED
  BY <1>1, <1>3, <1>5

\* The pages that are planned, in order: of symbols, and of groups.
LEMMA WalkIs ==
    ASSUME NEW m, NEW r, IrOK(r), m.by \in {"symbol", "file", "class", "namespace"}
    PROVE  /\ IsList(WalkPages(m, r))
           /\ \A p \in ToSet(WalkPages(m, r)) : GoodPage(m.by, r, p) \/ IsGroupPage(r, p)
<1>1. PICK x : x = OwnPages(m, r) /\ Good(m.by, r, x)
  BY OwnPagesAreGood
<1>2. PICK y : y = GroupPages(r) /\ IsList(y) /\ \A p \in ToSet(y) : IsGroupPage(r, p)
  BY GroupPagesAre
<1>3. WalkPages(m, r) = x \o y
  BY <1>1, <1>2 DEF WalkPages, OwnPages
<1>4. IsList(x \o y) /\ ToSet(x \o y) = ToSet(x) \union ToSet(y)
  BY <1>1, <1>2, AppendedList DEF Good
<1> QED
  BY <1>1, <1>2, <1>3, <1>4 DEF Good

-----------------------------------------------------------------------------
(* Stems.                                                                  *)

\* A name's slug alone, and with its digest.
Bare(name) == Stem(name, <<>>)
Digested(name) == Stem(name, <<name>>)

\* Folding leaves tags and pads alone.
LEMMA FoldIs ==
    ASSUME NEW slug, NEW tag, NEW pad
    PROVE  Fold([slug |-> slug, tag |-> tag, pad |-> pad])
               = [slug |-> Each(slug, LAMBDA w : Lower(w)), tag |-> tag, pad |-> pad]
BY DEF Fold

\* Folding keeps the digest.
LEMMA TagIsKept ==
    ASSUME NEW name, NEW tag
    PROVE  Fold(Stem(name, tag)).tag = tag
<1>1. PICK slug : Stem(name, tag) = [slug |-> slug, tag |-> tag, pad |-> 0]
  BY DEF Stem
<1>2. Fold([slug |-> slug, tag |-> tag, pad |-> 0])
          = [slug |-> Each(slug, LAMBDA w : Lower(w)), tag |-> tag, pad |-> 0]
  BY FoldIs
<1> QED
  BY <1>1, <1>2

\* A stem is settled for each page, in the order of the walk.
SeenIn(wanted) == <<Fold(Reserved)>> \o Each(wanted, Fold)
PaddingOf(wanted, i) == Cardinality({j \in 1..i : SeenIn(wanted)[j] = SeenIn(wanted)[i + 1]})

\* What is wanted for a walk.
WantedFor(walk) == [i \in DOMAIN walk |-> Wanted(walk, Contested(walk), i)]

\* An entry is put before a list.
LEMMA Preceded ==
    ASSUME NEW x, NEW f, IsList(f)
    PROVE  (<<x>> \o f)[1] = x /\ \A i \in DOMAIN f : (<<x>> \o f)[i + 1] = f[i]
<1>1. PICK S : S = ToSet(f) \union {x}
  OBVIOUS
<1>2. x \in S /\ f \in Seq(S) /\ Len(f) \in Nat
  BY <1>1, ListFacts
<1>3. PICK one : one = <<x>>
  OBVIOUS
<1>4. one \in Seq(S) /\ Len(one) = 1 /\ one[1] = x
  BY <1>2, <1>3
<1>5. PICK all : all = one \o f
  OBVIOUS
<1>6. \A i \in 1..(1 + Len(f)) : all[i] = IF i <= 1 THEN one[i] ELSE f[i - 1]
  <2>1. \A i \in 1..(Len(one) + Len(f)) :
            (one \o f)[i] = IF i <= Len(one) THEN one[i] ELSE f[i - Len(one)]
    BY <1>2, <1>4, ConcatProperties
  <2> QED
    BY <1>4, <1>5, <2>1
<1>7. all[1] = x
  BY <1>2, <1>4, <1>6
<1>8. ASSUME NEW i \in 1..Len(f) PROVE all[i + 1] = f[i]
  BY <1>2, <1>6
<1>9. DOMAIN f = 1..Len(f)
  BY <1>2
<1> QED
  BY <1>3, <1>5, <1>7, <1>8, <1>9

\* Where the padding looks.
LEMMA SeenIs ==
    ASSUME NEW w, IsList(w)
    PROVE  /\ SeenIn(w)[1] = Fold(Reserved)
           /\ \A i \in DOMAIN w : SeenIn(w)[i + 1] = Fold(w[i])
<1> DEFINE f == [i \in DOMAIN w |-> Fold(w[i])]
<1>1. SeenIn(w) = <<Fold(Reserved)>> \o (<<>> \o f)
  BY DEF SeenIn, Each
<1>2. <<>> \o f = f /\ IsList(f) /\ DOMAIN f = DOMAIN w
  BY EachIsList
<1>3. \A i \in DOMAIN w : f[i] = Fold(w[i])
  OBVIOUS
<1> HIDE DEF f
<1> QED
  BY <1>1, <1>2, <1>3, Preceded

\* The plan of a walk.
LEMMA StemmedIs ==
    ASSUME NEW walk, IsList(walk)
    PROVE  /\ IsList(WantedFor(walk)) /\ IsList(Stemmed(walk))
           /\ DOMAIN WantedFor(walk) = DOMAIN walk /\ DOMAIN Stemmed(walk) = DOMAIN walk
           /\ \A i \in DOMAIN walk :
                  Stemmed(walk)[i] =
                      [page |-> walk[i],
                       stem |-> [WantedFor(walk)[i] EXCEPT !.pad = PaddingOf(WantedFor(walk), i)]]
<1>1. PICK w : w = WantedFor(walk)
  OBVIOUS
<1>2. w = [i \in DOMAIN walk |-> Wanted(walk, Contested(walk), i)]
  BY <1>1 DEF WantedFor
<1>3. DOMAIN w = DOMAIN walk /\ w = [i \in DOMAIN walk |-> w[i]]
  BY <1>2
<1>4. IsList(w) /\ <<>> \o w = w
  BY <1>3, EachIsList
<1> DEFINE f == [i \in DOMAIN walk |->
                    [page |-> walk[i], stem |-> [w[i] EXCEPT !.pad = PaddingOf(w, i)]]]
<1>5. Stemmed(walk) = WithStems(walk, w)
  BY <1>2, <1>4 DEF Stemmed, Settled
<1>6. WithStems(walk, w) = <<>> \o f
  BY DEF WithStems, PaddingOf, SeenIn
<1>7. IsList(f) /\ <<>> \o f = f /\ DOMAIN f = DOMAIN walk
  BY EachIsList
<1>8. \A i \in DOMAIN walk :
          f[i] = [page |-> walk[i], stem |-> [w[i] EXCEPT !.pad = PaddingOf(w, i)]]
  OBVIOUS
<1> HIDE DEF f
<1> QED
  BY <1>1, <1>3, <1>4, <1>5, <1>6, <1>7, <1>8

\* What a page wants depends on its name, and on whether the slug is contested.
LEMMA WantedIs ==
    ASSUME NEW walk, NEW i \in DOMAIN walk
    PROVE  WantedFor(walk)[i] = IF Fold(Bare(walk[i].name)) \in Contested(walk)
                                THEN Digested(walk[i].name) ELSE Bare(walk[i].name)
BY DEF WantedFor, Wanted, Bare, Digested

\* A slug that two names ask for is contested.
LEMMA ContestedIs ==
    ASSUME NEW walk, IsList(walk), NEW i \in DOMAIN walk, NEW j \in DOMAIN walk,
           Fold(Bare(walk[i].name)) = Fold(Bare(walk[j].name)), walk[i].name # walk[j].name
    PROVE  Fold(Bare(walk[i].name)) \in Contested(walk)
<1> DEFINE f == [k \in DOMAIN walk |-> Fold(Stem(walk[k].name, <<>>))]
<1>1. <<>> \o f = f
  BY EachIsList
<1>2. PICK g : g = f
  OBVIOUS
<1>3. \A k \in DOMAIN walk : g[k] = Fold(Stem(walk[k].name, <<>>))
  BY <1>2
<1>4. Contested(walk) = {g[k] : k \in {k \in DOMAIN walk : \E l \in DOMAIN walk :
                              g[l] = g[k] /\ walk[l].name # walk[k].name}}
  BY <1>1, <1>2 DEF Contested, Each
<1>5. g[i] = g[j] /\ g[i] = Fold(Bare(walk[i].name))
  BY <1>3 DEF Bare
<1> QED
  BY <1>4, <1>5

\* Earlier pages with a stem pad it.
LEMMA PaddingFacts ==
    ASSUME NEW w, IsList(w), NEW i \in DOMAIN w
    PROVE  /\ i \in Nat /\ PaddingOf(w, i) \in Nat
           /\ Fold(w[i]) = Fold(Reserved) => PaddingOf(w, i) # 0
           /\ \A j \in DOMAIN w : i < j /\ Fold(w[i]) = Fold(w[j]) => PaddingOf(w, i) < PaddingOf(w, j)
<1> DEFINE seen == SeenIn(w)
           P(j) == {k \in 1..j : seen[k] = seen[j + 1]}
<1>1. DOMAIN w = 1..Len(w) /\ Len(w) \in Nat
  BY ListFacts
<1>2. seen[1] = Fold(Reserved) /\ \A j \in DOMAIN w : seen[j + 1] = Fold(w[j])
  BY SeenIs
<1>3. \A j \in DOMAIN w : j \in Nat /\ PaddingOf(w, j) = Cardinality(P(j))
  BY <1>1 DEF PaddingOf
<1> HIDE DEF seen
<1>4. ASSUME NEW j \in DOMAIN w
      PROVE  IsFiniteSet(P(j)) /\ Cardinality(P(j)) \in Nat
  <2>0. PICK n \in Nat : n = j
    BY <1>3
  <2>1. IsFiniteSet(1..j)
    BY <2>0, FS_Interval
  <2>2. P(j) \subseteq 1..j
    OBVIOUS
  <2> HIDE DEF P
  <2>3. IsFiniteSet(P(j))
    BY <2>1, <2>2, FS_Subset
  <2> QED
    BY <2>3, FS_CardinalityType
<1>5. ASSUME Fold(w[i]) = Fold(Reserved) PROVE PaddingOf(w, i) # 0
  <2>1. 1 \in P(i)
    BY <1>1, <1>2, <1>5
  <2> HIDE DEF P
  <2> QED
    BY <1>3, <1>4, <2>1, FS_EmptySet
<1>6. ASSUME NEW j \in DOMAIN w, i < j, Fold(w[i]) = Fold(w[j])
      PROVE  PaddingOf(w, i) < PaddingOf(w, j)
  <2>1. P(i) \union {i + 1} \subseteq P(j) /\ i + 1 \notin P(i)
    BY <1>1, <1>2, <1>6
  <2> HIDE DEF P
  <2>2. /\ IsFiniteSet(P(i) \union {i + 1})
        /\ Cardinality(P(i) \union {i + 1}) = Cardinality(P(i)) + 1
    BY <1>4, <2>1, FS_AddElement
  <2>3. Cardinality(P(i) \union {i + 1}) <= Cardinality(P(j))
    BY <1>4, <2>1, FS_Subset
  <2> QED
    BY <1>3, <1>4, <2>2, <2>3
<1> HIDE DEF P
<1> QED
  BY <1>3, <1>4, <1>5, <1>6

\* What a page wants is a stem without padding.
LEMMA WantedShape ==
    ASSUME NEW walk, NEW i \in DOMAIN walk
    PROVE  \E slug, tag : WantedFor(walk)[i] = [slug |-> slug, tag |-> tag, pad |-> 0]
<1>1. \A name, tag : \E slug : Stem(name, tag) = [slug |-> slug, tag |-> tag, pad |-> 0]
  BY DEF Stem
<1>2. PICK name, tag : WantedFor(walk)[i] = Stem(name, tag)
  BY WantedIs DEF Bare, Digested
<1> QED
  BY <1>1, <1>2

\* The pages of a plan are files of their own.
LEMMA StemsAreFiles ==
    ASSUME NEW walk, IsList(walk), NEW i \in DOMAIN walk
    PROVE  /\ ~ OneFile(Stemmed(walk)[i].stem, Reserved)
           /\ \A j \in DOMAIN walk \ {i} : ~ OneFile(Stemmed(walk)[i].stem, Stemmed(walk)[j].stem)
<1> DEFINE w == WantedFor(walk)
<1>1. IsList(w) /\ DOMAIN w = DOMAIN walk
  BY StemmedIs
<1>2. ASSUME NEW k \in DOMAIN walk
      PROVE  /\ Stemmed(walk)[k].stem.slug = w[k].slug /\ Stemmed(walk)[k].stem.tag = w[k].tag
             /\ Stemmed(walk)[k].stem.pad = PaddingOf(w, k)
             /\ Fold(w[k]) = [slug |-> Each(w[k].slug, LAMBDA x : Lower(x)),
                              tag |-> w[k].tag, pad |-> 0]
  <2>1. PICK slug, tag : w[k] = [slug |-> slug, tag |-> tag, pad |-> 0]
    BY WantedShape
  <2>2. Stemmed(walk)[k].stem = [w[k] EXCEPT !.pad = PaddingOf(w, k)]
    <3>1. Stemmed(walk)[k] = [page |-> walk[k],
                              stem |-> [w[k] EXCEPT !.pad = PaddingOf(w, k)]]
      BY StemmedIs
    <3> HIDE DEF w
    <3> QED
      BY <3>1
  <2> HIDE DEF w
  <2>3. Fold(w[k]) = [slug |-> Each(slug, LAMBDA x : Lower(x)), tag |-> tag, pad |-> 0]
    BY <2>1, FoldIs
  <2> QED
    BY <2>1, <2>2, <2>3
<1> HIDE DEF w
<1>3. ASSUME NEW j \in DOMAIN walk, NEW k \in DOMAIN walk, j < k,
             OneFile(Stemmed(walk)[j].stem, Stemmed(walk)[k].stem)
      PROVE  FALSE
  <2>1. Fold(w[j]) = Fold(w[k]) /\ PaddingOf(w, j) = PaddingOf(w, k)
    BY <1>2, <1>3 DEF OneFile
  <2> QED
    BY <1>1, <1>3, <2>1, PaddingFacts
<1>4. ~ OneFile(Stemmed(walk)[i].stem, Reserved)
  <2> SUFFICES ASSUME OneFile(Stemmed(walk)[i].stem, Reserved) PROVE FALSE
    OBVIOUS
  <2>1. Reserved = [slug |-> Reserved.slug, tag |-> <<>>, pad |-> 0]
    BY PagesAssumption
  <2>2. Fold(Reserved) = [slug |-> Each(Reserved.slug, LAMBDA x : Lower(x)), tag |-> <<>>, pad |-> 0]
    BY <2>1, FoldIs
  <2>3. Each(w[i].slug, LAMBDA x : Lower(x)) = Each(Reserved.slug, LAMBDA x : Lower(x))
    BY <1>2 DEF OneFile
  <2>4. w[i].tag = <<>> /\ PaddingOf(w, i) = 0
    <3>1. Reserved.tag = <<>> /\ Reserved.pad = 0
      BY <2>1
    <3>2. /\ Stemmed(walk)[i].stem.tag = Reserved.tag
          /\ Stemmed(walk)[i].stem.pad = Reserved.pad
      BY DEF OneFile
    <3> QED
      BY <1>2, <3>1, <3>2
  <2>5. Fold(w[i]) = Fold(Reserved)
    BY <1>2, <2>2, <2>3, <2>4
  <2> QED
    BY <1>1, <2>4, <2>5, PaddingFacts
<1>5. ASSUME NEW j \in DOMAIN walk \ {i}, OneFile(Stemmed(walk)[i].stem, Stemmed(walk)[j].stem)
      PROVE  FALSE
  <2>1. i \in Nat /\ j \in Nat
    BY <1>1, PaddingFacts
  <2>2. OneFile(Stemmed(walk)[j].stem, Stemmed(walk)[i].stem)
    BY <1>5 DEF OneFile
  <2> QED
    BY <1>3, <1>5, <2>1, <2>2
<1> QED
  BY <1>4, <1>5

\* A page that shares its name with no other meets nothing but the root document.
LEMMA AlonePads ==
    ASSUME NEW walk, IsList(walk), NEW i \in DOMAIN walk,
           \A j \in DOMAIN walk \ {i} : walk[j].name # walk[i].name
    PROVE  PaddingOf(WantedFor(walk), i) =
               Cardinality(IF Fold(WantedFor(walk)[i]) = Fold(Reserved) THEN {1} ELSE {})
<1> DEFINE w == WantedFor(walk)
           seen == SeenIn(w)
<1>1. IsList(w) /\ DOMAIN w = DOMAIN walk
  BY StemmedIs
<1>2. ASSUME NEW j \in DOMAIN walk \ {i}
      PROVE  Fold(w[j]) # Fold(w[i])
  <2> DEFINE a == walk[i].name
             b == walk[j].name
  <2>0. a # b
    OBVIOUS
  <2>1. /\ w[i] = IF Fold(Bare(a)) \in Contested(walk) THEN Digested(a) ELSE Bare(a)
        /\ w[j] = IF Fold(Bare(b)) \in Contested(walk) THEN Digested(b) ELSE Bare(b)
    BY WantedIs
  <2>2. \A n : Fold(Bare(n)).tag = <<>> /\ Fold(Digested(n)).tag = <<n>>
    BY TagIsKept DEF Bare, Digested
  <2>3. Fold(Bare(a)) = Fold(Bare(b)) => Fold(Bare(a)) \in Contested(walk)
    BY <2>0, ContestedIs
  <2>4. <<a>> # <<b>> /\ <<a>> # <<>> /\ <<b>> # <<>>
    BY <2>0
  <2> HIDE DEF w, a, b
  <2> QED
    BY <2>1, <2>2, <2>3, <2>4
<1>3. DOMAIN w = 1..Len(w) /\ Len(w) \in Nat
  BY <1>1, ListFacts
<1>4. seen[1] = Fold(Reserved) /\ \A j \in DOMAIN w : seen[j + 1] = Fold(w[j])
  BY <1>1, SeenIs
<1> DEFINE P == {k \in 1..i : seen[k] = seen[i + 1]}
<1>5. PaddingOf(w, i) = Cardinality(P)
  BY DEF PaddingOf
<1> HIDE DEF seen, w
<1>6. ASSUME NEW k \in P
      PROVE  k = 1
  <2> SUFFICES ASSUME k # 1 PROVE FALSE
    OBVIOUS
  <2>1. i \in Nat /\ k \in 1..i /\ i \in 1..Len(w)
    BY <1>1, <1>3
  <2>2. PICK j \in 1..Len(w) : k = j + 1 /\ j # i
    BY <1>3, <2>1
  <2>3. seen[k] = Fold(w[j]) /\ seen[i + 1] = Fold(w[i])
    BY <1>1, <1>3, <1>4, <2>2
  <2> QED
    BY <1>1, <1>2, <1>3, <2>2, <2>3
<1>7. 1 \in P <=> Fold(Reserved) = Fold(w[i])
  BY <1>1, <1>3, <1>4
<1>8. P = IF Fold(w[i]) = Fold(Reserved) THEN {1} ELSE {}
  <2> HIDE DEF P
  <2> QED
    BY <1>6, <1>7
<1> QED
  BY <1>5, <1>8 DEF w

\* A name's stem is what the name and its rivals make it.
LEMMA StemOfName ==
    ASSUME NEW walk, IsList(walk), NEW i \in DOMAIN walk,
           \A j \in DOMAIN walk \ {i} : walk[j].name # walk[i].name,
           NEW other, IsList(other), NEW k \in DOMAIN other,
           \A j \in DOMAIN other \ {k} : other[j].name # other[k].name,
           other[k].name = walk[i].name,
           Fold(Bare(walk[i].name)) \in Contested(walk) <=> Fold(Bare(walk[i].name)) \in Contested(other)
    PROVE  Stemmed(other)[k].stem = Stemmed(walk)[i].stem
<1>1. WantedFor(other)[k] = WantedFor(walk)[i]
  BY WantedIs
<1>2. PICK v, w : v = WantedFor(other) /\ w = WantedFor(walk)
  OBVIOUS
<1>3. v[k] = w[i]
  BY <1>1, <1>2
<1>4. PaddingOf(v, k) = PaddingOf(w, i)
  <2>1. PaddingOf(v, k) = Cardinality(IF Fold(v[k]) = Fold(Reserved) THEN {1} ELSE {})
    BY <1>2, AlonePads
  <2>2. PaddingOf(w, i) = Cardinality(IF Fold(w[i]) = Fold(Reserved) THEN {1} ELSE {})
    BY <1>2, AlonePads
  <2> QED
    BY <1>3, <2>1, <2>2
<1>5. Stemmed(other)[k] = [page |-> other[k], stem |-> [v[k] EXCEPT !.pad = PaddingOf(v, k)]]
  BY <1>2, StemmedIs
<1>6. Stemmed(walk)[i] = [page |-> walk[i], stem |-> [w[i] EXCEPT !.pad = PaddingOf(w, i)]]
  BY <1>2, StemmedIs
<1> QED
  BY <1>3, <1>4, <1>5, <1>6

-----------------------------------------------------------------------------
(* Builds.                                                                 *)

\* A configuration, a project, and the last of its IRs that was built.
TypeInv ==
    /\ config \in DOMAIN Modes /\ project \in DOMAIN Projects
    /\ built \in {0} \union DOMAIN Projects[project]

\* By configuration, project and IR, Plans has the plan.
LEMMA PlansAre ==
    ASSUME NEW c \in DOMAIN Modes, NEW p \in DOMAIN Projects, NEW b \in DOMAIN Projects[p]
    PROVE  /\ Modes[c].by \in {"symbol", "file", "class", "namespace"}
           /\ Projects[p][b] \in Irs /\ IrOK(Projects[p][b])
           /\ b \in Nat \ {0}
           /\ Plans[c][p][b] = PlanPages(Modes[c], Projects[p][b])
<1>1. IsList(Modes) /\ IsList(Projects) /\ IsList(Projects[p])
  <2>1. Projects[p] \in Seq(Irs)
    BY PagesAssumption
  <2> QED
    BY <2>1, PagesAssumption, SequenceIsList
<1>2. Projects[p][b] \in Irs /\ IrOK(Projects[p][b]) /\ b \in Nat \ {0}
  <2>1. Projects[p] \in Seq(Irs)
    BY PagesAssumption
  <2> QED
    BY <2>1, PagesAssumption
<1>3. Modes[c].by \in {"symbol", "file", "class", "namespace"}
  <2> DEFINE S == [by : {"symbol", "file", "class", "namespace"},
                   undocumented : BOOLEAN, wide : BOOLEAN]
  <2>1. Modes \in Seq(S)
    BY PagesAssumption
  <2> HIDE DEF S
  <2>2. Modes[c] \in S
    BY <2>1
  <2> QED
    BY <2>2 DEF S
<1> DEFINE F(m, s) == [i \in DOMAIN s |-> PlanPages(m, s[i])]
           G(m) == [i \in DOMAIN Projects |-> <<>> \o F(m, Projects[i])]
           H == [i \in DOMAIN Modes |-> <<>> \o G(Modes[i])]
<1>4. Plans = <<>> \o H
  BY DEF Plans, ForAll, Each
<1>5. <<>> \o H = H
  <2> HIDE DEF G
  <2> QED
    BY <1>1, EachIsList
<1>6. H[c] = <<>> \o G(Modes[c])
  OBVIOUS
<1>7. <<>> \o G(Modes[c]) = G(Modes[c])
  <2> HIDE DEF F
  <2> QED
    BY <1>1, EachIsList
<1>8. G(Modes[c])[p] = <<>> \o F(Modes[c], Projects[p])
  OBVIOUS
<1>9. <<>> \o F(Modes[c], Projects[p]) = F(Modes[c], Projects[p])
  BY <1>1, EachIsList
<1>10. F(Modes[c], Projects[p])[b] = PlanPages(Modes[c], Projects[p][b])
  OBVIOUS
<1> HIDE DEF F, G, H
<1> QED
  BY <1>2, <1>3, <1>4, <1>5, <1>6, <1>7, <1>8, <1>9, <1>10

\* The build's numbers lie where the constants have them: at first,
LEMMA TypeInit == Init => TypeInv
BY DEF Init, TypeInv

\* and after every step.
LEMMA TypeStep == TypeInv /\ [Next]_vars => TypeInv'
BY DEF TypeInv, Next, Build, vars

\* The plan of some walk.
PlanOfWalk == \E walk : IsList(walk) /\ pages = Stemmed(walk)

\* The plan is that of a walk.
LEMMA PagesAre == TypeInv => PlanOfWalk
<1> SUFFICES ASSUME TypeInv PROVE \E walk : IsList(walk) /\ pages = Stemmed(walk)
  BY DEF PlanOfWalk
<1>1. CASE built = 0
  <2>1. IsList(<<>>) /\ DOMAIN <<>> = {}
    BY ShortLists
  <2>2. IsList(Stemmed(<<>>)) /\ DOMAIN Stemmed(<<>>) = {}
    BY <2>1, StemmedIs
  <2>3. Stemmed(<<>>) = <<>>
    BY <2>2 DEF IsList
  <2> QED
    BY <1>1, <2>1, <2>3 DEF pages
<1>2. CASE built # 0
  <2>1. built \in DOMAIN Projects[project]
    BY <1>2 DEF TypeInv
  <2>2. pages = PlanPages(Modes[config], Projects[project][built])
    BY <1>2, <2>1, PlansAre DEF pages, TypeInv
  <2>3. IsList(WalkPages(Modes[config], Projects[project][built]))
    BY <2>1, PlansAre, WalkIs DEF TypeInv
  <2> QED
    BY <2>2, <2>3 DEF PlanPages
<1> QED
  BY <1>1, <1>2

\* No two pages, and no page and the root document, are one file.
LEMMA FilesAreDistinct == TypeInv => DistinctFiles
<1> SUFFICES ASSUME TypeInv PROVE DistinctFiles
  OBVIOUS
<1>1. PICK walk : IsList(walk) /\ pages = Stemmed(walk)
  BY PagesAre DEF PlanOfWalk
<1>2. DOMAIN pages = DOMAIN walk
  BY <1>1, StemmedIs
<1> QED
  BY <1>1, <1>2, StemsAreFiles DEF DistinctFiles

\* No two pages of a plan are one file, and none is the root document, not even
\* where a file system ignores case.
THEOREM PagesAreFiles == Spec => []DistinctFiles
BY TypeInit, TypeStep, FilesAreDistinct, PTL DEF Spec

\* The pages of a plan are those of its walk.
LEMMA WalkOfPlan ==
    ASSUME NEW walk, IsList(walk)
    PROVE  /\ Each(Stemmed(walk), LAMBDA q : q.page) = walk
           /\ \A i \in DOMAIN walk : Stemmed(walk)[i].page = walk[i]
<1>1. PICK plan : plan = Stemmed(walk)
  OBVIOUS
<1>2. IsList(plan) /\ DOMAIN plan = DOMAIN walk
  BY <1>1, StemmedIs
<1>3. \A i \in DOMAIN walk : plan[i].page = walk[i]
  <2>1. ASSUME NEW i \in DOMAIN walk PROVE plan[i].page = walk[i]
    <3>1. PICK stem : plan[i] = [page |-> walk[i], stem |-> stem]
      BY <1>1, StemmedIs
    <3> QED
      BY <3>1
  <2> QED
    BY <2>1
<1>4. [i \in DOMAIN plan |-> plan[i].page] = walk
  <2>1. walk = [i \in DOMAIN walk |-> walk[i]]
    BY ListFacts
  <2> QED
    BY <1>2, <1>3, <2>1
<1>5. <<>> \o walk = walk
  BY ListFacts
<1> QED
  BY <1>1, <1>3, <1>4, <1>5 DEF Each

\* The next plan is that of a walk, too.
LEMMA NextPagesAre == TypeInv' => PlanOfWalk'
BY PagesAre, PTL

\* No step changes the stem of a page that is alone with its name.
LEMMA StepKeepsStems == TypeInv /\ TypeInv' => StemsKept
<1> SUFFICES ASSUME TypeInv, TypeInv' PROVE StemsKept
  OBVIOUS
<1>1. PICK v : IsList(v) /\ pages = Stemmed(v)
  BY PagesAre DEF PlanOfWalk
<1>2. PICK w : IsList(w) /\ pages' = Stemmed(w)
  BY NextPagesAre DEF PlanOfWalk
<1> SUFFICES ASSUME NEW i \in DOMAIN pages, NEW j \in DOMAIN pages',
                    pages'[j].page.name = pages[i].page.name,
                    Alone(pages, i), Alone(pages', j),
                    HasRival(pages, pages[i].page.name) <=> HasRival(pages', pages[i].page.name)
             PROVE  pages'[j].stem = pages[i].stem
  BY DEF StemsKept
<1>3. /\ DOMAIN pages = DOMAIN v /\ \A k \in DOMAIN v : pages[k].page = v[k]
      /\ Each(pages, LAMBDA q : q.page) = v
  BY <1>1, StemmedIs, WalkOfPlan
<1>4. /\ DOMAIN pages' = DOMAIN w /\ \A k \in DOMAIN w : pages'[k].page = w[k]
      /\ Each(pages', LAMBDA q : q.page) = w
  BY <1>2, StemmedIs, WalkOfPlan
<1>5. \A k \in DOMAIN v \ {i} : v[k].name # v[i].name
  BY <1>3 DEF Alone
<1>6. \A k \in DOMAIN w \ {j} : w[k].name # w[j].name
  BY <1>4 DEF Alone
<1>7. w[j].name = v[i].name
  BY <1>3, <1>4
<1>8. Fold(Bare(v[i].name)) \in Contested(v) <=> Fold(Bare(v[i].name)) \in Contested(w)
  BY <1>3, <1>4 DEF HasRival, Bare
<1> QED
  BY <1>1, <1>2, <1>3, <1>4, <1>5, <1>6, <1>7, <1>8, StemOfName

\* A page keeps its stem whatever else comes and goes, unless its slug becomes
\* or ceases to be contested.
THEOREM StemsAreStable == Spec => StemStable
BY TypeInit, TypeStep, StepKeepsStems, PTL DEF Spec, StemStable

-----------------------------------------------------------------------------
(* What a symbol's tokens tell.                                            *)

\* What a row's hash covers.
LEMMA ContentFixes ==
    ASSUME NEW r, NEW s, NEW u, NEW v, Content(r, u) = Content(s, v)
    PROVE  /\ Kind(r, u) = Kind(s, v) /\ r.sym[u].path = s.sym[v].path
           /\ r.sym[u].sig = s.sym[v].sig
BY DEF Content, Kind

\* The parts of a symbol's tokens.
RowToken(r, u) == <<<<"S", u, Content(r, u)>>>>
WideTokens(m, r, u) == IF m.wide THEN <<<<"W", u, WideFields(r, u)>>>> ELSE <<>>
RelatedTokens(m, r, u) == Each(Related(m, r, u), LAMBDA v : <<"L", u, v, Content(r, v)>>)
ValueTokens(r, u) == IF Kind(r, u) = "enum"
                     THEN Each(Enumerators(r, u), LAMBDA e : <<"E", e, Content(r, e)>>) ELSE <<>>

\* A symbol's tokens are its parts, in order.
LEMMA SymbolTokensAre ==
    ASSUME NEW m, NEW r, NEW u
    PROVE  SymbolTokens(m, r, u) =
               (((RowToken(r, u) \o WideTokens(m, r, u)) \o ReferenceTokens(r, u))
                  \o RelatedTokens(m, r, u)) \o ValueTokens(r, u)
BY DEF SymbolTokens, RowToken, WideTokens, RelatedTokens, ValueTokens

\* A sorted list is a list.
LEMMA SortedIsList ==
    ASSUME NEW s, IsList(s), NEW keys
    PROVE  IsList(IF Len(s) < 2 THEN s ELSE <<>> \o SortedBy(s, keys))
BY SortedByIsList

\* Related functions are a list,
LEMMA RelatedIsList ==
    ASSUME NEW m, NEW r, NEW u
    PROVE  IsList(Related(m, r, u))
<1> DEFINE I(name) == {i \in DOMAIN RowOrder : /\ RowOrder[i] \in Present(r) /\ RowOrder[i] # u
                                               /\ r.sym[RowOrder[i]].relates = name
                                               /\ m.undocumented \/ Documented(r, RowOrder[i])}
           T(name) == Chosen(RowOrder, I(name))
           K(name) == <<>> \o [i \in DOMAIN T(name) |-> Ranks(r.sym[T(name)[i]].path)]
           N(name) == IF Len(T(name)) < 2 THEN T(name) ELSE <<>> \o SortedBy(T(name), K(name))
<1>1. Related(m, r, u) = N(r.sym[u].path)
          \o IF <<Spelling(r, u)>> = r.sym[u].path THEN <<>> ELSE N(<<Spelling(r, u)>>)
  BY DEF Related, Sorted, Those, Each
<1>2. ASSUME NEW name PROVE IsList(N(name))
  <2>1. IsList(RowOrder)
    BY PagesAssumption, SequenceIsList
  <2>2. IsList(T(name))
    BY <2>1, ChosenList
  <2>3. PICK t : t = T(name) /\ IsList(t)
    BY <2>2
  <2>4. PICK k : k = K(name)
    OBVIOUS
  <2>5. N(name) = IF Len(t) < 2 THEN t ELSE <<>> \o SortedBy(t, k)
    BY <2>3, <2>4
  <2> HIDE DEF N
  <2> QED
    BY <2>3, <2>5, SortedIsList
<1> HIDE DEF N
<1>3. PICK x : x = N(r.sym[u].path) /\ IsList(x)
  BY <1>2
<1>4. PICK y : /\ y = IF <<Spelling(r, u)>> = r.sym[u].path THEN <<>> ELSE N(<<Spelling(r, u)>>)
               /\ IsList(y)
  BY <1>2, ShortLists
<1>5. IsList(x \o y)
  BY <1>3, <1>4, AppendedList
<1> QED
  BY <1>1, <1>3, <1>4, <1>5

\* and so are their tokens.
LEMMA RelatedTokensAre ==
    ASSUME NEW m, NEW r, NEW u
    PROVE  LET x == Related(m, r, u)
               t == RelatedTokens(m, r, u)
           IN  /\ IsList(t) /\ DOMAIN t = DOMAIN x
               /\ \A i \in DOMAIN x : t[i] = <<"L", u, x[i], Content(r, x[i])>>
<1> DEFINE x == Related(m, r, u)
           f == [i \in DOMAIN x |-> <<"L", u, x[i], Content(r, x[i])>>]
<1>1. RelatedTokens(m, r, u) = <<>> \o f
  BY DEF RelatedTokens, Each
<1>2. IsList(x)
  BY RelatedIsList
<1>3. f = [i \in DOMAIN x |-> f[i]] /\ \A i \in DOMAIN x : f[i] = <<"L", u, x[i], Content(r, x[i])>>
  OBVIOUS
<1> HIDE DEF f, x
<1>4. IsList(f) /\ DOMAIN f = DOMAIN x /\ <<>> \o f = f
  BY <1>2, <1>3, EachIsList
<1>5. RelatedTokens(m, r, u) = f
  BY <1>1, <1>4
<1> QED
  BY <1>3, <1>4, <1>5 DEF x

\* The tokens of an enum's values.
LEMMA ValueTokensAre ==
    ASSUME NEW r, IrOK(r), NEW u
    PROVE  LET x == Enumerators(r, u)
               t == ValueTokens(r, u)
           IN  /\ IsList(x) /\ IsList(t) /\ Headed(t, {"E"})
               /\ Kind(r, u) = "enum" =>
                      /\ DOMAIN t = DOMAIN x
                      /\ \A i \in DOMAIN x : t[i] = <<"E", x[i], Content(r, x[i])>>
<1> DEFINE S == {e \in ChildrenOf(r, u) : Kind(r, e) = "enumerator"}
           x == Enumerators(r, u)
           f == [i \in DOMAIN x |-> <<"E", x[i], Content(r, x[i])>>]
<1>1. IsList(x)
  <2>1. S \subseteq Present(r)
    BY DEF ChildrenOf
  <2>2. x = ByLine(r, S)
    BY DEF Enumerators
  <2> HIDE DEF S, x
  <2> QED
    BY <2>1, <2>2, ByLineIs
<1>2. ValueTokens(r, u) = IF Kind(r, u) = "enum" THEN <<>> \o f ELSE <<>>
  BY DEF ValueTokens, Each
<1>3. f = [i \in DOMAIN x |-> f[i]] /\ \A i \in DOMAIN x : f[i] = <<"E", x[i], Content(r, x[i])>>
  OBVIOUS
<1> HIDE DEF f, x
<1>4. IsList(f) /\ DOMAIN f = DOMAIN x /\ <<>> \o f = f
  BY <1>1, <1>3, EachIsList
<1>5. ValueTokens(r, u) = IF Kind(r, u) = "enum" THEN f ELSE <<>>
  BY <1>2, <1>4
<1>6. Headed(f, {"E"}) /\ Headed(<<>>, {"E"})
  BY <1>3, <1>4 DEF Headed
<1> QED
  BY <1>1, <1>3, <1>4, <1>5, <1>6, ShortLists DEF x

\* The tokens of one reference.
RefBlock(r, u, ref) ==
    <<<<"R", u, ref>>>>
    \o IF ref.to \in Present(r) THEN <<<<"T", ref.to, Content(r, ref.to)>>>> ELSE <<>>
RefBlocks(r, u) == [i \in DOMAIN r.sym[u].refs |-> RefBlock(r, u, r.sym[u].refs[i])]

\* A reference has one token or two.
LEMMA RefBlockShape ==
    ASSUME NEW r, NEW u, NEW ref
    PROVE  /\ ref.to \in Present(r) =>
                  RefBlock(r, u, ref) = <<<<"R", u, ref>>, <<"T", ref.to, Content(r, ref.to)>>>>
           /\ ref.to \notin Present(r) => RefBlock(r, u, ref) = <<<<"R", u, ref>>>>
<1>1. ASSUME NEW x, NEW y PROVE <<x>> \o <<y>> = <<x, y>>
  <2>1. PICK T : x \in T /\ y \in T
    <3>1. x \in {x, y} /\ y \in {x, y}
      OBVIOUS
    <3> QED
      BY <3>1
  <2>2. PICK c \in Seq(T) : c = <<x>> /\ Len(c) = 1 /\ c[1] = x
    BY <2>1, OneEntry
  <2>3. PICK d \in Seq(T) : d = <<y>> /\ Len(d) = 1 /\ d[1] = y
    BY <2>1, OneEntry
  <2>4. Made(c \o d, c, d) /\ c \o d \in Seq(T)
    BY Halves, ConcatProperties
  <2>5. Len(c \o d) = 2 /\ (c \o d)[1] = x /\ (c \o d)[2] = y
    BY <2>2, <2>3, <2>4 DEF Made
  <2>6. PICK e \in Seq(T) : e = <<x, y>> /\ Len(e) = 2 /\ e[1] = x /\ e[2] = y
    <3>1. <<x, y>> \in Seq(T) /\ Len(<<x, y>>) = 2 /\ <<x, y>>[1] = x /\ <<x, y>>[2] = y
      BY <2>1
    <3> QED
      BY <3>1
  <2>7. \A i \in 1..2 : (c \o d)[i] = e[i]
    BY <2>5, <2>6
  <2>8. c \o d = e
    BY <2>4, <2>5, <2>6, <2>7, SeqEqual
  <2> QED
    BY <2>2, <2>3, <2>6, <2>8
<1>2. \A x : <<x>> \o <<>> = <<x>>
  OBVIOUS
<1> QED
  BY <1>1, <1>2 DEF RefBlock

\* They are a block, which fixes what it is of.
LEMMA RefBlockIs ==
    ASSUME NEW r, NEW u, NEW ref
    PROVE  /\ IsList(RefBlock(r, u, ref)) /\ Block(RefBlock(r, u, ref), {"R"})
           /\ Headed(RefBlock(r, u, ref), {"R", "T"})
<1>1. ASSUME NEW x, NEW y PROVE IsList(<<x, y>>) /\ ToSet(<<x, y>>) = {x, y}
  BY DEF IsList, ToSet
<1>2. CASE ref.to \in Present(r)
  <2>1. PICK x : x = <<"R", u, ref>> /\ x[1] = "R"
    BY FirstOfThree
  <2>2. PICK y : y = <<"T", ref.to, Content(r, ref.to)>> /\ y[1] = "T"
    BY FirstOfThree
  <2>3. RefBlock(r, u, ref) = <<x, y>>
    BY <1>2, <2>1, <2>2, RefBlockShape
  <2>4. Block(<<x, y>>, {"R"}) /\ Headed(<<x, y>>, {"R", "T"})
    BY <2>1, <2>2 DEF Block, Headed
  <2> QED
    BY <1>1, <2>3, <2>4
<1>3. CASE ref.to \notin Present(r)
  <2>1. PICK x : x = <<"R", u, ref>> /\ x[1] = "R"
    BY FirstOfThree
  <2>3. RefBlock(r, u, ref) = <<x>>
    BY <1>3, <2>1, RefBlockShape
  <2>4. Block(<<x>>, {"R"}) /\ Headed(<<x>>, {"R", "T"})
    BY <2>1 DEF Block, Headed
  <2> QED
    BY ShortLists, <2>3, <2>4
<1> QED
  BY <1>2, <1>3

\* The block of a reference fixes it and what the page shows of it.
LEMMA RefBlockFixes ==
    ASSUME NEW r, NEW u, NEW a, NEW s, NEW v, NEW b, RefBlock(r, u, a) = RefBlock(s, v, b)
    PROVE  Xref(r, a) = Xref(s, b) /\ a = b
<1>1. ASSUME NEW x, NEW y, NEW z PROVE <<x, y>> # <<z>> /\ <<z>> # <<x, y>>
  OBVIOUS
<1>2. ASSUME NEW x, NEW y, NEW z, NEW w, <<x, y>> = <<z, w>> PROVE x = z /\ y = w
  BY <1>2
<1>3. ASSUME NEW x, NEW z, <<x>> = <<z>> PROVE x = z
  BY <1>3
<1>4. CASE a.to \in Present(r) /\ b.to \in Present(s)
  <2>1. /\ <<"R", u, a>> = <<"R", v, b>>
        /\ <<"T", a.to, Content(r, a.to)>> = <<"T", b.to, Content(s, b.to)>>
    BY <1>2, <1>4, RefBlockShape
  <2>2. a = b /\ Content(r, a.to) = Content(s, b.to)
    BY <2>1
  <2>3. r.sym[a.to].path = s.sym[b.to].path
    BY <2>2, ContentFixes
  <2> QED
    BY <1>4, <2>2, <2>3 DEF Xref
<1>5. CASE a.to \notin Present(r) /\ b.to \notin Present(s)
  <2>1. <<"R", u, a>> = <<"R", v, b>>
    BY <1>3, <1>5, RefBlockShape
  <2>2. a = b
    BY <2>1
  <2> QED
    BY <1>5, <2>2 DEF Xref
<1>6. CASE a.to \in Present(r) /\ b.to \notin Present(s)
  BY <1>1, <1>6, RefBlockShape
<1>7. CASE a.to \notin Present(r) /\ b.to \in Present(s)
  BY <1>1, <1>7, RefBlockShape
<1> QED
  BY <1>4, <1>5, <1>6, <1>7

\* A symbol's references are the blocks of its reference tokens.
LEMMA ReferenceTokensAre ==
    ASSUME NEW r, IrOK(r), NEW u \in Present(r)
    PROVE  /\ IsList(r.sym[u].refs) /\ IsList(RefBlocks(r, u))
           /\ DOMAIN RefBlocks(r, u) = DOMAIN r.sym[u].refs
           /\ \A i \in DOMAIN RefBlocks(r, u) : RefBlocks(r, u)[i] = RefBlock(r, u, r.sym[u].refs[i])
           /\ ReferenceTokens(r, u) = FlattenSeq(RefBlocks(r, u))
           /\ IsList(ReferenceTokens(r, u)) /\ Headed(ReferenceTokens(r, u), {"R", "T"})
<1>1. PICK refs : refs = r.sym[u].refs /\ IsList(refs)
  <2>1. r.sym[u] \in Row
    BY DEF IrOK
  <2>2. PICK T : r.sym[u].refs \in Seq(T)
    BY <2>1 DEF Row
  <2> QED
    BY <2>2, SequenceIsList
<1> DEFINE f == [i \in DOMAIN refs |-> RefBlock(r, u, refs[i])]
<1>2. f = RefBlocks(r, u)
  BY <1>1 DEF RefBlocks
<1>3. ReferenceTokens(r, u) = FlattenSeq(<<>> \o f)
  BY <1>1 DEF ReferenceTokens, Each, RefBlock
<1>4. f = [i \in DOMAIN refs |-> f[i]] /\ \A i \in DOMAIN refs : f[i] = RefBlock(r, u, refs[i])
  OBVIOUS
<1> HIDE DEF f
<1>5. IsList(f) /\ DOMAIN f = DOMAIN refs /\ <<>> \o f = f
  BY <1>1, <1>4, EachIsList
<1>6. \A i \in DOMAIN f : IsList(f[i]) /\ Headed(f[i], {"R", "T"})
  BY <1>4, <1>5, RefBlockIs
<1>7. IsList(FlattenSeq(f)) /\ ToSet(FlattenSeq(f)) = UNION {ToSet(f[i]) : i \in DOMAIN f}
  BY <1>5, <1>6, FlattenedList
<1>8. Headed(FlattenSeq(f), {"R", "T"})
  <2>1. PICK F : F = FlattenSeq(f)
    OBVIOUS
  <2> SUFFICES ASSUME NEW k \in DOMAIN F PROVE F[k][1] \in {"R", "T"}
    BY <2>1 DEF Headed
  <2>2. F[k] \in ToSet(F)
    BY <1>7, <2>1, ListFacts
  <2>3. PICK i \in DOMAIN f : F[k] \in ToSet(f[i])
    BY <1>7, <2>1, <2>2
  <2>4. PICK j \in DOMAIN f[i] : F[k] = f[i][j]
    BY <2>3 DEF ToSet
  <2> QED
    BY <1>6, <2>3, <2>4 DEF Headed
<1> QED
  BY <1>1, <1>2, <1>3, <1>4, <1>5, <1>7, <1>8

\* The parts of a symbol's tokens by their heads.
LEMMA PartsOfTokens ==
    ASSUME NEW m, NEW r, IrOK(r), NEW u \in Present(r)
    PROVE  /\ IsList(RowToken(r, u)) /\ Headed(RowToken(r, u), {"S"})
           /\ Block(RowToken(r, u), {"S"})
           /\ IsList(WideTokens(m, r, u)) /\ Headed(WideTokens(m, r, u), {"W"})
           /\ IsList(ReferenceTokens(r, u)) /\ Headed(ReferenceTokens(r, u), {"R", "T"})
           /\ IsList(RelatedTokens(m, r, u)) /\ Headed(RelatedTokens(m, r, u), {"L"})
           /\ IsList(ValueTokens(r, u)) /\ Headed(ValueTokens(r, u), {"E"})
<1>1. PICK x : x = <<"S", u, Content(r, u)>> /\ x[1] = "S"
  BY FirstOfThree
<1>2. PICK y : y = <<"W", u, WideFields(r, u)>> /\ y[1] = "W"
  BY FirstOfThree
<1>3. Headed(<<x>>, {"S"}) /\ Block(<<x>>, {"S"}) /\ Headed(<<y>>, {"W"}) /\ Headed(<<>>, {"W"})
  BY <1>1, <1>2 DEF Headed, Block
<1>4. RowToken(r, u) = <<x>> /\ WideTokens(m, r, u) = IF m.wide THEN <<y>> ELSE <<>>
  BY <1>1, <1>2 DEF RowToken, WideTokens
<1>5. Headed(RelatedTokens(m, r, u), {"L"})
  <2>1. PICK t : t = RelatedTokens(m, r, u)
    OBVIOUS
  <2>2. DOMAIN t = DOMAIN Related(m, r, u) /\ \A i \in DOMAIN Related(m, r, u) :
            t[i] = <<"L", u, Related(m, r, u)[i], Content(r, Related(m, r, u)[i])>>
    BY <2>1, RelatedTokensAre
  <2>3. \A i \in DOMAIN t : t[i][1] = "L"
    BY <2>2
  <2> QED
    BY <2>1, <2>3 DEF Headed
<1> QED
  BY <1>3, <1>4, <1>5, ShortLists, ReferenceTokensAre, RelatedTokensAre, ValueTokensAre

\* The tokens of a symbol are a block.
LEMMA TokensAreBlock ==
    ASSUME NEW m, NEW r, IrOK(r), NEW u \in Present(r)
    PROVE  IsList(SymbolTokens(m, r, u)) /\ Block(SymbolTokens(m, r, u), {"S"})
<1>1. PICK a : a = RowToken(r, u) /\ IsList(a) /\ Block(a, {"S"})
  BY PartsOfTokens
<1>2. PICK b : b = WideTokens(m, r, u) /\ IsList(b) /\ Unheaded(b, {"S"})
  BY PartsOfTokens, HeadedApart
<1>3. PICK c : c = ReferenceTokens(r, u) /\ IsList(c) /\ Unheaded(c, {"S"})
  BY PartsOfTokens, HeadedApart
<1>4. PICK d : d = RelatedTokens(m, r, u) /\ IsList(d) /\ Unheaded(d, {"S"})
  BY PartsOfTokens, HeadedApart
<1>5. PICK e : e = ValueTokens(r, u) /\ IsList(e) /\ Unheaded(e, {"S"})
  BY PartsOfTokens, HeadedApart
<1>6. IsList(a \o b) /\ Block(a \o b, {"S"})
  BY <1>1, <1>2, AppendedList, BlockGrows
<1>7. IsList((a \o b) \o c) /\ Block((a \o b) \o c, {"S"})
  BY <1>3, <1>6, AppendedList, BlockGrows
<1>8. IsList(((a \o b) \o c) \o d) /\ Block(((a \o b) \o c) \o d, {"S"})
  BY <1>4, <1>7, AppendedList, BlockGrows
<1>9. IsList((((a \o b) \o c) \o d) \o e) /\ Block((((a \o b) \o c) \o d) \o e, {"S"})
  BY <1>5, <1>8, AppendedList, BlockGrows
<1> QED
  BY <1>1, <1>2, <1>3, <1>4, <1>5, <1>9, SymbolTokensAre

\* The tokens of a symbol fix their parts.
LEMMA TokensFixParts ==
    ASSUME NEW m, NEW r, IrOK(r), NEW u \in Present(r), NEW s, IrOK(s), NEW v \in Present(s),
           SymbolTokens(m, r, u) = SymbolTokens(m, s, v)
    PROVE  /\ RowToken(r, u) = RowToken(s, v) /\ WideTokens(m, r, u) = WideTokens(m, s, v)
           /\ ReferenceTokens(r, u) = ReferenceTokens(s, v)
           /\ RelatedTokens(m, r, u) = RelatedTokens(m, s, v)
           /\ ValueTokens(r, u) = ValueTokens(s, v)
<1>1. PICK a : a = RowToken(r, u) /\ IsList(a) /\ Headed(a, {"S"})
  BY PartsOfTokens
<1>2. PICK b : b = WideTokens(m, r, u) /\ IsList(b) /\ Headed(b, {"W"})
  BY PartsOfTokens
<1>3. PICK c : c = ReferenceTokens(r, u) /\ IsList(c) /\ Headed(c, {"R", "T"})
  BY PartsOfTokens
<1>4. PICK d : d = RelatedTokens(m, r, u) /\ IsList(d) /\ Headed(d, {"L"})
  BY PartsOfTokens
<1>5. PICK e : e = ValueTokens(r, u) /\ IsList(e) /\ Headed(e, {"E"})
  BY PartsOfTokens
<1>6. PICK a1 : a1 = RowToken(s, v) /\ IsList(a1) /\ Headed(a1, {"S"})
  BY PartsOfTokens
<1>7. PICK b1 : b1 = WideTokens(m, s, v) /\ IsList(b1) /\ Headed(b1, {"W"})
  BY PartsOfTokens
<1>8. PICK c1 : c1 = ReferenceTokens(s, v) /\ IsList(c1) /\ Headed(c1, {"R", "T"})
  BY PartsOfTokens
<1>9. PICK d1 : d1 = RelatedTokens(m, s, v) /\ IsList(d1) /\ Headed(d1, {"L"})
  BY PartsOfTokens
<1>10. PICK e1 : e1 = ValueTokens(s, v) /\ IsList(e1) /\ Headed(e1, {"E"})
  BY PartsOfTokens
<1>11. SymbolTokens(m, r, u) = (((a \o b) \o c) \o d) \o e
  BY <1>1, <1>2, <1>3, <1>4, <1>5, SymbolTokensAre
<1>12. SymbolTokens(m, s, v) = (((a1 \o b1) \o c1) \o d1) \o e1
  BY <1>6, <1>7, <1>8, <1>9, <1>10, SymbolTokensAre
<1> DEFINE S == {"S"}
           W == {"W"}
           R == {"R", "T"}
           L == {"L"}
           E == {"E"}
<1>16. FiveHeads(S, W, R, L, E)
  BY DEF FiveHeads
<1>13. FivePart(a, b, c, d, e, S, W, R, L, E)
  BY <1>1, <1>2, <1>3, <1>4, <1>5 DEF FivePart
<1>14. FivePart(a1, b1, c1, d1, e1, S, W, R, L, E)
  BY <1>6, <1>7, <1>8, <1>9, <1>10 DEF FivePart
<1>17. FiveJoined(a, b, c, d, e) = FiveJoined(a1, b1, c1, d1, e1)
  BY <1>11, <1>12 DEF FiveJoined
<1> HIDE DEF S, W, R, L, E
<1>15. a = a1 /\ b = b1 /\ c = c1 /\ d = d1 /\ e = e1
  BY <1>13, <1>14, <1>16, <1>17, FiveParts
<1> QED
  BY <1>1, <1>2, <1>3, <1>4, <1>5, <1>6, <1>7, <1>8, <1>9, <1>10, <1>15

\* The parts of what is shown of a symbol.
ShownWide(m, r, u) == IF m.wide THEN WideFields(r, u) ELSE <<>>
ShownArgs(r, u) == IF Kind(r, u) = "record" THEN r.sym[u].spec ELSE <<>>
ShownRefs(r, u) == Each(r.sym[u].refs, LAMBDA ref : XrefOrSpelling(r, u, ref))
ShownRelated(m, r, u) == IF Kind(r, u) = "record"
                         THEN Each(Related(m, r, u), LAMBDA v : r.sym[v].path) ELSE <<>>
ShownValues(r, u) == IF Kind(r, u) = "enum"
                     THEN Each(Enumerators(r, u), LAMBDA e : Content(r, e)) ELSE <<>>

\* What is shown of a symbol is its parts.
LEMMA ShowsIs ==
    ASSUME NEW m, NEW r, NEW u
    PROVE  Shows(m, r, u) =
               [row |-> Content(r, u), wide |-> ShownWide(m, r, u), args |-> ShownArgs(r, u),
                refs |-> ShownRefs(r, u), related |-> ShownRelated(m, r, u),
                values |-> ShownValues(r, u)]
BY DEF Shows, ShownWide, ShownArgs, ShownRefs, ShownRelated, ShownValues

\* The tokens fix the symbol, its row and its argument list.
LEMMA TokensFixRow ==
    ASSUME NEW m, NEW r, IrOK(r), NEW u \in Present(r), NEW s, IrOK(s), NEW v \in Present(s),
           SameTree(r, s), SymbolTokens(m, r, u) = SymbolTokens(m, s, v)
    PROVE  /\ u = v /\ Content(r, u) = Content(s, v) /\ Kind(r, u) = Kind(s, v)
           /\ r.sym[u].path = s.sym[v].path /\ r.sym[u].parent = s.sym[v].parent
           /\ ShownArgs(r, u) = ShownArgs(s, v) /\ ShownWide(m, r, u) = ShownWide(m, s, v)
<1>1. RowToken(r, u) = RowToken(s, v) /\ WideTokens(m, r, u) = WideTokens(m, s, v)
  BY TokensFixParts
<1>2. \A x, y : <<x>> = <<y>> => x = y
  OBVIOUS
<1>3. <<"S", u, Content(r, u)>> = <<"S", v, Content(s, v)>>
  BY <1>1, <1>2 DEF RowToken
<1>4. u = v /\ Content(r, u) = Content(s, v)
  BY <1>3
<1>5. /\ Kind(r, u) = Kind(s, v) /\ r.sym[u].path = s.sym[v].path
      /\ r.sym[u].sig = s.sym[v].sig
  BY <1>4, ContentFixes
<1>6. u \in Present(r) \intersect Present(s)
  BY <1>4
<1>7. r.sym[u].parent = s.sym[v].parent
  BY <1>4, <1>6 DEF SameTree
<1>8. Kind(r, u) = "record" => r.sym[u].spec = s.sym[v].spec
  BY <1>4, <1>5, <1>6 DEF SameTree
<1>9. ShownWide(m, r, u) = ShownWide(m, s, v)
  <2>1. CASE m.wide
    <3>1. <<"W", u, WideFields(r, u)>> = <<"W", v, WideFields(s, v)>>
      BY <1>1, <1>2, <2>1 DEF WideTokens
    <3>2. WideFields(r, u) = WideFields(s, v)
      BY <3>1
    <3> QED
      BY <2>1, <3>2 DEF ShownWide
  <2>2. CASE ~m.wide
    BY <2>2 DEF ShownWide
  <2> QED
    BY <2>1, <2>2
<1> QED
  BY <1>4, <1>5, <1>7, <1>8, <1>9 DEF ShownArgs

\* What is shown of its references, one by one.
LEMMA ShownRefsAre ==
    ASSUME NEW r, IrOK(r), NEW u \in Present(r)
    PROVE  LET x == r.sym[u].refs
               t == ShownRefs(r, u)
           IN  /\ IsList(t) /\ DOMAIN t = DOMAIN x
               /\ \A i \in DOMAIN x : t[i] = XrefOrSpelling(r, u, x[i])
<1>1. PICK x : x = r.sym[u].refs /\ IsList(x)
  BY ReferenceTokensAre
<1> DEFINE f == [i \in DOMAIN x |-> XrefOrSpelling(r, u, x[i])]
<1>2. ShownRefs(r, u) = <<>> \o f
  BY <1>1 DEF ShownRefs, Each
<1>3. f = [i \in DOMAIN x |-> f[i]] /\ \A i \in DOMAIN x : f[i] = XrefOrSpelling(r, u, x[i])
  OBVIOUS
<1> HIDE DEF f
<1>4. IsList(f) /\ DOMAIN f = DOMAIN x /\ <<>> \o f = f
  BY <1>1, <1>3, EachIsList
<1> QED
  BY <1>1, <1>2, <1>3, <1>4

\* The tokens fix what is shown of the references,
LEMMA TokensFixRefs ==
    ASSUME NEW r, IrOK(r), NEW u \in Present(r), NEW s, IrOK(s), NEW v \in Present(s),
           Kind(r, u) = Kind(s, v), ReferenceTokens(r, u) = ReferenceTokens(s, v)
    PROVE  ShownRefs(r, u) = ShownRefs(s, v)
<1>1. PICK x : x = r.sym[u].refs
  OBVIOUS
<1>2. PICK y : y = s.sym[v].refs
  OBVIOUS
<1>3. PICK a : /\ a = RefBlocks(r, u) /\ IsList(a) /\ DOMAIN a = DOMAIN x
               /\ \A i \in DOMAIN a : a[i] = RefBlock(r, u, x[i])
               /\ ReferenceTokens(r, u) = FlattenSeq(a)
  BY <1>1, ReferenceTokensAre
<1>4. PICK b : /\ b = RefBlocks(s, v) /\ IsList(b) /\ DOMAIN b = DOMAIN y
               /\ \A i \in DOMAIN b : b[i] = RefBlock(s, v, y[i])
               /\ ReferenceTokens(s, v) = FlattenSeq(b)
  BY <1>2, ReferenceTokensAre
<1>5. \A i \in DOMAIN a : IsList(a[i]) /\ Block(a[i], {"R"})
  BY <1>3, RefBlockIs
<1>6. \A i \in DOMAIN b : IsList(b[i]) /\ Block(b[i], {"R"})
  BY <1>4, RefBlockIs
<1>7. a = b
  <2>1. FlattenSeq(a) = FlattenSeq(b)
    BY <1>3, <1>4
  <2>2. IsList(a) /\ IsList(b)
    BY <1>3, <1>4
  <2> QED
    BY <1>5, <1>6, <2>1, <2>2, ToldBlocks
<1>8. ASSUME NEW i \in DOMAIN x PROVE XrefOrSpelling(r, u, x[i]) = XrefOrSpelling(s, v, y[i])
  <2>1. RefBlock(r, u, x[i]) = RefBlock(s, v, y[i])
    BY <1>3, <1>4, <1>7
  <2>2. Xref(r, x[i]) = Xref(s, y[i]) /\ x[i] = y[i]
    BY <2>1, RefBlockFixes
  <2> QED
    BY <2>2 DEF XrefOrSpelling
<1>9. PICK f : /\ f = ShownRefs(r, u) /\ IsList(f) /\ DOMAIN f = DOMAIN x
               /\ \A i \in DOMAIN x : f[i] = XrefOrSpelling(r, u, x[i])
  BY <1>1, ShownRefsAre
<1>10. PICK g : /\ g = ShownRefs(s, v) /\ IsList(g) /\ DOMAIN g = DOMAIN y
                /\ \A i \in DOMAIN y : g[i] = XrefOrSpelling(s, v, y[i])
  BY <1>2, ShownRefsAre
<1>11. DOMAIN f = DOMAIN g /\ \A i \in DOMAIN f : f[i] = g[i]
  BY <1>3, <1>4, <1>7, <1>8, <1>9, <1>10
<1>12. f = g
  BY <1>9, <1>10, <1>11, SameList
<1> QED
  BY <1>9, <1>10, <1>12

\* of the functions that relate to it
LEMMA TokensFixRelated ==
    ASSUME NEW m, NEW r, NEW u, NEW s, NEW v,
           Kind(r, u) = Kind(s, v), RelatedTokens(m, r, u) = RelatedTokens(m, s, v)
    PROVE  ShownRelated(m, r, u) = ShownRelated(m, s, v)
<1> SUFFICES ASSUME Kind(r, u) = "record" PROVE ShownRelated(m, r, u) = ShownRelated(m, s, v)
  BY DEF ShownRelated
<1>1. PICK x : x = Related(m, r, u) /\ IsList(x)
  BY RelatedIsList
<1>2. PICK y : y = Related(m, s, v) /\ IsList(y)
  BY RelatedIsList
<1>3. PICK a : /\ a = RelatedTokens(m, r, u) /\ DOMAIN a = DOMAIN x
               /\ \A i \in DOMAIN x : a[i] = <<"L", u, x[i], Content(r, x[i])>>
  BY <1>1, RelatedTokensAre
<1>4. PICK b : /\ b = RelatedTokens(m, s, v) /\ DOMAIN b = DOMAIN y
               /\ \A i \in DOMAIN y : b[i] = <<"L", v, y[i], Content(s, y[i])>>
  BY <1>2, RelatedTokensAre
<1>5. ASSUME NEW i \in DOMAIN x PROVE r.sym[x[i]].path = s.sym[y[i]].path
  <2>1. <<"L", u, x[i], Content(r, x[i])>> = <<"L", v, y[i], Content(s, y[i])>>
    BY <1>3, <1>4
  <2>2. Content(r, x[i]) = Content(s, y[i])
    BY <2>1
  <2> QED
    BY <2>2, ContentFixes
<1>6. [i \in DOMAIN x |-> r.sym[x[i]].path] = [i \in DOMAIN y |-> s.sym[y[i]].path]
  BY <1>3, <1>4, <1>5
<1> QED
  BY <1>1, <1>2, <1>6 DEF ShownRelated, Each

\* and of its values,
LEMMA TokensFixValues ==
    ASSUME NEW r, IrOK(r), NEW u, NEW s, IrOK(s), NEW v,
           Kind(r, u) = Kind(s, v), ValueTokens(r, u) = ValueTokens(s, v)
    PROVE  ShownValues(r, u) = ShownValues(s, v)
<1> SUFFICES ASSUME Kind(r, u) = "enum" PROVE ShownValues(r, u) = ShownValues(s, v)
  BY DEF ShownValues
<1>1. PICK x : x = Enumerators(r, u)
  OBVIOUS
<1>2. PICK y : y = Enumerators(s, v)
  OBVIOUS
<1>3. PICK a : /\ a = ValueTokens(r, u) /\ DOMAIN a = DOMAIN x
               /\ \A i \in DOMAIN x : a[i] = <<"E", x[i], Content(r, x[i])>>
  BY <1>1, ValueTokensAre
<1>4. PICK b : /\ b = ValueTokens(s, v) /\ DOMAIN b = DOMAIN y
               /\ \A i \in DOMAIN y : b[i] = <<"E", y[i], Content(s, y[i])>>
  BY <1>2, ValueTokensAre
<1>5. ASSUME NEW i \in DOMAIN x PROVE Content(r, x[i]) = Content(s, y[i])
  <2>1. <<"E", x[i], Content(r, x[i])>> = <<"E", y[i], Content(s, y[i])>>
    BY <1>3, <1>4
  <2> QED
    BY <2>1
<1>6. [i \in DOMAIN x |-> Content(r, x[i])] = [i \in DOMAIN y |-> Content(s, y[i])]
  BY <1>3, <1>4, <1>5
<1> QED
  BY <1>1, <1>2, <1>6 DEF ShownValues, Each

\* and thus all that is shown of it.
LEMMA TokensFixShows ==
    ASSUME NEW m, NEW r, IrOK(r), NEW u \in Present(r), NEW s, IrOK(s), NEW v \in Present(s),
           SameTree(r, s), SymbolTokens(m, r, u) = SymbolTokens(m, s, v)
    PROVE  Shows(m, r, u) = Shows(m, s, v)
<1>1. /\ Content(r, u) = Content(s, v) /\ Kind(r, u) = Kind(s, v)
      /\ ShownArgs(r, u) = ShownArgs(s, v) /\ ShownWide(m, r, u) = ShownWide(m, s, v)
  BY TokensFixRow
<1>2. /\ ReferenceTokens(r, u) = ReferenceTokens(s, v)
      /\ RelatedTokens(m, r, u) = RelatedTokens(m, s, v)
      /\ ValueTokens(r, u) = ValueTokens(s, v)
  BY TokensFixParts
<1>3. ShownRefs(r, u) = ShownRefs(s, v)
  BY <1>1, <1>2, TokensFixRefs
<1>4. ShownRelated(m, r, u) = ShownRelated(m, s, v)
  BY <1>1, <1>2, TokensFixRelated
<1>5. ShownValues(r, u) = ShownValues(s, v)
  BY <1>1, <1>2, TokensFixValues
<1> QED
  BY <1>1, <1>3, <1>4, <1>5, ShowsIs

-----------------------------------------------------------------------------
(* What a page renders.                                                    *)

\* Below is what its definition says.
LEMMA BelowIs ==
    ASSUME NEW m, NEW r, IrOK(r), NEW f
    PROVE  Below(m, r, f) = [u \in Present(r) |-> BelowStep(m, r, f, Below(m, r, f), u)]
<1> DEFINE S == Present(r)
           Kids == KidsOf(r)
<1>1. PICK par : par = <<"Below", m, r, f>>
  OBVIOUS
<1>2. \A g, x : StepOf(par, g, x) = BelowStep(m, r, f, g, x)
  BY <1>1 DEF StepOf
<1>3. Forests!Forest(S, Kids)
  BY DEF Forests!Forest, KidsOf, IrOK, ChildrenOf
<1>4. Forests!Downward(par, S, Kids)
  <2> SUFFICES ASSUME NEW u \in S, NEW g, NEW h, \A c \in Kids[u] : g[c] = h[c]
               PROVE  BelowStep(m, r, f, g, u) = BelowStep(m, r, f, h, u)
    BY <1>2 DEF Forests!Downward
  <2>1. PICK t : t = Children(m, r, u, f)
    OBVIOUS
  <2>2. IsList(t) /\ ToSet(t) \subseteq Kids[u]
    BY <2>1, ChildrenAre DEF KidsOf
  <2>3. \A i \in DOMAIN t : g[t[i]] = h[t[i]]
    BY <2>2 DEF ToSet
  <2>4. [i \in DOMAIN t |-> <<t[i]>> \o g[t[i]]] = [i \in DOMAIN t |-> <<t[i]>> \o h[t[i]]]
    BY <2>3
  <2>5. Each(t, LAMBDA c : <<c>> \o g[c]) = Each(t, LAMBDA c : <<c>> \o h[c])
    BY <2>4 DEF Each
  <2> QED
    BY <2>1, <2>5 DEF BelowStep
<1> HIDE DEF S, Kids
<1>5. PICK G : G = [u \in S |-> StepOf(par, G, u)]
  BY <1>3, <1>4, Forests!Recursion
<1> DEFINE Is(h) == h = [u \in S |-> BelowStep(m, r, f, h, u)]
<1>6. Below(m, r, f) = CHOOSE h : Is(h)
  BY DEF Below, BelowStep, S
<1>7. Is(G)
  BY <1>5, <1>2
<1> HIDE DEF Is
<1>8. Is(Below(m, r, f))
  BY <1>6, <1>7
<1> QED
  BY <1>8 DEF Is, S

\* What some symbols show: each, and what is below it.
WithBelow(below, t) == [i \in DOMAIN t |-> <<t[i]>> \o below[t[i]]]

\* They are symbols of the IR, and those symbols are among them.
LEMMA WithBelowIs ==
    ASSUME NEW r, NEW below, NEW t, IsList(t), ToSet(t) \subseteq Present(r),
           \A u \in ToSet(t) : IsList(below[u]) /\ ToSet(below[u]) \subseteq Present(r)
    PROVE  LET x == FlattenSeq(Each(t, LAMBDA u : <<u>> \o below[u]))
           IN  IsList(x) /\ ToSet(x) \subseteq Present(r) /\ ToSet(t) \subseteq ToSet(x)
<1>1. PICK f : f = WithBelow(below, t)
  OBVIOUS
<1>2. /\ f = [i \in DOMAIN t |-> f[i]]
      /\ \A i \in DOMAIN t : f[i] = <<t[i]>> \o below[t[i]]
  BY <1>1 DEF WithBelow
<1>3. IsList(f) /\ <<>> \o f = f /\ DOMAIN f = DOMAIN t
  BY <1>2, EachIsList
<1>4. Each(t, LAMBDA u : <<u>> \o below[u]) = f
  BY <1>1, <1>3 DEF Each, WithBelow
<1>5. ASSUME NEW i \in DOMAIN f
      PROVE  IsList(f[i]) /\ ToSet(f[i]) \subseteq Present(r) /\ t[i] \in ToSet(f[i])
  <2>1. t[i] \in ToSet(t)
    BY <1>3 DEF ToSet
  <2>2. PICK b : b = below[t[i]] /\ IsList(b) /\ ToSet(b) \subseteq Present(r)
    BY <2>1
  <2>3. PICK a : a = <<t[i]>> /\ IsList(a) /\ ToSet(a) = {t[i]}
    BY ShortLists
  <2>4. f[i] = a \o b
    BY <1>2, <1>3, <2>2, <2>3
  <2> QED
    BY <2>1, <2>2, <2>3, <2>4, AppendedList
<1>6. IsList(FlattenSeq(f)) /\ ToSet(FlattenSeq(f)) = UNION {ToSet(f[i]) : i \in DOMAIN f}
  BY <1>3, <1>5, FlattenedList
<1>7. PICK x : x = FlattenSeq(f)
  OBVIOUS
<1>8. ToSet(x) \subseteq Present(r)
  BY <1>5, <1>6, <1>7
<1>9. ToSet(t) \subseteq ToSet(x)
  <2> SUFFICES ASSUME NEW u \in ToSet(t) PROVE u \in ToSet(x)
    OBVIOUS
  <2>1. PICK i \in DOMAIN t : u = t[i]
    BY DEF ToSet
  <2> QED
    BY <1>3, <1>5, <1>6, <1>7, <2>1
<1> QED
  BY <1>4, <1>6, <1>7, <1>8, <1>9

\* What is below a symbol are symbols, by a least one of which it is not so.
LEMMA BelowAre ==
    ASSUME NEW m, NEW r, IrOK(r), NEW f
    PROVE  \A u \in Present(r) :
               IsList(Below(m, r, f)[u]) /\ ToSet(Below(m, r, f)[u]) \subseteq Present(r)
<1>0. PICK b : b = Below(m, r, f)
  OBVIOUS
<1> DEFINE Fine(u) == IsList(b[u]) /\ ToSet(b[u]) \subseteq Present(r)
           W == {u \in Present(r) : ~ Fine(u)}
<1> SUFFICES ASSUME W # {} PROVE FALSE
  BY <1>0
<1>1. PICK u \in W : ChildrenOf(r, u) \intersect W = {}
  BY DEF IrOK
<1>2. u \in Present(r) /\ ~ Fine(u)
  OBVIOUS
<1>3. b[u] = BelowStep(m, r, f, b, u)
  BY <1>0, <1>2, BelowIs
<1>4. PICK t : t = Children(m, r, u, f) /\ IsList(t) /\ ToSet(t) \subseteq ChildrenOf(r, u)
  BY ChildrenAre
<1>5. b[u] = IF Container(r, u) THEN FlattenSeq(Each(t, LAMBDA c : <<c>> \o b[c])) ELSE <<>>
  BY <1>3, <1>4 DEF BelowStep
<1>6. ToSet(t) \subseteq Present(r) /\ \A c \in ToSet(t) : Fine(c)
  BY <1>1, <1>4 DEF ChildrenOf
<1>7. PICK x : /\ x = FlattenSeq(Each(t, LAMBDA c : <<c>> \o b[c]))
               /\ IsList(x) /\ ToSet(x) \subseteq Present(r)
  BY <1>4, <1>6, WithBelowIs
<1>8. IsList(<<>>) /\ ToSet(<<>>) \subseteq Present(r)
  BY ShortLists DEF ToSet
<1> QED
  BY <1>2, <1>5, <1>7, <1>8

\* A page of symbols renders symbols, the one that heads it first.
LEMMA RenderedIs ==
    ASSUME NEW m, NEW r, IrOK(r), NEW p, SymbolsOf(r, p)
    PROVE  /\ IsList(RenderedBy(m, r, p)) /\ ToSet(RenderedBy(m, r, p)) \subseteq Present(r)
           /\ p.shallow \o p.deep # <<>> =>
                  RenderedBy(m, r, p) # <<>> /\ RenderedBy(m, r, p)[1] = Heading(p)
<1>1. PICK a : a = p.shallow /\ IsList(a) /\ ToSet(a) \subseteq Present(r)
  BY DEF SymbolsOf
<1>2. PICK t : t = p.deep /\ IsList(t) /\ ToSet(t) \subseteq Present(r)
  BY DEF SymbolsOf
<1> DEFINE b == Below(m, r, p.file)
<1>3. RenderedBy(m, r, p) = a \o FlattenSeq(Each(t, LAMBDA u : <<u>> \o b[u]))
  BY <1>1, <1>2 DEF RenderedBy
<1>4. \A u \in ToSet(t) : IsList(b[u]) /\ ToSet(b[u]) \subseteq Present(r)
  BY <1>2, BelowAre
<1> HIDE DEF b
<1>5. PICK x : /\ x = FlattenSeq(Each(t, LAMBDA u : <<u>> \o b[u]))
               /\ IsList(x) /\ ToSet(x) \subseteq Present(r)
  BY <1>2, <1>4, WithBelowIs
<1>6. RenderedBy(m, r, p) = a \o x
  BY <1>3, <1>5
<1>7. IsList(a \o x) /\ ToSet(a \o x) = ToSet(a) \union ToSet(x)
  BY <1>1, <1>5, AppendedList
<1>8. t # <<>> => x # <<>> /\ x[1] = t[1]
  <2> SUFFICES ASSUME t # <<>> PROVE x # <<>> /\ x[1] = t[1]
    OBVIOUS
  <2>1. PICK f : f = WithBelow(b, t)
    OBVIOUS
  <2>2. f = [i \in DOMAIN t |-> f[i]] /\ \A i \in DOMAIN t : f[i] = <<t[i]>> \o b[t[i]]
    BY <2>1 DEF WithBelow
  <2>3. IsList(f) /\ <<>> \o f = f /\ DOMAIN f = DOMAIN t /\ Len(f) = Len(t)
    BY <1>2, <2>2, EachIsList
  <2>4. x = FlattenSeq(f)
    BY <1>5, <2>1, <2>3 DEF Each, WithBelow
  <2>5. 1 \in DOMAIN t
    BY <1>2 DEF IsList
  <2>6. ASSUME NEW i \in DOMAIN t PROVE IsList(f[i]) /\ f[i] # <<>> /\ f[i][1] = t[i]
    <3>1. PICK d : d = b[t[i]] /\ IsList(d)
      BY <1>4 DEF ToSet
    <3>2. PICK e : e = <<t[i]>> /\ IsList(e) /\ e # <<>> /\ e[1] = t[i]
      BY OneIs
    <3>3. f[i] = e \o d
      BY <2>2, <3>1, <3>2
    <3> QED
      BY <3>1, <3>2, <3>3, AppendedList, FirstOfBoth
  <2>7. f # <<>>
    BY <2>3, <2>5
  <2> QED
    BY <2>3, <2>4, <2>5, <2>6, <2>7, FirstOfAll
<1>9. a # <<>> => (a \o x)[1] = a[1] /\ (a \o t)[1] = a[1] /\ a \o x # <<>>
  BY <1>1, <1>2, <1>5, FirstOfBoth
<1>10. a = <<>> => a \o x = x /\ a \o t = t
  BY <1>1, <1>2, <1>5, FirstOfBoth
<1>11. a \o t # <<>> => a \o x # <<>> /\ (a \o x)[1] = (a \o t)[1]
  BY <1>8, <1>9, <1>10
<1> QED
  BY <1>1, <1>2, <1>5, <1>6, <1>7, <1>11 DEF Heading

-----------------------------------------------------------------------------
(* What a page's tokens tell.                                              *)

\* The three parts of a page's tokens.
TocTokens(planned, p) == Each(ListedBy(planned, p), LAMBDA q : <<"TOC", q.stem>>)
FileTokens(p) == IF p.file = None THEN <<>> ELSE <<<<"FILEPATH", p.file>>>>
BodyTokens(m, r, planned, p) ==
    IF p.id[1] = "group" THEN GroupTokens(r, planned, p)
    ELSE FlattenSeq(Each(RenderedBy(m, r, p), LAMBDA u : SymbolTokens(m, r, u)))

\* A page's fingerprint is its parts, in order.
LEMMA FingerprintIs ==
    ASSUME NEW m, NEW r, NEW planned, NEW p
    PROVE  PageFingerprint(m, r, planned, p) =
               (TocTokens(planned, p) \o FileTokens(p)) \o BodyTokens(m, r, planned, p)
BY DEF PageFingerprint, TocTokens, FileTokens, BodyTokens

\* A symbol's tokens by their heads.
SymbolHeads == {"S", "W", "R", "T", "L", "E"}

\* A symbol's tokens have its heads.
LEMMA TokensAreHeaded ==
    ASSUME NEW m, NEW r, IrOK(r), NEW u \in Present(r)
    PROVE  IsList(SymbolTokens(m, r, u)) /\ Headed(SymbolTokens(m, r, u), SymbolHeads)
<1>1. PICK a : a = RowToken(r, u) /\ IsList(a) /\ Headed(a, SymbolHeads)
  BY PartsOfTokens DEF Headed, SymbolHeads
<1>2. PICK b : b = WideTokens(m, r, u) /\ IsList(b) /\ Headed(b, SymbolHeads)
  BY PartsOfTokens DEF Headed, SymbolHeads
<1>3. PICK c : c = ReferenceTokens(r, u) /\ IsList(c) /\ Headed(c, SymbolHeads)
  BY PartsOfTokens DEF Headed, SymbolHeads
<1>4. PICK d : d = RelatedTokens(m, r, u) /\ IsList(d) /\ Headed(d, SymbolHeads)
  BY PartsOfTokens DEF Headed, SymbolHeads
<1>5. PICK e : e = ValueTokens(r, u) /\ IsList(e) /\ Headed(e, SymbolHeads)
  BY PartsOfTokens DEF Headed, SymbolHeads
<1>6. SymbolTokens(m, r, u) = (((a \o b) \o c) \o d) \o e
  BY <1>1, <1>2, <1>3, <1>4, <1>5, SymbolTokensAre
<1>7. PICK x : x = a \o b /\ IsList(x) /\ Headed(x, SymbolHeads)
  BY <1>1, <1>2, HeadedLike
<1>8. PICK y : y = x \o c /\ IsList(y) /\ Headed(y, SymbolHeads)
  BY <1>3, <1>7, HeadedLike
<1>9. PICK z : z = y \o d /\ IsList(z) /\ Headed(z, SymbolHeads)
  BY <1>4, <1>8, HeadedLike
<1>10. IsList(z \o e) /\ Headed(z \o e, SymbolHeads)
  BY <1>5, <1>9, HeadedLike
<1> QED
  BY <1>6, <1>7, <1>8, <1>9, <1>10

\* The blocks of a page of symbols, and of what each shows.
BlocksOf(m, r, p) == [i \in DOMAIN RenderedBy(m, r, p) |-> SymbolTokens(m, r, RenderedBy(m, r, p)[i])]
PageShows(m, r, p) == Each(RenderedBy(m, r, p), LAMBDA u : Shows(m, r, u))

\* A page's tokens are a block for each symbol that it renders.
LEMMA BlocksAre ==
    ASSUME NEW m, NEW r, IrOK(r), NEW p, SymbolsOf(r, p), NEW planned, p.id[1] # "group"
    PROVE  LET x == RenderedBy(m, r, p)
               b == BlocksOf(m, r, p)
           IN  /\ IsList(x) /\ IsList(b) /\ DOMAIN b = DOMAIN x
               /\ \A i \in DOMAIN x : /\ x[i] \in Present(r) /\ b[i] = SymbolTokens(m, r, x[i])
                                      /\ IsList(b[i]) /\ Block(b[i], {"S"})
               /\ BodyTokens(m, r, planned, p) = FlattenSeq(b)
               /\ IsList(FlattenSeq(b)) /\ Headed(FlattenSeq(b), SymbolHeads)
<1>1. PICK x : x = RenderedBy(m, r, p) /\ IsList(x) /\ ToSet(x) \subseteq Present(r)
  BY RenderedIs
<1>2. PICK b : b = BlocksOf(m, r, p)
  OBVIOUS
<1>3. b = [i \in DOMAIN x |-> b[i]] /\ \A i \in DOMAIN x : b[i] = SymbolTokens(m, r, x[i])
  BY <1>1, <1>2 DEF BlocksOf
<1>4. IsList(b) /\ DOMAIN b = DOMAIN x /\ <<>> \o b = b
  BY <1>1, <1>3, EachIsList
<1>5. \A i \in DOMAIN x : x[i] \in Present(r)
  BY <1>1 DEF ToSet
<1>6. \A i \in DOMAIN x : IsList(b[i]) /\ Block(b[i], {"S"}) /\ Headed(b[i], SymbolHeads)
  BY <1>3, <1>5, TokensAreBlock, TokensAreHeaded
<1>7. BodyTokens(m, r, planned, p) = FlattenSeq(b)
  BY <1>1, <1>2, <1>4 DEF BodyTokens, BlocksOf, Each
<1>8. IsList(FlattenSeq(b)) /\ Headed(FlattenSeq(b), SymbolHeads)
  BY <1>4, <1>6, HeadedAll
<1> QED
  BY <1>1, <1>2, <1>3, <1>4, <1>5, <1>6, <1>7, <1>8

\* What a page shows, entry by entry.
LEMMA PageShowsIs ==
    ASSUME NEW m, NEW r, NEW p, IsList(RenderedBy(m, r, p))
    PROVE  LET x == RenderedBy(m, r, p)
               t == PageShows(m, r, p)
           IN  IsList(t) /\ DOMAIN t = DOMAIN x /\ \A i \in DOMAIN x : t[i] = Shows(m, r, x[i])
<1>1. PICK x : x = RenderedBy(m, r, p) /\ IsList(x)
  OBVIOUS
<1> DEFINE f == [i \in DOMAIN x |-> Shows(m, r, x[i])]
<1>2. PageShows(m, r, p) = <<>> \o f
  BY <1>1 DEF PageShows, Each
<1>3. f = [i \in DOMAIN x |-> f[i]] /\ \A i \in DOMAIN x : f[i] = Shows(m, r, x[i])
  OBVIOUS
<1> HIDE DEF f
<1> QED
  BY <1>1, <1>2, <1>3, EachIsList

\* Two pages of symbols show the same, and of symbols that have the same tokens.
ShownAlike(m, r, s, p, q) ==
    /\ PageShows(m, r, p) = PageShows(m, s, q)
    /\ RenderedBy(m, r, p) = RenderedBy(m, s, q)
    /\ \A u \in ToSet(RenderedBy(m, r, p)) :
           u \in Present(r) /\ u \in Present(s) /\ SymbolTokens(m, r, u) = SymbolTokens(m, s, u)

\* Equal tokens show the same symbols alike, in the same order.
LEMMA TokensFixPage ==
    ASSUME NEW m, NEW r, IrOK(r), NEW s, IrOK(s), SameTree(r, s), NEW p, NEW q,
           SymbolsOf(r, p), SymbolsOf(s, q), p.id[1] # "group", q.id[1] # "group",
           NEW planned, NEW planning,
           BodyTokens(m, r, planned, p) = BodyTokens(m, s, planning, q)
    PROVE  ShownAlike(m, r, s, p, q)
<1>1. PICK x, a : /\ x = RenderedBy(m, r, p) /\ a = BlocksOf(m, r, p)
                  /\ IsList(x) /\ IsList(a) /\ DOMAIN a = DOMAIN x
                  /\ \A i \in DOMAIN x : /\ x[i] \in Present(r) /\ a[i] = SymbolTokens(m, r, x[i])
                                         /\ IsList(a[i]) /\ Block(a[i], {"S"})
                  /\ BodyTokens(m, r, planned, p) = FlattenSeq(a)
  BY BlocksAre
<1>2. PICK y, b : /\ y = RenderedBy(m, s, q) /\ b = BlocksOf(m, s, q)
                  /\ IsList(y) /\ IsList(b) /\ DOMAIN b = DOMAIN y
                  /\ \A i \in DOMAIN y : /\ y[i] \in Present(s) /\ b[i] = SymbolTokens(m, s, y[i])
                                         /\ IsList(b[i]) /\ Block(b[i], {"S"})
                  /\ BodyTokens(m, s, planning, q) = FlattenSeq(b)
  BY BlocksAre
<1>3. a = b
  <2>1. FlattenSeq(a) = FlattenSeq(b)
    BY <1>1, <1>2
  <2>2. \A i \in DOMAIN a : IsList(a[i]) /\ Block(a[i], {"S"})
    BY <1>1
  <2>3. \A i \in DOMAIN b : IsList(b[i]) /\ Block(b[i], {"S"})
    BY <1>2
  <2>4. IsList(a) /\ IsList(b)
    BY <1>1, <1>2
  <2> QED
    BY <2>1, <2>2, <2>3, <2>4, ToldBlocks
<1>4. DOMAIN x = DOMAIN y
  BY <1>1, <1>2, <1>3
<1>5. ASSUME NEW i \in DOMAIN x
      PROVE  x[i] = y[i] /\ Shows(m, r, x[i]) = Shows(m, s, y[i])
  <2>1. PICK u, v : u = x[i] /\ v = y[i] /\ u \in Present(r) /\ v \in Present(s)
    BY <1>1, <1>2, <1>4
  <2>2. SymbolTokens(m, r, u) = SymbolTokens(m, s, v)
    BY <1>1, <1>2, <1>3, <1>4, <2>1
  <2> QED
    BY <2>1, <2>2, TokensFixRow, TokensFixShows
<1>6. x = y
  BY <1>1, <1>2, <1>4, <1>5, SameList
<1>7. PageShows(m, r, p) = PageShows(m, s, q)
  <2>1. PICK f : /\ f = PageShows(m, r, p) /\ IsList(f) /\ DOMAIN f = DOMAIN x
                 /\ \A i \in DOMAIN x : f[i] = Shows(m, r, x[i])
    BY <1>1, PageShowsIs
  <2>2. PICK g : /\ g = PageShows(m, s, q) /\ IsList(g) /\ DOMAIN g = DOMAIN y
                 /\ \A i \in DOMAIN y : g[i] = Shows(m, s, y[i])
    BY <1>2, PageShowsIs
  <2>3. f = g
    BY <1>4, <1>5, <2>1, <2>2, SameList
  <2> QED
    BY <2>1, <2>2, <2>3
<1>8. ASSUME NEW u \in ToSet(x)
      PROVE  u \in Present(r) /\ u \in Present(s) /\ SymbolTokens(m, r, u) = SymbolTokens(m, s, u)
  <2>1. PICK i \in DOMAIN x : x[i] = u
    BY DEF ToSet
  <2> QED
    BY <1>1, <1>2, <1>3, <1>4, <1>6, <2>1
<1> QED
  BY <1>1, <1>2, <1>6, <1>7, <1>8 DEF ShownAlike

\* What a page lists, by its tokens.
TocOf(planned, p) == Each(ListedBy(planned, p), LAMBDA q : q.stem)

\* There is a token for each page that is listed,
LEMMA TocTokensAre ==
    ASSUME NEW planned, IsList(planned), NEW p
    PROVE  LET x == ListedBy(planned, p)
               a == TocTokens(planned, p)
               b == TocOf(planned, p)
           IN  /\ IsList(a) /\ IsList(b) /\ DOMAIN a = DOMAIN x /\ DOMAIN b = DOMAIN x
               /\ \A i \in DOMAIN x : a[i] = <<"TOC", x[i].stem>> /\ b[i] = x[i].stem
<1> DEFINE I == {i \in DOMAIN planned : planned[i].page.up = p.id[2]}
<1>1. ListedBy(planned, p) = IF p.id[1] = "hub" THEN Chosen(planned, I) ELSE <<>>
  BY DEF ListedBy, Those
<1> HIDE DEF I
<1>2. PICK x : x = ListedBy(planned, p) /\ IsList(x)
  BY <1>1, ChosenOf, ShortLists
<1> DEFINE f == [i \in DOMAIN x |-> <<"TOC", x[i].stem>>]
           g == [i \in DOMAIN x |-> x[i].stem]
<1>3. TocTokens(planned, p) = <<>> \o f /\ TocOf(planned, p) = <<>> \o g
  BY <1>2 DEF TocTokens, TocOf, Each
<1>4. /\ f = [i \in DOMAIN x |-> f[i]] /\ g = [i \in DOMAIN x |-> g[i]]
      /\ \A i \in DOMAIN x : f[i] = <<"TOC", x[i].stem>> /\ g[i] = x[i].stem
  OBVIOUS
<1> HIDE DEF f, g
<1>5. IsList(f) /\ DOMAIN f = DOMAIN x /\ <<>> \o f = f
  BY <1>2, <1>4, EachIsList
<1>6. IsList(g) /\ DOMAIN g = DOMAIN x /\ <<>> \o g = g
  BY <1>2, <1>4, EachIsList
<1> QED
  BY <1>2, <1>3, <1>4, <1>5, <1>6

\* so the tokens fix the stems that are.
LEMMA TocTokensFix ==
    ASSUME NEW planned, IsList(planned), NEW planning, IsList(planning), NEW p, NEW q,
           TocTokens(planned, p) = TocTokens(planning, q)
    PROVE  TocOf(planned, p) = TocOf(planning, q)
<1>1. PICK x, a, b : /\ x = ListedBy(planned, p) /\ a = TocTokens(planned, p)
                     /\ b = TocOf(planned, p) /\ IsList(b)
                     /\ DOMAIN a = DOMAIN x /\ DOMAIN b = DOMAIN x
                     /\ \A i \in DOMAIN x : a[i] = <<"TOC", x[i].stem>> /\ b[i] = x[i].stem
  BY TocTokensAre
<1>2. PICK y, c, d : /\ y = ListedBy(planning, q) /\ c = TocTokens(planning, q)
                     /\ d = TocOf(planning, q) /\ IsList(d)
                     /\ DOMAIN c = DOMAIN y /\ DOMAIN d = DOMAIN y
                     /\ \A i \in DOMAIN y : c[i] = <<"TOC", y[i].stem>> /\ d[i] = y[i].stem
  BY TocTokensAre
<1>3. a = c /\ DOMAIN x = DOMAIN y
  BY <1>1, <1>2
<1>4. ASSUME NEW i \in DOMAIN b PROVE b[i] = d[i]
  <2>1. i \in DOMAIN x /\ i \in DOMAIN y
    BY <1>1, <1>3, <1>4
  <2>2. a[i] = <<"TOC", b[i]>> /\ c[i] = <<"TOC", d[i]>>
    BY <1>1, <1>2, <2>1
  <2>3. \A v, w : <<"TOC", v>> = <<"TOC", w>> => v = w
    OBVIOUS
  <2> QED
    BY <1>3, <2>2, <2>3
<1> QED
  BY <1>1, <1>2, <1>3, <1>4, SameList

\* The tokens of a group: its own, and its members'.
GroupToken(r, planned, p) == <<<<"G", p.id[2], GroupReads(r, planned, p)>>>>
MemberTokens(r, g) == Each(GroupSymbols(r, g), LAMBDA u : <<"GM", u, Content(r, u)>>)
LinksOf(r, p) == IF p.id[1] = "group"
                 THEN Each(GroupSymbols(r, p.id[2]), LAMBDA u : r.sym[u].path) ELSE <<>>

\* What a group's page is.
LEMMA GroupPageIs ==
    ASSUME NEW r, NEW p, IsGroupPage(r, p)
    PROVE  /\ p.id[1] = "group" /\ p.id[2] \in ToSet(Groups) /\ r.grp[p.id[2]] # None
           /\ p.name = <<GroupName(p.id[2])>> /\ p.deep = <<>> /\ p.shallow = <<>> /\ p.file = None
<1>1. PICK g \in ToSet(Groups) :
          r.grp[g] # None /\ p = Page(<<"group", g>>, <<GroupName(g)>>, <<>>)
  BY DEF IsGroupPage
<1>2. p.id = <<"group", g>> /\ p.name = <<GroupName(g)>> /\ p.deep = <<>> /\ p.shallow = <<>>
      /\ p.file = None
  BY <1>1 DEF Page
<1>3. p.id[1] = "group" /\ p.id[2] = g
  BY <1>2
<1> QED
  BY <1>1, <1>2, <1>3

\* There is a token for each member,
LEMMA MemberTokensAre ==
    ASSUME NEW r, IrOK(r), NEW g \in ToSet(Groups), r.grp[g] # None
    PROVE  LET x == GroupSymbols(r, g)
               a == MemberTokens(r, g)
           IN  /\ IsList(x) /\ IsList(a) /\ DOMAIN a = DOMAIN x
               /\ \A i \in DOMAIN x : a[i] = <<"GM", x[i], Content(r, x[i])>>
<1>1. PICK t : t = r.grp[g].members /\ IsList(t)
  <2>1. r.grp[g].members \in Seq(Usrs)
    BY DEF IrOK, GroupRow
  <2> QED
    BY <2>1, SequenceIsList
<1> DEFINE I == {i \in DOMAIN t : t[i] \in Present(r)}
<1>2. GroupSymbols(r, g) = Chosen(t, I)
  BY <1>1 DEF GroupSymbols, Those
<1> HIDE DEF I
<1>3. PICK x : x = GroupSymbols(r, g) /\ IsList(x)
  BY <1>1, <1>2, ChosenOf
<1> DEFINE f == [i \in DOMAIN x |-> <<"GM", x[i], Content(r, x[i])>>]
<1>4. MemberTokens(r, g) = <<>> \o f
  BY <1>3 DEF MemberTokens, Each
<1>5. f = [i \in DOMAIN x |-> f[i]] /\ \A i \in DOMAIN x : f[i] = <<"GM", x[i], Content(r, x[i])>>
  OBVIOUS
<1> HIDE DEF f
<1>6. IsList(f) /\ DOMAIN f = DOMAIN x /\ <<>> \o f = f
  BY <1>3, <1>5, EachIsList
<1> QED
  BY <1>3, <1>4, <1>5, <1>6

\* after the group's own.
LEMMA GroupTokensAre ==
    ASSUME NEW m, NEW r, IrOK(r), NEW planned, NEW p, IsGroupPage(r, p)
    PROVE  LET a == GroupToken(r, planned, p)
               b == MemberTokens(r, p.id[2])
           IN  /\ BodyTokens(m, r, planned, p) = a \o b /\ IsList(a) /\ IsList(b)
               /\ Headed(a, {"G"}) /\ Headed(b, {"GM"})
<1>1. PICK x : x = <<"G", p.id[2], GroupReads(r, planned, p)>> /\ x[1] = "G"
  BY FirstOfThree
<1>2. IsList(<<x>>) /\ Headed(<<x>>, {"G"})
  BY <1>1, ShortLists DEF Headed
<1>3. PICK b : /\ b = MemberTokens(r, p.id[2]) /\ IsList(b)
               /\ \A i \in DOMAIN b : \E u, c : b[i] = <<"GM", u, c>>
  <2>1. PICK g \in ToSet(Groups) : g = p.id[2] /\ r.grp[g] # None
    BY GroupPageIs
  <2>2. PICK y, b : /\ b = MemberTokens(r, g) /\ IsList(b) /\ DOMAIN b = DOMAIN y
                    /\ \A i \in DOMAIN y : b[i] = <<"GM", y[i], Content(r, y[i])>>
    BY <2>1, MemberTokensAre
  <2> QED
    BY <2>1, <2>2
<1>4. ASSUME NEW i \in DOMAIN b PROVE b[i][1] = "GM"
  <2>1. PICK u, c : b[i] = <<"GM", u, c>>
    BY <1>3
  <2> QED
    BY <2>1
<1>5. BodyTokens(m, r, planned, p) = <<x>> \o b
  <2>1. BodyTokens(m, r, planned, p) = GroupTokens(r, planned, p)
    BY GroupPageIs DEF BodyTokens
  <2>2. GroupTokens(r, planned, p) = <<x>> \o MemberTokens(r, p.id[2])
    BY <1>1 DEF GroupTokens, MemberTokens
  <2> QED
    BY <1>3, <2>1, <2>2
<1>6. Headed(b, {"GM"})
  BY <1>4 DEF Headed
<1> QED
  BY <1>1, <1>2, <1>3, <1>5, <1>6 DEF GroupToken

\* The tokens of a group fix it, what it reads and its members' links.
LEMMA TokensFixGroup ==
    ASSUME NEW m, NEW r, IrOK(r), NEW s, IrOK(s), NEW planned, NEW planning, NEW p, NEW q,
           IsGroupPage(r, p), IsGroupPage(s, q),
           BodyTokens(m, r, planned, p) = BodyTokens(m, s, planning, q)
    PROVE  /\ p.id[2] = q.id[2] /\ GroupReads(r, planned, p) = GroupReads(s, planning, q)
           /\ LinksOf(r, p) = LinksOf(s, q)
<1>1. PICK a, b : /\ a = GroupToken(r, planned, p) /\ b = MemberTokens(r, p.id[2])
                  /\ BodyTokens(m, r, planned, p) = a \o b /\ IsList(a) /\ IsList(b)
                  /\ Headed(a, {"G"}) /\ Headed(b, {"GM"})
  BY GroupTokensAre
<1>2. PICK c, d : /\ c = GroupToken(s, planning, q) /\ d = MemberTokens(s, q.id[2])
                  /\ BodyTokens(m, s, planning, q) = c \o d /\ IsList(c) /\ IsList(d)
                  /\ Headed(c, {"G"}) /\ Headed(d, {"GM"})
  BY GroupTokensAre
<1>3. Unheaded(b, {"G"}) /\ Unheaded(d, {"G"})
  BY <1>1, <1>2 DEF Headed, Unheaded
<1>4. a = c /\ b = d
  <2>1. a \o b = c \o d
    BY <1>1, <1>2
  <2> QED
    BY <1>1, <1>2, <1>3, <2>1, ToldApart
<1>5. p.id[2] = q.id[2] /\ GroupReads(r, planned, p) = GroupReads(s, planning, q)
  <2>1. \A g, x, h, y : <<<<"G", g, x>>>> = <<<<"G", h, y>>>> => g = h /\ x = y
    OBVIOUS
  <2> QED
    BY <1>1, <1>2, <1>4, <2>1 DEF GroupToken
<1>6. LinksOf(r, p) = LinksOf(s, q)
  <2>1. PICK x : /\ x = GroupSymbols(r, p.id[2]) /\ DOMAIN b = DOMAIN x
                 /\ \A i \in DOMAIN x : b[i] = <<"GM", x[i], Content(r, x[i])>>
    BY <1>1, GroupPageIs, MemberTokensAre
  <2>2. PICK y : /\ y = GroupSymbols(s, q.id[2]) /\ DOMAIN d = DOMAIN y
                 /\ \A i \in DOMAIN y : d[i] = <<"GM", y[i], Content(s, y[i])>>
    BY <1>2, GroupPageIs, MemberTokensAre
  <2>3. ASSUME NEW i \in DOMAIN x PROVE r.sym[x[i]].path = s.sym[y[i]].path
    <3>1. <<"GM", x[i], Content(r, x[i])>> = <<"GM", y[i], Content(s, y[i])>>
      BY <1>4, <2>1, <2>2
    <3>2. Content(r, x[i]) = Content(s, y[i])
      BY <3>1
    <3> QED
      BY <3>2, ContentFixes
  <2>4. [i \in DOMAIN x |-> r.sym[x[i]].path] = [i \in DOMAIN y |-> s.sym[y[i]].path]
    BY <1>4, <2>1, <2>2, <2>3
  <2> QED
    BY <2>1, <2>2, <2>4, GroupPageIs DEF LinksOf, Each
<1> QED
  BY <1>5, <1>6

-----------------------------------------------------------------------------
(* What a fingerprint tells.                                               *)

\* A page of some IR, in a grouping.
IsPage(by, r, p) == GoodPage(by, r, p) \/ IsGroupPage(r, p)

\* A page of symbols and a group's have tokens with other heads.
LEMMA BodyIsHeaded ==
    ASSUME NEW m, NEW r, IrOK(r), NEW planned, NEW p, IsPage(m.by, r, p)
    PROVE  LET t == BodyTokens(m, r, planned, p)
           IN  /\ IsList(t)
               /\ GoodPage(m.by, r, p) => Headed(t, SymbolHeads)
               /\ IsGroupPage(r, p) => Headed(t, {"G", "GM"}) /\ t # <<>>
<1>1. CASE GoodPage(m.by, r, p)
  <2>1. SymbolsOf(r, p) /\ p.id[1] # "group"
    BY <1>1 DEF GoodPage
  <2>2. ~ IsGroupPage(r, p)
    BY <2>1, GroupPageIs
  <2> QED
    BY <2>1, <2>2, BlocksAre
<1>2. CASE IsGroupPage(r, p)
  <2>1. ~ GoodPage(m.by, r, p)
    BY <1>2, GroupPageIs DEF GoodPage
  <2>2. PICK a, b : /\ BodyTokens(m, r, planned, p) = a \o b /\ IsList(a) /\ IsList(b)
                    /\ Headed(a, {"G"}) /\ Headed(b, {"GM"}) /\ a = GroupToken(r, planned, p)
    <3>1. PICK a, b : a = GroupToken(r, planned, p) /\ b = MemberTokens(r, p.id[2])
      OBVIOUS
    <3>2. /\ BodyTokens(m, r, planned, p) = a \o b /\ IsList(a) /\ IsList(b)
          /\ Headed(a, {"G"}) /\ Headed(b, {"GM"})
      BY <1>2, <3>1, GroupTokensAre
    <3> QED
      BY <3>1, <3>2
  <2>3. Headed(a, {"G", "GM"}) /\ Headed(b, {"G", "GM"})
    BY <2>2 DEF Headed
  <2>4. IsList(a \o b) /\ Headed(a \o b, {"G", "GM"})
    BY <2>2, <2>3, HeadedLike
  <2>5. a \o b # <<>>
    <3>1. a # <<>>
      BY <2>2 DEF GroupToken
    <3> QED
      BY <2>2, <3>1, FirstOfBoth
  <2> QED
    BY <2>1, <2>2, <2>4, <2>5
<1> QED
  BY <1>1, <1>2 DEF IsPage

\* The heads of what comes before the body.
PartHeads == {"TOC", "FILEPATH"}

\* The parts of a fingerprint have heads of their own,
LEMMA HeadOfPage ==
    ASSUME NEW m, NEW r, IrOK(r), NEW planned, IsList(planned), NEW p, IsPage(m.by, r, p)
    PROVE  LET a == TocTokens(planned, p)
               b == FileTokens(p)
               c == BodyTokens(m, r, planned, p)
           IN  /\ IsList(a) /\ Headed(a, {"TOC"}) /\ IsList(b) /\ Unheaded(b, {"TOC"})
               /\ IsList(a \o b) /\ Headed(a \o b, PartHeads)
               /\ IsList(c) /\ Unheaded(c, PartHeads)
<1>1. PICK a : /\ a = TocTokens(planned, p) /\ IsList(a)
               /\ \A i \in DOMAIN a : \E y : a[i] = <<"TOC", y>>
  BY TocTokensAre
<1>2. ASSUME NEW i \in DOMAIN a PROVE a[i][1] = "TOC"
  <2>1. PICK y : a[i] = <<"TOC", y>>
    BY <1>1
  <2> QED
    BY <2>1
<1>3. Headed(a, {"TOC"}) /\ Headed(a, PartHeads)
  BY <1>2 DEF Headed, PartHeads
<1>4. PICK b : b = FileTokens(p)
  OBVIOUS
<1>5. IsList(b) /\ \A i \in DOMAIN b : b[i][1] = "FILEPATH"
  <2>1. PICK x : x = <<"FILEPATH", p.file>> /\ x[1] = "FILEPATH"
    BY FirstOfTwo
  <2>2. b = IF p.file = None THEN <<>> ELSE <<x>>
    BY <1>4, <2>1 DEF FileTokens
  <2> QED
    BY <2>1, <2>2, ShortLists
<1>6. Unheaded(b, {"TOC"}) /\ Headed(b, PartHeads)
  BY <1>5 DEF Headed, Unheaded, PartHeads
<1>7. IsList(a \o b) /\ Headed(a \o b, PartHeads)
  BY <1>1, <1>3, <1>5, <1>6, HeadedLike
<1>8. PICK c : /\ c = BodyTokens(m, r, planned, p) /\ IsList(c)
               /\ Headed(c, SymbolHeads) \/ Headed(c, {"G", "GM"})
  BY BodyIsHeaded DEF IsPage
<1>9. Unheaded(c, PartHeads)
  BY <1>8 DEF Headed, Unheaded, PartHeads, SymbolHeads
<1> QED
  BY <1>1, <1>3, <1>4, <1>5, <1>6, <1>7, <1>8, <1>9

\* so the fingerprint fixes them.
LEMMA FingerprintFixesParts ==
    ASSUME NEW m, NEW r, IrOK(r), NEW s, IrOK(s), NEW planned, IsList(planned),
           NEW planning, IsList(planning), NEW p, NEW q, IsPage(m.by, r, p), IsPage(m.by, s, q),
           PageFingerprint(m, r, planned, p) = PageFingerprint(m, s, planning, q)
    PROVE  /\ TocTokens(planned, p) = TocTokens(planning, q) /\ FileTokens(p) = FileTokens(q)
           /\ BodyTokens(m, r, planned, p) = BodyTokens(m, s, planning, q)
<1>1. PICK a, b, c : /\ a = TocTokens(planned, p) /\ b = FileTokens(p)
                     /\ c = BodyTokens(m, r, planned, p)
                     /\ IsList(a) /\ Headed(a, {"TOC"}) /\ IsList(b) /\ Unheaded(b, {"TOC"})
                     /\ IsList(a \o b) /\ Headed(a \o b, PartHeads)
                     /\ IsList(c) /\ Unheaded(c, PartHeads)
  BY HeadOfPage
<1>2. PICK d, e, f : /\ d = TocTokens(planning, q) /\ e = FileTokens(q)
                     /\ f = BodyTokens(m, s, planning, q)
                     /\ IsList(d) /\ Headed(d, {"TOC"}) /\ IsList(e) /\ Unheaded(e, {"TOC"})
                     /\ IsList(d \o e) /\ Headed(d \o e, PartHeads)
                     /\ IsList(f) /\ Unheaded(f, PartHeads)
  BY HeadOfPage
<1>3. PICK x, y : x = a \o b /\ y = d \o e
  OBVIOUS
<1>4. x \o c = y \o f
  BY <1>1, <1>2, <1>3, FingerprintIs
<1>5. x = y /\ c = f
  <2>1. /\ IsList(x) /\ IsList(y) /\ Headed(x, PartHeads) /\ Headed(y, PartHeads)
        /\ IsList(c) /\ IsList(f) /\ Unheaded(c, PartHeads) /\ Unheaded(f, PartHeads)
    BY <1>1, <1>2, <1>3
  <2> QED
    BY <1>4, <2>1, ToldApart
<1>6. a = d /\ b = e
  <2>1. a \o b = d \o e
    BY <1>3, <1>5
  <2> QED
    BY <1>1, <1>2, <2>1, ToldApart
<1> QED
  BY <1>1, <1>2, <1>5, <1>6

\* The token of a file fixes it.
LEMMA FileTokensFix ==
    ASSUME NEW p, NEW q, FileTokens(p) = FileTokens(q)
    PROVE  p.file = q.file
<1>1. \A x, y : <<<<"FILEPATH", x>>>> = <<<<"FILEPATH", y>>>> => x = y
  OBVIOUS
<1>2. \A x : <<<<"FILEPATH", x>>>> # <<>>
  OBVIOUS
<1> QED
  BY <1>1, <1>2 DEF FileTokens

\* What a symbol is called is fixed by its row.
LEMMA NameIsFixed ==
    ASSUME NEW by, NEW r, IrOK(r), NEW s, IrOK(s), SameTree(r, s), NEW u,
           u \in Present(r), u \in Present(s), Kind(r, u) = Kind(s, u),
           ShownArgs(r, u) = ShownArgs(s, u)
    PROVE  NameOf(by, r, u) = NameOf(by, s, u)
<1>1. r.sym[u].path = s.sym[u].path /\ r.sym[u].parent = s.sym[u].parent
  BY DEF SameTree
<1>2. LumpOf(r, u) = LumpOf(s, u)
  <2>1. Spelling(r, u) = Spelling(s, u)
    BY <1>1 DEF Spelling
  <2> QED
    BY <2>1 DEF LumpOf
<1>3. PageName(r, u) = PageName(s, u)
  BY <1>1 DEF PageName, ShownArgs
<1>4. LumpOf(r, u) # "none" => ScopePath(r, r.sym[u].parent) = ScopePath(s, s.sym[u].parent)
  <2>1. PICK d : d = r.sym[u].parent
    OBVIOUS
  <2>2. d \in Present(r) \union {None} /\ d \in Present(s) \union {None}
    BY <1>1, <2>1 DEF IrOK
  <2>3. d # None => r.sym[d].path = s.sym[d].path
    BY <2>2 DEF SameTree
  <2> QED
    BY <1>1, <2>1, <2>2, <2>3 DEF ScopePath
<1> QED
  BY <1>1, <1>2, <1>3, <1>4 DEF NameOf

\* The body of a page's text.
LEMMA TextBodyIs ==
    ASSUME NEW m, NEW r, NEW planned, NEW p
    PROVE  Text(m, r, planned, p).body =
               [name |-> p.name, file |-> p.file, shows |-> PageShows(m, r, p),
                toc |-> TocOf(planned, p), group |-> GroupReads(r, planned, p),
                links |-> LinksOf(r, p)]
BY DEF Text, PageShows, TocOf, LinksOf

\* A group's page shows no symbols,
LEMMA GroupShowsNone ==
    ASSUME NEW m, NEW r, NEW p, IsGroupPage(r, p)
    PROVE  PageShows(m, r, p) = <<>>
<1>1. p.deep = <<>> /\ p.shallow = <<>>
  BY GroupPageIs
<1>2. IsList(<<>>) /\ ToSet(<<>>) = {}
  BY ShortLists DEF ToSet
<1> DEFINE below == Below(m, r, p.file)
           f == [i \in DOMAIN <<>> |-> <<(<<>>)[i]>> \o below[(<<>>)[i]]]
<1>3. RenderedBy(m, r, p) = <<>> \o FlattenSeq(<<>> \o f)
  BY <1>1 DEF RenderedBy, Each
<1>4. IsList(f) /\ <<>> \o f = f /\ DOMAIN f = {}
  <2> HIDE DEF below
  <2> QED
    BY <1>2, EachIsList
<1> HIDE DEF f
<1>5. PICK x : x = FlattenSeq(f) /\ IsList(x) /\ ToSet(x) = UNION {ToSet(f[i]) : i \in DOMAIN f}
  BY <1>4, FlattenedList
<1>6. DOMAIN x = {}
  BY <1>4, <1>5 DEF ToSet
<1>7. x = <<>> /\ <<>> \o x = x
  BY <1>5, <1>6, ListFacts, SameList, <1>2
<1>8. RenderedBy(m, r, p) = <<>>
  BY <1>3, <1>4, <1>5, <1>7
<1>9. DOMAIN PageShows(m, r, p) = {} /\ IsList(PageShows(m, r, p))
  BY <1>2, <1>8, PageShowsIs
<1> QED
  BY <1>2, <1>9, SameList

\* and a page of symbols nothing of a group.
LEMMA SymbolsShowNoGroup ==
    ASSUME NEW by, NEW r, NEW p, GoodPage(by, r, p), NEW planned
    PROVE  GroupReads(r, planned, p) = <<>> /\ LinksOf(r, p) = <<>>
BY DEF GoodPage, GroupReads, LinksOf

\* A fingerprint fixes the name of a page of symbols.
LEMMA KeyFixesName ==
    ASSUME NEW m, NEW r, IrOK(r), NEW s, IrOK(s), SameTree(r, s), NEW p, NEW q,
           GoodPage(m.by, r, p), GoodPage(m.by, s, q), NEW planned, NEW planning,
           FileTokens(p) = FileTokens(q),
           BodyTokens(m, r, planned, p) = BodyTokens(m, s, planning, q)
    PROVE  p.name = q.name
<1>1. CASE m.by = "file"
  <2>1. p.file = q.file
    BY FileTokensFix
  <2> QED
    BY <1>1, <2>1 DEF GoodPage
<1>2. CASE m.by # "file"
  <2>1. /\ SymbolsOf(r, p) /\ p.shallow \o p.deep # <<>> /\ p.name = NameOf(m.by, r, Heading(p))
        /\ SymbolsOf(s, q) /\ q.shallow \o q.deep # <<>> /\ q.name = NameOf(m.by, s, Heading(q))
        /\ p.id[1] # "group" /\ q.id[1] # "group"
    BY <1>2 DEF GoodPage
  <2>2. PICK x : /\ x = RenderedBy(m, r, p) /\ IsList(x) /\ x # <<>> /\ x[1] = Heading(p)
    BY <2>1, RenderedIs
  <2>3. RenderedBy(m, s, q) # <<>> /\ RenderedBy(m, s, q)[1] = Heading(q)
    BY <2>1, RenderedIs
  <2>4. /\ x = RenderedBy(m, s, q)
        /\ \A u \in ToSet(x) : /\ u \in Present(r) /\ u \in Present(s)
                               /\ SymbolTokens(m, r, u) = SymbolTokens(m, s, u)
    <3>1. ShownAlike(m, r, s, p, q)
      BY <2>1, TokensFixPage
    <3> QED
      BY <2>2, <3>1 DEF ShownAlike
  <2>5. PICK u : u = Heading(p) /\ u = Heading(q)
    BY <2>2, <2>3, <2>4
  <2>6. u \in ToSet(x)
    <3>1. 1 \in DOMAIN x
      BY <2>2 DEF IsList
    <3> QED
      BY <2>2, <2>5, <3>1 DEF ToSet
  <2>7. u \in Present(r) /\ u \in Present(s) /\ SymbolTokens(m, r, u) = SymbolTokens(m, s, u)
    BY <2>4, <2>6
  <2>8. Kind(r, u) = Kind(s, u) /\ ShownArgs(r, u) = ShownArgs(s, u)
    BY <2>7, TokensFixRow
  <2>9. NameOf(m.by, r, u) = NameOf(m.by, s, u)
    BY <2>7, <2>8, NameIsFixed
  <2> QED
    BY <2>1, <2>5, <2>9
<1> QED
  BY <1>1, <1>2

\* Of two pages with one fingerprint both are of groups or neither is.
LEMMA KeyFixesSort ==
    ASSUME NEW m, NEW r, IrOK(r), NEW s, IrOK(s), NEW p, NEW q,
           GoodPage(m.by, r, p), IsGroupPage(s, q), NEW planned, NEW planning
    PROVE  BodyTokens(m, r, planned, p) # BodyTokens(m, s, planning, q)
<1>1. PICK t : t = BodyTokens(m, s, planning, q) /\ IsList(t) /\ Headed(t, {"G", "GM"}) /\ t # <<>>
  BY BodyIsHeaded DEF IsPage
<1>2. Headed(BodyTokens(m, r, planned, p), SymbolHeads)
  BY BodyIsHeaded DEF IsPage
<1>3. 1 \in DOMAIN t
  BY <1>1 DEF IsList
<1>4. t[1][1] \in {"G", "GM"}
  BY <1>1, <1>3 DEF Headed
<1>5. ~ Headed(t, SymbolHeads)
  BY <1>3, <1>4 DEF Headed, SymbolHeads
<1> QED
  BY <1>1, <1>2, <1>5

\* What shows the same parts is the same body.
LEMMA SameBody ==
    ASSUME NEW m, NEW r, NEW s, NEW planned, NEW planning, NEW p, NEW q,
           p.name = q.name, p.file = q.file, PageShows(m, r, p) = PageShows(m, s, q),
           TocOf(planned, p) = TocOf(planning, q),
           GroupReads(r, planned, p) = GroupReads(s, planning, q), LinksOf(r, p) = LinksOf(s, q)
    PROVE  Text(m, r, planned, p).body = Text(m, s, planning, q).body
<1>1. Text(m, r, planned, p).body =
          [name |-> p.name, file |-> p.file, shows |-> PageShows(m, r, p),
           toc |-> TocOf(planned, p), group |-> GroupReads(r, planned, p),
           links |-> LinksOf(r, p)]
  BY TextBodyIs
<1>2. Text(m, s, planning, q).body =
          [name |-> q.name, file |-> q.file, shows |-> PageShows(m, s, q),
           toc |-> TocOf(planning, q), group |-> GroupReads(s, planning, q),
           links |-> LinksOf(s, q)]
  BY TextBodyIs
<1> QED
  BY <1>1, <1>2, Zenon

\* A fingerprint fixes the body of a text.
LEMMA KeyFixesBody ==
    ASSUME NEW m, NEW r, IrOK(r), NEW s, IrOK(s), SameTree(r, s), NEW planned, IsList(planned),
           NEW planning, IsList(planning), NEW p, NEW q, IsPage(m.by, r, p), IsPage(m.by, s, q),
           PageFingerprint(m, r, planned, p) = PageFingerprint(m, s, planning, q)
    PROVE  Text(m, r, planned, p).body = Text(m, s, planning, q).body
<1>1. /\ TocTokens(planned, p) = TocTokens(planning, q) /\ FileTokens(p) = FileTokens(q)
      /\ BodyTokens(m, r, planned, p) = BodyTokens(m, s, planning, q)
  BY FingerprintFixesParts
<1>2. TocOf(planned, p) = TocOf(planning, q) /\ p.file = q.file
  BY <1>1, TocTokensFix, FileTokensFix
<1>3. CASE GoodPage(m.by, r, p) /\ GoodPage(m.by, s, q)
  <2>1. PageShows(m, r, p) = PageShows(m, s, q)
    <3>1. SymbolsOf(r, p) /\ SymbolsOf(s, q) /\ p.id[1] # "group" /\ q.id[1] # "group"
      BY <1>3 DEF GoodPage
    <3>2. ShownAlike(m, r, s, p, q)
      BY <1>1, <3>1, TokensFixPage
    <3> QED
      BY <3>2 DEF ShownAlike
  <2>2. p.name = q.name
    BY <1>1, <1>3, KeyFixesName
  <2>3. /\ GroupReads(r, planned, p) = <<>> /\ LinksOf(r, p) = <<>>
        /\ GroupReads(s, planning, q) = <<>> /\ LinksOf(s, q) = <<>>
    BY <1>3, SymbolsShowNoGroup
  <2> QED
    BY <1>2, <2>1, <2>2, <2>3, SameBody
<1>4. CASE IsGroupPage(r, p) /\ IsGroupPage(s, q)
  <2>1. PageShows(m, r, p) = PageShows(m, s, q)
    BY <1>4, GroupShowsNone
  <2>2. /\ p.id[2] = q.id[2] /\ GroupReads(r, planned, p) = GroupReads(s, planning, q)
        /\ LinksOf(r, p) = LinksOf(s, q)
    BY <1>1, <1>4, TokensFixGroup
  <2>3. p.name = q.name
    BY <1>4, <2>2, GroupPageIs
  <2> QED
    BY <1>2, <2>1, <2>2, <2>3, SameBody
<1>5. ~ (GoodPage(m.by, r, p) /\ IsGroupPage(s, q))
  BY <1>1, KeyFixesSort
<1>6. ~ (GoodPage(m.by, s, q) /\ IsGroupPage(r, p))
  BY <1>1, KeyFixesSort
<1> QED
  BY <1>3, <1>4, <1>5, <1>6 DEF IsPage

-----------------------------------------------------------------------------
(* Replay.                                                                 *)

\* The index by its entries.
LEMMA IndexKeyIs ==
    ASSUME NEW r, NEW planned, IsList(planned)
    PROVE  LET k == IndexKey(r, planned)
           IN  /\ DOMAIN k = DOMAIN planned
               /\ \A i \in DOMAIN planned :
                      k[i] = <<planned[i].stem, Label(r, planned[i].page), planned[i].page.up = None>>
<1> DEFINE f == [i \in DOMAIN planned |->
                    <<planned[i].stem, Label(r, planned[i].page), planned[i].page.up = None>>]
<1>1. IndexKey(r, planned) = <<>> \o f
  BY DEF IndexKey, Each
<1>2. <<>> \o f = f
  <2>1. f = [i \in DOMAIN planned |-> f[i]]
    OBVIOUS
  <2> HIDE DEF f
  <2> QED
    BY <2>1, EachIsList
<1> QED
  BY <1>1, <1>2

\* What is in the index, entry by entry.
InIndexOf(planned) == {i \in DOMAIN planned : planned[i].page.up = None}

\* It is picked from the plan, in order.
LEMMA InIndexIs ==
    ASSUME NEW r, NEW planned, IsList(planned)
    PROVE  LET c == PlacesIn(Len(planned), InIndexOf(planned))
               t == InIndex(r, planned)
           IN  /\ IsList(t) /\ IsList(c) /\ DOMAIN t = DOMAIN c
               /\ \A j \in DOMAIN c : /\ c[j] \in DOMAIN planned
                                      /\ t[j] = <<planned[c[j]].stem, Label(r, planned[c[j]].page)>>
<1>1. PICK I : I = InIndexOf(planned)
  OBVIOUS
<1>2. PICK x : x = Chosen(planned, I) /\ IsList(x)
  BY ChosenOf
<1>3. PICK c : c = PlacesIn(Len(planned), I) /\ IsList(c) /\ Picked(x, c, planned)
  BY <1>2, ChosenIsPicked
<1> DEFINE f == [j \in DOMAIN x |-> <<x[j].stem, Label(r, x[j].page)>>]
<1>4. InIndex(r, planned) = <<>> \o f
  BY <1>1, <1>2 DEF InIndex, InIndexOf, Those, Each
<1>5. f = [j \in DOMAIN x |-> f[j]] /\ \A j \in DOMAIN x : f[j] = <<x[j].stem, Label(r, x[j].page)>>
  OBVIOUS
<1> HIDE DEF f
<1>6. IsList(f) /\ DOMAIN f = DOMAIN x /\ <<>> \o f = f
  BY <1>2, <1>5, EachIsList
<1>7. DOMAIN x = DOMAIN c /\ \A j \in DOMAIN c : c[j] \in DOMAIN planned /\ x[j] = planned[c[j]]
  BY <1>2, <1>3, ListFacts DEF Picked
<1> QED
  BY <1>1, <1>3, <1>4, <1>5, <1>6, <1>7

\* The index's key fixes it.
LEMMA IndexKeyFixes ==
    ASSUME NEW r, NEW planned, IsList(planned), NEW s, NEW planning, IsList(planning),
           IndexKey(r, planned) = IndexKey(s, planning)
    PROVE  InIndex(r, planned) = InIndex(s, planning)
<1>1. DOMAIN planned = DOMAIN planning
  BY IndexKeyIs
<1>2. ASSUME NEW i \in DOMAIN planned
      PROVE  /\ planned[i].stem = planning[i].stem
             /\ Label(r, planned[i].page) = Label(s, planning[i].page)
             /\ planned[i].page.up = None <=> planning[i].page.up = None
  <2>1. <<planned[i].stem, Label(r, planned[i].page), planned[i].page.up = None>>
            = <<planning[i].stem, Label(s, planning[i].page), planning[i].page.up = None>>
    BY <1>1, IndexKeyIs
  <2> QED
    BY <2>1
<1>3. Len(planned) = Len(planning)
  BY <1>1, ListFacts
<1>4. InIndexOf(planned) = InIndexOf(planning)
  BY <1>1, <1>2 DEF InIndexOf
<1>5. PICK c, t : /\ c = PlacesIn(Len(planned), InIndexOf(planned)) /\ t = InIndex(r, planned)
                  /\ IsList(t) /\ DOMAIN t = DOMAIN c
                  /\ \A j \in DOMAIN c :
                         /\ c[j] \in DOMAIN planned
                         /\ t[j] = <<planned[c[j]].stem, Label(r, planned[c[j]].page)>>
  BY InIndexIs
<1>6. PICK d, u : /\ d = PlacesIn(Len(planning), InIndexOf(planning)) /\ u = InIndex(s, planning)
                  /\ IsList(u) /\ DOMAIN u = DOMAIN d
                  /\ \A j \in DOMAIN d :
                         /\ d[j] \in DOMAIN planning
                         /\ u[j] = <<planning[d[j]].stem, Label(s, planning[d[j]].page)>>
  BY InIndexIs
<1>7. c = d
  BY <1>3, <1>4, <1>5, <1>6
<1>8. \A j \in DOMAIN t : t[j] = u[j]
  BY <1>2, <1>5, <1>6, <1>7
<1> QED
  BY <1>5, <1>6, <1>7, <1>8, SameList

\* By configuration, project and IR, Renders has the rows.
LEMMA RendersAre ==
    ASSUME NEW c \in DOMAIN Modes, NEW p \in DOMAIN Projects, NEW b \in DOMAIN Projects[p]
    PROVE  Renders[c][p][b] =
               RenderFresh(Modes[c], Projects[p][b], PlanPages(Modes[c], Projects[p][b]))
<1>1. IsList(Modes) /\ IsList(Projects) /\ IsList(Projects[p])
  <2>1. Projects[p] \in Seq(Irs)
    BY PagesAssumption
  <2> QED
    BY <2>1, PagesAssumption, SequenceIsList
<1> DEFINE R(m, r) == RenderFresh(m, r, PlanPages(m, r))
           F(m, s) == [i \in DOMAIN s |-> R(m, s[i])]
           G(m) == [i \in DOMAIN Projects |-> <<>> \o F(m, Projects[i])]
           H == [i \in DOMAIN Modes |-> <<>> \o G(Modes[i])]
<1>2. Renders = <<>> \o H
  BY DEF Renders, ForAll, Each
<1> HIDE DEF R
<1>3. <<>> \o H = H
  <2> HIDE DEF G
  <2> QED
    BY <1>1, EachIsList
<1>4. H[c] = <<>> \o G(Modes[c])
  OBVIOUS
<1>5. <<>> \o G(Modes[c]) = G(Modes[c])
  <2> HIDE DEF F
  <2> QED
    BY <1>1, EachIsList
<1>6. G(Modes[c])[p] = <<>> \o F(Modes[c], Projects[p])
  OBVIOUS
<1>7. <<>> \o F(Modes[c], Projects[p]) = F(Modes[c], Projects[p])
  BY <1>1, EachIsList
<1>8. F(Modes[c], Projects[p])[b] = R(Modes[c], Projects[p][b])
  OBVIOUS
<1> HIDE DEF F, G, H
<1>9. Renders[c][p][b] = R(Modes[c], Projects[p][b])
  BY <1>2, <1>3, <1>4, <1>5, <1>6, <1>7, <1>8
<1> QED
  BY <1>9 DEF R

\* A plan's pages are those that a grouping walks, under stems of their own.
LEMMA PlanIs ==
    ASSUME NEW m, NEW r, IrOK(r), m.by \in {"symbol", "file", "class", "namespace"}
    PROVE  /\ IsList(PlanPages(m, r))
           /\ \A q \in ToSet(PlanPages(m, r)) : IsPage(m.by, r, q.page) /\ q.stem # Reserved
<1>1. PICK walk : /\ walk = WalkPages(m, r) /\ IsList(walk)
                  /\ \A p \in ToSet(walk) : IsPage(m.by, r, p)
  BY WalkIs DEF IsPage
<1>2. PICK plan : plan = PlanPages(m, r) /\ plan = Stemmed(walk)
  BY <1>1 DEF PlanPages
<1>3. IsList(plan) /\ DOMAIN plan = DOMAIN walk
  BY <1>1, <1>2, StemmedIs
<1>4. ASSUME NEW i \in DOMAIN plan PROVE IsPage(m.by, r, plan[i].page) /\ plan[i].stem # Reserved
  <2>1. plan[i].page = walk[i]
    <3>1. i \in DOMAIN walk
      BY <1>3
    <3>2. Stemmed(walk)[i] =
              [page |-> walk[i],
               stem |-> [WantedFor(walk)[i] EXCEPT !.pad = PaddingOf(WantedFor(walk), i)]]
      BY <1>1, <3>1, StemmedIs
    <3> QED
      BY <1>2, <3>2
  <2>2. ~ OneFile(plan[i].stem, Reserved)
    BY <1>1, <1>2, <1>3, StemsAreFiles
  <2>3. OneFile(Reserved, Reserved)
    BY DEF OneFile
  <2>4. walk[i] \in ToSet(walk)
    BY <1>3 DEF ToSet
  <2> QED
    BY <1>1, <2>1, <2>2, <2>3, <2>4
<1> QED
  BY <1>2, <1>3, <1>4 DEF ToSet

\* The rows that a render writes: the root document's, and a page's for each stem.
LEMMA RowsOfRender ==
    ASSUME NEW m, NEW r, IrOK(r), m.by \in {"symbol", "file", "class", "namespace"}
    PROVE  LET plan == PlanPages(m, r)
               rows == RenderFresh(m, r, plan)
           IN  /\ Reserved \in DOMAIN rows
               /\ rows[Reserved].key = IndexKey(r, plan) /\ rows[Reserved].text = InIndex(r, plan)
               /\ \A q \in ToSet(plan) : q.stem \in DOMAIN rows
               /\ \A stem \in DOMAIN rows \ {Reserved} :
                      \E p : /\ IsPage(m.by, r, p)
                             /\ rows[stem].key = PageFingerprint(m, r, plan, p)
                             /\ rows[stem].text = Text(m, r, plan, p)
<1>1. PICK plan : /\ plan = PlanPages(m, r) /\ IsList(plan)
                  /\ \A q \in ToSet(plan) : IsPage(m.by, r, q.page) /\ q.stem # Reserved
  BY PlanIs
<1> DEFINE At(stem) == CHOOSE q \in ToSet(plan) : q.stem = stem
           D == {Reserved} \union {q.stem : q \in ToSet(plan)}
<1>2. RenderFresh(m, r, plan) =
          [stem \in D |->
              IF stem = Reserved THEN [key |-> IndexKey(r, plan), text |-> InIndex(r, plan)]
              ELSE PageRow(m, r, plan, At(stem).page)]
  BY DEF RenderFresh
<1>3. \A stem \in D \ {Reserved} : At(stem) \in ToSet(plan)
  OBVIOUS
<1>4. Reserved \in D /\ \A q \in ToSet(plan) : q.stem \in D
  OBVIOUS
<1> HIDE DEF At, D
<1>5. PICK rows : rows = RenderFresh(m, r, plan)
  OBVIOUS
<1>6. DOMAIN rows = D /\ rows[Reserved] = [key |-> IndexKey(r, plan), text |-> InIndex(r, plan)]
  BY <1>2, <1>4, <1>5
<1>7. ASSUME NEW stem \in D \ {Reserved}
      PROVE  \E p : /\ IsPage(m.by, r, p)
                    /\ rows[stem].key = PageFingerprint(m, r, plan, p)
                    /\ rows[stem].text = Text(m, r, plan, p)
  <2>1. PICK p : p = At(stem).page
    OBVIOUS
  <2>2. IsPage(m.by, r, p)
    BY <1>1, <1>3, <2>1
  <2>3. rows[stem] = PageRow(m, r, plan, p)
    BY <1>2, <1>5, <2>1
  <2>4. rows[stem] = [key |-> PageFingerprint(m, r, plan, p), text |-> Text(m, r, plan, p)]
    BY <2>3 DEF PageRow
  <2> QED
    BY <2>2, <2>4
<1> QED
  BY <1>1, <1>4, <1>5, <1>6, <1>7

\* Of two renders of one project rows with one key show the same.
LEMMA RowsWithOneKey ==
    ASSUME NEW m, m.by \in {"symbol", "file", "class", "namespace"},
           NEW r, IrOK(r), NEW s, IrOK(s), SameTree(r, s),
           NEW a, a = RenderFresh(m, r, PlanPages(m, r)),
           NEW b, b = RenderFresh(m, s, PlanPages(m, s)),
           NEW stem, stem \in DOMAIN a, stem \in DOMAIN b, a[stem].key = b[stem].key
    PROVE  /\ stem = Reserved => a[stem].text = b[stem].text
           /\ stem # Reserved => a[stem].text.body = b[stem].text.body
<1>1. PICK plan : plan = PlanPages(m, r) /\ IsList(plan)
  BY PlanIs
<1>2. PICK other : other = PlanPages(m, s) /\ IsList(other)
  BY PlanIs
<1>3. CASE stem = Reserved
  <2>1. a[stem].key = IndexKey(r, plan) /\ a[stem].text = InIndex(r, plan)
    BY <1>1, <1>3, RowsOfRender
  <2>2. b[stem].key = IndexKey(s, other) /\ b[stem].text = InIndex(s, other)
    BY <1>2, <1>3, RowsOfRender
  <2>3. IndexKey(r, plan) = IndexKey(s, other)
    BY <2>1, <2>2
  <2> QED
    BY <1>1, <1>2, <1>3, <2>1, <2>2, <2>3, IndexKeyFixes
<1>4. CASE stem # Reserved
  <2>1. PICK p : /\ IsPage(m.by, r, p) /\ a[stem].key = PageFingerprint(m, r, plan, p)
                 /\ a[stem].text = Text(m, r, plan, p)
    BY <1>1, <1>4, RowsOfRender
  <2>2. PICK q : /\ IsPage(m.by, s, q) /\ b[stem].key = PageFingerprint(m, s, other, q)
                 /\ b[stem].text = Text(m, s, other, q)
    BY <1>2, <1>4, RowsOfRender
  <2>3. PageFingerprint(m, r, plan, p) = PageFingerprint(m, s, other, q)
    BY <2>1, <2>2
  <2>4. Text(m, r, plan, p).body = Text(m, s, other, q).body
    BY <1>1, <1>2, <2>1, <2>2, <2>3, KeyFixesBody
  <2> QED
    BY <1>4, <2>1, <2>2, <2>4
<1> QED
  BY <1>3, <1>4

\* A row that was rendered from some IR of the project.
Rendered(stem, row) ==
    \E b \in DOMAIN Projects[project] :
        stem \in DOMAIN Renders[config][project][b] /\ row = Renders[config][project][b][stem]

\* The rows are those of the last build: the same stems under the same keys.
ReplayInv ==
    /\ TypeInv
    /\ \A stem \in DOMAIN cache : Rendered(stem, cache[stem])
    /\ built # 0 => /\ DOMAIN cache = DOMAIN fresh
                    /\ \A stem \in DOMAIN cache : cache[stem].key = fresh[stem].key

\* Before the first build there is no row.
LEMMA ReplayInit == Init => ReplayInv
<1> SUFFICES ASSUME Init PROVE ReplayInv
  OBVIOUS
<1>1. TypeInv
  BY TypeInit
<1>2. DOMAIN cache = {} /\ built = 0
  BY DEF Init
<1> QED
  BY <1>1, <1>2 DEF ReplayInv

\* A build renders from an IR of the project and replays rows with the same key.
LEMMA ReplayBuild ==
    ASSUME ReplayInv, NEW next \in DOMAIN Projects[project], Build(next)
    PROVE  ReplayInv'
<1>1. TypeInv'
  <2>1. [Next]_vars
    BY DEF Next
  <2> QED
    BY <2>1, TypeStep DEF ReplayInv
<1>2. PICK rendered : rendered = Renders[config][project][next]
  OBVIOUS
<1>3. /\ built' = next /\ config' = config /\ project' = project
      /\ cache' = [stem \in DOMAIN rendered |->
                      IF Replayed(stem, rendered[stem].key) THEN cache[stem] ELSE rendered[stem]]
  BY <1>2 DEF Build
<1>4. fresh' = rendered
  BY <1>2, <1>3 DEF fresh
<1>5. DOMAIN cache' = DOMAIN rendered
  BY <1>3
<1>6. ASSUME NEW stem \in DOMAIN rendered
      PROVE  Rendered(stem, cache'[stem]) /\ cache'[stem].key = rendered[stem].key
  <2>1. CASE Replayed(stem, rendered[stem].key)
    <3>1. cache'[stem] = cache[stem]
      BY <1>3, <2>1
    <3>2. stem \in DOMAIN cache /\ cache[stem].key = rendered[stem].key
      BY <2>1 DEF Replayed
    <3> QED
      BY <3>1, <3>2 DEF ReplayInv
  <2>2. CASE ~ Replayed(stem, rendered[stem].key)
    <3>1. cache'[stem] = rendered[stem]
      BY <1>3, <2>2
    <3> QED
      BY <1>2, <3>1 DEF Rendered
  <2> QED
    BY <2>1, <2>2
<1>7. (\A stem \in DOMAIN cache : Rendered(stem, cache[stem]))'
  BY <1>3, <1>5, <1>6 DEF Rendered
<1> QED
  BY <1>1, <1>3, <1>4, <1>5, <1>6, <1>7 DEF ReplayInv

\* No step loses the invariant.
LEMMA ReplayStep == ReplayInv /\ [Next]_vars => ReplayInv'
<1> SUFFICES ASSUME ReplayInv, [Next]_vars PROVE ReplayInv'
  OBVIOUS
<1>1. CASE Next
  BY <1>1, ReplayBuild DEF Next
<1>2. CASE UNCHANGED vars
  <2>1. TypeInv'
    BY TypeStep DEF ReplayInv
  <2>2. UNCHANGED <<config, project, built, cache>>
    BY <1>2 DEF vars
  <2>3. fresh' = fresh
    BY <2>2 DEF fresh
  <2> QED
    BY <2>1, <2>2, <2>3 DEF ReplayInv, Rendered
<1> QED
  BY <1>1, <1>2

\* The rows then show what a render would.
LEMMA ReplayedAreRendered == ReplayInv => ReplayIsRender
<1> SUFFICES ASSUME ReplayInv, built # 0
             PROVE  /\ \A q \in ToSet(pages) : cache[q.stem].text.body = fresh[q.stem].text.body
                    /\ cache[Reserved].text = fresh[Reserved].text
  BY DEF ReplayIsRender
<1>1. /\ config \in DOMAIN Modes /\ project \in DOMAIN Projects
      /\ built \in DOMAIN Projects[project]
  BY DEF ReplayInv, TypeInv
<1>2. PICK m : m = Modes[config] /\ m.by \in {"symbol", "file", "class", "namespace"}
  BY <1>1, PlansAre
<1>3. PICK r : r = Projects[project][built] /\ IrOK(r)
  BY <1>1, PlansAre
<1>4. fresh = RenderFresh(m, r, PlanPages(m, r))
  BY <1>1, <1>2, <1>3, RendersAre DEF fresh
<1>5. pages = PlanPages(m, r)
  BY <1>1, <1>2, <1>3, PlansAre DEF pages
<1>6. ASSUME NEW stem \in DOMAIN fresh
      PROVE  /\ stem = Reserved => cache[stem].text = fresh[stem].text
             /\ stem # Reserved => cache[stem].text.body = fresh[stem].text.body
  <2>1. cache[stem].key = fresh[stem].key /\ Rendered(stem, cache[stem])
    BY DEF ReplayInv
  <2>2. PICK b \in DOMAIN Projects[project] :
            /\ stem \in DOMAIN Renders[config][project][b]
            /\ cache[stem] = Renders[config][project][b][stem]
    BY <2>1 DEF Rendered
  <2>3. PICK s : s = Projects[project][b] /\ IrOK(s)
    BY <1>1, PlansAre
  <2>4. PICK rows : rows = Renders[config][project][b] /\ rows = RenderFresh(m, s, PlanPages(m, s))
    BY <1>1, <1>2, <2>3, RendersAre
  <2>5. SameTree(s, r)
    <3>1. r \in ToSet(Projects[project]) /\ s \in ToSet(Projects[project])
      BY <1>1, <1>3, <2>3 DEF ToSet
    <3> QED
      BY <1>1, <3>1, PagesAssumption
  <2>6. PICK new : new = fresh
    OBVIOUS
  <2>7. stem \in DOMAIN rows /\ stem \in DOMAIN new /\ rows[stem].key = new[stem].key
    BY <2>1, <2>2, <2>4, <2>6
  <2>8. new = RenderFresh(m, r, PlanPages(m, r))
    BY <1>4, <2>6
  <2>9. /\ stem = Reserved => rows[stem].text = new[stem].text
        /\ stem # Reserved => rows[stem].text.body = new[stem].text.body
    BY <1>2, <1>3, <2>3, <2>4, <2>5, <2>7, <2>8, RowsWithOneKey
  <2> QED
    BY <2>2, <2>4, <2>6, <2>9
<1>7. Reserved \in DOMAIN fresh /\ \A q \in ToSet(pages) : q.stem \in DOMAIN fresh
  BY <1>2, <1>3, <1>4, <1>5, RowsOfRender
<1>8. \A q \in ToSet(pages) : q.stem # Reserved
  BY <1>2, <1>3, <1>5, PlanIs
<1> QED
  BY <1>6, <1>7, <1>8

\* A replayed page shows what a render would, and so does the index.
THEOREM ReplaysAreRenders == Spec => []ReplayIsRender
BY ReplayInit, ReplayStep, ReplayedAreRendered, PTL DEF Spec

-----------------------------------------------------------------------------
(* The symbols below a symbol.                                             *)

\* S has all that is in scope below what it has.
Closed(r, f, S) == \A v \in S : \A c \in ChildrenOf(r, v) : InScope(r, c, f) => c \in S

\* u and all that is in scope below it.
Tree(r, f, u) == {v \in Present(r) : \A S \in SUBSET Present(r) : u \in S /\ Closed(r, f, S) => v \in S}

\* Parents cannot be followed forever: among some symbols one has its parent elsewhere.
LEMMA ParentsEnd ==
    ASSUME NEW r, IrOK(r), NEW S \in SUBSET Present(r), S # {}
    PROVE  \E u \in S : r.sym[u].parent \notin S
<1> DEFINE Bad(T) == T \subseteq Present(r) /\ T # {} /\ \A u \in T : r.sym[u].parent \in T
           Sizes == {n \in Nat : \E T : Bad(T) /\ IsFiniteSet(T) /\ Cardinality(T) = n}
<1> SUFFICES ASSUME Bad(S) PROVE FALSE
  OBVIOUS
<1>1. ASSUME NEW T, T \subseteq Present(r) PROVE IsFiniteSet(T)
  <2>1. T \subseteq Usrs
    BY <1>1 DEF Present, IrOK
  <2>2. IsList(RowOrder)
    BY PagesAssumption, SequenceIsList
  <2>3. RowOrder = [i \in DOMAIN RowOrder |-> RowOrder[i]]
    BY <2>2, ListFacts
  <2>4. IsFiniteSet({RowOrder[i] : i \in DOMAIN RowOrder})
    BY <2>2, <2>3, FinitelyMany
  <2>5. IsFiniteSet(Usrs)
    BY <2>4 DEF Usrs, ToSet
  <2> QED
    BY <2>1, <2>5, FS_Subset
<1>2. Sizes # {}
  <2>1. IsFiniteSet(S)
    BY <1>1
  <2>2. Cardinality(S) \in Nat
    BY <2>1, FS_CardinalityType
  <2> HIDE DEF Bad
  <2> QED
    BY <2>1, <2>2
<1>3. PICK n \in Sizes : \A k \in Sizes : n <= k
  <2>1. Sizes \subseteq Nat
    OBVIOUS
  <2> HIDE DEF Sizes
  <2>2. PICK k \in Sizes : \A l \in Sizes : <<l, k>> \notin OpToRel(<, Nat)
    BY <1>2, <2>1, NatLessThanWellFounded, WFMin
  <2>3. k \in Nat
    BY <2>1
  <2>4. ASSUME NEW l \in Sizes PROVE k <= l
    <3>1. l \in Nat /\ ~ (l < k)
      BY <2>1, <2>2, <2>3 DEF OpToRel
    <3> QED
      BY <2>3, <3>1
  <2> QED
    BY <2>4
<1>4. PICK T : Bad(T) /\ IsFiniteSet(T) /\ Cardinality(T) = n
  OBVIOUS
<1>5. PICK u \in T : ChildrenOf(r, u) \intersect T = {}
  BY <1>4 DEF IrOK
<1>6. Bad(T \ {u})
  <2>1. \A v \in T : r.sym[v].parent \in T /\ r.sym[v].parent # u
    BY <1>4, <1>5 DEF ChildrenOf
  <2> QED
    BY <1>4, <2>1
<1>7. IsFiniteSet(T \ {u}) /\ Cardinality(T \ {u}) = n - 1 /\ n \in Nat
  BY <1>4, FS_RemoveElement
<1>8. Cardinality(T \ {u}) \in Nat
  BY <1>7, FS_CardinalityType
<1>9. n - 1 \in Sizes
  <2> HIDE DEF Bad
  <2> QED
    BY <1>6, <1>7, <1>8
<1> QED
  BY <1>3, <1>7, <1>9

\* A tree has its root and all that is below what it has, and no more than that.
LEMMA TreeIs ==
    ASSUME NEW r, NEW f, NEW u \in Present(r)
    PROVE  /\ u \in Tree(r, f, u) /\ Tree(r, f, u) \subseteq Present(r) /\ Closed(r, f, Tree(r, f, u))
           /\ \A S \in SUBSET Present(r) : u \in S /\ Closed(r, f, S) => Tree(r, f, u) \subseteq S
<1>1. ASSUME NEW v \in Tree(r, f, u), NEW c \in ChildrenOf(r, v), InScope(r, c, f)
      PROVE  c \in Tree(r, f, u)
  <2>1. c \in Present(r)
    BY DEF ChildrenOf
  <2>2. ASSUME NEW S \in SUBSET Present(r), u \in S, Closed(r, f, S) PROVE c \in S
    <3>1. v \in S
      BY <2>2 DEF Tree
    <3> QED
      BY <1>1, <2>2, <3>1 DEF Closed
  <2> QED
    BY <2>1, <2>2 DEF Tree
<1>2. Closed(r, f, Tree(r, f, u))
  BY <1>1 DEF Closed
<1> QED
  BY <1>2 DEF Tree

\* What is in a tree is its root, or in scope and its parent is in the tree,
LEMMA TreeHasParents ==
    ASSUME NEW r, NEW f, NEW u \in Present(r), NEW v \in Tree(r, f, u), v # u
    PROVE  r.sym[v].parent \in Tree(r, f, u) /\ InScope(r, v, f)
<1> DEFINE T == Tree(r, f, u)
           Q == {x \in T : x = u \/ (r.sym[x].parent \in T /\ InScope(r, x, f))}
<1>1. u \in T /\ T \subseteq Present(r) /\ Closed(r, f, T)
  BY TreeIs
<1>2. Closed(r, f, Q)
  <2> HIDE DEF T
  <2> QED
    BY <1>1 DEF Closed, ChildrenOf
<1>3. u \in Q /\ Q \in SUBSET Present(r)
  BY <1>1
<1>4. T \subseteq Q
  <2> HIDE DEF Q
  <2> QED
    BY <1>2, <1>3, TreeIs
<1> QED
  BY <1>4

\* the tree of what is below is part of the tree,
LEMMA TreeOfChild ==
    ASSUME NEW r, NEW f, NEW u \in Present(r), NEW v \in Tree(r, f, u), NEW c \in ChildrenOf(r, v),
           InScope(r, c, f)
    PROVE  c \in Present(r) /\ Tree(r, f, c) \subseteq Tree(r, f, u)
<1>1. c \in Present(r)
  BY DEF ChildrenOf
<1>2. Tree(r, f, u) \in SUBSET Present(r) /\ Closed(r, f, Tree(r, f, u))
  BY TreeIs
<1>3. c \in Tree(r, f, u)
  BY <1>2 DEF Closed
<1> QED
  BY <1>1, <1>2, <1>3, TreeIs

\* and the parent of the root is not.
LEMMA TreeIsBelow ==
    ASSUME NEW r, IrOK(r), NEW f, NEW u \in Present(r)
    PROVE  r.sym[u].parent \notin Tree(r, f, u)
<1>1. PICK T \in SUBSET Present(r) : T = Tree(r, f, u) /\ u \in T
  BY TreeIs
<1>2. PICK v \in T : r.sym[v].parent \notin T
  BY <1>1, ParentsEnd
<1> QED
  BY <1>1, <1>2, TreeHasParents

\* Two trees have nothing in common unless one is in the other.
LEMMA TreesApart ==
    ASSUME NEW r, IrOK(r), NEW f, NEW u \in Present(r), NEW v \in Present(r), u # v,
           r.sym[u].parent \notin Tree(r, f, v), r.sym[v].parent \notin Tree(r, f, u)
    PROVE  Tree(r, f, u) \intersect Tree(r, f, v) = {}
<1> DEFINE S == Tree(r, f, u) \intersect Tree(r, f, v)
<1> SUFFICES ASSUME S # {} PROVE FALSE
  OBVIOUS
<1>1. S \in SUBSET Present(r)
  BY TreeIs
<1>2. PICK w \in S : r.sym[w].parent \notin S
  <2> HIDE DEF S
  <2> QED
    BY <1>1, ParentsEnd
<1> QED
  BY <1>2, TreeHasParents

\* So it is with the trees of siblings.
LEMMA SiblingsApart ==
    ASSUME NEW r, IrOK(r), NEW f, NEW s, NEW u \in ChildrenOf(r, s), NEW v \in ChildrenOf(r, s), u # v
    PROVE  Tree(r, f, u) \intersect Tree(r, f, v) = {}
<1>1. /\ u \in Present(r) /\ v \in Present(r)
      /\ r.sym[u].parent = s /\ r.sym[v].parent = s
  BY DEF ChildrenOf
<1>2. s \notin Tree(r, f, u) /\ s \notin Tree(r, f, v)
  BY <1>1, TreeIsBelow
<1> QED
  BY <1>1, <1>2, TreesApart

\* A symbol and what is rendered below it.
Grown(below, u) == <<u>> \o below[u]
ShownOf(below, t) == FlattenSeq(Each(t, LAMBDA u : <<u>> \o below[u]))

\* Some symbols show what each of them shows.
LEMMA ShownIs ==
    ASSUME NEW below, NEW t, IsList(t), \A u \in ToSet(t) : IsList(Grown(below, u))
    PROVE  /\ IsList(ShownOf(below, t))
           /\ ToSet(ShownOf(below, t)) = UNION {ToSet(Grown(below, u)) : u \in ToSet(t)}
           /\ Once(t) /\ (\A u \in ToSet(t) : Once(Grown(below, u)))
              /\ (\A u \in ToSet(t) : \A v \in ToSet(t) :
                      u # v => ToSet(Grown(below, u)) \intersect ToSet(Grown(below, v)) = {})
              => Once(ShownOf(below, t))
<1>1. PICK f : f = [i \in DOMAIN t |-> Grown(below, t[i])]
  OBVIOUS
<1>2. IsList(f) /\ <<>> \o f = f /\ DOMAIN f = DOMAIN t /\ \A i \in DOMAIN t : f[i] = Grown(below, t[i])
  BY <1>1, EachIsList
<1>3. ShownOf(below, t) = FlattenSeq(f)
  BY <1>1, <1>2 DEF ShownOf, Each, Grown
<1>4. \A i \in DOMAIN f : t[i] \in ToSet(t) /\ IsList(f[i])
  BY <1>2 DEF ToSet
<1>5. IsList(FlattenSeq(f)) /\ ToSet(FlattenSeq(f)) = UNION {ToSet(f[i]) : i \in DOMAIN f}
  BY <1>2, <1>4, FlattenedList
<1>6. UNION {ToSet(f[i]) : i \in DOMAIN f} = UNION {ToSet(Grown(below, u)) : u \in ToSet(t)}
  <2>1. ASSUME NEW u \in ToSet(t), NEW v \in ToSet(Grown(below, u))
        PROVE  v \in UNION {ToSet(f[i]) : i \in DOMAIN f}
    <3>1. PICK i \in DOMAIN t : u = t[i]
      BY DEF ToSet
    <3> QED
      BY <1>2, <2>1, <3>1
  <2>2. ASSUME NEW i \in DOMAIN f, NEW v \in ToSet(f[i])
        PROVE  v \in UNION {ToSet(Grown(below, u)) : u \in ToSet(t)}
    BY <1>2, <1>4
  <2> QED
    BY <2>1, <2>2
<1>7. ASSUME Once(t), \A u \in ToSet(t) : Once(Grown(below, u)),
             \A u \in ToSet(t) : \A v \in ToSet(t) :
                 u # v => ToSet(Grown(below, u)) \intersect ToSet(Grown(below, v)) = {}
      PROVE  Once(FlattenSeq(f))
  <2>1. \A i \in DOMAIN f : Once(f[i])
    BY <1>2, <1>4, <1>7
  <2>2. \A i \in DOMAIN f : \A j \in DOMAIN f : i # j => t[i] # t[j]
    BY <1>2, <1>7 DEF Once
  <2>3. \A i \in DOMAIN f : \A j \in DOMAIN f : i # j => ToSet(f[i]) \intersect ToSet(f[j]) = {}
    BY <1>2, <1>4, <1>7, <2>2
  <2> QED
    BY <1>2, <2>1, <2>3, OnceAll
<1> QED
  BY <1>3, <1>5, <1>6, <1>7

\* What a symbol shows: itself, and what its children show if it is a container.
LEMMA GrownIs ==
    ASSUME NEW m, NEW r, IrOK(r), NEW f, NEW u \in Present(r)
    PROVE  LET b == Below(m, r, f)
               t == Children(m, r, u, f)
           IN  /\ IsList(Grown(b, u)) /\ u \in ToSet(Grown(b, u))
               /\ b[u] = IF Container(r, u) THEN ShownOf(b, t) ELSE <<>>
               /\ \A v : v \in ToSet(Grown(b, u)) <=>
                             \/ v = u
                             \/ Container(r, u) /\ \E c \in ToSet(t) : v \in ToSet(Grown(b, c))
<1>1. PICK b : b = Below(m, r, f) /\ \A v \in Present(r) : IsList(b[v])
  BY BelowAre
<1>2. PICK t : t = Children(m, r, u, f) /\ IsList(t) /\ ToSet(t) \subseteq Present(r)
  BY ChildrenAre DEF ChildrenOf
<1>3. b[u] = BelowStep(m, r, f, b, u)
  BY <1>1, BelowIs
<1>4. b[u] = IF Container(r, u) THEN ShownOf(b, t) ELSE <<>>
  BY <1>2, <1>3 DEF BelowStep, ShownOf
<1>5. \A v \in Present(r) : IsList(Grown(b, v)) /\ ToSet(Grown(b, v)) = {v} \union ToSet(b[v])
  <2> SUFFICES ASSUME NEW v \in Present(r)
               PROVE  IsList(Grown(b, v)) /\ ToSet(Grown(b, v)) = {v} \union ToSet(b[v])
    OBVIOUS
  <2>1. PICK d : d = b[v] /\ IsList(d)
    BY <1>1
  <2>2. PICK a : a = <<v>> /\ IsList(a) /\ ToSet(a) = {v}
    BY ShortLists
  <2>3. IsList(a \o d) /\ ToSet(a \o d) = ToSet(a) \union ToSet(d)
    BY <2>1, <2>2, AppendedList
  <2> QED
    BY <2>1, <2>2, <2>3 DEF Grown
<1>6. ToSet(ShownOf(b, t)) = UNION {ToSet(Grown(b, c)) : c \in ToSet(t)}
  BY <1>2, <1>5, ShownIs
<1>7. ToSet(<<>>) = {}
  BY DEF ToSet
<1> QED
  BY <1>1, <1>2, <1>4, <1>5, <1>6, <1>7

\* It shows nothing twice, and nothing that is not in its tree.
LEMMA GrownOnce ==
    ASSUME NEW m, NEW r, IrOK(r), NEW f
    PROVE  \A u \in Present(r) : /\ Once(Grown(Below(m, r, f), u))
                                 /\ ToSet(Grown(Below(m, r, f), u)) \subseteq Tree(r, f, u)
<1>1. PICK b : b = Below(m, r, f)
  OBVIOUS
<1> DEFINE Fine(u) == Once(Grown(b, u)) /\ ToSet(Grown(b, u)) \subseteq Tree(r, f, u)
           W == {u \in Present(r) : ~ Fine(u)}
<1> SUFFICES ASSUME W # {} PROVE FALSE
  BY <1>1
<1>2. PICK u \in W : ChildrenOf(r, u) \intersect W = {}
  BY DEF IrOK
<1>3. u \in Present(r) /\ ~ Fine(u)
  OBVIOUS
<1>4. PICK t : /\ t = Children(m, r, u, f) /\ Once(t) /\ IsList(t)
               /\ \A c \in ToSet(t) : c \in ChildrenOf(r, u) /\ InScope(r, c, f)
  <2>1. PICK t : t = Children(m, r, u, f)
    OBVIOUS
  <2>2. Once(t) /\ IsList(t) /\ ToSet(t) = {c \in ChildrenOf(r, u) : Visible(m, r, c, f)}
    BY <2>1, ChildrenAre
  <2>3. \A c \in ToSet(t) : c \in ChildrenOf(r, u) /\ InScope(r, c, f)
    BY <2>2 DEF Visible
  <2> QED
    BY <2>1, <2>2, <2>3
<1>5. b[u] = IF Container(r, u) THEN ShownOf(b, t) ELSE <<>>
  BY <1>1, <1>3, <1>4, GrownIs
<1>6. \A c \in ToSet(t) : /\ c \in Present(r) /\ Fine(c)
                          /\ Tree(r, f, c) \subseteq Tree(r, f, u) /\ u \notin Tree(r, f, c)
  <2> SUFFICES ASSUME NEW c \in ToSet(t)
               PROVE  /\ c \in Present(r) /\ Fine(c)
                      /\ Tree(r, f, c) \subseteq Tree(r, f, u) /\ u \notin Tree(r, f, c)
    OBVIOUS
  <2>1. c \in Present(r) /\ r.sym[c].parent = u /\ c \in ChildrenOf(r, u)
    BY <1>4 DEF ChildrenOf
  <2>2. Fine(c)
    BY <1>2, <2>1
  <2>3. u \in Tree(r, f, u)
    BY <1>3, TreeIs
  <2>4. Tree(r, f, c) \subseteq Tree(r, f, u)
    BY <1>3, <1>4, <2>1, <2>3, TreeOfChild
  <2>5. u \notin Tree(r, f, c)
    BY <2>1, TreeIsBelow
  <2> QED
    BY <2>1, <2>2, <2>4, <2>5
<1>7. Once(ShownOf(b, t)) /\ ToSet(ShownOf(b, t)) = UNION {ToSet(Grown(b, c)) : c \in ToSet(t)}
  <2>1. \A c \in ToSet(t) : Once(Grown(b, c)) /\ IsList(Grown(b, c))
    BY <1>6 DEF Once
  <2>2. ASSUME NEW c \in ToSet(t), NEW d \in ToSet(t), c # d
        PROVE  ToSet(Grown(b, c)) \intersect ToSet(Grown(b, d)) = {}
    <3>1. Tree(r, f, c) \intersect Tree(r, f, d) = {}
      BY <1>4, <2>2, SiblingsApart
    <3> QED
      BY <1>6, <3>1
  <2> HIDE DEF Fine
  <2> QED
    BY <1>4, <2>1, <2>2, ShownIs
<1>8. PICK d : d = b[u] /\ Once(d) /\ ToSet(d) \subseteq Tree(r, f, u) /\ u \notin ToSet(d)
  <2>1. CASE Container(r, u)
    BY <1>5, <1>6, <1>7, <2>1
  <2>2. CASE ~ Container(r, u)
    <3>1. ToSet(<<>>) = {}
      BY DEF ToSet
    <3> QED
      BY <1>5, <2>2, <3>1, OnceFew
  <2> QED
    BY <2>1, <2>2
<1>9. PICK a : a = <<u>> /\ Once(a) /\ IsList(a) /\ ToSet(a) = {u}
  BY OnceFew, ShortLists
<1>10. Once(a \o d) /\ ToSet(a \o d) = ToSet(a) \union ToSet(d)
  <2>1. IsList(d)
    BY <1>8 DEF Once
  <2> QED
    BY <1>8, <1>9, <2>1, OnceBoth, AppendedList
<1>11. u \in Tree(r, f, u)
  BY <1>3, TreeIs
<1> QED
  BY <1>3, <1>8, <1>9, <1>10, <1>11 DEF Grown

\* What is visible in a container that is shown is shown.
LEMMA GrownHasChildren ==
    ASSUME NEW m, NEW r, IrOK(r), NEW f
    PROVE  \A u \in Present(r) : \A v \in ToSet(Grown(Below(m, r, f), u)) :
               Container(r, v) => ToSet(Children(m, r, v, f)) \subseteq ToSet(Grown(Below(m, r, f), u))
<1>1. PICK b : b = Below(m, r, f)
  OBVIOUS
<1> DEFINE Fine(u) == \A v \in ToSet(Grown(b, u)) :
                          Container(r, v) => ToSet(Children(m, r, v, f)) \subseteq ToSet(Grown(b, u))
           W == {u \in Present(r) : ~ Fine(u)}
<1> SUFFICES ASSUME W # {} PROVE FALSE
  BY <1>1
<1>2. PICK u \in W : ChildrenOf(r, u) \intersect W = {}
  BY DEF IrOK
<1>3. u \in Present(r) /\ ~ Fine(u)
  OBVIOUS
<1>4. PICK v \in ToSet(Grown(b, u)) : /\ Container(r, v)
                                      /\ ~ (ToSet(Children(m, r, v, f)) \subseteq ToSet(Grown(b, u)))
  BY <1>3
<1>5. PICK t : /\ t = Children(m, r, u, f) /\ ToSet(t) \subseteq ChildrenOf(r, u)
               /\ \A w : w \in ToSet(Grown(b, u)) <=>
                             \/ w = u
                             \/ Container(r, u) /\ \E c \in ToSet(t) : w \in ToSet(Grown(b, c))
  <2>1. PICK t : t = Children(m, r, u, f)
    OBVIOUS
  <2>2. ToSet(t) \subseteq ChildrenOf(r, u)
    BY <2>1, ChildrenAre
  <2>3. \A w : w \in ToSet(Grown(b, u)) <=>
                   \/ w = u
                   \/ Container(r, u) /\ \E c \in ToSet(t) : w \in ToSet(Grown(b, c))
    BY <1>1, <1>3, <2>1, GrownIs
  <2> QED
    BY <2>1, <2>2, <2>3
<1>6. \A c \in ToSet(t) : c \in Present(r) /\ c \in ToSet(Grown(b, c)) /\ Fine(c)
  <2> SUFFICES ASSUME NEW c \in ToSet(t)
               PROVE  c \in Present(r) /\ c \in ToSet(Grown(b, c)) /\ Fine(c)
    OBVIOUS
  <2>1. c \in Present(r)
    BY <1>5 DEF ChildrenOf
  <2>2. Fine(c)
    BY <1>2, <1>5, <2>1
  <2>3. c \in ToSet(Grown(b, c))
    BY <1>1, <2>1, GrownIs
  <2> QED
    BY <2>1, <2>2, <2>3
<1>7. CASE v = u
  BY <1>4, <1>5, <1>6, <1>7
<1>8. CASE v # u
  <2>1. PICK c \in ToSet(t) : v \in ToSet(Grown(b, c)) /\ Container(r, u)
    BY <1>4, <1>5, <1>8
  <2>2. ToSet(Children(m, r, v, f)) \subseteq ToSet(Grown(b, c))
    BY <1>4, <1>6, <2>1
  <2> QED
    BY <1>4, <1>5, <2>1, <2>2
<1> QED
  BY <1>7, <1>8

-----------------------------------------------------------------------------
(* What is visible.                                                        *)

\* HasDocumentedDescendant is what its definition says.
LEMMA DescendantsAre ==
    ASSUME NEW r, IrOK(r), NEW f, NEW u \in Present(r)
    PROVE  HasDocumentedDescendant(r, u, f) <=>
               \E c \in ChildrenOf(r, u) :
                   InScope(r, c, f) /\ (Documented(r, c) \/ HasDocumentedDescendant(r, c, f))
<1> DEFINE S == Present(r)
           Kids == KidsOf(r)
<1>1. PICK par : par = <<"Descendants", r, f>>
  OBVIOUS
<1>2. \A g, x : StepOf(par, g, x) = DescendantStep(r, f, g, x)
  BY <1>1 DEF StepOf
<1>3. Forests!Forest(S, Kids)
  BY DEF Forests!Forest, KidsOf, IrOK, ChildrenOf
<1>4. Forests!Downward(par, S, Kids)
  <2> SUFFICES ASSUME NEW s \in S, NEW g, NEW h, \A c \in Kids[s] : g[c] = h[c]
               PROVE  DescendantStep(r, f, g, s) = DescendantStep(r, f, h, s)
    BY <1>2 DEF Forests!Downward
  <2>1. \A c \in ChildrenOf(r, s) : g[c] = h[c]
    BY DEF KidsOf
  <2>2. DescendantStep(r, f, g, s) <=> DescendantStep(r, f, h, s)
    BY <2>1 DEF DescendantStep
  <2> QED
    BY <2>2 DEF DescendantStep
<1> HIDE DEF S, Kids
<1>5. PICK G : G = [s \in S |-> StepOf(par, G, s)]
  BY <1>3, <1>4, Forests!Recursion
<1> DEFINE Is(h) == h = [s \in S |-> DescendantStep(r, f, h, s)]
           Chosen1 == CHOOSE h : Is(h)
<1>6. \A s : HasDocumentedDescendant(r, s, f) = Chosen1[s]
  BY DEF HasDocumentedDescendant, DescendantStep, S
<1>7. Is(Chosen1)
  <2>1. Is(G)
    BY <1>5, <1>2
  <2> QED
    BY <2>1
<1>8. PICK h : h = Chosen1 /\ h = [s \in S |-> DescendantStep(r, f, h, s)]
  BY <1>7
<1>9. h[u] = DescendantStep(r, f, h, u)
  BY <1>8 DEF S
<1> HIDE DEF Chosen1
<1>10. DescendantStep(r, f, h, u) <=>
          \E c \in ChildrenOf(r, u) : InScope(r, c, f) /\ (Documented(r, c) \/ h[c])
  BY DEF DescendantStep
<1> QED
  BY <1>6, <1>8, <1>9, <1>10

\* What is around something visible is visible, if it is in scope.
LEMMA VisibleAbove ==
    ASSUME NEW m, NEW r, IrOK(r), NEW f, NEW u \in Present(r), InScope(r, u, f),
           NEW c \in ChildrenOf(r, u), Visible(m, r, c, f)
    PROVE  Visible(m, r, u, f)
<1>1. InScope(r, c, f) /\ (m.undocumented \/ Documented(r, c) \/ HasDocumentedDescendant(r, c, f))
  BY DEF Visible
<1>2. CASE m.undocumented
  BY <1>2 DEF Visible
<1>3. CASE Documented(r, c) \/ HasDocumentedDescendant(r, c, f)
  <2>1. HasDocumentedDescendant(r, u, f)
    BY <1>1, <1>3, DescendantsAre
  <2> QED
    BY <2>1 DEF Visible
<1> QED
  BY <1>1, <1>2, <1>3

\* What has the visible symbols that nothing in scope is around, and with a container
\* what is visible in it, has all that is visible but enumerators.
LEMMA Reaching ==
    ASSUME NEW m, NEW r, IrOK(r), NEW f, NEW A,
           \A v \in Present(r) :
               /\ Visible(m, r, v, f) /\ Kind(r, v) # "enumerator"
               /\ r.sym[v].parent = None \/ ~ InScope(r, r.sym[v].parent, f)
               => v \in A,
           \A v \in Present(r) : v \in A /\ Container(r, v) =>
               \A c \in ToSet(Children(m, r, v, f)) : Kind(r, c) # "enumerator" => c \in A
    PROVE  \A v \in Present(r) : Visible(m, r, v, f) /\ Kind(r, v) # "enumerator" => v \in A
<1> DEFINE S == {v \in Present(r) : Visible(m, r, v, f) /\ Kind(r, v) # "enumerator" /\ v \notin A}
<1> SUFFICES ASSUME S # {} PROVE FALSE
  OBVIOUS
<1>1. S \in SUBSET Present(r)
  OBVIOUS
<1>2. PICK u \in S : r.sym[u].parent \notin S
  <2> HIDE DEF S
  <2> QED
    BY <1>1, ParentsEnd
<1>3. u \in Present(r) /\ Visible(m, r, u, f) /\ Kind(r, u) # "enumerator" /\ u \notin A
  OBVIOUS
<1>4. PICK p : p = r.sym[u].parent
  OBVIOUS
<1>5. p # None /\ InScope(r, p, f)
  BY <1>3, <1>4
<1>6. p \in Present(r)
  <2>1. p \in Present(r) \union {None}
    BY <1>3, <1>4 DEF IrOK
  <2> QED
    BY <1>5, <2>1
<1>7. u \in ChildrenOf(r, p)
  BY <1>3, <1>4 DEF ChildrenOf
<1>8. Container(r, p)
  BY <1>3, <1>6, <1>7 DEF IrOK
<1>9. Kind(r, p) # "enumerator"
  BY <1>8 DEF Container
<1>10. Visible(m, r, p, f)
  BY <1>3, <1>5, <1>6, <1>7, VisibleAbove
<1>11. p \in A
  BY <1>2, <1>4, <1>6, <1>9, <1>10
<1>12. u \in ToSet(Children(m, r, p, f))
  BY <1>3, <1>7, ChildrenAre
<1> QED
  BY <1>3, <1>6, <1>8, <1>11, <1>12

-----------------------------------------------------------------------------
(* Pages that show nothing twice.                                          *)

\* The pages x show symbols of S, each page each of them once, no two pages the same.
ShowsOf(m, r, p) == ToSet(RenderedBy(m, r, p))
Tiles(m, r, x, S) ==
    /\ IsList(x)
    /\ \A i \in DOMAIN x : Once(RenderedBy(m, r, x[i])) /\ ShowsOf(m, r, x[i]) \subseteq S
    /\ \A i \in DOMAIN x : \A j \in DOMAIN x :
           i # j => ShowsOf(m, r, x[i]) \intersect ShowsOf(m, r, x[j]) = {}

\* No page and one page,
LEMMA TilesFew ==
    ASSUME NEW m, NEW r, NEW S
    PROVE  /\ Tiles(m, r, <<>>, S)
           /\ \A p : Once(RenderedBy(m, r, p)) /\ ShowsOf(m, r, p) \subseteq S => Tiles(m, r, <<p>>, S)
<1>1. DOMAIN <<>> = {} /\ IsList(<<>>)
  BY ShortLists
<1>2. ASSUME NEW p, Once(RenderedBy(m, r, p)), ShowsOf(m, r, p) \subseteq S
      PROVE  Tiles(m, r, <<p>>, S)
  <2> DEFINE x == <<p>>
  <2>1. DOMAIN x = {1} /\ x[1] = p
    OBVIOUS
  <2>2. IsList(x)
    BY ShortLists
  <2> HIDE DEF x
  <2>3. Tiles(m, r, x, S)
    BY <1>2, <2>1, <2>2 DEF Tiles
  <2> QED
    BY <2>3 DEF x
<1> QED
  BY <1>1, <1>2 DEF Tiles

\* more room,
LEMMA TilesMore ==
    ASSUME NEW m, NEW r, NEW S, NEW T, S \subseteq T, NEW x, Tiles(m, r, x, S)
    PROVE  Tiles(m, r, x, T)
BY DEF Tiles

\* the pages of two sets that have nothing in common,
LEMMA TilesBoth ==
    ASSUME NEW m, NEW r, NEW S, NEW T, S \intersect T = {},
           NEW x, NEW y, Tiles(m, r, x, S), Tiles(m, r, y, T)
    PROVE  Tiles(m, r, x \o y, S \union T)
<1>1. PICK Q : ToSet(x) \subseteq Q /\ ToSet(y) \subseteq Q
  <2>1. ToSet(x) \subseteq ToSet(x) \union ToSet(y) /\ ToSet(y) \subseteq ToSet(x) \union ToSet(y)
    OBVIOUS
  <2> QED
    BY <2>1
<1>2. PICK v \in Seq(Q) : v = x
  BY <1>1, ListOver DEF Tiles
<1>3. PICK w \in Seq(Q) : w = y
  BY <1>1, ListOver DEF Tiles
<1>4. PICK p \in Nat : p = Len(v) /\ DOMAIN v = 1..p
  OBVIOUS
<1>5. PICK q \in Nat : q = Len(w) /\ DOMAIN w = 1..q
  OBVIOUS
<1> DEFINE z == v \o w
<1>6. z \in Seq(Q) /\ DOMAIN z = 1..(p + q)
  BY <1>4, <1>5
<1>7. /\ \A k \in 1..p : z[k] = v[k] /\ k \in DOMAIN v
      /\ \A k \in (p + 1)..(p + q) : z[k] = w[k - p] /\ k - p \in DOMAIN w
  BY <1>4, <1>5
<1>8. \A k \in 1..(p + q) : k \in 1..p \/ k \in (p + 1)..(p + q)
  OBVIOUS
<1> HIDE DEF z
<1>9. /\ \A k \in 1..p : Once(RenderedBy(m, r, z[k])) /\ ShowsOf(m, r, z[k]) \subseteq S
      /\ \A k \in (p + 1)..(p + q) : Once(RenderedBy(m, r, z[k])) /\ ShowsOf(m, r, z[k]) \subseteq T
  BY <1>2, <1>3, <1>7 DEF Tiles
<1>10. ASSUME NEW i \in DOMAIN z, NEW j \in DOMAIN z, i # j
       PROVE  ShowsOf(m, r, z[i]) \intersect ShowsOf(m, r, z[j]) = {}
  <2>1. CASE i \in 1..p /\ j \in 1..p
    BY <1>2, <1>7, <1>10, <2>1 DEF Tiles
  <2>2. CASE i \in (p + 1)..(p + q) /\ j \in (p + 1)..(p + q)
    <3>1. i - p # j - p
      BY <1>10, <2>2
    <3> QED
      BY <1>3, <1>7, <2>2, <3>1 DEF Tiles
  <2>3. CASE i \in 1..p /\ j \in (p + 1)..(p + q)
    BY <1>9, <2>3
  <2>4. CASE i \in (p + 1)..(p + q) /\ j \in 1..p
    BY <1>9, <2>4
  <2> QED
    BY <1>6, <1>8, <2>1, <2>2, <2>3, <2>4
<1>11. IsList(z)
  BY <1>6, SequenceIsList
<1>12. Tiles(m, r, z, S \union T)
  BY <1>6, <1>8, <1>9, <1>10, <1>11 DEF Tiles
<1> QED
  BY <1>2, <1>3, <1>12 DEF z

\* the pages of any number of such sets,
LEMMA TilesAll ==
    ASSUME NEW m, NEW r, NEW T, NEW f, IsList(f), NEW g,
           \A i \in DOMAIN f : Tiles(m, r, f[i], g[i]) /\ g[i] \subseteq T,
           \A i \in DOMAIN f : \A j \in DOMAIN f : i # j => g[i] \intersect g[j] = {}
    PROVE  Tiles(m, r, FlattenSeq(f), T)
<1>1. \A i \in DOMAIN f : IsList(f[i])
  BY DEF Tiles
<1>2. PICK c : c = FlattenSeq(f) /\ IsList(c)
  BY <1>1, FlattenedList
<1>3. PICK a, b : Cut(c, f, Len(f), a, b)
  BY <1>1, <1>2, FlattenedPlaces
<1>4. PICK n \in Nat : n = Len(f) /\ DOMAIN f = 1..n
  BY ListFacts
<1>5. PICK q \in Nat : DOMAIN c = 1..q
  BY <1>2, ListFacts
<1>6. \A k \in 1..q : a[k] \in DOMAIN f /\ b[k] \in DOMAIN f[a[k]] /\ c[k] = f[a[k]][b[k]]
  BY <1>3, <1>4, <1>5 DEF Cut
<1>7. \A k \in 1..q : Once(RenderedBy(m, r, c[k])) /\ ShowsOf(m, r, c[k]) \subseteq g[a[k]]
  BY <1>6 DEF Tiles
<1>8. ASSUME NEW k \in 1..q, NEW l \in 1..q, k < l
      PROVE  ShowsOf(m, r, c[k]) \intersect ShowsOf(m, r, c[l]) = {}
  <2>1. CASE a[k] # a[l]
    BY <1>6, <1>7, <2>1
  <2>2. CASE a[k] = a[l]
    <3>1. b[k] # b[l]
      <4>1. a[k] \in Nat /\ b[k] \in Nat
        <5>1. PICK i \in 1..n : i = a[k]
          BY <1>4, <1>6
        <5>2. PICK s : s = f[a[k]] /\ IsList(s)
          BY <1>1, <1>6
        <5>3. DOMAIN s = 1..Len(s) /\ Len(s) \in Nat
          BY <5>2, ListFacts
        <5>4. PICK j \in 1..Len(s) : j = b[k]
          BY <1>6, <5>2, <5>3
        <5> QED
          BY <5>1, <5>3, <5>4
      <4>2. a[k] < a[l] \/ (a[k] = a[l] /\ b[k] < b[l])
        BY <1>3, <1>5, <1>8 DEF Cut
      <4> QED
        BY <2>2, <4>1, <4>2
    <3>2. Tiles(m, r, f[a[k]], g[a[k]])
      BY <1>6
    <3> QED
      BY <1>6, <2>2, <3>1, <3>2 DEF Tiles
  <2> QED
    BY <2>1, <2>2
<1>9. ASSUME NEW k \in DOMAIN c, NEW l \in DOMAIN c, k # l
      PROVE  ShowsOf(m, r, c[k]) \intersect ShowsOf(m, r, c[l]) = {}
  <2>1. k \in 1..q /\ l \in 1..q /\ (k < l \/ l < k)
    BY <1>5, <1>9
  <2>2. \/ ShowsOf(m, r, c[k]) \intersect ShowsOf(m, r, c[l]) = {}
        \/ ShowsOf(m, r, c[l]) \intersect ShowsOf(m, r, c[k]) = {}
    BY <1>8, <2>1
  <2> QED
    BY <2>2
<1>10. \A k \in DOMAIN c : ShowsOf(m, r, c[k]) \subseteq T
  BY <1>5, <1>6, <1>7
<1> QED
  BY <1>2, <1>5, <1>7, <1>9, <1>10 DEF Tiles

\* a page for each entry of a list,
LEMMA TilesEach ==
    ASSUME NEW m, NEW r, NEW T, NEW t, IsList(t), NEW f, f = [i \in DOMAIN t |-> f[i]],
           \A i \in DOMAIN t : Once(RenderedBy(m, r, f[i])) /\ ShowsOf(m, r, f[i]) \subseteq T,
           \A i \in DOMAIN t : \A j \in DOMAIN t :
               i # j => ShowsOf(m, r, f[i]) \intersect ShowsOf(m, r, f[j]) = {}
    PROVE  Tiles(m, r, <<>> \o f, T)
<1>1. <<>> \o f = f /\ IsList(f) /\ DOMAIN f = DOMAIN t
  BY EachIsList
<1>2. Tiles(m, r, f, T)
  BY <1>1 DEF Tiles
<1> QED
  BY <1>1, <1>2

\* and some of the pages.
LEMMA TilesChosen ==
    ASSUME NEW m, NEW r, NEW T, NEW x, Tiles(m, r, x, T), NEW I
    PROVE  Tiles(m, r, Chosen(x, I), T)
<1>1. PICK S : x \in Seq(S)
  BY DEF Tiles, IsList
<1>2. PICK c \in Seq(S) : c = Chosen(x, I)
  BY <1>1, ChosenPlaces
<1>3. PICK p : Places(c, p, x, I \intersect DOMAIN x)
  BY <1>1, <1>2, ChosenPlaces
<1>4. PICK q \in Nat : q = Len(c) /\ DOMAIN c = 1..q
  BY <1>2
<1>5. \A k \in 1..q : p[k] \in DOMAIN x /\ c[k] = x[p[k]]
  BY <1>3, <1>4 DEF Places
<1>6. DOMAIN x \subseteq Nat
  BY ListFacts DEF Tiles
<1>7. ASSUME NEW k \in 1..q, NEW l \in 1..q, k # l PROVE p[k] # p[l]
  <2>1. p[k] \in Nat /\ p[l] \in Nat
    BY <1>5, <1>6
  <2>2. k < l => p[k] < p[l]
    BY <1>3, <1>4 DEF Places
  <2>3. l < k => p[l] < p[k]
    BY <1>3, <1>4 DEF Places
  <2> QED
    BY <1>7, <2>1, <2>2, <2>3
<1>8. IsList(c)
  BY <1>2, SequenceIsList
<1>9. Tiles(m, r, c, T)
  BY <1>4, <1>5, <1>7, <1>8 DEF Tiles
<1> QED
  BY <1>2, <1>9

\* What they show, one after the other, has nothing twice.
LEMMA TilesShowOnce ==
    ASSUME NEW m, NEW r, NEW T, NEW x, Tiles(m, r, x, T),
           NEW f, f = [i \in DOMAIN x |-> RenderedBy(m, r, x[i])]
    PROVE  /\ Once(FlattenSeq(f))
           /\ ToSet(FlattenSeq(f)) = UNION {ShowsOf(m, r, x[i]) : i \in DOMAIN x}
<1>1. IsList(f) /\ DOMAIN f = DOMAIN x /\ \A i \in DOMAIN x : f[i] = RenderedBy(m, r, x[i])
  <2>1. f = [i \in DOMAIN x |-> f[i]]
    OBVIOUS
  <2> QED
    BY <2>1, EachIsList DEF Tiles
<1>2. \A i \in DOMAIN f : Once(f[i]) /\ IsList(f[i])
  BY <1>1 DEF Tiles, Once
<1>3. \A i \in DOMAIN f : \A j \in DOMAIN f : i # j => ToSet(f[i]) \intersect ToSet(f[j]) = {}
  BY <1>1 DEF Tiles, ShowsOf
<1>4. UNION {ToSet(f[i]) : i \in DOMAIN f} = UNION {ShowsOf(m, r, x[i]) : i \in DOMAIN x}
  BY <1>1 DEF ShowsOf
<1>5. Once(FlattenSeq(f)) /\ ToSet(FlattenSeq(f)) = UNION {ToSet(f[i]) : i \in DOMAIN f}
  BY <1>1, <1>2, <1>3, OnceAll, FlattenedList
<1> QED
  BY <1>4, <1>5

\* The trees of some symbols.
Under(r, f, A) == UNION {Tree(r, f, u) : u \in A}
TreesAreApart(r, f, A) ==
    \A u \in A : \A v \in A : u # v => Tree(r, f, u) \intersect Tree(r, f, v) = {}

\* The symbols a page renders below those it has.
DeepShows(m, r, p) == UNION {ToSet(Grown(Below(m, r, p.file), u)) : u \in ToSet(p.deep)}

\* The trees of siblings have nothing in common.
LEMMA SiblingTrees ==
    ASSUME NEW r, IrOK(r), NEW f, NEW s, NEW A, A \subseteq ChildrenOf(r, s)
    PROVE  /\ A \subseteq Present(r) /\ TreesAreApart(r, f, A)
           /\ \A B : B \subseteq ChildrenOf(r, s) /\ A \intersect B = {} =>
                  Under(r, f, A) \intersect Under(r, f, B) = {}
<1>1. A \subseteq Present(r)
  BY DEF ChildrenOf
<1>2. TreesAreApart(r, f, A)
  BY SiblingsApart DEF TreesAreApart
<1>3. ASSUME NEW B, B \subseteq ChildrenOf(r, s), A \intersect B = {},
             NEW v, v \in Under(r, f, A), v \in Under(r, f, B)
      PROVE  FALSE
  <2>1. PICK u \in A : v \in Tree(r, f, u)
    BY <1>3 DEF Under
  <2>2. PICK w \in B : v \in Tree(r, f, w)
    BY <1>3 DEF Under
  <2>3. u # w
    BY <1>3
  <2> QED
    BY <1>3, <2>1, <2>2, <2>3, SiblingsApart
<1> QED
  BY <1>1, <1>2, <1>3

\* What a page shows.
LEMMA RenderedParts ==
    ASSUME NEW m, NEW r, IrOK(r), NEW p, SymbolsOf(r, p)
    PROVE  /\ ShowsOf(m, r, p) = ToSet(p.shallow) \union DeepShows(m, r, p)
           /\ DeepShows(m, r, p) \subseteq Under(r, p.file, ToSet(p.deep))
           /\ ToSet(p.deep) \subseteq DeepShows(m, r, p)
           /\ Once(p.deep) /\ Once(p.shallow) /\ TreesAreApart(r, p.file, ToSet(p.deep))
              /\ ToSet(p.shallow) \intersect Under(r, p.file, ToSet(p.deep)) = {}
              => Once(RenderedBy(m, r, p))
<1>1. PICK a : a = p.shallow /\ IsList(a)
  BY DEF SymbolsOf
<1>2. PICK t : t = p.deep /\ IsList(t) /\ ToSet(t) \subseteq Present(r)
  BY DEF SymbolsOf
<1> DEFINE b == Below(m, r, p.file)
<1>3. b = Below(m, r, p.file)
  OBVIOUS
<1>0. RenderedBy(m, r, p) = a \o FlattenSeq(Each(t, LAMBDA u : <<u>> \o b[u]))
  BY <1>1, <1>2 DEF RenderedBy
<1> HIDE DEF b
<1>4. RenderedBy(m, r, p) = a \o ShownOf(b, t)
  BY <1>0 DEF ShownOf
<1>5. \A u \in ToSet(t) : /\ Once(Grown(b, u)) /\ IsList(Grown(b, u)) /\ u \in ToSet(Grown(b, u))
                          /\ ToSet(Grown(b, u)) \subseteq Tree(r, p.file, u)
  BY <1>2, <1>3, GrownOnce, GrownIs DEF Once
<1>6. PICK x : x = ShownOf(b, t)
  OBVIOUS
<1>7. IsList(x) /\ ToSet(x) = DeepShows(m, r, p)
  BY <1>2, <1>3, <1>5, <1>6, ShownIs DEF DeepShows
<1>8. ShowsOf(m, r, p) = ToSet(a) \union DeepShows(m, r, p)
  BY <1>1, <1>4, <1>6, <1>7, AppendedList DEF ShowsOf
<1>9. DeepShows(m, r, p) \subseteq Under(r, p.file, ToSet(t)) /\ ToSet(t) \subseteq DeepShows(m, r, p)
  BY <1>2, <1>3, <1>5 DEF DeepShows, Under
<1>10. ASSUME Once(t), Once(a), TreesAreApart(r, p.file, ToSet(t)),
              ToSet(a) \intersect Under(r, p.file, ToSet(t)) = {}
       PROVE  Once(a \o x)
  <2>1. \A u \in ToSet(t) : \A v \in ToSet(t) :
            u # v => ToSet(Grown(b, u)) \intersect ToSet(Grown(b, v)) = {}
    BY <1>5, <1>10 DEF TreesAreApart
  <2>2. Once(x)
    BY <1>2, <1>5, <1>6, <1>10, <2>1, ShownIs
  <2>3. ToSet(a) \intersect ToSet(x) = {}
    BY <1>7, <1>9, <1>10
  <2> QED
    BY <1>10, <2>2, <2>3, OnceBoth
<1> QED
  BY <1>1, <1>2, <1>4, <1>6, <1>8, <1>9, <1>10

\* What a page shows below its symbols has with a container what is visible in it.
LEMMA DeepHasChildren ==
    ASSUME NEW m, NEW r, IrOK(r), NEW p, SymbolsOf(r, p), NEW v \in DeepShows(m, r, p),
           Container(r, v)
    PROVE  ToSet(Children(m, r, v, p.file)) \subseteq DeepShows(m, r, p)
<1>1. PICK u \in ToSet(p.deep) : v \in ToSet(Grown(Below(m, r, p.file), u))
  BY DEF DeepShows
<1>2. u \in Present(r)
  BY DEF SymbolsOf
<1>3. ToSet(Children(m, r, v, p.file)) \subseteq ToSet(Grown(Below(m, r, p.file), u))
  BY <1>1, <1>2, GrownHasChildren
<1> QED
  BY <1>3 DEF DeepShows

\* A page without a heading of its own.
LEMMA SharedPageOnce ==
    ASSUME NEW m, NEW r, IrOK(r), NEW s, NEW p, p.shallow = <<>>, p.file = None,
           Once(p.deep), ToSet(p.deep) \subseteq ChildrenOf(r, s)
    PROVE  /\ SymbolsOf(r, p) /\ Once(RenderedBy(m, r, p))
           /\ ShowsOf(m, r, p) \subseteq Under(r, None, ToSet(p.deep))
<1>1. ToSet(p.deep) \subseteq Present(r) /\ TreesAreApart(r, None, ToSet(p.deep))
  BY SiblingTrees
<1>2. ToSet(p.shallow) = {} /\ Once(p.shallow)
  BY OnceFew DEF ToSet
<1>3. SymbolsOf(r, p)
  BY <1>1, <1>2 DEF SymbolsOf, Once
<1> QED
  BY <1>1, <1>2, <1>3, RenderedParts

\* A page for one symbol.
LEMMA SymbolPageOnce ==
    ASSUME NEW m, NEW r, IrOK(r), NEW u \in Present(r),
           NEW p, p.shallow = <<>>, p.file = None, p.deep = <<u>>
    PROVE  /\ SymbolsOf(r, p) /\ Once(RenderedBy(m, r, p))
           /\ ShowsOf(m, r, p) \subseteq Tree(r, None, u) /\ u \in DeepShows(m, r, p)
<1>1. ToSet(p.deep) = {u} /\ Once(p.deep)
  BY OnceFew, ShortLists
<1>2. {u} \subseteq ChildrenOf(r, r.sym[u].parent)
  BY DEF ChildrenOf
<1>3. Under(r, None, {u}) = Tree(r, None, u)
  BY DEF Under
<1>4. /\ SymbolsOf(r, p) /\ Once(RenderedBy(m, r, p))
      /\ ShowsOf(m, r, p) \subseteq Under(r, None, ToSet(p.deep))
  BY <1>1, <1>2, SharedPageOnce
<1> QED
  BY <1>1, <1>3, <1>4, RenderedParts

\* A page for each of some siblings.
LEMMA SiblingPagesTile ==
    ASSUME NEW m, NEW r, IrOK(r), NEW s, NEW t, Once(t), ToSet(t) \subseteq ChildrenOf(r, s),
           NEW f, f = [i \in DOMAIN t |-> f[i]],
           \A i \in DOMAIN t : f[i].shallow = <<>> /\ f[i].file = None /\ f[i].deep = <<t[i]>>
    PROVE  Tiles(m, r, <<>> \o f, Under(r, None, ToSet(t)))
<1>1. \A i \in DOMAIN t : t[i] \in ToSet(t)
  BY DEF ToSet
<1>2. ToSet(t) \subseteq Present(r)
  BY SiblingTrees
<1>3. \A i \in DOMAIN t : /\ Once(RenderedBy(m, r, f[i]))
                          /\ ShowsOf(m, r, f[i]) \subseteq Tree(r, None, t[i])
  BY <1>1, <1>2, SymbolPageOnce
<1>4. \A i \in DOMAIN t : ShowsOf(m, r, f[i]) \subseteq Under(r, None, ToSet(t))
  BY <1>1, <1>3 DEF Under
<1>5. ASSUME NEW i \in DOMAIN t, NEW j \in DOMAIN t, i # j
      PROVE  ShowsOf(m, r, f[i]) \intersect ShowsOf(m, r, f[j]) = {}
  <2>1. t[i] # t[j]
    BY <1>5 DEF Once
  <2>2. Tree(r, None, t[i]) \intersect Tree(r, None, t[j]) = {}
    BY <1>1, <2>1, SiblingsApart
  <2> QED
    BY <1>3, <2>2
<1>6. IsList(t)
  BY DEF Once
<1> QED
  BY <1>3, <1>4, <1>5, <1>6, TilesEach

-----------------------------------------------------------------------------
(* A page per symbol, and a page per file.                                 *)

\* The symbols that the pages x render below those they have.
Covered(m, r, x) == UNION {DeepShows(m, r, x[i]) : i \in DOMAIN x}

\* Pages of a symbol each show none twice, and leave nothing out.
LEMMA SymbolPagesTile ==
    ASSUME NEW m, NEW r, IrOK(r)
    PROVE  /\ Tiles(m, r, SymbolPages(m, r), Present(r))
           /\ \A v \in Present(r) : Visible(m, r, v, None) /\ Kind(r, v) # "enumerator" =>
                  v \in Covered(m, r, SymbolPages(m, r))
<1>1. PICK t : t = Roots(m, r)
  OBVIOUS
<1>2. /\ Once(t) /\ IsList(t) /\ ToSet(t) = {u \in ChildrenOf(r, None) : Visible(m, r, u, None)}
  BY <1>1, RootsAre
<1>3. PICK f : f = [i \in DOMAIN t |-> SymbolPage(r, t[i])]
  OBVIOUS
<1>4. IsList(f) /\ <<>> \o f = f /\ DOMAIN f = DOMAIN t /\ f = [i \in DOMAIN t |-> f[i]]
  BY <1>2, <1>3, EachIsList
<1>5. SymbolPages(m, r) = f
  BY <1>1, <1>3, <1>4 DEF SymbolPages, Each
<1>6. \A i \in DOMAIN t : f[i].shallow = <<>> /\ f[i].file = None /\ f[i].deep = <<t[i]>>
  BY <1>3 DEF SymbolPage, Page
<1>7. Tiles(m, r, f, Under(r, None, ToSet(t)))
  BY <1>2, <1>4, <1>6, SiblingPagesTile
<1>8. Under(r, None, ToSet(t)) \subseteq Present(r)
  BY DEF Under, Tree
<1>9. \A i \in DOMAIN f : SymbolsOf(r, f[i]) /\ f[i].file = None /\ t[i] \in DeepShows(m, r, f[i])
  <2>1. \A i \in DOMAIN t : t[i] \in Present(r)
    BY <1>2 DEF ToSet, ChildrenOf
  <2> QED
    BY <1>4, <1>6, <2>1, SymbolPageOnce
<1>10. PICK A : A = Covered(m, r, f)
  OBVIOUS
<1>11. ASSUME NEW v \in Present(r), Visible(m, r, v, None), r.sym[v].parent = None
       PROVE  v \in A
  <2>1. v \in ToSet(t)
    BY <1>2, <1>11 DEF ChildrenOf
  <2>2. PICK i \in DOMAIN t : v = t[i]
    BY <2>1 DEF ToSet
  <2> QED
    BY <1>4, <1>9, <1>10, <2>2 DEF Covered
<1>12. ASSUME NEW v \in A, Container(r, v), NEW c \in ToSet(Children(m, r, v, None))
       PROVE  c \in A
  <2>1. PICK i \in DOMAIN f : v \in DeepShows(m, r, f[i])
    BY <1>10 DEF Covered
  <2>2. c \in DeepShows(m, r, f[i])
    BY <1>9, <1>12, <2>1, DeepHasChildren
  <2> QED
    BY <1>10, <2>2 DEF Covered
<1>13. \A u : InScope(r, u, None)
  BY DEF InScope
<1>14. \A v \in Present(r) : Visible(m, r, v, None) /\ Kind(r, v) # "enumerator" => v \in A
  BY <1>11, <1>12, <1>13, Reaching
<1> QED
  BY <1>5, <1>7, <1>8, <1>10, <1>14, TilesMore

\* The page of a file shows symbols of the file alone, and each once.
LEMMA FilePageOnce ==
    ASSUME NEW m, NEW r, IrOK(r), NEW f \in ToSet(Files), NEW p, p = FilePage(m, r, f)
    PROVE  /\ p.file = f /\ p.deep = FileRoots(m, r, f)
           /\ SymbolsOf(r, p) /\ Once(RenderedBy(m, r, p))
           /\ ShowsOf(m, r, p) \subseteq {v \in Present(r) : r.sym[v].file = f}
           /\ ToSet(FileRoots(m, r, f)) \subseteq DeepShows(m, r, p)
<1>1. PICK t : t = FileRoots(m, r, f)
  OBVIOUS
<1>2. p.shallow = <<>> /\ p.deep = t /\ p.file = f
  BY <1>1 DEF FilePage, Page
<1>3. /\ IsList(t) /\ ToSet(t) \subseteq Present(r) /\ Once(t)
      /\ ToSet(t) = {u \in Present(r) : /\ Visible(m, r, u, f)
                                        /\ ~\E q \in Present(r) : /\ q = r.sym[u].parent
                                                                  /\ r.sym[q].file = f}
  BY <1>1, FileRootsAre
<1>4. f # None
  BY PagesAssumption
<1>5. \A u \in Present(r) : Visible(m, r, u, f) => r.sym[u].file = f
  BY <1>4 DEF Visible, InScope
<1>6. \A u \in ToSet(t) : \A v \in Tree(r, f, u) : v \in Present(r) /\ r.sym[v].file = f
  <2> SUFFICES ASSUME NEW u \in ToSet(t), NEW v \in Tree(r, f, u)
               PROVE  v \in Present(r) /\ r.sym[v].file = f
    OBVIOUS
  <2>1. u \in Present(r) /\ r.sym[u].file = f
    BY <1>3, <1>5
  <2>2. v # u => InScope(r, v, f)
    BY <2>1, TreeHasParents
  <2>3. v \in Present(r)
    BY DEF Tree
  <2> QED
    BY <1>4, <2>1, <2>2, <2>3 DEF InScope
<1>7. TreesAreApart(r, f, ToSet(t))
  <2> SUFFICES ASSUME NEW u \in ToSet(t), NEW v \in ToSet(t), u # v
               PROVE  Tree(r, f, u) \intersect Tree(r, f, v) = {}
    BY DEF TreesAreApart
  <2>1. u \in Present(r) /\ v \in Present(r)
    BY <1>3
  <2>2. r.sym[u].parent \notin Tree(r, f, v)
    BY <1>3, <1>6
  <2>3. r.sym[v].parent \notin Tree(r, f, u)
    BY <1>3, <1>6
  <2> QED
    BY <2>1, <2>2, <2>3, TreesApart
<1>8. IsList(<<>>) /\ ToSet(<<>>) = {} /\ Once(<<>>)
  BY ShortLists, OnceFew DEF ToSet
<1>9. SymbolsOf(r, p)
  BY <1>2, <1>3, <1>8 DEF SymbolsOf
<1>10. /\ ShowsOf(m, r, p) = DeepShows(m, r, p) /\ DeepShows(m, r, p) \subseteq Under(r, f, ToSet(t))
       /\ ToSet(t) \subseteq DeepShows(m, r, p) /\ Once(RenderedBy(m, r, p))
  <2>1. /\ Once(p.deep) /\ Once(p.shallow) /\ TreesAreApart(r, p.file, ToSet(p.deep))
        /\ ToSet(p.shallow) = {}
    BY <1>2, <1>3, <1>7, <1>8
  <2>2. Once(RenderedBy(m, r, p))
    BY <1>9, <2>1, RenderedParts
  <2>3. ShowsOf(m, r, p) = DeepShows(m, r, p)
    BY <1>9, <2>1, RenderedParts
  <2> QED
    BY <1>2, <1>9, <2>2, <2>3, RenderedParts
<1>11. Under(r, f, ToSet(t)) \subseteq {v \in Present(r) : r.sym[v].file = f}
  BY <1>6 DEF Under
<1> QED
  BY <1>1, <1>2, <1>9, <1>10, <1>11

\* The pages of the files show no symbol twice, and all that are visible in their file.
LEMMA FilePagesTile ==
    ASSUME NEW m, NEW r, IrOK(r)
    PROVE  /\ Tiles(m, r, FilePages(m, r), Present(r))
           /\ \A v \in Present(r) : Visible(m, r, v, r.sym[v].file) /\ Kind(r, v) # "enumerator" =>
                  v \in Covered(m, r, FilePages(m, r))
<1>1. PICK f : f = [i \in DOMAIN Files |-> FilePage(m, r, Files[i])]
  OBVIOUS
<1>2. IsList(Files) /\ Once(Files)
  BY PagesAssumption, SequenceIsList DEF Once, IsInjective
<1>3. IsList(f) /\ <<>> \o f = f /\ DOMAIN f = DOMAIN Files /\ f = [i \in DOMAIN Files |-> f[i]]
  BY <1>1, <1>2, EachIsList
<1> DEFINE I == {i \in DOMAIN f : f[i].deep # <<>>}
<1>4. FilePages(m, r) = Chosen(f, I)
  BY <1>1, <1>3 DEF FilePages, Those, Each
<1>5. \A i \in DOMAIN f : Files[i] \in ToSet(Files) /\ f[i] = FilePage(m, r, Files[i])
  BY <1>1, <1>3 DEF ToSet
<1>6. \A i \in DOMAIN f : \A g :
          g = Files[i] => /\ f[i].file = g /\ f[i].deep = FileRoots(m, r, g) /\ SymbolsOf(r, f[i])
                          /\ Once(RenderedBy(m, r, f[i]))
                          /\ ShowsOf(m, r, f[i]) \subseteq {v \in Present(r) : r.sym[v].file = g}
                          /\ ToSet(FileRoots(m, r, g)) \subseteq DeepShows(m, r, f[i])
  <2> SUFFICES ASSUME NEW i \in DOMAIN f, NEW g, g = Files[i]
               PROVE  /\ f[i].file = g /\ f[i].deep = FileRoots(m, r, g) /\ SymbolsOf(r, f[i])
                      /\ Once(RenderedBy(m, r, f[i]))
                      /\ ShowsOf(m, r, f[i]) \subseteq {v \in Present(r) : r.sym[v].file = g}
                      /\ ToSet(FileRoots(m, r, g)) \subseteq DeepShows(m, r, f[i])
    OBVIOUS
  <2>1. PICK p : p = f[i]
    OBVIOUS
  <2>2. g \in ToSet(Files) /\ p = FilePage(m, r, g)
    BY <1>5, <2>1
  <2> QED
    BY <2>1, <2>2, FilePageOnce
<1>7. Tiles(m, r, f, Present(r))
  <2>1. \A i \in DOMAIN Files : Once(RenderedBy(m, r, f[i])) /\ ShowsOf(m, r, f[i]) \subseteq Present(r)
    BY <1>3, <1>6
  <2>2. ASSUME NEW i \in DOMAIN Files, NEW j \in DOMAIN Files, i # j
        PROVE  ShowsOf(m, r, f[i]) \intersect ShowsOf(m, r, f[j]) = {}
    <3>1. Files[i] # Files[j]
      BY <1>2, <2>2 DEF Once
    <3> QED
      BY <1>3, <1>6, <3>1
  <2> QED
    BY <1>2, <1>3, <2>1, <2>2, TilesEach
<1>8. Tiles(m, r, Chosen(f, I), Present(r))
  <2> HIDE DEF I
  <2> QED
    BY <1>7, TilesChosen
<1>9. ASSUME NEW v \in Present(r), Visible(m, r, v, r.sym[v].file), Kind(r, v) # "enumerator"
      PROVE  v \in Covered(m, r, Chosen(f, I))
  <2>1. PICK g : g = r.sym[v].file
    OBVIOUS
  <2>2. r.sym[v].file \in ToSet(Files)
    BY <1>9 DEF IrOK, Row
  <2>3. PICK i \in DOMAIN Files : Files[i] = g
    BY <2>1, <2>2 DEF ToSet
  <2>4. PICK p : p = f[i]
    OBVIOUS
  <2>5. /\ p.file = g /\ p.deep = FileRoots(m, r, g) /\ SymbolsOf(r, p)
        /\ ToSet(FileRoots(m, r, g)) \subseteq DeepShows(m, r, p)
    BY <1>3, <1>6, <2>3, <2>4
  <2>6. g # None
    BY <2>1, <2>2, PagesAssumption
  <2>7. PICK A : A = DeepShows(m, r, p)
    OBVIOUS
  <2>8. ASSUME NEW u \in Present(r), Visible(m, r, u, g),
               r.sym[u].parent = None \/ ~ InScope(r, r.sym[u].parent, g)
        PROVE  u \in A
    <3>1. None \notin Present(r)
      BY PagesAssumption DEF IrOK, Present
    <3>2. ~\E q \in Present(r) : q = r.sym[u].parent /\ r.sym[q].file = g
      BY <2>8, <3>1 DEF InScope
    <3>3. u \in ToSet(FileRoots(m, r, g))
      BY <2>8, <3>2, FileRootsAre
    <3> QED
      BY <2>5, <2>7, <3>3
  <2>9. ASSUME NEW u \in A, Container(r, u), NEW c \in ToSet(Children(m, r, u, g))
        PROVE  c \in A
    BY <2>5, <2>7, <2>9, DeepHasChildren
  <2>10. v \in A
    BY <1>9, <2>1, <2>8, <2>9, Reaching
  <2>11. p.deep # <<>>
    <3>1. PICK u \in ToSet(p.deep) : v \in ToSet(Grown(Below(m, r, p.file), u))
      BY <2>7, <2>10 DEF DeepShows
    <3> QED
      BY <3>1 DEF ToSet
  <2>12. p \in ToSet(Chosen(f, I))
    <3>1. i \in I \intersect DOMAIN f
      BY <1>3, <2>3, <2>4, <2>11
    <3> HIDE DEF I
    <3> QED
      BY <1>3, <2>4, <3>1, ChosenList
  <2>13. PICK x : x = Chosen(f, I)
    OBVIOUS
  <2>14. PICK k \in DOMAIN x : x[k] = p
    BY <2>12, <2>13 DEF ToSet
  <2> QED
    BY <2>7, <2>10, <2>13, <2>14 DEF Covered
<1> QED
  BY <1>4, <1>8, <1>9

-----------------------------------------------------------------------------
(* A page per namespace and record.                                         *)

\* The symbols that the pages x show.
AllShown(m, r, x) == UNION {ShowsOf(m, r, x[i]) : i \in DOMAIN x}
Leaves(m, r, u) == {c \in ToSet(Children(m, r, u, None)) : ~ Container(r, c)}

\* A page with a heading of its own, and siblings below it.
LEMMA HeadedPageOnce ==
    ASSUME NEW m, NEW r, IrOK(r), NEW u \in Present(r),
           NEW p, p.shallow = <<u>>, p.file = None, Once(p.deep), ToSet(p.deep) \subseteq ChildrenOf(r, u)
    PROVE  /\ SymbolsOf(r, p) /\ Once(RenderedBy(m, r, p)) /\ u \in ShowsOf(m, r, p)
           /\ ToSet(p.deep) \subseteq DeepShows(m, r, p)
           /\ ShowsOf(m, r, p) \subseteq {u} \union Under(r, None, ToSet(p.deep))
<1>1. ToSet(p.deep) \subseteq Present(r) /\ TreesAreApart(r, None, ToSet(p.deep))
  BY SiblingTrees
<1>2. IsList(p.shallow) /\ ToSet(p.shallow) = {u} /\ Once(p.shallow)
  BY ShortLists, OnceFew
<1>3. IsList(p.deep)
  BY DEF Once
<1>4. SymbolsOf(r, p)
  BY <1>1, <1>2, <1>3 DEF SymbolsOf
<1>5. \A c \in ToSet(p.deep) : r.sym[c].parent = u
  BY DEF ChildrenOf
<1>6. \A c \in ToSet(p.deep) : u \notin Tree(r, None, c)
  <2> SUFFICES ASSUME NEW c \in ToSet(p.deep), u \in Tree(r, None, c) PROVE FALSE
    OBVIOUS
  <2>1. c \in Present(r)
    BY <1>1
  <2> QED
    BY <1>5, <2>1, TreeIsBelow
<1>7. ToSet(p.shallow) \intersect Under(r, p.file, ToSet(p.deep)) = {}
  BY <1>2, <1>6 DEF Under
<1>8. /\ ShowsOf(m, r, p) = ToSet(p.shallow) \union DeepShows(m, r, p)
      /\ DeepShows(m, r, p) \subseteq Under(r, p.file, ToSet(p.deep))
      /\ ToSet(p.deep) \subseteq DeepShows(m, r, p) /\ Once(RenderedBy(m, r, p))
  BY <1>1, <1>2, <1>4, <1>7, RenderedParts
<1> QED
  BY <1>2, <1>4, <1>8

\* The page of a namespace shows it, with what is in it and no container.
LEMMA NamespacePageTiles ==
    ASSUME NEW m, NEW r, IrOK(r), NEW u \in Present(r)
    PROVE  LET x == NamespacePage(m, r, u)
           IN  /\ Tiles(m, r, x, {u} \union Under(r, None, Leaves(m, r, u)))
               /\ Leaves(m, r, u) \subseteq Covered(m, r, x)
               /\ Documented(r, u) => u \in AllShown(m, r, x)
<1>1. PICK s : s = Children(m, r, u, None)
  OBVIOUS
<1>2. IsList(s) /\ Once(s) /\ ToSet(s) \subseteq ChildrenOf(r, u)
  BY <1>1, ChildrenAre
<1> DEFINE I == {i \in DOMAIN s : ~ Container(r, s[i])}
<1>3. PICK leaves : leaves = Chosen(s, I)
  OBVIOUS
<1>4. Once(leaves) /\ IsList(leaves) /\ ToSet(leaves) = Leaves(m, r, u)
  <2>1. \A v : v \in {s[i] : i \in I \intersect DOMAIN s} <=> v \in Leaves(m, r, u)
    BY <1>1 DEF ToSet, Leaves
  <2> HIDE DEF I
  <2>2. Once(leaves)
    BY <1>2, <1>3, OnceChosen
  <2>3. IsList(leaves) /\ ToSet(leaves) = {s[i] : i \in I \intersect DOMAIN s}
    BY <1>2, <1>3, ChosenList
  <2> QED
    BY <2>1, <2>2, <2>3
<1>5. ToSet(leaves) \subseteq ChildrenOf(r, u)
  BY <1>1, <1>2, <1>4 DEF Leaves
<1>6. PICK own : own = [Page(<<"namespace", u>>, r.sym[u].path, leaves) EXCEPT !.shallow = <<u>>]
  OBVIOUS
<1>7. own.deep = leaves /\ own.shallow = <<u>> /\ own.file = None
  BY <1>6 DEF Page
<1>8. NamespacePage(m, r, u) = IF leaves # <<>> \/ Documented(r, u) THEN <<own>> ELSE <<>>
  BY <1>1, <1>3, <1>6 DEF NamespacePage, Those
<1>9. /\ Once(RenderedBy(m, r, own)) /\ u \in ShowsOf(m, r, own)
      /\ ToSet(leaves) \subseteq DeepShows(m, r, own)
      /\ ShowsOf(m, r, own) \subseteq {u} \union Under(r, None, ToSet(leaves))
  BY <1>4, <1>5, <1>7, HeadedPageOnce
<1>10. Tiles(m, r, NamespacePage(m, r, u), {u} \union Under(r, None, Leaves(m, r, u)))
  BY <1>4, <1>8, <1>9, TilesFew
<1>11. CASE leaves # <<>> \/ Documented(r, u)
  <2>1. NamespacePage(m, r, u) = <<own>>
    BY <1>8, <1>11
  <2>2. DOMAIN <<own>> = {1} /\ <<own>>[1] = own
    OBVIOUS
  <2>3. Covered(m, r, <<own>>) = DeepShows(m, r, own) /\ AllShown(m, r, <<own>>) = ShowsOf(m, r, own)
    BY <2>2 DEF Covered, AllShown
  <2> QED
    BY <1>4, <1>9, <1>10, <2>1, <2>3
<1>12. CASE leaves = <<>> /\ ~ Documented(r, u)
  <2>1. Leaves(m, r, u) = {}
    BY <1>4, <1>12 DEF ToSet
  <2> QED
    BY <1>10, <1>12, <2>1
<1> QED
  BY <1>11, <1>12

\* The pages of a symbol show it and what is below it, nothing twice: by a least one whose
\* pages do not.
LEMMA ClassPagesTile ==
    ASSUME NEW m, NEW r, IrOK(r)
    PROVE  \A u \in Present(r) : Tiles(m, r, ClassPages(m, r)[u], Tree(r, None, u))
<1> DEFINE W == {u \in Present(r) : ~ Tiles(m, r, ClassPages(m, r)[u], Tree(r, None, u))}
<1> SUFFICES ASSUME W # {} PROVE FALSE
  OBVIOUS
<1>1. PICK u \in W : ChildrenOf(r, u) \intersect W = {}
  BY DEF IrOK
<1>2. u \in Present(r) /\ ~ Tiles(m, r, ClassPages(m, r)[u], Tree(r, None, u))
  OBVIOUS
<1>3. \A c \in ChildrenOf(r, u) : Tiles(m, r, ClassPages(m, r)[c], Tree(r, None, c))
  BY <1>1 DEF ChildrenOf
<1> HIDE DEF W
<1>4. ClassPages(m, r)[u] = ClassStep(m, r, ClassPages(m, r), u)
  BY <1>2, ClassPagesAre
<1>5. CASE Kind(r, u) # "namespace"
  <2>1. PICK p : p = SymbolPage(r, u)
    OBVIOUS
  <2>2. p.shallow = <<>> /\ p.file = None /\ p.deep = <<u>>
    BY <2>1 DEF SymbolPage, Page
  <2>3. Tiles(m, r, <<p>>, Tree(r, None, u))
    BY <1>2, <2>2, SymbolPageOnce, TilesFew
  <2> QED
    BY <1>2, <1>4, <1>5, <2>1, <2>3 DEF ClassStep
<1>6. CASE Kind(r, u) = "namespace"
  <2>1. PICK t : t = Containers(m, r, u)
    OBVIOUS
  <2>2. /\ Once(t) /\ IsList(t) /\ ToSet(t) \subseteq ChildrenOf(r, u)
        /\ ToSet(t) = {c \in ToSet(Children(m, r, u, None)) : Container(r, c)}
    BY <2>1, ContainersAre
  <2>3. PICK f : f = [i \in DOMAIN t |-> ClassPages(m, r)[t[i]]]
    OBVIOUS
  <2>4. IsList(f) /\ <<>> \o f = f /\ DOMAIN f = DOMAIN t
    BY <2>2, <2>3, EachIsList
  <2>5. ClassPages(m, r)[u] = NamespacePage(m, r, u) \o FlattenSeq(f)
    BY <1>4, <1>6, <2>1, <2>3, <2>4 DEF ClassStep, Each
  <2>6. PICK L : L = Leaves(m, r, u)
    OBVIOUS
  <2>7. L \subseteq ChildrenOf(r, u) /\ L \intersect ToSet(t) = {}
    BY <2>2, <2>6, ChildrenAre DEF Leaves
  <2>8. PICK g : g = [i \in DOMAIN t |-> Tree(r, None, t[i])]
    OBVIOUS
  <2>9. \A i \in DOMAIN t : t[i] \in ToSet(t) /\ t[i] \in ChildrenOf(r, u)
    BY <2>2 DEF ToSet
  <2>10. \A i \in DOMAIN f : Tiles(m, r, f[i], g[i]) /\ g[i] \subseteq Under(r, None, ToSet(t))
    BY <1>3, <2>3, <2>4, <2>8, <2>9 DEF Under
  <2>11. \A i \in DOMAIN f : \A j \in DOMAIN f : i # j => g[i] \intersect g[j] = {}
    <3> SUFFICES ASSUME NEW i \in DOMAIN t, NEW j \in DOMAIN t, i # j
                 PROVE  Tree(r, None, t[i]) \intersect Tree(r, None, t[j]) = {}
      BY <2>4, <2>8
    <3>1. t[i] # t[j]
      BY <2>2 DEF Once
    <3> QED
      BY <2>9, <3>1, SiblingsApart
  <2>12. Tiles(m, r, FlattenSeq(f), Under(r, None, ToSet(t)))
    BY <2>4, <2>10, <2>11, TilesAll
  <2>13. Tiles(m, r, NamespacePage(m, r, u), {u} \union Under(r, None, L))
    BY <1>2, <2>6, NamespacePageTiles
  <2>14. Under(r, None, L) \intersect Under(r, None, ToSet(t)) = {}
    BY <2>2, <2>7, SiblingTrees
  <2>15. \A c \in ChildrenOf(r, u) : u \notin Tree(r, None, c) /\ Tree(r, None, c) \subseteq Tree(r, None, u)
    <3> SUFFICES ASSUME NEW c \in ChildrenOf(r, u)
                 PROVE  u \notin Tree(r, None, c) /\ Tree(r, None, c) \subseteq Tree(r, None, u)
      OBVIOUS
    <3>1. c \in Present(r) /\ r.sym[c].parent = u /\ InScope(r, c, None)
      BY DEF ChildrenOf, InScope
    <3>2. u \notin Tree(r, None, c)
      BY <3>1, TreeIsBelow
    <3>3. u \in Tree(r, None, u)
      BY <1>2, TreeIs
    <3> QED
      BY <1>2, <3>1, <3>2, <3>3, TreeOfChild
  <2>16. ({u} \union Under(r, None, L)) \intersect Under(r, None, ToSet(t)) = {}
    BY <2>2, <2>14, <2>15 DEF Under
  <2>17. ({u} \union Under(r, None, L)) \union Under(r, None, ToSet(t)) \subseteq Tree(r, None, u)
    BY <1>2, <2>2, <2>7, <2>15, TreeIs DEF Under
  <2>18. Tiles(m, r, NamespacePage(m, r, u) \o FlattenSeq(f),
              ({u} \union Under(r, None, L)) \union Under(r, None, ToSet(t)))
    BY <2>12, <2>13, <2>16, TilesBoth
  <2>19. Tiles(m, r, ClassPages(m, r)[u], Tree(r, None, u))
    BY <2>5, <2>17, <2>18, TilesMore
  <2> QED
    BY <1>2, <2>19
<1> QED
  BY <1>5, <1>6

\* With more pages more is shown.
LEMMA CoveredMore ==
    ASSUME NEW m, NEW r, NEW x, NEW y, ToSet(x) \subseteq ToSet(y)
    PROVE  Covered(m, r, x) \subseteq Covered(m, r, y) /\ AllShown(m, r, x) \subseteq AllShown(m, r, y)
<1>1. \A i \in DOMAIN x : \E j \in DOMAIN y : x[i] = y[j]
  BY DEF ToSet
<1> QED
  BY <1>1 DEF Covered, AllShown

\* What is below the symbols of a page is shown, and with a container what is in it.
LEMMA CoveredIs ==
    ASSUME NEW m, NEW r, IrOK(r), NEW x, \A p \in ToSet(x) : SymbolsOf(r, p) /\ p.file = None
    PROVE  /\ Covered(m, r, x) \subseteq AllShown(m, r, x)
           /\ \A v \in Covered(m, r, x) : Container(r, v) =>
                  ToSet(Children(m, r, v, None)) \subseteq Covered(m, r, x)
<1>1. \A i \in DOMAIN x : SymbolsOf(r, x[i]) /\ x[i].file = None
  BY DEF ToSet
<1>2. \A i \in DOMAIN x : DeepShows(m, r, x[i]) \subseteq ShowsOf(m, r, x[i])
  <2> SUFFICES ASSUME NEW i \in DOMAIN x PROVE DeepShows(m, r, x[i]) \subseteq ShowsOf(m, r, x[i])
    OBVIOUS
  <2>1. SymbolsOf(r, x[i])
    BY <1>1
  <2> QED
    BY <2>1, RenderedParts
<1>3. ASSUME NEW v \in Covered(m, r, x), Container(r, v)
      PROVE  ToSet(Children(m, r, v, None)) \subseteq Covered(m, r, x)
  <2>1. PICK i \in DOMAIN x : v \in DeepShows(m, r, x[i])
    BY DEF Covered
  <2>2. SymbolsOf(r, x[i]) /\ x[i].file = None
    BY <1>1
  <2>3. ToSet(Children(m, r, v, None)) \subseteq DeepShows(m, r, x[i])
    BY <1>3, <2>1, <2>2, DeepHasChildren
  <2> QED
    BY <2>1, <2>3 DEF Covered
<1> QED
  BY <1>2, <1>3 DEF Covered, AllShown

\* The pages of a namespace are its own and those of the containers in it.
LEMMA ClassPagesInside ==
    ASSUME NEW m, NEW r, IrOK(r), NEW u \in Present(r)
    PROVE  LET x == ClassPages(m, r)[u]
           IN  /\ Kind(r, u) # "namespace" => u \in Covered(m, r, x)
               /\ Kind(r, u) = "namespace" =>
                      /\ ToSet(NamespacePage(m, r, u)) \subseteq ToSet(x)
                      /\ \A c \in ToSet(Children(m, r, u, None)) : Container(r, c) =>
                             ToSet(ClassPages(m, r)[c]) \subseteq ToSet(x)
<1>1. ClassPages(m, r)[u] = ClassStep(m, r, ClassPages(m, r), u)
  BY ClassPagesAre
<1>2. CASE Kind(r, u) # "namespace"
  <2>1. PICK p : p = SymbolPage(r, u)
    OBVIOUS
  <2>2. p.shallow = <<>> /\ p.file = None /\ p.deep = <<u>>
    BY <2>1 DEF SymbolPage, Page
  <2>3. u \in DeepShows(m, r, p)
    BY <2>2, SymbolPageOnce
  <2>4. DOMAIN <<p>> = {1} /\ <<p>>[1] = p
    OBVIOUS
  <2>5. u \in Covered(m, r, <<p>>)
    BY <2>3, <2>4 DEF Covered
  <2> QED
    BY <1>1, <1>2, <2>1, <2>5 DEF ClassStep
<1>3. CASE Kind(r, u) = "namespace"
  <2>1. PICK t : t = Containers(m, r, u)
    OBVIOUS
  <2>2. /\ IsList(t) /\ ToSet(t) \subseteq ChildrenOf(r, u)
        /\ ToSet(t) = {c \in ToSet(Children(m, r, u, None)) : Container(r, c)}
    BY <2>1, ContainersAre
  <2>3. PICK f : f = [i \in DOMAIN t |-> ClassPages(m, r)[t[i]]]
    OBVIOUS
  <2>4. IsList(f) /\ <<>> \o f = f /\ DOMAIN f = DOMAIN t
    BY <2>2, <2>3, EachIsList
  <2>5. ClassPages(m, r)[u] = NamespacePage(m, r, u) \o FlattenSeq(f)
    BY <1>1, <1>3, <2>1, <2>3, <2>4 DEF ClassStep, Each
  <2>6. \A i \in DOMAIN f : IsList(f[i])
    <3>1. \A i \in DOMAIN t : t[i] \in Present(r)
      BY <2>2 DEF ToSet, ChildrenOf
    <3> QED
      BY <2>3, <2>4, <3>1, ClassPagesAreGood DEF Good
  <2>7. IsList(FlattenSeq(f)) /\ ToSet(FlattenSeq(f)) = UNION {ToSet(f[i]) : i \in DOMAIN f}
    BY <2>4, <2>6, FlattenedList
  <2>8. IsList(NamespacePage(m, r, u))
    BY <1>3, NamespacePageIsGood DEF Good
  <2>9. ToSet(ClassPages(m, r)[u]) = ToSet(NamespacePage(m, r, u)) \union ToSet(FlattenSeq(f))
    BY <2>5, <2>7, <2>8, AppendedList
  <2>10. ASSUME NEW c \in ToSet(Children(m, r, u, None)), Container(r, c)
         PROVE  ToSet(ClassPages(m, r)[c]) \subseteq ToSet(FlattenSeq(f))
    <3>1. c \in ToSet(t)
      BY <2>2, <2>10
    <3>2. PICK i \in DOMAIN t : c = t[i]
      BY <3>1 DEF ToSet
    <3>3. f[i] = ClassPages(m, r)[c] /\ i \in DOMAIN f
      BY <2>3, <2>4, <3>2
    <3> QED
      BY <2>7, <3>3
  <2> QED
    BY <1>3, <2>9, <2>10
<1> QED
  BY <1>2, <1>3

\* Nothing that is visible is missing: a documented namespace has a heading.
Complete(m, r, x) ==
    \A v \in Present(r) : Visible(m, r, v, None) /\ Kind(r, v) # "enumerator" =>
        v \in AllShown(m, r, x) \/ (Kind(r, v) = "namespace" /\ ~ Documented(r, v))

\* The pages of namespaces and records.
ClassWalk(m, r) == FlattenSeq(Each(Roots(m, r), LAMBDA u : ClassPages(m, r)[u]))

\* They show no symbol twice, and leave none out.
LEMMA ClassWalkTiles ==
    ASSUME NEW m, NEW r, IrOK(r)
    PROVE  Tiles(m, r, ClassWalk(m, r), Present(r)) /\ Complete(m, r, ClassWalk(m, r))
<1>1. PICK t : t = Roots(m, r)
  OBVIOUS
<1>2. /\ Once(t) /\ IsList(t) /\ ToSet(t) \subseteq ChildrenOf(r, None)
      /\ ToSet(t) = {u \in ChildrenOf(r, None) : Visible(m, r, u, None)}
  BY <1>1, RootsAre
<1>3. PICK f : f = [i \in DOMAIN t |-> ClassPages(m, r)[t[i]]]
  OBVIOUS
<1>4. IsList(f) /\ <<>> \o f = f /\ DOMAIN f = DOMAIN t
  BY <1>2, <1>3, EachIsList
<1>5. PICK x : x = FlattenSeq(f)
  OBVIOUS
<1>6. ClassWalk(m, r) = x
  <2>1. ClassWalk(m, r) = FlattenSeq(<<>> \o [i \in DOMAIN t |-> ClassPages(m, r)[t[i]]])
    BY <1>1 DEF ClassWalk, Each
  <2> QED
    BY <1>3, <1>4, <1>5, <2>1
<1>7. \A i \in DOMAIN t : t[i] \in Present(r) /\ t[i] \in ChildrenOf(r, None)
  BY <1>2 DEF ToSet, ChildrenOf
<1>8. Tiles(m, r, x, Present(r))
  <2>1. PICK g : g = [i \in DOMAIN t |-> Tree(r, None, t[i])]
    OBVIOUS
  <2>2. \A i \in DOMAIN f : Tiles(m, r, f[i], g[i]) /\ g[i] \subseteq Present(r)
    <3>1. \A i \in DOMAIN t : Tiles(m, r, f[i], g[i])
      BY <1>3, <1>7, <2>1, ClassPagesTile
    <3>2. \A i \in DOMAIN t : g[i] \subseteq Present(r)
      BY <2>1 DEF Tree
    <3> QED
      BY <1>4, <3>1, <3>2
  <2>3. \A i \in DOMAIN f : \A j \in DOMAIN f : i # j => g[i] \intersect g[j] = {}
    <3> SUFFICES ASSUME NEW i \in DOMAIN t, NEW j \in DOMAIN t, i # j
                 PROVE  Tree(r, None, t[i]) \intersect Tree(r, None, t[j]) = {}
      BY <1>4, <2>1
    <3>1. t[i] # t[j]
      BY <1>2 DEF Once
    <3> QED
      BY <1>7, <3>1, SiblingsApart
  <2> QED
    BY <1>4, <1>5, <2>2, <2>3, TilesAll
<1>9. \A i \in DOMAIN f : IsList(f[i])
  BY <1>3, <1>4, <1>7, ClassPagesAreGood DEF Good
<1>10. ToSet(x) = UNION {ToSet(f[i]) : i \in DOMAIN f}
  BY <1>4, <1>5, <1>9, FlattenedList
<1>11. \A p \in ToSet(x) : SymbolsOf(r, p) /\ p.file = None
  <2>1. \A i \in DOMAIN f : Good("class", r, f[i])
    BY <1>3, <1>4, <1>7, ClassPagesAreGood
  <2> QED
    BY <1>10, <2>1 DEF Good, GoodPage
<1>12. PICK C : C = Covered(m, r, x)
  OBVIOUS
<1>13. C \subseteq AllShown(m, r, x)
       /\ \A v \in C : Container(r, v) => ToSet(Children(m, r, v, None)) \subseteq C
  BY <1>11, <1>12, CoveredIs
<1> DEFINE Inside(v) == Kind(r, v) = "namespace" /\ ToSet(ClassPages(m, r)[v]) \subseteq ToSet(x)
           A == C \union {v \in Present(r) : Inside(v)}
<1>14. ASSUME NEW v \in Present(r), ToSet(ClassPages(m, r)[v]) \subseteq ToSet(x)
       PROVE  v \in A
  <2>1. CASE Kind(r, v) = "namespace"
    BY <1>14, <2>1
  <2>2. CASE Kind(r, v) # "namespace"
    <3>1. v \in Covered(m, r, ClassPages(m, r)[v])
      BY <2>2, ClassPagesInside
    <3>2. v \in C
      BY <1>12, <1>14, <3>1, CoveredMore
    <3> QED
      BY <3>2
  <2> QED
    BY <2>1, <2>2
<1>15. ASSUME NEW v \in Present(r), Visible(m, r, v, None), r.sym[v].parent = None
       PROVE  v \in A
  <2>1. v \in ToSet(t)
    BY <1>2, <1>15 DEF ChildrenOf
  <2>2. PICK i \in DOMAIN t : v = t[i]
    BY <2>1 DEF ToSet
  <2>3. ToSet(ClassPages(m, r)[v]) \subseteq ToSet(x)
    BY <1>3, <1>4, <1>10, <2>2
  <2> HIDE DEF A
  <2> QED
    BY <1>14, <2>3
<1>16. ASSUME NEW v \in Present(r), v \in A, Container(r, v), NEW c \in ToSet(Children(m, r, v, None))
       PROVE  c \in A
  <2>1. CASE v \in C
    BY <1>13, <1>16, <2>1
  <2>2. CASE Inside(v)
    <3>1. /\ ToSet(NamespacePage(m, r, v)) \subseteq ToSet(ClassPages(m, r)[v])
          /\ \A d \in ToSet(Children(m, r, v, None)) : Container(r, d) =>
                 ToSet(ClassPages(m, r)[d]) \subseteq ToSet(ClassPages(m, r)[v])
      BY <2>2, ClassPagesInside
    <3>2. CASE Container(r, c)
      <4>1. c \in Present(r)
        BY <1>16, ChildrenAre DEF ChildrenOf
      <4>2. ToSet(ClassPages(m, r)[c]) \subseteq ToSet(x)
        BY <1>16, <2>2, <3>1, <3>2
      <4> HIDE DEF A
      <4> QED
        BY <1>14, <4>1, <4>2
    <3>3. CASE ~ Container(r, c)
      <4>1. c \in Leaves(m, r, v)
        BY <1>16, <3>3 DEF Leaves
      <4>2. c \in Covered(m, r, NamespacePage(m, r, v))
        BY <4>1, NamespacePageTiles
      <4>3. ToSet(NamespacePage(m, r, v)) \subseteq ToSet(x)
        BY <2>2, <3>1
      <4>4. c \in C
        BY <1>12, <4>2, <4>3, CoveredMore
      <4> QED
        BY <4>4
    <3> QED
      BY <3>2, <3>3
  <2> QED
    BY <1>16, <2>1, <2>2
<1>17. \A v \in Present(r) : Visible(m, r, v, None) /\ Kind(r, v) # "enumerator" => v \in A
  <2>1. \A v : InScope(r, v, None)
    BY DEF InScope
  <2> HIDE DEF A
  <2> QED
    BY <1>15, <1>16, <2>1, Reaching
<1>18. ASSUME NEW v \in Present(r), Inside(v), Documented(r, v)
       PROVE  v \in AllShown(m, r, x)
  <2>1. v \in AllShown(m, r, NamespacePage(m, r, v))
    BY <1>18, NamespacePageTiles
  <2>2. ToSet(NamespacePage(m, r, v)) \subseteq ToSet(x)
    BY <1>18, ClassPagesInside
  <2> QED
    BY <2>1, <2>2, CoveredMore
<1>19. Complete(m, r, x)
  <2> SUFFICES ASSUME NEW v \in Present(r), Visible(m, r, v, None), Kind(r, v) # "enumerator"
               PROVE  v \in AllShown(m, r, x) \/ (Kind(r, v) = "namespace" /\ ~ Documented(r, v))
    BY DEF Complete
  <2>1. v \in C \/ Inside(v)
    BY <1>17
  <2> HIDE DEF A
  <2> QED
    BY <1>13, <1>18, <2>1
<1> QED
  BY <1>6, <1>8, <1>19

-----------------------------------------------------------------------------
(* Pages in scopes, with hubs.                                              *)

\* The pages x show the symbols M with what is below them, nothing twice.
Fits(m, r, x, M) == Tiles(m, r, x, Under(r, None, M)) /\ M \subseteq Covered(m, r, x)

\* Pages of different siblings fit together.
LEMMA FitsBoth ==
    ASSUME NEW m, NEW r, IrOK(r), NEW s, NEW M, M \subseteq ChildrenOf(r, s),
           NEW N, N \subseteq ChildrenOf(r, s), M \intersect N = {},
           NEW x, Fits(m, r, x, M), NEW y, Fits(m, r, y, N)
    PROVE  Fits(m, r, x \o y, M \union N)
<1>1. Under(r, None, M) \intersect Under(r, None, N) = {}
  BY SiblingTrees
<1>2. Tiles(m, r, x \o y, Under(r, None, M) \union Under(r, None, N))
  BY <1>1, TilesBoth DEF Fits
<1>3. Under(r, None, M) \union Under(r, None, N) \subseteq Under(r, None, M \union N)
  BY DEF Under
<1>4. IsList(x) /\ IsList(y)
  BY DEF Fits, Tiles
<1>5. ToSet(x \o y) = ToSet(x) \union ToSet(y)
  BY <1>4, AppendedList
<1>6. Covered(m, r, x) \subseteq Covered(m, r, x \o y)
  <2>1. ToSet(x) \subseteq ToSet(x \o y)
    BY <1>5
  <2> QED
    BY <2>1, CoveredMore
<1>7. Covered(m, r, y) \subseteq Covered(m, r, x \o y)
  <2>1. ToSet(y) \subseteq ToSet(x \o y)
    BY <1>5
  <2> QED
    BY <2>1, CoveredMore
<1>8. Tiles(m, r, x \o y, Under(r, None, M \union N))
  BY <1>2, <1>3, TilesMore
<1> QED
  BY <1>6, <1>7, <1>8 DEF Fits

\* No page fits no symbol, and a page without a heading fits its symbols.
LEMMA FitsFew ==
    ASSUME NEW m, NEW r, IrOK(r), NEW s
    PROVE  /\ Fits(m, r, <<>>, {})
           /\ \A p : /\ p.shallow = <<>> /\ p.file = None
                     /\ Once(p.deep) /\ ToSet(p.deep) \subseteq ChildrenOf(r, s)
                     => Fits(m, r, <<p>>, ToSet(p.deep))
<1>1. Fits(m, r, <<>>, {})
  BY TilesFew DEF Fits
<1>2. ASSUME NEW p, p.shallow = <<>>, p.file = None, Once(p.deep), ToSet(p.deep) \subseteq ChildrenOf(r, s)
      PROVE  Fits(m, r, <<p>>, ToSet(p.deep))
  <2>1. /\ SymbolsOf(r, p) /\ Once(RenderedBy(m, r, p))
        /\ ShowsOf(m, r, p) \subseteq Under(r, None, ToSet(p.deep))
    BY <1>2, SharedPageOnce
  <2>2. Tiles(m, r, <<p>>, Under(r, None, ToSet(p.deep)))
    BY <2>1, TilesFew
  <2>3. ToSet(p.deep) \subseteq DeepShows(m, r, p)
    BY <2>1, RenderedParts
  <2>4. DOMAIN <<p>> = {1} /\ <<p>>[1] = p
    OBVIOUS
  <2>5. Covered(m, r, <<p>>) = DeepShows(m, r, p)
    BY <2>4 DEF Covered
  <2> QED
    BY <2>2, <2>3, <2>5 DEF Fits
<1> QED
  BY <1>1, <1>2

\* A page for each of some siblings fits them.
LEMMA FitsEach ==
    ASSUME NEW m, NEW r, IrOK(r), NEW s, NEW t, Once(t), ToSet(t) \subseteq ChildrenOf(r, s),
           NEW f, f = [i \in DOMAIN t |-> f[i]],
           \A i \in DOMAIN t : f[i].shallow = <<>> /\ f[i].file = None /\ f[i].deep = <<t[i]>>
    PROVE  Fits(m, r, <<>> \o f, ToSet(t))
<1>1. Tiles(m, r, <<>> \o f, Under(r, None, ToSet(t)))
  BY SiblingPagesTile
<1>2. IsList(t)
  BY DEF Once
<1>3. <<>> \o f = f /\ DOMAIN f = DOMAIN t
  BY <1>2, EachIsList
<1>4. \A i \in DOMAIN t : t[i] \in DeepShows(m, r, f[i])
  <2>1. \A i \in DOMAIN t : t[i] \in Present(r)
    BY DEF ToSet, ChildrenOf
  <2> QED
    BY <2>1, SymbolPageOnce
<1>5. ToSet(t) \subseteq Covered(m, r, f)
  BY <1>3, <1>4 DEF ToSet, Covered
<1> QED
  BY <1>1, <1>3, <1>5 DEF Fits

\* The page of a bucket fits its members.
LEMMA LumpedFits ==
    ASSUME NEW m, NEW r, IrOK(r), NEW s, NEW suffix, NEW members, Once(members),
           ToSet(members) \subseteq ChildrenOf(r, s)
    PROVE  Fits(m, r, Lumped(r, s, suffix, members), ToSet(members))
<1> DEFINE key == [i \in DOMAIN members |-> <<Rank(Spelling(r, members[i]))>> \o r.sym[members[i]].sig]
           listed == IF Len(members) < 2 THEN members ELSE <<>> \o SortedBy(members, <<>> \o key)
           own == [Page(<<suffix, s>>, ScopePath(r, s) \o <<suffix>>, listed)
                      EXCEPT !.up = s, !.entry = <<suffix>>]
<1>1. Lumped(r, s, suffix, members) = IF members = <<>> THEN <<>> ELSE <<own>>
  BY DEF Lumped, Sorted, Each
<1>2. ToSet(members) \subseteq Present(r) /\ IsList(members)
  BY DEF ChildrenOf, Once
<1>3. key = [i \in DOMAIN members |-> key[i]] /\ \A i \in DOMAIN members : key[i] \in Seq(Nat)
  BY <1>2, SigIsNumbers DEF ToSet
<1> HIDE DEF key
<1>4. Once(listed) /\ ToSet(listed) = ToSet(members)
  BY <1>2, <1>3, SortedKeeps
<1> HIDE DEF listed
<1>5. own.deep = listed /\ own.shallow = <<>> /\ own.file = None
  BY DEF Page
<1> HIDE DEF own
<1>6. Fits(m, r, <<own>>, ToSet(members))
  BY <1>4, <1>5, FitsFew
<1>7. CASE members = <<>>
  <2>1. ToSet(members) = {}
    BY <1>7 DEF ToSet
  <2> QED
    BY <1>1, <1>7, <2>1, FitsFew
<1>8. CASE members # <<>>
  BY <1>1, <1>6, <1>8
<1> QED
  BY <1>7, <1>8

\* The functions of one name, in order,
OverloadsOf(r, named, x) ==
    Sorted(Those(named, LAMBDA u : Spelling(r, u) = x), LAMBDA u : r.sym[u].sig)

\* are those and each once.
LEMMA OverloadsAre ==
    ASSUME NEW r, IrOK(r), NEW named, Once(named), ToSet(named) \subseteq Present(r), NEW x
    PROVE  /\ Once(OverloadsOf(r, named, x))
           /\ ToSet(OverloadsOf(r, named, x)) = {u \in ToSet(named) : Spelling(r, u) = x}
<1> DEFINE K == {i \in DOMAIN named : Spelling(r, named[i]) = x}
           same == Chosen(named, K)
           sigs == [i \in DOMAIN same |-> r.sym[same[i]].sig]
<1>1. OverloadsOf(r, named, x) = IF Len(same) < 2 THEN same ELSE <<>> \o SortedBy(same, <<>> \o sigs)
  BY DEF OverloadsOf, Those, Sorted, Each
<1>2. IsList(named)
  BY DEF Once
<1>3. Once(same) /\ IsList(same) /\ ToSet(same) = {named[i] : i \in K \intersect DOMAIN named}
  <2> HIDE DEF K
  <2>1. Once(same)
    BY OnceChosen
  <2>2. IsList(same) /\ ToSet(same) = {named[i] : i \in K \intersect DOMAIN named}
    BY <1>2, ChosenList
  <2> QED
    BY <2>1, <2>2
<1>4. \A u : u \in {named[i] : i \in K \intersect DOMAIN named}
                 <=> u \in {v \in ToSet(named) : Spelling(r, v) = x}
  BY DEF ToSet
<1> HIDE DEF K, same
<1>5. ToSet(same) = {u \in ToSet(named) : Spelling(r, u) = x}
  BY <1>3, <1>4
<1>6. sigs = [i \in DOMAIN same |-> sigs[i]] /\ \A i \in DOMAIN same : sigs[i] \in Seq(Nat)
  <2>1. \A i \in DOMAIN same : same[i] \in Present(r)
    BY <1>5 DEF ToSet
  <2> QED
    BY <2>1, SigIsNumbers
<1> HIDE DEF sigs
<1>7. PICK c : c = same
  OBVIOUS
<1> QED
  BY <1>1, <1>3, <1>5, <1>6, <1>7, SortedKeeps

\* The pages of functions fit them: a page for each name, and one for the operators.
LEMMA FunctionPagesFit ==
    ASSUME NEW m, NEW r, IrOK(r), NEW s, NEW functions, Once(functions),
           ToSet(functions) \subseteq ChildrenOf(r, s)
    PROVE  Fits(m, r, FunctionPages(r, s, functions), ToSet(functions))
<1> DEFINE I == {i \in DOMAIN functions : Spelling(r, functions[i]) \notin Operators}
           J == {i \in DOMAIN functions : Spelling(r, functions[i]) \in Operators}
           named == Chosen(functions, I)
           lumped == Chosen(functions, J)
           spelled == [i \in DOMAIN named |-> Spelling(r, named[i])]
           N == {Spelling(r, u) : u \in ToSet(named)}
           t == SetToSeq(N)
           key == [i \in DOMAIN t |-> <<Rank(t[i])>>]
           names == IF Len(t) < 2 THEN t ELSE <<>> \o SortedBy(t, <<>> \o key)
           O(x) == OverloadsOf(r, named, x)
           NamePage(x) == [Page(<<"overloads", s, x>>, r.sym[O(x)[1]].path, O(x))
                              EXCEPT !.up = s, !.entry = <<x>>]
           f == [i \in DOMAIN names |-> NamePage(names[i])]
<1>1. FunctionPages(r, s, functions) = (<<>> \o f) \o Lumped(r, s, "operators", lumped)
  BY DEF FunctionPages, Those, Sorted, Each, OverloadsOf
<1>2. IsList(functions)
  BY DEF Once
<1>3. Once(named) /\ IsList(named) /\ ToSet(named) = {functions[i] : i \in I \intersect DOMAIN functions}
  <2> HIDE DEF I
  <2>1. Once(named)
    BY OnceChosen
  <2> QED
    BY <1>2, <2>1, ChosenList
<1>4. Once(lumped) /\ ToSet(lumped) = {functions[i] : i \in J \intersect DOMAIN functions}
  <2> HIDE DEF J
  <2>1. Once(lumped)
    BY OnceChosen
  <2> QED
    BY <1>2, <2>1, ChosenList
<1>5. \A u : /\ u \in {functions[i] : i \in I \intersect DOMAIN functions}
                    <=> u \in ToSet(functions) /\ Spelling(r, u) \notin Operators
             /\ u \in {functions[i] : i \in J \intersect DOMAIN functions}
                    <=> u \in ToSet(functions) /\ Spelling(r, u) \in Operators
  BY DEF ToSet
<1> HIDE DEF I, J, named, lumped
<1>6. /\ ToSet(named) \union ToSet(lumped) = ToSet(functions)
      /\ ToSet(named) \intersect ToSet(lumped) = {}
      /\ ToSet(named) \subseteq ChildrenOf(r, s) /\ ToSet(lumped) \subseteq ChildrenOf(r, s)
      /\ ToSet(named) \subseteq Present(r)
  <2>1. \A u : /\ u \in ToSet(named) <=> u \in ToSet(functions) /\ Spelling(r, u) \notin Operators
               /\ u \in ToSet(lumped) <=> u \in ToSet(functions) /\ Spelling(r, u) \in Operators
    BY <1>3, <1>4, <1>5
  <2>2. ChildrenOf(r, s) \subseteq Present(r)
    BY DEF ChildrenOf
  <2> QED
    BY <2>1, <2>2
<1>7. Fits(m, r, Lumped(r, s, "operators", lumped), ToSet(lumped))
  BY <1>4, <1>6, LumpedFits
<1>8. IsFiniteSet(N)
  <2>1. N = {spelled[i] : i \in DOMAIN named}
    BY DEF ToSet
  <2>2. spelled = [i \in DOMAIN named |-> spelled[i]] /\ DOMAIN spelled = DOMAIN named
    OBVIOUS
  <2> HIDE DEF N, spelled
  <2> QED
    BY <1>3, <2>1, <2>2, FinitelyMany
<1>9. Once(t) /\ IsList(t) /\ ToSet(t) = N
  <2> HIDE DEF N
  <2> QED
    BY <1>8, SetHasList
<1>10. key = [i \in DOMAIN t |-> key[i]] /\ \A i \in DOMAIN t : key[i] \in Seq(Nat)
  <2> HIDE DEF t
  <2>1. ASSUME NEW i \in DOMAIN t PROVE Rank(t[i]) \in Nat
    <3>1. t[i] \in N
      BY <1>9 DEF ToSet
    <3>2. PICK u \in ToSet(named) : t[i] = Spelling(r, u)
      BY <3>1
    <3> QED
      BY <1>6, <3>2, SpellingIsRanked
  <2>2. ASSUME NEW i \in DOMAIN t PROVE key[i] \in Seq(Nat)
    BY <2>1
  <2> QED
    BY <2>2
<1>11. Once(names) /\ IsList(names) /\ ToSet(names) = N
  <2> HIDE DEF t, key, N
  <2> QED
    BY <1>9, <1>10, SortedKeeps
<1> HIDE DEF t, key, names
<1>12. \A x : Once(O(x)) /\ ToSet(O(x)) = {u \in ToSet(named) : Spelling(r, u) = x}
  BY <1>3, <1>6, OverloadsAre
<1> HIDE DEF O
<1>13. \A i \in DOMAIN names : /\ f[i].deep = O(names[i]) /\ f[i].shallow = <<>> /\ f[i].file = None
  BY DEF Page
<1> HIDE DEF NamePage
<1>14. IsList(f) /\ <<>> \o f = f /\ DOMAIN f = DOMAIN names /\ f = [i \in DOMAIN names |-> f[i]]
  BY <1>11, EachIsList
<1> HIDE DEF f
<1>15. \A i \in DOMAIN names : ToSet(O(names[i])) \subseteq ToSet(named)
  BY <1>12
<1>16. \A i \in DOMAIN names : /\ Once(RenderedBy(m, r, f[i])) /\ SymbolsOf(r, f[i])
                               /\ ShowsOf(m, r, f[i]) \subseteq Under(r, None, ToSet(O(names[i])))
  <2> SUFFICES ASSUME NEW i \in DOMAIN names
               PROVE  /\ Once(RenderedBy(m, r, f[i])) /\ SymbolsOf(r, f[i])
                      /\ ShowsOf(m, r, f[i]) \subseteq Under(r, None, ToSet(O(names[i])))
    OBVIOUS
  <2>1. PICK p : p = f[i]
    OBVIOUS
  <2>2. PICK d : d = O(names[i])
    OBVIOUS
  <2>3. p.deep = d /\ p.shallow = <<>> /\ p.file = None /\ Once(d) /\ ToSet(d) \subseteq ChildrenOf(r, s)
    BY <1>6, <1>12, <1>13, <1>15, <2>1, <2>2
  <2> QED
    BY <2>1, <2>2, <2>3, SharedPageOnce
<1>17. Tiles(m, r, <<>> \o f, Under(r, None, ToSet(named)))
  <2>1. \A i \in DOMAIN names : ShowsOf(m, r, f[i]) \subseteq Under(r, None, ToSet(named))
    BY <1>15, <1>16 DEF Under
  <2>2. ASSUME NEW i \in DOMAIN names, NEW j \in DOMAIN names, i # j
        PROVE  ShowsOf(m, r, f[i]) \intersect ShowsOf(m, r, f[j]) = {}
    <3>1. names[i] # names[j]
      BY <1>11, <2>2 DEF Once
    <3>2. ToSet(O(names[i])) \intersect ToSet(O(names[j])) = {}
      BY <1>12, <3>1
    <3>3. ToSet(O(names[i])) \subseteq ChildrenOf(r, s) /\ ToSet(O(names[j])) \subseteq ChildrenOf(r, s)
      BY <1>6, <1>15
    <3>4. Under(r, None, ToSet(O(names[i]))) \intersect Under(r, None, ToSet(O(names[j]))) = {}
      BY <3>2, <3>3, SiblingTrees
    <3> QED
      BY <1>16, <3>4
  <2> QED
    BY <1>11, <1>14, <1>16, <2>1, <2>2, TilesEach
<1>18. ToSet(named) \subseteq Covered(m, r, f)
  <2> SUFFICES ASSUME NEW u \in ToSet(named) PROVE u \in Covered(m, r, f)
    OBVIOUS
  <2>1. PICK x : x = Spelling(r, u) /\ x \in N
    OBVIOUS
  <2>2. PICK i \in DOMAIN names : names[i] = x
    BY <1>11, <2>1 DEF ToSet
  <2>3. u \in ToSet(O(names[i]))
    BY <1>12, <2>1, <2>2
  <2>4. SymbolsOf(r, f[i]) /\ f[i].deep = O(names[i])
    BY <1>13, <1>16
  <2>5. ToSet(f[i].deep) \subseteq DeepShows(m, r, f[i])
    BY <2>4, RenderedParts
  <2>6. u \in DeepShows(m, r, f[i])
    BY <2>3, <2>4, <2>5
  <2> QED
    BY <1>14, <2>6 DEF Covered
<1>19. Fits(m, r, <<>> \o f, ToSet(named))
  BY <1>14, <1>17, <1>18 DEF Fits
<1>20. Fits(m, r, (<<>> \o f) \o Lumped(r, s, "operators", lumped), ToSet(named) \union ToSet(lumped))
  <2>1. PICK x, y : x = <<>> \o f /\ y = Lumped(r, s, "operators", lumped)
    OBVIOUS
  <2>2. Fits(m, r, x \o y, ToSet(named) \union ToSet(lumped))
    BY <1>6, <1>7, <1>19, <2>1, FitsBoth
  <2> QED
    BY <2>1, <2>2
<1> QED
  BY <1>1, <1>6, <1>20

\* The pages of members of every kind fit them, namespaces aside.
LEMMA MemberPagesFit ==
    ASSUME NEW m, NEW r, IrOK(r), NEW s, NEW members, Once(members),
           ToSet(members) \subseteq ChildrenOf(r, s)
    PROVE  Fits(m, r, MemberPages(r, s, members), {u \in ToSet(members) : Kind(r, u) # "namespace"})
<1> DEFINE I(kinds) == {i \in DOMAIN members : Kind(r, members[i]) \in kinds}
           Of(kinds) == Chosen(members, I(kinds))
           RecordPage(u) == [SymbolPage(r, u) EXCEPT
                                !.up = s, !.entry = <<Spelling(r, u)>> \o r.sym[u].spec]
           t == BySpelling(r, Of({"record"}))
           f == [i \in DOMAIN t |-> RecordPage(t[i])]
           A(kinds) == {u \in ToSet(members) : Kind(r, u) \in kinds}
<1>1. MemberPages(r, s, members) =
          (((<<>> \o f) \o FunctionPages(r, s, Of({"function"})))
          \o Lumped(r, s, "types", Of({"enum", "alias"})))
          \o Lumped(r, s, "constants", Of({"variable", "macro"}))
          \o Lumped(r, s, "other", Of({"field", "enumerator"}))
  BY DEF MemberPages, Those, Each
<1>2. IsList(members)
  BY DEF Once
<1>3. ASSUME NEW kinds
      PROVE  Once(Of(kinds)) /\ IsList(Of(kinds)) /\ ToSet(Of(kinds)) = A(kinds)
  <2>1. Once(Of(kinds))
    <3> HIDE DEF I
    <3> QED
      BY OnceChosen
  <2>2. /\ IsList(Of(kinds))
        /\ ToSet(Of(kinds)) = {members[i] : i \in I(kinds) \intersect DOMAIN members}
    <3> HIDE DEF I
    <3> QED
      BY <1>2, ChosenList
  <2>3. \A u : u \in {members[i] : i \in I(kinds) \intersect DOMAIN members} <=> u \in A(kinds)
    BY DEF ToSet
  <2> HIDE DEF Of
  <2> QED
    BY <2>1, <2>2, <2>3
<1> HIDE DEF I, Of
<1>4. \A kinds : A(kinds) \subseteq ChildrenOf(r, s) /\ A(kinds) \subseteq Present(r)
  BY DEF ChildrenOf
<1>5. Fits(m, r, <<>> \o f, A({"record"}))
  <2>1. Once(t) /\ ToSet(t) = A({"record"})
    <3>1. ToSet(Of({"record"})) \subseteq Present(r)
      BY <1>3, <1>4
    <3> QED
      BY <1>3, <3>1, BySpellingIs
  <2> HIDE DEF t
  <2>2. \A i \in DOMAIN t : f[i].shallow = <<>> /\ f[i].file = None /\ f[i].deep = <<t[i]>>
    BY DEF SymbolPage, Page
  <2>3. f = [i \in DOMAIN t |-> f[i]]
    OBVIOUS
  <2> HIDE DEF f
  <2>4. ToSet(t) \subseteq ChildrenOf(r, s)
    BY <1>4, <2>1
  <2>5. Fits(m, r, <<>> \o f, ToSet(t))
    BY <2>1, <2>2, <2>3, <2>4, FitsEach
  <2> QED
    BY <2>1, <2>5
<1>6. Fits(m, r, FunctionPages(r, s, Of({"function"})), A({"function"}))
  <2>1. PICK x : x = Of({"function"})
    OBVIOUS
  <2>2. Once(x) /\ ToSet(x) = A({"function"}) /\ A({"function"}) \subseteq ChildrenOf(r, s)
    BY <1>3, <1>4, <2>1
  <2> HIDE DEF A
  <2> QED
    BY <2>1, <2>2, FunctionPagesFit
<1>7. Fits(m, r, Lumped(r, s, "types", Of({"enum", "alias"})), A({"enum", "alias"}))
  <2>1. PICK x : x = Of({"enum", "alias"})
    OBVIOUS
  <2>2. Once(x) /\ ToSet(x) = A({"enum", "alias"}) /\ A({"enum", "alias"}) \subseteq ChildrenOf(r, s)
    BY <1>3, <1>4, <2>1
  <2> HIDE DEF A
  <2> QED
    BY <2>1, <2>2, LumpedFits
<1>8. Fits(m, r, Lumped(r, s, "constants", Of({"variable", "macro"})), A({"variable", "macro"}))
  <2>1. PICK x : x = Of({"variable", "macro"})
    OBVIOUS
  <2>2. Once(x) /\ ToSet(x) = A({"variable", "macro"}) /\ A({"variable", "macro"}) \subseteq ChildrenOf(r, s)
    BY <1>3, <1>4, <2>1
  <2> HIDE DEF A
  <2> QED
    BY <2>1, <2>2, LumpedFits
<1>9. Fits(m, r, Lumped(r, s, "other", Of({"field", "enumerator"})), A({"field", "enumerator"}))
  <2>1. PICK x : x = Of({"field", "enumerator"})
    OBVIOUS
  <2>2. Once(x) /\ ToSet(x) = A({"field", "enumerator"}) /\ A({"field", "enumerator"}) \subseteq ChildrenOf(r, s)
    BY <1>3, <1>4, <2>1
  <2> HIDE DEF A
  <2> QED
    BY <2>1, <2>2, LumpedFits
<1>10. PICK a, b, c, d, e :
           /\ a = <<>> \o f /\ b = FunctionPages(r, s, Of({"function"}))
           /\ c = Lumped(r, s, "types", Of({"enum", "alias"}))
           /\ d = Lumped(r, s, "constants", Of({"variable", "macro"}))
           /\ e = Lumped(r, s, "other", Of({"field", "enumerator"}))
  OBVIOUS
<1>11. \A K, L : A(K) \intersect A(L) = A(K \intersect L) /\ A(K) \union A(L) = A(K \union L)
  OBVIOUS
<1>12. A({}) = {}
  OBVIOUS
<1> HIDE DEF A, f, t
<1>13. Fits(m, r, a \o b, A({"record", "function"}))
  <2>1. A({"record"}) \intersect A({"function"}) = {}
    <3>1. {"record"} \intersect {"function"} = {}
      OBVIOUS
    <3> QED
      BY <1>11, <1>12, <3>1
  <2>2. A({"record"}) \union A({"function"}) = A({"record", "function"})
    <3>1. {"record"} \union {"function"} = {"record", "function"}
      OBVIOUS
    <3> QED
      BY <1>11, <3>1
  <2>3. Fits(m, r, a \o b, A({"record"}) \union A({"function"}))
    BY <1>4, <1>5, <1>6, <1>10, <2>1, FitsBoth
  <2> QED
    BY <2>2, <2>3
<1>14. Fits(m, r, (a \o b) \o c, A({"record", "function", "enum", "alias"}))
  <2>1. A({"record", "function"}) \intersect A({"enum", "alias"}) = {}
    <3>1. {"record", "function"} \intersect {"enum", "alias"} = {}
      OBVIOUS
    <3> QED
      BY <1>11, <1>12, <3>1
  <2>2. A({"record", "function"}) \union A({"enum", "alias"}) = A({"record", "function", "enum", "alias"})
    <3>1. {"record", "function"} \union {"enum", "alias"} = {"record", "function", "enum", "alias"}
      OBVIOUS
    <3> QED
      BY <1>11, <3>1
  <2>3. Fits(m, r, (a \o b) \o c, A({"record", "function"}) \union A({"enum", "alias"}))
    BY <1>4, <1>7, <1>10, <1>13, <2>1, FitsBoth
  <2> QED
    BY <2>2, <2>3
<1>15. Fits(m, r, ((a \o b) \o c) \o d,
            A({"record", "function", "enum", "alias"} \union {"variable", "macro"}))
  <2>1. A({"record", "function", "enum", "alias"}) \intersect A({"variable", "macro"}) = {}
    <3>1. {"record", "function", "enum", "alias"} \intersect {"variable", "macro"} = {}
      OBVIOUS
    <3> QED
      BY <1>11, <1>12, <3>1
  <2>2. Fits(m, r, ((a \o b) \o c) \o d,
             A({"record", "function", "enum", "alias"}) \union A({"variable", "macro"}))
    BY <1>4, <1>8, <1>10, <1>14, <2>1, FitsBoth
  <2> QED
    BY <1>11, <2>2
<1>16. PICK G : G = {"record", "function", "enum", "alias"} \union {"variable", "macro"}
  OBVIOUS
<1>17. Fits(m, r, (((a \o b) \o c) \o d) \o e, A(G \union {"field", "enumerator"}))
  <2>1. A(G) \intersect A({"field", "enumerator"}) = {}
    <3>1. G \intersect {"field", "enumerator"} = {}
      BY <1>16
    <3> QED
      BY <1>11, <1>12, <3>1
  <2>2. Fits(m, r, (((a \o b) \o c) \o d) \o e, A(G) \union A({"field", "enumerator"}))
    BY <1>4, <1>9, <1>10, <1>15, <1>16, <2>1, FitsBoth
  <2> QED
    BY <1>11, <2>2
<1>18. A(G \union {"field", "enumerator"}) = {u \in ToSet(members) : Kind(r, u) # "namespace"}
  <2>1. \A u \in ToSet(members) : Kind(r, u) \in DOMAIN KindNo
    BY DEF IrOK, Row, ChildrenOf, Kind
  <2>2. DOMAIN KindNo = G \union {"field", "enumerator"} \union {"namespace"}
    BY <1>16 DEF KindNo
  <2>3. "namespace" \notin G \union {"field", "enumerator"}
    BY <1>16
  <2> QED
    BY <2>1, <2>2, <2>3 DEF A
<1>19. MemberPages(r, s, members) = (((a \o b) \o c) \o d) \o e
  BY <1>1, <1>10
<1> QED
  BY <1>17, <1>18, <1>19

\* A namespace's pages and its hub show it and what is below it, nothing twice.
LEMMA HubPageTiles ==
    ASSUME NEW m, NEW r, IrOK(r), NEW s, NEW ns \in Present(r),
           NEW below, Tiles(m, r, below, Under(r, None, ChildrenOf(r, ns)))
    PROVE  LET x == HubPage(r, s, ns, below)
           IN  /\ Tiles(m, r, x, Tree(r, None, ns)) /\ ToSet(below) \subseteq ToSet(x)
               /\ Documented(r, ns) => ns \in AllShown(m, r, x)
<1>1. PICK own : own = [Page(<<"hub", ns>>, r.sym[ns].path, <<>>)
                           EXCEPT !.shallow = <<ns>>, !.up = s, !.entry = <<Spelling(r, ns)>>]
  OBVIOUS
<1>2. own.deep = <<>> /\ own.shallow = <<ns>> /\ own.file = None
  BY <1>1 DEF Page
<1>3. HubPage(r, s, ns, below) = below \o IF HubKept(r, ns, below) THEN <<own>> ELSE <<>>
  BY <1>1 DEF HubPage
<1>4. Once(own.deep) /\ ToSet(own.deep) = {}
  BY <1>2, OnceFew DEF ToSet
<1>5. /\ Once(RenderedBy(m, r, own)) /\ ns \in ShowsOf(m, r, own)
      /\ ShowsOf(m, r, own) \subseteq {ns}
  <2>1. ToSet(own.deep) \subseteq ChildrenOf(r, ns)
    BY <1>4
  <2>2. /\ Once(RenderedBy(m, r, own)) /\ ns \in ShowsOf(m, r, own)
        /\ ShowsOf(m, r, own) \subseteq {ns} \union Under(r, None, ToSet(own.deep))
    BY <1>2, <1>4, <2>1, HeadedPageOnce
  <2>3. Under(r, None, ToSet(own.deep)) = {}
    BY <1>4 DEF Under
  <2> QED
    BY <2>2, <2>3
<1>6. PICK h : h = IF HubKept(r, ns, below) THEN <<own>> ELSE <<>>
  OBVIOUS
<1>7. Tiles(m, r, h, {ns}) /\ IsList(h)
  BY <1>5, <1>6, TilesFew, ShortLists
<1>8. \A c \in ChildrenOf(r, ns) : ns \notin Tree(r, None, c) /\ Tree(r, None, c) \subseteq Tree(r, None, ns)
  <2> SUFFICES ASSUME NEW c \in ChildrenOf(r, ns)
               PROVE  ns \notin Tree(r, None, c) /\ Tree(r, None, c) \subseteq Tree(r, None, ns)
    OBVIOUS
  <2>1. c \in Present(r) /\ r.sym[c].parent = ns /\ InScope(r, c, None)
    BY DEF ChildrenOf, InScope
  <2>2. ns \notin Tree(r, None, c)
    BY <2>1, TreeIsBelow
  <2>3. ns \in Tree(r, None, ns)
    BY TreeIs
  <2> QED
    BY <2>1, <2>2, <2>3, TreeOfChild
<1>9. /\ Under(r, None, ChildrenOf(r, ns)) \intersect {ns} = {}
      /\ Under(r, None, ChildrenOf(r, ns)) \union {ns} \subseteq Tree(r, None, ns)
  BY <1>8, TreeIs DEF Under
<1>10. Tiles(m, r, below \o h, Under(r, None, ChildrenOf(r, ns)) \union {ns})
  BY <1>7, <1>9, TilesBoth
<1>11. Tiles(m, r, below \o h, Tree(r, None, ns))
  BY <1>9, <1>10, TilesMore
<1>12. IsList(below)
  BY DEF Tiles
<1>13. ToSet(below \o h) = ToSet(below) \union ToSet(h)
  BY <1>7, <1>12, AppendedList
<1>14. Documented(r, ns) => ns \in AllShown(m, r, h)
  <2> SUFFICES ASSUME Documented(r, ns) PROVE ns \in AllShown(m, r, h)
    OBVIOUS
  <2>1. h = <<own>>
    BY <1>6 DEF HubKept
  <2>2. DOMAIN <<own>> = {1} /\ <<own>>[1] = own
    OBVIOUS
  <2> QED
    BY <1>5, <2>1, <2>2 DEF AllShown
<1>15. AllShown(m, r, h) \subseteq AllShown(m, r, below \o h)
  <2>1. ToSet(h) \subseteq ToSet(below \o h)
    BY <1>13
  <2> QED
    BY <2>1, CoveredMore
<1> QED
  BY <1>3, <1>6, <1>11, <1>13, <1>14, <1>15

\* The pages of a scope fit what is in it, if those of its namespaces do.
LEMMA ScopeTiles ==
    ASSUME NEW m, NEW r, IrOK(r), NEW s \in Present(r) \union {None},
           \A c \in ChildrenOf(r, s) :
               Tiles(m, r, ScopePages(m, r)[c], Under(r, None, ChildrenOf(r, c)))
    PROVE  LET x == ScopePages(m, r)[s]
           IN  /\ Tiles(m, r, x, Under(r, None, ChildrenOf(r, s)))
               /\ \A c \in ChildrenOf(r, s) : Visible(m, r, c, None) =>
                      /\ Kind(r, c) # "namespace" => c \in Covered(m, r, x)
                      /\ Kind(r, c) = "namespace" =>
                             ToSet(HubPage(r, s, c, ScopePages(m, r)[c])) \subseteq ToSet(x)
<1>1. PICK S : S = ScopePages(m, r)
  OBVIOUS
<1>2. PICK ms : ms = Members(m, r, s)
  OBVIOUS
<1>3. PICK t : t = Namespaces(r, ms)
  OBVIOUS
<1>4. PICK f : f = [i \in DOMAIN t |-> HubPage(r, s, t[i], S[t[i]])]
  OBVIOUS
<1>5. /\ Once(ms) /\ ToSet(ms) \subseteq ChildrenOf(r, s)
      /\ ToSet(ms) = {c \in ChildrenOf(r, s) : Visible(m, r, c, None)}
  BY <1>2, MembersAre
<1>6. Once(t) /\ IsList(t) /\ ToSet(t) = {u \in ToSet(ms) : Kind(r, u) = "namespace"}
  BY <1>2, <1>3, NamespacesAre
<1>7. IsList(f) /\ <<>> \o f = f /\ DOMAIN f = DOMAIN t
  BY <1>4, <1>6, EachIsList
<1>8. S[s] = FlattenSeq(f) \o MemberPages(r, s, ms)
  <2>1. S[s] = ScopeOf(m, r, S, s)
    BY <1>1, ScopePagesAre
  <2> QED
    BY <1>2, <1>3, <1>4, <1>7, <2>1 DEF ScopeOf, Each
<1>9. \A i \in DOMAIN t : t[i] \in ToSet(t) /\ t[i] \in ChildrenOf(r, s) /\ t[i] \in Present(r)
  BY <1>5, <1>6 DEF ToSet, ChildrenOf
<1>10. \A i \in DOMAIN f : Tiles(m, r, f[i], Tree(r, None, t[i]))
  <2> SUFFICES ASSUME NEW i \in DOMAIN t PROVE Tiles(m, r, f[i], Tree(r, None, t[i]))
    BY <1>7
  <2>1. PICK ns : ns = t[i]
    OBVIOUS
  <2>2. ns \in Present(r) /\ Tiles(m, r, S[ns], Under(r, None, ChildrenOf(r, ns)))
    BY <1>1, <1>9, <2>1
  <2>3. f[i] = HubPage(r, s, ns, S[ns])
    BY <1>4, <2>1
  <2> QED
    BY <2>1, <2>2, <2>3, HubPageTiles
<1>11. PICK x : x = FlattenSeq(f)
  OBVIOUS
<1>12. Tiles(m, r, x, Under(r, None, ToSet(t)))
  <2>1. PICK g : g = [i \in DOMAIN t |-> Tree(r, None, t[i])]
    OBVIOUS
  <2>2. \A i \in DOMAIN f : Tiles(m, r, f[i], g[i]) /\ g[i] \subseteq Under(r, None, ToSet(t))
    BY <1>7, <1>9, <1>10, <2>1 DEF Under
  <2>3. \A i \in DOMAIN f : \A j \in DOMAIN f : i # j => g[i] \intersect g[j] = {}
    <3> SUFFICES ASSUME NEW i \in DOMAIN t, NEW j \in DOMAIN t, i # j
                 PROVE  Tree(r, None, t[i]) \intersect Tree(r, None, t[j]) = {}
      BY <1>7, <2>1
    <3>1. t[i] # t[j]
      BY <1>6 DEF Once
    <3> QED
      BY <1>9, <3>1, SiblingsApart
  <2> QED
    BY <1>7, <1>11, <2>2, <2>3, TilesAll
<1>13. PICK M : M = {u \in ToSet(ms) : Kind(r, u) # "namespace"}
  OBVIOUS
<1>14. PICK y : y = MemberPages(r, s, ms)
  OBVIOUS
<1>15. Tiles(m, r, y, Under(r, None, M)) /\ M \subseteq Covered(m, r, y)
  BY <1>5, <1>13, <1>14, MemberPagesFit DEF Fits
<1>16. /\ M \intersect ToSet(t) = {} /\ M \subseteq ChildrenOf(r, s) /\ ToSet(t) \subseteq ChildrenOf(r, s)
  BY <1>5, <1>6, <1>13
<1>17. Under(r, None, ToSet(t)) \intersect Under(r, None, M) = {}
  BY <1>16, SiblingTrees
<1>18. Tiles(m, r, x \o y, Under(r, None, ToSet(t)) \union Under(r, None, M))
  BY <1>12, <1>15, <1>17, TilesBoth
<1>19. Under(r, None, ToSet(t)) \union Under(r, None, M) \subseteq Under(r, None, ChildrenOf(r, s))
  BY <1>16 DEF Under
<1>20. Tiles(m, r, x \o y, Under(r, None, ChildrenOf(r, s)))
  BY <1>18, <1>19, TilesMore
<1>21. IsList(x) /\ IsList(y)
  BY <1>12, <1>15 DEF Tiles
<1>22. ToSet(x \o y) = ToSet(x) \union ToSet(y)
  BY <1>21, AppendedList
<1>23. \A i \in DOMAIN f : IsList(f[i])
  BY <1>10 DEF Tiles
<1>24. ToSet(x) = UNION {ToSet(f[i]) : i \in DOMAIN f}
  BY <1>7, <1>11, <1>23, FlattenedList
<1>25. ASSUME NEW c \in ChildrenOf(r, s), Visible(m, r, c, None), Kind(r, c) # "namespace"
       PROVE  c \in Covered(m, r, x \o y)
  <2>1. c \in Covered(m, r, y)
    BY <1>5, <1>13, <1>15, <1>25
  <2>2. ToSet(y) \subseteq ToSet(x \o y)
    BY <1>22
  <2> QED
    BY <2>1, <2>2, CoveredMore
<1>26. ASSUME NEW c \in ChildrenOf(r, s), Visible(m, r, c, None), Kind(r, c) = "namespace"
       PROVE  ToSet(HubPage(r, s, c, S[c])) \subseteq ToSet(x \o y)
  <2>1. c \in ToSet(t)
    BY <1>5, <1>6, <1>26
  <2>2. PICK i \in DOMAIN t : c = t[i]
    BY <2>1 DEF ToSet
  <2>3. f[i] = HubPage(r, s, c, S[c]) /\ i \in DOMAIN f
    BY <1>4, <1>7, <2>2
  <2> QED
    BY <1>22, <1>24, <2>3
<1>27. S[s] = x \o y
  BY <1>8, <1>11, <1>14
<1> QED
  BY <1>1, <1>20, <1>25, <1>26, <1>27

\* The pages of s show all that is below s, nothing twice.
ScopeFits(m, r, s) == Tiles(m, r, ScopePages(m, r)[s], Under(r, None, ChildrenOf(r, s)))

\* So do those of every scope: by a least one of which it is not so.
LEMMA ScopesTile ==
    ASSUME NEW m, NEW r, IrOK(r)
    PROVE  \A s \in Present(r) \union {None} : ScopeFits(m, r, s)
<1> DEFINE S == Present(r) \union {None}
           W == {s \in S : ~ ScopeFits(m, r, s)}
<1>1. ASSUME NEW s \in S, ChildrenOf(r, s) \intersect W = {}
      PROVE  s \notin W
  <2>1. \A c \in ChildrenOf(r, s) : ScopeFits(m, r, c)
    BY <1>1 DEF ChildrenOf
  <2>2. ScopeFits(m, r, s)
    BY <2>1, ScopeTiles DEF ScopeFits
  <2> QED
    BY <2>2
<1>2. W \intersect Present(r) = {}
  <2> SUFFICES ASSUME W \intersect Present(r) # {} PROVE FALSE
    OBVIOUS
  <2> HIDE DEF W
  <2>1. PICK u \in W \intersect Present(r) : ChildrenOf(r, u) \intersect (W \intersect Present(r)) = {}
    BY DEF IrOK
  <2>2. ChildrenOf(r, u) \intersect W = {} /\ u \in S
    BY <2>1 DEF ChildrenOf
  <2> QED
    BY <1>1, <2>1, <2>2
<1>3. None \notin W
  <2> HIDE DEF W
  <2>1. ChildrenOf(r, None) \intersect W = {}
    BY <1>2 DEF ChildrenOf
  <2> QED
    BY <1>1, <2>1
<1> QED
  BY <1>2, <1>3

\* The pages of all scopes show no symbol twice, and leave none out.
LEMMA ScopeWalkTiles ==
    ASSUME NEW m, NEW r, IrOK(r)
    PROVE  Tiles(m, r, ScopePages(m, r)[None], Present(r)) /\ Complete(m, r, ScopePages(m, r)[None])
<1>1. PICK S : S = ScopePages(m, r)
  OBVIOUS
<1>2. PICK x : x = S[None]
  OBVIOUS
<1>3. \A s \in Present(r) \union {None} : ScopeFits(m, r, s)
  BY ScopesTile
<1>4. \A s \in Present(r) \union {None} : Tiles(m, r, S[s], Under(r, None, ChildrenOf(r, s)))
  BY <1>1, <1>3 DEF ScopeFits
<1>5. Tiles(m, r, x, Present(r))
  <2>1. Under(r, None, ChildrenOf(r, None)) \subseteq Present(r)
    BY DEF Under, Tree
  <2>2. Tiles(m, r, x, Under(r, None, ChildrenOf(r, None)))
    BY <1>2, <1>4
  <2> QED
    BY <2>1, <2>2, TilesMore
<1>6. \A s \in Present(r) \union {None} : \A c \in ChildrenOf(r, s) : Visible(m, r, c, None) =>
          /\ Kind(r, c) # "namespace" => c \in Covered(m, r, S[s])
          /\ Kind(r, c) = "namespace" => ToSet(HubPage(r, s, c, S[c])) \subseteq ToSet(S[s])
  <2> SUFFICES ASSUME NEW s \in Present(r) \union {None}
               PROVE  \A c \in ChildrenOf(r, s) : Visible(m, r, c, None) =>
                          /\ Kind(r, c) # "namespace" => c \in Covered(m, r, S[s])
                          /\ Kind(r, c) = "namespace" =>
                                 ToSet(HubPage(r, s, c, S[c])) \subseteq ToSet(S[s])
    OBVIOUS
  <2>1. \A c \in ChildrenOf(r, s) :
            Tiles(m, r, ScopePages(m, r)[c], Under(r, None, ChildrenOf(r, c)))
    BY <1>1, <1>4 DEF ChildrenOf
  <2> QED
    BY <1>1, <2>1, ScopeTiles
<1>7. \A p \in ToSet(x) : SymbolsOf(r, p) /\ p.file = None
  <2>1. Good("namespace", r, x)
    BY <1>1, <1>2, ScopePagesAreGood
  <2> QED
    BY <2>1 DEF Good, GoodPage
<1>8. PICK C : C = Covered(m, r, x)
  OBVIOUS
<1>9. C \subseteq AllShown(m, r, x)
      /\ \A v \in C : Container(r, v) => ToSet(Children(m, r, v, None)) \subseteq C
  BY <1>7, <1>8, CoveredIs
<1> DEFINE Inside(v) == /\ Kind(r, v) = "namespace"
                        /\ \E s \in Present(r) \union {None} :
                               ToSet(HubPage(r, s, v, S[v])) \subseteq ToSet(x)
           A == C \union {v \in Present(r) : Inside(v)}
<1>10. ASSUME NEW s \in Present(r) \union {None}, ToSet(S[s]) \subseteq ToSet(x),
              NEW c \in ChildrenOf(r, s), Visible(m, r, c, None)
       PROVE  c \in A
  <2>1. c \in Present(r)
    BY DEF ChildrenOf
  <2>2. CASE Kind(r, c) = "namespace"
    <3>1. ToSet(HubPage(r, s, c, S[c])) \subseteq ToSet(S[s])
      BY <1>6, <1>10, <2>2
    <3>2. Inside(c)
      BY <1>10, <2>2, <3>1
    <3> QED
      BY <2>1, <3>2
  <2>3. CASE Kind(r, c) # "namespace"
    <3>1. c \in Covered(m, r, S[s])
      BY <1>6, <1>10, <2>3
    <3>2. c \in C
      BY <1>8, <1>10, <3>1, CoveredMore
    <3> QED
      BY <3>2
  <2> QED
    BY <2>2, <2>3
<1>11. ASSUME NEW v \in Present(r), Visible(m, r, v, None), r.sym[v].parent = None
       PROVE  v \in A
  <2>1. v \in ChildrenOf(r, None)
    BY <1>11 DEF ChildrenOf
  <2> HIDE DEF A
  <2> QED
    BY <1>2, <1>10, <1>11, <2>1
<1>12. ASSUME NEW v \in Present(r), Inside(v)
       PROVE  /\ ToSet(S[v]) \subseteq ToSet(x)
              /\ Documented(r, v) => v \in AllShown(m, r, x)
  <2>1. PICK s \in Present(r) \union {None} : ToSet(HubPage(r, s, v, S[v])) \subseteq ToSet(x)
    BY <1>12
  <2>2. Tiles(m, r, S[v], Under(r, None, ChildrenOf(r, v)))
    BY <1>4
  <2>3. /\ ToSet(S[v]) \subseteq ToSet(HubPage(r, s, v, S[v]))
        /\ Documented(r, v) => v \in AllShown(m, r, HubPage(r, s, v, S[v]))
    BY <2>2, HubPageTiles
  <2>4. AllShown(m, r, HubPage(r, s, v, S[v])) \subseteq AllShown(m, r, x)
    BY <2>1, CoveredMore
  <2> QED
    BY <2>1, <2>3, <2>4
<1>13. ASSUME NEW v \in Present(r), v \in A, Container(r, v), NEW c \in ToSet(Children(m, r, v, None))
       PROVE  c \in A
  <2>1. CASE v \in C
    BY <1>9, <1>13, <2>1
  <2>2. CASE Inside(v)
    <3>1. c \in ChildrenOf(r, v) /\ Visible(m, r, c, None)
      BY <1>13, ChildrenAre
    <3>2. ToSet(S[v]) \subseteq ToSet(x)
      BY <1>12, <2>2
    <3> HIDE DEF A
    <3> QED
      BY <1>10, <3>1, <3>2
  <2> QED
    BY <1>13, <2>1, <2>2
<1>14. \A v \in Present(r) : Visible(m, r, v, None) /\ Kind(r, v) # "enumerator" => v \in A
  <2>1. \A v : InScope(r, v, None)
    BY DEF InScope
  <2> HIDE DEF A
  <2> QED
    BY <1>11, <1>13, <2>1, Reaching
<1>15. Complete(m, r, x)
  <2> SUFFICES ASSUME NEW v \in Present(r), Visible(m, r, v, None), Kind(r, v) # "enumerator"
               PROVE  v \in AllShown(m, r, x) \/ (Kind(r, v) = "namespace" /\ ~ Documented(r, v))
    BY DEF Complete
  <2>1. v \in C \/ Inside(v)
    BY <1>14
  <2>2. CASE v \in C
    BY <1>9, <2>2
  <2>3. CASE Inside(v)
    BY <1>12, <2>3
  <2> QED
    BY <2>1, <2>2, <2>3
<1> QED
  BY <1>1, <1>2, <1>5, <1>15

-----------------------------------------------------------------------------
(* All the pages of a project.                                              *)

\* Of what a mode is to show, the pages x leave nothing out.
AllDue(m, r, x) ==
    \A v \in Present(r) :
        /\ Visible(m, r, v, IF m.by = "file" THEN r.sym[v].file ELSE None)
        /\ Kind(r, v) # "enumerator"
        => v \in AllShown(m, r, x) \/ (Kind(r, v) = "namespace" /\ ~ Documented(r, v))

\* So it is with the pages of every grouping,
LEMMA OwnPagesTile ==
    ASSUME NEW m, NEW r, IrOK(r), m.by \in {"symbol", "file", "class", "namespace"}
    PROVE  Tiles(m, r, OwnPages(m, r), Present(r)) /\ AllDue(m, r, OwnPages(m, r))
<1>1. CASE m.by = "symbol"
  <2>1. PICK x : x = SymbolPages(m, r)
    OBVIOUS
  <2>2. /\ Tiles(m, r, x, Present(r))
        /\ \A v \in Present(r) : Visible(m, r, v, None) /\ Kind(r, v) # "enumerator" =>
               v \in Covered(m, r, x)
    BY <2>1, SymbolPagesTile
  <2>3. \A p \in ToSet(x) : SymbolsOf(r, p) /\ p.file = None
    <3>1. Good("symbol", r, x)
      BY <2>1, SymbolPagesAreGood
    <3> QED
      BY <3>1 DEF Good, GoodPage
  <2>4. Covered(m, r, x) \subseteq AllShown(m, r, x)
    BY <2>3, CoveredIs
  <2>5. OwnPages(m, r) = x
    BY <1>1, <2>1 DEF OwnPages
  <2>6. AllDue(m, r, x)
    BY <1>1, <2>2, <2>4 DEF AllDue
  <2> QED
    BY <2>2, <2>5, <2>6
<1>2. CASE m.by = "file"
  <2>1. PICK x : x = FilePages(m, r)
    OBVIOUS
  <2>2. /\ Tiles(m, r, x, Present(r))
        /\ \A v \in Present(r) : Visible(m, r, v, r.sym[v].file) /\ Kind(r, v) # "enumerator" =>
               v \in Covered(m, r, x)
    BY <2>1, FilePagesTile
  <2>3. \A i \in DOMAIN x : SymbolsOf(r, x[i])
    <3>1. Good("file", r, x)
      BY <2>1, FilePagesAreGood
    <3> QED
      BY <3>1 DEF Good, GoodPage, ToSet
  <2>4. \A i \in DOMAIN x : DeepShows(m, r, x[i]) \subseteq ShowsOf(m, r, x[i])
    <3> SUFFICES ASSUME NEW i \in DOMAIN x
                 PROVE  DeepShows(m, r, x[i]) \subseteq ShowsOf(m, r, x[i])
      OBVIOUS
    <3>1. SymbolsOf(r, x[i])
      BY <2>3
    <3> QED
      BY <3>1, RenderedParts
  <2>5. Covered(m, r, x) \subseteq AllShown(m, r, x)
    BY <2>4 DEF Covered, AllShown
  <2>6. OwnPages(m, r) = x
    BY <1>2, <2>1 DEF OwnPages
  <2>7. AllDue(m, r, x)
    BY <1>2, <2>2, <2>5 DEF AllDue
  <2> QED
    BY <2>2, <2>6, <2>7
<1>3. CASE m.by = "class"
  <2>1. PICK x : x = ClassWalk(m, r)
    OBVIOUS
  <2>2. Tiles(m, r, x, Present(r)) /\ Complete(m, r, x)
    BY <2>1, ClassWalkTiles
  <2>3. OwnPages(m, r) = x
    BY <1>3, <2>1 DEF OwnPages, ClassWalk
  <2>4. AllDue(m, r, x)
    BY <1>3, <2>2 DEF AllDue, Complete
  <2> QED
    BY <2>2, <2>3, <2>4
<1>4. CASE m.by = "namespace"
  <2>1. PICK x : x = ScopePages(m, r)[None]
    OBVIOUS
  <2>2. Tiles(m, r, x, Present(r)) /\ Complete(m, r, x)
    BY <2>1, ScopeWalkTiles
  <2>3. OwnPages(m, r) = x
    BY <1>4, <2>1 DEF OwnPages
  <2>4. AllDue(m, r, x)
    BY <1>4, <2>2 DEF AllDue, Complete
  <2> QED
    BY <2>2, <2>3, <2>4
<1> QED
  BY <1>1, <1>2, <1>3, <1>4

\* and of all that is walked: the pages of the groups render no symbol.
LEMMA WalkTiles ==
    ASSUME NEW m, NEW r, IrOK(r), m.by \in {"symbol", "file", "class", "namespace"}
    PROVE  Tiles(m, r, WalkPages(m, r), Present(r)) /\ AllDue(m, r, WalkPages(m, r))
<1>1. PICK x : x = OwnPages(m, r)
  OBVIOUS
<1>2. PICK y : y = GroupPages(r)
  OBVIOUS
<1>3. WalkPages(m, r) = x \o y
  BY <1>1, <1>2 DEF WalkPages, OwnPages
<1>4. Tiles(m, r, x, Present(r)) /\ AllDue(m, r, x)
  BY <1>1, OwnPagesTile
<1>5. IsList(y) /\ \A p \in ToSet(y) : IsGroupPage(r, p)
  BY <1>2, GroupPagesAre
<1>6. \A i \in DOMAIN y : RenderedBy(m, r, y[i]) = <<>>
  <2> SUFFICES ASSUME NEW i \in DOMAIN y PROVE RenderedBy(m, r, y[i]) = <<>>
    OBVIOUS
  <2>1. PICK p : p = y[i]
    OBVIOUS
  <2>2. IsGroupPage(r, p)
    BY <1>5, <2>1 DEF ToSet
  <2>3. p.deep = <<>> /\ p.shallow = <<>>
    BY <2>2, GroupPageIs
  <2>4. RenderedBy(m, r, p) = <<>>
    <3>1. Once(p.deep) /\ Once(p.shallow) /\ ToSet(p.deep) = {} /\ ToSet(p.shallow) = {}
      BY <2>3, OnceFew DEF ToSet
    <3>2. SymbolsOf(r, p)
      BY <3>1 DEF SymbolsOf, Once
    <3>3. IsList(RenderedBy(m, r, p)) /\ ShowsOf(m, r, p) = {}
      <4>1. DeepShows(m, r, p) = {}
        BY <3>1 DEF DeepShows
      <4> QED
        BY <3>1, <3>2, <4>1, RenderedParts, RenderedIs
    <3> QED
      BY <3>3, ListFacts DEF ShowsOf
  <2> QED
    BY <2>1, <2>4
<1>7. Tiles(m, r, y, {})
  <2>1. \A i \in DOMAIN y : Once(RenderedBy(m, r, y[i])) /\ ShowsOf(m, r, y[i]) = {}
    BY <1>6, OnceFew DEF ShowsOf, ToSet
  <2> QED
    BY <1>5, <2>1 DEF Tiles
<1>8. Tiles(m, r, x \o y, Present(r))
  <2>1. Tiles(m, r, x \o y, Present(r) \union {})
    BY <1>4, <1>7, TilesBoth
  <2> QED
    BY <2>1
<1>9. AllShown(m, r, x) \subseteq AllShown(m, r, x \o y)
  <2>1. IsList(x)
    BY <1>4 DEF Tiles
  <2>2. ToSet(x) \subseteq ToSet(x \o y)
    BY <1>5, <2>1, AppendedList
  <2> QED
    BY <2>2, CoveredMore
<1>10. AllDue(m, r, x \o y)
  BY <1>4, <1>9 DEF AllDue
<1> QED
  BY <1>3, <1>8, <1>10

\* By project and IR, what each page of a plan renders.
PagesShow(m, r) == Each(PlanPages(m, r), LAMBDA q : RenderedBy(m, r, q.page))

\* What the pages show, a page at a time.
LEMMA ShownByAre ==
    ASSUME NEW c \in DOMAIN Modes, NEW p \in DOMAIN Projects, NEW b \in DOMAIN Projects[p]
    PROVE  ShownBy[c][p][b] = PagesShow(Modes[c], Projects[p][b])
<1>1. IsList(Modes) /\ IsList(Projects) /\ IsList(Projects[p])
  <2>1. Projects[p] \in Seq(Irs)
    BY PagesAssumption
  <2> QED
    BY <2>1, PagesAssumption, SequenceIsList
<1> DEFINE R(m, r) == PagesShow(m, r)
           F(m, s) == [i \in DOMAIN s |-> R(m, s[i])]
           G(m) == [i \in DOMAIN Projects |-> <<>> \o F(m, Projects[i])]
           H == [i \in DOMAIN Modes |-> <<>> \o G(Modes[i])]
<1>2. ShownBy = <<>> \o H
  BY DEF ShownBy, ForAll, Each, PagesShow
<1> HIDE DEF R
<1>3. <<>> \o H = H
  <2> HIDE DEF G
  <2> QED
    BY <1>1, EachIsList
<1>4. H[c] = <<>> \o G(Modes[c])
  OBVIOUS
<1>5. <<>> \o G(Modes[c]) = G(Modes[c])
  <2> HIDE DEF F
  <2> QED
    BY <1>1, EachIsList
<1>6. G(Modes[c])[p] = <<>> \o F(Modes[c], Projects[p])
  OBVIOUS
<1>7. <<>> \o F(Modes[c], Projects[p]) = F(Modes[c], Projects[p])
  BY <1>1, EachIsList
<1>8. F(Modes[c], Projects[p])[b] = R(Modes[c], Projects[p][b])
  OBVIOUS
<1> HIDE DEF F, G, H
<1>9. ShownBy[c][p][b] = R(Modes[c], Projects[p][b])
  BY <1>2, <1>3, <1>4, <1>5, <1>6, <1>7, <1>8
<1> QED
  BY <1>9 DEF R

\* How often something occurs in a list in which nothing occurs twice.
LEMMA TimesAre ==
    ASSUME NEW x, Once(x), NEW v
    PROVE  /\ Cardinality({i \in DOMAIN x : x[i] = v}) \in {0, 1}
           /\ v \in ToSet(x) => Cardinality({i \in DOMAIN x : x[i] = v}) = 1
<1>1. PICK P : P = {i \in DOMAIN x : x[i] = v}
  OBVIOUS
<1>2. CASE v \in ToSet(x)
  <2>1. PICK i \in DOMAIN x : x[i] = v
    BY <1>2 DEF ToSet
  <2>2. P = {i}
    BY <1>1, <2>1 DEF Once
  <2>3. Cardinality(P) = 1
    BY <2>2, FS_Singleton
  <2> QED
    BY <1>1, <2>3
<1>3. CASE v \notin ToSet(x)
  <2>1. P = {}
    BY <1>1, <1>3 DEF ToSet
  <2>2. Cardinality(P) = 0
    BY <2>1, FS_EmptySet
  <2> QED
    BY <1>1, <1>3, <2>2
<1> QED
  BY <1>2, <1>3

\* What the pages of the last build show: no symbol twice, and all that are to be shown.
LEMMA ShownAre ==
    ASSUME TypeInv, built # 0
    PROVE  /\ Once(FlattenSeq(shown))
           /\ \A u \in Present(ir) : Due(u) /\ Kind(ir, u) # "enumerator" =>
                  u \in ToSet(FlattenSeq(shown)) \/ (Kind(ir, u) = "namespace" /\ ~ Documented(ir, u))
<1>1. /\ config \in DOMAIN Modes /\ project \in DOMAIN Projects
      /\ built \in DOMAIN Projects[project]
  BY DEF TypeInv
<1>2. PICK m : m = mode
  OBVIOUS
<1>3. PICK r : r = ir
  OBVIOUS
<1>4. m.by \in {"symbol", "file", "class", "namespace"} /\ IrOK(r)
  BY <1>1, <1>2, <1>3, PlansAre DEF mode, ir
<1>5. PICK walk : walk = WalkPages(m, r)
  OBVIOUS
<1>6. IsList(walk)
  BY <1>4, <1>5, WalkIs
<1>7. PICK f : f = [i \in DOMAIN walk |-> RenderedBy(m, r, walk[i])]
  OBVIOUS
<1>8. shown = f
  <2>1. shown = PagesShow(m, r)
    BY <1>1, <1>2, <1>3, ShownByAre DEF shown, mode, ir
  <2>2. PICK plan : plan = PlanPages(m, r)
    OBVIOUS
  <2>3. plan = Stemmed(walk)
    BY <1>5, <2>2 DEF PlanPages
  <2>4. DOMAIN plan = DOMAIN walk /\ \A i \in DOMAIN walk : plan[i].page = walk[i]
    BY <1>6, <2>3, StemmedIs, WalkOfPlan
  <2>5. [i \in DOMAIN plan |-> RenderedBy(m, r, plan[i].page)] = f
    BY <1>7, <2>4
  <2>6. <<>> \o f = f
    BY <1>6, <1>7, EachIsList
  <2> QED
    BY <2>1, <2>2, <2>5, <2>6 DEF Each, PagesShow
<1>9. Tiles(m, r, walk, Present(r)) /\ AllDue(m, r, walk)
  BY <1>4, <1>5, WalkTiles
<1>10. Once(FlattenSeq(f)) /\ ToSet(FlattenSeq(f)) = AllShown(m, r, walk)
  BY <1>7, <1>9, TilesShowOnce DEF AllShown
<1>11. \A u \in Present(r) : Due(u) /\ Kind(r, u) # "enumerator" =>
           u \in AllShown(m, r, walk) \/ (Kind(r, u) = "namespace" /\ ~ Documented(r, u))
  BY <1>2, <1>3, <1>9 DEF AllDue, Due
<1> QED
  BY <1>3, <1>8, <1>10, <1>11

\* So every symbol is shown once.
LEMMA ShownOnce == TypeInv => EachOnce
<1> SUFFICES ASSUME TypeInv, built # 0
             PROVE  LET all == FlattenSeq(shown)
                        Times(u) == Cardinality({i \in DOMAIN all : all[i] = u})
                    IN  \A u \in Present(ir) :
                            /\ Times(u) <= 1
                            /\ Due(u) /\ Kind(ir, u) # "enumerator" =>
                                   Times(u) = 1 \/ (Kind(ir, u) = "namespace" /\ ~Documented(ir, u))
  BY DEF EachOnce
<1>1. PICK all : all = FlattenSeq(shown)
  OBVIOUS
<1>2. Once(all)
  BY <1>1, ShownAre
<1>3. \A u \in Present(ir) : Due(u) /\ Kind(ir, u) # "enumerator" =>
          u \in ToSet(all) \/ (Kind(ir, u) = "namespace" /\ ~ Documented(ir, u))
  BY <1>1, ShownAre
<1> DEFINE Times(u) == Cardinality({i \in DOMAIN all : all[i] = u})
<1>4. \A u : Times(u) \in {0, 1} /\ (u \in ToSet(all) => Times(u) = 1)
  BY <1>2, TimesAre
<1> HIDE DEF Times
<1>5. \A u \in Present(ir) :
          /\ Times(u) <= 1
          /\ Due(u) /\ Kind(ir, u) # "enumerator" =>
                 Times(u) = 1 \/ (Kind(ir, u) = "namespace" /\ ~Documented(ir, u))
  BY <1>3, <1>4
<1> QED
  BY <1>1, <1>5 DEF Times

\* Under every grouping each symbol that is to be shown is rendered on one page, once.
THEOREM SymbolsAreShownOnce == Spec => []EachOnce
BY TypeInit, TypeStep, ShownOnce, PTL DEF Spec

-----------------------------------------------------------------------------
(* Pages are listed by later ones.                                          *)

\* Pages, in order, that s lists (the index, where s is None), or that the hub of
\* the namespace they are in, a later page, lists.
HubOf(p, s) == p.id[1] = "hub" /\ p.id[2] = s
Hung(x, s) == /\ IsList(x)
              /\ \A i \in DOMAIN x : \/ x[i].up = s
                                     \/ \E j \in DOMAIN x : i < j /\ HubOf(x[j], x[i].up)

\* Such lists are put together: of two,
LEMMA HungBoth ==
    ASSUME NEW s, NEW x, NEW y, Hung(x, s), Hung(y, s)
    PROVE  Hung(x \o y, s)
<1>1. IsList(x) /\ IsList(y)
  BY DEF Hung
<1> DEFINE T == ToSet(x) \union ToSet(y)
<1>2. x \in Seq(T) /\ y \in Seq(T)
  BY <1>1, ListOver
<1>3. PICK z : z = x \o y
  OBVIOUS
<1>4. IsList(z) /\ Len(z) \in Nat /\ DOMAIN z = 1..Len(z)
  BY <1>1, <1>3, AppendedList, ListFacts
<1>5. Made(z, x, y)
  BY <1>2, <1>3, Halves
<1>6. DOMAIN x = 1..Len(x) /\ DOMAIN y = 1..Len(y)
  BY <1>1, ListFacts
<1>7. PICK k \in Nat : k = Len(x)
  BY <1>5 DEF Made
<1>8. /\ \A i \in DOMAIN x : i \in DOMAIN z /\ z[i] = x[i]
      /\ \A i \in DOMAIN y : k + i \in DOMAIN z /\ z[k + i] = y[i]
      /\ \A i \in DOMAIN z : i \in DOMAIN x \/ \E j \in DOMAIN y : i = k + j
  <2>1. PICK n \in Nat : n = Len(y)
    BY <1>5 DEF Made
  <2>2. DOMAIN z = 1..(k + n) /\ DOMAIN x = 1..k /\ DOMAIN y = 1..n
    BY <1>4, <1>5, <1>6, <1>7, <2>1 DEF Made
  <2>3. \A i \in 1..(k + n) : i \in 1..k \/ \E j \in 1..n : i = k + j
    <3> SUFFICES ASSUME NEW i \in 1..(k + n), i \notin 1..k PROVE \E j \in 1..n : i = k + j
      OBVIOUS
    <3>1. i - k \in 1..n /\ i = k + (i - k)
      OBVIOUS
    <3> QED
      BY <3>1
  <2>4. \A i \in 1..k : i \in 1..(k + n)
    OBVIOUS
  <2>5. \A i \in 1..n : k + i \in 1..(k + n)
    OBVIOUS
  <2>6. (\A i \in 1..k : z[i] = x[i]) /\ (\A i \in 1..n : z[k + i] = y[i])
    BY <1>5, <1>7, <2>1 DEF Made
  <2> QED
    BY <2>2, <2>3, <2>4, <2>5, <2>6
<1>9. ASSUME NEW i \in DOMAIN z
      PROVE  z[i].up = s \/ \E j \in DOMAIN z : i < j /\ HubOf(z[j], z[i].up)
  <2>1. CASE i \in DOMAIN x
    BY <1>8, <2>1 DEF Hung
  <2>2. CASE \E j \in DOMAIN y : i = k + j
    <3>1. PICK j \in DOMAIN y : i = k + j
      BY <2>2
    <3>2. z[i] = y[j] /\ j \in Nat
      BY <1>6, <1>8, <3>1
    <3>3. CASE \E l \in DOMAIN y : j < l /\ HubOf(y[l], y[j].up)
      <4>1. PICK l \in DOMAIN y : j < l /\ HubOf(y[l], y[j].up)
        BY <3>3
      <4>2. l \in Nat /\ k + l \in DOMAIN z /\ z[k + l] = y[l]
        BY <1>6, <1>8
      <4> QED
        BY <3>1, <3>2, <4>1, <4>2
    <3> QED
      BY <3>2, <3>3 DEF Hung
  <2> QED
    BY <1>8, <2>1, <2>2
<1> QED
  BY <1>3, <1>4, <1>9 DEF Hung

\* and of many.
LEMMA HungAll ==
    ASSUME NEW s, NEW f, IsList(f), \A i \in DOMAIN f : Hung(f[i], s)
    PROVE  Hung(FlattenSeq(f), s)
<1>1. \A i \in DOMAIN f : IsList(f[i])
  BY DEF Hung
<1>2. PICK c : c = FlattenSeq(f)
  OBVIOUS
<1>3. IsList(c) /\ DOMAIN c = 1..Len(c) /\ Len(c) \in Nat
  BY <1>1, <1>2, FlattenedList, ListFacts
<1>4. PICK n \in Nat : n = Len(f) /\ DOMAIN f = 1..n
  BY ListFacts
<1>5. PICK a, b : Cut(c, f, n, a, b)
  BY <1>1, <1>2, <1>4, FlattenedPlaces
<1>6. ASSUME NEW k \in DOMAIN c
      PROVE  c[k].up = s \/ \E l \in DOMAIN c : k < l /\ HubOf(c[l], c[k].up)
  <2>1. PICK i, j : i \in 1..n /\ a[k] = i /\ b[k] = j /\ j \in DOMAIN f[i] /\ c[k] = f[i][j]
    BY <1>5 DEF Cut
  <2>2. IsList(f[i]) /\ Hung(f[i], s)
    BY <1>1, <1>4, <2>1
  <2>3. CASE \E h \in DOMAIN f[i] : j < h /\ HubOf(f[i][h], f[i][j].up)
    <3>1. PICK h \in DOMAIN f[i] : j < h /\ HubOf(f[i][h], f[i][j].up)
      BY <2>3
    <3>2. PICK l \in DOMAIN c : a[l] = i /\ b[l] = h
      BY <1>5, <2>1, <3>1 DEF Cut
    <3>3. c[l] = f[i][h]
      BY <1>5, <3>2 DEF Cut
    <3>4. j \in Nat /\ h \in Nat /\ k \in Nat /\ l \in Nat
      <4>1. PICK d : d = f[i] /\ IsList(d)
        BY <2>2
      <4>2. DOMAIN d = 1..Len(d)
        BY <4>1, ListFacts
      <4> QED
        BY <1>3, <2>1, <3>1, <4>1, <4>2
    <3>5. k # l
      BY <2>1, <3>1, <3>2, <3>4
    <3>6. ~ (l < k)
      <4> SUFFICES ASSUME l < k PROVE FALSE
        OBVIOUS
      <4>1. a[l] < a[k] \/ (a[l] = a[k] /\ b[l] < b[k])
        BY <1>5 DEF Cut
      <4> QED
        BY <2>1, <3>1, <3>2, <3>4, <4>1
    <3> QED
      BY <2>1, <3>1, <3>3, <3>4, <3>5, <3>6
  <2> QED
    BY <2>1, <2>2, <2>3 DEF Hung
<1> QED
  BY <1>2, <1>3, <1>6 DEF Hung

\* A hub lists what is below it.
LEMMA HubHangs ==
    ASSUME NEW r, NEW s, NEW ns, NEW below, Hung(below, ns)
    PROVE  Hung(HubPage(r, s, ns, below), s)
<1> DEFINE own == [Page(<<"hub", ns>>, r.sym[ns].path, <<>>)
                      EXCEPT !.shallow = <<ns>>, !.up = s, !.entry = <<Spelling(r, ns)>>]
<1>1. HubPage(r, s, ns, below) = below \o IF HubKept(r, ns, below) THEN <<own>> ELSE <<>>
  BY DEF HubPage
<1>2. own.id = <<"hub", ns>> /\ own.up = s
  BY DEF Page
<1>3. HubOf(own, ns)
  BY <1>2 DEF HubOf
<1> HIDE DEF own
<1>4. IsList(below)
  BY DEF Hung
<1>5. CASE ~ HubKept(r, ns, below)
  <2>1. below = <<>>
    BY <1>5 DEF HubKept
  <2>2. HubPage(r, s, ns, below) = <<>>
    BY <1>1, <1>5, <2>1
  <2>3. IsList(<<>>) /\ DOMAIN <<>> = {}
    BY ShortLists
  <2> QED
    BY <2>2, <2>3 DEF Hung
<1>6. CASE HubKept(r, ns, below)
  <2>1. PICK y : y = <<own>>
    OBVIOUS
  <2>2. IsList(y) /\ DOMAIN y = {1} /\ Len(y) = 1 /\ y[1] = own
    BY <2>1, ShortLists
  <2>3. PICK z : z = below \o y
    OBVIOUS
  <2>4. IsList(z) /\ DOMAIN z = 1..Len(z)
    BY <1>4, <2>2, <2>3, AppendedList, ListFacts
  <2> DEFINE T == ToSet(below) \union ToSet(y)
  <2>5. below \in Seq(T) /\ y \in Seq(T)
    BY <1>4, <2>2, ListOver
  <2>6. Made(z, below, y)
    BY <2>3, <2>5, Halves
  <2>7. PICK k \in Nat : k = Len(below) /\ DOMAIN below = 1..k
    BY <1>4, ListFacts
  <2>8. /\ DOMAIN z = 1..(k + 1) /\ z[k + 1] = own
        /\ \A i \in 1..k : z[i] = below[i]
    BY <2>2, <2>4, <2>6, <2>7 DEF Made
  <2>9. ASSUME NEW i \in DOMAIN z
        PROVE  z[i].up = s \/ \E j \in DOMAIN z : i < j /\ HubOf(z[j], z[i].up)
    <3>1. CASE i = k + 1
      BY <1>2, <2>8, <3>1
    <3>2. CASE i \in 1..k
      <4>1. \/ below[i].up = ns
            \/ \E j \in 1..k : i < j /\ HubOf(below[j], below[i].up)
        BY <2>7, <3>2 DEF Hung
      <4>2. k + 1 \in DOMAIN z /\ i < k + 1 /\ 1..k \subseteq DOMAIN z
        BY <2>8, <3>2
      <4> QED
        BY <1>3, <2>8, <3>2, <4>1, <4>2
    <3> QED
      BY <2>8, <3>1, <3>2
  <2> QED
    BY <1>1, <1>6, <2>1, <2>3, <2>4, <2>9 DEF Hung
<1> QED
  BY <1>5, <1>6

\* The pages of a scope hang together, by a least one of which it is not so.
LEMMA ScopesHang ==
    ASSUME NEW m, NEW r, IrOK(r)
    PROVE  \A s \in Present(r) \union {None} : Hung(ScopePages(m, r)[s], s)
<1> DEFINE S == Present(r) \union {None}
           W == {s \in S : ~ Hung(ScopePages(m, r)[s], s)}
<1>1. ASSUME NEW s \in S, ChildrenOf(r, s) \intersect W = {}
      PROVE  s \notin W
  <2> DEFINE t == Namespaces(r, Members(m, r, s))
             f == [i \in DOMAIN t |-> HubPage(r, s, t[i], ScopePages(m, r)[t[i]])]
  <2>1. ScopePages(m, r)[s] = ScopeOf(m, r, ScopePages(m, r), s)
    BY ScopePagesAre
  <2>2. ScopePages(m, r)[s] = FlattenSeq(<<>> \o f) \o MemberPages(r, s, Members(m, r, s))
    BY <2>1 DEF ScopeOf, Each
  <2>3. IsList(t) /\ ToSet(t) \subseteq ChildrenOf(r, s)
    BY NamespacesAre
  <2> HIDE DEF t
  <2>4. \A i \in DOMAIN t : Hung(ScopePages(m, r)[t[i]], t[i])
    BY <1>1, <2>3 DEF ToSet, ChildrenOf
  <2>5. \A i \in DOMAIN t : Hung(f[i], s)
    BY <2>4, HubHangs
  <2>6. IsList(f) /\ <<>> \o f = f /\ DOMAIN f = DOMAIN t
    BY <2>3, EachIsList
  <2> HIDE DEF f
  <2>7. Hung(FlattenSeq(f), s)
    BY <2>5, <2>6, HungAll
  <2>8. IsList(Members(m, r, s)) /\ ToSet(Members(m, r, s)) \subseteq ChildrenOf(r, s)
    BY MembersAre
  <2>9. PICK x : x = MemberPages(r, s, Members(m, r, s))
    OBVIOUS
  <2>10. GoodAt(r, s, x)
    BY <2>8, <2>9, MemberPagesAreGood
  <2>11. Hung(x, s)
    BY <2>10 DEF GoodAt, GoodPageAt, Hung, ToSet
  <2>12. Hung(ScopePages(m, r)[s], s)
    BY <2>2, <2>6, <2>7, <2>9, <2>11, HungBoth
  <2> QED
    BY <2>12
<1>2. W \intersect Present(r) = {}
  <2> SUFFICES ASSUME W \intersect Present(r) # {} PROVE FALSE
    OBVIOUS
  <2> HIDE DEF W
  <2>1. PICK u \in W \intersect Present(r) : ChildrenOf(r, u) \intersect (W \intersect Present(r)) = {}
    BY DEF IrOK
  <2>2. ChildrenOf(r, u) \intersect W = {} /\ u \in S
    BY <2>1 DEF ChildrenOf
  <2> QED
    BY <1>1, <2>1, <2>2
<1>3. None \notin W
  <2> HIDE DEF W
  <2>1. ChildrenOf(r, None) \intersect W = {}
    BY <1>2 DEF ChildrenOf
  <2> QED
    BY <1>1, <2>1
<1> QED
  BY <1>2, <1>3

\* The pages of a grouping hang together below the index,
LEMMA OwnPagesHang ==
    ASSUME NEW m, NEW r, IrOK(r), m.by \in {"symbol", "file", "class", "namespace"}
    PROVE  Hung(OwnPages(m, r), None)
<1>1. CASE m.by = "namespace"
  BY <1>1, ScopesHang DEF OwnPages
<1>2. CASE m.by # "namespace"
  <2>1. PICK x : x = OwnPages(m, r)
    OBVIOUS
  <2>2. Good(m.by, r, x)
    BY <2>1, OwnPagesAreGood
  <2>3. \A p \in ToSet(x) : p.up = None
    BY <1>2, <2>2 DEF Good, GoodPage, Placed
  <2> QED
    BY <2>1, <2>2, <2>3 DEF Good, Hung, ToSet
<1> QED
  BY <1>1, <1>2

\* and with them those of the groups.
LEMMA WalkHangs ==
    ASSUME NEW m, NEW r, IrOK(r), m.by \in {"symbol", "file", "class", "namespace"}
    PROVE  Hung(WalkPages(m, r), None)
<1>1. PICK x : x = OwnPages(m, r)
  OBVIOUS
<1>2. PICK y : y = GroupPages(r)
  OBVIOUS
<1>3. WalkPages(m, r) = x \o y
  BY <1>1, <1>2 DEF WalkPages, OwnPages
<1>4. Hung(x, None)
  BY <1>1, OwnPagesHang
<1>5. IsList(y) /\ \A p \in ToSet(y) : IsGroupPage(r, p)
  BY <1>2, GroupPagesAre
<1>6. \A p \in ToSet(y) : p.up = None
  BY <1>5 DEF IsGroupPage, Page
<1>7. Hung(y, None)
  BY <1>5, <1>6 DEF Hung, ToSet
<1> QED
  BY <1>3, <1>4, <1>7, HungBoth

\* Each group has its page.
LEMMA GroupsHavePages ==
    ASSUME NEW r, IrOK(r), NEW g \in ToSet(GroupsOf(r))
    PROVE  \E p \in ToSet(GroupPages(r)) : p.id = <<"group", g>>
<1> DEFINE all == GroupsOf(r)
           I == {i \in DOMAIN all : r.grp[all[i]].parent = None}
           J == {i \in DOMAIN all : r.grp[all[i]].parent # None}
           t == Chosen(all, I) \o Chosen(all, J)
           f == [i \in DOMAIN t |-> Page(<<"group", t[i]>>, <<GroupName(t[i])>>, <<>>)]
<1>1. GroupPages(r) = <<>> \o f
  BY DEF GroupPages, Each, Those
<1>2. PICK i \in DOMAIN all : all[i] = g
  BY DEF ToSet
<1>3. IsList(t) /\ g \in ToSet(t)
  <2>1. i \in I \/ i \in J
    OBVIOUS
  <2> HIDE DEF I, J, all
  <2>2. IsList(all)
    BY GroupsAre DEF all
  <2>3. IsList(Chosen(all, I)) /\ ToSet(Chosen(all, I)) = {all[k] : k \in I \intersect DOMAIN all}
    BY <2>2, ChosenList
  <2>4. IsList(Chosen(all, J)) /\ ToSet(Chosen(all, J)) = {all[k] : k \in J \intersect DOMAIN all}
    BY <2>2, ChosenList
  <2>5. IsList(t) /\ ToSet(t) = ToSet(Chosen(all, I)) \union ToSet(Chosen(all, J))
    BY <2>3, <2>4, AppendedList
  <2> QED
    BY <1>2, <2>1, <2>3, <2>4, <2>5
<1> HIDE DEF t, all
<1>4. PICK k \in DOMAIN t : t[k] = g
  BY <1>3 DEF ToSet
<1>5. PICK p : p = f[k]
  OBVIOUS
<1>6. p.id = <<"group", g>>
  BY <1>4, <1>5 DEF Page
<1>7. f = [j \in DOMAIN t |-> f[j]]
  OBVIOUS
<1> HIDE DEF f
<1>8. <<>> \o f = f /\ ToSet(f) = {f[j] : j \in DOMAIN t}
  BY <1>3, <1>7, EachIsList
<1> QED
  BY <1>1, <1>4, <1>5, <1>6, <1>8

\* Two hubs are for different namespaces: each shows its own.
LEMMA HubsApart ==
    ASSUME NEW m, NEW r, IrOK(r), m.by \in {"symbol", "file", "class", "namespace"}
    PROVE  \A i, j \in DOMAIN WalkPages(m, r) : \A s :
               HubOf(WalkPages(m, r)[i], s) /\ HubOf(WalkPages(m, r)[j], s) => i = j /\ s # None
<1>1. PICK walk : walk = WalkPages(m, r)
  OBVIOUS
<1>2. \A p \in ToSet(walk) : GoodPage(m.by, r, p) \/ IsGroupPage(r, p)
  BY <1>1, WalkIs
<1>3. ASSUME NEW i \in DOMAIN walk, NEW s, HubOf(walk[i], s)
      PROVE  s \in ShowsOf(m, r, walk[i]) /\ s # None
  <2>1. PICK p : p = walk[i] /\ p \in ToSet(walk)
    BY DEF ToSet
  <2>2. p.id[1] = "hub" /\ p.id[2] = s
    BY <1>3, <2>1 DEF HubOf
  <2>3. ~ IsGroupPage(r, p)
    <3> SUFFICES ASSUME IsGroupPage(r, p) PROVE FALSE
      OBVIOUS
    <3>1. p.id[1] = "group"
      BY GroupPageIs
    <3> QED
      BY <2>2, <3>1
  <2>4. GoodPage(m.by, r, p)
    BY <1>2, <2>1, <2>3
  <2>5. SymbolsOf(r, p) /\ p.shallow = <<s>>
    BY <2>2, <2>4 DEF GoodPage, Placed
  <2>6. ToSet(p.shallow) = {s} /\ ToSet(p.shallow) \subseteq Present(r)
    BY <2>5, ShortLists DEF SymbolsOf
  <2>7. ToSet(p.shallow) \subseteq ShowsOf(m, r, p)
    BY <2>5, RenderedParts
  <2>8. s \in Usrs
    BY <2>6 DEF IrOK, Present
  <2> QED
    BY <2>1, <2>6, <2>7, <2>8, PagesAssumption
<1>4. \A i \in DOMAIN walk : \A j \in DOMAIN walk :
          i # j => ShowsOf(m, r, walk[i]) \intersect ShowsOf(m, r, walk[j]) = {}
  BY <1>1, WalkTiles DEF Tiles
<1> QED
  BY <1>1, <1>3, <1>4

\* A plan's pages have stems of their own, none of them the root document's.
OwnStems(plan) ==
    /\ IsList(plan) /\ \A i \in DOMAIN plan : plan[i].stem # Reserved
    /\ \A i, j \in DOMAIN plan : plan[i].stem = plan[j].stem => i = j

\* The pages that s lists: a namespace, in its hub, or none, in the index.
HungUnder(plan, s) == {i \in DOMAIN plan : plan[i].page.up = s}

\* What a page lists.
HungOn(plan, i) == LET p == plan[i].page
                  IN  IF p.id[1] = "hub" THEN HungUnder(plan, p.id[2]) ELSE {}

\* A plan hangs together: under stems of their own, each page is listed by the
\* index or by a later page, and by no other.
Hangs(plan) ==
    /\ OwnStems(plan)
    /\ \A i \in DOMAIN plan :
           \/ plan[i].page.up = None
           \/ \E j \in DOMAIN plan : i < j /\ i \in HungOn(plan, j)
    /\ \A i, j, k \in DOMAIN plan :
           k \in HungOn(plan, i) => plan[k].page.up # None /\ (k \in HungOn(plan, j) => i = j)

\* Every group has its page in a plan.
GroupsPaged(r, plan) ==
    \A g \in ToSet(GroupsOf(r)) : \E i \in DOMAIN plan : plan[i].page.id = <<"group", g>>

\* So does every plan, and each group has its page there.
LEMMA PlanHangs ==
    ASSUME NEW m, NEW r, IrOK(r), m.by \in {"symbol", "file", "class", "namespace"},
           NEW plan, plan = PlanPages(m, r)
    PROVE  Hangs(plan) /\ GroupsPaged(r, plan)
<1>1. PICK walk : walk = WalkPages(m, r)
  OBVIOUS
<1>2. IsList(walk)
  BY <1>1, WalkIs
<1>3. plan = Stemmed(walk)
  BY <1>1 DEF PlanPages
<1>4. IsList(plan) /\ DOMAIN plan = DOMAIN walk
  BY <1>2, <1>3, StemmedIs
<1>5. \A i \in DOMAIN plan : plan[i].page = walk[i]
  BY <1>2, <1>3, <1>4, WalkOfPlan
<1>6. \A i \in DOMAIN plan : plan[i].stem # Reserved /\ IsPage(m.by, r, plan[i].page)
  BY PlanIs DEF ToSet
<1>7. \A i, j \in DOMAIN plan : plan[i].stem = plan[j].stem => i = j
  <2> SUFFICES ASSUME NEW i \in DOMAIN plan, NEW j \in DOMAIN plan,
                      plan[i].stem = plan[j].stem, i # j
               PROVE  FALSE
    OBVIOUS
  <2>1. ~ OneFile(plan[i].stem, plan[j].stem)
    BY <1>2, <1>3, <1>4, StemsAreFiles
  <2> QED
    BY <2>1 DEF OneFile
<1>8. Hung(walk, None)
  BY <1>1, WalkHangs
<1>9. \A i \in DOMAIN plan :
          \/ plan[i].page.up = None
          \/ \E j \in DOMAIN plan : i < j /\ HubOf(plan[j].page, plan[i].page.up)
  BY <1>4, <1>5, <1>8 DEF Hung
<1>10. \A i, j \in DOMAIN plan : \A s :
           HubOf(plan[i].page, s) /\ HubOf(plan[j].page, s) => i = j /\ s # None
  BY <1>1, <1>4, <1>5, HubsApart
<1>11. ASSUME NEW g \in ToSet(GroupsOf(r))
       PROVE  \E i \in DOMAIN plan : plan[i].page.id = <<"group", g>>
  <2>1. PICK p \in ToSet(GroupPages(r)) : p.id = <<"group", g>>
    BY GroupsHavePages
  <2>2. walk = OwnPages(m, r) \o GroupPages(r)
    BY <1>1 DEF WalkPages, OwnPages
  <2>3. IsList(OwnPages(m, r)) /\ IsList(GroupPages(r))
    BY OwnPagesHang, GroupPagesAre DEF Hung
  <2>4. p \in ToSet(walk)
    BY <2>1, <2>2, <2>3, AppendedList
  <2> QED
    BY <1>4, <1>5, <2>1, <2>4 DEF ToSet
<1>12. OwnStems(plan)
  BY <1>4, <1>6, <1>7 DEF OwnStems
<1>13. ASSUME NEW i \in DOMAIN plan, NEW k \in DOMAIN plan
       PROVE  k \in HungOn(plan, i) <=> HubOf(plan[i].page, plan[k].page.up)
  BY DEF HungOn, HungUnder, HubOf
<1>14. ASSUME NEW i \in DOMAIN plan
       PROVE  plan[i].page.up = None \/ \E j \in DOMAIN plan : i < j /\ i \in HungOn(plan, j)
  BY <1>9, <1>13
<1>15. ASSUME NEW i \in DOMAIN plan, NEW j \in DOMAIN plan, NEW k \in DOMAIN plan,
              k \in HungOn(plan, i)
       PROVE  plan[k].page.up # None /\ (k \in HungOn(plan, j) => i = j)
  <2>1. HubOf(plan[i].page, plan[k].page.up)
    BY <1>13, <1>15
  <2>2. plan[k].page.up # None
    BY <1>10, <2>1
  <2>3. k \in HungOn(plan, j) => HubOf(plan[j].page, plan[k].page.up)
    BY <1>13
  <2> QED
    BY <1>10, <2>1, <2>2, <2>3
<1> QED
  BY <1>11, <1>12, <1>14, <1>15 DEF Hangs, GroupsPaged

-----------------------------------------------------------------------------
(* Toctrees.                                                                *)

\* A toctree of the pages at the places I, each once.
TocIs(t, plan, I) == Once(t) /\ ToSet(t) = {plan[i].stem : i \in I}

\* The stems of chosen pages are such a list.
LEMMA StemsOfChosen ==
    ASSUME NEW plan, OwnStems(plan), NEW I, I \subseteq DOMAIN plan,
           NEW x, x = Chosen(plan, I), NEW f, f = [k \in DOMAIN x |-> f[k]],
           \A k \in DOMAIN x : f[k] = x[k].stem
    PROVE  TocIs(<<>> \o f, plan, I)
<1>1. Once(plan)
  BY DEF OwnStems, Once
<1>2. Once(x)
  BY <1>1, OnceChosen
<1>3. IsList(x) /\ ToSet(x) = {plan[i] : i \in I}
  <2>1. ToSet(x) = {plan[i] : i \in I \intersect DOMAIN plan}
    BY ChosenList DEF OwnStems
  <2> QED
    BY <1>2, <2>1 DEF Once
<1>4. IsList(f) /\ DOMAIN f = DOMAIN x /\ <<>> \o f = f /\ ToSet(f) = {f[k] : k \in DOMAIN x}
  BY <1>3, EachIsList
<1>5. Once(f)
  <2> SUFFICES ASSUME NEW k \in DOMAIN f, NEW l \in DOMAIN f, f[k] = f[l] PROVE k = l
    BY <1>4 DEF Once
  <2> \A h \in DOMAIN x : \E i \in I : x[h] = plan[i]
    BY <1>3 DEF ToSet
  <2>1. PICK i \in I : x[k] = plan[i]
    BY <1>4
  <2>2. PICK j \in I : x[l] = plan[j]
    BY <1>4
  <2>3. plan[i].stem = plan[j].stem
    BY <1>4, <2>1, <2>2
  <2>4. x[k] = x[l]
    BY <2>1, <2>2, <2>3 DEF OwnStems
  <2> QED
    BY <1>2, <1>4, <2>4 DEF Once
<1>6. \A v : v \in ToSet(f) <=> \E i \in I : v = plan[i].stem
  <2>1. ASSUME NEW k \in DOMAIN x PROVE \E i \in I : f[k] = plan[i].stem
    BY <1>3 DEF ToSet
  <2>2. ASSUME NEW i \in I PROVE \E k \in DOMAIN x : f[k] = plan[i].stem
    <3>1. plan[i] \in ToSet(x)
      BY <1>3
    <3>2. PICK k \in DOMAIN x : x[k] = plan[i]
      BY <3>1 DEF ToSet
    <3> QED
      BY <3>2
  <2> QED
    BY <1>4, <2>1, <2>2
<1> QED
  BY <1>4, <1>5, <1>6 DEF TocIs

\* A page's toctree: a hub's, or an empty one;
LEMMA TocOfPage ==
    ASSUME NEW plan, OwnStems(plan), NEW p
    PROVE  TocIs(TocOf(plan, p), plan,
                 IF p.id[1] = "hub" THEN HungUnder(plan, p.id[2]) ELSE {})
<1> DEFINE I == {i \in DOMAIN plan : plan[i].page.up = p.id[2]}
<1>1. ListedBy(plan, p) = IF p.id[1] = "hub" THEN Chosen(plan, I) ELSE <<>>
  BY DEF ListedBy, Those
<1>2. I = HungUnder(plan, p.id[2]) /\ I \subseteq DOMAIN plan
  BY DEF HungUnder
<1> HIDE DEF I
<1>3. PICK x : x = ListedBy(plan, p)
  OBVIOUS
<1> DEFINE f == [k \in DOMAIN x |-> x[k].stem]
<1>4. TocOf(plan, p) = <<>> \o f
  BY <1>3 DEF TocOf, Each
<1>5. f = [k \in DOMAIN x |-> f[k]] /\ \A k \in DOMAIN x : f[k] = x[k].stem
  OBVIOUS
<1>6. CASE p.id[1] = "hub"
  <2> HIDE DEF f
  <2>1. x = Chosen(plan, I)
    BY <1>1, <1>3, <1>6
  <2>2. TocIs(<<>> \o f, plan, I)
    BY <1>2, <1>5, <2>1, StemsOfChosen
  <2> QED
    BY <1>2, <1>4, <1>6, <2>2
<1>7. CASE p.id[1] # "hub"
  <2>1. x = <<>> /\ IsList(x) /\ DOMAIN x = {}
    BY <1>1, <1>3, <1>7, ShortLists
  <2> HIDE DEF f
  <2>2. IsList(f) /\ <<>> \o f = f /\ DOMAIN f = {} /\ ToSet(f) = {f[k] : k \in DOMAIN x}
    BY <1>5, <2>1, EachIsList
  <2>3. ToSet(f) = {}
    BY <2>1, <2>2
  <2>4. Once(f)
    BY <2>2 DEF Once
  <2> QED
    BY <1>4, <1>7, <2>2, <2>3, <2>4 DEF TocIs
<1> QED
  BY <1>6, <1>7

\* the index's.
LEMMA TocOfIndex ==
    ASSUME NEW r, NEW plan, OwnStems(plan)
    PROVE  TocIs(Each(InIndex(r, plan), LAMBDA e : e[1]), plan, HungUnder(plan, None))
<1> DEFINE I == {i \in DOMAIN plan : plan[i].page.up = None}
           x == Chosen(plan, I)
           t == [k \in DOMAIN x |-> <<x[k].stem, Label(r, x[k].page)>>]
<1>1. InIndex(r, plan) = <<>> \o t
  BY DEF InIndex, Those, Each
<1>2. I = HungUnder(plan, None) /\ I \subseteq DOMAIN plan
  BY DEF HungUnder
<1> HIDE DEF I
<1>3. IsList(x)
  BY ChosenOf DEF OwnStems
<1>4. PICK y : y = x
  OBVIOUS
<1> HIDE DEF x
<1>5. t = [k \in DOMAIN x |-> t[k]] /\ \A k \in DOMAIN x : t[k][1] = x[k].stem
  OBVIOUS
<1> HIDE DEF t
<1>6. <<>> \o t = t /\ DOMAIN t = DOMAIN x
  BY <1>3, <1>5, EachIsList
<1> DEFINE f == [k \in DOMAIN t |-> t[k][1]]
<1>7. Each(InIndex(r, plan), LAMBDA e : e[1]) = <<>> \o f
  BY <1>1, <1>6 DEF Each
<1>8. f = [k \in DOMAIN y |-> f[k]] /\ \A k \in DOMAIN y : f[k] = y[k].stem
  BY <1>4, <1>5, <1>6
<1>9. y = Chosen(plan, I)
  BY <1>4 DEF x
<1> HIDE DEF f
<1>10. TocIs(<<>> \o f, plan, I)
  BY <1>2, <1>8, <1>9, StemsOfChosen
<1> QED
  BY <1>2, <1>7, <1>10

\* What rows show of a plan: the index and, under each stem, a page's body.
RowsShow(m, r, plan, rows) ==
    /\ DOMAIN rows = {Reserved} \union {plan[i].stem : i \in DOMAIN plan}
    /\ rows[Reserved].text = InIndex(r, plan)
    /\ \A i \in DOMAIN plan : rows[plan[i].stem].text.body = Text(m, r, plan, plan[i].page).body

\* So do those that a render from nothing writes.
LEMMA RowsOfPlan ==
    ASSUME NEW m, NEW r, NEW plan, OwnStems(plan), NEW rows, rows = RenderFresh(m, r, plan)
    PROVE  RowsShow(m, r, plan, rows)
<1> DEFINE At(stem) == CHOOSE q \in ToSet(plan) : q.stem = stem
           D == {Reserved} \union {q.stem : q \in ToSet(plan)}
<1>1. RenderFresh(m, r, plan) =
          [stem \in D |->
              IF stem = Reserved THEN [key |-> IndexKey(r, plan), text |-> InIndex(r, plan)]
              ELSE PageRow(m, r, plan, At(stem).page)]
  BY DEF RenderFresh
<1>2. D = {Reserved} \union {plan[i].stem : i \in DOMAIN plan}
  BY DEF ToSet
<1>3. \A i \in DOMAIN plan : At(plan[i].stem) = plan[i]
  <2> SUFFICES ASSUME NEW i \in DOMAIN plan PROVE At(plan[i].stem) = plan[i]
    OBVIOUS
  <2>1. plan[i] \in ToSet(plan)
    BY DEF ToSet
  <2>2. At(plan[i].stem) \in ToSet(plan) /\ At(plan[i].stem).stem = plan[i].stem
    BY <2>1
  <2>3. PICK q : q = At(plan[i].stem)
    OBVIOUS
  <2> HIDE DEF At
  <2>4. PICK j \in DOMAIN plan : plan[j] = q
    BY <2>2, <2>3 DEF ToSet
  <2>5. plan[j].stem = plan[i].stem
    BY <2>2, <2>3, <2>4
  <2> QED
    BY <2>3, <2>4, <2>5 DEF OwnStems
<1> HIDE DEF At, D
<1>5. DOMAIN rows = D /\ rows[Reserved] = [key |-> IndexKey(r, plan), text |-> InIndex(r, plan)]
  BY <1>1, <1>2
<1>6. ASSUME NEW i \in DOMAIN plan
      PROVE  rows[plan[i].stem].text.body = Text(m, r, plan, plan[i].page).body
  <2>1. PICK stem : stem = plan[i].stem
    OBVIOUS
  <2>2. stem \in D /\ stem # Reserved /\ At(stem) = plan[i]
    BY <1>2, <1>3, <2>1 DEF OwnStems
  <2>3. rows[stem] = PageRow(m, r, plan, plan[i].page)
    BY <1>1, <2>2
  <2>4. rows[stem].text = Text(m, r, plan, plan[i].page)
    BY <2>3 DEF PageRow
  <2> QED
    BY <2>1, <2>4
<1> QED
  BY <1>2, <1>5, <1>6 DEF RowsShow

\* Toctrees no page is in two of, and each in one, list every page once.
LEMMA ListedIs ==
    ASSUME NEW plan, OwnStems(plan), NEW f, IsList(f), NEW g,
           \A k \in DOMAIN f : TocIs(f[k], plan, g[k]) /\ g[k] \subseteq DOMAIN plan,
           \A k, l \in DOMAIN f : k # l => g[k] \intersect g[l] = {},
           \A i \in DOMAIN plan : \E k \in DOMAIN f : i \in g[k]
    PROVE  /\ Once(FlattenSeq(f))
           /\ ToSet(FlattenSeq(f)) = {plan[i].stem : i \in DOMAIN plan}
<1>1. \A k \in DOMAIN f : Once(f[k]) /\ IsList(f[k])
  BY DEF TocIs, Once
<1>2. ASSUME NEW k \in DOMAIN f, NEW l \in DOMAIN f, k # l
      PROVE  ToSet(f[k]) \intersect ToSet(f[l]) = {}
  <2> SUFFICES ASSUME NEW v \in ToSet(f[k]), v \in ToSet(f[l]) PROVE FALSE
    OBVIOUS
  <2>1. PICK i \in g[k] : v = plan[i].stem
    BY DEF TocIs
  <2>2. PICK j \in g[l] : v = plan[j].stem
    BY DEF TocIs
  <2>3. i \in DOMAIN plan /\ j \in DOMAIN plan
    OBVIOUS
  <2>4. i = j
    BY <2>1, <2>2, <2>3 DEF OwnStems
  <2> QED
    BY <1>2, <2>4
<1>3. Once(FlattenSeq(f))
  BY <1>1, <1>2, OnceAll
<1>4. ToSet(FlattenSeq(f)) = UNION {ToSet(f[k]) : k \in DOMAIN f}
  BY <1>1, FlattenedList
<1>5. \A v : v \in ToSet(FlattenSeq(f)) <=> \E k \in DOMAIN f : v \in ToSet(f[k])
  BY <1>4
<1>6. \A k \in DOMAIN f : \A v : v \in ToSet(f[k]) <=> \E i \in g[k] : v = plan[i].stem
  BY DEF TocIs
<1>7. \A v : v \in ToSet(FlattenSeq(f)) <=> \E i \in DOMAIN plan : v = plan[i].stem
  <2>1. ASSUME NEW v \in ToSet(FlattenSeq(f)) PROVE \E i \in DOMAIN plan : v = plan[i].stem
    <3>1. PICK k \in DOMAIN f : v \in ToSet(f[k])
      BY <1>5
    <3>2. PICK i \in g[k] : v = plan[i].stem
      BY <1>6, <3>1
    <3> QED
      BY <3>2
  <2>2. ASSUME NEW i \in DOMAIN plan PROVE plan[i].stem \in ToSet(FlattenSeq(f))
    <3>1. PICK k \in DOMAIN f : i \in g[k]
      OBVIOUS
    <3> QED
      BY <1>5, <1>6, <3>1
  <2> QED
    BY <2>1, <2>2
<1> QED
  BY <1>3, <1>7

\* What the last build wrote hangs together as its plan does.
LEMMA WrittenHangs ==
    ASSUME ReplayInv, built # 0
    PROVE  /\ Hangs(pages) /\ DOMAIN cache = {Reserved} \union {pages[i].stem : i \in DOMAIN pages}
           /\ TocIs(Toctree(Reserved), pages, HungUnder(pages, None))
           /\ \A i \in DOMAIN pages :
                  /\ TocIs(Toctree(pages[i].stem), pages, HungOn(pages, i))
                  /\ cache[pages[i].stem].text.body.group = GroupReads(ir, pages, pages[i].page)
           /\ GroupsPaged(ir, pages)
<1>1. /\ config \in DOMAIN Modes /\ project \in DOMAIN Projects
      /\ built \in DOMAIN Projects[project]
  BY DEF ReplayInv, TypeInv
<1>2. PICK m : m = Modes[config] /\ m.by \in {"symbol", "file", "class", "namespace"}
  BY <1>1, PlansAre
<1>3. PICK r : r = ir /\ r = Projects[project][built] /\ IrOK(r)
  BY <1>1, PlansAre DEF ir
<1>4. PICK plan : plan = pages /\ plan = PlanPages(m, r)
  BY <1>1, <1>2, <1>3, PlansAre DEF pages
<1>5. PICK rows : rows = fresh /\ rows = RenderFresh(m, r, plan)
  BY <1>1, <1>2, <1>3, <1>4, RendersAre DEF fresh
<1>6. Hangs(plan) /\ GroupsPaged(r, plan)
  BY <1>2, <1>3, <1>4, PlanHangs
<1>7. OwnStems(plan)
  BY <1>6 DEF Hangs
<1>12. /\ DOMAIN rows = {Reserved} \union {plan[i].stem : i \in DOMAIN plan}
       /\ rows[Reserved].text = InIndex(r, plan)
       /\ \A i \in DOMAIN plan :
              rows[plan[i].stem].text.body = Text(m, r, plan, plan[i].page).body
  <2>1. RowsShow(m, r, plan, rows)
    BY <1>5, <1>7, RowsOfPlan
  <2> QED
    BY <2>1 DEF RowsShow
<1>13. DOMAIN cache = DOMAIN rows
  BY <1>5 DEF ReplayInv
<1>14. /\ \A q \in ToSet(plan) : cache[q.stem].text.body = rows[q.stem].text.body
       /\ cache[Reserved].text = rows[Reserved].text
  BY <1>4, <1>5, ReplayedAreRendered DEF ReplayIsRender
<1>15. TocIs(Toctree(Reserved), plan, HungUnder(plan, None))
  <2>1. TocIs(Each(InIndex(r, plan), LAMBDA e : e[1]), plan, HungUnder(plan, None))
    BY <1>7, TocOfIndex
  <2>2. Toctree(Reserved) = Each(InIndex(r, plan), LAMBDA e : e[1])
    BY <1>12, <1>14 DEF Toctree
  <2> QED
    BY <2>1, <2>2
<1>16. ASSUME NEW i \in DOMAIN plan
       PROVE  /\ TocIs(Toctree(plan[i].stem), plan, HungOn(plan, i))
              /\ cache[plan[i].stem].text.body.group = GroupReads(r, plan, plan[i].page)
  <2>1. PICK p : p = plan[i].page
    OBVIOUS
  <2>2. PICK stem : stem = plan[i].stem /\ stem # Reserved
    BY <1>7 DEF OwnStems
  <2>3. cache[stem].text.body = Text(m, r, plan, p).body
    <3>1. plan[i] \in ToSet(plan)
      BY DEF ToSet
    <3> QED
      BY <1>12, <1>14, <2>1, <2>2, <3>1
  <2>4. /\ cache[stem].text.body.toc = TocOf(plan, p)
        /\ cache[stem].text.body.group = GroupReads(r, plan, p)
    <3>1. PICK shows, links : shows = PageShows(m, r, p) /\ links = LinksOf(r, p)
      OBVIOUS
    <3>2. PICK toc, group : toc = TocOf(plan, p) /\ group = GroupReads(r, plan, p)
      OBVIOUS
    <3>3. PICK b : b = [name |-> p.name, file |-> p.file, shows |-> shows, toc |-> toc,
                        group |-> group, links |-> links]
      OBVIOUS
    <3>4. b.toc = toc /\ b.group = group
      BY <3>3
    <3>5. Text(m, r, plan, p).body = b
      BY <3>1, <3>2, <3>3, TextBodyIs
    <3> QED
      BY <2>3, <3>2, <3>4, <3>5
  <2>5. Toctree(stem) = TocOf(plan, p)
    BY <2>2, <2>4 DEF Toctree
  <2>6. TocIs(TocOf(plan, p), plan, IF p.id[1] = "hub" THEN HungUnder(plan, p.id[2]) ELSE {})
    BY <1>7, TocOfPage
  <2> QED
    BY <2>1, <2>2, <2>4, <2>5, <2>6 DEF HungOn
<1> QED
  BY <1>3, <1>4, <1>6, <1>12, <1>13, <1>15, <1>16, Zenon

\* Every page is listed in one toctree, once, and nothing else is.
LEMMA ListedOnce ==
    ASSUME ReplayInv, built # 0
    PROVE  LET listed == FlattenSeq(Each(<<Reserved>> \o Each(pages, LAMBDA q : q.stem), Toctree))
           IN  Once(listed) /\ ToSet(listed) = {pages[i].stem : i \in DOMAIN pages}
<1>1. PICK plan : plan = pages /\ Hangs(plan)
  BY WrittenHangs
<1>2. OwnStems(plan) /\ IsList(plan)
  BY <1>1 DEF Hangs, OwnStems
<1> DEFINE st == [i \in DOMAIN plan |-> plan[i].stem]
<1>3. Each(pages, LAMBDA q : q.stem) = <<>> \o st
  BY <1>1 DEF Each
<1>4. st = [i \in DOMAIN plan |-> st[i]] /\ \A i \in DOMAIN plan : st[i] = plan[i].stem
  OBVIOUS
<1> HIDE DEF st
<1>5. IsList(st) /\ DOMAIN st = DOMAIN plan /\ <<>> \o st = st /\ Len(st) = Len(plan)
  BY <1>2, <1>4, EachIsList
<1>6. PICK n \in Nat : n = Len(plan) /\ DOMAIN plan = 1..n
  BY <1>2, ListFacts
<1>7. PICK all : all = <<Reserved>> \o st
  OBVIOUS
<1>8. all[1] = Reserved /\ \A i \in 1..n : all[i + 1] = plan[i].stem
  BY <1>4, <1>5, <1>6, <1>7, Preceded
<1>9. IsList(all) /\ DOMAIN all = 1..(n + 1)
  <2>1. PICK one : one = <<Reserved>>
    OBVIOUS
  <2>3. IsList(one) /\ Len(one) = 1
    BY <2>1, ShortLists
  <2>2. IsList(all) /\ Len(all) = n + 1
    BY <1>5, <1>6, <1>7, <2>1, <2>3, AppendedList
  <2> QED
    BY <2>2, ListFacts
<1> DEFINE f == [i \in DOMAIN all |-> Toctree(all[i])]
<1>10. Each(all, Toctree) = <<>> \o f
  BY DEF Each
<1>11. f = [i \in DOMAIN all |-> f[i]] /\ \A i \in DOMAIN all : f[i] = Toctree(all[i])
  OBVIOUS
<1> HIDE DEF f
<1>12. IsList(f) /\ DOMAIN f = 1..(n + 1) /\ <<>> \o f = f
  BY <1>9, <1>11, EachIsList
<1> DEFINE g == [k \in 1..(n + 1) |-> IF k = 1 THEN HungUnder(plan, None) ELSE HungOn(plan, k - 1)]
<1>13. g[1] = HungUnder(plan, None) /\ \A i \in 1..n : g[i + 1] = HungOn(plan, i)
  OBVIOUS
<1>14. \A k \in 1..(n + 1) : k = 1 \/ \E i \in 1..n : k = i + 1
  <2> SUFFICES ASSUME NEW k \in 1..(n + 1), k # 1 PROVE \E i \in 1..n : k = i + 1
    OBVIOUS
  <2>1. k - 1 \in 1..n /\ k = (k - 1) + 1
    OBVIOUS
  <2> QED
    BY <2>1
<1> HIDE DEF g
<1>15. \A k \in DOMAIN f : TocIs(f[k], plan, g[k]) /\ g[k] \subseteq DOMAIN plan
  <2>1. TocIs(f[1], plan, g[1]) /\ g[1] \subseteq DOMAIN plan
    <3>1. f[1] = Toctree(Reserved)
      BY <1>8, <1>9, <1>11
    <3> QED
      BY <1>1, <1>13, <3>1, WrittenHangs DEF HungUnder
  <2>2. ASSUME NEW i \in 1..n
        PROVE  TocIs(f[i + 1], plan, g[i + 1]) /\ g[i + 1] \subseteq DOMAIN plan
    <3>1. f[i + 1] = Toctree(plan[i].stem)
      BY <1>8, <1>9, <1>11
    <3>2. TocIs(Toctree(plan[i].stem), plan, HungOn(plan, i))
      BY <1>1, <1>6, WrittenHangs
    <3> QED
      BY <1>13, <3>1, <3>2 DEF HungOn, HungUnder
  <2> QED
    BY <1>12, <1>14, <2>1, <2>2
<1>16. \A k, l \in DOMAIN f : k # l => g[k] \intersect g[l] = {}
  <2>1. \A i \in 1..n : g[i + 1] \intersect g[1] = {}
    BY <1>1, <1>6, <1>13 DEF Hangs, HungUnder
  <2>2. \A i, j \in 1..n : i # j => g[i + 1] \intersect g[j + 1] = {}
    <3> SUFFICES ASSUME NEW i \in 1..n, NEW j \in 1..n, NEW k \in g[i + 1], k \in g[j + 1]
                 PROVE  i = j
      OBVIOUS
    <3>1. k \in HungOn(plan, i) /\ k \in HungOn(plan, j)
      BY <1>13
    <3>2. k \in DOMAIN plan
      BY <3>1 DEF HungOn, HungUnder
    <3> QED
      BY <1>1, <1>6, <3>1, <3>2 DEF Hangs
  <2> QED
    BY <1>12, <1>14, <2>1, <2>2
<1>17. \A i \in DOMAIN plan : \E k \in DOMAIN f : i \in g[k]
  <2> SUFFICES ASSUME NEW i \in DOMAIN plan PROVE \E k \in DOMAIN f : i \in g[k]
    OBVIOUS
  <2>1. CASE plan[i].page.up = None
    BY <1>12, <1>13, <2>1 DEF HungUnder
  <2>2. CASE \E j \in DOMAIN plan : i \in HungOn(plan, j)
    <3>1. PICK j \in 1..n : i \in HungOn(plan, j)
      BY <1>6, <2>2
    <3>2. j + 1 \in DOMAIN f /\ i \in g[j + 1]
      BY <1>12, <1>13, <3>1
    <3> QED
      BY <3>2
  <2> QED
    BY <1>1, <2>1, <2>2 DEF Hangs
<1>18. Once(FlattenSeq(f)) /\ ToSet(FlattenSeq(f)) = {plan[i].stem : i \in DOMAIN plan}
  BY <1>2, <1>12, <1>15, <1>16, <1>17, ListedIs
<1>19. Each(<<Reserved>> \o Each(pages, LAMBDA q : q.stem), Toctree) = f
  BY <1>3, <1>5, <1>7, <1>10, <1>12
<1> QED
  BY <1>1, <1>18, <1>19

-----------------------------------------------------------------------------
(* What is reached from the index.                                          *)

\* What is reached in k steps, toctrees leading to pages that have one.
Reaches(w, n, root, tocs) ==
    /\ w = [k \in 0..n |-> IF k = 0 THEN {root}
                           ELSE w[k - 1] \union UNION {tocs[s] : s \in w[k - 1]}]
    /\ \A k \in 0..n : w[k] \subseteq DOMAIN tocs

\* There is such a thing.
LEMMA ReachesExists ==
    ASSUME NEW n \in Nat, NEW tocs, NEW root \in DOMAIN tocs,
           \A s \in DOMAIN tocs : tocs[s] \subseteq DOMAIN tocs
    PROVE  \E w : Reaches(w, n, root, tocs)
<1> DEFINE S == 0..n
           Kids == [k \in S |-> IF k = 0 THEN {} ELSE {k - 1}]
<1>1. PICK par : par = <<"FromIndex", root, tocs>>
  OBVIOUS
<1>2. \A g, k : StepOf(par, g, k) = WithinStep(root, tocs, g, k)
  BY <1>1 DEF StepOf
<1>3. Forests!Forest(S, Kids)
  <2>1. \A k \in S : Kids[k] \subseteq S
    OBVIOUS
  <2>2. ASSUME NEW T \in SUBSET S, \A k \in T : Kids[k] \intersect T # {}
        PROVE  T = {}
    <3> DEFINE P == {k \in S : k \notin T}
    <3>1. 0 \in P
      <4>1. 0 \in S /\ Kids[0] = {}
        OBVIOUS
      <4> HIDE DEF Kids
      <4>2. 0 \notin T
        BY <2>2, <4>1
      <4> QED
        BY <4>1, <4>2
    <3>2. ASSUME NEW k \in 0..(n - 1), k \in P PROVE k + 1 \in P
      <4>1. k + 1 \in S /\ Kids[k + 1] = {k}
        OBVIOUS
      <4> QED
        BY <2>2, <3>2, <4>1
    <3> HIDE DEF P
    <3>3. 0..n \subseteq P
      BY <3>1, <3>2, UpTo
    <3> QED
      BY <3>3 DEF P
  <2> QED
    BY <2>1, <2>2 DEF Forests!Forest
<1>4. Forests!Downward(par, S, Kids)
  <2> SUFFICES ASSUME NEW k \in S, NEW f, NEW g, \A c \in Kids[k] : f[c] = g[c]
               PROVE  WithinStep(root, tocs, f, k) = WithinStep(root, tocs, g, k)
    BY <1>2 DEF Forests!Downward
  <2>1. CASE k = 0
    BY <2>1 DEF WithinStep
  <2>2. CASE k # 0
    <3>1. f[k - 1] = g[k - 1]
      BY <2>2
    <3> QED
      BY <2>2, <3>1 DEF WithinStep
  <2> QED
    BY <2>1, <2>2
<1> HIDE DEF Kids
<1>5. PICK w : w = [k \in S |-> StepOf(par, w, k)]
  BY <1>3, <1>4, Forests!Recursion
<1>6. w = [k \in 0..n |-> IF k = 0 THEN {root}
                          ELSE w[k - 1] \union UNION {tocs[s] : s \in w[k - 1]}]
  <2>1. \A k \in S : StepOf(par, w, k) =
            IF k = 0 THEN {root} ELSE w[k - 1] \union UNION {tocs[s] : s \in w[k - 1]}
    BY <1>2 DEF WithinStep
  <2> QED
    BY <1>5, <2>1
<1>7. w[0] = {root}
  BY <1>6
<1>8. \A k \in 0..(n - 1) : w[k + 1] = w[k] \union UNION {tocs[s] : s \in w[k]}
  <2> SUFFICES ASSUME NEW k \in 0..(n - 1)
               PROVE  w[k + 1] = w[k] \union UNION {tocs[s] : s \in w[k]}
    OBVIOUS
  <2>1. k + 1 \in 0..n /\ k + 1 # 0 /\ (k + 1) - 1 = k
    OBVIOUS
  <2>2. w[k + 1] = w[(k + 1) - 1] \union UNION {tocs[s] : s \in w[(k + 1) - 1]}
    BY <1>6, <2>1
  <2> QED
    BY <2>1, <2>2
<1> DEFINE P == {k \in 0..n : w[k] \subseteq DOMAIN tocs}
<1>9. 0 \in P
  BY <1>7
<1>10. ASSUME NEW k \in 0..(n - 1), k \in P PROVE k + 1 \in P
  <2>1. w[k] \subseteq DOMAIN tocs /\ k + 1 \in 0..n
    BY <1>10
  <2>2. UNION {tocs[s] : s \in w[k]} \subseteq DOMAIN tocs
    BY <2>1
  <2> QED
    BY <1>8, <2>1, <2>2
<1> HIDE DEF P
<1>11. 0..n \subseteq P
  BY <1>9, <1>10, UpTo
<1> QED
  BY <1>6, <1>11 DEF P, Reaches

\* The toctrees of a plan, under its stems.
PlanTocs(plan, tocs) ==
    /\ DOMAIN tocs = {Reserved} \union {plan[i].stem : i \in DOMAIN plan}
    /\ tocs[Reserved] = {plan[i].stem : i \in HungUnder(plan, None)}
    /\ \A i \in DOMAIN plan : tocs[plan[i].stem] = {plan[k].stem : k \in HungOn(plan, i)}

\* All pages are reached from the index: page i, in as many steps as there are
\* pages from it on.
LEMMA AllReached ==
    ASSUME NEW plan, Hangs(plan), NEW tocs, PlanTocs(plan, tocs),
           NEW w, Reaches(w, Len(plan), Reserved, tocs)
    PROVE  w[Len(plan)] = DOMAIN tocs
<1>1. PICK n \in Nat : n = Len(plan) /\ DOMAIN plan = 1..n
  BY ListFacts DEF Hangs, OwnStems
<1>2. /\ w = [k \in 0..n |-> IF k = 0 THEN {Reserved}
                             ELSE w[k - 1] \union UNION {tocs[s] : s \in w[k - 1]}]
      /\ \A k \in 0..n : w[k] \subseteq DOMAIN tocs
  BY <1>1 DEF Reaches
<1>3. w[0] = {Reserved}
  BY <1>2
<1>4. ASSUME NEW k \in 0..(n - 1)
      PROVE  w[k + 1] = w[k] \union UNION {tocs[s] : s \in w[k]}
  <2>1. k + 1 \in 0..n /\ k + 1 # 0 /\ (k + 1) - 1 = k
    OBVIOUS
  <2>2. w[k + 1] = w[(k + 1) - 1] \union UNION {tocs[s] : s \in w[(k + 1) - 1]}
    BY <1>2, <2>1
  <2> QED
    BY <2>1, <2>2
<1> DEFINE P == {k \in 0..n : /\ Reserved \in w[k]
                              /\ \A i \in DOMAIN plan : n < i + k => plan[i].stem \in w[k]}
<1>5. 0 \in P
  BY <1>1, <1>3
<1>6. ASSUME NEW k \in 0..(n - 1), k \in P PROVE k + 1 \in P
  <2>1. Reserved \in w[k] /\ \A i \in DOMAIN plan : n < i + k => plan[i].stem \in w[k]
    BY <1>6
  <2>2. ASSUME NEW i \in DOMAIN plan, n < i + (k + 1) PROVE plan[i].stem \in w[k + 1]
    <3>1. CASE plan[i].page.up = None
      <4>1. plan[i].stem \in tocs[Reserved]
        BY <3>1 DEF HungUnder, PlanTocs
      <4>2. plan[i].stem \in UNION {tocs[s] : s \in w[k]}
        BY <2>1, <4>1
      <4> QED
        BY <1>4, <4>2
    <3>2. CASE \E j \in DOMAIN plan : i < j /\ i \in HungOn(plan, j)
      <4>1. PICK j \in DOMAIN plan : i < j /\ i \in HungOn(plan, j)
        BY <3>2
      <4>2. n < j + k
        BY <1>1, <2>2, <4>1
      <4>3. plan[j].stem \in w[k]
        BY <2>1, <4>2
      <4>4. plan[i].stem \in tocs[plan[j].stem]
        BY <4>1 DEF PlanTocs
      <4> QED
        BY <1>4, <4>3, <4>4
    <3> QED
      BY <3>1, <3>2 DEF Hangs
  <2>3. Reserved \in w[k + 1] /\ k + 1 \in 0..n
    BY <1>4, <2>1
  <2> QED
    BY <2>2, <2>3
<1> HIDE DEF P
<1>7. 0..n \subseteq P
  BY <1>5, <1>6, UpTo
<1>8. Reserved \in w[n] /\ \A i \in DOMAIN plan : n < i + n => plan[i].stem \in w[n]
  BY <1>7 DEF P
<1>9. \A i \in DOMAIN plan : plan[i].stem \in w[n]
  BY <1>1, <1>8
<1>10. w[n] \subseteq DOMAIN tocs
  <2>1. n \in 0..n
    OBVIOUS
  <2> QED
    BY <1>2, <2>1
<1> QED
  BY <1>1, <1>8, <1>9, <1>10 DEF PlanTocs

\* So FromIndex is all that was written.
LEMMA FromIndexIs ==
    ASSUME ReplayInv, built # 0
    PROVE  FromIndex = DOMAIN cache
<1>1. PICK plan : plan = pages /\ Hangs(plan)
  BY WrittenHangs
<1>2. PICK n \in Nat : n = Len(plan) /\ DOMAIN plan = 1..n
  BY <1>1, ListFacts DEF Hangs, OwnStems
<1>3. PICK D : D = DOMAIN cache /\ D = {Reserved} \union {plan[i].stem : i \in DOMAIN plan}
  BY <1>1, WrittenHangs
<1> DEFINE tocs == [s \in D |-> ToSet(Toctree(s))]
<1>4. ToSet(Toctree(Reserved)) = {plan[i].stem : i \in HungUnder(plan, None)}
  BY <1>1, WrittenHangs DEF TocIs
<1>5. \A i \in DOMAIN plan : ToSet(Toctree(plan[i].stem)) = {plan[k].stem : k \in HungOn(plan, i)}
  BY <1>1, WrittenHangs DEF TocIs
<1>6. /\ DOMAIN tocs = D /\ \A s \in D : tocs[s] = ToSet(Toctree(s))
      /\ Reserved \in D /\ \A i \in DOMAIN plan : plan[i].stem \in D
  BY <1>3
<1> HIDE DEF tocs
<1>7. /\ tocs[Reserved] = {plan[i].stem : i \in HungUnder(plan, None)}
      /\ \A i \in DOMAIN plan : tocs[plan[i].stem] = {plan[k].stem : k \in HungOn(plan, i)}
  BY <1>4, <1>5, <1>6
<1>8. \A s \in D : tocs[s] \subseteq D
  <2>1. tocs[Reserved] \subseteq D
    BY <1>6, <1>7 DEF HungUnder
  <2>2. \A i \in DOMAIN plan : tocs[plan[i].stem] \subseteq D
    BY <1>6, <1>7 DEF HungOn, HungUnder
  <2> QED
    BY <1>3, <2>1, <2>2
<1>9. PICK w : Reaches(w, n, Reserved, tocs)
  BY <1>6, <1>8, ReachesExists
<1> DEFINE Is(h) == h = [k \in 0..n |->
                            IF k = 0 THEN {Reserved}
                            ELSE LET S == h[k - 1] IN S \union UNION {ToSet(Toctree(s)) : s \in S}]
<1>10. ASSUME NEW S, S \subseteq D
       PROVE  {ToSet(Toctree(s)) : s \in S} = {tocs[s] : s \in S}
  BY <1>6, <1>10
<1>11. Is(w)
  <2>1. ASSUME NEW k \in 0..n, k # 0
        PROVE  {ToSet(Toctree(s)) : s \in w[k - 1]} = {tocs[s] : s \in w[k - 1]}
    <3>1. k - 1 \in 0..n
      BY <2>1
    <3>2. w[k - 1] \subseteq D
      BY <1>6, <1>9, <3>1 DEF Reaches
    <3> QED
      BY <1>10, <3>2
  <2> QED
    BY <1>9, <2>1 DEF Reaches
<1>12. FromIndex = (CHOOSE h : Is(h))[n]
  BY <1>1, <1>2 DEF FromIndex
<1> HIDE DEF Is
<1>13. PICK h : h = (CHOOSE g : Is(g)) /\ Is(h)
  BY <1>11
<1>14. h = [k \in 0..n |-> IF k = 0 THEN {Reserved}
                           ELSE h[k - 1] \union UNION {ToSet(Toctree(s)) : s \in h[k - 1]}]
  BY <1>13 DEF Is
<1>15. h = w
  <2>1. h[0] = {Reserved} /\ w[0] = {Reserved}
    BY <1>9, <1>14 DEF Reaches
  <2> DEFINE P == {k \in 0..n : h[k] = w[k]}
  <2>2. 0 \in P
    BY <2>1
  <2>3. ASSUME NEW k \in 0..(n - 1), k \in P PROVE k + 1 \in P
    <3>1. k + 1 \in 0..n /\ k + 1 # 0 /\ (k + 1) - 1 = k /\ k \in 0..n
      OBVIOUS
    <3>2. h[k] = w[k] /\ w[k] \subseteq D
      BY <1>6, <1>9, <2>3, <3>1 DEF Reaches
    <3>3. h[k + 1] = h[(k + 1) - 1] \union UNION {ToSet(Toctree(s)) : s \in h[(k + 1) - 1]}
      BY <1>14, <3>1
    <3>4. w[k + 1] = w[(k + 1) - 1] \union UNION {tocs[s] : s \in w[(k + 1) - 1]}
      BY <1>9, <3>1 DEF Reaches
    <3>5. {ToSet(Toctree(s)) : s \in w[k]} = {tocs[s] : s \in w[k]}
      BY <1>10, <3>2
    <3>6. h[k + 1] = w[k + 1]
      BY <3>1, <3>2, <3>3, <3>4, <3>5
    <3> QED
      BY <3>1, <3>6
  <2> HIDE DEF P
  <2>4. 0..n \subseteq P
    BY <2>2, <2>3, UpTo
  <2>5. \A k \in 0..n : h[k] = w[k]
    BY <2>4 DEF P
  <2>6. h = [k \in 0..n |-> h[k]] /\ w = [k \in 0..n |-> w[k]]
    BY <1>9, <1>14 DEF Reaches
  <2> QED
    BY <2>5, <2>6
<1>16. w[n] = DOMAIN tocs
  <2>1. PlanTocs(plan, tocs)
    BY <1>3, <1>6, <1>7 DEF PlanTocs
  <2>2. PICK t : t = tocs
    OBVIOUS
  <2>3. Reaches(w, Len(plan), Reserved, t) /\ PlanTocs(plan, t)
    BY <1>2, <1>9, <2>1, <2>2
  <2>4. w[Len(plan)] = DOMAIN t
    BY <1>1, <2>3, AllReached
  <2> QED
    BY <1>2, <2>2, <2>4
<1> QED
  BY <1>3, <1>6, <1>12, <1>13, <1>15, <1>16

\* Numbers up to n have a least one.
LEMMA MinIs ==
    ASSUME NEW n \in Nat, NEW I \in SUBSET (1..n), I # {}
    PROVE  Min(I) \in I
<1>1. \E i \in I : \A j \in I : i <= j
  <2> SUFFICES ASSUME \A i \in I : \E j \in I : ~ (i <= j) PROVE FALSE
    OBVIOUS
  <2> DEFINE P == {k \in 0..n : \A i \in I : ~ (i <= k)}
  <2>1. 0 \in P
    OBVIOUS
  <2>2. ASSUME NEW k \in 0..(n - 1), k \in P PROVE k + 1 \in P
    <3>1. k + 1 \in 0..n
      OBVIOUS
    <3>2. ASSUME NEW i \in I, i <= k + 1 PROVE FALSE
      <4>1. i = k + 1
        BY <2>2, <3>2
      <4>2. PICK j \in I : ~ (i <= j)
        OBVIOUS
      <4>3. j <= k
        BY <4>1, <4>2
      <4> QED
        BY <2>2, <4>3
    <3> QED
      BY <3>1, <3>2
  <2> HIDE DEF P
  <2>3. 0..n \subseteq P
    BY <2>1, <2>2, UpTo
  <2>4. n \in P
    BY <2>3
  <2>5. \A i \in I : i <= n
    OBVIOUS
  <2> QED
    BY <2>4, <2>5 DEF P
<1> QED
  BY <1>1 DEF Min

\* The stem of a group's page is that of a page.
LEMMA GroupStemIs ==
    ASSUME NEW plan, IsList(plan), NEW g, \E i \in DOMAIN plan : plan[i].page.id = <<"group", g>>
    PROVE  \E i \in DOMAIN plan : GroupStem(plan, g) = plan[i].stem
<1> DEFINE I == {i \in 1..Len(plan) : plan[i].page.id = <<"group", g>>}
<1>1. DOMAIN plan = 1..Len(plan) /\ Len(plan) \in Nat
  BY ListFacts
<1>2. I \in SUBSET (1..Len(plan)) /\ I # {}
  BY <1>1
<1>3. GroupStem(plan, g) = plan[Min(I)].stem
  BY <1>2 DEF GroupStem, SelectInSeq
<1> HIDE DEF I
<1>4. Min(I) \in I
  BY <1>1, <1>2, MinIs
<1> QED
  BY <1>1, <1>2, <1>3, <1>4

\* The links of a group's page to its subgroups lead to pages.
LEMMA GroupLinks ==
    ASSUME NEW r, IrOK(r), NEW plan, IsList(plan), GroupsPaged(r, plan),
           NEW p, p.id[1] = "group"
    PROVE  \A e \in ToSet(GroupReads(r, plan, p)[2]) : \E i \in DOMAIN plan : e[2] = plan[i].stem
<1> DEFINE all == GroupsOf(r)
           I == {i \in DOMAIN all : r.grp[all[i]].parent = p.id[2]}
           t == Chosen(all, I)
           f == [k \in DOMAIN t |-> <<t[k], GroupStem(plan, t[k])>>]
<1>1. Subgroups(r, p.id[2]) = t
  BY DEF Subgroups, Those
<1>2. PICK x : x = <<>> \o f
  OBVIOUS
<1>3. GroupReads(r, plan, p) = <<r.grp[p.id[2]].title, x>>
  BY <1>1, <1>2 DEF GroupReads, Each
<1>4. GroupReads(r, plan, p)[2] = x
  <2>1. PICK title : title = r.grp[p.id[2]].title
    OBVIOUS
  <2>2. <<title, x>>[2] = x
    OBVIOUS
  <2> QED
    BY <1>3, <2>1, <2>2
<1>5. IsList(t) /\ ToSet(t) \subseteq ToSet(all)
  <2> HIDE DEF I, all
  <2> QED
    BY GroupsAre, ChosenOf DEF all
<1> HIDE DEF t
<1>6. \A k \in DOMAIN t : \E i \in DOMAIN plan : f[k][2] = plan[i].stem
  <2> SUFFICES ASSUME NEW k \in DOMAIN t PROVE \E i \in DOMAIN plan : f[k][2] = plan[i].stem
    OBVIOUS
  <2>1. PICK g \in ToSet(all) : g = t[k]
    BY <1>5 DEF ToSet
  <2>2. f[k][2] = GroupStem(plan, g)
    BY <2>1
  <2>3. \E i \in DOMAIN plan : plan[i].page.id = <<"group", g>>
    BY <2>1 DEF GroupsPaged
  <2>4. \E i \in DOMAIN plan : GroupStem(plan, g) = plan[i].stem
    BY <2>3, GroupStemIs
  <2> QED
    BY <2>2, <2>4
<1>7. f = [k \in DOMAIN t |-> f[k]]
  OBVIOUS
<1> HIDE DEF f, all
<1>8. x = f /\ ToSet(f) = {f[k] : k \in DOMAIN t}
  BY <1>2, <1>5, <1>7, EachIsList
<1> QED
  BY <1>4, <1>6, <1>8

\* The pages as the last build wrote them hang together.
LEMMA WrittenIsLinked == ReplayInv => Linked
<1> SUFFICES ASSUME ReplayInv, built # 0
             PROVE  LET stems == DOMAIN cache
                        listed == FlattenSeq(Each(<<Reserved>> \o Each(pages, LAMBDA q : q.stem),
                                                  Toctree))
                    IN  /\ \A s \in stems \ {Reserved} :
                               Cardinality({i \in DOMAIN listed : listed[i] = s}) = 1
                        /\ ToSet(listed) \subseteq stems
                        /\ FromIndex = stems
                        /\ \A q \in ToSet(pages) : q.page.id[1] = "group" =>
                               \A s \in ToSet(cache[q.stem].text.body.group[2]) : s[2] \in stems
  BY DEF Linked
<1>1. PICK plan : plan = pages /\ Hangs(plan)
  BY WrittenHangs
<1>2. PICK r : r = ir /\ IrOK(r)
  <2>1. /\ config \in DOMAIN Modes /\ project \in DOMAIN Projects
        /\ built \in DOMAIN Projects[project]
    BY DEF ReplayInv, TypeInv
  <2> QED
    BY <2>1, PlansAre DEF ir
<1>3. PICK stems : stems = DOMAIN cache /\ stems = {Reserved} \union {plan[i].stem : i \in DOMAIN plan}
  BY <1>1, WrittenHangs
<1>4. PICK listed :
          listed = FlattenSeq(Each(<<Reserved>> \o Each(pages, LAMBDA q : q.stem), Toctree))
  OBVIOUS
<1>5. Once(listed) /\ ToSet(listed) = {plan[i].stem : i \in DOMAIN plan}
  BY <1>1, <1>4, ListedOnce
<1>6. \A s \in stems \ {Reserved} : Cardinality({i \in DOMAIN listed : listed[i] = s}) = 1
  <2> SUFFICES ASSUME NEW s \in ToSet(listed)
               PROVE  Cardinality({i \in DOMAIN listed : listed[i] = s}) = 1
    BY <1>3, <1>5
  <2> QED
    BY <1>5, TimesAre
<1>7. FromIndex = stems
  BY <1>3, FromIndexIs
<1>8. ASSUME NEW q \in ToSet(pages), q.page.id[1] = "group"
      PROVE  \A s \in ToSet(cache[q.stem].text.body.group[2]) : s[2] \in stems
  <2>1. PICK i \in DOMAIN plan : plan[i] = q
    BY <1>1 DEF ToSet
  <2>2. cache[q.stem].text.body.group = GroupReads(r, plan, q.page)
    BY <1>1, <1>2, <2>1, WrittenHangs
  <2>3. IsList(plan) /\ GroupsPaged(r, plan)
    BY <1>1, <1>2, WrittenHangs DEF Hangs, OwnStems
  <2>4. \A e \in ToSet(GroupReads(r, plan, q.page)[2]) : \E k \in DOMAIN plan : e[2] = plan[k].stem
    BY <1>2, <1>8, <2>3, GroupLinks
  <2> QED
    BY <1>3, <2>2, <2>4
<1> QED
  BY <1>3, <1>4, <1>5, <1>6, <1>7, <1>8

\* Every page is listed in one toctree, once, and is reached from the index; no
\* subgroup link dangles.
THEOREM PagesAreLinked == Spec => []Linked
<1>1. Init => ReplayInv
  BY ReplayInit
<1>2. ReplayInv /\ [Next]_vars => ReplayInv'
  BY ReplayStep
<1>3. ReplayInv => Linked
  BY WrittenIsLinked
<1> QED
  BY <1>1, <1>2, <1>3, PTL DEF Spec
=============================================================================
