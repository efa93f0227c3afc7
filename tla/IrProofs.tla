------------------------------ MODULE IrProofs ------------------------------
(***************************************************************************)
(* The rows of the IR, for any number of files, inputs, symbols and trees, *)
(* and the file that they are in.                                          *)
(***************************************************************************)
EXTENDS IrRows, IrFile, ListsProofs, FiniteSetTheorems

\* What the assumption says of inputs and trees.
LEMMA InputsAreFiles == InputSet \subseteq Files
BY RowsAssumption DEF InputSet, ToSet

\* A tree has a content, within the assumption, for every file.
LEMMA TreesHold ==
    ASSUME NEW t \in Trees
    PROVE  /\ DOMAIN t = Files
           /\ \A f \in Files : ContentOK(t[f]) /\ t[f].incs \subseteq Files
BY RowsAssumption DEF ContentOK

-----------------------------------------------------------------------------
(* The files.                                                              *)

(* Strengthening: the tree is one of those the assumption speaks of.       *)
FilesInv == Parsed => tree \in Trees /\ files = [f \in Reached(tree, InputSet) |-> tree[f]]

\* A closure holds its input and what its files include, and is the least such.
LEMMA ClosureIsClosed ==
    ASSUME NEW t \in Trees, NEW i \in Files
    PROVE  /\ Closure(t, i) \subseteq Files /\ i \in Closure(t, i)
           /\ \A s \in Closure(t, i) : t[s].incs \subseteq Closure(t, i)
<1>1. ASSUME NEW s \in Closure(t, i), NEW g \in t[s].incs
      PROVE  g \in Closure(t, i)
  <2>1. s \in Files /\ g \in Files  BY TreesHold DEF Closure
  <2>2. ASSUME NEW S \in SUBSET Files, i \in S, \A r \in S : t[r].incs \subseteq S
        PROVE  g \in S
    <3>1. s \in S  BY <2>2 DEF Closure
    <3> QED  BY <3>1, <2>2
  <2> QED  BY <2>1, <2>2 DEF Closure
<1> QED  BY <1>1 DEF Closure

\* A closure is in every set that holds its input and is closed under includes.
LEMMA ClosureIsLeast ==
    ASSUME NEW t \in Trees, NEW i \in Files, NEW S \in SUBSET Files,
           i \in S, \A s \in S : t[s].incs \subseteq S
    PROVE  Closure(t, i) \subseteq S
BY DEF Closure

\* As long as no file of a closure changes, it stays the closure.
LEMMA ClosureStays ==
    ASSUME NEW t \in Trees, NEW next \in Trees, NEW i \in Files,
           \A f \in Closure(t, i) : next[f] = t[f]
    PROVE  Closure(next, i) = Closure(t, i)
<1>1. Closure(next, i) \subseteq Closure(t, i)
  <2>1. \A s \in Closure(t, i) : next[s].incs \subseteq Closure(t, i)
    BY ClosureIsClosed
  <2>2. Closure(t, i) \in SUBSET Files /\ i \in Closure(t, i)  BY ClosureIsClosed
  <2> QED  BY <2>1, <2>2, ClosureIsLeast
<1>2. Closure(t, i) \subseteq Closure(next, i)
  <2>1. \A s \in Closure(next, i) : t[s].incs \subseteq Closure(next, i)
    BY <1>1, ClosureIsClosed
  <2>2. Closure(next, i) \in SUBSET Files /\ i \in Closure(next, i)  BY ClosureIsClosed
  <2> QED  BY <2>1, <2>2, ClosureIsLeast
<1> QED  BY <1>1, <1>2

\* What the inputs that are not stale reach is as it was.
LEMMA OthersReachTheSame ==
    ASSUME NEW t \in Trees, NEW next \in Trees
    PROVE  /\ Reached(next, InputSet \ Stale(t, next)) = Reached(t, InputSet \ Stale(t, next))
           /\ \A f \in Reached(t, InputSet \ Stale(t, next)) : next[f] = t[f]
<1>1. \A i \in InputSet \ Stale(t, next) : i \in Files /\ \A f \in Closure(t, i) : next[f] = t[f]
  BY InputsAreFiles DEF Stale
<1>2. \A i \in InputSet \ Stale(t, next) : Closure(next, i) = Closure(t, i)
  BY <1>1, ClosureStays
<1> QED  BY <1>1, <1>2 DEF Reached

\* What two sets of inputs reach is what each of them reaches.
LEMMA ReachedUnion ==
    ASSUME NEW t, NEW I, NEW J
    PROVE  Reached(t, I \union J) = Reached(t, I) \union Reached(t, J)
BY DEF Reached

\* A partial parse lists the files that the new tree's inputs reach: the fresh
\* ones, those of the other inputs, and nothing that only stale inputs reached.
LEMMA PartialKeepsFiles ==
    ASSUME FilesInv, NEW next \in Trees, PartialParse(next)
    PROVE  FilesInv'
<1> DEFINE stale == Stale(tree, next)
           others == Reached(tree, InputSet \ stale)
           fresh == Reached(next, stale)
           gone == Vanished(tree, next, stale)
<1>1. tree \in Trees /\ files = [f \in Reached(tree, InputSet) |-> tree[f]]
  BY DEF FilesInv, Parsed, PartialParse
<1>2. /\ tree' = next
      /\ files' = [f \in (DOMAIN files \union fresh) \ gone |->
                      IF f \in fresh THEN next[f] ELSE files[f]]
  BY DEF PartialParse
<1>3. InputSet = stale \union (InputSet \ stale)  BY DEF Stale
<1>4. Reached(tree, InputSet) = Reached(tree, stale) \union others  BY <1>3, ReachedUnion
<1>5. Reached(next, InputSet) = fresh \union others
  <2>1. Reached(next, InputSet) = fresh \union Reached(next, InputSet \ stale)
    BY <1>3, ReachedUnion
  <2> QED  BY <2>1, <1>1, OthersReachTheSame
<1>6. \A f \in others : next[f] = tree[f]  BY <1>1, OthersReachTheSame
<1>7. (DOMAIN files \union fresh) \ gone = Reached(next, InputSet)
  BY <1>1, <1>4, <1>5 DEF Vanished
<1>8. \A f \in Reached(next, InputSet) :
          (IF f \in fresh THEN next[f] ELSE files[f]) = next[f]
  BY <1>1, <1>4, <1>5, <1>6
<1>9. files' = [f \in Reached(next, InputSet) |-> next[f]]
  <2> HIDE DEF fresh, gone
  <2>1. files' = [f \in Reached(next, InputSet) |->
                     IF f \in fresh THEN next[f] ELSE files[f]]
    BY <1>2, <1>7
  <2> QED  BY <2>1, <1>8
<1> QED  BY <1>2, <1>9 DEF FilesInv

\* The files of the database, and their hashes, are those of a full parse after
\* any sequence of full and partial ones (FilesAsFull): drop_vanished_files drops
\* neither too little nor too much.
THEOREM FilesAreAsFull == Spec => []FilesAsFull
<1>1. Init => FilesInv  BY DEF Init, FilesInv, Parsed
<1>2. FilesInv /\ [Next]_vars => FilesInv'
  <2> SUFFICES ASSUME FilesInv, [Next]_vars PROVE FilesInv'  OBVIOUS
  <2>1. ASSUME NEW next \in Trees, FullParse(next) PROVE FilesInv'
    BY <2>1 DEF FullParse, FilesInv
  <2>2. ASSUME NEW next \in Trees, PartialParse(next) PROVE FilesInv'
    BY <2>2, PartialKeepsFiles
  <2>3. CASE UNCHANGED vars
    BY <2>3 DEF vars, FilesInv, Parsed, Reached
  <2> QED  BY <2>1, <2>2, <2>3 DEF Next
<1>3. FilesInv => FilesAsFull  BY DEF FilesInv, FilesAsFull
<1> QED  BY <1>1, <1>2, <1>3, PTL DEF Spec

-----------------------------------------------------------------------------
(* The folds, and their partial results.                                   *)

PlacedOp(size, bs, i) == Placed(bs, i, size)
Placing == INSTANCE ListsProofs WITH Op <- PlacedOp

UpsertedOp(none, row, s) == Upserted(row, s.row)
Upserting == INSTANCE ListsProofs WITH Op <- UpsertedOp

MergedOp(none, old, new) == Merged(old, new)
Merging == INSTANCE ListsProofs WITH Op <- MergedOp

InsertedOp(none, db, p) == InsertRows(db, <<p>>)
Inserting == INSTANCE ListsProofs WITH Op <- InsertedOp

PlacesOf(I) == {k \in DOMAIN Inputs : Inputs[k] \in I}

\* Batching takes the chosen inputs one by one, from no batch.
LEMMA PlacedSteps ==
    ASSUME NEW I, NEW size, NEW s, NEW n \in Nat, DOMAIN s = 1..n,
           s = Chosen(Inputs, PlacesOf(I))
    PROVE  \E g : /\ g[0] = <<>> /\ \A k \in 1..n : g[k] = Placed(g[k - 1], s[k], size)
                  /\ Batches(I, size) = g[n]
<1>1. ASSUME NEW r, DOMAIN r = 1..n
      PROVE  \E g : /\ Placing!FoldSteps(g, size, <<>>, r, n)
                    /\ Placing!Folded(size, <<>>, r, DOMAIN r) = g[n]
  BY <1>1, Placing!Folding
<1>2. Batches(I, size) = Placing!Folded(size, <<>>, s, DOMAIN s)
  BY DEF Batches, PlacesOf, FoldLeft, MapThenFoldSet, Max, Placing!Max, Placing!Folded, Placing!Folds,
         PlacedOp
<1>3. PICK r : r = s
  OBVIOUS
<1>4. PICK g : /\ Placing!FoldSteps(g, size, <<>>, r, n)
               /\ Placing!Folded(size, <<>>, r, DOMAIN r) = g[n]
  BY <1>1, <1>3
<1> QED
  BY <1>2, <1>3, <1>4 DEF Placing!FoldSteps, PlacedOp

\* An upsert of several rows does them one by one.
LEMMA UpsertedSteps ==
    ASSUME NEW old, NEW new, NEW n \in Nat, DOMAIN new = 1..n
    PROVE  \E g : /\ g[0] = old /\ \A k \in 1..n : g[k] = Upserted(g[k - 1], new[k].row)
                  /\ UpsertedAll(old, new) = g[n]
<1>1. PICK g : /\ Upserting!FoldSteps(g, 0, old, new, n)
               /\ Upserting!Folded(0, old, new, DOMAIN new) = g[n]
  BY Upserting!Folding
<1>2. UpsertedAll(old, new) = Upserting!Folded(0, old, new, DOMAIN new)
  BY DEF UpsertedAll, FoldLeft, MapThenFoldSet, Max, Upserting!Max, Upserting!Folded, Upserting!Folds,
         UpsertedOp
<1> QED
  BY <1>1, <1>2 DEF Upserting!FoldSteps, UpsertedOp

\* The partial results g of a merge of n rows with an old one.
Merges(g, old, new, n) == g[0] = old /\ \A k \in 1..n : g[k] = Merged(g[k - 1], new[k])

\* A merge of several group rows merges them one by one.
LEMMA MergedSteps ==
    ASSUME NEW old, NEW new, NEW n \in Nat, DOMAIN new = 1..n
    PROVE  \E g : Merges(g, old, new, n) /\ MergedAll(old, new) = g[n]
<1>1. PICK g : /\ Merging!FoldSteps(g, 0, old, new, n)
               /\ Merging!Folded(0, old, new, DOMAIN new) = g[n]
  BY Merging!Folding
<1>2. MergedAll(old, new) = Merging!Folded(0, old, new, DOMAIN new)
  BY DEF MergedAll, FoldLeft, MapThenFoldSet, Max, Merging!Max, Merging!Folded, Merging!Folds, MergedOp
<1> QED
  BY <1>1, <1>2 DEF Merging!FoldSteps, MergedOp, Merges

\* A full parse inserts its parts one by one, into nothing.
IsInserted(g, t, parts, n) ==
    /\ g[0] = NoRows /\ \A k \in 1..n : g[k] = InsertRows(g[k - 1], <<parts[k]>>)
    /\ FullRows(t) = g[n]
LEMMA InsertedSteps ==
    ASSUME NEW t, NEW parts, NEW n \in Nat, parts = Parts(t, InputSet, FullBatch),
           DOMAIN parts = 1..n
    PROVE  \E g : IsInserted(g, t, parts, n)
<1>1. PICK g : /\ Inserting!FoldSteps(g, 0, NoRows, parts, n)
               /\ Inserting!Folded(0, NoRows, parts, DOMAIN parts) = g[n]
  BY Inserting!Folding
<1>2. FullRows(t) = Inserting!Folded(0, NoRows, parts, DOMAIN parts)
  BY DEF FullRows, FoldLeft, MapThenFoldSet, Max, Inserting!Max, Inserting!Folded,
         Inserting!Folds, InsertedOp
<1> QED
  BY <1>1, <1>2 DEF IsInserted, Inserting!FoldSteps, InsertedOp

-----------------------------------------------------------------------------
(* The batches.                                                            *)

\* These batches hold the files S, each in one place.
Batched(bs, S) ==
    /\ bs \in Seq(Seq(Files))
    /\ \A b \in DOMAIN bs : \A j \in DOMAIN bs[b] : bs[b][j] \in S
    /\ \A i \in S : \E b \in DOMAIN bs : \E j \in DOMAIN bs[b] : bs[b][j] = i
    /\ \A b \in DOMAIN bs : \A c \in DOMAIN bs : \A j \in DOMAIN bs[b] : \A l \in DOMAIN bs[c] :
           bs[b][j] = bs[c][l] => b = c /\ j = l

\* One more file gets a batch of its own, or joins one.
LEMMA NewBatch ==
    ASSUME NEW S, NEW bs, Batched(bs, S), NEW i \in Files, i \notin S
    PROVE  Batched(Append(bs, <<i>>), S \union {i})
<1>1. PICK n \in Nat : n = Len(bs) /\ DOMAIN bs = 1..n
  BY DEF Batched
<1>2. PICK one : one = <<i>> /\ one \in Seq(Files) /\ DOMAIN one = 1..1 /\ one[1] = i
  <2>1. PICK r : r = <<i>> /\ r \in Seq(Files) /\ Len(r) = 1 /\ r[1] = i
    <3>1. <<i>> \in Seq(Files) /\ Len(<<i>>) = 1 /\ <<i>>[1] = i
      OBVIOUS
    <3> QED
      BY <3>1
  <2>2. DOMAIN r = 1..1
    BY <2>1
  <2> QED
    BY <2>1, <2>2
<1>3. PICK cs : cs = Append(bs, one)
  OBVIOUS
<1>4. /\ cs \in Seq(Seq(Files)) /\ DOMAIN cs = 1..(n + 1) /\ cs[n + 1] = one
      /\ \A b \in 1..n : cs[b] = bs[b]
  BY <1>1, <1>2, <1>3 DEF Batched
<1>5. \A b \in DOMAIN cs : b = n + 1 \/ b \in DOMAIN bs
  BY <1>1, <1>4
<1>6. ASSUME NEW b \in DOMAIN cs, NEW j \in DOMAIN cs[b] PROVE cs[b][j] \in S \union {i}
  BY <1>1, <1>2, <1>4, <1>5, <1>6 DEF Batched
<1>7. ASSUME NEW k \in S \union {i}
      PROVE  \E b \in DOMAIN cs : \E j \in DOMAIN cs[b] : cs[b][j] = k
  <2>1. CASE k = i
    BY <1>1, <1>2, <1>4, <2>1
  <2>2. CASE k # i
    <3>1. PICK b \in DOMAIN bs : \E j \in DOMAIN bs[b] : bs[b][j] = k
      BY <2>2 DEF Batched
    <3>2. b \in DOMAIN cs /\ cs[b] = bs[b]
      BY <1>1, <1>4
    <3> QED
      BY <3>1, <3>2
  <2> QED
    BY <2>1, <2>2
<1>8. ASSUME NEW b \in DOMAIN cs, NEW c \in DOMAIN cs, NEW j \in DOMAIN cs[b],
             NEW l \in DOMAIN cs[c], cs[b][j] = cs[c][l]
      PROVE  b = c /\ j = l
  <2>1. CASE b = n + 1 /\ c = n + 1
    BY <1>2, <1>4, <2>1
  <2>2. CASE b = n + 1 /\ c \in DOMAIN bs
    <3>1. cs[b][j] = i /\ cs[c][l] \in S
      BY <1>1, <1>2, <1>4, <2>2 DEF Batched
    <3> QED
      BY <1>8, <3>1
  <2>3. CASE b \in DOMAIN bs /\ c = n + 1
    <3>1. cs[c][l] = i /\ cs[b][j] \in S
      BY <1>1, <1>2, <1>4, <2>3 DEF Batched
    <3> QED
      BY <1>8, <3>1
  <2>4. CASE b \in DOMAIN bs /\ c \in DOMAIN bs
    BY <1>1, <1>4, <1>8, <2>4 DEF Batched
  <2> QED
    BY <1>5, <2>1, <2>2, <2>3, <2>4
<1>9. Batched(cs, S \union {i})
  BY <1>4, <1>6, <1>7, <1>8 DEF Batched
<1> QED
  BY <1>2, <1>3, <1>9

\* An input that joins a batch: the batches hold it too, once.
LEMMA JoinedBatch ==
    ASSUME NEW S, NEW bs, Batched(bs, S), NEW i \in Files, i \notin S, NEW slot \in DOMAIN bs
    PROVE  Batched([bs EXCEPT ![slot] = Append(@, i)], S \union {i})
<1>1. PICK n \in Nat : n = Len(bs) /\ DOMAIN bs = 1..n
  BY DEF Batched
<1>2. PICK old : old = bs[slot] /\ old \in Seq(Files)
  BY DEF Batched
<1>3. PICK m \in Nat : m = Len(old) /\ DOMAIN old = 1..m
  BY <1>2
<1>4. PICK new : new = Append(old, i)
  OBVIOUS
<1>5. /\ new \in Seq(Files) /\ DOMAIN new = 1..(m + 1) /\ new[m + 1] = i
      /\ \A j \in 1..m : new[j] = old[j]
  BY <1>2, <1>3, <1>4
<1>6. PICK cs : cs = [bs EXCEPT ![slot] = new]
  OBVIOUS
<1>7. /\ cs \in Seq(Seq(Files)) /\ DOMAIN cs = DOMAIN bs /\ cs[slot] = new
      /\ \A b \in DOMAIN bs : b # slot => cs[b] = bs[b]
  BY <1>1, <1>5, <1>6 DEF Batched
<1>8. \A j \in DOMAIN new : j = m + 1 \/ j \in DOMAIN old
  BY <1>3, <1>5
\* Every place is an old one with its old file, or the new one.
<1>9. ASSUME NEW b \in DOMAIN cs, NEW j \in DOMAIN cs[b]
      PROVE  \/ b = slot /\ j = m + 1 /\ cs[b][j] = i
             \/ j \in DOMAIN bs[b] /\ cs[b][j] = bs[b][j] /\ cs[b][j] \in S
  <2>1. CASE b = slot /\ j = m + 1
    BY <1>5, <1>7, <2>1
  <2>2. CASE b = slot /\ j # m + 1
    <3>1. j \in DOMAIN old /\ cs[b][j] = old[j] /\ b \in DOMAIN bs
      BY <1>3, <1>5, <1>7, <1>8, <2>2
    <3>2. bs[b][j] \in S
      BY <1>2, <2>2, <3>1 DEF Batched
    <3> QED
      BY <1>2, <2>2, <3>1, <3>2
  <2>3. CASE b # slot
    <3>1. cs[b] = bs[b] /\ b \in DOMAIN bs
      BY <1>7, <2>3
    <3> QED
      BY <3>1 DEF Batched
  <2> QED
    BY <2>1, <2>2, <2>3
<1>10. ASSUME NEW k \in S \union {i}
       PROVE  \E b \in DOMAIN cs : \E j \in DOMAIN cs[b] : cs[b][j] = k
  <2>1. CASE k = i
    <3>1. slot \in DOMAIN cs /\ m + 1 \in DOMAIN cs[slot] /\ cs[slot][m + 1] = i
      BY <1>5, <1>7
    <3> QED
      BY <2>1, <3>1
  <2>2. CASE k # i
    <3>1. PICK b \in DOMAIN bs : \E j \in DOMAIN bs[b] : bs[b][j] = k
      BY <2>2 DEF Batched
    <3>2. PICK j \in DOMAIN bs[b] : bs[b][j] = k
      BY <3>1
    <3>3. j \in DOMAIN cs[b] /\ cs[b][j] = bs[b][j]
      <4>1. CASE b = slot
        BY <1>2, <1>3, <1>5, <1>7, <4>1
      <4>2. CASE b # slot
        BY <1>7, <4>2
      <4> QED
        BY <4>1, <4>2
    <3> QED
      BY <1>7, <3>2, <3>3
  <2> QED
    BY <2>1, <2>2
<1>11. ASSUME NEW b \in DOMAIN cs, NEW c \in DOMAIN cs, NEW j \in DOMAIN cs[b],
              NEW l \in DOMAIN cs[c], cs[b][j] = cs[c][l]
       PROVE  b = c /\ j = l
  <2>1. CASE cs[b][j] = i
    <3>1. b = slot /\ j = m + 1
      BY <1>9, <2>1
    <3>2. c = slot /\ l = m + 1
      BY <1>9, <1>11, <2>1
    <3> QED
      BY <3>1, <3>2
  <2>2. CASE cs[b][j] # i
    <3>1. j \in DOMAIN bs[b] /\ l \in DOMAIN bs[c] /\ bs[b][j] = bs[c][l]
      BY <1>9, <1>11, <2>2
    <3>2. b \in DOMAIN bs /\ c \in DOMAIN bs
      BY <1>7
    <3> QED
      BY <3>1, <3>2 DEF Batched
  <2> QED
    BY <2>1, <2>2
<1>12. \A b \in DOMAIN cs : \A j \in DOMAIN cs[b] : cs[b][j] \in S \union {i}
  BY <1>9
<1>13. Batched(cs, S \union {i})
  BY <1>7, <1>10, <1>11, <1>12 DEF Batched
<1> QED
  BY <1>2, <1>4, <1>6, <1>13

\* An input that is placed is in one batch, and the others are where they were.
LEMMA PlacedOne ==
    ASSUME NEW S, NEW bs, Batched(bs, S), NEW i \in Files, i \notin S, NEW size
    PROVE  Batched(Placed(bs, i, size), S \union {i})
<1> DEFINE same == {k \in DOMAIN bs : FlagsOf(bs[k][1]) = FlagsOf(i)}
           slot == IF same = {} THEN 0 ELSE CHOOSE k \in same : \A l \in same : l <= k
<1>1. slot = 0 \/ slot \in DOMAIN bs
  <2>1. CASE same = {}
    BY <2>1
  <2>2. CASE same # {}
    <3>1. PICK n \in Nat : DOMAIN bs = 1..n
      BY DEF Batched
    <3>2. same \in SUBSET (1..n)
      BY <3>1
    <3> HIDE DEF same
    <3>3. Max(same) \in same /\ \A l \in same : l <= Max(same)
      BY <2>2, <3>1, <3>2, MaxIs
    <3>4. (CHOOSE k \in same : \A l \in same : l <= k) \in same
      BY <3>3
    <3> QED
      BY <2>2, <3>1, <3>2, <3>4
  <2> QED
    BY <2>1, <2>2
<1>2. Placed(bs, i, size) = IF slot = 0 \/ Len(bs[slot]) >= size THEN Append(bs, <<i>>)
                            ELSE [bs EXCEPT ![slot] = Append(@, i)]
  BY DEF Placed
<1> HIDE DEF slot
<1> QED
  BY <1>1, <1>2, NewBatch, JoinedBatch

\* An input that is to be parsed is in one place of one batch.
LEMMA BatchesHold ==
    ASSUME NEW I \in SUBSET InputSet, NEW size
    PROVE  Batched(Batches(I, size), I)
<1>1. Inputs \in Seq(Files)
  BY RowsAssumption
<1>2. PICK p : Places(Chosen(Inputs, PlacesOf(I)), p, Inputs, PlacesOf(I) \intersect DOMAIN Inputs)
  BY <1>1, ChosenPlaces
<1>3. PICK s : s = Chosen(Inputs, PlacesOf(I)) /\ s \in Seq(Files) /\ ToSet(s) = {Inputs[k] : k \in PlacesOf(I) \intersect DOMAIN Inputs}
  BY <1>1, ChosenPlaces, ChosenSet
<1>4. PICK n \in Nat : n = Len(s) /\ DOMAIN s = 1..n
  <2>1. s \in Seq(Files)
    BY <1>3
  <2> QED
    BY <2>1
<1>5. ToSet(s) = I
  BY <1>3 DEF InputSet, ToSet, PlacesOf
<1>6. ASSUME NEW k \in 1..n, NEW l \in 1..n, s[k] = s[l] PROVE k = l
  <2>1. /\ p[k] \in DOMAIN Inputs /\ p[l] \in DOMAIN Inputs
        /\ s[k] = Inputs[p[k]] /\ s[l] = Inputs[p[l]]
    BY <1>2, <1>3, <1>4 DEF Places
  <2>2. p[k] = p[l]
    BY <1>6, <2>1, RowsAssumption
  <2>3. p[k] \in Nat /\ (k < l => p[k] < p[l]) /\ (l < k => p[l] < p[k])
    <3>1. p[k] \in Nat
      BY <1>1, <2>1
    <3> QED
      BY <1>2, <1>3, <1>4, <3>1 DEF Places
  <2> QED
    BY <2>2, <2>3
<1>7. PICK g : /\ g[0] = <<>> /\ \A k \in 1..n : g[k] = Placed(g[k - 1], s[k], size)
               /\ Batches(I, size) = g[n]
  BY <1>3, <1>4, PlacedSteps
<1> DEFINE First(k) == {s[m] : m \in 1..k}
           P == {k \in 0..n : Batched(g[k], First(k))}
<1>8. 0 \in P
  <2>1. First(0) = {}
    OBVIOUS
  <2>2. Batched(<<>>, {})
    BY DEF Batched
  <2> HIDE DEF First
  <2> QED
    BY <1>7, <2>1, <2>2
<1>9. ASSUME NEW k \in 0..(n - 1), k \in P PROVE k + 1 \in P
  <2>1. k + 1 \in 1..n /\ g[k + 1] = Placed(g[k], s[k + 1], size) /\ s[k + 1] \in Files
    BY <1>3, <1>4, <1>7
  <2>2. s[k + 1] \notin First(k)
    BY <1>6, <2>1
  <2>3. PICK T : T = First(k) \union {s[k + 1]} /\ T = First(k + 1)
    <3>1. First(k + 1) = First(k) \union {s[k + 1]}
      OBVIOUS
    <3> HIDE DEF First
    <3> QED
      BY <3>1
  <2>4. Batched(g[k], First(k))
    BY <1>9
  <2> HIDE DEF First
  <2>5. Batched(g[k + 1], T)
    BY <2>1, <2>2, <2>3, <2>4, PlacedOne
  <2>6. Batched(g[k + 1], First(k + 1))
    BY <2>3, <2>5
  <2> QED
    BY <2>1, <2>6
<1>10. Batched(g[n], First(n))
  <2> HIDE DEF First
  <2>1. 0..n \subseteq P
    <3> HIDE DEF P
    <3> QED
      BY <1>8, <1>9, UpTo
  <2> QED
    BY <2>1
<1>11. First(n) = I
  BY <1>4, <1>5 DEF ToSet
<1> QED
  BY <1>7, <1>10, <1>11

-----------------------------------------------------------------------------
(* What is there once.                                                     *)

\* If one of some tables has a key, Under is its row; if none has, nothing.
LEMMA UnderOne ==
    ASSUME NEW tables, NEW n \in Nat, DOMAIN tables = 1..n, tables = [k \in 1..n |-> tables[k]],
           NEW key, NEW k \in 1..n, key \in DOMAIN tables[k],
           \A l \in 1..n : key \in DOMAIN tables[l] => l = k
    PROVE  Under(tables, key) = <<tables[k][key]>>
<1>1. PICK S : S = {tables[l] : l \in 1..n}
  OBVIOUS
<1>2. tables \in Seq(S)
  BY <1>1
<1>3. PICK J : J = {l \in DOMAIN tables : key \in DOMAIN tables[l]}
  OBVIOUS
<1>4. J \intersect DOMAIN tables = {k}
  BY <1>3
<1>5. Chosen(tables, J) = <<tables[k]>>
  BY <1>2, <1>4, ChosenOne
<1>6. Under(tables, key) = [l \in DOMAIN <<tables[k]>> |-> <<tables[k]>>[l][key]]
  BY <1>3, <1>5 DEF Under
<1> QED
  BY <1>6

\* Tables without a key have no rows under it.
LEMMA UnderNone ==
    ASSUME NEW tables, NEW n \in Nat, DOMAIN tables = 1..n, tables = [k \in 1..n |-> tables[k]],
           NEW key, \A l \in 1..n : key \notin DOMAIN tables[l]
    PROVE  Under(tables, key) = <<>>
<1>1. PICK S : S = {tables[l] : l \in 1..n}
  OBVIOUS
<1>2. tables \in Seq(S)
  BY <1>1
<1>3. PICK J : J = {l \in DOMAIN tables : key \in DOMAIN tables[l]}
  OBVIOUS
<1>4. J \intersect DOMAIN tables = {}
  BY <1>3
<1>5. Chosen(tables, J) = <<>>
  BY <1>2, <1>4, ChosenNone
<1>6. Under(tables, key) = [l \in DOMAIN <<>> |-> <<>>[l][key]]
  BY <1>3, <1>5 DEF Under
<1> QED
  BY <1>6

\* Of a set of at most one, two members are one.
LEMMA AtMostOne ==
    ASSUME NEW S, IsFiniteSet(S), Cardinality(S) <= 1, NEW x \in S, NEW y \in S
    PROVE  x = y
<1>1. SUFFICES ASSUME x # y PROVE FALSE
  OBVIOUS
<1>2. PICK T : T = {x} /\ IsFiniteSet(T) /\ Cardinality(T) = 1
  BY FS_Singleton
<1>3. Cardinality(T \union {y}) = 2
  <2>1. y \notin T
    BY <1>1, <1>2
  <2> QED
    BY <1>2, <2>1, FS_AddElement
<1>4. T \union {y} \subseteq S
  BY <1>2
<1>5. Cardinality(T \union {y}) <= Cardinality(S)
  BY <1>4, FS_Subset
<1>6. Cardinality(S) \in Nat
  BY FS_CardinalityType
<1> QED
  BY <1>3, <1>5, <1>6

\* Of a symbol with one home, no two files declare it.
LEMMA OneHome ==
    ASSUME NEW t \in Trees, NEW u \in Homed, NEW f \in Files, NEW h \in Files,
           Declares(t, f, u), Declares(t, h, u)
    PROVE  f = h
<1>1. PICK S : S = {i \in Files : Declares(t, i, u)}
  OBVIOUS
<1>2. Cardinality(S) <= 1
  BY <1>1 DEF Homed
<1>3. IsFiniteSet(S)
  BY <1>1, RowsAssumption, FS_Subset
<1> QED
  BY <1>1, <1>2, <1>3, AtMostOne

-----------------------------------------------------------------------------
(* A symbol at home.                                                       *)

\* What a batch yields of a symbol whose only declaration is in i, and the rows of
\* a symbol that is yielded once.
RowOf(t, i, u) ==
    LET d == t[i].decls[u]
    IN  [row |-> [file |-> i, def |-> d.def, doc |-> d.comment # None, sig |-> d.sig],
         refs |-> d.refs, comment |-> d.comment]
RowsOf(r) == [row |-> r.row, refs |-> r.refs, comment |-> r.comment,
              projected |-> IF r.comment = None THEN <<>> ELSE <<r.comment>>]

\* Who has the symbol's comment is its home.
LEMMA RawOfHome ==
    ASSUME NEW t \in Trees, NEW u \in Homed, NEW batch \in Seq(Files), NEW i \in ToSet(batch),
           Declares(t, i, u)
    PROVE  RawComment(t, batch, u) = t[i].decls[u].comment
<1> DEFINE Own(S) == {f \in S : Declares(t, f, u) /\ t[f].decls[u].comment # None}
           members == Own(ToSet(batch))
           near == IF members # {} THEN members ELSE Own(Reached(t, ToSet(batch)))
<1>1. ToSet(batch) \subseteq Files /\ Reached(t, ToSet(batch)) \subseteq Files
  <2>1. ToSet(batch) \subseteq Files
    BY DEF ToSet
  <2> QED
    BY <2>1 DEF Reached, Closure
<1>2. i \in Files /\ \A f \in Files : Declares(t, f, u) => f = i
  BY <1>1, OneHome
<1>3. near = IF t[i].decls[u].comment # None THEN {i} ELSE {}
  <2>1. CASE t[i].decls[u].comment # None
    <3>1. members = {i}
      BY <1>1, <1>2, <2>1
    <3> QED
      BY <2>1, <3>1
  <2>2. CASE t[i].decls[u].comment = None
    <3>1. members = {} /\ Own(Reached(t, ToSet(batch))) = {}
      BY <1>1, <1>2, <2>2
    <3> QED
      BY <2>2, <3>1
  <2> QED
    BY <2>1, <2>2
<1>4. RawComment(t, batch, u) = IF near = {} THEN None
                                ELSE t[CHOOSE f \in near : TRUE].decls[u].comment
  BY DEF RawComment
<1> HIDE DEF near
<1>5. CASE t[i].decls[u].comment # None
  <2>1. near = {i}
    BY <1>3, <1>5
  <2>2. (CHOOSE f \in near : TRUE) = i
    BY <2>1
  <2> QED
    BY <1>4, <2>1, <2>2
<1>6. CASE t[i].decls[u].comment = None
  BY <1>3, <1>4, <1>6
<1> QED
  BY <1>5, <1>6

\* A batch with the home of such a symbol has the row of that home.
LEMMA SymbolOfHome ==
    ASSUME NEW t \in Trees, NEW u \in Homed, NEW batch \in Seq(Files), NEW j \in DOMAIN batch,
           \A k \in DOMAIN batch : batch[k] = batch[j] => k = j, Declares(t, batch[j], u)
    PROVE  SymbolOf(t, batch, u) = RowOf(t, batch[j], u)
<1>1. PICK i \in Files : i = batch[j] /\ Declares(t, i, u)
  OBVIOUS
<1>2. PICK J : J = {k \in DOMAIN batch : Declares(t, batch[k], u)}
  OBVIOUS
<1>3. J \intersect DOMAIN batch = {j}
  <2>1. ASSUME NEW k \in J PROVE k = j
    <3>1. k \in DOMAIN batch /\ batch[k] \in Files /\ Declares(t, batch[k], u)
      BY <1>2
    <3>2. batch[k] = batch[j]
      BY <1>1, <3>1, OneHome
    <3> QED
      BY <3>1, <3>2
  <2>2. j \in J
    BY <1>2
  <2> QED
    BY <2>1, <2>2
<1>4. Chosen(batch, J) = <<i>>
  BY <1>1, <1>3, ChosenOne
<1>5. PICK where : where = <<i>> /\ where \in Seq(Files) /\ DOMAIN where = 1..1 /\ where[1] = i
  <2>1. <<i>> \in Seq(Files) /\ Len(<<i>>) = 1 /\ <<i>>[1] = i
    OBVIOUS
  <2>2. PICK r : r = <<i>> /\ r \in Seq(Files) /\ Len(r) = 1 /\ r[1] = i
    BY <2>1
  <2>3. DOMAIN r = 1..1
    BY <2>2
  <2> QED
    BY <2>2, <2>3
<1>6. PICK K : K = {k \in DOMAIN where : t[where[k]].decls[u].def}
  OBVIOUS
<1>7. t[i].decls[u].def \in BOOLEAN
  BY <1>1, TreesHold DEF ContentOK, Declares
<1>8. Chosen(where, K) = IF t[i].decls[u].def THEN <<i>> ELSE <<>>
  <2>1. CASE t[i].decls[u].def
    <3>1. K \intersect DOMAIN where = {1}
      BY <1>5, <1>6, <2>1
    <3>2. Chosen(where, K) = <<where[1]>>
      BY <1>5, <3>1, ChosenOne
    <3> QED
      BY <1>5, <2>1, <3>2
  <2>2. CASE ~t[i].decls[u].def
    <3>1. K \intersect DOMAIN where = {}
      BY <1>5, <1>6, <2>2
    <3>2. Chosen(where, K) = <<>>
      BY <1>5, <3>1, ChosenNone
    <3> QED
      BY <2>2, <3>2
  <2> QED
    BY <2>1, <2>2
<1>9. PICK defs : defs = Chosen(where, K)
  OBVIOUS
<1>10. PICK raw : raw = RawComment(t, batch, u) /\ raw = t[i].decls[u].comment
  <2>1. i \in ToSet(batch)
    BY <1>1 DEF ToSet
  <2> QED
    BY <1>1, <2>1, RawOfHome
<1>11. SymbolOf(t, batch, u) =
           [row |-> [file |-> where[1], def |-> defs # <<>>, doc |-> raw # None,
                     sig |-> IF u \in Callables /\ defs # <<>>
                             THEN t[defs[1]].decls[u].sig ELSE t[where[1]].decls[u].sig],
            refs |-> t[where[1]].decls[u].refs, comment |-> raw]
  BY <1>2, <1>4, <1>5, <1>6, <1>9, <1>10 DEF SymbolOf
<1>12. (defs # <<>>) = t[i].decls[u].def /\ (defs # <<>> => defs[1] = i)
  BY <1>7, <1>8, <1>9
<1> QED
  BY <1>1, <1>5, <1>10, <1>11, <1>12 DEF RowOf

\* One write.
LEMMA UpsertedOnce ==
    ASSUME NEW x, NEW new, DOMAIN new = 1..1
    PROVE  UpsertedAll(x, new) = Upserted(x, new[1].row)
<1>1. ASSUME NEW n \in Nat, DOMAIN new = 1..n, 1 \in 1..n, \A k \in 1..n : k = n
      PROVE  UpsertedAll(x, new) = Upserted(x, new[1].row)
  <2>1. PICK g : /\ g[0] = x /\ \A k \in 1..n : g[k] = Upserted(g[k - 1], new[k].row)
                 /\ UpsertedAll(x, new) = g[n]
    BY <1>1, UpsertedSteps
  <2>2. g[1] = Upserted(g[0], new[1].row) /\ 1 = n
    BY <1>1, <2>1
  <2> QED
    BY <2>1, <2>2
<1> QED
  BY <1>1

\* A symbol that a module has once is written as it is, if it is not there yet.
LEMMA NewRows ==
    ASSUME NEW db, NEW u, u \notin DOMAIN db, NEW r, NEW i, NEW d \in BOOLEAN,
           NEW e \in BOOLEAN, NEW s, r.row = [file |-> i, def |-> d, doc |-> e, sig |-> s],
           r.refs \in Seq(Usrs)
    PROVE  SymbolRows(db, <<r>>, u) = RowsOf(r)
<1>1. PICK new : new = <<r>> /\ DOMAIN new = 1..1 /\ new[1] = r
  <2>1. <<r>> \in Seq({r}) /\ Len(<<r>>) = 1 /\ <<r>>[1] = r
    OBVIOUS
  <2>2. PICK q : q = <<r>> /\ q \in Seq({r}) /\ Len(q) = 1 /\ q[1] = r
    BY <2>1
  <2>3. DOMAIN q = 1..1
    BY <2>2
  <2> QED
    BY <2>2, <2>3
<1>2. Upserted(r.row, r.row) = r.row
  <2>1. PICK x : x = r.row /\ x = [file |-> i, def |-> d, doc |-> e, sig |-> s]
    OBVIOUS
  <2>2. (x.def \/ x.def) = x.def /\ (x.doc \/ x.doc) = x.doc
    BY <2>1
  <2>3. Upserted(x, x) = [x EXCEPT !.def = x.def, !.doc = x.doc]
    BY <2>2 DEF Upserted
  <2>4. [x EXCEPT !.def = x.def, !.doc = x.doc] = x
    BY <2>1
  <2> QED
    BY <2>1, <2>3, <2>4
<1>3. UpsertedAll(r.row, new) = r.row
  <2>1. PICK x : x = r.row /\ Upserted(x, new[1].row) = x
    BY <1>1, <1>2
  <2> QED
    BY <1>1, <2>1, UpsertedOnce
<1>4. PICK rs : rs = [k \in DOMAIN new |-> new[k].refs]
  OBVIOUS
<1>5. FlattenSeq(rs) = r.refs
  <2>1. rs \in Seq(Seq(Usrs)) /\ Len(rs) = 1 /\ rs[1] = r.refs
    BY <1>1, <1>4
  <2>2. PICK g : Partial(Usrs, g, rs, 1) /\ FlattenSeq(rs) = g[1]
    BY <2>1, FlattenSteps
  <2> QED
    BY <2>1, <2>2, PartialFirst
<1>6. <<>> \o r.refs = r.refs
  BY ConcatEmptySeq
<1>7. PICK said : said = [k \in DOMAIN new |-> new[k].comment]
  OBVIOUS
<1>8. said \in Seq({r.comment}) /\ DOMAIN said = 1..1 /\ said[1] = r.comment
  BY <1>1, <1>7
<1>9. PICK J : J = {k \in DOMAIN said : said[k] # None}
  OBVIOUS
<1>10. Chosen(said, J) = IF r.comment = None THEN <<>> ELSE <<r.comment>>
  <2>1. CASE r.comment = None
    <3>1. J \intersect DOMAIN said = {}
      BY <1>8, <1>9, <2>1
    <3> QED
      BY <1>8, <2>1, <3>1, ChosenNone
  <2>2. CASE r.comment # None
    <3>1. J \intersect DOMAIN said = {1}
      BY <1>8, <1>9, <2>2
    <3> QED
      BY <1>8, <2>2, <3>1, ChosenOne
  <2> QED
    BY <2>1, <2>2
<1>11. PICK docs : docs = Chosen(said, J)
  OBVIOUS
<1>12. SymbolRows(db, new, u) =
           [row |-> UpsertedAll(r.row, new), refs |-> <<>> \o FlattenSeq(rs),
            comment |-> IF docs = <<>> THEN None ELSE Last(docs),
            projected |-> Projected(<<>>, docs)]
  BY <1>1, <1>4, <1>7, <1>9, <1>11 DEF SymbolRows
<1>13. /\ Projected(<<>>, docs) = IF r.comment = None THEN <<>> ELSE <<r.comment>>
       /\ (IF docs = <<>> THEN None ELSE Last(docs)) = r.comment
  BY <1>10, <1>11 DEF Projected, Last
<1> QED
  BY <1>1, <1>3, <1>5, <1>6, <1>12, <1>13 DEF RowsOf

\* What a module does not have stays.
LEMMA OldRows ==
    ASSUME NEW db, NEW u \in DOMAIN db, NEW r, db[u] = RowsOf(r), r.refs \in Seq(Usrs)
    PROVE  SymbolRows(db, <<>>, u) = db[u]
<1>1. PICK old : old = db[u] /\ old = RowsOf(r)
  OBVIOUS
<1>2. PICK new : new = <<>> /\ DOMAIN new = 1..0
  OBVIOUS
<1>3. UpsertedAll(old.row, new) = old.row
  BY <1>2, UpsertedSteps
<1>4. PICK rs : rs = [k \in DOMAIN new |-> new[k].refs] /\ rs = <<>>
  BY <1>2
<1>5. FlattenSeq(rs) = <<>>
  BY <1>4 DEF FlattenSeq
<1>6. old.refs \o <<>> = old.refs
  BY <1>1, ConcatEmptySeq DEF RowsOf
<1>7. PICK said : said = [k \in DOMAIN new |-> new[k].comment] /\ said = <<>>
  BY <1>2
<1>8. PICK J : J = {k \in DOMAIN said : said[k] # None} /\ J \intersect DOMAIN said = {}
  <2>1. DOMAIN said = {}
    BY <1>7
  <2> QED
    BY <2>1
<1>9. PICK docs : docs = Chosen(said, J) /\ docs = <<>>
  <2>1. said \in Seq({None})
    BY <1>7
  <2> QED
    BY <1>8, <2>1, ChosenNone
<1>10. SymbolRows(db, new, u) =
           [row |-> UpsertedAll(old.row, new), refs |-> old.refs \o FlattenSeq(rs),
            comment |-> IF docs = <<>> THEN old.comment ELSE Last(docs),
            projected |-> Projected(old.projected, docs)]
  BY <1>1, <1>4, <1>7, <1>8, <1>9 DEF SymbolRows
<1>11. SymbolRows(db, new, u) =
           [row |-> old.row, refs |-> old.refs, comment |-> old.comment,
            projected |-> old.projected]
  BY <1>3, <1>5, <1>6, <1>9, <1>10 DEF Projected
<1>12. old = [row |-> old.row, refs |-> old.refs, comment |-> old.comment,
              projected |-> old.projected]
  BY <1>1 DEF RowsOf
<1> QED
  BY <1>1, <1>2, <1>11, <1>12

-----------------------------------------------------------------------------
(* A module of parts.                                                      *)

\* One part has a symbol, with this row.
InOnePart(parts, n, u, r) ==
    \E k \in 1..n : /\ u \in DOMAIN parts[k].symbols /\ parts[k].symbols[u] = r
                    /\ \A l \in 1..n : u \in DOMAIN parts[l].symbols => l = k

\* Such a symbol is inserted once.
LEMMA InsertedOnce ==
    ASSUME NEW db, NEW parts, NEW n \in Nat, DOMAIN parts = 1..n, NEW u, NEW r,
           InOnePart(parts, n, u, r)
    PROVE  /\ u \in DOMAIN InsertSymbols(db, parts)
           /\ InsertSymbols(db, parts)[u] = SymbolRows(db, <<r>>, u)
<1>0. PICK k \in 1..n : /\ u \in DOMAIN parts[k].symbols /\ parts[k].symbols[u] = r
                        /\ \A l \in 1..n : u \in DOMAIN parts[l].symbols => l = k
  BY DEF InOnePart
<1>1. PICK new : new = [l \in DOMAIN parts |-> parts[l].symbols]
  OBVIOUS
<1>2. /\ DOMAIN new = 1..n /\ new = [l \in 1..n |-> new[l]]
      /\ \A l \in 1..n : new[l] = parts[l].symbols
  BY <1>1
<1>3. Under(new, u) = <<new[k][u]>>
  BY <1>0, <1>2, UnderOne
<1>4. u \in Keys(new)
  BY <1>0, <1>2 DEF Keys
<1>5. InsertSymbols(db, parts) =
          [v \in DOMAIN db \union Keys(new) |-> SymbolRows(db, Under(new, v), v)]
  BY <1>1 DEF InsertSymbols
<1>6. PICK D : D = DOMAIN db \union Keys(new)
  OBVIOUS
<1>7. u \in D /\ InsertSymbols(db, parts) = [v \in D |-> SymbolRows(db, Under(new, v), v)]
  BY <1>4, <1>5, <1>6
<1> QED
  BY <1>0, <1>2, <1>3, <1>7

\* One that no part has is not.
LEMMA InsertedNone ==
    ASSUME NEW db, NEW parts, NEW n \in Nat, DOMAIN parts = 1..n, NEW u,
           \A l \in 1..n : u \notin DOMAIN parts[l].symbols
    PROVE  /\ u \in DOMAIN InsertSymbols(db, parts) <=> u \in DOMAIN db
           /\ u \in DOMAIN db => InsertSymbols(db, parts)[u] = SymbolRows(db, <<>>, u)
<1>1. PICK new : new = [l \in DOMAIN parts |-> parts[l].symbols]
  OBVIOUS
<1>2. /\ DOMAIN new = 1..n /\ new = [l \in 1..n |-> new[l]]
      /\ \A l \in 1..n : new[l] = parts[l].symbols
  BY <1>1
<1>3. Under(new, u) = <<>>
  BY <1>2, UnderNone
<1>4. u \notin Keys(new)
  BY <1>2 DEF Keys
<1>5. InsertSymbols(db, parts) =
          [v \in DOMAIN db \union Keys(new) |-> SymbolRows(db, Under(new, v), v)]
  BY <1>1 DEF InsertSymbols
<1>6. PICK D : D = DOMAIN db \union Keys(new)
  OBVIOUS
<1>7. /\ u \in D <=> u \in DOMAIN db
      /\ InsertSymbols(db, parts) = [v \in D |-> SymbolRows(db, Under(new, v), v)]
  BY <1>4, <1>5, <1>6
<1> QED
  BY <1>3, <1>7

\* The parts are those of the batches.
LEMMA PartsHold ==
    ASSUME NEW t, NEW I \in SUBSET InputSet, NEW size
    PROVE  \E bs : /\ Batched(bs, I) /\ DOMAIN Parts(t, I, size) = 1..Len(bs)
                   /\ \A k \in 1..Len(bs) : Parts(t, I, size)[k] = PartOf(t, bs[k])
<1>1. PICK bs : bs = Batches(I, size) /\ Batched(bs, I)
  BY BatchesHold
<1>2. Parts(t, I, size) = [k \in DOMAIN bs |-> PartOf(t, bs[k])]
  BY <1>1 DEF Parts
<1>3. DOMAIN bs = 1..Len(bs)
  BY <1>1 DEF Batched
<1> QED
  BY <1>1, <1>2, <1>3

\* The part of one batch has the symbols that its inputs declare.
LEMMA PartDeclares ==
    ASSUME NEW t, NEW batch, NEW u \in Usrs
    PROVE  /\ u \in DOMAIN PartOf(t, batch).symbols <=> \E f \in ToSet(batch) : Declares(t, f, u)
           /\ u \in DOMAIN PartOf(t, batch).symbols =>
                  PartOf(t, batch).symbols[u] = SymbolOf(t, batch, u)
<1>1. PICK D : D = {v \in Usrs : \E f \in ToSet(batch) : Declares(t, f, v)}
  OBVIOUS
<1>2. PartOf(t, batch).symbols = [v \in D |-> SymbolOf(t, batch, v)]
  BY <1>1 DEF PartOf
<1> QED
  BY <1>1, <1>2

\* One part has a symbol whose home is parsed, and has what its home says.
LEMMA HomeInParts ==
    ASSUME NEW t \in Trees, NEW I \in SUBSET InputSet, NEW size, NEW u \in Homed, NEW i \in I,
           Declares(t, i, u), NEW parts, parts = Parts(t, I, size), NEW n \in Nat, DOMAIN parts = 1..n
    PROVE  InOnePart(parts, n, u, RowOf(t, i, u))
<1>1. PICK bs : /\ Batched(bs, I) /\ DOMAIN parts = 1..Len(bs)
                /\ \A k \in 1..Len(bs) : parts[k] = PartOf(t, bs[k])
  BY PartsHold
<1>2. PICK N : N = 1..n /\ N = DOMAIN bs /\ \A k \in N : parts[k] = PartOf(t, bs[k])
  BY <1>1 DEF Batched
<1>3. u \in Usrs /\ I \subseteq Files
  BY InputsAreFiles DEF Homed
<1>4. PICK k \in N : \E j \in DOMAIN bs[k] : bs[k][j] = i
  BY <1>1, <1>2 DEF Batched
<1>5. PICK j \in DOMAIN bs[k] : bs[k][j] = i
  BY <1>4
<1>6. PICK batch \in Seq(Files) : batch = bs[k] /\ parts[k] = PartOf(t, batch)
  BY <1>1, <1>2 DEF Batched
<1>7. u \in DOMAIN parts[k].symbols /\ parts[k].symbols[u] = SymbolOf(t, batch, u)
  <2>1. i \in ToSet(batch)
    BY <1>5, <1>6 DEF ToSet
  <2> QED
    BY <1>3, <1>6, <2>1, PartDeclares
<1>8. SymbolOf(t, batch, u) = RowOf(t, i, u)
  <2>1. \A l \in DOMAIN batch : batch[l] = batch[j] => l = j
    BY <1>1, <1>2, <1>5, <1>6 DEF Batched
  <2> QED
    BY <1>5, <1>6, <2>1, SymbolOfHome
<1>9. ASSUME NEW l \in N, u \in DOMAIN parts[l].symbols PROVE l = k
  <2>1. PICK f \in ToSet(bs[l]) : Declares(t, f, u)
    BY <1>2, <1>3, <1>9, PartDeclares
  <2>2. PICK m \in DOMAIN bs[l] : bs[l][m] = f
    BY DEF ToSet
  <2>3. f \in I
    BY <1>1, <1>2, <2>2 DEF Batched
  <2>4. f = i
    BY <1>3, <2>1, <2>3, OneHome
  <2> QED
    BY <1>1, <1>2, <1>5, <2>2, <2>4 DEF Batched
<1> QED
  BY <1>2, <1>7, <1>8, <1>9 DEF InOnePart

\* No part has one that nothing parsed declares.
LEMMA StrangerInParts ==
    ASSUME NEW t, NEW I \in SUBSET InputSet, NEW size, NEW u \in Homed,
           \A i \in I : ~ Declares(t, i, u), NEW parts, parts = Parts(t, I, size),
           NEW n \in Nat, DOMAIN parts = 1..n
    PROVE  \A l \in 1..n : u \notin DOMAIN parts[l].symbols
<1>1. PICK bs : /\ Batched(bs, I) /\ DOMAIN parts = 1..Len(bs)
                /\ \A k \in 1..Len(bs) : parts[k] = PartOf(t, bs[k])
  BY PartsHold
<1>2. PICK N : N = 1..n /\ N = DOMAIN bs /\ \A k \in N : parts[k] = PartOf(t, bs[k])
  BY <1>1 DEF Batched
<1>3. u \in Usrs
  BY DEF Homed
<1>4. ASSUME NEW l \in N, u \in DOMAIN parts[l].symbols PROVE FALSE
  <2>1. PICK f \in ToSet(bs[l]) : Declares(t, f, u)
    BY <1>2, <1>3, <1>4, PartDeclares
  <2>2. PICK m \in DOMAIN bs[l] : bs[l][m] = f
    BY DEF ToSet
  <2>3. f \in I
    BY <1>1, <1>2, <2>2 DEF Batched
  <2> QED
    BY <2>1, <2>3
<1> QED
  BY <1>2, <1>4

\* A batch written alone.
LEMMA Alone ==
    ASSUME NEW db, NEW p, NEW e, e = InsertRows(db, <<p>>)
    PROVE  \E parts : \E n \in Nat :
               /\ DOMAIN parts = 1..n /\ 1 \in 1..n /\ \A l \in 1..n : l = 1
               /\ parts[1] = p /\ e.symbols = InsertSymbols(db.symbols, parts)
               /\ e.groups = InsertGroups(db.groups, parts)
<1>1. PICK parts : parts = <<p>> /\ DOMAIN parts = 1..1 /\ parts[1] = p
  <2>1. <<p>> \in Seq({p}) /\ Len(<<p>>) = 1 /\ <<p>>[1] = p
    OBVIOUS
  <2>2. PICK q : q = <<p>> /\ q \in Seq({p}) /\ Len(q) = 1 /\ q[1] = p
    BY <2>1
  <2>3. DOMAIN q = 1..1
    BY <2>2
  <2> QED
    BY <2>2, <2>3
<1>2. PICK n \in Nat : DOMAIN parts = 1..n /\ 1 \in 1..n /\ \A l \in 1..n : l = 1
  BY <1>1
<1>3. /\ e.symbols = InsertSymbols(db.symbols, parts)
      /\ e.groups = InsertGroups(db.groups, parts)
  BY <1>1 DEF InsertRows
<1> QED
  BY <1>1, <1>2, <1>3

\* One that has a symbol inserts it; one that has not leaves its rows.
LEMMA AddedPart ==
    ASSUME NEW db, NEW p, NEW u, u \in DOMAIN p.symbols, NEW e, e = InsertRows(db, <<p>>)
    PROVE  /\ u \in DOMAIN e.symbols
           /\ e.symbols[u] = SymbolRows(db.symbols, <<p.symbols[u]>>, u)
<1>1. PICK parts : \E n \in Nat :
          /\ DOMAIN parts = 1..n /\ 1 \in 1..n /\ \A l \in 1..n : l = 1
          /\ parts[1] = p /\ e.symbols = InsertSymbols(db.symbols, parts)
  BY Alone
<1>2. PICK n \in Nat :
          /\ DOMAIN parts = 1..n /\ 1 \in 1..n /\ \A l \in 1..n : l = 1
          /\ parts[1] = p /\ e.symbols = InsertSymbols(db.symbols, parts)
  BY <1>1
<1>3. PICK ds : ds = db.symbols
  OBVIOUS
<1>4. DOMAIN parts = 1..n /\ 1 \in 1..n /\ \A l \in 1..n : l = 1
  BY <1>2
<1>5. PICK r : r = p.symbols[u]
  OBVIOUS
<1>6. InOnePart(parts, n, u, r)
  BY <1>2, <1>5 DEF InOnePart
<1>7. u \in DOMAIN InsertSymbols(ds, parts) /\ InsertSymbols(ds, parts)[u] = SymbolRows(ds, <<r>>, u)
  BY <1>4, <1>6, InsertedOnce
<1> QED
  BY <1>2, <1>3, <1>5, <1>7

\* A part without a symbol leaves it as a module without that symbol would.
LEMMA KeptPart ==
    ASSUME NEW db, NEW p, NEW u, u \notin DOMAIN p.symbols, NEW e, e = InsertRows(db, <<p>>)
    PROVE  /\ u \in DOMAIN e.symbols <=> u \in DOMAIN db.symbols
           /\ u \in DOMAIN db.symbols => e.symbols[u] = SymbolRows(db.symbols, <<>>, u)
<1>1. PICK parts : \E n \in Nat :
          /\ DOMAIN parts = 1..n /\ 1 \in 1..n /\ \A l \in 1..n : l = 1
          /\ parts[1] = p /\ e.symbols = InsertSymbols(db.symbols, parts)
  BY Alone
<1>2. PICK n \in Nat :
          /\ DOMAIN parts = 1..n /\ 1 \in 1..n /\ \A l \in 1..n : l = 1
          /\ parts[1] = p /\ e.symbols = InsertSymbols(db.symbols, parts)
  BY <1>1
<1>3. PICK ds : ds = db.symbols
  OBVIOUS
<1>4. \A l \in 1..n : u \notin DOMAIN parts[l].symbols
  BY <1>2
<1>5. /\ u \in DOMAIN InsertSymbols(ds, parts) <=> u \in DOMAIN ds
      /\ u \in DOMAIN ds => InsertSymbols(ds, parts)[u] = SymbolRows(ds, <<>>, u)
  BY <1>2, <1>4, InsertedNone
<1> QED
  BY <1>2, <1>3, <1>5

\* What a home says makes rows that are written as they are, and kept.
LEMMA RowOfHolds ==
    ASSUME NEW t \in Trees, NEW u \in Usrs, NEW i \in Files, Declares(t, i, u), NEW r,
           r = RowOf(t, i, u)
    PROVE  /\ r.refs \in Seq(Usrs) /\ r.row.file = i
           /\ \A db : u \notin DOMAIN db => SymbolRows(db, <<r>>, u) = RowsOf(r)
<1>1. PICK d : d = t[i].decls[u] /\ d.def \in BOOLEAN /\ d.refs \in Seq(Usrs)
  BY TreesHold DEF ContentOK, Declares
<1>2. PICK e \in BOOLEAN : e = (d.comment # None)
  OBVIOUS
<1>3. /\ r.row = [file |-> i, def |-> d.def, doc |-> e, sig |-> d.sig]
      /\ r.refs = d.refs
  BY <1>1, <1>2 DEF RowOf
<1>4. ASSUME NEW db, u \notin DOMAIN db PROVE SymbolRows(db, <<r>>, u) = RowsOf(r)
  BY <1>1, <1>2, <1>3, <1>4, NewRows
<1> QED
  BY <1>1, <1>3, <1>4

\* A symbol has the rows its home gives it, and if it has none, no rows.
HasHome(t, rows, u) ==
    /\ \A i \in InputSet : Declares(t, i, u) =>
           u \in DOMAIN rows /\ rows[u] = RowsOf(RowOf(t, i, u))
    /\ (\A i \in InputSet : ~ Declares(t, i, u)) => u \notin DOMAIN rows

\* A full parse gives it those.
LEMMA FullHasHome ==
    ASSUME NEW t \in Trees, NEW u \in Homed
    PROVE  HasHome(t, FullRows(t).symbols, u)
<1>1. PICK parts : parts = Parts(t, InputSet, FullBatch)
  OBVIOUS
<1>2. PICK n \in Nat : DOMAIN parts = 1..n
  <2>1. PICK bs : Batched(bs, InputSet) /\ DOMAIN parts = 1..Len(bs)
    BY <1>1, PartsHold
  <2>2. Len(bs) \in Nat
    BY <2>1 DEF Batched
  <2> QED
    BY <2>1, <2>2
<1>3. PICK g : /\ g[0] = NoRows /\ \A k \in 1..n : g[k] = InsertRows(g[k - 1], <<parts[k]>>)
               /\ FullRows(t) = g[n]
  <2>1. \E db : IsInserted(db, t, parts, n)
    BY <1>1, <1>2, InsertedSteps
  <2> QED
    BY <2>1 DEF IsInserted
<1>4. u \in Usrs
  BY DEF Homed
<1>5. u \notin DOMAIN g[0].symbols
  BY <1>3 DEF NoRows
<1>6. ASSUME NEW i \in InputSet, Declares(t, i, u)
      PROVE  u \in DOMAIN g[n].symbols /\ g[n].symbols[u] = RowsOf(RowOf(t, i, u))
  <2>1. PICK k \in 1..n :
            /\ u \in DOMAIN parts[k].symbols /\ parts[k].symbols[u] = RowOf(t, i, u)
            /\ \A l \in 1..n : u \in DOMAIN parts[l].symbols => l = k
    <3>1. InOnePart(parts, n, u, RowOf(t, i, u))
      BY <1>1, <1>2, <1>6, HomeInParts
    <3> QED
      BY <3>1 DEF InOnePart
  <2>2. PICK r : r = RowOf(t, i, u)
    OBVIOUS
  <2>3. /\ r.refs \in Seq(Usrs)
        /\ \A db : u \notin DOMAIN db => SymbolRows(db, <<r>>, u) = RowsOf(r)
    BY <1>4, <1>6, <2>2, InputsAreFiles, RowOfHolds
  <2> DEFINE P == {m \in 0..n :
                      /\ m < k => u \notin DOMAIN g[m].symbols
                      /\ ~ (m < k) => u \in DOMAIN g[m].symbols /\ g[m].symbols[u] = RowsOf(r)}
  <2>4. 0 \in P
    BY <1>5
  <2>5. ASSUME NEW m \in 0..(n - 1), m \in P PROVE m + 1 \in P
    <3>1. m + 1 \in 1..n /\ g[m + 1] = InsertRows(g[m], <<parts[m + 1]>>)
      BY <1>3
    <3>2. PICK db : db = g[m]
      OBVIOUS
    <3>3. PICK p : p = parts[m + 1] /\ g[m + 1] = InsertRows(db, <<p>>)
      BY <3>1, <3>2
    <3>4. CASE m + 1 = k
      <4>1. u \notin DOMAIN db.symbols
        BY <2>5, <3>2, <3>4
      <4>2. u \in DOMAIN p.symbols /\ p.symbols[u] = r
        BY <2>1, <2>2, <3>3, <3>4
      <4>3. u \in DOMAIN g[m + 1].symbols /\ g[m + 1].symbols[u] = RowsOf(r)
        <5>1. PICK e : e = g[m + 1] /\ e = InsertRows(db, <<p>>)
          BY <3>3
        <5>2. /\ u \in DOMAIN e.symbols
              /\ e.symbols[u] = SymbolRows(db.symbols, <<p.symbols[u]>>, u)
          BY <4>2, <5>1, AddedPart
        <5>3. PICK ds : ds = db.symbols
          OBVIOUS
        <5>4. SymbolRows(ds, <<r>>, u) = RowsOf(r)
          BY <2>3, <4>1, <5>3
        <5> QED
          BY <4>2, <5>1, <5>2, <5>3, <5>4
      <4> QED
        BY <3>1, <3>4, <4>3
    <3>5. CASE m + 1 # k
      <4>1. u \notin DOMAIN p.symbols
        BY <2>1, <3>1, <3>3, <3>5
      <4>2. /\ u \in DOMAIN g[m + 1].symbols <=> u \in DOMAIN db.symbols
            /\ u \in DOMAIN db.symbols => g[m + 1].symbols[u] = SymbolRows(db.symbols, <<>>, u)
        <5>1. PICK e : e = g[m + 1] /\ e = InsertRows(db, <<p>>)
          BY <3>3
        <5>2. /\ u \in DOMAIN e.symbols <=> u \in DOMAIN db.symbols
              /\ u \in DOMAIN db.symbols => e.symbols[u] = SymbolRows(db.symbols, <<>>, u)
          BY <4>1, <5>1, KeptPart
        <5> QED
          BY <5>1, <5>2
      <4>3. CASE m < k
        <5>1. m + 1 < k
          BY <3>5, <4>3
        <5> QED
          BY <2>5, <3>1, <3>2, <4>2, <4>3, <5>1
      <4>4. CASE ~ (m < k)
        <5>1. u \in DOMAIN db.symbols /\ db.symbols[u] = RowsOf(r)
          BY <2>5, <3>2, <4>4
        <5>2. SymbolRows(db.symbols, <<>>, u) = RowsOf(r)
          <6>1. PICK ds : ds = db.symbols
            OBVIOUS
          <6> QED
            BY <2>3, <5>1, <6>1, OldRows
        <5> QED
          BY <3>1, <4>2, <4>4, <5>1, <5>2
      <4> QED
        BY <4>3, <4>4
    <3> QED
      BY <3>4, <3>5
  <2>6. 0..n \subseteq P
    <3> HIDE DEF P
    <3> QED
      BY <2>4, <2>5, UpTo
  <2> QED
    BY <2>2, <2>6
<1>7. ASSUME \A i \in InputSet : ~ Declares(t, i, u)
      PROVE  u \notin DOMAIN g[n].symbols
  <2>1. \A l \in 1..n : u \notin DOMAIN parts[l].symbols
    BY <1>1, <1>2, <1>7, StrangerInParts
  <2> DEFINE P == {m \in 0..n : u \notin DOMAIN g[m].symbols}
  <2>2. 0 \in P
    BY <1>5
  <2>3. ASSUME NEW m \in 0..(n - 1), m \in P PROVE m + 1 \in P
    <3>1. m + 1 \in 1..n /\ g[m + 1] = InsertRows(g[m], <<parts[m + 1]>>)
      BY <1>3
    <3>2. PICK db : db = g[m]
      OBVIOUS
    <3>3. PICK p : p = parts[m + 1] /\ g[m + 1] = InsertRows(db, <<p>>)
      BY <3>1, <3>2
    <3>4. u \notin DOMAIN p.symbols
      BY <2>1, <3>1, <3>3
    <3>5. u \in DOMAIN g[m + 1].symbols <=> u \in DOMAIN db.symbols
      BY <3>3, <3>4, KeptPart
    <3> QED
      BY <2>3, <3>1, <3>2, <3>5
  <2>4. 0..n \subseteq P
    <3> HIDE DEF P
    <3> QED
      BY <2>2, <2>3, UpTo
  <2> QED
    BY <2>4
<1> QED
  BY <1>3, <1>6, <1>7 DEF HasHome

-----------------------------------------------------------------------------
(* A partial parse.                                                        *)

\* Dropping rows of files keeps all others as they are.
LEMMA WithoutIs ==
    ASSUME NEW rows, NEW gone, NEW u
    PROVE  /\ u \in DOMAIN Without(rows, gone) <=>
                  u \in DOMAIN rows /\ rows[u].row.file \notin gone
           /\ u \in DOMAIN Without(rows, gone) => Without(rows, gone)[u] = rows[u]
<1>1. PICK D : D = {v \in DOMAIN rows : rows[v].row.file \notin gone}
  OBVIOUS
<1>2. Without(rows, gone) = [v \in D |-> rows[v]]
  BY <1>1 DEF Without
<1> QED
  BY <1>1, <1>2

\* The row of a symbol is of a file of the batch.
LEMMA FileInBatch ==
    ASSUME NEW t, NEW batch \in Seq(Files), NEW u, NEW f \in ToSet(batch), Declares(t, f, u)
    PROVE  SymbolOf(t, batch, u).row.file \in ToSet(batch)
<1>1. PICK J : J = {k \in DOMAIN batch : Declares(t, batch[k], u)}
  OBVIOUS
<1>2. PICK where \in Seq(Files) : /\ where = Chosen(batch, J)
                                  /\ ToSet(where) = {batch[k] : k \in J \intersect DOMAIN batch}
  BY ChosenPlaces, ChosenSet
<1>3. SymbolOf(t, batch, u).row.file = where[1]
  BY <1>1, <1>2 DEF SymbolOf
<1>4. f \in ToSet(where)
  BY <1>1, <1>2 DEF ToSet
<1>5. PICK m \in DOMAIN where : where[m] = f
  BY <1>4 DEF ToSet
<1>6. 1 \in DOMAIN where
  BY <1>5
<1>7. where[1] \in ToSet(where)
  BY <1>6 DEF ToSet
<1>8. ToSet(where) \subseteq ToSet(batch)
  BY <1>2 DEF ToSet
<1> QED
  BY <1>3, <1>7, <1>8

\* What a partial parse replaces is the rows of the inputs it parses.
LEMMA ReplacesStale ==
    ASSUME NEW t, NEW I \in SUBSET InputSet, NEW size
    PROVE  ReplacedFiles(I, Parts(t, I, size)) = I
<1>1. PICK parts : parts = Parts(t, I, size)
  OBVIOUS
<1>2. PICK bs : /\ Batched(bs, I) /\ DOMAIN parts = 1..Len(bs)
                /\ \A k \in 1..Len(bs) : parts[k] = PartOf(t, bs[k])
  BY <1>1, PartsHold
<1>3. ASSUME NEW p \in ToSet(parts), NEW u \in DOMAIN p.symbols
      PROVE  p.symbols[u].row.file \in I
  <2>1. PICK k \in DOMAIN parts : parts[k] = p
    BY DEF ToSet
  <2>2. k \in DOMAIN bs /\ p = PartOf(t, bs[k])
    BY <1>2, <2>1 DEF Batched
  <2>3. PICK batch \in Seq(Files) : batch = bs[k] /\ p = PartOf(t, batch)
    BY <1>2, <2>2 DEF Batched
  <2>4. ToSet(batch) \subseteq I
    BY <1>2, <2>2, <2>3 DEF Batched, ToSet
  <2>5. u \in Usrs
    BY <1>3, <2>3 DEF PartOf
  <2>6. /\ \E f \in ToSet(batch) : Declares(t, f, u)
        /\ p.symbols[u] = SymbolOf(t, batch, u)
    BY <1>3, <2>3, <2>5, PartDeclares
  <2> QED
    BY <2>4, <2>6, FileInBatch
<1>4. UNION {{p.symbols[u].row.file : u \in DOMAIN p.symbols} : p \in ToSet(parts)} \subseteq I
  BY <1>3
<1> QED
  BY <1>1, <1>4 DEF ReplacedFiles

\* No input vanishes that is not parsed, and what is not parsed is as it was.
LEMMA OthersAre ==
    ASSUME NEW t \in Trees, NEW next \in Trees, NEW i \in InputSet \ Stale(t, next)
    PROVE  i \notin Vanished(t, next, Stale(t, next)) /\ next[i] = t[i]
<1>1. i \in Files /\ i \in Closure(t, i)
  BY InputsAreFiles, ClosureIsClosed
<1>2. next[i] = t[i]
  BY <1>1 DEF Stale
<1>3. i \in Reached(t, InputSet \ Stale(t, next))
  BY <1>1 DEF Reached
<1> QED
  BY <1>2, <1>3 DEF Vanished

(* Strengthening: of the symbols with one home, the rows are that home's.  *)
HomeInv == Parsed => tree \in Trees /\ \A u \in Homed : HasHome(tree, symbols, u)

\* A partial parse: rows of stale files are read anew, the others are kept.
LEMMA PartialKeepsHomes ==
    ASSUME HomeInv, NEW next \in Trees, PartialParse(next)
    PROVE  HomeInv'
<1>1. tree \in Trees /\ \A u \in Homed : HasHome(tree, symbols, u)
  BY DEF HomeInv, Parsed, PartialParse
<1>2. PICK stale : stale = Stale(tree, next) /\ stale \in SUBSET InputSet
  BY DEF Stale
<1>3. PICK parts : parts = Parts(next, stale, PartBatch)
  OBVIOUS
<1>4. PICK n \in Nat : DOMAIN parts = 1..n
  <2>1. PICK bs : Batched(bs, stale) /\ DOMAIN parts = 1..Len(bs)
    BY <1>2, <1>3, PartsHold
  <2>2. Len(bs) \in Nat
    BY <2>1 DEF Batched
  <2> QED
    BY <2>1, <2>2
<1>5. PICK gone : /\ gone = ReplacedFiles(stale, parts) \union Vanished(tree, next, stale)
                  /\ stale \subseteq gone
                  /\ \A i \in InputSet \ stale : i \notin gone /\ next[i] = tree[i]
  <2>1. ReplacedFiles(stale, parts) = stale
    BY <1>2, <1>3, ReplacesStale
  <2>2. \A i \in InputSet \ stale : i \notin Vanished(tree, next, stale) /\ next[i] = tree[i]
    BY <1>1, <1>2, OthersAre
  <2> QED
    BY <2>1, <2>2
<1>6. PICK kept : kept = Without(symbols, gone)
  OBVIOUS
<1>7. tree' = next /\ symbols' = InsertSymbols(kept, parts)
  BY <1>2, <1>3, <1>5, <1>6 DEF PartialParse, InsertRows
<1>8. ASSUME NEW u \in Homed PROVE HasHome(next, InsertSymbols(kept, parts), u)
  <2>1. u \in Usrs
    BY DEF Homed
  <2>2. ASSUME u \in DOMAIN kept
        PROVE  \E i \in InputSet \ stale : Declares(tree, i, u) /\ Declares(next, i, u)
    <3>1. u \in DOMAIN symbols /\ symbols[u].row.file \notin gone
      BY <1>6, <2>2, WithoutIs
    <3>2. PICK i \in InputSet : Declares(tree, i, u) /\ symbols[u] = RowsOf(RowOf(tree, i, u))
      BY <1>1, <3>1 DEF HasHome
    <3>3. symbols[u].row.file = i
      BY <3>2 DEF RowsOf, RowOf
    <3>4. i \in InputSet \ stale
      BY <1>5, <3>1, <3>3
    <3> QED
      BY <1>5, <3>2, <3>4 DEF Declares
  <2>3. ASSUME NEW i \in InputSet, Declares(next, i, u)
        PROVE  /\ u \in DOMAIN InsertSymbols(kept, parts)
               /\ InsertSymbols(kept, parts)[u] = RowsOf(RowOf(next, i, u))
    <3>1. ASSUME NEW j \in InputSet, Declares(next, j, u) PROVE j = i
      BY <2>3, <3>1, InputsAreFiles, OneHome
    <3>2. PICK r : r = RowOf(next, i, u) /\ r.refs \in Seq(Usrs)
      BY <2>1, <2>3, InputsAreFiles, RowOfHolds
    <3>3. CASE i \in stale
      <4>1. u \notin DOMAIN kept
        BY <2>2, <3>1, <3>3
      <4>2. SymbolRows(kept, <<r>>, u) = RowsOf(r)
        BY <2>1, <2>3, <3>2, <4>1, InputsAreFiles, RowOfHolds
      <4>3. InOnePart(parts, n, u, RowOf(next, i, u))
        BY <1>2, <1>3, <1>4, <2>3, <3>3, HomeInParts
      <4>4. InOnePart(parts, n, u, r)
        BY <3>2, <4>3
      <4> QED
        BY <1>4, <3>2, <4>2, <4>4, InsertedOnce
    <3>4. CASE i \notin stale
      <4>1. Declares(tree, i, u) /\ RowOf(tree, i, u) = r /\ i \notin gone
        BY <1>5, <2>3, <3>2, <3>4 DEF Declares, RowOf
      <4>2. u \in DOMAIN symbols /\ symbols[u] = RowsOf(r)
        BY <1>1, <4>1 DEF HasHome
      <4>3. symbols[u].row.file = i
        BY <3>2, <4>2 DEF RowsOf, RowOf
      <4>4. u \in DOMAIN kept /\ kept[u] = RowsOf(r)
        BY <1>6, <4>1, <4>2, <4>3, WithoutIs
      <4>5. \A l \in 1..n : u \notin DOMAIN parts[l].symbols
        <5>1. \A j \in stale : ~ Declares(next, j, u)
          BY <1>2, <3>1, <3>4
        <5> QED
          BY <1>2, <1>3, <1>4, <5>1, StrangerInParts
      <4>6. SymbolRows(kept, <<>>, u) = RowsOf(r)
        BY <3>2, <4>4, OldRows
      <4> QED
        BY <1>4, <3>2, <4>4, <4>5, <4>6, InsertedNone
    <3> QED
      BY <3>3, <3>4
  <2>4. ASSUME \A i \in InputSet : ~ Declares(next, i, u)
        PROVE  u \notin DOMAIN InsertSymbols(kept, parts)
    <3>1. u \notin DOMAIN kept
      BY <2>2, <2>4
    <3>2. \A l \in 1..n : u \notin DOMAIN parts[l].symbols
      BY <1>2, <1>3, <1>4, <2>4, StrangerInParts
    <3> QED
      BY <1>4, <3>1, <3>2, InsertedNone
  <2> QED
    BY <2>3, <2>4 DEF HasHome
<1> QED
  BY <1>7, <1>8 DEF HomeInv

\* A symbol that no two files ever declare at once has after any sequence of full
\* and partial parses the rows of a full parse of the tree, whichever files it has
\* moved between, and none once it is gone (HomedAsFull): the partial parse deletes
\* neither too little nor too much, and writes nothing twice.
THEOREM HomedRowsAreAsFull == Spec => []HomedAsFull
<1>1. Init => HomeInv
  BY DEF Init, HomeInv, Parsed
<1>2. HomeInv /\ [Next]_vars => HomeInv'
  <2> SUFFICES ASSUME HomeInv, [Next]_vars PROVE HomeInv'
    OBVIOUS
  <2>1. ASSUME NEW next \in Trees, FullParse(next) PROVE HomeInv'
    <3>1. tree' = next /\ symbols' = FullRows(next).symbols
      BY <2>1 DEF FullParse
    <3>2. \A u \in Homed : HasHome(next, FullRows(next).symbols, u)
      BY FullHasHome
    <3> QED
      BY <3>1, <3>2 DEF HomeInv
  <2>2. ASSUME NEW next \in Trees, PartialParse(next) PROVE HomeInv'
    BY <2>2, PartialKeepsHomes
  <2>3. CASE UNCHANGED vars
    BY <2>3 DEF vars, HomeInv, Parsed
  <2> QED
    BY <2>1, <2>2, <2>3 DEF Next
<1>3. HomeInv => HomedAsFull
  <2> SUFFICES ASSUME HomeInv, Parsed, NEW u \in Homed
               PROVE  /\ u \in DOMAIN symbols <=> u \in DOMAIN FullRows(tree).symbols
                      /\ u \in DOMAIN symbols => symbols[u] = FullRows(tree).symbols[u]
    BY DEF HomedAsFull
  <2>1. HasHome(tree, symbols, u) /\ HasHome(tree, FullRows(tree).symbols, u)
    BY FullHasHome DEF HomeInv
  <2> QED
    BY <2>1 DEF HasHome
<1> QED
  BY <1>1, <1>2, <1>3, PTL DEF Spec

-----------------------------------------------------------------------------
(* The groups: rows that are merged.                                       *)

\* What is chosen of a list: where the m entries of c are from, each from a place
\* of its own.
From(c, m, p, s, n, J) ==
    /\ DOMAIN c = 1..m
    /\ \A k \in 1..m : p[k] \in J /\ p[k] \in 1..n /\ c[k] = s[p[k]]
    /\ \A k \in 1..m : \A l \in 1..m : p[k] = p[l] => k = l
    /\ \A j \in 1..n : j \in J => \E k \in 1..m : p[k] = j

\* A choice from a list has such places.
LEMMA ChosenFrom ==
    ASSUME NEW s, NEW n \in Nat, DOMAIN s = 1..n, s = [k \in 1..n |-> s[k]], NEW J
    PROVE  \E m \in Nat : \E p : From(Chosen(s, J), m, p, s, n, J)
<1>1. PICK S : S = {s[l] : l \in 1..n}
  OBVIOUS
<1>2. s \in Seq(S)
  BY <1>1
<1>3. PICK c \in Seq(S) : c = Chosen(s, J) /\ \E p : Places(c, p, s, J \intersect DOMAIN s)
  BY <1>2, ChosenPlaces
<1>4. PICK p : Places(c, p, s, J \intersect DOMAIN s)
  BY <1>3
<1>5. PICK m \in Nat : m = Len(c) /\ DOMAIN c = 1..m
  OBVIOUS
<1>6. \A k \in 1..m : p[k] \in J /\ p[k] \in 1..n /\ c[k] = s[p[k]]
  BY <1>4, <1>5 DEF Places
<1>7. ASSUME NEW k \in 1..m, NEW l \in 1..m, p[k] = p[l] PROVE k = l
  <2>1. p[k] \in Nat /\ p[l] \in Nat
    BY <1>6
  <2>2. (k < l => p[k] < p[l]) /\ (l < k => p[l] < p[k])
    BY <1>4, <1>5 DEF Places
  <2> QED
    BY <1>7, <2>1, <2>2
<1>8. \A j \in 1..n : j \in J => \E k \in 1..m : p[k] = j
  BY <1>4, <1>5 DEF Places
<1>9. From(c, m, p, s, n, J)
  BY <1>5, <1>6, <1>7, <1>8 DEF From
<1> QED
  BY <1>3, <1>9

\* The row of a group whose text T a \defgroup has given.
Defined(T) == [text |-> T, def |-> TRUE]

\* Of these rows one is that, and no other is of a \defgroup; or none is.
OneRow(rows, n, T) ==
    \E j \in 1..n : rows[j] = Defined(T) /\ \A k \in 1..n : k # j => rows[k].def = FALSE
NoRow(rows, n) == \A k \in 1..n : rows[k].def = FALSE

\* It outlives a row that is of none, and comes through.
LEMMA MergedOne ==
    ASSUME NEW T, T # None, NEW r, r.def = FALSE
    PROVE  Merged(Defined(T), r) = Defined(T)
BY DEF Merged, Defined

\* Merged into any row, it takes its place.
LEMMA MergedDefined ==
    ASSUME NEW T, T # None, NEW r
    PROVE  Merged(r, Defined(T)) = Defined(T)
BY DEF Merged, Defined

\* What a \defgroup has said stays when nothing more than \addtogroup blocks come;
\* it comes through wherever it is; and without it no row is of one.
LEMMA MergedKeeps ==
    ASSUME NEW T, T # None, NEW rows, NEW n \in Nat, DOMAIN rows = 1..n, NoRow(rows, n)
    PROVE  MergedAll(Defined(T), rows) = Defined(T)
<1>1. PICK g : Merges(g, Defined(T), rows, n) /\ MergedAll(Defined(T), rows) = g[n]
  BY MergedSteps
<1> DEFINE P == {k \in 0..n : g[k] = Defined(T)}
<1>2. 0 \in P
  BY <1>1 DEF Merges
<1>3. ASSUME NEW k \in 0..(n - 1), k \in P PROVE k + 1 \in P
  <2>1. k + 1 \in 1..n /\ g[k + 1] = Merged(g[k], rows[k + 1])
    BY <1>1 DEF Merges
  <2>2. g[k] = Defined(T) /\ rows[k + 1].def = FALSE
    BY <1>3, <2>1 DEF NoRow
  <2>3. Merged(g[k], rows[k + 1]) = Defined(T)
    BY <2>2, MergedOne
  <2> QED
    BY <2>1, <2>3
<1>4. 0..n \subseteq P
  <2> HIDE DEF P
  <2> QED
    BY <1>2, <1>3, UpTo
<1> QED
  BY <1>1, <1>4

\* With one row of a \defgroup among others of none, the merge is that one.
LEMMA MergedTakes ==
    ASSUME NEW T, T # None, NEW rows, NEW n \in Nat, DOMAIN rows = 1..n, OneRow(rows, n, T),
           NEW old
    PROVE  MergedAll(old, rows) = Defined(T)
<1>1. PICK g : Merges(g, old, rows, n) /\ MergedAll(old, rows) = g[n]
  BY MergedSteps
<1>2. PICK j \in 1..n : rows[j] = Defined(T) /\ \A k \in 1..n : k # j => rows[k].def = FALSE
  BY DEF OneRow
<1> DEFINE P == {k \in 0..n : k >= j => g[k] = Defined(T)}
<1>3. 0 \in P
  OBVIOUS
<1>4. ASSUME NEW k \in 0..(n - 1), k \in P PROVE k + 1 \in P
  <2>1. k + 1 \in 1..n /\ g[k + 1] = Merged(g[k], rows[k + 1])
    BY <1>1 DEF Merges
  <2>2. CASE k + 1 < j
    BY <2>1, <2>2
  <2>3. CASE k + 1 = j
    <3>1. PICK x : x = g[k]
      OBVIOUS
    <3>2. Merged(x, Defined(T)) = Defined(T)
      BY MergedDefined
    <3> QED
      BY <1>2, <2>1, <2>3, <3>1, <3>2
  <2>4. CASE k + 1 > j
    <3>1. g[k] = Defined(T) /\ rows[k + 1].def = FALSE
      BY <1>2, <1>4, <2>1, <2>4
    <3>2. Merged(g[k], rows[k + 1]) = Defined(T)
      BY <3>1, MergedOne
    <3> QED
      BY <2>1, <3>2
  <2> QED
    BY <2>2, <2>3, <2>4
<1>5. 0..n \subseteq P
  <2> HIDE DEF P
  <2> QED
    BY <1>3, <1>4, UpTo
<1> QED
  BY <1>1, <1>5

\* Merging rows of no \defgroup makes none.
LEMMA MergedStub ==
    ASSUME NEW rows, NEW n \in Nat, DOMAIN rows = 1..n, NoRow(rows, n), NEW old, old.def = FALSE
    PROVE  MergedAll(old, rows).def = FALSE
<1>1. PICK g : Merges(g, old, rows, n) /\ MergedAll(old, rows) = g[n]
  BY MergedSteps
<1> DEFINE P == {k \in 0..n : g[k].def = FALSE}
<1>2. 0 \in P
  BY <1>1 DEF Merges
<1>3. ASSUME NEW k \in 0..(n - 1), k \in P PROVE k + 1 \in P
  <2>1. k + 1 \in 1..n /\ g[k + 1] = Merged(g[k], rows[k + 1])
    BY <1>1 DEF Merges
  <2>2. g[k].def = FALSE /\ rows[k + 1].def = FALSE
    BY <1>3, <2>1 DEF NoRow
  <2>3. Merged(g[k], rows[k + 1]).def = FALSE
    BY <2>2 DEF Merged
  <2> QED
    BY <2>1, <2>3
<1>4. 0..n \subseteq P
  <2> HIDE DEF P
  <2> QED
    BY <1>2, <1>3, UpTo
<1> QED
  BY <1>1, <1>4

-----------------------------------------------------------------------------
(* The groups of a batch, and of a module.                                 *)

\* An owned group has one defining input.
LEMMA OneDefiner ==
    ASSUME NEW t \in Trees, NEW g \in Owned, NEW i \in Defining(t, g), NEW h \in Defining(t, g)
    PROVE  i = h
<1>1. PICK S : S = Defining(t, g)
  OBVIOUS
<1>2. Cardinality(S) <= 1
  BY <1>1 DEF Owned
<1>3. IsFiniteSet(S)
  <2>1. S \subseteq Files
    BY <1>1, InputsAreFiles DEF Defining
  <2> QED
    BY <2>1, RowsAssumption, FS_Subset
<1> QED
  BY <1>1, <1>2, <1>3, AtMostOne

\* The m blocks of a group in a batch: where they are from, and which of them is
\* of a \defgroup.
BlocksFrom(blocks, m, p, t, batch, g) ==
    /\ DOMAIN blocks = 1..m
    /\ \A k \in 1..m :
           /\ p[k] \in DOMAIN batch
           /\ batch[p[k]] \in Defining(t, g) => blocks[k] = Defined(t[batch[p[k]]].block.text)
           /\ batch[p[k]] \notin Defining(t, g) => blocks[k].def = FALSE
    /\ \A k \in 1..m : \A l \in 1..m : p[k] = p[l] => k = l
    /\ \A j \in DOMAIN batch : batch[j] \in Defining(t, g) => \E k \in 1..m : p[k] = j

\* The blocks of a group in a batch have such places.
LEMMA BlocksAre ==
    ASSUME NEW t \in Trees, NEW batch \in Seq(Files), ToSet(batch) \subseteq InputSet, NEW g,
           NEW blocks, blocks = BlocksOf(t, batch, g)
    PROVE  \E m \in Nat : \E p : BlocksFrom(blocks, m, p, t, batch, g)
<1>1. PICK J : J = {k \in DOMAIN batch : LET block == t[batch[k]].block
                                        IN  block # None /\ block.group = g}
  OBVIOUS
<1>2. PICK n \in Nat : n = Len(batch) /\ DOMAIN batch = 1..n
  OBVIOUS
<1>3. PICK where : where = Chosen(batch, J)
  OBVIOUS
<1>4. PICK m \in Nat : \E p : From(where, m, p, batch, n, J)
  <2>1. batch = [k \in 1..n |-> batch[k]]
    BY <1>2
  <2> QED
    BY <1>2, <1>3, <2>1, ChosenFrom
<1>5. PICK p : From(where, m, p, batch, n, J)
  BY <1>4
<1>6. blocks = [k \in DOMAIN where |-> [text |-> t[where[k]].block.text,
                                        def  |-> t[where[k]].block.defining]]
  BY <1>1, <1>3 DEF BlocksOf
<1>7. DOMAIN blocks = 1..m
  BY <1>5, <1>6 DEF From
<1>8. ASSUME NEW k \in 1..m
      PROVE  /\ p[k] \in DOMAIN batch
             /\ batch[p[k]] \in Defining(t, g) => blocks[k] = Defined(t[batch[p[k]]].block.text)
             /\ batch[p[k]] \notin Defining(t, g) => blocks[k].def = FALSE
  <2>1. p[k] \in J /\ p[k] \in DOMAIN batch /\ where[k] = batch[p[k]]
    BY <1>2, <1>5 DEF From
  <2>2. PICK f : f = batch[p[k]] /\ f \in InputSet /\ f \in Files
    BY <2>1, InputsAreFiles DEF ToSet
  <2>3. t[f].block # None /\ t[f].block.group = g
    BY <1>1, <2>1, <2>2
  <2>4. t[f].block.defining \in BOOLEAN
    BY <2>2, <2>3, TreesHold DEF ContentOK
  <2>5. t[f].block.defining = IF f \in Defining(t, g) THEN TRUE ELSE FALSE
    BY <2>2, <2>3, <2>4 DEF Defining
  <2>6. blocks[k] = [text |-> t[f].block.text, def |-> t[f].block.defining]
    <3>1. k \in DOMAIN where
      BY <1>5 DEF From
    <3> QED
      BY <1>6, <2>1, <2>2, <3>1
  <2>7. CASE f \in Defining(t, g)
    <3>1. blocks[k] = Defined(t[f].block.text)
      BY <2>5, <2>6, <2>7 DEF Defined
    <3> QED
      BY <2>1, <2>2, <2>7, <3>1
  <2>8. CASE f \notin Defining(t, g)
    <3>1. blocks[k].def = FALSE
      BY <2>5, <2>6, <2>8
    <3> QED
      BY <2>1, <2>2, <2>8, <3>1
  <2> QED
    BY <2>7, <2>8
<1>9. ASSUME NEW j \in DOMAIN batch, batch[j] \in Defining(t, g)
      PROVE  \E k \in 1..m : p[k] = j
  <2>1. j \in J
    BY <1>1, <1>9 DEF Defining
  <2> QED
    BY <1>2, <1>5, <2>1 DEF From
<1>10. \A k \in 1..m : \A l \in 1..m : p[k] = p[l] => k = l
  BY <1>5 DEF From
<1>11. BlocksFrom(blocks, m, p, t, batch, g)
  BY <1>7, <1>8, <1>9, <1>10 DEF BlocksFrom
<1> QED
  BY <1>11

\* The groups of a batch: that of the one \defgroup as it says, if it is in the batch,
\* and if it is not, of none.
LEMMA BatchDefines ==
    ASSUME NEW t \in Trees, NEW batch \in Seq(Files), ToSet(batch) \subseteq InputSet,
           \A j \in DOMAIN batch : \A l \in DOMAIN batch : batch[j] = batch[l] => j = l,
           NEW g \in Owned, NEW i \in Defining(t, g), i \in ToSet(batch),
           NEW T, T # None, T = t[i].block.text
    PROVE  g \in DOMAIN GroupsOf(t, batch) /\ GroupsOf(t, batch)[g] = Defined(T)
<1>1. PICK blocks : blocks = BlocksOf(t, batch, g)
  OBVIOUS
<1>2. PICK j \in DOMAIN batch : batch[j] = i
  BY DEF ToSet
<1>3. PICK m \in Nat : \E p : BlocksFrom(blocks, m, p, t, batch, g)
  BY <1>1, BlocksAre
<1>4. PICK p : BlocksFrom(blocks, m, p, t, batch, g)
  BY <1>3
<1>5. PICK k \in 1..m : p[k] = j
  BY <1>2, <1>4 DEF BlocksFrom
<1>6. blocks[k] = Defined(T)
  BY <1>2, <1>4, <1>5 DEF BlocksFrom
<1>7. ASSUME NEW l \in 1..m, l # k PROVE blocks[l].def = FALSE
  <2>1. p[l] \in DOMAIN batch /\ p[l] # j
    BY <1>4, <1>5, <1>7 DEF BlocksFrom
  <2>2. batch[p[l]] # i
    BY <1>2, <2>1
  <2>3. batch[p[l]] \notin Defining(t, g)
    BY <2>2, OneDefiner
  <2> QED
    BY <1>4, <2>3 DEF BlocksFrom
<1>8. OneRow(blocks, m, T)
  BY <1>6, <1>7 DEF OneRow
<1>9. MergedAll(Stub, blocks) = Defined(T)
  BY <1>4, <1>8, MergedTakes DEF BlocksFrom
<1>10. blocks # <<>>
  <2>1. DOMAIN blocks # {}
    BY <1>4, <1>5 DEF BlocksFrom
  <2> QED
    BY <2>1
<1>11. PICK D : /\ D = {x \in Groups : BlocksOf(t, batch, x) # <<>>} \union Joined(t, batch)
                /\ g \in D
  BY <1>1, <1>10 DEF Owned
<1>12. GroupsOf(t, batch) = [x \in D |-> MergedAll(Stub, BlocksOf(t, batch, x))]
  BY <1>11 DEF GroupsOf
<1> QED
  BY <1>1, <1>9, <1>11, <1>12

\* A batch without the defining input has an \addtogroup row, if any.
LEMMA BatchDefinesNot ==
    ASSUME NEW t \in Trees, NEW batch \in Seq(Files), ToSet(batch) \subseteq InputSet,
           NEW g, \A i \in ToSet(batch) : i \notin Defining(t, g), g \in DOMAIN GroupsOf(t, batch)
    PROVE  GroupsOf(t, batch)[g].def = FALSE
<1>1. PICK blocks : blocks = BlocksOf(t, batch, g)
  OBVIOUS
<1>2. PICK m \in Nat : \E p : BlocksFrom(blocks, m, p, t, batch, g)
  BY <1>1, BlocksAre
<1>3. DOMAIN blocks = 1..m /\ NoRow(blocks, m)
  BY <1>2 DEF BlocksFrom, ToSet, NoRow
<1>4. MergedAll(Stub, blocks).def = FALSE
  <2>1. Stub.def = FALSE
    BY DEF Stub
  <2> QED
    BY <1>3, <2>1, MergedStub
<1>5. PICK D : D = {x \in Groups : BlocksOf(t, batch, x) # <<>>} \union Joined(t, batch)
  OBVIOUS
<1>6. GroupsOf(t, batch) = [x \in D |-> MergedAll(Stub, BlocksOf(t, batch, x))]
  BY <1>5 DEF GroupsOf
<1> QED
  BY <1>1, <1>4, <1>6

\* What tables have under a key: where the m rows are from.
RowsFrom(rows, m, p, tables, n, key) ==
    /\ DOMAIN rows = 1..m
    /\ \A k \in 1..m : p[k] \in 1..n /\ key \in DOMAIN tables[p[k]] /\ rows[k] = tables[p[k]][key]
    /\ \A k \in 1..m : \A l \in 1..m : p[k] = p[l] => k = l
    /\ \A j \in 1..n : key \in DOMAIN tables[j] => \E k \in 1..m : p[k] = j

\* The rows under a key have such places.
LEMMA UnderFrom ==
    ASSUME NEW tables, NEW n \in Nat, DOMAIN tables = 1..n, tables = [k \in 1..n |-> tables[k]],
           NEW key, NEW rows, rows = Under(tables, key)
    PROVE  \E m \in Nat : \E p : RowsFrom(rows, m, p, tables, n, key)
<1>1. PICK J : J = {k \in DOMAIN tables : key \in DOMAIN tables[k]}
  OBVIOUS
<1>2. PICK with : with = Chosen(tables, J)
  OBVIOUS
<1>3. PICK m \in Nat : \E p : From(with, m, p, tables, n, J)
  BY <1>2, ChosenFrom
<1>4. PICK p : From(with, m, p, tables, n, J)
  BY <1>3
<1>5. rows = [k \in DOMAIN with |-> with[k][key]]
  BY <1>1, <1>2 DEF Under
<1>6. DOMAIN rows = 1..m
  BY <1>4, <1>5 DEF From
<1>7. ASSUME NEW k \in 1..m
      PROVE  p[k] \in 1..n /\ key \in DOMAIN tables[p[k]] /\ rows[k] = tables[p[k]][key]
  <2>1. p[k] \in J /\ p[k] \in 1..n /\ with[k] = tables[p[k]] /\ k \in DOMAIN with
    BY <1>4 DEF From
  <2> QED
    BY <1>1, <1>5, <2>1
<1>8. ASSUME NEW j \in 1..n, key \in DOMAIN tables[j] PROVE \E k \in 1..m : p[k] = j
  <2>1. j \in J
    BY <1>1, <1>8
  <2> QED
    BY <1>4, <2>1 DEF From
<1>9. \A k \in 1..m : \A l \in 1..m : p[k] = p[l] => k = l
  BY <1>4 DEF From
<1>10. RowsFrom(rows, m, p, tables, n, key)
  BY <1>6, <1>7, <1>8, <1>9 DEF RowsFrom
<1> QED
  BY <1>10

\* One part of a module has a group's \defgroup; or none has.
OneDefines(parts, n, g, T) ==
    \E j \in 1..n :
        /\ g \in DOMAIN parts[j].groups /\ parts[j].groups[g] = Defined(T)
        /\ \A l \in 1..n : l # j /\ g \in DOMAIN parts[l].groups => parts[l].groups[g].def = FALSE
NoneDefines(parts, n, g) ==
    \A l \in 1..n : g \in DOMAIN parts[l].groups => parts[l].groups[g].def = FALSE

\* What a module makes of a group, gs: the merge of its m rows with what was there.
GroupFrom(gs, g, db, parts, n, rows, m, p, old) ==
    /\ g \in DOMAIN gs /\ gs[g] = MergedAll(old, rows)
    /\ g \in DOMAIN db => old = db[g]
    /\ DOMAIN rows = 1..m
    /\ \A k \in 1..m : /\ p[k] \in 1..n /\ g \in DOMAIN parts[p[k]].groups
                       /\ rows[k] = parts[p[k]].groups[g]
    /\ \A k \in 1..m : \A l \in 1..m : p[k] = p[l] => k = l
    /\ \A j \in 1..n : g \in DOMAIN parts[j].groups => \E k \in 1..m : p[k] = j

\* Every group a module or the store has comes of such a merge.
LEMMA InsertedGroup ==
    ASSUME NEW db, NEW parts, NEW n \in Nat, DOMAIN parts = 1..n, NEW g,
           g \in DOMAIN db \/ \E k \in 1..n : g \in DOMAIN parts[k].groups
    PROVE  \E m \in Nat : \E rows : \E p : \E old :
               GroupFrom(InsertGroups(db, parts), g, db, parts, n, rows, m, p, old)
<1>1. PICK tables : tables = [l \in DOMAIN parts |-> parts[l].groups]
  OBVIOUS
<1>2. /\ DOMAIN tables = 1..n /\ tables = [l \in 1..n |-> tables[l]]
      /\ \A l \in 1..n : tables[l] = parts[l].groups
  BY <1>1
<1>3. PICK D : D = DOMAIN db \union Keys(tables)
  OBVIOUS
<1>4. g \in D
  BY <1>2, <1>3 DEF Keys
<1>5. PICK rows : rows = Under(tables, g)
  OBVIOUS
<1>6. PICK old : old = IF g \in DOMAIN db THEN db[g] ELSE rows[1]
  OBVIOUS
<1>7. PICK gs : /\ gs = InsertGroups(db, parts)
                /\ gs = [h \in D |-> MergedAll(IF h \in DOMAIN db THEN db[h] ELSE Under(tables, h)[1],
                                               Under(tables, h))]
  BY <1>1, <1>3 DEF InsertGroups
<1>8. g \in DOMAIN gs /\ gs[g] = MergedAll(old, rows)
  BY <1>4, <1>5, <1>6, <1>7
<1>9. PICK m \in Nat : \E p : RowsFrom(rows, m, p, tables, n, g)
  BY <1>2, <1>5, UnderFrom
<1>10. PICK p : RowsFrom(rows, m, p, tables, n, g)
  BY <1>9
<1>11. GroupFrom(gs, g, db, parts, n, rows, m, p, old)
  BY <1>2, <1>6, <1>8, <1>10 DEF GroupFrom, RowsFrom
<1>12. GroupFrom(InsertGroups(db, parts), g, db, parts, n, rows, m, p, old)
  BY <1>7, <1>11
<1> QED
  BY <1>12

\* When one part has the \defgroup, the store has it afterwards.
LEMMA GroupTaken ==
    ASSUME NEW db, NEW parts, NEW n \in Nat, DOMAIN parts = 1..n, NEW g, NEW T, T # None,
           OneDefines(parts, n, g, T)
    PROVE  g \in DOMAIN InsertGroups(db, parts) /\ InsertGroups(db, parts)[g] = Defined(T)
<1>1. PICK j \in 1..n :
        /\ g \in DOMAIN parts[j].groups /\ parts[j].groups[g] = Defined(T)
        /\ \A l \in 1..n : l # j /\ g \in DOMAIN parts[l].groups => parts[l].groups[g].def = FALSE
  BY DEF OneDefines
<1>2. PICK gs : gs = InsertGroups(db, parts)
  OBVIOUS
<1>3. PICK m \in Nat : \E rows : \E p : \E old : GroupFrom(gs, g, db, parts, n, rows, m, p, old)
  BY <1>1, <1>2, InsertedGroup
<1>4. PICK rows : \E p : \E old : GroupFrom(gs, g, db, parts, n, rows, m, p, old)
  BY <1>3
<1>5. PICK p : \E old : GroupFrom(gs, g, db, parts, n, rows, m, p, old)
  BY <1>4
<1>6. PICK old : GroupFrom(gs, g, db, parts, n, rows, m, p, old)
  BY <1>5
<1>7. PICK k \in 1..m : p[k] = j
  BY <1>1, <1>6 DEF GroupFrom
<1>8. rows[k] = Defined(T)
  BY <1>1, <1>6, <1>7 DEF GroupFrom
<1>9. ASSUME NEW l \in 1..m, l # k PROVE rows[l].def = FALSE
  <2>1. /\ p[l] \in 1..n /\ p[l] # j /\ g \in DOMAIN parts[p[l]].groups
        /\ rows[l] = parts[p[l]].groups[g]
    BY <1>6, <1>7, <1>9 DEF GroupFrom
  <2> QED
    BY <1>1, <2>1
<1>10. OneRow(rows, m, T) /\ DOMAIN rows = 1..m
  BY <1>6, <1>8, <1>9 DEF OneRow, GroupFrom
<1>11. MergedAll(old, rows) = Defined(T)
  BY <1>10, MergedTakes
<1> QED
  BY <1>2, <1>6, <1>11 DEF GroupFrom

\* When none has and the store does, it keeps it.
LEMMA GroupKept ==
    ASSUME NEW db, NEW parts, NEW n \in Nat, DOMAIN parts = 1..n, NEW g, NEW T, T # None,
           g \in DOMAIN db, db[g] = Defined(T), NoneDefines(parts, n, g)
    PROVE  g \in DOMAIN InsertGroups(db, parts) /\ InsertGroups(db, parts)[g] = Defined(T)
<1>1. PICK gs : gs = InsertGroups(db, parts)
  OBVIOUS
<1>2. PICK m \in Nat : \E rows : \E p : \E old : GroupFrom(gs, g, db, parts, n, rows, m, p, old)
  BY <1>1, InsertedGroup
<1>3. PICK rows : \E p : \E old : GroupFrom(gs, g, db, parts, n, rows, m, p, old)
  BY <1>2
<1>4. PICK p : \E old : GroupFrom(gs, g, db, parts, n, rows, m, p, old)
  BY <1>3
<1>5. PICK old : GroupFrom(gs, g, db, parts, n, rows, m, p, old)
  BY <1>4
<1>6. ASSUME NEW k \in 1..m PROVE rows[k].def = FALSE
  <2>1. /\ p[k] \in 1..n /\ g \in DOMAIN parts[p[k]].groups
        /\ rows[k] = parts[p[k]].groups[g]
    BY <1>5 DEF GroupFrom
  <2> QED
    BY <2>1 DEF NoneDefines
<1>7. NoRow(rows, m) /\ DOMAIN rows = 1..m /\ old = Defined(T)
  BY <1>5, <1>6 DEF NoRow, GroupFrom
<1>8. MergedAll(old, rows) = Defined(T)
  BY <1>7, MergedKeeps
<1> QED
  BY <1>1, <1>5, <1>8 DEF GroupFrom

\* Groups only come.
LEMMA GroupsGrow ==
    ASSUME NEW db, NEW parts, NEW n \in Nat, DOMAIN parts = 1..n
    PROVE  /\ DOMAIN db \subseteq DOMAIN InsertGroups(db, parts)
           /\ \A k \in 1..n : DOMAIN parts[k].groups \subseteq DOMAIN InsertGroups(db, parts)
<1>1. ASSUME NEW g, g \in DOMAIN db \/ \E k \in 1..n : g \in DOMAIN parts[k].groups
      PROVE  g \in DOMAIN InsertGroups(db, parts)
  BY <1>1, InsertedGroup DEF GroupFrom
<1> QED
  BY <1>1

\* The groups of a part are those of its batch.
LEMMA PartGroups ==
    ASSUME NEW t, NEW batch
    PROVE  PartOf(t, batch).groups = GroupsOf(t, batch)
<1>1. PICK D : D = {u \in Usrs : \E f \in ToSet(batch) : Declares(t, f, u)}
  OBVIOUS
<1>2. PICK rows : rows = [u \in D |-> SymbolOf(t, batch, u)]
  OBVIOUS
<1>3. PartOf(t, batch) = [symbols |-> rows, groups |-> GroupsOf(t, batch)]
  BY <1>1, <1>2 DEF PartOf
<1> QED
  BY <1>3

\* One part of those parsed has what a \defgroup that is parsed says; none has what
\* none of them says.
LEMMA PartsDefine ==
    ASSUME NEW t \in Trees, NEW I \in SUBSET InputSet, NEW size, NEW g \in Owned,
           NEW i \in Defining(t, g), i \in I, NEW T, T # None, T = t[i].block.text,
           NEW parts, parts = Parts(t, I, size), NEW n \in Nat, DOMAIN parts = 1..n
    PROVE  OneDefines(parts, n, g, T)
<1>1. PICK bs : /\ Batched(bs, I) /\ DOMAIN parts = 1..Len(bs)
                /\ \A k \in 1..Len(bs) : parts[k] = PartOf(t, bs[k])
  BY PartsHold
<1>2. PICK N : N = 1..n /\ N = DOMAIN bs /\ \A k \in N : parts[k] = PartOf(t, bs[k])
  BY <1>1 DEF Batched
<1>3. \A k \in N : /\ bs[k] \in Seq(Files) /\ ToSet(bs[k]) \subseteq InputSet
                   /\ parts[k].groups = GroupsOf(t, bs[k])
  <2>1. ASSUME NEW k \in N PROVE parts[k].groups = GroupsOf(t, bs[k])
    BY <1>2, PartGroups
  <2> QED
    BY <1>1, <1>2, <2>1 DEF Batched, ToSet
<1>4. PICK j \in N : \E l \in DOMAIN bs[j] : bs[j][l] = i
  BY <1>1, <1>2 DEF Batched
<1>5. PICK l \in DOMAIN bs[j] : bs[j][l] = i
  BY <1>4
<1>6. PICK batch \in Seq(Files) : /\ batch = bs[j] /\ ToSet(batch) \subseteq InputSet
                                  /\ parts[j].groups = GroupsOf(t, batch)
  BY <1>3
<1>7. g \in DOMAIN parts[j].groups /\ parts[j].groups[g] = Defined(T)
  <2>1. i \in ToSet(batch)
    BY <1>5, <1>6 DEF ToSet
  <2>2. \A a \in DOMAIN batch : \A b \in DOMAIN batch : batch[a] = batch[b] => a = b
    BY <1>1, <1>2, <1>6 DEF Batched
  <2> QED
    BY <1>6, <2>1, <2>2, BatchDefines
<1>8. ASSUME NEW k \in N, k # j, g \in DOMAIN parts[k].groups
      PROVE  parts[k].groups[g].def = FALSE
  <2>1. PICK other \in Seq(Files) : /\ other = bs[k] /\ ToSet(other) \subseteq InputSet
                                    /\ parts[k].groups = GroupsOf(t, other)
    BY <1>3
  <2>2. ASSUME NEW f \in ToSet(other), f \in Defining(t, g) PROVE FALSE
    <3>1. f = i
      BY <2>2, OneDefiner
    <3>2. PICK m \in DOMAIN bs[k] : bs[k][m] = i
      BY <2>1, <3>1 DEF ToSet
    <3>3. k = j
      BY <1>1, <1>2, <1>5, <3>2 DEF Batched
    <3> QED
      BY <1>8, <3>3
  <2> QED
    BY <1>8, <2>1, <2>2, BatchDefinesNot
<1> QED
  BY <1>2, <1>7, <1>8 DEF OneDefines

\* Inputs without the \defgroup parse into parts without it.
LEMMA PartsDefineNot ==
    ASSUME NEW t \in Trees, NEW I \in SUBSET InputSet, NEW size, NEW g,
           \A i \in I : i \notin Defining(t, g), NEW parts, parts = Parts(t, I, size),
           NEW n \in Nat, DOMAIN parts = 1..n
    PROVE  NoneDefines(parts, n, g)
<1>1. PICK bs : /\ Batched(bs, I) /\ DOMAIN parts = 1..Len(bs)
                /\ \A k \in 1..Len(bs) : parts[k] = PartOf(t, bs[k])
  BY PartsHold
<1>2. PICK N : N = 1..n /\ N = DOMAIN bs /\ \A k \in N : parts[k] = PartOf(t, bs[k])
  BY <1>1 DEF Batched
<1>3. ASSUME NEW k \in N, g \in DOMAIN parts[k].groups
      PROVE  parts[k].groups[g].def = FALSE
  <2>1. PICK batch \in Seq(Files) : /\ batch = bs[k] /\ ToSet(batch) \subseteq I
                                    /\ parts[k].groups = GroupsOf(t, batch)
    <3>1. parts[k].groups = GroupsOf(t, bs[k])
      BY <1>2, PartGroups
    <3>2. bs[k] \in Seq(Files) /\ ToSet(bs[k]) \subseteq I
      BY <1>1, <1>2 DEF Batched, ToSet
    <3> QED
      BY <3>1, <3>2
  <2>2. ToSet(batch) \subseteq InputSet /\ \A i \in ToSet(batch) : i \notin Defining(t, g)
    BY <2>1
  <2> QED
    BY <1>3, <2>1, <2>2, BatchDefinesNot
<1> QED
  BY <1>2, <1>3 DEF NoneDefines

\* A group has what its \defgroup says.
HasGroup(t, rows, g) ==
    \A i \in Defining(t, g) : t[i].block.text # None =>
        g \in DOMAIN rows /\ rows[g] = Defined(t[i].block.text)

\* After a full parse every owned group is its \defgroup's.
LEMMA FullHasGroup ==
    ASSUME NEW t \in Trees, NEW g \in Owned
    PROVE  HasGroup(t, FullRows(t).groups, g)
<1> SUFFICES ASSUME NEW i \in Defining(t, g), NEW T, T # None, T = t[i].block.text
             PROVE  g \in DOMAIN FullRows(t).groups /\ FullRows(t).groups[g] = Defined(T)
  BY DEF HasGroup
<1>1. PICK parts : parts = Parts(t, InputSet, FullBatch)
  OBVIOUS
<1>2. PICK n \in Nat : DOMAIN parts = 1..n
  <2>1. PICK bs : Batched(bs, InputSet) /\ DOMAIN parts = 1..Len(bs)
    BY <1>1, PartsHold
  <2>2. Len(bs) \in Nat
    BY <2>1 DEF Batched
  <2> QED
    BY <2>1, <2>2
<1>3. PICK db : /\ db[0] = NoRows /\ \A k \in 1..n : db[k] = InsertRows(db[k - 1], <<parts[k]>>)
                /\ FullRows(t) = db[n]
  <2>1. \E db : IsInserted(db, t, parts, n)
    BY <1>1, <1>2, InsertedSteps
  <2> QED
    BY <2>1 DEF IsInserted
<1>4. OneDefines(parts, n, g, T)
  <2>1. i \in InputSet
    BY DEF Defining
  <2> QED
    BY <1>1, <1>2, <2>1, PartsDefine
<1>5. PICK j \in 1..n :
        /\ g \in DOMAIN parts[j].groups /\ parts[j].groups[g] = Defined(T)
        /\ \A l \in 1..n : l # j /\ g \in DOMAIN parts[l].groups => parts[l].groups[g].def = FALSE
  BY <1>4 DEF OneDefines
<1> DEFINE P == {m \in 0..n : m >= j => g \in DOMAIN db[m].groups /\ db[m].groups[g] = Defined(T)}
<1>6. 0 \in P
  OBVIOUS
<1>7. ASSUME NEW m \in 0..(n - 1), m \in P PROVE m + 1 \in P
  <2>1. m + 1 \in 1..n /\ db[m + 1] = InsertRows(db[m], <<parts[m + 1]>>)
    BY <1>3
  <2>2. PICK e : e = db[m + 1] /\ e = InsertRows(db[m], <<parts[m + 1]>>)
    BY <2>1
  <2>3. PICK one : \E k \in Nat :
            /\ DOMAIN one = 1..k /\ 1 \in 1..k /\ \A l \in 1..k : l = 1
            /\ one[1] = parts[m + 1] /\ e.groups = InsertGroups(db[m].groups, one)
    BY <2>2, Alone
  <2>4. PICK k \in Nat :
            /\ DOMAIN one = 1..k /\ 1 \in 1..k /\ \A l \in 1..k : l = 1
            /\ one[1] = parts[m + 1] /\ e.groups = InsertGroups(db[m].groups, one)
    BY <2>3
  <2>5. PICK old : old = db[m].groups
    OBVIOUS
  <2>6. CASE m + 1 < j
    BY <2>1, <2>6
  <2>7. CASE m + 1 = j
    <3>1. OneDefines(one, k, g, T)
      BY <1>5, <2>4, <2>7 DEF OneDefines
    <3>2. DOMAIN one = 1..k
      BY <2>4
    <3>3. g \in DOMAIN InsertGroups(old, one) /\ InsertGroups(old, one)[g] = Defined(T)
      BY <3>1, <3>2, GroupTaken
    <3> QED
      BY <2>1, <2>2, <2>4, <2>5, <3>3
  <2>8. CASE m + 1 > j
    <3>1. m + 1 # j /\ m >= j
      BY <2>8
    <3>2. NoneDefines(one, k, g)
      BY <1>5, <2>1, <2>4, <3>1 DEF NoneDefines
    <3>3. g \in DOMAIN old /\ old[g] = Defined(T)
      BY <1>7, <2>5, <3>1
    <3>4. DOMAIN one = 1..k
      BY <2>4
    <3>5. g \in DOMAIN InsertGroups(old, one) /\ InsertGroups(old, one)[g] = Defined(T)
      BY <3>2, <3>3, <3>4, GroupKept
    <3> QED
      BY <2>1, <2>2, <2>4, <2>5, <3>5
  <2> QED
    BY <2>6, <2>7, <2>8
<1>8. 0..n \subseteq P
  <2> HIDE DEF P
  <2> QED
    BY <1>6, <1>7, UpTo
<1> QED
  BY <1>3, <1>8

-----------------------------------------------------------------------------
(* The groups that comments name.                                          *)

\* A comment that a batch sees is one that some declaration has.
LEMMA RawIs ==
    ASSUME NEW t \in Trees, NEW batch \in Seq(Files), NEW u, NEW c,
           c = RawComment(t, batch, u), c # None
    PROVE  c.groups \in Seq(Groups)
<1> DEFINE Own(S) == {f \in S : Declares(t, f, u) /\ t[f].decls[u].comment # None}
           members == Own(ToSet(batch))
           near == IF members # {} THEN members ELSE Own(Reached(t, ToSet(batch)))
<1>1. ToSet(batch) \subseteq Files /\ Reached(t, ToSet(batch)) \subseteq Files
  <2>1. ToSet(batch) \subseteq Files
    BY DEF ToSet
  <2> QED
    BY <2>1 DEF Reached, Closure
<1>2. \A f \in near : f \in Files /\ Declares(t, f, u) /\ t[f].decls[u].comment # None
  BY <1>1
<1>3. c = IF near = {} THEN None ELSE t[CHOOSE f \in near : TRUE].decls[u].comment
  BY DEF RawComment
<1> HIDE DEF near
<1>4. near # {}
  BY <1>3
<1>5. PICK h : h = (CHOOSE f \in near : TRUE) /\ h \in near
  BY <1>4
<1>6. c = t[h].decls[u].comment
  BY <1>3, <1>4, <1>5
<1> QED
  BY <1>2, <1>5, <1>6, TreesHold DEF ContentOK, Declares

\* The comments of a part name groups that it has.
Joins(p) ==
    \A u \in DOMAIN p.symbols : p.symbols[u].comment # None =>
        ToSet(p.symbols[u].comment.groups) \subseteq DOMAIN p.groups

\* A batch has a row for every group that its comments join.
LEMMA PartJoins ==
    ASSUME NEW t \in Trees, NEW batch \in Seq(Files)
    PROVE  Joins(PartOf(t, batch))
<1> SUFFICES ASSUME NEW u \in DOMAIN PartOf(t, batch).symbols, NEW c,
                    c = PartOf(t, batch).symbols[u].comment, c # None, NEW x \in ToSet(c.groups)
             PROVE  x \in DOMAIN PartOf(t, batch).groups
  BY DEF Joins
<1>1. u \in Usrs
  BY DEF PartOf
<1>2. /\ \E f \in ToSet(batch) : Declares(t, f, u)
      /\ PartOf(t, batch).symbols[u] = SymbolOf(t, batch, u)
  BY <1>1, PartDeclares
<1>3. SymbolOf(t, batch, u).comment = RawComment(t, batch, u)
  BY DEF SymbolOf
<1>4. c = RawComment(t, batch, u)
  BY <1>2, <1>3
<1>5. c.groups \in Seq(Groups)
  BY <1>4, RawIs
<1>6. x \in Groups
  BY <1>5 DEF ToSet
<1>7. x \in Joined(t, batch)
  BY <1>1, <1>2, <1>4, <1>6 DEF Joined
<1>8. PICK D : /\ D = {g \in Groups : BlocksOf(t, batch, g) # <<>>} \union Joined(t, batch)
               /\ x \in D
  BY <1>7
<1>9. GroupsOf(t, batch) = [g \in D |-> MergedAll(Stub, BlocksOf(t, batch, g))]
  BY <1>8 DEF GroupsOf
<1> QED
  BY <1>8, <1>9, PartGroups

\* The comments kept as a symbol's fields are those it had, or new ones.
NewOrOld(c, k, db, new, m, u) ==
    \/ \E l \in 1..m : c = new[l].comment /\ c # None
    \/ u \in DOMAIN db /\ k \in DOMAIN db[u].projected /\ c = db[u].projected[k]

\* The fields of a symbol come from what it had or from the new rows.
LEMMA ProjectedFrom ==
    ASSUME NEW db, NEW new, NEW m \in Nat, DOMAIN new = 1..m, NEW u, NEW r,
           r = SymbolRows(db, new, u).projected, NEW k \in DOMAIN r
    PROVE  NewOrOld(r[k], k, db, new, m, u)
<1>1. PICK old : old = IF u \in DOMAIN db THEN db[u]
                       ELSE [row |-> new[1].row, refs |-> <<>>, comment |-> None, projected |-> <<>>]
  OBVIOUS
<1>2. PICK said : said = [l \in DOMAIN new |-> new[l].comment]
  OBVIOUS
<1>3. PICK J : J = {l \in DOMAIN said : said[l] # None}
  OBVIOUS
<1>4. PICK docs : docs = Chosen(said, J)
  OBVIOUS
<1>5. r = Projected(old.projected, docs)
  BY <1>1, <1>2, <1>3, <1>4 DEF SymbolRows
<1>6. CASE docs = <<>>
  <2>1. r = old.projected
    BY <1>5, <1>6 DEF Projected
  <2>2. u \in DOMAIN db
    BY <1>1, <2>1
  <2> QED
    BY <1>1, <2>1, <2>2 DEF NewOrOld
<1>7. CASE docs # <<>>
  <2>1. r = docs
    BY <1>5, <1>7 DEF Projected
  <2>2. DOMAIN said = 1..m /\ said = [l \in 1..m |-> said[l]]
    BY <1>2
  <2>3. PICK n \in Nat : \E p : From(docs, n, p, said, m, J)
    BY <1>4, <2>2, ChosenFrom
  <2>4. PICK p : From(docs, n, p, said, m, J)
    BY <2>3
  <2>5. p[k] \in J /\ p[k] \in 1..m /\ docs[k] = said[p[k]]
    BY <2>1, <2>4 DEF From
  <2> QED
    BY <1>2, <1>3, <2>1, <2>5 DEF NewOrOld
<1> QED
  BY <1>6, <1>7

\* The memberships of a symbol name groups that are there.
Members(rows, gs) ==
    \A u \in DOMAIN rows : \A k \in DOMAIN rows[u].projected :
        ToSet(rows[u].projected[k].groups) \subseteq DOMAIN gs

\* An insertion keeps memberships within the groups that are there.
LEMMA InsertedMembers ==
    ASSUME NEW rows, NEW gs, Members(rows, gs), NEW parts, NEW n \in Nat, DOMAIN parts = 1..n,
           \A k \in 1..n : Joins(parts[k])
    PROVE  Members(InsertSymbols(rows, parts), InsertGroups(gs, parts))
<1>1. PICK all : all = InsertGroups(gs, parts)
  OBVIOUS
<1>2. DOMAIN gs \subseteq DOMAIN all /\ \A k \in 1..n : DOMAIN parts[k].groups \subseteq DOMAIN all
  BY <1>1, GroupsGrow
<1>3. PICK new : new = [l \in DOMAIN parts |-> parts[l].symbols]
  OBVIOUS
<1>4. /\ DOMAIN new = 1..n /\ new = [l \in 1..n |-> new[l]]
      /\ \A l \in 1..n : new[l] = parts[l].symbols
  BY <1>3
<1>5. PICK D : D = DOMAIN rows \union Keys(new)
  OBVIOUS
<1>6. InsertSymbols(rows, parts) = [v \in D |-> SymbolRows(rows, Under(new, v), v)]
  BY <1>3, <1>5 DEF InsertSymbols
<1>7. ASSUME NEW u \in D, NEW r, r = SymbolRows(rows, Under(new, u), u).projected,
             NEW k \in DOMAIN r
      PROVE  ToSet(r[k].groups) \subseteq DOMAIN all
  <2>1. PICK under : under = Under(new, u)
    OBVIOUS
  <2>2. PICK m \in Nat : \E p : RowsFrom(under, m, p, new, n, u)
    BY <1>4, <2>1, UnderFrom
  <2>3. PICK p : RowsFrom(under, m, p, new, n, u)
    BY <2>2
  <2>4. DOMAIN under = 1..m
    BY <2>3 DEF RowsFrom
  <2>5. NewOrOld(r[k], k, rows, under, m, u)
    <3>1. r = SymbolRows(rows, under, u).projected
      BY <1>7, <2>1
    <3> QED
      BY <2>4, <3>1, ProjectedFrom
  <2>6. CASE u \in DOMAIN rows /\ k \in DOMAIN rows[u].projected /\ r[k] = rows[u].projected[k]
    <3>1. ToSet(r[k].groups) \subseteq DOMAIN gs
      BY <2>6 DEF Members
    <3> QED
      BY <1>2, <3>1
  <2>7. ASSUME NEW l \in 1..m, r[k] = under[l].comment, r[k] # None
        PROVE  ToSet(r[k].groups) \subseteq DOMAIN all
    <3>1. PICK j \in 1..n : u \in DOMAIN parts[j].symbols /\ under[l] = parts[j].symbols[u]
      BY <1>4, <2>3 DEF RowsFrom
    <3>2. ToSet(r[k].groups) \subseteq DOMAIN parts[j].groups
      BY <2>7, <3>1 DEF Joins
    <3> QED
      BY <1>2, <3>2
  <2> QED
    BY <2>5, <2>6, <2>7 DEF NewOrOld
<1>8. PICK ins : ins = InsertSymbols(rows, parts)
  OBVIOUS
<1>9. ASSUME NEW u \in DOMAIN ins, NEW k \in DOMAIN ins[u].projected
      PROVE  ToSet(ins[u].projected[k].groups) \subseteq DOMAIN all
  <2>1. u \in D /\ ins[u] = SymbolRows(rows, Under(new, u), u)
    BY <1>6, <1>8
  <2>2. PICK r : r = SymbolRows(rows, Under(new, u), u).projected /\ r = ins[u].projected
    BY <2>1
  <2> QED
    BY <1>7, <1>9, <2>1, <2>2
<1> QED
  BY <1>1, <1>8, <1>9 DEF Members

\* So has each part of a module.
LEMMA PartsJoin ==
    ASSUME NEW t \in Trees, NEW I \in SUBSET InputSet, NEW size, NEW parts,
           parts = Parts(t, I, size), NEW n \in Nat, DOMAIN parts = 1..n
    PROVE  \A k \in 1..n : Joins(parts[k])
<1>1. PICK bs : /\ Batched(bs, I) /\ DOMAIN parts = 1..Len(bs)
                /\ \A k \in 1..Len(bs) : parts[k] = PartOf(t, bs[k])
  BY PartsHold
<1>2. PICK N : N = 1..n /\ N = DOMAIN bs /\ \A k \in N : parts[k] = PartOf(t, bs[k])
  BY <1>1 DEF Batched
<1>3. \A k \in N : bs[k] \in Seq(Files)
  BY <1>1, <1>2 DEF Batched
<1> QED
  BY <1>2, <1>3, PartJoins

\* After a full parse memberships name groups that are there.
LEMMA FullMembers ==
    ASSUME NEW t \in Trees
    PROVE  Members(FullRows(t).symbols, FullRows(t).groups)
<1>1. PICK parts : parts = Parts(t, InputSet, FullBatch)
  OBVIOUS
<1>2. PICK n \in Nat : DOMAIN parts = 1..n
  <2>1. PICK bs : Batched(bs, InputSet) /\ DOMAIN parts = 1..Len(bs)
    BY <1>1, PartsHold
  <2>2. Len(bs) \in Nat
    BY <2>1 DEF Batched
  <2> QED
    BY <2>1, <2>2
<1>3. PICK db : /\ db[0] = NoRows /\ \A k \in 1..n : db[k] = InsertRows(db[k - 1], <<parts[k]>>)
                /\ FullRows(t) = db[n]
  <2>1. \E db : IsInserted(db, t, parts, n)
    BY <1>1, <1>2, InsertedSteps
  <2> QED
    BY <2>1 DEF IsInserted
<1>4. \A k \in 1..n : Joins(parts[k])
  BY <1>1, <1>2, PartsJoin
<1> DEFINE P == {m \in 0..n : Members(db[m].symbols, db[m].groups)}
<1>5. 0 \in P
  <2>1. DOMAIN db[0].symbols = {}
    BY <1>3 DEF NoRows
  <2>2. Members(db[0].symbols, db[0].groups)
    BY <2>1 DEF Members
  <2> QED
    BY <2>2
<1>6. ASSUME NEW m \in 0..(n - 1), m \in P PROVE m + 1 \in P
  <2>1. m + 1 \in 1..n /\ db[m + 1] = InsertRows(db[m], <<parts[m + 1]>>)
    BY <1>3
  <2>2. PICK e : e = db[m + 1] /\ e = InsertRows(db[m], <<parts[m + 1]>>)
    BY <2>1
  <2>3. PICK one : \E k \in Nat :
            /\ DOMAIN one = 1..k /\ 1 \in 1..k /\ \A l \in 1..k : l = 1
            /\ one[1] = parts[m + 1] /\ e.symbols = InsertSymbols(db[m].symbols, one)
            /\ e.groups = InsertGroups(db[m].groups, one)
    BY <2>2, Alone
  <2>4. PICK k \in Nat :
            /\ DOMAIN one = 1..k /\ 1 \in 1..k /\ \A l \in 1..k : l = 1
            /\ one[1] = parts[m + 1] /\ e.symbols = InsertSymbols(db[m].symbols, one)
            /\ e.groups = InsertGroups(db[m].groups, one)
    BY <2>3
  <2>5. PICK rows : rows = db[m].symbols
    OBVIOUS
  <2>6. PICK gs : gs = db[m].groups
    OBVIOUS
  <2>7. Members(rows, gs)
    BY <1>6, <2>5, <2>6
  <2>8. DOMAIN one = 1..k /\ \A l \in 1..k : Joins(one[l])
    BY <1>4, <2>1, <2>4
  <2>9. Members(InsertSymbols(rows, one), InsertGroups(gs, one))
    BY <2>7, <2>8, InsertedMembers
  <2> QED
    BY <2>1, <2>2, <2>4, <2>5, <2>6, <2>9
<1>7. 0..n \subseteq P
  <2> HIDE DEF P
  <2> QED
    BY <1>5, <1>6, UpTo
<1> QED
  BY <1>3, <1>7

(* Strengthening: a group's text is its \defgroup's, and is known to be.   *)
GroupInv ==
    Parsed => /\ tree \in Trees /\ Members(symbols, groups)
              /\ \A g \in Owned : HasGroup(tree, groups, g)

\* A partial parse keeps every \defgroup, whichever of its inputs are stale.
LEMMA PartialKeepsGroups ==
    ASSUME GroupInv, NEW next \in Trees, PartialParse(next)
    PROVE  GroupInv'
<1>1. /\ tree \in Trees /\ Members(symbols, groups)
      /\ \A g \in Owned : HasGroup(tree, groups, g)
  BY DEF GroupInv, Parsed, PartialParse
<1>2. PICK stale : stale = Stale(tree, next) /\ stale \in SUBSET InputSet
  BY DEF Stale
<1>3. PICK parts : parts = Parts(next, stale, PartBatch)
  OBVIOUS
<1>4. PICK n \in Nat : DOMAIN parts = 1..n
  <2>1. PICK bs : Batched(bs, stale) /\ DOMAIN parts = 1..Len(bs)
    BY <1>2, <1>3, PartsHold
  <2>2. Len(bs) \in Nat
    BY <2>1 DEF Batched
  <2> QED
    BY <2>1, <2>2
<1>5. PICK gone : gone = ReplacedFiles(stale, parts) \union Vanished(tree, next, stale)
  OBVIOUS
<1>6. PICK kept : kept = Without(symbols, gone)
  OBVIOUS
<1>7. /\ tree' = next /\ symbols' = InsertSymbols(kept, parts)
      /\ groups' = InsertGroups(groups, parts)
  BY <1>2, <1>3, <1>5, <1>6 DEF PartialParse, InsertRows
<1>8. Members(InsertSymbols(kept, parts), InsertGroups(groups, parts))
  <2>1. Members(kept, groups)
    <3>1. ASSUME NEW u \in DOMAIN kept PROVE u \in DOMAIN symbols /\ kept[u] = symbols[u]
      BY <1>6, <3>1, WithoutIs
    <3> QED
      BY <1>1, <3>1 DEF Members
  <2>2. \A k \in 1..n : Joins(parts[k])
    BY <1>2, <1>3, <1>4, PartsJoin
  <2> QED
    BY <1>4, <2>1, <2>2, InsertedMembers
<1>9. ASSUME NEW g \in Owned, NEW i \in Defining(next, g), NEW T, T = next[i].block.text, T # None
      PROVE  g \in DOMAIN InsertGroups(groups, parts) /\ InsertGroups(groups, parts)[g] = Defined(T)
  <2>1. i \in InputSet
    BY DEF Defining
  <2>2. CASE i \in stale
    <3>1. OneDefines(parts, n, g, T)
      BY <1>2, <1>3, <1>4, <1>9, <2>2, PartsDefine
    <3> QED
      BY <1>4, <1>9, <3>1, GroupTaken
  <2>3. CASE i \notin stale
    <3>1. next[i] = tree[i]
      BY <1>1, <1>2, <2>1, <2>3, OthersAre
    <3>2. i \in Defining(tree, g) /\ T = tree[i].block.text
      BY <1>9, <3>1 DEF Defining
    <3>3. g \in DOMAIN groups /\ groups[g] = Defined(T)
      BY <1>1, <1>9, <3>2 DEF HasGroup
    <3>4. NoneDefines(parts, n, g)
      <4>1. \A j \in stale : j \notin Defining(next, g)
        BY <2>3, OneDefiner
      <4> QED
        BY <1>2, <1>3, <1>4, <4>1, PartsDefineNot
    <3> QED
      BY <1>4, <1>9, <3>3, <3>4, GroupKept
  <2> QED
    BY <2>2, <2>3
<1>10. \A g \in Owned : HasGroup(next, InsertGroups(groups, parts), g)
  BY <1>9 DEF HasGroup
<1> QED
  BY <1>7, <1>8, <1>10 DEF GroupInv

\* A group that no two inputs ever define at once has after any sequence of full and
\* partial parses the text its \defgroup says, whichever batch or parse wrote last, and
\* a symbol's memberships name groups that are there (GroupAsDefined): merges take a
\* \defgroup over what \addtogroup blocks of other files say, and groups are never
\* deleted with the files that name them.
THEOREM GroupsAreAsDefined == Spec => []GroupAsDefined
<1>1. Init => GroupInv
  BY DEF Init, GroupInv, Parsed
<1>2. GroupInv /\ [Next]_vars => GroupInv'
  <2> SUFFICES ASSUME GroupInv, [Next]_vars PROVE GroupInv'
    OBVIOUS
  <2>1. ASSUME NEW next \in Trees, FullParse(next) PROVE GroupInv'
    <3>1. /\ tree' = next /\ symbols' = FullRows(next).symbols
          /\ groups' = FullRows(next).groups
      BY <2>1 DEF FullParse
    <3>2. \A g \in Owned : HasGroup(next, FullRows(next).groups, g)
      BY FullHasGroup
    <3>3. Members(FullRows(next).symbols, FullRows(next).groups)
      BY FullMembers
    <3> QED
      BY <3>1, <3>2, <3>3 DEF GroupInv
  <2>2. ASSUME NEW next \in Trees, PartialParse(next) PROVE GroupInv'
    BY <2>2, PartialKeepsGroups
  <2>3. CASE UNCHANGED vars
    BY <2>3 DEF vars, GroupInv, Parsed
  <2> QED
    BY <2>1, <2>2, <2>3 DEF Next
<1>3. GroupInv => GroupAsDefined
  <2> SUFFICES ASSUME GroupInv, Parsed PROVE GroupAsDefined
    BY DEF GroupAsDefined
  <2>1. ASSUME NEW g \in Owned, NEW i \in Defining(tree, g), tree[i].block.text # None
        PROVE  g \in DOMAIN groups /\ groups[g].text = tree[i].block.text
    <3>1. PICK T : T = tree[i].block.text /\ T # None
      BY <2>1
    <3>2. HasGroup(tree, groups, g)
      BY DEF GroupInv
    <3>3. g \in DOMAIN groups /\ groups[g] = Defined(T)
      BY <3>1, <3>2 DEF HasGroup
    <3> QED
      BY <3>1, <3>3 DEF Defined
  <2> QED
    BY <2>1 DEF GroupInv, GroupAsDefined, Members
<1> QED
  BY <1>1, <1>2, <1>3, PTL DEF Spec

-----------------------------------------------------------------------------
(* What is documented once.                                                *)

\* A file declares u with a comment.
Documents(t, f, u) == Declares(t, f, u) /\ t[f].decls[u].comment # None

\* What DocumentedOnce needs of the trees and the batches: only inputs document,
\* no partial parse has a symbol in two batches, and while an input documents a
\* symbol no input stops to declare it.
Gathered ==
    /\ \A t \in Trees, f \in Files, u \in Near : Documents(t, f, u) => f \in InputSet
    /\ \A t \in Trees, I \in SUBSET InputSet, u \in Near :
           LET bs == Batches(I, PartBatch)
           IN  \A k, l \in DOMAIN bs : \A i \in ToSet(bs[k]), j \in ToSet(bs[l]) :
                   Declares(t, i, u) /\ Declares(t, j, u) => k = l
    /\ \A t, next \in Trees, u \in Near, i, f \in InputSet :
           Documents(t, i, u) /\ Documents(next, i, u) /\ Declares(t, f, u)
           => Declares(next, f, u)

\* One input documents u.
Sole(t, u, i) == Documents(t, i, u) /\ \A j \in InputSet : Documents(t, j, u) => j = i

\* A row of u is anchored to an input that declares it.
IsRow(x, t, u) ==
    /\ x = [file |-> x.file, def |-> x.def, doc |-> x.doc, sig |-> x.sig]
    /\ x.def \in BOOLEAN /\ x.doc \in BOOLEAN
    /\ x.file \in InputSet /\ Declares(t, x.file, u)

\* The rows of a symbol have a comment, once.
CommentIs(rows, c) == rows.row.doc /\ rows.comment = c /\ rows.projected = <<c>>

Said(t, db, u) ==
    u \in DOMAIN db =>
        /\ IsRow(db[u].row, t, u)
        /\ \A i \in InputSet : Sole(t, u, i) => CommentIs(db[u], t[i].decls[u].comment)

(* Strengthening: and every row is anchored to an input that declares it.  *)
DocInv ==
    Parsed => /\ tree \in Trees
              /\ \A u \in Near : /\ Said(tree, symbols, u)
                                 /\ \A i \in InputSet : Sole(tree, u, i) => u \in DOMAIN symbols

\* The comment that a batch sees is that of the input that has one.
LEMMA RawOfSole ==
    ASSUME Gathered, NEW t \in Trees, NEW u \in Near, NEW batch \in Seq(Files),
           ToSet(batch) \subseteq InputSet, NEW f \in ToSet(batch), Declares(t, f, u),
           NEW i \in InputSet, Sole(t, u, i)
    PROVE  RawComment(t, batch, u) = t[i].decls[u].comment
<1> DEFINE Own(S) == {h \in S : Declares(t, h, u) /\ t[h].decls[u].comment # None}
           members == Own(ToSet(batch))
           near == IF members # {} THEN members ELSE Own(Reached(t, ToSet(batch)))
<1>1. ToSet(batch) \subseteq Files /\ Reached(t, ToSet(batch)) \subseteq Files
  <2>1. ToSet(batch) \subseteq Files
    BY DEF ToSet
  <2> QED
    BY <2>1 DEF Reached, Closure
<1>2. \A h \in Files : Declares(t, h, u) /\ t[h].decls[u].comment # None => h = i
  <2>1. ASSUME NEW h \in Files, Documents(t, h, u) PROVE h = i
    <3>1. h \in InputSet
      BY <2>1 DEF Gathered
    <3> QED
      BY <2>1, <3>1 DEF Sole
  <2> QED
    BY <2>1 DEF Documents
<1>3. Declares(t, i, u) /\ t[i].decls[u].comment # None
  BY DEF Sole, Documents
<1>4. i \in Reached(t, ToSet(batch))
  <2>1. f \in InputSet
    OBVIOUS
  <2>2. i \in Closure(t, f)
    BY <1>3, <2>1 DEF Near
  <2> QED
    BY <2>2 DEF Reached
<1>5. near = {i}
  <2>1. CASE i \in ToSet(batch)
    <3>1. members = {i}
      BY <1>1, <1>2, <1>3, <2>1
    <3> QED
      BY <3>1
  <2>2. CASE i \notin ToSet(batch)
    <3>1. members = {}
      BY <1>1, <1>2, <2>2
    <3>2. Own(Reached(t, ToSet(batch))) = {i}
      BY <1>1, <1>2, <1>3, <1>4
    <3> QED
      BY <3>1, <3>2
  <2> QED
    BY <2>1, <2>2
<1>6. RawComment(t, batch, u) = IF near = {} THEN None
                                ELSE t[CHOOSE h \in near : TRUE].decls[u].comment
  BY DEF RawComment
<1> HIDE DEF near
<1>7. (CHOOSE h \in near : TRUE) = i
  BY <1>5
<1> QED
  BY <1>5, <1>6, <1>7

\* What a batch yields of a symbol is anchored to one of its inputs.
LEMMA SymbolIsRow ==
    ASSUME NEW t, NEW batch \in Seq(Files), ToSet(batch) \subseteq InputSet, NEW u,
           NEW f \in ToSet(batch), Declares(t, f, u), NEW r, r = SymbolOf(t, batch, u)
    PROVE  /\ IsRow(r.row, t, u) /\ r.row.doc = (r.comment # None)
           /\ r.comment = RawComment(t, batch, u)
<1>1. PICK J : J = {k \in DOMAIN batch : Declares(t, batch[k], u)}
  OBVIOUS
<1>2. PICK where \in Seq(Files) : /\ where = Chosen(batch, J)
                                  /\ ToSet(where) = {batch[k] : k \in J \intersect DOMAIN batch}
  BY ChosenPlaces, ChosenSet
<1>3. where[1] \in InputSet /\ Declares(t, where[1], u)
  <2>1. f \in ToSet(where)
    BY <1>1, <1>2 DEF ToSet
  <2>2. PICK m \in DOMAIN where : where[m] = f
    BY <2>1 DEF ToSet
  <2>3. 1 \in DOMAIN where
    BY <2>2
  <2>4. where[1] \in ToSet(where)
    BY <2>3 DEF ToSet
  <2>5. PICK k \in J \intersect DOMAIN batch : where[1] = batch[k]
    BY <1>2, <2>4
  <2>6. batch[k] \in ToSet(batch)
    BY <2>5 DEF ToSet
  <2> QED
    BY <1>1, <2>5, <2>6
<1>4. PICK defs : defs = Chosen(where, {k \in DOMAIN where : t[where[k]].decls[u].def})
  OBVIOUS
<1>5. PICK raw : raw = RawComment(t, batch, u)
  OBVIOUS
<1>6. PICK d \in BOOLEAN, e \in BOOLEAN : d = (defs # <<>>) /\ e = (raw # None)
  OBVIOUS
<1>7. PICK s : s = IF u \in Callables /\ defs # <<>>
                   THEN t[defs[1]].decls[u].sig ELSE t[where[1]].decls[u].sig
  OBVIOUS
<1>8. SymbolOf(t, batch, u) =
          [row |-> [file |-> where[1], def |-> d, doc |-> e, sig |-> s],
           refs |-> t[where[1]].decls[u].refs, comment |-> raw]
  BY <1>1, <1>2, <1>4, <1>5, <1>6, <1>7 DEF SymbolOf
<1>9. r.comment = raw /\ r.row = [file |-> where[1], def |-> d, doc |-> e, sig |-> s]
  BY <1>8
<1>10. PICK x : x = r.row /\ x = [file |-> where[1], def |-> d, doc |-> e, sig |-> s]
  BY <1>9
<1>11. x.file = where[1] /\ x.def = d /\ x.doc = e /\ x.sig = s
  BY <1>10
<1>12. IsRow(x, t, u)
  BY <1>3, <1>6, <1>10, <1>11 DEF IsRow
<1> QED
  BY <1>5, <1>6, <1>9, <1>10, <1>11, <1>12

\* An upsert leaves a row anchored, and documented if either was.
LEMMA UpsertedIsRow ==
    ASSUME NEW t, NEW u, NEW old, IsRow(old, t, u), NEW new, IsRow(new, t, u)
    PROVE  IsRow(Upserted(old, new), t, u) /\ Upserted(old, new).doc = (old.doc \/ new.doc)
<1>1. PICK d \in BOOLEAN, e \in BOOLEAN : d = (old.def \/ new.def) /\ e = (old.doc \/ new.doc)
  BY DEF IsRow
<1>2. PICK x : x = (IF old.def /\ ~new.def THEN old ELSE new) /\ IsRow(x, t, u)
  OBVIOUS
<1>3. Upserted(old, new) = [x EXCEPT !.def = d, !.doc = e]
  BY <1>1, <1>2 DEF Upserted
<1>4. PICK y : y = [x EXCEPT !.def = d, !.doc = e]
  OBVIOUS
<1>5. PICK i, s : x.file = i /\ x \in [file : {i}, def : BOOLEAN, doc : BOOLEAN, sig : {s}]
  BY <1>2 DEF IsRow
<1>6. y \in [file : {i}, def : {d}, doc : {e}, sig : {s}]
  BY <1>4, <1>5
<1>7. y.file = i /\ y.def = d /\ y.doc = e /\ y.sig = s
  BY <1>6
<1>8. i \in InputSet /\ Declares(t, i, u)
  BY <1>2, <1>5 DEF IsRow
<1>9. y = [file |-> y.file, def |-> y.def, doc |-> y.doc, sig |-> y.sig]
  BY <1>6
<1>10. IsRow(y, t, u)
  BY <1>7, <1>8, <1>9 DEF IsRow
<1> QED
  BY <1>1, <1>3, <1>4, <1>7, <1>10

\* A symbol that a module has once has its comment, if that has one, and once.
LEMMA TakenRows ==
    ASSUME NEW t, NEW u, NEW db, u \in DOMAIN db => IsRow(db[u].row, t, u),
           NEW r, IsRow(r.row, t, u), r.row.doc = (r.comment # None),
           NEW x, x = SymbolRows(db, <<r>>, u)
    PROVE  IsRow(x.row, t, u) /\ (r.comment # None => CommentIs(x, r.comment))
<1>1. PICK new : new = <<r>> /\ DOMAIN new = 1..1 /\ new[1] = r
  <2>1. <<r>> \in Seq({r}) /\ Len(<<r>>) = 1 /\ <<r>>[1] = r
    OBVIOUS
  <2>2. PICK q : q = <<r>> /\ q \in Seq({r}) /\ Len(q) = 1 /\ q[1] = r
    BY <2>1
  <2>3. DOMAIN q = 1..1
    BY <2>2
  <2> QED
    BY <2>2, <2>3
<1>2. PICK old : old = IF u \in DOMAIN db THEN db[u]
                       ELSE [row |-> new[1].row, refs |-> <<>>, comment |-> None, projected |-> <<>>]
  OBVIOUS
<1>3. IsRow(old.row, t, u)
  <2>1. CASE u \in DOMAIN db
    BY <1>2, <2>1
  <2>2. CASE u \notin DOMAIN db
    <3>1. old.row = r.row
      BY <1>1, <1>2, <2>2
    <3> QED
      BY <3>1
  <2> QED
    BY <2>1, <2>2
<1>4. PICK y : y = UpsertedAll(old.row, new)
  OBVIOUS
<1>5. y = Upserted(old.row, r.row)
  BY <1>1, <1>4, UpsertedOnce
<1>6. IsRow(y, t, u) /\ (r.comment # None => y.doc)
  BY <1>3, <1>5, UpsertedIsRow
<1>7. PICK said : said = [k \in DOMAIN new |-> new[k].comment]
  OBVIOUS
<1>8. said \in Seq({r.comment}) /\ DOMAIN said = 1..1 /\ said[1] = r.comment
  BY <1>1, <1>7
<1>9. PICK J : J = {k \in DOMAIN said : said[k] # None}
  OBVIOUS
<1>10. PICK docs : docs = Chosen(said, J)
  OBVIOUS
<1>11. PICK rs : rs = old.refs \o FlattenSeq([k \in DOMAIN new |-> new[k].refs])
  OBVIOUS
<1>12. x = [row |-> y, refs |-> rs,
            comment |-> IF docs = <<>> THEN old.comment ELSE Last(docs),
            projected |-> Projected(old.projected, docs)]
  BY <1>1, <1>2, <1>4, <1>7, <1>9, <1>10, <1>11 DEF SymbolRows
<1>13. ASSUME r.comment # None PROVE x.comment = r.comment /\ x.projected = <<r.comment>>
  <2>1. J \intersect DOMAIN said = {1}
    BY <1>8, <1>9, <1>13
  <2>2. docs = <<r.comment>>
    BY <1>8, <1>10, <2>1, ChosenOne
  <2> QED
    BY <1>12, <2>2 DEF Projected, Last
<1>14. x.row = y
  BY <1>12
<1> QED
  BY <1>6, <1>13, <1>14 DEF CommentIs

\* What a module does not have keeps its rows.
LEMMA KeptRows ==
    ASSUME NEW db, NEW u \in DOMAIN db, NEW x, x = SymbolRows(db, <<>>, u)
    PROVE  /\ x.row = db[u].row /\ x.comment = db[u].comment
           /\ x.projected = db[u].projected
<1>1. PICK old : old = db[u]
  OBVIOUS
<1>2. PICK new : new = <<>> /\ DOMAIN new = 1..0
  OBVIOUS
<1>3. UpsertedAll(old.row, new) = old.row
  BY <1>2, UpsertedSteps
<1>4. PICK rs : rs = old.refs \o FlattenSeq([k \in DOMAIN new |-> new[k].refs])
  OBVIOUS
<1>5. PICK said : said = [k \in DOMAIN new |-> new[k].comment] /\ said = <<>>
  BY <1>2
<1>6. PICK J : J = {k \in DOMAIN said : said[k] # None} /\ J \intersect DOMAIN said = {}
  <2>1. DOMAIN said = {}
    BY <1>5
  <2> QED
    BY <2>1
<1>7. PICK docs : docs = Chosen(said, J) /\ docs = <<>>
  <2>1. said \in Seq({None})
    BY <1>5
  <2> QED
    BY <1>6, <2>1, ChosenNone
<1>8. SymbolRows(db, new, u) =
          [row |-> UpsertedAll(old.row, new), refs |-> rs,
           comment |-> IF docs = <<>> THEN old.comment ELSE Last(docs),
           projected |-> Projected(old.projected, docs)]
  BY <1>1, <1>4, <1>5, <1>6, <1>7 DEF SymbolRows
<1> QED
  BY <1>1, <1>2, <1>3, <1>7, <1>8 DEF Projected

\* A batch that has a symbol gives it the comment of the input that has one.
LEMMA SaidTaken ==
    ASSUME Gathered, NEW t \in Trees, NEW u \in Near, NEW batch \in Seq(Files),
           ToSet(batch) \subseteq InputSet, NEW f \in ToSet(batch), Declares(t, f, u),
           NEW db, u \in DOMAIN db => IsRow(db[u].row, t, u),
           NEW r, r = SymbolOf(t, batch, u), NEW x, x = SymbolRows(db, <<r>>, u)
    PROVE  /\ IsRow(x.row, t, u)
           /\ \A i \in InputSet : Sole(t, u, i) => CommentIs(x, t[i].decls[u].comment)
<1>1. /\ IsRow(r.row, t, u) /\ r.row.doc = (r.comment # None)
      /\ r.comment = RawComment(t, batch, u)
  BY SymbolIsRow
<1>2. IsRow(x.row, t, u) /\ (r.comment # None => CommentIs(x, r.comment))
  BY <1>1, TakenRows
<1>3. ASSUME NEW i \in InputSet, Sole(t, u, i) PROVE CommentIs(x, t[i].decls[u].comment)
  <2>1. RawComment(t, batch, u) = t[i].decls[u].comment
    BY <1>3, RawOfSole
  <2>2. t[i].decls[u].comment # None
    BY <1>3 DEF Sole, Documents
  <2> QED
    BY <1>1, <1>2, <2>1, <2>2
<1> QED
  BY <1>2, <1>3

\* The n batches of the inputs I, and the part of each.
Shared(t, I, size, parts, bs, n) ==
    /\ bs = Batches(I, size) /\ DOMAIN bs = 1..n /\ DOMAIN parts = 1..n
    /\ \A k \in 1..n : /\ parts[k] = PartOf(t, bs[k])
                       /\ bs[k] \in Seq(Files) /\ ToSet(bs[k]) \subseteq I
    /\ \A i \in I : \E k \in 1..n : i \in ToSet(bs[k])

\* A parse has them.
LEMMA PartsOfBatches ==
    ASSUME NEW t, NEW I \in SUBSET InputSet, NEW size, NEW parts, parts = Parts(t, I, size)
    PROVE  \E bs : \E n \in Nat : Shared(t, I, size, parts, bs, n)
<1>1. PICK bs : bs = Batches(I, size) /\ Batched(bs, I)
  BY BatchesHold
<1>2. PICK n \in Nat : DOMAIN bs = 1..n
  BY <1>1 DEF Batched
<1>3. parts = [k \in DOMAIN bs |-> PartOf(t, bs[k])]
  BY <1>1 DEF Parts
<1>4. \A k \in 1..n : bs[k] \in Seq(Files) /\ ToSet(bs[k]) \subseteq I
  BY <1>1, <1>2 DEF Batched, ToSet
<1>5. \A i \in I : \E k \in 1..n : i \in ToSet(bs[k])
  BY <1>1, <1>2 DEF Batched, ToSet
<1>6. Shared(t, I, size, parts, bs, n)
  BY <1>1, <1>2, <1>3, <1>4, <1>5 DEF Shared
<1> QED
  BY <1>6

\* After a full parse every symbol has its comment: the last batch that has the
\* symbol says what the others said.
LEMMA FullSays ==
    ASSUME Gathered, NEW t \in Trees, NEW u \in Near
    PROVE  /\ Said(t, FullRows(t).symbols, u)
           /\ \A i \in InputSet : Declares(t, i, u) => u \in DOMAIN FullRows(t).symbols
<1>1. PICK parts : parts = Parts(t, InputSet, FullBatch)
  OBVIOUS
<1>2. PICK bs : \E n \in Nat : Shared(t, InputSet, FullBatch, parts, bs, n)
  <2>1. InputSet \in SUBSET InputSet
    OBVIOUS
  <2> QED
    BY <1>1, <2>1, PartsOfBatches
<1>3. PICK n \in Nat :
          /\ DOMAIN parts = 1..n
          /\ \A k \in 1..n : /\ parts[k] = PartOf(t, bs[k])
                             /\ bs[k] \in Seq(Files) /\ ToSet(bs[k]) \subseteq InputSet
          /\ \A i \in InputSet : \E k \in 1..n : i \in ToSet(bs[k])
  BY <1>2 DEF Shared
<1>4. PICK g : /\ g[0] = NoRows /\ \A k \in 1..n : g[k] = InsertRows(g[k - 1], <<parts[k]>>)
               /\ FullRows(t) = g[n]
  <2>1. \E db : IsInserted(db, t, parts, n)
    BY <1>1, <1>3, InsertedSteps
  <2> QED
    BY <2>1 DEF IsInserted
<1>5. u \in Usrs
  BY DEF Near
<1> DEFINE P == {m \in 0..n :
                    /\ Said(t, g[m].symbols, u)
                    /\ \A l \in 1..m : u \in DOMAIN parts[l].symbols => u \in DOMAIN g[m].symbols}
<1>6. 0 \in P
  <2>1. u \notin DOMAIN g[0].symbols
    BY <1>4 DEF NoRows
  <2> QED
    BY <2>1 DEF Said
<1>7. ASSUME NEW m \in 0..(n - 1), m \in P PROVE m + 1 \in P
  <2>1. m + 1 \in 1..n /\ g[m + 1] = InsertRows(g[m], <<parts[m + 1]>>)
    BY <1>4
  <2>2. PICK db : db = g[m] /\ Said(t, db.symbols, u)
    BY <1>7
  <2>3. PICK p : p = parts[m + 1]
    OBVIOUS
  <2>4. PICK e : e = g[m + 1] /\ e = InsertRows(db, <<p>>)
    BY <2>1, <2>2, <2>3
  <2>5. PICK rows : rows = db.symbols /\ Said(t, rows, u)
    BY <2>2
  <2>6. CASE u \in DOMAIN p.symbols
    <3>1. PICK batch \in Seq(Files) :
              batch = bs[m + 1] /\ p = PartOf(t, batch) /\ ToSet(batch) \subseteq InputSet
      BY <1>3, <2>1, <2>3
    <3>2. PICK f \in ToSet(batch) : Declares(t, f, u)
      BY <1>5, <2>6, <3>1, PartDeclares
    <3>3. PICK r : r = p.symbols[u] /\ r = SymbolOf(t, batch, u)
      BY <1>5, <2>6, <3>1, PartDeclares
    <3>4. PICK x : x = SymbolRows(rows, <<r>>, u)
      OBVIOUS
    <3>5. u \in DOMAIN e.symbols /\ e.symbols[u] = x
      <4>1. /\ u \in DOMAIN e.symbols
            /\ e.symbols[u] = SymbolRows(db.symbols, <<p.symbols[u]>>, u)
        BY <2>4, <2>6, AddedPart
      <4> QED
        BY <2>5, <3>3, <3>4, <4>1
    <3>6. u \in DOMAIN rows => IsRow(rows[u].row, t, u)
      BY <2>5 DEF Said
    <3>7. /\ IsRow(x.row, t, u)
          /\ \A i \in InputSet : Sole(t, u, i) => CommentIs(x, t[i].decls[u].comment)
      BY <3>1, <3>2, <3>3, <3>4, <3>6, SaidTaken
    <3>8. Said(t, e.symbols, u)
      BY <3>5, <3>7 DEF Said
    <3> QED
      BY <2>1, <2>4, <3>5, <3>8
  <2>7. CASE u \notin DOMAIN p.symbols
    <3>1. /\ u \in DOMAIN e.symbols <=> u \in DOMAIN rows
          /\ u \in DOMAIN rows => e.symbols[u] = SymbolRows(rows, <<>>, u)
      BY <2>4, <2>5, <2>7, KeptPart
    <3>2. Said(t, e.symbols, u)
      <4>1. ASSUME u \in DOMAIN rows, NEW x, x = e.symbols[u]
            PROVE  /\ x.row = rows[u].row /\ x.comment = rows[u].comment
                   /\ x.projected = rows[u].projected
        BY <3>1, <4>1, KeptRows
      <4> QED
        BY <2>5, <3>1, <4>1 DEF Said, CommentIs
    <3>3. ASSUME NEW l \in 1..(m + 1), u \in DOMAIN parts[l].symbols
          PROVE  u \in DOMAIN g[m + 1].symbols
      <4>1. l \in 1..m
        BY <2>3, <2>7, <3>3
      <4> QED
        BY <1>7, <2>2, <2>4, <2>5, <3>1, <3>3, <4>1
    <3> QED
      BY <2>1, <2>4, <3>2, <3>3
  <2> QED
    BY <2>6, <2>7
<1>8. 0..n \subseteq P
  <2> HIDE DEF P
  <2> QED
    BY <1>6, <1>7, UpTo
<1>9. ASSUME NEW i \in InputSet, Declares(t, i, u)
      PROVE  \E l \in 1..n : u \in DOMAIN parts[l].symbols
  <2>1. PICK l \in 1..n : i \in ToSet(bs[l])
    BY <1>3
  <2>2. parts[l] = PartOf(t, bs[l])
    BY <1>3
  <2> QED
    BY <1>5, <1>9, <2>1, <2>2, PartDeclares
<1> QED
  BY <1>4, <1>8, <1>9

\* A partial parse: if it reads an input that declares the symbol, it says its
\* comment anew; if not, the comment and the anchor are in inputs that stay.
LEMMA PartialSays ==
    ASSUME Gathered, DocInv, NEW next \in Trees, PartialParse(next)
    PROVE  DocInv'
<1>1. /\ tree \in Trees
      /\ \A u \in Near : /\ Said(tree, symbols, u)
                         /\ \A i \in InputSet : Sole(tree, u, i) => u \in DOMAIN symbols
  BY DEF DocInv, Parsed, PartialParse
<1>2. PICK stale : stale = Stale(tree, next) /\ stale \in SUBSET InputSet
  BY DEF Stale
<1>3. PICK parts : parts = Parts(next, stale, PartBatch)
  OBVIOUS
<1>4. PICK bs : \E n \in Nat : Shared(next, stale, PartBatch, parts, bs, n)
  BY <1>2, <1>3, PartsOfBatches
<1>5. PICK n \in Nat :
          /\ bs = Batches(stale, PartBatch) /\ DOMAIN bs = 1..n /\ DOMAIN parts = 1..n
          /\ \A k \in 1..n : /\ parts[k] = PartOf(next, bs[k])
                             /\ bs[k] \in Seq(Files) /\ ToSet(bs[k]) \subseteq stale
          /\ \A i \in stale : \E k \in 1..n : i \in ToSet(bs[k])
  BY <1>4 DEF Shared
<1>6. PICK gone : /\ gone = ReplacedFiles(stale, parts) \union Vanished(tree, next, stale)
                  /\ stale \subseteq gone
                  /\ \A i \in InputSet \ stale : i \notin gone /\ next[i] = tree[i]
  <2>1. ReplacedFiles(stale, parts) = stale
    BY <1>2, <1>3, ReplacesStale
  <2>2. \A i \in InputSet \ stale : i \notin Vanished(tree, next, stale) /\ next[i] = tree[i]
    BY <1>1, <1>2, OthersAre
  <2> QED
    BY <2>1, <2>2
<1>7. PICK kept : kept = Without(symbols, gone)
  OBVIOUS
<1>8. PICK all : all = InsertSymbols(kept, parts) /\ tree' = next /\ symbols' = all
  BY <1>2, <1>3, <1>6, <1>7 DEF PartialParse, InsertRows
<1>9. ASSUME NEW u \in Near
      PROVE  Said(next, all, u) /\ \A i \in InputSet : Sole(next, u, i) => u \in DOMAIN all
  <2>1. u \in Usrs
    BY DEF Near
  <2>2. ASSUME u \in DOMAIN kept
        PROVE  u \in DOMAIN symbols /\ kept[u] = symbols[u] /\ IsRow(kept[u].row, next, u)
    <3>1. u \in DOMAIN symbols /\ kept[u] = symbols[u] /\ symbols[u].row.file \notin gone
      BY <1>7, <2>2, WithoutIs
    <3>2. PICK x : x = symbols[u].row /\ IsRow(x, tree, u)
      BY <1>1, <3>1 DEF Said
    <3>3. next[x.file] = tree[x.file]
      BY <1>6, <3>1, <3>2 DEF IsRow
    <3>4. IsRow(x, next, u)
      BY <3>2, <3>3 DEF IsRow, Declares
    <3> QED
      BY <3>1, <3>2, <3>4
  <2>3. CASE \E f \in stale : Declares(next, f, u)
    <3>1. PICK f \in stale : Declares(next, f, u)
      BY <2>3
    <3>2. PICK k \in 1..n : f \in ToSet(bs[k])
      BY <1>5
    <3>3. PICK batch \in Seq(Files) : /\ batch = bs[k] /\ parts[k] = PartOf(next, batch)
                                      /\ ToSet(batch) \subseteq InputSet /\ f \in ToSet(batch)
      BY <1>2, <1>5, <3>2
    <3>4. PICK r : /\ r = SymbolOf(next, batch, u)
                   /\ u \in DOMAIN parts[k].symbols /\ parts[k].symbols[u] = r
      BY <2>1, <3>1, <3>3, PartDeclares
    <3>5. ASSUME NEW l \in 1..n, u \in DOMAIN parts[l].symbols PROVE l = k
      <4>1. PICK h \in ToSet(bs[l]) : Declares(next, h, u)
        BY <1>5, <2>1, <3>5, PartDeclares
      <4> QED
        BY <1>2, <1>5, <3>1, <3>2, <4>1 DEF Gathered
    <3>6. InOnePart(parts, n, u, r)
      BY <3>4, <3>5 DEF InOnePart
    <3>7. u \in DOMAIN all /\ all[u] = SymbolRows(kept, <<r>>, u)
      BY <1>5, <1>8, <3>6, InsertedOnce
    <3>8. PICK x : x = SymbolRows(kept, <<r>>, u) /\ x = all[u]
      BY <3>7
    <3>9. /\ IsRow(x.row, next, u)
          /\ \A i \in InputSet : Sole(next, u, i) => CommentIs(x, next[i].decls[u].comment)
      BY <2>2, <3>1, <3>3, <3>4, <3>8, SaidTaken
    <3> QED
      BY <3>7, <3>8, <3>9 DEF Said
  <2>4. CASE ~ \E f \in stale : Declares(next, f, u)
    <3>1. \A l \in 1..n : u \notin DOMAIN parts[l].symbols
      <4>1. ASSUME NEW l \in 1..n, u \in DOMAIN parts[l].symbols PROVE FALSE
        <5>1. PICK h \in ToSet(bs[l]) : Declares(next, h, u)
          BY <1>5, <2>1, <4>1, PartDeclares
        <5> QED
          BY <1>5, <2>4, <5>1
      <4> QED
        BY <4>1
    <3>2. /\ u \in DOMAIN all <=> u \in DOMAIN kept
          /\ u \in DOMAIN kept => all[u] = SymbolRows(kept, <<>>, u)
      BY <1>5, <1>8, <3>1, InsertedNone
    <3>3. ASSUME u \in DOMAIN kept, NEW x, x = all[u]
          PROVE  /\ x.row = symbols[u].row /\ x.comment = symbols[u].comment
                 /\ x.projected = symbols[u].projected
      BY <2>2, <3>2, <3>3, KeptRows
    <3>4. ASSUME NEW i \in InputSet, Sole(next, u, i)
          PROVE  /\ Sole(tree, u, i) /\ next[i] = tree[i]
                 /\ \A f \in InputSet : Declares(tree, f, u) => f \notin stale
      <4>1. Declares(next, i, u)
        BY <3>4 DEF Sole, Documents
      <4>2. i \in InputSet \ stale /\ next[i] = tree[i]
        BY <1>6, <2>4, <4>1
      <4>3. Documents(tree, i, u) /\ Documents(next, i, u)
        BY <3>4, <4>2 DEF Sole, Documents, Declares
      <4>4. ASSUME NEW j \in InputSet, Documents(tree, j, u) PROVE j = i
        <5>1. j \in Closure(tree, i)
          BY <1>1, <4>3, <4>4 DEF Near, Documents
        <5>2. next[j] = tree[j]
          BY <1>2, <4>2, <5>1 DEF Stale
        <5>3. Documents(next, j, u)
          BY <4>4, <5>2 DEF Documents, Declares
        <5> QED
          BY <3>4, <5>3 DEF Sole
      <4>5. ASSUME NEW f \in InputSet, Declares(tree, f, u) PROVE f \notin stale
        <5>1. Declares(next, f, u)
          BY <1>1, <4>3, <4>5 DEF Gathered
        <5> QED
          BY <2>4, <5>1
      <4> QED
        BY <4>2, <4>3, <4>4, <4>5 DEF Sole
    <3>5. ASSUME NEW i \in InputSet, Sole(next, u, i) PROVE u \in DOMAIN kept
      <4>1. u \in DOMAIN symbols
        BY <1>1, <3>4, <3>5
      <4>2. PICK x : x = symbols[u].row /\ IsRow(x, tree, u)
        BY <1>1, <4>1 DEF Said
      <4>3. x.file \notin gone
        BY <1>6, <3>4, <3>5, <4>2 DEF IsRow
      <4> QED
        BY <1>7, <4>1, <4>2, <4>3, WithoutIs
    <3>6. Said(next, all, u)
      <4>1. ASSUME u \in DOMAIN all PROVE IsRow(all[u].row, next, u)
        BY <2>2, <3>2, <3>3, <4>1
      <4>2. ASSUME NEW i \in InputSet, Sole(next, u, i), u \in DOMAIN all
            PROVE  CommentIs(all[u], next[i].decls[u].comment)
        <5>1. CommentIs(symbols[u], tree[i].decls[u].comment)
          BY <1>1, <2>2, <3>2, <3>4, <4>2 DEF Said
        <5> QED
          BY <3>2, <3>3, <3>4, <4>2, <5>1 DEF CommentIs
      <4> QED
        BY <4>1, <4>2 DEF Said
    <3> QED
      BY <3>2, <3>5, <3>6
  <2> QED
    BY <2>3, <2>4
<1> QED
  BY <1>8, <1>9 DEF DocInv

\* A symbol that one input documents has that comment, and once (DocumentedOnce):
\* whichever batches and parses wrote its rows, whichever of the inputs that
\* declare it were parsed again, the comment is neither doubled nor lost.
THEOREM CommentsAreShownOnce == ASSUME Gathered PROVE Spec => []DocumentedOnce
<1>1. Init => DocInv
  BY DEF Init, DocInv, Parsed
<1>2. DocInv /\ [Next]_vars => DocInv'
  <2> SUFFICES ASSUME DocInv, [Next]_vars PROVE DocInv'
    OBVIOUS
  <2>1. ASSUME NEW next \in Trees, FullParse(next) PROVE DocInv'
    <3>1. tree' = next /\ symbols' = FullRows(next).symbols
      BY <2>1 DEF FullParse
    <3>2. ASSUME NEW u \in Near
          PROVE  /\ Said(next, FullRows(next).symbols, u)
                 /\ \A i \in InputSet : Sole(next, u, i) => u \in DOMAIN FullRows(next).symbols
      BY FullSays DEF Sole, Documents
    <3> QED
      BY <3>1, <3>2 DEF DocInv
  <2>2. ASSUME NEW next \in Trees, PartialParse(next) PROVE DocInv'
    BY <2>2, PartialSays
  <2>3. CASE UNCHANGED vars
    BY <2>3 DEF vars, DocInv, Parsed
  <2> QED
    BY <2>1, <2>2, <2>3 DEF Next
<1>3. DocInv => DocumentedOnce
  <2> SUFFICES ASSUME DocInv, Parsed, NEW u \in Near, NEW i \in Writing(u),
                      Cardinality(Writing(u)) = 1
               PROVE  /\ u \in DOMAIN symbols /\ symbols[u].row.doc
                      /\ symbols[u].comment = tree[i].decls[u].comment
                      /\ symbols[u].projected = <<tree[i].decls[u].comment>>
    BY DEF DocumentedOnce, HasItsComment
  <2>1. i \in InputSet /\ Documents(tree, i, u)
    BY DEF Writing, Where, Documents
  <2>2. IsFiniteSet(Writing(u))
    BY InputsAreFiles, RowsAssumption, FS_Subset DEF Writing, Where
  <2>3. ASSUME NEW j \in InputSet, Documents(tree, j, u) PROVE j = i
    <3>1. j \in Writing(u)
      BY <2>3 DEF Writing, Where, Documents
    <3> QED
      BY <2>2, <3>1, AtMostOne
  <2>4. Sole(tree, u, i)
    BY <2>1, <2>3 DEF Sole
  <2> QED
    BY <2>1, <2>4 DEF DocInv, Said, CommentIs
<1> QED
  BY <1>1, <1>2, <1>3, PTL DEF Spec

-----------------------------------------------------------------------------
(* The file: any number of parses, kills and truncations of it, whatever   *)
(* the phases in which a kill may strike.                                  *)

\* A running parse has a content of its own.
TypeInv == TypeOK /\ (pc # "idle" => parses \in Stored)

\* A partial parse runs on a database, and once committed it has a log; a log
\* over content nobody stored holds content nobody stored.
LogInv ==
    /\ pc \in {"committed", "checkpoint"} => wal # NoWal
    /\ pc \in {"write", "committed", "checkpoint"} => main.base # Absent
    /\ wal.over = Mixed => wal.holds = Mixed

\* Readers are served in every phase but one: a direct parse has swept the log
\* away and not yet renamed.  A cached build finds no log that it did not write.
ViewInv ==
    /\ target = "sibling" /\ pc \notin {"committed", "checkpoint"} => wal = NoWal
    /\ target = "direct" /\ pc = "swept" => wal = NoWal
    /\ ~ (target = "direct" /\ pc = "swept") => View = last

\* A full parse into the IR itself has reclaimed what was there.
LitterInv ==
    target = "direct" => litter <= IF pc \in {"stream", "swept"} THEN 0 ELSE 1

\* No parse stores Absent or Mixed.
LEMMA StoredFacts ==
    /\ MaxParses \in Nat /\ MaxDamage \in Nat /\ Targets \subseteq {"direct", "sibling"}
    /\ Absent \notin Stored /\ Mixed \notin Stored /\ Absent # Mixed
BY IrFileAssumption

\* What readers get is a content.
LEMMA ViewType == TypeInv => View \in Stored \union {Absent, Mixed}
BY DEF TypeInv, TypeOK, View

LEMMA TypeInit == FileInit => TypeInv
BY StoredFacts DEF FileInit, TypeInv, TypeOK, File, NoWal

LEMMA TypeStep == TypeInv /\ [FileNext]_fileVars => TypeInv'
<1> SUFFICES ASSUME TypeInv, [FileNext]_fileVars PROVE TypeInv'
  OBVIOUS
<1> USE StoredFacts DEF TypeInv, TypeOK, Phases, File, NoWal, Stored
<1>1. CASE BeginFull
  BY <1>1 DEF BeginFull, Reclaimed
<1>2. CASE Sweep
  BY <1>2 DEF Sweep, Sidecars
<1>3. CASE Rename
  BY <1>3 DEF Rename
<1>4. CASE FailFull
  BY <1>4 DEF FailFull
<1>5. CASE BeginPartial
  BY <1>5 DEF BeginPartial
<1>6. CASE Commit
  BY ViewType, <1>6 DEF Commit
<1>7. CASE FailPartial
  BY <1>7 DEF FailPartial
<1>8. CASE BeginCheckpoint
  BY <1>8 DEF BeginCheckpoint
<1>9. CASE EndCheckpoint
  BY ViewType, <1>9 DEF EndCheckpoint
<1>10. CASE Kill
  BY <1>10 DEF Kill
<1>11. CASE Damage
  BY <1>11 DEF Damage
<1>12. CASE Discard
  BY <1>12 DEF Discard
<1>13. CASE UNCHANGED fileVars
  BY <1>13 DEF fileVars
<1> QED
  BY <1>1, <1>2, <1>3, <1>4, <1>5, <1>6, <1>7, <1>8, <1>9, <1>10, <1>11, <1>12, <1>13
  DEF FileNext

\* The file and its log hold contents, whatever the kills.
THEOREM FileTypeCorrect == FileSpec => []TypeOK
<1>1. TypeInv => TypeOK
  BY DEF TypeInv
<1> QED
  BY <1>1, TypeInit, TypeStep, PTL DEF FileSpec

LEMMA LogStep == TypeInv /\ LogInv /\ [FileNext]_fileVars => LogInv'
<1> SUFFICES ASSUME TypeInv, LogInv, [FileNext]_fileVars PROVE LogInv'
  OBVIOUS
<1> USE StoredFacts DEF TypeInv, TypeOK, LogInv, Phases, File, NoWal, Stored
<1>1. CASE BeginFull
  BY <1>1 DEF BeginFull
<1>2. CASE Sweep
  BY <1>2 DEF Sweep, Sidecars
<1>3. CASE Rename
  BY <1>3 DEF Rename
<1>4. CASE FailFull
  BY <1>4 DEF FailFull
<1>5. CASE BeginPartial
  BY <1>5 DEF BeginPartial, View
<1>6. CASE Commit
  BY <1>6 DEF Commit, View
<1>7. CASE FailPartial
  BY <1>7 DEF FailPartial
<1>8. CASE BeginCheckpoint
  BY <1>8 DEF BeginCheckpoint
<1>9. CASE EndCheckpoint
  BY ViewType, <1>9 DEF EndCheckpoint, View
<1>10. CASE Kill
  BY <1>10 DEF Kill
<1>11. CASE Damage
  BY <1>11 DEF Damage
<1>12. CASE Discard
  BY <1>12 DEF Discard
<1>13. CASE UNCHANGED fileVars
  BY <1>13 DEF fileVars
<1> QED
  BY <1>1, <1>2, <1>3, <1>4, <1>5, <1>6, <1>7, <1>8, <1>9, <1>10, <1>11, <1>12, <1>13
  DEF FileNext

LEMMA ViewStep ==
    Heals /\ TypeInv /\ LogInv /\ ViewInv /\ [FileNext]_fileVars => ViewInv'
<1> SUFFICES ASSUME Heals, TypeInv, LogInv, ViewInv, [FileNext]_fileVars PROVE ViewInv'
  OBVIOUS
<1> USE StoredFacts DEF TypeInv, TypeOK, LogInv, ViewInv, View, Phases, File, NoWal, Stored
<1>1. CASE BeginFull
  BY <1>1 DEF BeginFull
<1>2. CASE Sweep
  BY <1>2 DEF Sweep, Sidecars
<1>3. CASE Rename
  BY <1>3 DEF Rename
<1>4. CASE FailFull
  BY <1>4 DEF FailFull
<1>5. CASE BeginPartial
  BY <1>5 DEF BeginPartial
<1>6. CASE Commit
  BY <1>6 DEF Commit
<1>7. CASE FailPartial
  BY <1>7 DEF FailPartial
<1>8. CASE BeginCheckpoint
  BY <1>8 DEF BeginCheckpoint
<1>9. CASE EndCheckpoint
  BY <1>9 DEF EndCheckpoint
<1>10. CASE Kill
  BY <1>10 DEF Kill, Heals
<1>11. CASE Damage
  BY <1>11 DEF Damage
<1>12. CASE Discard
  BY <1>12 DEF Discard
<1>13. CASE UNCHANGED fileVars
  BY <1>13 DEF fileVars
<1> QED
  BY <1>1, <1>2, <1>3, <1>4, <1>5, <1>6, <1>7, <1>8, <1>9, <1>10, <1>11, <1>12, <1>13
  DEF FileNext

\* Where kills strike only in phases that heal, readers get, whenever no parse
\* runs, exactly what was committed last: never a mixture, never an older IR.
THEOREM IrIsSettled == Heals => (FileSpec => []Settled)
<1> SUFFICES ASSUME Heals PROVE FileSpec => []Settled
  OBVIOUS
<1>1. FileInit => LogInv /\ ViewInv
  BY StoredFacts DEF FileInit, LogInv, ViewInv, View, File, NoWal
<1>2. ViewInv => Settled
  BY DEF ViewInv, Settled
<1>3. TypeInv /\ LogInv /\ ViewInv /\ [FileNext]_fileVars => ViewInv'
  BY ViewStep
<1> QED
  BY <1>1, <1>2, <1>3, TypeInit, TypeStep, LogStep, PTL DEF FileSpec

LEMMA LitterStep == TypeInv /\ LitterInv /\ [FileNext]_fileVars => LitterInv'
<1> SUFFICES ASSUME TypeInv, LitterInv, [FileNext]_fileVars PROVE LitterInv'
  OBVIOUS
<1> USE StoredFacts DEF TypeInv, TypeOK, LitterInv, Phases
<1>1. CASE BeginFull
  BY <1>1 DEF BeginFull, Reclaimed
<1>2. CASE Sweep
  BY <1>2 DEF Sweep
<1>3. CASE Rename
  BY <1>3 DEF Rename
<1>4. CASE FailFull
  BY <1>4 DEF FailFull
<1>5. CASE BeginPartial
  BY <1>5 DEF BeginPartial
<1>6. CASE Commit
  BY <1>6 DEF Commit
<1>7. CASE FailPartial
  BY <1>7 DEF FailPartial
<1>8. CASE BeginCheckpoint
  BY <1>8 DEF BeginCheckpoint
<1>9. CASE EndCheckpoint
  BY <1>9 DEF EndCheckpoint
<1>10. CASE Kill
  BY <1>10 DEF Kill
<1>11. CASE Damage
  BY <1>11 DEF Damage
<1>12. CASE Discard
  BY <1>12 DEF Discard
<1>13. CASE UNCHANGED fileVars
  BY <1>13 DEF fileVars
<1> QED
  BY <1>1, <1>2, <1>3, <1>4, <1>5, <1>6, <1>7, <1>8, <1>9, <1>10, <1>11, <1>12, <1>13
  DEF FileNext

\* However often parses into the IR itself are killed, one temporary database
\* is left at most.
THEOREM LitterIsBounded == FileSpec => []BoundedLitter
<1>1. FileInit => LitterInv
  BY DEF FileInit, LitterInv
<1>2. TypeInv /\ LitterInv => BoundedLitter
  BY DEF TypeInv, TypeOK, LitterInv, BoundedLitter
<1> QED
  BY <1>1, <1>2, TypeInit, TypeStep, LitterStep, PTL DEF FileSpec
=============================================================================
