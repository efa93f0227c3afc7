---------------------------- MODULE ListsProofs -----------------------------
(***************************************************************************)
(* What lists that are flattened or filtered hold, for lists of any        *)
(* length, and what FoldLeft makes of one.  FlattenSeq and FoldLeft are    *)
(* recursive functions; their partial results are shown to exist, and to   *)
(* be what they compute, by induction.  No lemma can be about any operator *)
(* of a fold, so the operator is a constant, and who folds instantiates    *)
(* this module with it.                                                    *)
(***************************************************************************)
EXTENDS Lists, SequenceTheorems, WellFoundedInduction, NaturalsInduction, TLAPS

CONSTANT Op(_, _, _)    \* a parameter, what the fold has so far, the next entry

\* What holds of 0 and with every k of k + 1 holds up to n.
LEMMA UpTo ==
    ASSUME NEW n \in Nat, NEW P, 0 \in P, \A k \in 0..(n - 1) : k \in P => k + 1 \in P
    PROVE  0..n \subseteq P
<1> DEFINE T == {k \in 0..n : k \notin P}
<1> SUFFICES ASSUME T # {} PROVE FALSE
  OBVIOUS
<1>1. PICK x \in T : \A y \in T : ~ (<<y, x>> \in OpToRel(<, Nat))
  <2>1. T \subseteq Nat
    OBVIOUS
  <2> HIDE DEF T
  <2> QED
    BY <2>1, NatLessThanWellFounded, WFMin
<1>2. x \in 0..n /\ x \notin P /\ x # 0
  OBVIOUS
<1>3. x - 1 \in 0..(n - 1) /\ x - 1 \in Nat /\ x \in Nat /\ x - 1 < x
  BY <1>2
<1>4. x - 1 \notin T
  BY <1>1, <1>3 DEF OpToRel
<1>5. x - 1 \in P
  BY <1>3, <1>4
<1> QED
  BY <1>2, <1>3, <1>5

\* The partial results of flattening ss.
Partial(S, g, ss, n) ==
    /\ n \in Nat /\ ss \in [1..n -> Seq(S)] /\ g \in [0..n -> Seq(S)]
    /\ g[0] = <<>> /\ \A k \in 1..n : g[k] = g[k - 1] \o ss[k]

\* FlattenSeq's function.
Flattening(f, ss, n) == f = [i \in 1..n |-> IF i = 1 THEN ss[i] ELSE f[i - 1] \o ss[i]]

\* The first one is the first part.
LEMMA PartialFirst ==
    ASSUME NEW S, NEW n, NEW ss, NEW g, Partial(S, g, ss, n), 1 \in 1..n
    PROVE  g[1] = ss[1]
<1>1. 0 \in 0..n /\ 1 - 1 = 0
  BY DEF Partial
<1>2. g[0] = <<>> /\ g[1] = g[0] \o ss[1]
  BY <1>1 DEF Partial
<1>3. ss[1] \in Seq(S)
  BY <1>1 DEF Partial
<1> QED
  BY <1>2, <1>3, ConcatEmptySeq

\* Partial results are what FlattenSeq's function gives.
LEMMA PartialIsFlattening ==
    ASSUME NEW S, NEW n, NEW ss, NEW g, Partial(S, g, ss, n)
    PROVE  Flattening([k \in 1..n |-> g[k]], ss, n)
<1> DEFINE f == [k \in 1..n |-> g[k]]
<1>0. n \in Nat
  BY DEF Partial
<1>1. ASSUME NEW i \in 1..n PROVE f[i] = IF i = 1 THEN ss[i] ELSE f[i - 1] \o ss[i]
  <2>1. i # 1 => i - 1 \in 1..n
    BY <1>0
  <2>2. i # 1 => f[i - 1] = g[i - 1]
    BY <2>1
  <2>3. f[i] = g[i]
    OBVIOUS
  <2>4. g[i] = g[i - 1] \o ss[i]
    BY DEF Partial
  <2>5. i = 1 => g[i] = ss[i]
    BY PartialFirst
  <2> HIDE DEF f
  <2> QED
    BY <2>2, <2>3, <2>4, <2>5
<1> QED
  BY <1>1 DEF Flattening

\* There is one such function.
LEMMA OneFlattening ==
    ASSUME NEW S, NEW n, NEW ss, NEW g, Partial(S, g, ss, n), NEW f, Flattening(f, ss, n)
    PROVE  \A k \in 1..n : f[k] = g[k]
<1>1. n \in Nat
  BY DEF Partial
<1>2. \A k \in 1..n : g[k] = g[k - 1] \o ss[k]
  BY DEF Partial
<1> DEFINE Q == {k \in 0..n : k # 0 => f[k] = g[k]}
<1>3. 0 \in Q
  BY <1>1
<1>4. ASSUME NEW k \in 0..(n - 1), k \in Q PROVE k + 1 \in Q
  <2>1. k + 1 \in 1..n /\ (k + 1) - 1 = k /\ k + 1 \in 0..n /\ (k + 1 = 1 <=> k = 0)
    BY <1>1
  <2>2. f[k + 1] = IF k = 0 THEN ss[k + 1] ELSE f[k] \o ss[k + 1]
    BY <2>1 DEF Flattening
  <2>3. g[k + 1] = g[k] \o ss[k + 1]
    BY <1>2, <2>1
  <2>4. k = 0 => g[k + 1] = ss[k + 1]
    BY <2>1, PartialFirst
  <2> QED
    BY <1>4, <2>1, <2>2, <2>3, <2>4
<1> HIDE DEF Q
<1>5. 0..n \subseteq Q
  BY <1>1, <1>3, <1>4, UpTo
<1> QED
  BY <1>1, <1>5 DEF Q

\* Partial results exist.
LEMMA PartialExists ==
    ASSUME NEW S, NEW n \in Nat, NEW ss \in [1..n -> Seq(S)]
    PROVE  \E g : Partial(S, g, ss, n)
<1> DEFINE Steps(g, m) == /\ g \in [0..m -> Seq(S)]
                          /\ g[0] = <<>> /\ \A k \in 1..m : g[k] = g[k - 1] \o ss[k]
           P == {m \in 0..n : \E g : Steps(g, m)}
<1>1. 0 \in P
  <2>1. Steps([k \in 0..0 |-> <<>>], 0)
    OBVIOUS
  <2> HIDE DEF Steps
  <2>2. \E g : Steps(g, 0)
    BY <2>1
  <2> QED
    BY <2>2
<1>2. ASSUME NEW m \in 0..(n - 1), m \in P PROVE m + 1 \in P
  <2>1. PICK g : Steps(g, m)
    BY <1>2
  <2> DEFINE h == [k \in 0..(m + 1) |-> IF k = m + 1 THEN g[m] \o ss[m + 1] ELSE g[k]]
  <2>2. /\ m \in Nat /\ m + 1 \in 1..n /\ m + 1 \in 0..n /\ m + 1 \in 0..(m + 1) /\ (m + 1) - 1 = m
        /\ m \in 0..m /\ m \in 0..(m + 1) /\ m # m + 1 /\ 0 \in 0..m /\ 0 # m + 1
    OBVIOUS
  <2>3. g[m] \in Seq(S) /\ ss[m + 1] \in Seq(S) /\ g[m] \o ss[m + 1] \in Seq(S)
    BY <2>1, <2>2, ConcatProperties
  <2>4. h \in [0..(m + 1) -> Seq(S)]
    BY <2>1, <2>3
  <2>5. h[0] = <<>>
    BY <2>1, <2>2
  <2>6. ASSUME NEW k \in 1..(m + 1) PROVE h[k] = h[k - 1] \o ss[k]
    <3>1. CASE k = m + 1
      <4>1. h[m + 1] = g[m] \o ss[m + 1] /\ h[m] = g[m]
        BY <2>2
      <4> HIDE DEF h
      <4> QED
        BY <3>1, <4>1, <2>2
    <3>2. CASE k # m + 1
      <4>1. k \in 1..m /\ k - 1 \in 0..m /\ k - 1 # m + 1 /\ k \in 0..(m + 1) /\ k - 1 \in 0..(m + 1)
        BY <3>2
      <4>2. h[k] = g[k] /\ h[k - 1] = g[k - 1]
        BY <4>1, <3>2
      <4>3. g[k] = g[k - 1] \o ss[k]
        BY <2>1, <4>1
      <4> HIDE DEF h
      <4> QED
        BY <4>2, <4>3
    <3> QED
      BY <3>1, <3>2
  <2> HIDE DEF h
  <2>7. Steps(h, m + 1)
    BY <2>4, <2>5, <2>6
  <2> HIDE DEF Steps
  <2> QED
    BY <2>2, <2>7
<1> HIDE DEF P
<1>3. 0..n \subseteq P
  BY <1>1, <1>2, UpTo
<1>4. n \in P
  BY <1>3
<1>5. PICK g : Steps(g, n)
  BY <1>4 DEF P
<1> QED
  BY <1>5 DEF Partial

\* The last of the partial results is the whole.
LEMMA FlattenSteps ==
    ASSUME NEW S, NEW ss \in Seq(Seq(S))
    PROVE  \E g : Partial(S, g, ss, Len(ss)) /\ FlattenSeq(ss) = g[Len(ss)]
<1>1. PICK n \in Nat : n = Len(ss)
  OBVIOUS
<1>2. ss \in [1..n -> Seq(S)]
  BY <1>1
<1>3. PICK g : Partial(S, g, ss, n)
  BY <1>2, PartialExists
<1>4. FlattenSeq(ss) = g[n]
  <2>1. CASE n = 0
    <3>1. Len(ss) = 0
      BY <1>1, <2>1
    <3>2. ss = <<>>
      BY <3>1, EmptySeq
    <3> QED
      BY <1>3, <2>1, <3>1, <3>2 DEF FlattenSeq, Partial
  <2>2. CASE n # 0
    <3>1. FlattenSeq(ss) = (CHOOSE f : Flattening(f, ss, n))[n]
      BY <1>1, <2>2 DEF FlattenSeq, Flattening
    <3>2. Flattening([k \in 1..n |-> g[k]], ss, n)
      BY <1>3, PartialIsFlattening
    <3>3. PICK f : f = (CHOOSE e : Flattening(e, ss, n)) /\ Flattening(f, ss, n)
      BY <3>2
    <3>4. \A k \in 1..n : f[k] = g[k]
      BY <1>3, <3>3, OneFlattening
    <3>5. n \in 1..n
      BY <2>2
    <3> QED
      BY <3>1, <3>3, <3>4, <3>5
  <2> QED
    BY <2>1, <2>2
<1> QED
  BY <1>1, <1>3, <1>4

\* What is in two lists put together is what is in one of them.
LEMMA AppendedSet ==
    ASSUME NEW S, NEW s \in Seq(S), NEW r \in Seq(S)
    PROVE  ToSet(s \o r) = ToSet(s) \union ToSet(r)
<1>1. /\ DOMAIN (s \o r) = 1..(Len(s) + Len(r))
      /\ \A i \in 1..(Len(s) + Len(r)) :
             (s \o r)[i] = IF i <= Len(s) THEN s[i] ELSE r[i - Len(s)]
      /\ DOMAIN s = 1..Len(s) /\ DOMAIN r = 1..Len(r) /\ Len(s) \in Nat /\ Len(r) \in Nat
  OBVIOUS
<1>2. ASSUME NEW i \in DOMAIN s PROVE s[i] \in ToSet(s \o r)
  BY <1>1 DEF ToSet
<1>3. ASSUME NEW i \in DOMAIN r PROVE r[i] \in ToSet(s \o r)
  <2>1. Len(s) + i \in 1..(Len(s) + Len(r)) /\ ~ (Len(s) + i <= Len(s)) /\ (Len(s) + i) - Len(s) = i
    BY <1>1
  <2>2. (s \o r)[Len(s) + i] = r[i]
    BY <1>1, <2>1
  <2> QED
    BY <1>1, <2>1, <2>2 DEF ToSet
<1>4. ASSUME NEW i \in DOMAIN (s \o r) PROVE (s \o r)[i] \in ToSet(s) \union ToSet(r)
  BY <1>1 DEF ToSet
<1> QED
  BY <1>2, <1>3, <1>4 DEF ToSet

\* What is in a flattened sequence is what is in its parts.
LEMMA InFlattened ==
    ASSUME NEW S, NEW ss \in Seq(Seq(S))
    PROVE  /\ FlattenSeq(ss) \in Seq(S)
           /\ ToSet(FlattenSeq(ss)) = UNION {ToSet(ss[i]) : i \in DOMAIN ss}
<1>1. PICK g : Partial(S, g, ss, Len(ss)) /\ FlattenSeq(ss) = g[Len(ss)]
  BY FlattenSteps
<1>2. PICK n \in Nat : n = Len(ss)
  OBVIOUS
<1>3. Partial(S, g, ss, n)
  BY <1>1, <1>2
<1>4. DOMAIN ss = 1..n
  BY <1>2
<1> DEFINE Upto(k) == UNION {ToSet(ss[i]) : i \in 1..k}
           P == {k \in 0..n : ToSet(g[k]) = Upto(k)}
<1>5. 0 \in P
  <2>1. ToSet(g[0]) = {}
    BY <1>3 DEF ToSet, Partial
  <2> QED
    BY <2>1
<1>6. ASSUME NEW k \in 0..(n - 1), k \in P PROVE k + 1 \in P
  <2>1. /\ k \in 0..n /\ k + 1 \in 1..n /\ (k + 1) - 1 = k /\ k + 1 \in 0..n
        /\ 1..(k + 1) = (1..k) \union {k + 1}
    OBVIOUS
  <2>2. g[k + 1] = g[k] \o ss[k + 1]
    BY <1>3, <2>1 DEF Partial
  <2>3. g[k] \in Seq(S) /\ ss[k + 1] \in Seq(S)
    BY <1>3, <2>1 DEF Partial
  <2>4. ToSet(g[k + 1]) = ToSet(g[k]) \union ToSet(ss[k + 1])
    BY <2>2, <2>3, AppendedSet
  <2>5. Upto(k + 1) = Upto(k) \union ToSet(ss[k + 1])
    BY <2>1
  <2> HIDE DEF Upto
  <2> QED
    BY <1>6, <2>1, <2>4, <2>5
<1> HIDE DEF P
<1>7. 0..n \subseteq P
  BY <1>5, <1>6, UpTo
<1>8. n \in 0..n
  OBVIOUS
<1>9. ToSet(g[n]) = Upto(n)
  BY <1>7, <1>8 DEF P
<1>10. g[n] \in Seq(S)
  BY <1>3, <1>8 DEF Partial
<1>11. FlattenSeq(ss) = g[n]
  BY <1>1, <1>2
<1>12. Upto(n) = UNION {ToSet(ss[i]) : i \in DOMAIN ss}
  BY <1>4
<1> HIDE DEF Upto
<1> QED
  BY <1>9, <1>10, <1>11, <1>12

\* c is s at the places J, which p lists in order.
Places(c, p, s, J) ==
    /\ p \in [1..Len(c) -> J]
    /\ \A k \in 1..Len(c) : c[k] = s[p[k]]
    /\ \A k \in 1..Len(c) : \A l \in 1..Len(c) : k < l => p[k] < p[l]
    /\ \A i \in J : \E k \in 1..Len(c) : p[k] = i

\* One more place, behind the others.
LEMMA OneMorePlace ==
    ASSUME NEW S, NEW c \in Seq(S), NEW s, NEW J \in SUBSET Nat, NEW i \in Nat,
           \A j \in J : j < i, s[i] \in S, \E p : Places(c, p, s, J)
    PROVE  \E p : Places(c \o <<s[i]>>, p, s, J \union {i})
<1>1. PICK p : Places(c, p, s, J)
  OBVIOUS
<1>2. PICK n \in Nat : n = Len(c)
  OBVIOUS
<1> DEFINE d == c \o <<s[i]>>
           q == [k \in 1..(n + 1) |-> IF k = n + 1 THEN i ELSE p[k]]
<1>3. Len(d) = n + 1 /\ d[n + 1] = s[i] /\ \A k \in 1..n : d[k] = c[k]
  BY <1>2
<1>4. q[n + 1] = i /\ \A k \in 1..n : q[k] = p[k] /\ p[k] \in J
  BY <1>1, <1>2 DEF Places
<1>5. q \in [1..(n + 1) -> J \union {i}]
  BY <1>1, <1>2 DEF Places
<1>6. 1..(n + 1) = (1..n) \union {n + 1}
  OBVIOUS
<1> HIDE DEF q, d
<1>7. ASSUME NEW k \in 1..(n + 1) PROVE d[k] = s[q[k]]
  <2>1. k \in 1..n => c[k] = s[p[k]]
    BY <1>1, <1>2 DEF Places
  <2> QED
    BY <1>3, <1>4, <1>6, <2>1
<1>8. ASSUME NEW k \in 1..(n + 1), NEW l \in 1..(n + 1), k < l PROVE q[k] < q[l]
  <2>1. k \in 1..n
    BY <1>8
  <2>2. CASE l = n + 1
    BY <1>4, <2>1, <2>2
  <2>3. CASE l # n + 1
    <3>1. l \in 1..n
      BY <2>3
    <3>2. p[k] < p[l]
      BY <1>1, <1>2, <1>8, <2>1, <3>1 DEF Places
    <3> QED
      BY <1>4, <2>1, <3>1, <3>2
  <2> QED
    BY <2>2, <2>3
<1>9. ASSUME NEW j \in J \union {i} PROVE \E k \in 1..(n + 1) : q[k] = j
  <2>1. CASE j = i
    BY <1>4, <1>6, <2>1
  <2>2. CASE j # i
    <3>1. PICK k \in 1..n : p[k] = j
      BY <1>1, <1>2, <2>2 DEF Places
    <3> QED
      BY <1>4, <1>6, <3>1
  <2> QED
    BY <2>1, <2>2
<1>10. Places(d, q, s, J \union {i})
  BY <1>3, <1>5, <1>7, <1>8, <1>9 DEF Places
<1> QED
  BY <1>10 DEF d

\* Chosen takes the entries at the places, each once and in order.
LEMMA ChosenPlaces ==
    ASSUME NEW S, NEW s \in Seq(S), NEW I
    PROVE  /\ Chosen(s, I) \in Seq(S)
           /\ \E p : Places(Chosen(s, I), p, s, I \intersect DOMAIN s)
<1>1. PICK n \in Nat : n = Len(s)
  OBVIOUS
<1>2. DOMAIN s = 1..n /\ \A i \in 1..n : s[i] \in S
  BY <1>1
<1>3. PICK ss : ss = [i \in 1..n |-> IF i \in I THEN <<s[i]>> ELSE <<>>]
  OBVIOUS
<1>4. ss \in Seq(Seq(S)) /\ Len(ss) = n
  <2>1. \A i \in 1..n : (IF i \in I THEN <<s[i]>> ELSE <<>>) \in Seq(S)
    BY <1>2
  <2>2. ss \in [1..n -> Seq(S)]
    BY <1>3, <2>1
  <2> QED
    BY <2>2
<1>5. PICK g : Partial(S, g, ss, n) /\ FlattenSeq(ss) = g[n]
  BY <1>4, FlattenSteps
<1> DEFINE To(k) == I \intersect (1..k)
           P == {k \in 0..n : \E p : Places(g[k], p, s, To(k))}
<1>6. 0 \in P
  <2>1. g[0] = <<>> /\ Len(g[0]) = 0
    BY <1>5 DEF Partial
  <2>2. To(0) = {} /\ 1..0 = {}
    OBVIOUS
  <2>3. Places(g[0], <<>>, s, To(0))
    BY <2>1, <2>2 DEF Places
  <2> QED
    BY <2>3
<1>7. ASSUME NEW k \in 0..(n - 1), k \in P PROVE k + 1 \in P
  <2>1. k \in Nat /\ k \in 0..n /\ k + 1 \in 1..n /\ (k + 1) - 1 = k /\ k + 1 \in 0..n
    OBVIOUS
  <2>2. g[k + 1] = g[k] \o ss[k + 1]
    BY <1>5, <2>1 DEF Partial
  <2>3. g[k] \in Seq(S)
    BY <1>5, <2>1 DEF Partial
  <2>4. \E p : Places(g[k], p, s, To(k))
    BY <1>7
  <2>5. CASE k + 1 \in I
    <3>1. To(k + 1) = To(k) \union {k + 1} /\ To(k) \in SUBSET Nat /\ \A j \in To(k) : j < k + 1
      BY <2>1, <2>5
    <3>2. ss[k + 1] = <<s[k + 1]>>
      BY <1>3, <2>1, <2>5
    <3>3. s[k + 1] \in S
      BY <1>2, <2>1
    <3> HIDE DEF To
    <3>4. PICK c \in Seq(S) : c = g[k]
      BY <2>3
    <3>5. PICK J \in SUBSET Nat : J = To(k)
      BY <3>1
    <3>6. PICK i \in Nat : i = k + 1
      BY <2>1
    <3>7. (\A j \in J : j < i) /\ s[i] \in S /\ \E p : Places(c, p, s, J)
      BY <2>4, <3>1, <3>3, <3>4, <3>5, <3>6
    <3>8. \E p : Places(c \o <<s[i]>>, p, s, J \union {i})
      BY <3>7, OneMorePlace
    <3> QED
      BY <2>1, <2>2, <3>1, <3>2, <3>4, <3>5, <3>6, <3>8
  <2>6. CASE k + 1 \notin I
    <3>1. To(k + 1) = To(k)
      BY <2>1, <2>6
    <3>2. ss[k + 1] = <<>>
      BY <1>3, <2>1, <2>6
    <3>3. g[k + 1] = g[k]
      BY <2>2, <2>3, <3>2, ConcatEmptySeq
    <3> HIDE DEF To
    <3> QED
      BY <2>1, <2>4, <3>1, <3>3
  <2> QED
    BY <2>5, <2>6
<1> HIDE DEF P
<1>8. 0..n \subseteq P
  BY <1>6, <1>7, UpTo
<1>9. n \in 0..n
  OBVIOUS
<1>10. \E p : Places(g[n], p, s, To(n))
  BY <1>8, <1>9 DEF P
<1>11. g[n] \in Seq(S)
  BY <1>5, <1>9 DEF Partial
<1>12. Chosen(s, I) = g[n]
  BY <1>2, <1>3, <1>5 DEF Chosen
<1> QED
  BY <1>2, <1>10, <1>11, <1>12

\* As sets.
LEMMA ChosenSet ==
    ASSUME NEW S, NEW s \in Seq(S), NEW I
    PROVE  ToSet(Chosen(s, I)) = {s[i] : i \in I \intersect DOMAIN s}
<1>1. PICK p : Places(Chosen(s, I), p, s, I \intersect DOMAIN s)
  BY ChosenPlaces
<1>2. DOMAIN Chosen(s, I) = 1..Len(Chosen(s, I))
  BY ChosenPlaces
<1> QED
  BY <1>1, <1>2 DEF Places, ToSet

\* If one place is chosen, it is that entry; if none, nothing.
LEMMA ChosenOne ==
    ASSUME NEW S, NEW s \in Seq(S), NEW I, NEW i, I \intersect DOMAIN s = {i}
    PROVE  Chosen(s, I) = <<s[i]>>
<1>1. PICK p : Places(Chosen(s, I), p, s, {i})
  BY ChosenPlaces
<1>2. PICK c : c = Chosen(s, I) /\ c \in Seq(S) /\ Places(c, p, s, {i})
  BY <1>1, ChosenPlaces
<1>3. PICK n \in Nat : n = Len(c)
  BY <1>2
<1>4. \A k \in 1..n : p[k] = i /\ c[k] = s[i]
  BY <1>2, <1>3 DEF Places
<1>5. i \in Nat
  <2>1. i \in DOMAIN s
    OBVIOUS
  <2> QED
    BY <2>1
<1>6. n = 1
  <2>1. n # 0
    BY <1>2, <1>3 DEF Places
  <2>2. ~(1 < n)
    <3>1. SUFFICES ASSUME 1 < n PROVE FALSE
      OBVIOUS
    <3>2. p[1] < p[2]
      BY <1>2, <1>3, <3>1 DEF Places
    <3> QED
      BY <1>4, <1>5, <3>1, <3>2
  <2> QED
    BY <2>1, <2>2
<1>7. Len(c) = 1 /\ c[1] = s[i] /\ c \in Seq(S)
  BY <1>2, <1>3, <1>4, <1>6
<1>8. c = <<s[i]>>
  <2>1. s[i] \in S
    BY <1>7
  <2>2. <<s[i]>> \in Seq(S) /\ Len(<<s[i]>>) = 1 /\ <<s[i]>>[1] = s[i]
    BY <2>1
  <2> QED
    BY <1>7, <2>2, SeqEqual
<1> QED
  BY <1>2, <1>8

\* A choice of no place of a list is empty.
LEMMA ChosenNone ==
    ASSUME NEW S, NEW s \in Seq(S), NEW I, I \intersect DOMAIN s = {}
    PROVE  Chosen(s, I) = <<>>
<1>1. PICK p : Places(Chosen(s, I), p, s, {})
  BY ChosenPlaces
<1>2. PICK c : c = Chosen(s, I) /\ c \in Seq(S) /\ Places(c, p, s, {})
  BY <1>1, ChosenPlaces
<1>3. PICK n \in Nat : n = Len(c)
  BY <1>2
<1>4. n = 0
  <2>1. \A k \in 1..n : p[k] \in {}
    BY <1>2, <1>3 DEF Places
  <2>2. n # 0 => 1 \in 1..n
    OBVIOUS
  <2> QED
    BY <2>1, <2>2
<1> QED
  BY <1>2, <1>3, <1>4, EmptySeq

-----------------------------------------------------------------------------
\* FoldLeft's function for a list with the places D, what it gives for all of them,
\* and its partial results.
Folds(f, par, base, s, D) ==
    f = [S \in SUBSET D |-> IF S = {} THEN base ELSE Op(par, f[S \ {Max(S)}], s[Max(S)])]
Folded(par, base, s, D) == (CHOOSE f : Folds(f, par, base, s, D))[D]
FoldSteps(g, par, base, s, n) ==
    DOMAIN g = 0..n /\ g[0] = base /\ \A k \in 1..n : g[k] = Op(par, g[k - 1], s[k])

\* The greatest of some places is one of them, and no other one is.
LEMMA MaxIs ==
    ASSUME NEW n \in Nat, NEW S \in SUBSET (1..n), S # {}
    PROVE  Max(S) \in S /\ \A i \in S : i <= Max(S)
<1> DEFINE P == {k \in 0..n : \A i \in S : i <= k}
<1>0. n \in P
  OBVIOUS
<1> DEFINE Q == {k \in 0..n : k \in P => \E m \in S : \A i \in S : m >= i}
<1>1. 0 \in Q
  <2>1. PICK i : i \in S /\ i \in 1..n
    OBVIOUS
  <2>2. ~(i <= 0)
    BY <2>1
  <2>3. 0 \notin P
    BY <2>1, <2>2
  <2> QED
    BY <2>3
<1>2. ASSUME NEW k \in 0..(n - 1), k \in Q PROVE k + 1 \in Q
  <2>1. k + 1 \in 0..n
    OBVIOUS
  <2>2. ASSUME k + 1 \in P PROVE \E m \in S : \A i \in S : m >= i
    <3>1. CASE k + 1 \in S
      BY <2>2, <3>1
    <3>2. CASE k + 1 \notin S
      <4>1. k \in P
        BY <2>2, <3>2
      <4> QED
        BY <4>1, <1>2
    <3> QED
      BY <3>1, <3>2
  <2> QED
    BY <2>1, <2>2
<1>3. n \in Q
  <2> HIDE DEF Q
  <2> QED
    BY <1>1, <1>2, UpTo
<1>4. \E m \in S : \A i \in S : m >= i
  BY <1>0, <1>3
<1>5. Max(S) \in S /\ \A i \in S : Max(S) >= i
  BY <1>4 DEF Max
<1> QED
  BY <1>5

\* The maximum of a set of places is the one that no other exceeds.
LEMMA TheMaxIs ==
    ASSUME NEW n \in Nat, NEW S \in SUBSET (1..n), NEW m \in S, \A i \in S : i <= m
    PROVE  Max(S) = m
<1>1. Max(S) \in S /\ m <= Max(S)
  BY MaxIs
<1>2. Max(S) <= m /\ Max(S) \in 1..n /\ m \in 1..n
  BY <1>1
<1> QED
  BY <1>1, <1>2

\* From the function for n places, the one for n + 1.
LEMMA OneMoreFold ==
    ASSUME NEW par, NEW base, NEW s, NEW n \in Nat, NEW f, Folds(f, par, base, s, 1..n)
    PROVE  \E e : Folds(e, par, base, s, 1..(n + 1))
<1> DEFINE e == [S \in SUBSET (1..(n + 1)) |->
                    IF n + 1 \in S THEN Op(par, f[S \ {n + 1}], s[n + 1]) ELSE f[S]]
<1>1. ASSUME NEW S \in SUBSET (1..(n + 1))
      PROVE  e[S] = IF S = {} THEN base ELSE Op(par, e[S \ {Max(S)}], s[Max(S)])
  <2>1. CASE n + 1 \in S
    <3>1. Max(S) = n + 1
      <4>1. n + 1 \in Nat /\ \A i \in S : i <= n + 1
        OBVIOUS
      <4> QED
        BY <2>1, <4>1, TheMaxIs
    <3>2. S \ {n + 1} \in SUBSET (1..n)
      OBVIOUS
    <3>3. e[S \ {n + 1}] = f[S \ {n + 1}]
      BY <3>2
    <3> QED
      BY <2>1, <3>1, <3>3
  <2>2. CASE n + 1 \notin S
    <3>1. S \in SUBSET (1..n) /\ e[S] = f[S]
      BY <2>2
    <3>2. f[S] = IF S = {} THEN base ELSE Op(par, f[S \ {Max(S)}], s[Max(S)])
      BY <3>1 DEF Folds
    <3>3. S \ {Max(S)} \in SUBSET (1..n) /\ n + 1 \notin S \ {Max(S)}
      <4>1. PICK m : m = Max(S)
        OBVIOUS
      <4>2. S \ {m} \subseteq S
        OBVIOUS
      <4> HIDE DEF e
      <4> QED
        BY <2>2, <3>1, <4>1, <4>2
    <3>4. e[S \ {Max(S)}] = f[S \ {Max(S)}]
      BY <3>3
    <3> QED
      BY <3>1, <3>2, <3>4
  <2> QED
    BY <2>1, <2>2
<1>2. DOMAIN e = SUBSET (1..(n + 1)) /\ e = [S \in DOMAIN e |-> e[S]]
  OBVIOUS
<1> HIDE DEF e
<1>3. Folds(e, par, base, s, 1..(n + 1))
  BY <1>1, <1>2 DEF Folds
<1> QED
  BY <1>3

\* What FoldLeft gives is the last of its partial results.
LEMMA Folding ==
    ASSUME NEW par, NEW base, NEW s, NEW D, NEW n \in Nat, D = 1..n
    PROVE  \E g : FoldSteps(g, par, base, s, n) /\ Folded(par, base, s, D) = g[n]
<1> DEFINE P == {m \in 0..n : \E f : Folds(f, par, base, s, 1..m)}
<1>1. 0 \in P
  <2>1. SUBSET (1..0) = {{}}
    OBVIOUS
  <2> DEFINE e == [S \in SUBSET (1..0) |-> base]
  <2>2. Folds(e, par, base, s, 1..0)
    BY <2>1 DEF Folds
  <2> QED
    BY <2>2
<1>2. ASSUME NEW k \in 0..(n - 1), k \in P PROVE k + 1 \in P
  BY <1>2, OneMoreFold
<1>3. n \in P
  <2> HIDE DEF P
  <2>1. 0..n \subseteq P
    BY <1>1, <1>2, UpTo
  <2> QED
    BY <2>1
<1>4. PICK f : f = (CHOOSE e : Folds(e, par, base, s, D)) /\ Folds(f, par, base, s, D)
  BY <1>3
<1> DEFINE g == [k \in 0..n |-> f[1..k]]
<1>5. ASSUME NEW k \in 0..n
      PROVE  f[1..k] = IF 1..k = {} THEN base ELSE Op(par, f[(1..k) \ {Max(1..k)}], s[Max(1..k)])
  <2>1. 1..k \in SUBSET (1..n)
    OBVIOUS
  <2> QED
    BY <1>4, <2>1 DEF Folds
<1>6. g[0] = base
  <2>1. 1..0 = {} /\ 0 \in 0..n
    OBVIOUS
  <2>2. f[1..0] = base
    BY <1>5, <2>1
  <2> QED
    BY <2>1, <2>2
<1>7. ASSUME NEW k \in 1..n PROVE g[k] = Op(par, g[k - 1], s[k])
  <2>1. k \in 1..k /\ k \in Nat
    OBVIOUS
  <2>2. Max(1..k) = k
    <3>1. 1..k \in SUBSET (1..k) /\ \A i \in 1..k : i <= k
      OBVIOUS
    <3> QED
      BY <2>1, <3>1, TheMaxIs
  <2>3. (1..k) \ {k} = 1..(k - 1) /\ k - 1 \in 0..n
    OBVIOUS
  <2>4. f[1..k] = Op(par, f[1..(k - 1)], s[k]) /\ k \in 0..n
    <3>1. k \in 0..n /\ 1..k # {}
      BY <2>1
    <3>2. f[1..k] = Op(par, f[(1..k) \ {Max(1..k)}], s[Max(1..k)])
      BY <1>5, <3>1
    <3> QED
      BY <2>2, <2>3, <3>1, <3>2
  <2> QED
    BY <2>3, <2>4
<1>8. f[D] = g[n] /\ DOMAIN g = 0..n
  OBVIOUS
<1>9. Folded(par, base, s, D) = g[n]
  BY <1>4, <1>8 DEF Folded
<1> HIDE DEF g
<1>10. FoldSteps(g, par, base, s, n)
  BY <1>6, <1>7, <1>8 DEF FoldSteps
<1> QED
  BY <1>9, <1>10

-----------------------------------------------------------------------------
(* Recursion down a forest: a function of the nodes S whose value at a     *)
(* node depends on its values at the node's kids.                          *)

Forest(S, Kids) ==
    /\ \A s \in S : Kids[s] \subseteq S
    /\ \A T \in SUBSET S : T # {} => \E s \in T : Kids[s] \intersect T = {}
Downward(par, S, Kids) ==
    \A s \in S : \A f, g : (\A c \in Kids[s] : f[c] = g[c]) => Op(par, f, s) = Op(par, g, s)

\* g has the values of the nodes D, and D has their kids.
Solves(par, g, D, Kids) == \A s \in D : Kids[s] \subseteq D /\ g[s] = Op(par, g, s)

\* Where two solutions have a value, it is one.
LEMMA OneSolution ==
    ASSUME NEW par, NEW S, NEW Kids, Forest(S, Kids), Downward(par, S, Kids),
           NEW D \in SUBSET S, NEW E \in SUBSET S, NEW f, NEW g,
           Solves(par, f, D, Kids), Solves(par, g, E, Kids), NEW s \in D \intersect E
    PROVE  f[s] = g[s]
<1> DEFINE T == {d \in D \intersect E : f[d] # g[d]}
<1> SUFFICES ASSUME T # {} PROVE FALSE
  OBVIOUS
<1>1. PICK d \in T : Kids[d] \intersect T = {}
  BY DEF Forest
<1>2. \A c \in Kids[d] : f[c] = g[c]
  BY <1>1 DEF Solves
<1>3. Op(par, f, d) = Op(par, g, d)
  BY <1>2 DEF Downward
<1> QED
  BY <1>3 DEF Solves

\* There is one for all nodes.
LEMMA Recursion ==
    ASSUME NEW par, NEW S, NEW Kids, Forest(S, Kids), Downward(par, S, Kids)
    PROVE  \E G : G = [s \in S |-> Op(par, G, s)]
<1> DEFINE Has(s, g) == \E D \in SUBSET S : s \in D /\ Solves(par, g, D, Kids)
           W == {s \in S : \E g : Has(s, g)}
           G == [s \in S |-> (CHOOSE g : Has(s, g))[s]]
<1>1. ASSUME NEW d \in W
      PROVE  Kids[d] \subseteq W /\ G[d] = Op(par, G, d)
  <2>1. PICK g : g = CHOOSE h : Has(d, h)
    OBVIOUS
  <2>2. Has(d, g)
    BY <2>1
  <2>3. PICK D \in SUBSET S : d \in D /\ Solves(par, g, D, Kids)
    BY <2>2
  <2>4. ASSUME NEW c \in Kids[d]
        PROVE  c \in W /\ G[c] = g[c]
    <3>1. c \in D /\ c \in S
      BY <2>3 DEF Solves
    <3>2. Has(c, g)
      BY <2>3, <3>1
    <3>3. PICK h : h = CHOOSE e : Has(c, e)
      OBVIOUS
    <3>4. Has(c, h) /\ G[c] = h[c]
      BY <3>1, <3>2, <3>3
    <3>5. PICK E \in SUBSET S : c \in E /\ Solves(par, h, E, Kids)
      BY <3>4
    <3>6. h[c] = g[c]
      BY <2>3, <3>1, <3>5, OneSolution
    <3> QED
      BY <3>1, <3>2, <3>4, <3>6
  <2>5. G[d] = g[d] /\ g[d] = Op(par, g, d)
    BY <2>1, <2>3 DEF Solves
  <2>6. Op(par, G, d) = Op(par, g, d)
    <3> HIDE DEF G, W
    <3> QED
      BY <2>3, <2>4 DEF Downward
  <2> QED
    BY <2>4, <2>5, <2>6
<1>2. W = S
  <2> SUFFICES ASSUME S \ W # {} PROVE FALSE
    OBVIOUS
  <2>1. PICK s \in S \ W : Kids[s] \intersect (S \ W) = {}
    <3> HIDE DEF W
    <3> QED
      BY DEF Forest
  <2>2. Kids[s] \subseteq W
    <3> HIDE DEF W
    <3> QED
      BY <2>1 DEF Forest
  <2> DEFINE D == W \union {s}
             h == [d \in D |-> IF d = s THEN Op(par, G, s) ELSE G[d]]
  <2>3. ASSUME NEW d \in D
        PROVE  Kids[d] \subseteq D /\ h[d] = Op(par, h, d)
    <3>1. Kids[d] \subseteq W
      BY <1>1, <2>2
    <3>2. \A c \in Kids[d] : h[c] = G[c]
      <4> HIDE DEF G, W
      <4> QED
        BY <2>1, <3>1
    <3>3. d \in S
      BY <2>1
    <3>4. Op(par, h, d) = Op(par, G, d)
      <4> HIDE DEF G, W, h
      <4> QED
        BY <3>2, <3>3 DEF Downward
    <3>5. h[d] = Op(par, G, d)
      <4> HIDE DEF G, W
      <4> QED
        BY <1>1
    <3> QED
      BY <3>1, <3>4, <3>5
  <2>4. Solves(par, h, D, Kids) /\ s \in D /\ D \in SUBSET S
    <3> HIDE DEF h
    <3> QED
      BY <2>3 DEF Solves
  <2>5. Has(s, h)
    <3> HIDE DEF h, D
    <3> QED
      BY <2>4
  <2> QED
    <3> HIDE DEF h, D, Has
    <3> QED
      BY <2>1, <2>5
<1>3. G = [s \in S |-> Op(par, G, s)]
  <2>1. \A s \in S : G[s] = Op(par, G, s)
    BY <1>1, <1>2
  <2>2. G = [s \in S |-> G[s]]
    OBVIOUS
  <2> HIDE DEF G
  <2> QED
    BY <2>1, <2>2
<1> QED
  BY <1>3

-----------------------------------------------------------------------------
(* Lists whose entries are of no set in particular.                        *)

IsList(x) == x \in Seq(ToSet(x))

\* What a list is.
LEMMA ListFacts ==
    ASSUME NEW x, IsList(x)
    PROVE  /\ Len(x) \in Nat /\ DOMAIN x = 1..Len(x) /\ x = [i \in 1..Len(x) |-> x[i]]
           /\ \A i \in 1..Len(x) : x[i] \in ToSet(x)
           /\ <<>> \o x = x
BY ConcatEmptySeq DEF IsList, ToSet

\* Sequences are lists, and so are functions on an initial segment.
LEMMA SequenceIsList ==
    ASSUME NEW S, NEW x \in Seq(S)
    PROVE  IsList(x)
BY DEF IsList, ToSet

LEMMA FunctionIsList ==
    ASSUME NEW n \in Nat, NEW x, DOMAIN x = 1..n, x = [i \in 1..n |-> x[i]]
    PROVE  IsList(x) /\ Len(x) = n
<1>1. \A i \in 1..n : x[i] \in ToSet(x)
  BY DEF ToSet
<1>2. x \in [1..n -> ToSet(x)]
  BY <1>1
<1> QED
  BY <1>2 DEF IsList

\* Lists are put together,
LEMMA AppendedList ==
    ASSUME NEW x, NEW y, IsList(x), IsList(y)
    PROVE  IsList(x \o y) /\ ToSet(x \o y) = ToSet(x) \union ToSet(y) /\ Len(x \o y) = Len(x) + Len(y)
<1>1. PICK S : S = ToSet(x) \union ToSet(y)
  OBVIOUS
<1>2. x \in Seq(S) /\ y \in Seq(S)
  <2>1. \A i \in 1..Len(x) : x[i] \in S
    BY <1>1, ListFacts
  <2>2. \A i \in 1..Len(y) : y[i] \in S
    BY <1>1, ListFacts
  <2> QED
    BY <2>1, <2>2, ListFacts
<1>3. x \o y \in Seq(S) /\ Len(x \o y) = Len(x) + Len(y)
  BY <1>2
<1> QED
  BY <1>2, <1>3, SequenceIsList, AppendedSet

\* flattened,
LEMMA FlattenedList ==
    ASSUME NEW ss, IsList(ss), \A i \in DOMAIN ss : IsList(ss[i])
    PROVE  /\ IsList(FlattenSeq(ss))
           /\ ToSet(FlattenSeq(ss)) = UNION {ToSet(ss[i]) : i \in DOMAIN ss}
<1>1. PICK S : S = UNION {ToSet(ss[i]) : i \in DOMAIN ss}
  OBVIOUS
<1>2. ASSUME NEW i \in DOMAIN ss PROVE ss[i] \in Seq(S)
  <2>1. PICK x : x = ss[i]
    OBVIOUS
  <2>2. ToSet(x) \subseteq S
    BY <1>1, <2>1
  <2>3. IsList(x)
    BY <2>1
  <2>4. \A k \in 1..Len(x) : x[k] \in S
    BY <2>2, <2>3, ListFacts
  <2>5. x \in Seq(S)
    BY <2>3, <2>4, ListFacts
  <2> QED
    BY <2>1, <2>5
<1>3. ss \in Seq(Seq(S))
  BY <1>2, ListFacts
<1> QED
  BY <1>1, <1>3, InFlattened, SequenceIsList

\* and chosen from.
LEMMA ChosenList ==
    ASSUME NEW s, IsList(s), NEW I
    PROVE  IsList(Chosen(s, I)) /\ ToSet(Chosen(s, I)) = {s[i] : i \in I \intersect DOMAIN s}
<1>1. PICK S : S = ToSet(s) /\ s \in Seq(S)
  BY DEF IsList
<1> QED
  BY <1>1, ChosenPlaces, ChosenSet, SequenceIsList

-----------------------------------------------------------------------------
(* Lists that are told apart: where what is put together ends.             *)

\* Where the two parts of a list are.
Made(z, x, y) == /\ Len(x) \in Nat /\ Len(y) \in Nat /\ Len(z) = Len(x) + Len(y)
                 /\ \A i \in 1..Len(x) : z[i] = x[i]
                 /\ \A i \in 1..Len(y) : z[Len(x) + i] = y[i]
LEMMA Halves ==
    ASSUME NEW S, NEW x \in Seq(S), NEW y \in Seq(S)
    PROVE  Made(x \o y, x, y)
<1> DEFINE z == x \o y
<1>1. Len(x) \in Nat /\ Len(y) \in Nat
  BY LenProperties
<1>2. /\ z \in Seq(S) /\ Len(z) = Len(x) + Len(y)
      /\ \A i \in 1..(Len(x) + Len(y)) : z[i] = IF i <= Len(x) THEN x[i] ELSE y[i - Len(x)]
  BY ConcatProperties
<1>3. \A i \in 1..Len(x) : i \in 1..(Len(x) + Len(y)) /\ i <= Len(x)
  BY <1>1
<1>4. \A i \in 1..Len(y) : Len(x) + i \in 1..(Len(x) + Len(y)) /\ ~ (Len(x) + i <= Len(x))
                               /\ Len(x) + i - Len(x) = i
  BY <1>1
<1>5. \A i \in 1..Len(y) : z[Len(x) + i] = y[i]
  BY <1>2, <1>4
<1> QED
  BY <1>1, <1>2, <1>3, <1>5 DEF Made

\* The entries of x are tokens whose first component is, or is not, in A.
Headed(x, A) == \A i \in DOMAIN x : x[i][1] \in A
Unheaded(x, A) == \A i \in DOMAIN x : x[i][1] \notin A

\* Lists are told apart where the first half's entries are none of the second's.
LEMMA OneSplit ==
    ASSUME NEW S, NEW x \in Seq(S), NEW y \in Seq(S), NEW v \in Seq(S), NEW w \in Seq(S),
           x \o y = v \o w, NEW A, Headed(x, A), Headed(v, A), Unheaded(y, A), Unheaded(w, A)
    PROVE  x = v /\ y = w
<1>1. /\ \A i \in 1..Len(x) : x[i][1] \in A
      /\ \A i \in 1..Len(v) : v[i][1] \in A
      /\ \A i \in 1..Len(y) : y[i][1] \notin A
      /\ \A i \in 1..Len(w) : w[i][1] \notin A
  BY DEF Headed, Unheaded
<1>2. Len(x) \in Nat /\ Len(v) \in Nat
  BY LenProperties
<1>0. PICK z : Made(z, x, y) /\ Made(z, v, w)
  <2>1. Made(x \o y, x, y) /\ Made(v \o w, v, w)
    BY Halves
  <2> QED
    BY <2>1
<1>3. /\ Len(z) = Len(x) + Len(y) /\ Len(z) = Len(v) + Len(w)
      /\ \A i \in 1..Len(x) : z[i] = x[i]
      /\ \A i \in 1..Len(v) : z[i] = v[i]
      /\ \A i \in 1..Len(y) : z[Len(x) + i] = y[i]
      /\ \A i \in 1..Len(w) : z[Len(v) + i] = w[i]
  BY <1>0 DEF Made
<1>4. ~ (Len(x) < Len(v))
  <2> SUFFICES ASSUME Len(x) < Len(v) PROVE FALSE
    OBVIOUS
  <2>1. Len(x) + 1 \in 1..Len(v) /\ 1 \in 1..Len(y)
    BY <1>3
  <2>2. z[Len(x) + 1] = y[1] /\ z[Len(x) + 1] = v[Len(x) + 1]
    BY <1>3, <2>1
  <2> QED
    BY <1>1, <2>1, <2>2
<1>5. ~ (Len(v) < Len(x))
  <2> SUFFICES ASSUME Len(v) < Len(x) PROVE FALSE
    OBVIOUS
  <2>1. Len(v) + 1 \in 1..Len(x) /\ 1 \in 1..Len(w)
    BY <1>3
  <2> QED
    BY <1>1, <1>3, <2>1
<1>6. Len(x) = Len(v) /\ Len(y) = Len(w)
  BY <1>3, <1>4, <1>5
<1>7. \A i \in 1..Len(x) : x[i] = v[i]
  BY <1>3, <1>6
<1>8. \A i \in 1..Len(y) : y[i] = w[i]
  BY <1>3, <1>6
<1> QED
  BY <1>6, <1>7, <1>8, SeqEqual

\* How far a number is behind another.
LEMMA Gap ==
    ASSUME NEW p \in Nat, NEW q \in Nat, p < q
    PROVE  \E j \in Nat : j = q + 1 - p
OBVIOUS

\* A block starts with an entry of A and has no other.
Block(b, A) == b # <<>> /\ b[1][1] \in A /\ \A j \in 2..Len(b) : b[j][1] \notin A

\* Two lists that end in a block are told apart where it begins.
LEMMA LastBlock ==
    ASSUME NEW S, NEW x \in Seq(S), NEW b \in Seq(S), NEW v \in Seq(S), NEW c \in Seq(S),
           x \o b = v \o c, NEW A, Block(b, A), Block(c, A)
    PROVE  x = v /\ b = c
<1>1. /\ Len(b) >= 1 /\ b[1][1] \in A /\ \A j \in 2..Len(b) : b[j][1] \notin A
      /\ Len(c) >= 1 /\ c[1][1] \in A /\ \A j \in 2..Len(c) : c[j][1] \notin A
  BY EmptySeq DEF Block
<1>2. Len(x) \in Nat /\ Len(v) \in Nat
  BY LenProperties
<1>0. PICK z : Made(z, x, b) /\ Made(z, v, c)
  <2>1. Made(x \o b, x, b) /\ Made(v \o c, v, c)
    BY Halves
  <2> QED
    BY <2>1
<1>3. /\ Len(z) = Len(x) + Len(b) /\ Len(z) = Len(v) + Len(c)
      /\ \A i \in 1..Len(x) : z[i] = x[i]
      /\ \A i \in 1..Len(v) : z[i] = v[i]
      /\ \A i \in 1..Len(b) : z[Len(x) + i] = b[i]
      /\ \A i \in 1..Len(c) : z[Len(v) + i] = c[i]
  BY <1>0 DEF Made
<1>4. ~ (Len(x) < Len(v))
  <2> SUFFICES ASSUME Len(x) < Len(v) PROVE FALSE
    OBVIOUS
  <2>1. PICK j \in Nat : j = Len(v) + 1 - Len(x)
    BY <1>2, Gap
  <2>2. j \in 2..Len(b) /\ Len(x) + j = Len(v) + 1 /\ j \in 1..Len(b) /\ 1 \in 1..Len(c)
    BY <1>1, <1>3, <2>1
  <2>3. z[Len(v) + 1] = c[1] /\ z[Len(x) + j] = b[j]
    BY <1>3, <2>2
  <2> QED
    BY <1>1, <2>2, <2>3
<1>5. ~ (Len(v) < Len(x))
  <2> SUFFICES ASSUME Len(v) < Len(x) PROVE FALSE
    OBVIOUS
  <2>1. PICK j \in Nat : j = Len(x) + 1 - Len(v)
    BY <1>2, Gap
  <2>2. j \in 2..Len(c) /\ Len(v) + j = Len(x) + 1 /\ j \in 1..Len(c) /\ 1 \in 1..Len(b)
    BY <1>1, <1>3, <2>1
  <2>3. z[Len(x) + 1] = b[1] /\ z[Len(v) + j] = c[j]
    BY <1>3, <2>2
  <2> QED
    BY <1>1, <2>2, <2>3
<1>6. Len(x) = Len(v) /\ Len(b) = Len(c)
  BY <1>3, <1>4, <1>5
<1>7. \A i \in 1..Len(x) : x[i] = v[i]
  BY <1>3, <1>6
<1>8. \A i \in 1..Len(b) : b[i] = c[i]
  BY <1>3, <1>6
<1> QED
  BY <1>6, <1>7, <1>8, SeqEqual

\* So many blocks of two lists are the same if they make one list.
SameBlocks(a, b, g, h, k, n) ==
    \A l \in 0..n : g[k] = h[l] => k = l /\ \A i \in 1..k : a[i] = b[i]

\* Lists of blocks are told apart block by block, from the last,
LEMMA OneMoreBlock ==
    ASSUME NEW S, NEW A, NEW a, NEW b, NEW g, NEW h, NEW m, NEW n,
           Partial(S, g, a, m), Partial(S, h, b, n),
           \A i \in 1..m : Block(a[i], A), \A i \in 1..n : Block(b[i], A),
           NEW k \in 0..(m - 1), SameBlocks(a, b, g, h, k, n)
    PROVE  SameBlocks(a, b, g, h, k + 1, n)
<1>1. /\ m \in Nat /\ n \in Nat /\ k \in Nat /\ k \in 0..m /\ k + 1 \in 1..m
      /\ (k + 1) - 1 = k
  BY DEF Partial
<1>2. g[k + 1] = g[k] \o a[k + 1] /\ g[k] \in Seq(S) /\ a[k + 1] \in Seq(S)
  BY <1>1 DEF Partial
<1>3. Block(a[k + 1], A)
  BY <1>1
<1> SUFFICES ASSUME NEW l \in 0..n, g[k + 1] = h[l]
             PROVE  k + 1 = l /\ \A i \in 1..(k + 1) : a[i] = b[i]
  BY DEF SameBlocks
<1>4. l # 0
  <2> SUFFICES ASSUME l = 0 PROVE FALSE
    OBVIOUS
  <2>1. g[k] \o a[k + 1] = <<>>
    BY <1>2 DEF Partial
  <2>2. a[k + 1] = <<>>
    BY <1>2, <2>1
  <2> QED
    BY <1>3, <2>2 DEF Block
<1>5. l \in 1..n /\ l - 1 \in 0..n
  BY <1>1, <1>4
<1>6. h[l] = h[l - 1] \o b[l] /\ h[l - 1] \in Seq(S) /\ b[l] \in Seq(S)
  BY <1>5 DEF Partial
<1>7. Block(b[l], A)
  BY <1>5
<1>8. g[k] = h[l - 1] /\ a[k + 1] = b[l]
  <2>1. PICK x \in Seq(S) : x = g[k]
    BY <1>2
  <2>2. PICK c \in Seq(S) : c = a[k + 1]
    BY <1>2
  <2>3. PICK y \in Seq(S) : y = h[l - 1]
    BY <1>6
  <2>4. PICK d \in Seq(S) : d = b[l]
    BY <1>6
  <2>5. Block(c, A) /\ Block(d, A)
    BY <1>3, <1>7, <2>2, <2>4
  <2>6. x \o c = y \o d
    BY <1>2, <1>6, <2>1, <2>2, <2>3, <2>4
  <2>7. x = y /\ c = d
    BY <2>5, <2>6, LastBlock
  <2> QED
    BY <2>1, <2>2, <2>3, <2>4, <2>7
<1>9. k = l - 1 /\ \A i \in 1..k : a[i] = b[i]
  BY <1>5, <1>8 DEF SameBlocks
<1>10. k + 1 = l
  BY <1>1, <1>5, <1>9
<1>11. \A i \in 1..(k + 1) : i \in 1..k \/ i = k + 1
  BY <1>1
<1> QED
  BY <1>8, <1>9, <1>10, <1>11

\* and wholly.
LEMMA OneListOfBlocks ==
    ASSUME NEW S, NEW A, NEW a \in Seq(Seq(S)), NEW b \in Seq(Seq(S)),
           \A i \in DOMAIN a : Block(a[i], A), \A i \in DOMAIN b : Block(b[i], A),
           FlattenSeq(a) = FlattenSeq(b)
    PROVE  a = b
<1>1. PICK m \in Nat : m = Len(a) /\ DOMAIN a = 1..m
  OBVIOUS
<1>2. PICK n \in Nat : n = Len(b) /\ DOMAIN b = 1..n
  OBVIOUS
<1>3. PICK g : Partial(S, g, a, m) /\ FlattenSeq(a) = g[m]
  BY <1>1, FlattenSteps
<1>4. PICK h : Partial(S, h, b, n) /\ FlattenSeq(b) = h[n]
  BY <1>2, FlattenSteps
<1>5. SameBlocks(a, b, g, h, m, n)
  <2> DEFINE P == {k \in 0..m : SameBlocks(a, b, g, h, k, n)}
  <2>1. 0 \in P
    <3> SUFFICES ASSUME NEW l \in 0..n, g[0] = h[l], l # 0 PROVE FALSE
      BY <1>1 DEF SameBlocks
    <3>1. l \in 1..n /\ l - 1 \in 0..n
      BY <1>2
    <3>2. h[l] = h[l - 1] \o b[l] /\ h[l - 1] \in Seq(S) /\ b[l] \in Seq(S) /\ g[0] = <<>>
      BY <1>3, <1>4, <3>1 DEF Partial
    <3>3. b[l] = <<>>
      <4>1. h[l - 1] \o b[l] = <<>>
        BY <3>2
      <4> QED
        BY <3>2, <4>1
    <3>4. Block(b[l], A)
      BY <1>2, <3>1
    <3> QED
      BY <3>3, <3>4 DEF Block
  <2>2. \A k \in 0..(m - 1) : k \in P => k + 1 \in P
    <3> SUFFICES ASSUME NEW k \in 0..(m - 1), SameBlocks(a, b, g, h, k, n)
                 PROVE  k + 1 \in 0..m /\ SameBlocks(a, b, g, h, k + 1, n)
      OBVIOUS
    <3>1. \A i \in 1..m : Block(a[i], A)
      BY <1>1
    <3>2. \A i \in 1..n : Block(b[i], A)
      BY <1>2
    <3>3. SameBlocks(a, b, g, h, k + 1, n)
      BY <1>3, <1>4, <3>1, <3>2, OneMoreBlock
    <3> QED
      BY <1>1, <3>3
  <2> HIDE DEF P
  <2>3. 0..m \subseteq P
    BY <2>1, <2>2, UpTo
  <2>4. m \in P
    BY <2>3
  <2> QED
    BY <2>4 DEF P
<1>6. m = n /\ \A i \in 1..m : a[i] = b[i]
  <2>1. g[m] = h[n]
    BY <1>3, <1>4
  <2>2. n \in 0..n
    BY <1>2
  <2> QED
    BY <1>5, <2>1, <2>2 DEF SameBlocks
<1> QED
  BY <1>1, <1>2, <1>6, SeqEqual

\* A list is one over every set that has its entries.
LEMMA ListOver ==
    ASSUME NEW x, IsList(x), NEW S, ToSet(x) \subseteq S
    PROVE  x \in Seq(S)
<1>1. \A i \in 1..Len(x) : x[i] \in S
  BY ListFacts
<1> QED
  BY <1>1, ListFacts

\* Lists that have the same entries in order are one.
LEMMA SameList ==
    ASSUME NEW x, NEW y, IsList(x), IsList(y), DOMAIN x = DOMAIN y, \A i \in DOMAIN x : x[i] = y[i]
    PROVE  x = y
BY ListFacts

\* The two parts of a list that tokens tell apart.
LEMMA ToldApart ==
    ASSUME NEW x, NEW y, NEW v, NEW w, IsList(x), IsList(y), IsList(v), IsList(w),
           x \o y = v \o w, NEW A, Headed(x, A), Headed(v, A), Unheaded(y, A), Unheaded(w, A)
    PROVE  x = v /\ y = w
<1>1. PICK S : S = ToSet(x) \union ToSet(y) \union ToSet(v) \union ToSet(w)
  OBVIOUS
<1>2. x \in Seq(S) /\ y \in Seq(S) /\ v \in Seq(S) /\ w \in Seq(S)
  BY <1>1, ListOver
<1> QED
  BY <1>2, OneSplit

\* and the blocks of one.
LEMMA ToldBlocks ==
    ASSUME NEW a, NEW b, IsList(a), IsList(b), \A i \in DOMAIN a : IsList(a[i]),
           \A i \in DOMAIN b : IsList(b[i]), FlattenSeq(a) = FlattenSeq(b),
           NEW A, \A i \in DOMAIN a : Block(a[i], A), \A i \in DOMAIN b : Block(b[i], A)
    PROVE  a = b
<1>1. PICK S : /\ \A i \in DOMAIN a : ToSet(a[i]) \subseteq S
               /\ \A i \in DOMAIN b : ToSet(b[i]) \subseteq S
  <2>1. PICK A1 : A1 = UNION {ToSet(a[i]) : i \in DOMAIN a}
    OBVIOUS
  <2>2. PICK B1 : B1 = UNION {ToSet(b[i]) : i \in DOMAIN b}
    OBVIOUS
  <2>3. \A i \in DOMAIN a : ToSet(a[i]) \subseteq A1 \union B1
    BY <2>1
  <2>4. \A i \in DOMAIN b : ToSet(b[i]) \subseteq A1 \union B1
    BY <2>2
  <2> QED
    BY <2>3, <2>4
<1>2. ASSUME NEW i \in DOMAIN a PROVE a[i] \in Seq(S)
  <2>1. ToSet(a[i]) \subseteq S
    BY <1>1
  <2>2. PICK c : c = a[i]
    OBVIOUS
  <2> QED
    BY <2>1, <2>2, ListOver
<1>3. ASSUME NEW i \in DOMAIN b PROVE b[i] \in Seq(S)
  <2>1. ToSet(b[i]) \subseteq S
    BY <1>1
  <2>2. PICK c : c = b[i]
    OBVIOUS
  <2> QED
    BY <2>1, <2>2, ListOver
<1>4. a \in Seq(Seq(S)) /\ b \in Seq(Seq(S))
  BY <1>2, <1>3, ListFacts
<1> QED
  BY <1>4, OneListOfBlocks

\* Entry by entry c is what s has at the places p.
Picked(c, p, s) == /\ Len(c) = Len(p)
                   /\ \A j \in 1..Len(p) : p[j] \in DOMAIN s /\ c[j] = s[p[j]]

\* A list of one.
LEMMA OneEntry ==
    ASSUME NEW T, NEW x \in T
    PROVE  \E d \in Seq(T) : d = <<x>> /\ Len(d) = 1 /\ d[1] = x
<1>1. <<x>> \in Seq(T) /\ Len(<<x>>) = 1 /\ <<x>>[1] = x
  OBVIOUS
<1> QED
  BY <1>1

\* One more entry is picked.
LEMMA OneMorePicked ==
    ASSUME NEW s, NEW S, NEW c \in Seq(S), NEW p \in Seq(Nat), Picked(c, p, s),
           NEW i \in DOMAIN s, i \in Nat, s[i] \in S
    PROVE  Picked(c \o <<s[i]>>, p \o <<i>>, s)
<1>1. PICK d \in Seq(S) : d = <<s[i]>> /\ Len(d) = 1 /\ d[1] = s[i]
  BY OneEntry
<1>2. PICK q \in Seq(Nat) : q = <<i>> /\ Len(q) = 1 /\ q[1] = i
  BY OneEntry
<1>3. Made(c \o d, c, d) /\ Made(p \o q, p, q)
  BY Halves
<1>4. Len(c) = Len(p) /\ \A j \in 1..Len(p) : p[j] \in DOMAIN s /\ c[j] = s[p[j]]
  BY DEF Picked
<1>5. Len(c \o d) = Len(p \o q) /\ Len(p \o q) = Len(p) + 1 /\ Len(p) \in Nat
  BY <1>1, <1>2, <1>3, <1>4 DEF Made
<1>6. ASSUME NEW j \in 1..Len(p)
      PROVE  (p \o q)[j] \in DOMAIN s /\ (c \o d)[j] = s[(p \o q)[j]]
  BY <1>3, <1>4 DEF Made
<1>7. (p \o q)[Len(p) + 1] = i /\ (c \o d)[Len(p) + 1] = s[i]
  BY <1>1, <1>2, <1>3, <1>4 DEF Made
<1>8. \A j \in 1..(Len(p) + 1) : j \in 1..Len(p) \/ j = Len(p) + 1
  BY <1>5
<1> QED
  BY <1>1, <1>2, <1>5, <1>6, <1>7, <1>8 DEF Picked

\* The places chosen of a list, whatever its entries.
PlacesIn(n, I) == Chosen([i \in 1..n |-> i], I)
LEMMA ChosenIsPicked ==
    ASSUME NEW s, IsList(s), NEW I
    PROVE  IsList(PlacesIn(Len(s), I)) /\ Picked(Chosen(s, I), PlacesIn(Len(s), I), s)
<1>1. PICK n \in Nat : n = Len(s) /\ DOMAIN s = 1..n /\ s = [i \in 1..n |-> s[i]]
  BY ListFacts
<1>2. PICK S : S = ToSet(s) /\ \A i \in 1..n : s[i] \in S
  BY <1>1, ListFacts
<1> DEFINE ss == [i \in 1..n |-> IF i \in I THEN <<s[i]>> ELSE <<>>]
           pp == [i \in 1..n |-> IF i \in I THEN <<i>> ELSE <<>>]
<1>3. Chosen(s, I) = FlattenSeq(ss)
  BY <1>1 DEF Chosen
<1>4. PlacesIn(Len(s), I) = FlattenSeq(pp)
  BY <1>1 DEF Chosen, PlacesIn
<1>5. ss \in Seq(Seq(S)) /\ Len(ss) = n
  <2>1. \A i \in 1..n : ss[i] \in Seq(S)
    BY <1>2
  <2> QED
    BY <2>1
<1>6. pp \in Seq(Seq(Nat)) /\ Len(pp) = n
  <2>1. \A i \in 1..n : pp[i] \in Seq(Nat)
    OBVIOUS
  <2> QED
    BY <2>1
<1>7. /\ \A i \in 1..n : i \in I => ss[i] = <<s[i]>> /\ pp[i] = <<i>>
      /\ \A i \in 1..n : i \notin I => ss[i] = <<>> /\ pp[i] = <<>>
  OBVIOUS
<1> HIDE DEF ss, pp
<1>8. PICK g : Partial(S, g, ss, n) /\ FlattenSeq(ss) = g[n]
  BY <1>5, FlattenSteps
<1>9. PICK h : Partial(Nat, h, pp, n) /\ FlattenSeq(pp) = h[n]
  BY <1>6, FlattenSteps
<1>10. Picked(g[n], h[n], s)
  <2> DEFINE P == {k \in 0..n : Picked(g[k], h[k], s)}
  <2>1. 0 \in P
    <3>1. g[0] = <<>> /\ h[0] = <<>>
      BY <1>8, <1>9 DEF Partial
    <3>2. Picked(<<>>, <<>>, s)
      BY DEF Picked
    <3> QED
      BY <3>1, <3>2
  <2>2. ASSUME NEW k \in 0..(n - 1), Picked(g[k], h[k], s)
        PROVE  k + 1 \in 0..n /\ Picked(g[k + 1], h[k + 1], s)
    <3>1. k \in 0..n /\ k + 1 \in 1..n /\ (k + 1) - 1 = k /\ k + 1 \in 0..n /\ k + 1 \in Nat
      OBVIOUS
    <3>2. g[k + 1] = g[k] \o ss[k + 1] /\ g[k] \in Seq(S)
      BY <1>8, <3>1 DEF Partial
    <3>3. h[k + 1] = h[k] \o pp[k + 1] /\ h[k] \in Seq(Nat)
      BY <1>9, <3>1 DEF Partial
    <3>4. CASE k + 1 \in I
      <4>1. ss[k + 1] = <<s[k + 1]>> /\ pp[k + 1] = <<k + 1>>
        BY <1>7, <3>1, <3>4
      <4>2. k + 1 \in DOMAIN s /\ s[k + 1] \in S
        BY <1>1, <1>2, <3>1
      <4>3. PICK c \in Seq(S) : c = g[k]
        BY <3>2
      <4>4. PICK p \in Seq(Nat) : p = h[k]
        BY <3>3
      <4>5. PICK i \in Nat : i = k + 1 /\ i \in DOMAIN s /\ s[i] \in S
        BY <3>1, <4>2
      <4>6. Picked(c, p, s)
        BY <2>2, <4>3, <4>4
      <4>7. Picked(c \o <<s[i]>>, p \o <<i>>, s)
        BY <4>5, <4>6, OneMorePicked
      <4> QED
        BY <3>1, <3>2, <3>3, <4>1, <4>3, <4>4, <4>5, <4>7
    <3>5. CASE k + 1 \notin I
      <4>1. ss[k + 1] = <<>> /\ pp[k + 1] = <<>>
        BY <1>7, <3>1, <3>5
      <4>2. g[k + 1] = g[k] /\ h[k + 1] = h[k]
        BY <3>2, <3>3, <4>1, ConcatEmptySeq
      <4> QED
        BY <2>2, <3>1, <4>2
    <3> QED
      BY <3>4, <3>5
  <2>3. \A k \in 0..(n - 1) : k \in P => k + 1 \in P
    BY <2>2
  <2> HIDE DEF P
  <2>4. 0..n \subseteq P
    BY <2>1, <2>3, UpTo
  <2>5. n \in P
    BY <2>4
  <2> QED
    BY <2>5 DEF P
<1>11. IsList(h[n])
  <2>1. h[n] \in Seq(Nat)
    BY <1>9 DEF Partial
  <2>2. PICK p \in Seq(Nat) : p = h[n]
    BY <2>1
  <2> QED
    BY <2>2, SequenceIsList
<1> QED
  BY <1>3, <1>4, <1>8, <1>9, <1>10, <1>11

-----------------------------------------------------------------------------
(* What lists that are put together begin with.                            *)

\* Lists of none or one are lists.
LEMMA ShortLists == IsList(<<>>) /\ \A x : IsList(<<x>>) /\ ToSet(<<x>>) = {x}
BY DEF IsList, ToSet

\* A list of one has it first.
LEMMA OneIs ==
    ASSUME NEW x
    PROVE  IsList(<<x>>) /\ <<x>> # <<>> /\ <<x>>[1] = x
<1>1. <<x>> # <<>> /\ <<x>>[1] = x
  OBVIOUS
<1> QED
  BY <1>1, ShortLists

\* The first component of a pair,
LEMMA FirstOfTwo ==
    ASSUME NEW a, NEW b
    PROVE  \E x : x = <<a, b>> /\ x[1] = a
<1>1. <<a, b>>[1] = a
  OBVIOUS
<1> QED
  BY <1>1

\* and of a triple.
LEMMA FirstOfThree ==
    ASSUME NEW a, NEW b, NEW c
    PROVE  \E x : x = <<a, b, c>> /\ x[1] = a
<1>1. <<a, b, c>>[1] = a
  OBVIOUS
<1> QED
  BY <1>1

\* The first entry of two lists put together,
LEMMA FirstOfBoth ==
    ASSUME NEW x, NEW y, IsList(x), IsList(y)
    PROVE  /\ x # <<>> => (x \o y)[1] = x[1] /\ x \o y # <<>>
           /\ x = <<>> => x \o y = y
<1>1. PICK S : S = ToSet(x) \union ToSet(y)
  OBVIOUS
<1>2. PICK c \in Seq(S) : c = x
  BY <1>1, ListOver
<1>3. PICK w \in Seq(S) : w = y
  BY <1>1, ListOver
<1>4. c # <<>> => (c \o w)[1] = c[1] /\ c \o w # <<>>
  OBVIOUS
<1>5. c = <<>> => c \o w = w
  OBVIOUS
<1> QED
  BY <1>2, <1>3, <1>4, <1>5

\* and of lists.
LEMMA FirstOfAll ==
    ASSUME NEW f, IsList(f), \A i \in DOMAIN f : IsList(f[i]), f # <<>>, f[1] # <<>>
    PROVE  FlattenSeq(f)[1] = f[1][1] /\ FlattenSeq(f) # <<>>
<1>1. PICK S : \A i \in DOMAIN f : ToSet(f[i]) \subseteq S
  <2>1. \A i \in DOMAIN f : ToSet(f[i]) \subseteq UNION {ToSet(f[j]) : j \in DOMAIN f}
    OBVIOUS
  <2> QED
    BY <2>1
<1>2. PICK ss \in Seq(Seq(S)) : ss = f
  <2>1. \A i \in DOMAIN f : f[i] \in Seq(S)
    BY <1>1, ListOver
  <2>2. ToSet(f) \subseteq Seq(S)
    BY <2>1 DEF ToSet
  <2> QED
    BY <2>2, ListOver
<1>3. PICK n \in Nat : n = Len(ss) /\ 1 \in 1..n
  BY <1>2
<1>4. PICK g : Partial(S, g, ss, n) /\ FlattenSeq(ss) = g[n]
  BY <1>3, FlattenSteps
<1> DEFINE P == {k \in 0..n : k # 0 => g[k] # <<>> /\ g[k][1] = ss[1][1]}
<1>5. 0 \in P
  BY <1>3
<1>6. ASSUME NEW k \in 0..(n - 1), k \in P PROVE k + 1 \in P
  <2>1. k + 1 \in 1..n /\ k + 1 \in 0..n /\ (k + 1) - 1 = k /\ k \in 0..n
    BY <1>3
  <2>2. g[k + 1] = g[k] \o ss[k + 1] /\ g[k] \in Seq(S) /\ ss[k + 1] \in Seq(S)
    BY <1>4, <2>1 DEF Partial
  <2>3. CASE k = 0
    <3>1. g[1] = ss[1]
      BY <1>3, <1>4, PartialFirst
    <3> QED
      BY <1>2, <2>1, <2>3, <3>1
  <2>4. CASE k # 0
    <3>1. g[k] # <<>> /\ g[k][1] = ss[1][1]
      BY <1>6, <2>4
    <3>2. PICK c \in Seq(S) : c = g[k]
      BY <2>2
    <3>3. PICK w \in Seq(S) : w = ss[k + 1]
      BY <2>2
    <3>4. c \o w # <<>> /\ (c \o w)[1] = c[1]
      BY <3>1, <3>2
    <3>5. g[k + 1] # <<>> /\ g[k + 1][1] = ss[1][1]
      BY <2>2, <3>1, <3>2, <3>3, <3>4
    <3> QED
      BY <2>1, <3>5
  <2> QED
    BY <2>3, <2>4
<1> HIDE DEF P
<1>7. 0..n \subseteq P
  BY <1>5, <1>6, UpTo
<1>8. n \in P /\ n # 0
  BY <1>3, <1>7
<1> QED
  BY <1>2, <1>4, <1>8 DEF P

\* The heads of lists that are put together,
LEMMA HeadedBoth ==
    ASSUME NEW x, NEW y, IsList(x), IsList(y), NEW A, NEW B, Headed(x, A), Headed(y, B)
    PROVE  Headed(x \o y, A \union B) /\ IsList(x \o y)
<1>1. PICK z : z = x \o y /\ IsList(z) /\ ToSet(z) = ToSet(x) \union ToSet(y)
  BY AppendedList
<1> SUFFICES ASSUME NEW i \in DOMAIN z PROVE z[i][1] \in A \union B
  BY <1>1 DEF Headed
<1>2. z[i] \in ToSet(x) \/ z[i] \in ToSet(y)
  BY <1>1, ListFacts
<1>3. CASE z[i] \in ToSet(x)
  <2>1. PICK j \in DOMAIN x : z[i] = x[j]
    BY <1>3 DEF ToSet
  <2> QED
    BY <2>1 DEF Headed
<1>4. CASE z[i] \in ToSet(y)
  <2>1. PICK j \in DOMAIN y : z[i] = y[j]
    BY <1>4 DEF ToSet
  <2> QED
    BY <2>1 DEF Headed
<1> QED
  BY <1>2, <1>3, <1>4

\* of lists with like heads,
LEMMA HeadedLike ==
    ASSUME NEW x, NEW y, IsList(x), IsList(y), NEW A, Headed(x, A), Headed(y, A)
    PROVE  IsList(x \o y) /\ Headed(x \o y, A)
<1>1. Headed(x \o y, A \union A) /\ IsList(x \o y)
  BY HeadedBoth
<1>2. A \union A = A
  OBVIOUS
<1> QED
  BY <1>1, <1>2

\* and of any number of them.
LEMMA HeadedAll ==
    ASSUME NEW f, IsList(f), NEW A, \A i \in DOMAIN f : IsList(f[i]) /\ Headed(f[i], A)
    PROVE  IsList(FlattenSeq(f)) /\ Headed(FlattenSeq(f), A)
<1>1. PICK x : x = FlattenSeq(f) /\ IsList(x) /\ ToSet(x) = UNION {ToSet(f[i]) : i \in DOMAIN f}
  BY FlattenedList
<1>2. ASSUME NEW k \in DOMAIN x PROVE x[k][1] \in A
  <2>1. x[k] \in ToSet(x)
    BY DEF ToSet
  <2>2. PICK i \in DOMAIN f : x[k] \in ToSet(f[i])
    BY <1>1, <2>1
  <2>3. PICK j \in DOMAIN f[i] : x[k] = f[i][j]
    BY <2>2 DEF ToSet
  <2> QED
    BY <2>3 DEF Headed
<1> QED
  BY <1>1, <1>2 DEF Headed

\* A list with other heads has none of these.
LEMMA HeadedApart ==
    ASSUME NEW x, NEW A, NEW B, Headed(x, A), A \intersect B = {}
    PROVE  Unheaded(x, B)
BY DEF Headed, Unheaded

\* What begins with a block and has no other head of its sort is one.
LEMMA BlockGrows ==
    ASSUME NEW b, NEW y, IsList(b), IsList(y), NEW A, Block(b, A), Unheaded(y, A)
    PROVE  Block(b \o y, A)
<1>1. PICK S : S = ToSet(b) \union ToSet(y)
  OBVIOUS
<1>2. PICK c \in Seq(S) : c = b
  BY <1>1, ListOver
<1>3. PICK w \in Seq(S) : w = y
  BY <1>1, ListOver
<1>4. PICK z : z = c \o w /\ Made(z, c, w) /\ z \in Seq(S)
  BY Halves, ConcatProperties
<1>5. Len(c) >= 1 /\ c[1][1] \in A /\ \A j \in 2..Len(c) : c[j][1] \notin A
  BY <1>2, EmptySeq DEF Block
<1>6. \A j \in 1..Len(w) : w[j][1] \notin A
  BY <1>3 DEF Unheaded
<1>7. z # <<>> /\ z[1] = c[1]
  BY <1>4, <1>5 DEF Made
<1>8. ASSUME NEW j \in 2..Len(z) PROVE z[j][1] \notin A
  <2>1. CASE j <= Len(c)
    BY <1>4, <1>5, <2>1 DEF Made
  <2>2. CASE ~ (j <= Len(c))
    <3>1. PICK k \in 1..Len(w) : j = Len(c) + k
      <4>1. j - Len(c) \in 1..Len(w) /\ j = Len(c) + (j - Len(c))
        BY <1>4, <2>2 DEF Made
      <4> QED
        BY <4>1
    <3>2. z[j] = w[k]
      BY <1>4, <3>1 DEF Made
    <3> QED
      BY <1>6, <3>2
  <2> QED
    BY <2>1, <2>2
<1>9. Block(z, A)
  BY <1>5, <1>7, <1>8 DEF Block
<1> QED
  BY <1>2, <1>3, <1>4, <1>9

\* Five lists with heads of five sorts,
FivePart(a, b, c, d, e, S, W, R, L, E) ==
    /\ IsList(a) /\ Headed(a, S) /\ IsList(b) /\ Headed(b, W)
    /\ IsList(c) /\ Headed(c, R) /\ IsList(d) /\ Headed(d, L)
    /\ IsList(e) /\ Headed(e, E)
FiveJoined(a, b, c, d, e) == (((a \o b) \o c) \o d) \o e
FiveHeads(S, W, R, L, E) ==
    /\ S \intersect W = {} /\ (S \union W) \intersect R = {}
    /\ ((S \union W) \union R) \intersect L = {}
    /\ (((S \union W) \union R) \union L) \intersect E = {}

\* Put together they can be told apart: the list fixes the five.
LEMMA FiveParts ==
    ASSUME NEW a, NEW b, NEW c, NEW d, NEW e, NEW a1, NEW b1, NEW c1, NEW d1, NEW e1,
           NEW S, NEW W, NEW R, NEW L, NEW E, FiveHeads(S, W, R, L, E),
           FivePart(a, b, c, d, e, S, W, R, L, E), FivePart(a1, b1, c1, d1, e1, S, W, R, L, E),
           FiveJoined(a, b, c, d, e) = FiveJoined(a1, b1, c1, d1, e1)
    PROVE  a = a1 /\ b = b1 /\ c = c1 /\ d = d1 /\ e = e1
<1>1. IsList(a) /\ Headed(a, S) /\ IsList(a1) /\ Headed(a1, S)
  BY DEF FivePart
<1>2. IsList(b) /\ Headed(b, W) /\ IsList(b1) /\ Headed(b1, W)
  BY DEF FivePart
<1>3. IsList(c) /\ Headed(c, R) /\ IsList(c1) /\ Headed(c1, R)
  BY DEF FivePart
<1>4. IsList(d) /\ Headed(d, L) /\ IsList(d1) /\ Headed(d1, L)
  BY DEF FivePart
<1>5. IsList(e) /\ Headed(e, E) /\ IsList(e1) /\ Headed(e1, E)
  BY DEF FivePart
<1>6. PICK A : A = S \union W
  OBVIOUS
<1>7. PICK B : B = A \union R
  OBVIOUS
<1>8. PICK C : C = B \union L
  OBVIOUS
<1>61. R \intersect A = {}
  BY <1>6 DEF FiveHeads
<1>71. L \intersect B = {}
  BY <1>6, <1>7 DEF FiveHeads
<1>81. E \intersect C = {}
  BY <1>6, <1>7, <1>8 DEF FiveHeads
<1>9. PICK x : x = a \o b /\ Headed(x, A) /\ IsList(x)
  BY <1>1, <1>2, <1>6, HeadedBoth
<1>10. PICK x1 : x1 = a1 \o b1 /\ Headed(x1, A) /\ IsList(x1)
  BY <1>1, <1>2, <1>6, HeadedBoth
<1>11. PICK y : y = x \o c /\ Headed(y, B) /\ IsList(y)
  BY <1>3, <1>7, <1>9, HeadedBoth
<1>12. PICK y1 : y1 = x1 \o c1 /\ Headed(y1, B) /\ IsList(y1)
  BY <1>3, <1>7, <1>10, HeadedBoth
<1>13. PICK z : z = y \o d /\ Headed(z, C) /\ IsList(z)
  BY <1>4, <1>8, <1>11, HeadedBoth
<1>14. PICK z1 : z1 = y1 \o d1 /\ Headed(z1, C) /\ IsList(z1)
  BY <1>4, <1>8, <1>12, HeadedBoth
<1>15. z \o e = z1 \o e1
  BY <1>9, <1>10, <1>11, <1>12, <1>13, <1>14 DEF FiveJoined
<1>16. z = z1 /\ e = e1
  <2>1. IsList(z) /\ Headed(z, C) /\ IsList(z1) /\ Headed(z1, C)
    BY <1>13, <1>14
  <2>2. IsList(e) /\ Unheaded(e, C) /\ IsList(e1) /\ Unheaded(e1, C)
    BY <1>5, <1>81, HeadedApart
  <2> QED
    BY <1>15, <2>1, <2>2, ToldApart
<1>17. y = y1 /\ d = d1
  <2>1. IsList(y) /\ Headed(y, B) /\ IsList(y1) /\ Headed(y1, B)
    BY <1>11, <1>12
  <2>2. y \o d = y1 \o d1
    BY <1>13, <1>14, <1>16
  <2>3. IsList(d) /\ Unheaded(d, B) /\ IsList(d1) /\ Unheaded(d1, B)
    BY <1>4, <1>71, HeadedApart
  <2> QED
    BY <2>1, <2>2, <2>3, ToldApart
<1>18. x = x1 /\ c = c1
  <2>1. IsList(x) /\ Headed(x, A) /\ IsList(x1) /\ Headed(x1, A)
    BY <1>9, <1>10
  <2>2. x \o c = x1 \o c1
    BY <1>11, <1>12, <1>17
  <2>3. IsList(c) /\ Unheaded(c, A) /\ IsList(c1) /\ Unheaded(c1, A)
    BY <1>3, <1>61, HeadedApart
  <2> QED
    BY <2>1, <2>2, <2>3, ToldApart
<1>19. a \o b = a1 \o b1
  BY <1>9, <1>10, <1>18
<1>20. W \intersect S = {}
  BY DEF FiveHeads
<1>21. a = a1 /\ b = b1
  <2>1. IsList(b) /\ Unheaded(b, S) /\ IsList(b1) /\ Unheaded(b1, S)
    BY <1>2, <1>20, HeadedApart
  <2> QED
    BY <1>1, <1>19, <2>1, ToldApart
<1> QED
  BY <1>16, <1>17, <1>18, <1>21

-----------------------------------------------------------------------------
(* Lists in which nothing occurs twice.                                    *)

Once(x) == IsList(x) /\ \A i \in DOMAIN x : \A j \in DOMAIN x : x[i] = x[j] => i = j

\* c is what the first n of the lists f hold, in order: its k-th entry is the
\* b[k]-th of f[a[k]].
Cut(c, f, n, a, b) ==
    /\ \A k \in DOMAIN c : a[k] \in 1..n /\ b[k] \in DOMAIN f[a[k]] /\ c[k] = f[a[k]][b[k]]
    /\ \A k \in DOMAIN c : \A l \in DOMAIN c :
           k < l => a[k] < a[l] \/ (a[k] = a[l] /\ b[k] < b[l])
    /\ \A i \in 1..n : \A j \in DOMAIN f[i] : \E k \in DOMAIN c : a[k] = i /\ b[k] = j

\* One more list is put behind.
LEMMA OneMoreCut ==
    ASSUME NEW S, NEW c \in Seq(S), NEW f, NEW n \in Nat, NEW d \in Seq(S), f[n + 1] = d,
           NEW a, NEW b, Cut(c, f, n, a, b)
    PROVE  \E e, g : Cut(c \o d, f, n + 1, e, g)
<1>1. PICK p \in Nat : p = Len(c) /\ DOMAIN c = 1..p
  OBVIOUS
<1>2. PICK q \in Nat : q = Len(d) /\ DOMAIN d = 1..q
  OBVIOUS
<1> DEFINE w == c \o d
<1>3. w \in Seq(S) /\ DOMAIN w = 1..(p + q)
  BY <1>1, <1>2
<1>4. /\ \A k \in 1..p : w[k] = c[k]
      /\ \A k \in (p + 1)..(p + q) : w[k] = d[k - p]
  BY <1>1, <1>2
<1> HIDE DEF w
<1>5. PICK e : e = [k \in 1..(p + q) |-> IF k <= p THEN a[k] ELSE n + 1]
  OBVIOUS
<1>6. PICK g : g = [k \in 1..(p + q) |-> IF k <= p THEN b[k] ELSE k - p]
  OBVIOUS
<1>7. /\ \A k \in 1..p : k \in 1..(p + q) /\ e[k] = a[k] /\ g[k] = b[k]
      /\ \A k \in (p + 1)..(p + q) : k \in 1..(p + q) /\ e[k] = n + 1 /\ g[k] = k - p /\ k - p \in 1..q
  BY <1>5, <1>6
<1>8. \A k \in 1..(p + q) : k \in 1..p \/ k \in (p + 1)..(p + q)
  OBVIOUS
<1>9. \A k \in 1..p : a[k] \in 1..n /\ b[k] \in DOMAIN f[a[k]] /\ c[k] = f[a[k]][b[k]]
  BY <1>1 DEF Cut
<1>10. ASSUME NEW k \in DOMAIN w
       PROVE  e[k] \in 1..(n + 1) /\ g[k] \in DOMAIN f[e[k]] /\ w[k] = f[e[k]][g[k]]
  <2>1. CASE k \in 1..p
    <3>1. e[k] = a[k] /\ g[k] = b[k] /\ w[k] = c[k]
      BY <1>4, <1>7, <2>1
    <3>2. a[k] \in 1..(n + 1)
      BY <1>9, <2>1
    <3> QED
      BY <1>9, <2>1, <3>1, <3>2
  <2>2. CASE k \in (p + 1)..(p + q)
    <3>1. e[k] = n + 1 /\ g[k] = k - p /\ k - p \in 1..q /\ w[k] = d[k - p]
      BY <1>4, <1>7, <2>2
    <3>2. n + 1 \in 1..(n + 1)
      OBVIOUS
    <3> QED
      BY <1>2, <3>1, <3>2
  <2> QED
    BY <1>3, <1>8, <2>1, <2>2
<1>11. ASSUME NEW k \in DOMAIN w, NEW l \in DOMAIN w, k < l
       PROVE  e[k] < e[l] \/ (e[k] = e[l] /\ g[k] < g[l])
  <2>1. CASE l \in 1..p
    <3>1. k \in 1..p
      BY <1>3, <1>11, <2>1
    <3>2. a[k] < a[l] \/ (a[k] = a[l] /\ b[k] < b[l])
      BY <1>1, <1>11, <2>1, <3>1 DEF Cut
    <3> QED
      BY <1>7, <2>1, <3>1, <3>2
  <2>2. CASE l \in (p + 1)..(p + q)
    <3>1. CASE k \in 1..p
      <4>1. a[k] \in 1..n /\ e[k] = a[k] /\ e[l] = n + 1
        BY <1>7, <1>9, <2>2, <3>1
      <4> QED
        BY <4>1
    <3>2. CASE k \in (p + 1)..(p + q)
      <4>1. e[k] = e[l] /\ g[k] = k - p /\ g[l] = l - p
        BY <1>7, <2>2, <3>2
      <4> QED
        BY <1>11, <2>2, <3>2, <4>1
    <3> QED
      BY <1>3, <1>8, <3>1, <3>2
  <2> QED
    BY <1>3, <1>8, <2>1, <2>2
<1>12. ASSUME NEW i \in 1..(n + 1), NEW j \in DOMAIN f[i]
       PROVE  \E k \in DOMAIN w : e[k] = i /\ g[k] = j
  <2>1. CASE i \in 1..n
    <3>1. \A h \in 1..n : \A l \in DOMAIN f[h] : \E k \in DOMAIN c : a[k] = h /\ b[k] = l
      BY DEF Cut
    <3>2. \E k \in DOMAIN c : a[k] = i /\ b[k] = j
      BY <2>1, <3>1
    <3>3. PICK k \in 1..p : a[k] = i /\ b[k] = j
      BY <1>1, <3>2
    <3> QED
      BY <1>3, <1>7, <3>3
  <2>2. CASE i = n + 1
    <3>1. j \in 1..q
      BY <1>2, <2>2
    <3>2. PICK k : k = p + j
      OBVIOUS
    <3>3. k \in (p + 1)..(p + q) /\ k - p = j
      BY <3>1, <3>2
    <3> QED
      BY <1>3, <1>7, <2>2, <3>3
  <2> QED
    BY <2>1, <2>2
<1>13. Cut(w, f, n + 1, e, g)
  BY <1>10, <1>11, <1>12 DEF Cut
<1> QED
  BY <1>13 DEF w

\* Where the entries of a flattened list come from.
LEMMA FlattenedPlaces ==
    ASSUME NEW f, IsList(f), \A i \in DOMAIN f : IsList(f[i])
    PROVE  \E a, b : Cut(FlattenSeq(f), f, Len(f), a, b)
<1>1. PICK S : \A i \in DOMAIN f : ToSet(f[i]) \subseteq S
  <2>1. \A i \in DOMAIN f : ToSet(f[i]) \subseteq UNION {ToSet(f[j]) : j \in DOMAIN f}
    OBVIOUS
  <2> QED
    BY <2>1
<1>2. PICK ss \in Seq(Seq(S)) : ss = f
  <2>1. \A i \in DOMAIN f : f[i] \in Seq(S)
    BY <1>1, ListOver
  <2>2. ToSet(f) \subseteq Seq(S)
    BY <2>1 DEF ToSet
  <2> QED
    BY <2>2, ListOver
<1>3. PICK n \in Nat : n = Len(ss)
  BY <1>2
<1>4. PICK g : Partial(S, g, ss, n) /\ FlattenSeq(ss) = g[n]
  BY <1>3, FlattenSteps
<1> DEFINE P == {k \in 0..n : \E a, b : Cut(g[k], ss, k, a, b)}
<1>5. 0 \in P
  <2>1. DOMAIN g[0] = {} /\ 1..0 = {}
    BY <1>4 DEF Partial
  <2>2. Cut(g[0], ss, 0, <<>>, <<>>)
    BY <2>1 DEF Cut
  <2> QED
    BY <1>3, <2>2
<1>6. ASSUME NEW k \in 0..(n - 1), k \in P PROVE k + 1 \in P
  <2>1. k + 1 \in 1..n /\ k + 1 \in 0..n /\ (k + 1) - 1 = k /\ k \in 0..n /\ k \in Nat
    BY <1>3
  <2>2. g[k + 1] = g[k] \o ss[k + 1] /\ g[k] \in Seq(S) /\ ss[k + 1] \in Seq(S)
    BY <1>4, <2>1 DEF Partial
  <2>3. PICK a, b : Cut(g[k], ss, k, a, b)
    BY <1>6
  <2>4. PICK c \in Seq(S) : c = g[k]
    BY <2>2
  <2>5. PICK d \in Seq(S) : d = ss[k + 1]
    BY <2>2
  <2>6. \E e, h : Cut(c \o d, ss, k + 1, e, h)
    BY <2>1, <2>3, <2>4, <2>5, OneMoreCut
  <2> QED
    BY <2>1, <2>2, <2>4, <2>5, <2>6
<1> HIDE DEF P
<1>7. 0..n \subseteq P
  BY <1>5, <1>6, UpTo
<1>8. n \in P
  BY <1>3, <1>7
<1> QED
  BY <1>2, <1>3, <1>4, <1>8 DEF P

\* Short lists,
LEMMA OnceFew == Once(<<>>) /\ \A x : Once(<<x>>)
BY ShortLists DEF Once

\* two lists that have nothing in common,
LEMMA OnceBoth ==
    ASSUME NEW x, NEW y, Once(x), Once(y), ToSet(x) \intersect ToSet(y) = {}
    PROVE  Once(x \o y)
<1>1. PICK S : ToSet(x) \subseteq S /\ ToSet(y) \subseteq S
  <2>1. ToSet(x) \subseteq ToSet(x) \union ToSet(y) /\ ToSet(y) \subseteq ToSet(x) \union ToSet(y)
    OBVIOUS
  <2> QED
    BY <2>1
<1>2. PICK v \in Seq(S) : v = x
  BY <1>1, ListOver DEF Once
<1>3. PICK w \in Seq(S) : w = y
  BY <1>1, ListOver DEF Once
<1>4. PICK p \in Nat : p = Len(v) /\ DOMAIN v = 1..p
  OBVIOUS
<1>5. PICK q \in Nat : q = Len(w) /\ DOMAIN w = 1..q
  OBVIOUS
<1> DEFINE z == v \o w
<1>6. z \in Seq(S) /\ DOMAIN z = 1..(p + q)
  BY <1>4, <1>5
<1>7. /\ \A k \in 1..p : z[k] = v[k] /\ v[k] \in ToSet(x)
      /\ \A k \in (p + 1)..(p + q) : z[k] = w[k - p] /\ k - p \in 1..q /\ w[k - p] \in ToSet(y)
  <2>1. /\ \A k \in 1..p : z[k] = v[k]
        /\ \A k \in (p + 1)..(p + q) : z[k] = w[k - p] /\ k - p \in 1..q
    BY <1>4, <1>5
  <2> HIDE DEF z
  <2> QED
    BY <1>2, <1>3, <1>4, <1>5, <2>1 DEF ToSet
<1> HIDE DEF z
<1>8. \A k \in 1..(p + q) : k \in 1..p \/ k \in (p + 1)..(p + q)
  OBVIOUS
<1>9. ASSUME NEW i \in DOMAIN z, NEW j \in DOMAIN z, z[i] = z[j] PROVE i = j
  <2>1. CASE i \in 1..p /\ j \in 1..p
    BY <1>2, <1>4, <1>7, <1>9, <2>1 DEF Once
  <2>2. CASE i \in (p + 1)..(p + q) /\ j \in (p + 1)..(p + q)
    <3>1. w[i - p] = w[j - p] /\ i - p \in DOMAIN w /\ j - p \in DOMAIN w
      BY <1>5, <1>7, <1>9, <2>2
    <3>2. i - p = j - p
      BY <1>3, <3>1 DEF Once
    <3> QED
      BY <2>2, <3>2
  <2>3. CASE i \in 1..p /\ j \in (p + 1)..(p + q)
    BY <1>7, <1>9, <2>3
  <2>4. CASE i \in (p + 1)..(p + q) /\ j \in 1..p
    BY <1>7, <1>9, <2>4
  <2> QED
    BY <1>6, <1>8, <2>1, <2>2, <2>3, <2>4
<1>10. IsList(z)
  BY <1>6, SequenceIsList
<1>11. Once(z)
  BY <1>9, <1>10 DEF Once
<1> QED
  BY <1>2, <1>3, <1>11 DEF z

\* any number of lists that have nothing in common,
LEMMA OnceAll ==
    ASSUME NEW f, IsList(f), \A i \in DOMAIN f : Once(f[i]),
           \A i \in DOMAIN f : \A j \in DOMAIN f :
               i # j => ToSet(f[i]) \intersect ToSet(f[j]) = {}
    PROVE  Once(FlattenSeq(f))
<1>1. \A i \in DOMAIN f : IsList(f[i])
  BY DEF Once
<1>2. PICK c : c = FlattenSeq(f) /\ IsList(c)
  BY <1>1, FlattenedList
<1>3. PICK a, b : Cut(c, f, Len(f), a, b)
  BY <1>1, <1>2, FlattenedPlaces
<1>4. PICK n \in Nat : n = Len(f) /\ DOMAIN f = 1..n
  BY ListFacts
<1>5. PICK m \in Nat : DOMAIN c = 1..m
  BY <1>2, ListFacts
<1>6. \A k \in 1..m : a[k] \in DOMAIN f /\ b[k] \in DOMAIN f[a[k]] /\ c[k] = f[a[k]][b[k]]
  BY <1>3, <1>4, <1>5 DEF Cut
<1>7. ASSUME NEW k \in 1..m, NEW l \in 1..m, k < l, c[k] = c[l] PROVE FALSE
  <2>1. c[k] \in ToSet(f[a[k]]) /\ c[l] \in ToSet(f[a[l]])
    BY <1>6 DEF ToSet
  <2>2. a[k] = a[l]
    BY <1>6, <1>7, <2>1
  <2>3. Once(f[a[k]])
    BY <1>6
  <2>4. b[k] = b[l]
    BY <1>6, <1>7, <2>2, <2>3 DEF Once
  <2>5. a[k] \in Nat /\ b[k] \in Nat
    <3>1. PICK i \in 1..n : i = a[k]
      BY <1>4, <1>6
    <3>2. PICK s : s = f[a[k]] /\ IsList(s)
      BY <2>3 DEF Once
    <3>3. DOMAIN s = 1..Len(s) /\ Len(s) \in Nat
      BY <3>2, ListFacts
    <3>4. PICK j \in 1..Len(s) : j = b[k]
      BY <1>6, <3>2, <3>3
    <3> QED
      BY <3>1, <3>3, <3>4
  <2>6. a[k] < a[l] \/ (a[k] = a[l] /\ b[k] < b[l])
    BY <1>3, <1>5, <1>7 DEF Cut
  <2> QED
    BY <2>2, <2>4, <2>5, <2>6
<1>8. \A k \in 1..m : \A l \in 1..m : c[k] = c[l] => k = l
  <2> SUFFICES ASSUME NEW k \in 1..m, NEW l \in 1..m, c[k] = c[l], k # l PROVE FALSE
    OBVIOUS
  <2>1. k < l \/ l < k
    OBVIOUS
  <2> QED
    BY <1>7, <2>1
<1> QED
  BY <1>2, <1>5, <1>8 DEF Once

\* and some of the entries of a list.
LEMMA OnceChosen ==
    ASSUME NEW s, Once(s), NEW I
    PROVE  Once(Chosen(s, I))
<1>1. PICK S : s \in Seq(S)
  BY DEF Once, IsList
<1>2. PICK c \in Seq(S) : c = Chosen(s, I)
  BY <1>1, ChosenPlaces
<1>3. PICK p : Places(c, p, s, I \intersect DOMAIN s)
  BY <1>1, <1>2, ChosenPlaces
<1>4. PICK m \in Nat : m = Len(c) /\ DOMAIN c = 1..m
  BY <1>2
<1>5. \A k \in 1..m : p[k] \in DOMAIN s /\ c[k] = s[p[k]]
  BY <1>3, <1>4 DEF Places
<1>6. PICK n \in Nat : DOMAIN s = 1..n
  BY ListFacts DEF Once
<1>7. ASSUME NEW k \in 1..m, NEW l \in 1..m, k < l, c[k] = c[l] PROVE FALSE
  <2>1. p[k] = p[l]
    BY <1>5, <1>7 DEF Once
  <2>2. p[k] < p[l]
    BY <1>3, <1>4, <1>7 DEF Places
  <2>3. PICK i \in 1..n : i = p[k]
    BY <1>5, <1>6
  <2> QED
    BY <2>1, <2>2, <2>3
<1>8. \A k \in 1..m : \A l \in 1..m : c[k] = c[l] => k = l
  <2> SUFFICES ASSUME NEW k \in 1..m, NEW l \in 1..m, c[k] = c[l], k # l PROVE FALSE
    OBVIOUS
  <2>1. k < l \/ l < k
    OBVIOUS
  <2> QED
    BY <1>7, <2>1
<1>9. IsList(c)
  BY <1>2, SequenceIsList
<1> QED
  BY <1>2, <1>4, <1>8, <1>9 DEF Once
=============================================================================
