---------------------------- MODULE MerkleProofs ----------------------------
(***************************************************************************)
(* Proofs about the Merkle tree, for any number of leaves: a root fixes    *)
(* the leaves, and every leaf has a proof that verifies.                   *)
(***************************************************************************)
EXTENDS Merkle, SequenceTheorems, SumTheorems

(* A set of naturals has a least element.                                  *)
LEMMA LeastNat ==
    ASSUME NEW F \in SUBSET Nat, F # {}
    PROVE  \E n \in F : \A m \in F : n <= m
  <1>1. PICK k \in F : TRUE
    OBVIOUS
  <1> DEFINE upto == {0..n : n \in {m \in F : m <= k}}
  <1>2. IsFiniteSet(0..k)
    BY <1>1, FS_Interval
  <1>3. PICK s \in upto : \A t \in upto : t \subseteq s => t = s
    <2>1. upto \in SUBSET SUBSET (0..k)
      <3>1. \A t \in upto : t \subseteq 0..k
        BY <1>1
      <3> HIDE DEF upto
      <3> QED
        BY <3>1
    <2>2. upto # {}
      <3>1. 0..k \in upto
        BY <1>1
      <3> HIDE DEF upto
      <3> QED
        BY <3>1
    <2>3. PICK U : U = 0..k
      OBVIOUS
    <2> HIDE DEF upto
    <2>4. IsFiniteSet(U) /\ upto \in SUBSET SUBSET U
      BY <1>2, <2>1, <2>3
    <2> QED
      BY <2>2, <2>4, SmallestSubset
  <1>4. PICK n \in F : n <= k /\ s = 0..n
    BY <1>3
  <1>5. ASSUME NEW m \in F, m < n PROVE FALSE
    <2>1. 0..m \in upto /\ 0..m \subseteq 0..n /\ n \notin 0..m /\ n \in 0..n
      BY <1>1, <1>4, <1>5
    <2> QED
      BY <1>3, <1>4, <2>1
  <1> QED
    BY <1>5

(* A list is a function on 1..m.                                           *)
IsList(l, m) == m \in Nat /\ l = [i \in 1..m |-> l[i]]

(* Its length is m.                                                        *)
LEMMA ListLen ==
    ASSUME NEW l, NEW m, IsList(l, m)
    PROVE  Len(l) = m /\ DOMAIN l = 1..m /\ l \in Seq({l[i] : i \in 1..m})
  <1>1. l \in [1..m -> {l[i] : i \in 1..m}] /\ m \in Nat
    BY DEF IsList
  <1> QED
    BY <1>1

(* A level becomes even and keeps its nodes.                               *)
LEMMA PaddedFacts ==
    ASSUME NEW l, NEW m, IsList(l, m), m > 1
    PROVE  /\ IsList(Padded(l), IF m % 2 = 1 THEN m + 1 ELSE m)
           /\ \A i \in 1..m : Padded(l)[i] = l[i]
  <1> DEFINE S == {l[i] : i \in 1..m}
  <1>1. Len(l) = m /\ l \in Seq(S) /\ m \in Nat /\ l[m] \in S
    BY ListLen DEF IsList
  <1>2. CASE m % 2 = 1
    <2>1. Padded(l) = Append(l, l[m])
      BY <1>1, <1>2 DEF Padded
    <2>2. PICK x : x = l[m]
      OBVIOUS
    <2>3. /\ Len(Append(l, x)) = m + 1
          /\ Append(l, x) \in Seq(S)
          /\ \A i \in 1..m : Append(l, x)[i] = l[i]
      <3>1. x \in S
        BY <1>1, <2>2
      <3> HIDE DEF S
      <3> QED
        BY <1>1, <3>1
    <2>4. Append(l, x) \in [1..(m + 1) -> S]
      <3>1. PICK w : w = Append(l, x)
        OBVIOUS
      <3>2. Len(w) = m + 1 /\ w \in Seq(S)
        BY <2>3, <3>1
      <3>3. w \in [1..(m + 1) -> S]
        <4> HIDE DEF S
        <4> QED
          BY <3>2, LenProperties
      <3> QED
        BY <3>1, <3>3
    <2>5. IsList(Append(l, x), m + 1)
      <3> HIDE DEF S
      <3> QED
        BY <1>1, <2>4 DEF IsList
    <2> QED
      BY <1>2, <2>1, <2>2, <2>3, <2>5
  <1>3. CASE m % 2 # 1
    BY <1>1, <1>3 DEF Padded, IsList
  <1> QED
    BY <1>2, <1>3

(* The next level has half as many nodes, rounded up, each the hash of two *)
(* neighbours.                                                             *)
LEMMA NextLevelFacts ==
    ASSUME NEW l, NEW m, IsList(l, m), m > 1
    PROVE  /\ (m + 1) \div 2 \in 1..(m - 1)
           /\ IsList(NextLevel(l), (m + 1) \div 2)
           /\ \A i \in 1..((m + 1) \div 2) :
                 NextLevel(l)[i] = hash_pair(Padded(l)[2 * i - 1], Padded(l)[2 * i])
  <1>0. m \in Nat
    BY DEF IsList
  <1>1. PICK p : p = IF m % 2 = 1 THEN m + 1 ELSE m
    OBVIOUS
  <1>2. p \div 2 = (m + 1) \div 2 /\ (m + 1) \div 2 \in 1..(m - 1)
    BY <1>0, <1>1
  <1>3. Len(Padded(l)) = p
    BY <1>1, PaddedFacts, ListLen
  <1>4. NextLevel(l) = [i \in 1..((m + 1) \div 2) |->
                           hash_pair(Padded(l)[2 * i - 1], Padded(l)[2 * i])]
    BY <1>2, <1>3 DEF NextLevel
  <1>5. PICK w : w = NextLevel(l)
    OBVIOUS
  <1>6. PICK h : h = (m + 1) \div 2
    OBVIOUS
  <1>7. IsList(w, h) /\ \A i \in 1..h : w[i] = hash_pair(Padded(l)[2 * i - 1], Padded(l)[2 * i])
    <2>1. h \in Nat
      BY <1>0, <1>2, <1>6
    <2>2. w = [i \in 1..h |-> hash_pair(Padded(l)[2 * i - 1], Padded(l)[2 * i])]
      BY <1>4, <1>5, <1>6, Zenon
    <2> QED
      BY <2>1, <2>2 DEF IsList
  <1> QED
    BY <1>2, <1>5, <1>6, <1>7, Zenon

(* Lists of one length that give the same next level are the same.         *)
LEMMA NextLevelInjective ==
    ASSUME NEW a, NEW b, NEW m, IsList(a, m), IsList(b, m), m > 1, NextLevel(a) = NextLevel(b)
    PROVE  a = b
  <1>0. m \in Nat
    BY DEF IsList
  <1>1. ASSUME NEW j \in 1..m PROVE a[j] = b[j]
    <2>1. PICK i \in 1..((m + 1) \div 2) : j = 2 * i - 1 \/ j = 2 * i
      <3>1. (j + 1) \div 2 \in 1..((m + 1) \div 2)
        BY <1>0
      <3>2. j = 2 * ((j + 1) \div 2) - 1 \/ j = 2 * ((j + 1) \div 2)
        BY <1>0
      <3> QED
        BY <3>1, <3>2
    <2>2. hash_pair(Padded(a)[2 * i - 1], Padded(a)[2 * i])
            = hash_pair(Padded(b)[2 * i - 1], Padded(b)[2 * i])
      BY NextLevelFacts, Zenon
    <2>3. Padded(a)[2 * i - 1] = Padded(b)[2 * i - 1] /\ Padded(a)[2 * i] = Padded(b)[2 * i]
      BY <2>2 DEF hash_pair
    <2>4. Padded(a)[j] = Padded(b)[j]
      BY <2>1, <2>3
    <2> QED
      BY <2>4, PaddedFacts
  <1> QED
    BY <1>1 DEF IsList

-----------------------------------------------------------------------------
(* Levels(leaves) is the table it is written as.                           *)
LevelsStep(g, n, leaves) ==
    IF n = 0 THEN leaves ELSE IF Len(g[n - 1]) > 1 THEN NextLevel(g[n - 1]) ELSE g[n - 1]
IsLevels(g, N, leaves) == g = [n \in 0..N |-> LevelsStep(g, n, leaves)]

(* Such a table exists up to any level.                                    *)
LEMMA LevelsExist ==
    ASSUME NEW leaves, NEW N \in Nat
    PROVE  \E g : IsLevels(g, N, leaves)
  <1> DEFINE F == {n \in Nat : ~\E g : IsLevels(g, n, leaves)}
  <1>1. SUFFICES ASSUME F # {} PROVE FALSE
    OBVIOUS
  <1>2. PICK n \in F : \A m \in F : n <= m
    <2>1. F \in SUBSET Nat
      OBVIOUS
    <2> HIDE DEF F
    <2> QED
      BY <1>1, <2>1, LeastNat
  <1>3. CASE n = 0
    <2> DEFINE g == [k \in 0..0 |-> leaves]
    <2>1. IsLevels(g, 0, leaves)
      BY DEF IsLevels, LevelsStep
    <2> QED
      BY <1>2, <1>3, <2>1
  <1>4. CASE n # 0
    <2>1. n - 1 \in Nat /\ n - 1 \notin F
      BY <1>2, <1>4
    <2>2. PICK g : IsLevels(g, n - 1, leaves)
      BY <2>1
    <2> DEFINE h == [k \in 0..n |-> IF k = n THEN LevelsStep(g, n, leaves) ELSE g[k]]
    <2>3. ASSUME NEW k \in 0..n PROVE h[k] = LevelsStep(h, k, leaves)
      <3>1. CASE k = n
        <4>1. h[n - 1] = g[n - 1]
          BY <2>1
        <4> QED
          BY <3>1, <4>1, <1>4 DEF LevelsStep
      <3>2. CASE k # n
        <4>1. k \in 0..(n - 1) /\ h[k] = g[k]
          BY <2>1, <3>2
        <4>2. g[k] = LevelsStep(g, k, leaves)
          BY <2>2, <4>1 DEF IsLevels
        <4>3. k # 0 => h[k - 1] = g[k - 1]
          BY <2>1, <4>1
        <4> HIDE DEF h
        <4> QED
          BY <4>1, <4>2, <4>3 DEF LevelsStep
      <3> QED
        BY <3>1, <3>2
    <2>4. h = [k \in 0..n |-> h[k]]
      OBVIOUS
    <2> HIDE DEF h
    <2>5. IsLevels(h, n, leaves)
      BY <2>3, <2>4 DEF IsLevels
    <2> QED
      BY <1>2, <2>5
  <1> QED
    BY <1>3, <1>4

(* What the levels of a list are, one from the other.                      *)
LEMMA LevelsFacts ==
    ASSUME NEW leaves, NEW N, IsList(leaves, N)
    PROVE  /\ DOMAIN Levels(leaves) = 0..N
           /\ Levels(leaves)[0] = leaves
           /\ \A n \in 1..N : Levels(leaves)[n] =
                 IF Len(Levels(leaves)[n - 1]) > 1 THEN NextLevel(Levels(leaves)[n - 1])
                 ELSE Levels(leaves)[n - 1]
  <1>1. Len(leaves) = N /\ N \in Nat
    BY ListLen DEF IsList
  <1>2. Levels(leaves) = CHOOSE g : IsLevels(g, N, leaves)
    BY <1>1 DEF Levels, IsLevels, LevelsStep
  <1>3. IsLevels(Levels(leaves), N, leaves)
    BY <1>1, <1>2, LevelsExist
  <1>4. PICK up : up = Levels(leaves)
    OBVIOUS
  <1>5. up = [n \in 0..N |-> LevelsStep(up, n, leaves)]
    BY <1>3, <1>4 DEF IsLevels
  <1>6. /\ DOMAIN up = 0..N
        /\ \A n \in 0..N : up[n] = LevelsStep(up, n, leaves)
    BY <1>5
  <1>7. /\ up[0] = leaves
        /\ \A n \in 1..N : up[n] = IF Len(up[n - 1]) > 1 THEN NextLevel(up[n - 1]) ELSE up[n - 1]
    BY <1>1, <1>6 DEF LevelsStep
  <1> QED
    BY <1>4, <1>6, <1>7

(* Each level but the first is shorter than the one below, until one node  *)
(* is left; the levels of two lists of one length have equal lengths.      *)
LEMMA LevelLengths ==
    ASSUME NEW a, NEW b, NEW N \in Nat \ {0}, IsList(a, N), IsList(b, N)
    PROVE  \A n \in 0..N : \E m \in Nat \ {0} :
              /\ m = 1 \/ m <= N - n
              /\ IsList(Levels(a)[n], m) /\ IsList(Levels(b)[n], m)
  <1>1. PICK up : up = Levels(a)
    OBVIOUS
  <1>2. PICK vp : vp = Levels(b)
    OBVIOUS
  <1> DEFINE Good(n) == \E m \in Nat \ {0} :
                           (m = 1 \/ m <= N - n) /\ IsList(up[n], m) /\ IsList(vp[n], m)
             F == {n \in 0..N : ~Good(n)}
  <1>3. SUFFICES ASSUME F # {} PROVE FALSE
    BY <1>1, <1>2
  <1>4. PICK n \in F : \A m \in F : n <= m
    <2>1. F \in SUBSET Nat
      OBVIOUS
    <2> HIDE DEF F
    <2> QED
      BY <1>3, <2>1, LeastNat
  <1>5. up[0] = a /\ vp[0] = b
    BY <1>1, <1>2, LevelsFacts
  <1>6. n # 0
    BY <1>4, <1>5
  <1>7. n \in 1..N /\ n - 1 \in 0..N /\ n - 1 \notin F
    BY <1>4, <1>6
  <1>8. PICK m \in Nat \ {0} : (m = 1 \/ m <= N - (n - 1)) /\ IsList(up[n - 1], m) /\ IsList(vp[n - 1], m)
    BY <1>7
  <1>9. /\ up[n] = IF Len(up[n - 1]) > 1 THEN NextLevel(up[n - 1]) ELSE up[n - 1]
        /\ vp[n] = IF Len(vp[n - 1]) > 1 THEN NextLevel(vp[n - 1]) ELSE vp[n - 1]
    BY ZenonT(60), <1>1, <1>2, <1>7, LevelsFacts
  <1>10. Len(up[n - 1]) = m /\ Len(vp[n - 1]) = m
    BY <1>8, ListLen
  <1>11. CASE m = 1
    BY <1>4, <1>8, <1>9, <1>10, <1>11
  <1>12. CASE m > 1
    <2>1. PICK h : h = (m + 1) \div 2
      OBVIOUS
    <2>2. h \in 1..(m - 1) /\ IsList(up[n], h) /\ IsList(vp[n], h)
      BY <1>8, <1>9, <1>10, <1>12, <2>1, NextLevelFacts
    <2>3. h \in Nat \ {0} /\ (h = 1 \/ h <= N - n)
      BY <1>7, <1>8, <1>12, <2>2
    <2> QED
      BY <1>4, <2>2, <2>3
  <1> QED
    BY <1>8, <1>11, <1>12

(* With their number the root fixes all leaves and their order, although   *)
(* the last node of an odd level is hashed with itself (merkle_root).      *)
THEOREM RootFixesLeaves ==
    ASSUME NEW a, NEW b, NEW N \in Nat \ {0}, IsList(a, N), IsList(b, N),
           merkle_root(a) = merkle_root(b)
    PROVE  a = b
  <1>1. PICK up : up = Levels(a)
    OBVIOUS
  <1>2. PICK vp : vp = Levels(b)
    OBVIOUS
  <1>3. Len(a) = N /\ Len(b) = N
    BY ListLen
  <1>4. up[N][1] = vp[N][1]
    <2>1. a # <<>> /\ b # <<>>
      BY <1>3
    <2> QED
      BY <1>1, <1>2, <1>3, <2>1 DEF merkle_root
  <1>5. up[N] = vp[N]
    <2>1. PICK m \in Nat \ {0} : (m = 1 \/ m <= N - N) /\ IsList(up[N], m) /\ IsList(vp[N], m)
      <3>1. N \in 0..N
        OBVIOUS
      <3> QED
        BY <1>1, <1>2, <3>1, LevelLengths
    <2>2. m = 1
      BY <2>1
    <2>3. up[N] = [i \in 1..1 |-> up[N][i]] /\ vp[N] = [i \in 1..1 |-> vp[N][i]]
      BY <2>1, <2>2 DEF IsList
    <2>4. \A i \in 1..1 : up[N][i] = vp[N][i]
      BY <1>4
    <2> QED
      BY <2>3, <2>4
  <1> DEFINE F == {n \in 0..N : \A k \in n..N : up[k] = vp[k]}
  <1>6. N \in F /\ F \in SUBSET Nat
    BY <1>5
  <1>7. PICK n \in F : \A m \in F : n <= m
    <2> HIDE DEF F
    <2> QED
      BY <1>6, LeastNat
  <1>8. CASE n = 0
    BY <1>1, <1>2, <1>7, <1>8, LevelsFacts
  <1>9. CASE n # 0
    <2>1. n \in 1..N /\ n - 1 \in 0..N /\ up[n] = vp[n]
      BY <1>7, <1>9
    <2>2. PICK m \in Nat \ {0} : IsList(up[n - 1], m) /\ IsList(vp[n - 1], m)
      BY <1>1, <1>2, <2>1, LevelLengths
    <2>3. Len(up[n - 1]) = m /\ Len(vp[n - 1]) = m
      BY <2>2, ListLen
    <2>4. /\ up[n] = IF Len(up[n - 1]) > 1 THEN NextLevel(up[n - 1]) ELSE up[n - 1]
          /\ vp[n] = IF Len(vp[n - 1]) > 1 THEN NextLevel(vp[n - 1]) ELSE vp[n - 1]
      BY <1>1, <1>2, <2>1, LevelsFacts
    <2>5. up[n - 1] = vp[n - 1]
      <3>1. CASE m > 1
        BY <2>1, <2>2, <2>3, <2>4, <3>1, NextLevelInjective
      <3>2. CASE ~(m > 1)
        BY <2>1, <2>3, <2>4, <3>2
      <3> QED
        BY <3>1, <3>2
    <2>6. n - 1 \in F
      BY <1>7, <2>1, <2>5
    <2> QED
      BY <1>7, <2>1, <2>6
  <1> QED
    BY <1>8, <1>9

-----------------------------------------------------------------------------
(* The loop of merkle_proof runs once for each level of more than one      *)
(* node; above them the one node stays.                                    *)
LEMMA HeightFacts ==
    ASSUME NEW ls, NEW N \in Nat \ {0}, IsList(ls, N)
    PROVE  /\ Height(ls) \in 0..N
           /\ \A n \in 0..N : n < Height(ls) <=> Len(Levels(ls)[n]) > 1
           /\ Levels(ls)[N] = Levels(ls)[Height(ls)]
           /\ Len(Levels(ls)[Height(ls)]) = 1
  <1>1. PICK up : up = Levels(ls)
    OBVIOUS
  <1>2. /\ DOMAIN up = 0..N
        /\ \A n \in 1..N : up[n] = IF Len(up[n - 1]) > 1 THEN NextLevel(up[n - 1]) ELSE up[n - 1]
    BY <1>1, LevelsFacts
  <1>3. ASSUME NEW n \in 0..N PROVE Len(up[n]) \in Nat \ {0} /\ (Len(up[n]) = 1 \/ Len(up[n]) <= N - n)
    <2>1. PICK m \in Nat \ {0} : (m = 1 \/ m <= N - n) /\ IsList(up[n], m)
      BY <1>1, <1>3, LevelLengths
    <2> QED
      BY <2>1, ListLen
  <1> DEFINE Ones == {n \in 0..N : Len(up[n]) = 1}
  <1>4. PICK h \in Ones : \A m \in Ones : h <= m
    <2>1. N \in 0..N
      OBVIOUS
    <2>2. Len(up[N]) = 1
      BY <1>3, <2>1
    <2>3. Ones \in SUBSET Nat /\ N \in Ones
      BY <2>1, <2>2
    <2> HIDE DEF Ones
    <2> QED
      BY <2>3, LeastNat
  <1>5. ASSUME NEW k \in h..N PROVE up[k] = up[h]
    <2> DEFINE F == {n \in h..N : up[n] # up[h]}
    <2>1. SUFFICES ASSUME F # {} PROVE FALSE
      OBVIOUS
    <2>2. PICK n \in F : \A m \in F : n <= m
      <3>1. F \in SUBSET Nat
        BY <1>4
      <3> HIDE DEF F
      <3> QED
        BY <2>1, <3>1, LeastNat
    <2>3. n # h /\ n \in 1..N /\ n - 1 \in h..N
      BY <1>4, <2>2
    <2>4. up[n - 1] = up[h]
      BY <1>4, <2>2, <2>3
    <2>5. up[n] = up[h]
      <3>1. Len(up[n - 1]) = 1
        BY <1>4, <2>4
      <3>2. up[n] = IF Len(up[n - 1]) > 1 THEN NextLevel(up[n - 1]) ELSE up[n - 1]
        BY <1>2, <2>3
      <3> QED
        BY <2>4, <3>1, <3>2
    <2> QED
      BY <2>2, <2>5
  <1>6. ASSUME NEW n \in 0..N PROVE n < h <=> Len(up[n]) > 1
    <2>1. CASE n < h
      <3>1. n \notin Ones
        BY <1>4, <2>1
      <3>2. PICK m : m = Len(up[n])
        OBVIOUS
      <3>3. m \in Nat \ {0} /\ m # 1
        BY <1>3, <3>1, <3>2
      <3>4. m > 1
        BY <3>3
      <3> QED
        BY <2>1, <3>2, <3>4
    <2>2. CASE ~(n < h)
      <3>1. up[n] = up[h]
        BY <1>4, <1>5, <2>2
      <3>2. Len(up[n]) = 1
        BY <1>4, <3>1
      <3>3. ~(Len(up[n]) > 1)
        BY <3>2
      <3> QED
        BY <2>2, <3>3
    <2> QED
      BY <2>1, <2>2
  <1>7. {n \in DOMAIN up : Len(up[n]) > 1} = 0..(h - 1)
    BY <1>2, <1>4, <1>6
  <1>8. Height(ls) = h
    <2>1. Cardinality(0..(h - 1)) = h
      BY <1>4, FS_Interval
    <2> QED
      BY <1>1, <1>7, <2>1 DEF Height
  <1>9. up[N] = up[h] /\ h \in 0..N /\ Len(up[h]) = 1
    BY <1>4, <1>5
  <1> QED
    BY <1>1, <1>6, <1>8, <1>9

(* The table of positions.                                                 *)
HalvedStep(g, k, index) == IF k = 0 THEN index ELSE g[k - 1] \div 2
IsHalved(g, N, index) == g = [k \in 0..N |-> HalvedStep(g, k, index)]

(* It exists up to any level.                                              *)
LEMMA HalvedExist ==
    ASSUME NEW index, NEW N \in Nat
    PROVE  \E g : IsHalved(g, N, index)
  <1> DEFINE F == {n \in Nat : ~\E g : IsHalved(g, n, index)}
  <1>1. SUFFICES ASSUME F # {} PROVE FALSE
    OBVIOUS
  <1>2. PICK n \in F : \A m \in F : n <= m
    <2>1. F \in SUBSET Nat
      OBVIOUS
    <2> HIDE DEF F
    <2> QED
      BY <1>1, <2>1, LeastNat
  <1>3. CASE n = 0
    <2> DEFINE g == [k \in 0..0 |-> index]
    <2>1. IsHalved(g, 0, index)
      BY DEF IsHalved, HalvedStep
    <2> QED
      BY <1>2, <1>3, <2>1
  <1>4. CASE n # 0
    <2>1. n - 1 \in Nat /\ n - 1 \notin F
      BY <1>2, <1>4
    <2>2. PICK g : IsHalved(g, n - 1, index)
      BY <2>1
    <2> DEFINE h == [k \in 0..n |-> IF k = n THEN HalvedStep(g, n, index) ELSE g[k]]
    <2>3. ASSUME NEW k \in 0..n PROVE h[k] = HalvedStep(h, k, index)
      <3>1. CASE k = n
        <4>1. h[n - 1] = g[n - 1]
          BY <2>1
        <4> QED
          BY <3>1, <4>1, <1>4 DEF HalvedStep
      <3>2. CASE k # n
        <4>1. k \in 0..(n - 1) /\ h[k] = g[k]
          BY <2>1, <3>2
        <4>2. g[k] = HalvedStep(g, k, index)
          BY <2>2, <4>1 DEF IsHalved
        <4>3. k # 0 => h[k - 1] = g[k - 1]
          BY <2>1, <4>1
        <4> HIDE DEF h
        <4> QED
          BY <4>1, <4>2, <4>3 DEF HalvedStep
      <3> QED
        BY <3>1, <3>2
    <2>4. h = [k \in 0..n |-> h[k]]
      OBVIOUS
    <2> HIDE DEF h
    <2>5. IsHalved(h, n, index)
      BY <2>3, <2>4 DEF IsHalved
    <2> QED
      BY <1>2, <2>5
  <1> QED
    BY <1>3, <1>4

(* Positions are halved from one level to the next.                        *)
LEMMA HalvedFacts ==
    ASSUME NEW index, NEW N \in Nat
    PROVE  /\ Halved(index, N)[0] = index
           /\ \A k \in 1..N : Halved(index, N)[k] = Halved(index, N)[k - 1] \div 2
  <1>1. Halved(index, N) = CHOOSE g : IsHalved(g, N, index)
    BY DEF Halved, IsHalved, HalvedStep
  <1>2. PICK idx : idx = Halved(index, N)
    OBVIOUS
  <1>3. idx = [k \in 0..N |-> HalvedStep(idx, k, index)]
    BY <1>1, <1>2, HalvedExist DEF IsHalved
  <1>4. \A k \in 0..N : idx[k] = HalvedStep(idx, k, index)
    BY <1>3
  <1>5. idx[0] = index /\ \A k \in 1..N : idx[k] = idx[k - 1] \div 2
    BY <1>4 DEF HalvedStep
  <1> QED
    BY <1>2, <1>5

(* The table of hashes verify_merkle_proof goes through.                   *)
HashStep(g, k, leaf, idx, siblings) ==
    IF k = 0 THEN leaf
    ELSE IF idx[k - 1] % 2 = 0 THEN hash_pair(g[k - 1], siblings[k])
         ELSE hash_pair(siblings[k], g[k - 1])
IsHash(g, N, leaf, idx, siblings) == g = [k \in 0..N |-> HashStep(g, k, leaf, idx, siblings)]

(* A table of hashes: verification succeeds when there is one and it ends  *)
(* in the root.                                                            *)
LEMMA VerifyByTable ==
    ASSUME NEW leaf, NEW proof, NEW H, IsList(proof.siblings, H), NEW root,
           NEW h, h[H] = root, h = [k \in 0..H |-> h[k]],
           \A k \in 0..H : h[k] = HashStep(h, k, leaf, Halved(proof.index, H), proof.siblings)
    PROVE  verify_merkle_proof(leaf, proof, root)
  <1> DEFINE siblings == proof.siblings
  <1>0. H \in Nat /\ Len(siblings) = H
    BY ListLen DEF IsList
  <1>1. PICK idx : idx = Halved(proof.index, H)
    OBVIOUS
  <1>2. IsHash(h, H, leaf, idx, siblings)
    BY <1>1 DEF IsHash
  <1>3. PICK g : g = CHOOSE f : IsHash(f, H, leaf, idx, siblings)
    OBVIOUS
  <1>4. IsHash(g, H, leaf, idx, siblings)
    BY <1>2, <1>3
  <1>5. g[H] = h[H]
    <2> DEFINE F == {k \in 0..H : g[k] # h[k]}
    <2>1. SUFFICES ASSUME F # {} PROVE FALSE
      BY <1>0
    <2>2. PICK k \in F : \A m \in F : k <= m
      <3>1. F \in SUBSET Nat
        OBVIOUS
      <3> HIDE DEF F
      <3> QED
        BY <2>1, <3>1, LeastNat
    <2>3. k # 0 => g[k - 1] = h[k - 1]
      BY <1>0, <2>2
    <2>4. g[k] = HashStep(g, k, leaf, idx, siblings)
      BY <1>4, <2>2 DEF IsHash
    <2>5. h[k] = HashStep(h, k, leaf, idx, siblings)
      BY <1>1, <2>2
    <2>6. g[k] = h[k]
      BY <2>3, <2>4, <2>5 DEF HashStep
    <2> QED
      BY <2>2, <2>6
  <1>6. verify_merkle_proof(leaf, proof, root)
          <=> (CHOOSE f : IsHash(f, Len(siblings), leaf, Halved(proof.index, Len(siblings)), siblings))
                 [Len(siblings)] = root
    BY DEF verify_merkle_proof, IsHash, HashStep
  <1>7. verify_merkle_proof(leaf, proof, root)
          <=> (CHOOSE f : IsHash(f, H, leaf, idx, siblings))[H] = root
    BY <1>0, <1>1, <1>6, Zenon
  <1> QED
    BY <1>3, <1>5, <1>7

(* Every leaf of a tree of any size has a proof that verifies against the  *)
(* root (merkle_proof, verify_merkle_proof, merkle_root).                  *)
THEOREM EveryLeafProvable ==
    ASSUME NEW ls, NEW N \in Nat \ {0}, IsList(ls, N), NEW index \in 0..(N - 1)
    PROVE  verify_merkle_proof(ls[index + 1], merkle_proof(ls, index), merkle_root(ls))
  <1>1. PICK up : up = Levels(ls)
    OBVIOUS
  <1>2. PICK H : H = Height(ls)
    OBVIOUS
  <1>3. PICK idx : idx = Halved(index, H)
    OBVIOUS
  <1>4. /\ H \in 0..N /\ up[N] = up[H] /\ Len(up[H]) = 1
        /\ \A n \in 0..N : n < H <=> Len(up[n]) > 1
    BY <1>1, <1>2, HeightFacts
  <1>5. idx[0] = index /\ \A k \in 1..H : idx[k] = idx[k - 1] \div 2
    BY <1>3, <1>4, HalvedFacts
  <1>6. /\ up[0] = ls
        /\ \A n \in 1..N : up[n] = IF Len(up[n - 1]) > 1 THEN NextLevel(up[n - 1]) ELSE up[n - 1]
    BY <1>1, LevelsFacts
  <1>7. ASSUME NEW n \in 0..N PROVE IsList(up[n], Len(up[n])) /\ Len(up[n]) \in Nat \ {0}
    <2>1. PICK m \in Nat \ {0} : IsList(up[n], m)
      BY <1>1, LevelLengths
    <2> QED
      BY <2>1, ListLen
  <1>8. ASSUME NEW k \in 1..H
        PROVE  /\ Len(up[k - 1]) > 1 /\ IsList(up[k - 1], Len(up[k - 1]))
               /\ up[k] = NextLevel(up[k - 1])
               /\ Len(up[k]) = (Len(up[k - 1]) + 1) \div 2
    <2>1. k - 1 \in 0..N /\ k \in 1..N /\ k - 1 < H
      BY <1>4
    <2>2. Len(up[k - 1]) > 1
      BY <1>4, <2>1
    <2>3. IsList(up[k - 1], Len(up[k - 1])) /\ up[k] = NextLevel(up[k - 1])
      BY <1>6, <1>7, <2>1, <2>2
    <2>4. PICK m, l : m = Len(up[k - 1]) /\ l = up[k - 1]
      OBVIOUS
    <2>5. m > 1 /\ IsList(l, m)
      BY <2>2, <2>3, <2>4
    <2>6. Len(NextLevel(l)) = (m + 1) \div 2
      BY <2>5, NextLevelFacts, ListLen
    <2> QED
      BY <2>2, <2>3, <2>4, <2>6
  <1>9. ASSUME NEW k \in 0..H PROVE idx[k] \in 0..(Len(up[k]) - 1)
    <2> DEFINE F == {n \in 0..H : idx[n] \notin 0..(Len(up[n]) - 1)}
    <2>1. SUFFICES ASSUME F # {} PROVE FALSE
      OBVIOUS
    <2>2. PICK n \in F : \A m \in F : n <= m
      <3>1. F \in SUBSET Nat
        OBVIOUS
      <3> HIDE DEF F
      <3> QED
        BY <2>1, <3>1, LeastNat
    <2>3. CASE n = 0
      <3>1. Len(up[0]) = N
        BY <1>6, ListLen
      <3> QED
        BY <1>5, <2>2, <2>3, <3>1
    <2>4. CASE n # 0
      <3>1. n \in 1..H /\ n - 1 \in 0..H /\ n - 1 \notin F /\ n - 1 \in 0..N
        BY <1>4, <2>2, <2>4
      <3>2. idx[n] = idx[n - 1] \div 2 /\ idx[n - 1] \in 0..(Len(up[n - 1]) - 1)
        BY <1>5, <3>1
      <3>3. Len(up[n]) = (Len(up[n - 1]) + 1) \div 2 /\ Len(up[n - 1]) \in Nat
        BY <1>7, <1>8, <3>1
      <3>4. PICK j, m : j = idx[n - 1] /\ m = Len(up[n - 1])
        OBVIOUS
      <3>5. j \div 2 \in 0..(((m + 1) \div 2) - 1)
        <4>1. j \in Nat /\ m \in Nat /\ j < m
          BY <3>2, <3>3, <3>4
        <4> QED
          BY <4>1
      <3> QED
        BY <2>2, <3>2, <3>3, <3>4, <3>5
    <2> QED
      BY <2>3, <2>4
  <1> DEFINE siblings == [k \in 1..H |-> Padded(up[k - 1])[1 + sibling_idx(idx[k - 1])]]
             hash == [k \in 0..H |-> up[k][1 + idx[k]]]
  <1>10. merkle_proof(ls, index) = [index |-> index, siblings |-> siblings]
    BY <1>1, <1>2, <1>3 DEF merkle_proof
  <1>11. IsList(siblings, H)
    BY <1>4 DEF IsList
  <1>12. hash[H] = merkle_root(ls)
    <2>0. Len(ls) = N
      BY ListLen
    <2>1. ls # <<>>
      BY <2>0
    <2>2. merkle_root(ls) = up[N][1]
      BY <1>1, <2>0, <2>1 DEF merkle_root
    <2>3. H \in 0..H
      BY <1>4
    <2>4. idx[H] = 0
      BY <1>4, <1>9, <2>3
    <2> QED
      BY <1>4, <2>2, <2>3, <2>4
  <1>13. ASSUME NEW k \in 0..H PROVE hash[k] = HashStep(hash, k, ls[index + 1], idx, siblings)
    <2>1. CASE k = 0
      BY <1>4, <1>5, <1>6, <2>1 DEF HashStep
    <2>2. CASE k # 0
      <3>1. k \in 1..H /\ k - 1 \in 0..H
        BY <1>4, <2>2
      <3>2. PICK j, m, l : j = idx[k - 1] /\ m = Len(up[k - 1]) /\ l = up[k - 1]
        OBVIOUS
      <3>3. j \in 0..(m - 1) /\ m > 1 /\ IsList(l, m) /\ up[k] = NextLevel(l) /\ m \in Nat
        BY <1>8, <1>9, <3>1, <3>2 DEF IsList
      <3>4. PICK i : i = 1 + (j \div 2)
        OBVIOUS
      <3>5. /\ i \in 1..((m + 1) \div 2)
            /\ j % 2 = 0 => 2 * i - 1 = j + 1 /\ 2 * i = 1 + sibling_idx(j)
            /\ j % 2 # 0 => 2 * i - 1 = 1 + sibling_idx(j) /\ 2 * i = j + 1
        BY <3>3, <3>4 DEF sibling_idx
      <3>6. hash[k] = hash_pair(Padded(l)[2 * i - 1], Padded(l)[2 * i])
        <4>1. idx[k] = j \div 2
          BY <1>5, <3>1, <3>2
        <4>2. hash[k] = NextLevel(l)[i]
          BY <3>3, <3>4, <4>1
        <4> QED
          BY <3>3, <3>5, <4>2, NextLevelFacts, Zenon
      <3>7. hash[k - 1] = Padded(l)[j + 1]
        <4>1. j + 1 \in 1..m
          BY <3>3
        <4>2. Padded(l)[j + 1] = l[j + 1]
          BY <3>3, <4>1, PaddedFacts
        <4>3. hash[k - 1] = l[1 + j]
          BY <3>1, <3>2
        <4> QED
          BY <3>3, <4>2, <4>3
      <3>8. siblings[k] = Padded(l)[1 + sibling_idx(j)]
        BY <3>1, <3>2
      <3> HIDE DEF hash, siblings
      <3>9. CASE j % 2 = 0
        BY <2>2, <3>2, <3>5, <3>6, <3>7, <3>8, <3>9 DEF HashStep
      <3>10. CASE j % 2 # 0
        BY <2>2, <3>2, <3>5, <3>6, <3>7, <3>8, <3>10 DEF HashStep
      <3> QED
        BY <3>9, <3>10
    <2> QED
      BY <2>1, <2>2
  <1>14. hash = [k \in 0..H |-> hash[k]]
    OBVIOUS
  <1>15. PICK proof : proof = merkle_proof(ls, index)
    OBVIOUS
  <1>16. proof.siblings = siblings /\ proof.index = index
    BY <1>10, <1>15
  <1> HIDE DEF hash, siblings
  <1>17. /\ IsList(proof.siblings, H)
         /\ \A k \in 0..H : hash[k]
               = HashStep(hash, k, ls[index + 1], Halved(proof.index, H), proof.siblings)
    BY <1>3, <1>11, <1>13, <1>16
  <1>18. verify_merkle_proof(ls[index + 1], proof, merkle_root(ls))
    BY <1>12, <1>14, <1>17, VerifyByTable
  <1> QED
    BY <1>15, <1>18
=============================================================================
