------------------------- MODULE TransparencyProofs -------------------------
(***************************************************************************)
(* Theorems about the transparency service, for any number of requests,    *)
(* events, shards, publications, auditors' reads and runs of the command:  *)
(* appends are acknowledged and fill the tree one leaf after the other,    *)
(* roots are those of the tree over them, audit paths verify and nothing   *)
(* else does, what is published stands, and auditors find nothing wrong.   *)
(*                                                                         *)
(* The shape of the tree is followed level by level: w is the number of    *)
(* complete subtrees on each level (Widths), half of those on the level    *)
(* below.  Recursive functions are shown to be what their definitions say  *)
(* by induction over sets of numbers (Inductive, SpliceExists).            *)
(***************************************************************************)
EXTENDS TransparencyService, TLAPS, FiniteSetTheorems, SequenceTheorems, WellFoundedInduction

-----------------------------------------------------------------------------
(* Induction, and functions defined by it *)

\* Every set of numbers has a least one.
LEMMA LeastNumber ==
  ASSUME NEW T \in SUBSET Nat, T # {}
  PROVE  \E k \in T : \A j \in T : k <= j
<1>1. \E k \in T : \A j \in T : <<j, k>> \notin OpToRel(<, Nat)
  BY NatLessThanWellFounded, WFMin
<1>2. \A k, j \in T : <<j, k>> \notin OpToRel(<, Nat) => k <= j
  BY DEF OpToRel
<1> QED
  BY <1>1, <1>2

\* Induction over a set of numbers: the provers cannot instantiate a predicate.
LEMMA Inductive ==
  ASSUME NEW S, 0 \in S, \A n \in Nat : n \in S => n + 1 \in S
  PROVE  Nat \subseteq S
<1> DEFINE bad == {n \in Nat : n \notin S}
<1> SUFFICES ASSUME bad # {} PROVE FALSE
  OBVIOUS
<1>1. PICK m \in bad : \A k \in bad : m <= k
  <2>1. bad \in SUBSET Nat
    OBVIOUS
  <2> HIDE DEF bad
  <2> QED
    BY <2>1, LeastNumber
<1>2. m \in Nat /\ m # 0 /\ m \notin S
  OBVIOUS
<1>3. m - 1 \in Nat /\ m - 1 \notin bad
  BY <1>1, <1>2
<1> QED
  BY <1>2, <1>3

LEMMA CompletelyInductive ==
  ASSUME NEW S, \A n \in Nat : (\A m \in Nat : m < n => m \in S) => n \in S
  PROVE  Nat \subseteq S
<1> DEFINE bad == {n \in Nat : n \notin S}
<1> SUFFICES ASSUME bad # {} PROVE FALSE
  OBVIOUS
<1>1. PICK m \in bad : \A k \in bad : m <= k
  <2>1. bad \in SUBSET Nat
    OBVIOUS
  <2> HIDE DEF bad
  <2> QED
    BY <2>1, LeastNumber
<1> QED
  BY <1>1

-----------------------------------------------------------------------------
(* Powers of two *)

\* The powers up to the n-th.
PowersTo(g, n) ==
  g \in [0 .. n -> Nat \ {0}] /\ g[0] = 1 /\ \A k \in 0 .. (n - 1) : g[k + 1] = 2 * g[k]

LEMMA PowersExist == \A n \in Nat : \E g : PowersTo(g, n)
<1> DEFINE S == {n \in Nat : \E g : PowersTo(g, n)}
<1>1. 0 \in S
  <2>1. PowersTo([k \in 0 .. 0 |-> 1], 0)
    BY DEF PowersTo
  <2> QED
    BY <2>1
<1>2. ASSUME NEW n \in Nat, n \in S PROVE n + 1 \in S
  <2>1. PICK g : PowersTo(g, n)
    BY <1>2
  <2>2. PICK h : h = [k \in 0 .. (n + 1) |-> IF k <= n THEN g[k] ELSE 2 * g[n]]
    OBVIOUS
  <2>3. PowersTo(h, n + 1)
    BY <2>1, <2>2 DEF PowersTo
  <2> QED
    BY <2>3
<1>3. Nat \subseteq S
  <2> HIDE DEF S
  <2> QED
    BY <1>1, <1>2, Inductive
<1> QED
  BY <1>3

LEMMA PowersAgree ==
  ASSUME NEW n \in Nat, NEW m \in Nat, NEW g, NEW h, PowersTo(g, n), PowersTo(h, m),
         NEW k \in Nat, k <= n, k <= m
  PROVE  g[k] = h[k]
<1> DEFINE S == {i \in Nat : i <= n /\ i <= m => g[i] = h[i]}
<1>1. 0 \in S
  BY DEF PowersTo
<1>2. ASSUME NEW i \in Nat, i \in S PROVE i + 1 \in S
  <2> SUFFICES ASSUME i + 1 <= n, i + 1 <= m PROVE g[i + 1] = h[i + 1]
    OBVIOUS
  <2>1. i \in 0 .. (n - 1) /\ i \in 0 .. (m - 1)
    OBVIOUS
  <2>2. g[i + 1] = 2 * g[i] /\ h[i + 1] = 2 * h[i] /\ g[i] = h[i]
    BY <1>2, <2>1 DEF PowersTo
  <2> QED
    BY <2>2
<1>3. Nat \subseteq S
  <2> HIDE DEF S
  <2> QED
    BY <1>1, <1>2, Inductive
<1> QED
  BY <1>3

\* Pow2 is what its definition says.
LEMMA Pow2Def ==
  /\ Pow2 \in [Nat -> Nat \ {0}]
  /\ Pow2[0] = 1
  /\ \A k \in Nat : Pow2[k + 1] = 2 * Pow2[k]
<1> DEFINE powers(n) == CHOOSE g : PowersTo(g, n)
           f == [k \in Nat |-> powers(k)[k]]
<1>1. \A n \in Nat : PowersTo(powers(n), n)
  BY PowersExist
<1> HIDE DEF powers
<1>2. f[0] = 1 /\ \A k \in Nat : f[k] \in Nat \ {0}
  BY <1>1 DEF PowersTo
<1>3. ASSUME NEW k \in Nat PROVE f[k + 1] = 2 * f[k]
  <2>1. PowersTo(powers(k), k) /\ PowersTo(powers(k + 1), k + 1)
    BY <1>1
  <2>2. powers(k)[k] = powers(k + 1)[k]
    BY <2>1, PowersAgree
  <2>3. powers(k + 1)[k + 1] = 2 * powers(k + 1)[k]
    BY <2>1 DEF PowersTo
  <2> QED
    BY <2>2, <2>3
<1> DEFINE Is(g) == g = [k \in Nat |-> IF k = 0 THEN 1 ELSE 2 * g[k - 1]]
<1>4. ASSUME NEW k \in Nat PROVE f[k] = IF k = 0 THEN 1 ELSE 2 * f[k - 1]
  <2>1. CASE k = 0
    BY <2>1, <1>2
  <2>2. CASE k # 0
    <3>1. k - 1 \in Nat /\ k - 1 + 1 = k
      BY <2>2
    <3> QED
      BY <3>1, <1>3, <2>2
  <2> QED
    BY <2>1, <2>2
<1>5. Is(f)
  <2>1. f = [k \in Nat |-> f[k]]
    OBVIOUS
  <2> HIDE DEF f
  <2> QED
    BY <1>4, <2>1
<1>6. Is(Pow2)
  <2> HIDE DEF f
  <2> QED
    BY <1>5 DEF Pow2
<1>7. Pow2[0] = 1 /\ \A k \in Nat : Pow2[k + 1] = 2 * Pow2[k]
  BY <1>6
<1>8. \A k \in Nat : Pow2[k] \in Nat \ {0}
  <2> DEFINE S == {k \in Nat : Pow2[k] \in Nat \ {0}}
  <2>1. 0 \in S /\ \A k \in Nat : k \in S => k + 1 \in S
    BY <1>7
  <2>2. Nat \subseteq S
    <3> HIDE DEF S
    <3> QED
      BY <2>1, Inductive
  <2> QED
    BY <2>2
<1>9. DOMAIN Pow2 = Nat /\ Pow2 = [k \in Nat |-> Pow2[k]]
  BY <1>6
<1> QED
  BY <1>7, <1>8, <1>9

LEMMA Pow2Grows ==
  /\ \A k \in Nat : k < Pow2[k]
  /\ \A j, k \in Nat : j < k => 2 * Pow2[j] <= Pow2[k]
  /\ \A j, k \in Nat : Pow2[j] = Pow2[k] => j = k
  /\ \A j, k \in Nat : Pow2[j] < Pow2[k] => j < k
<1>1. \A k \in Nat : k < Pow2[k]
  <2> DEFINE S == {k \in Nat : k < Pow2[k]}
  <2>1. 0 \in S /\ \A k \in Nat : k \in S => k + 1 \in S
    BY Pow2Def
  <2>2. Nat \subseteq S
    <3> HIDE DEF S
    <3> QED  BY <2>1, Inductive
  <2> QED  BY <2>2
<1>2. ASSUME NEW j \in Nat PROVE \A k \in Nat : j < k => 2 * Pow2[j] <= Pow2[k]
  <2> DEFINE S == {k \in Nat : j < k => 2 * Pow2[j] <= Pow2[k]}
  <2>1. 0 \in S
    OBVIOUS
  <2>2. ASSUME NEW k \in Nat, k \in S PROVE k + 1 \in S
    <3>1. Pow2[k + 1] = 2 * Pow2[k] /\ Pow2[k] \in Nat /\ Pow2[j] \in Nat
      BY Pow2Def
    <3>2. j = k \/ j < k \/ k < j
      OBVIOUS
    <3> QED  BY <2>2, <3>1, <3>2
  <2>3. Nat \subseteq S
    <3> HIDE DEF S
    <3> QED  BY <2>1, <2>2, Inductive
  <2> QED  BY <2>3
<1>3. \A k \in Nat : Pow2[k] \in Nat \ {0}
  BY Pow2Def
<1> QED
  BY <1>1, <1>2, <1>3

LEMMA Pow2Sum ==
  \A j, k \in Nat : Pow2[j + k] = Pow2[j] * Pow2[k]
<1> SUFFICES ASSUME NEW j \in Nat PROVE \A k \in Nat : Pow2[j + k] = Pow2[j] * Pow2[k]
  OBVIOUS
<1> DEFINE S == {k \in Nat : Pow2[j + k] = Pow2[j] * Pow2[k]}
<1>1. 0 \in S
  BY Pow2Def
<1>2. ASSUME NEW k \in Nat, k \in S PROVE k + 1 \in S
  <2>1. PICK a \in Nat : a = Pow2[j]
    BY Pow2Def
  <2>2. PICK b \in Nat : b = Pow2[k]
    BY Pow2Def
  <2>3. Pow2[j + k] = a * b
    BY <1>2, <2>1, <2>2
  <2>4. Pow2[j + (k + 1)] = 2 * (a * b)
    <3>1. j + k \in Nat /\ j + (k + 1) = (j + k) + 1
      OBVIOUS
    <3> QED  BY <2>3, <3>1, Pow2Def
  <2>5. Pow2[k + 1] = 2 * b
    BY <2>2, Pow2Def
  <2>6. 2 * (a * b) = a * (2 * b)
    OBVIOUS
  <2> QED
    BY <2>1, <2>4, <2>5, <2>6
<1>3. Nat \subseteq S
  <2> HIDE DEF S
  <2> QED  BY <1>1, <1>2, Inductive
<1> QED
  BY <1>3

\* The level of the least complete subtree with room for n leaves.
LEMMA LevelOf ==
  ASSUME NEW n \in Nat, n >= 2
  PROVE  \E k \in Nat : k < n /\ Pow2[k] < n /\ n <= Pow2[k + 1]
<1> DEFINE T == {k \in Nat : n <= Pow2[k]}
<1>1. n \in T
  BY Pow2Grows, Pow2Def
<1>2. PICK m \in T : \A j \in T : m <= j
  <2> HIDE DEF T
  <2>1. T \in SUBSET Nat
    BY DEF T
  <2> QED  BY <1>1, <2>1, LeastNumber
<1>3. m # 0 /\ m \in Nat /\ n <= Pow2[m] /\ m <= n
  BY <1>1, <1>2, Pow2Def
<1>4. m - 1 \in Nat /\ m - 1 \notin T /\ m - 1 + 1 = m
  BY <1>2, <1>3
<1>5. Pow2[m - 1] < n
  BY <1>4, Pow2Def
<1> QED
  BY <1>3, <1>4, <1>5

\* Where a range is split.
LEMMA SplitOf ==
  ASSUME NEW n \in Nat, n >= 2
  PROVE  \E k \in Nat : /\ LargestPowerOfTwoLessThan(n) = Pow2[k]
                        /\ Pow2[k] \in Nat \ {0} /\ Pow2[k + 1] = 2 * Pow2[k]
                        /\ Pow2[k] < n /\ n <= 2 * Pow2[k]
<1> DEFINE good(p) == p < n /\ n <= 2 * p
           powers == {Pow2[k] : k \in 0 .. n}
<1>1. PICK k \in Nat : k < n /\ Pow2[k] < n /\ n <= Pow2[k + 1]
  BY LevelOf
<1>2. Pow2[k] \in powers /\ good(Pow2[k]) /\ Pow2[k] \in Nat \ {0} /\ Pow2[k + 1] = 2 * Pow2[k]
  BY <1>1, Pow2Def
<1>3. ASSUME NEW p \in powers, good(p) PROVE p = Pow2[k]
  <2>1. PICK j \in 0 .. n : p = Pow2[j]
    OBVIOUS
  <2>2. j \in Nat /\ Pow2[j] \in Nat
    BY Pow2Def
  <2>3. ~ (j < k) /\ ~ (k < j)
    BY <1>2, <1>3, <2>1, <2>2, Pow2Grows
  <2> QED  BY <2>1, <2>2, <2>3
<1>4. LargestPowerOfTwoLessThan(n) = Pow2[k]
  <2>1. LargestPowerOfTwoLessThan(n) = CHOOSE p \in powers : good(p)
    BY DEF LargestPowerOfTwoLessThan
  <2> HIDE DEF good, powers
  <2> QED  BY <1>2, <1>3, <2>1
<1> QED
  BY <1>1, <1>2, <1>4

LEMMA SplitInside ==
  ASSUME NEW n \in Nat, n >= 2
  PROVE  /\ LargestPowerOfTwoLessThan(n) \in 1 .. (n - 1)
         /\ n - LargestPowerOfTwoLessThan(n) \in 1 .. (n - 1)
BY SplitOf

LEMMA LogOf ==
  \A k \in Nat : IsPowerOfTwo(Pow2[k]) /\ Log2(Pow2[k]) = k
<1> SUFFICES ASSUME NEW k \in Nat PROVE IsPowerOfTwo(Pow2[k]) /\ Log2(Pow2[k]) = k
  OBVIOUS
<1>1. k \in 0 .. Pow2[k]
  BY Pow2Grows, Pow2Def
<1>2. \A j \in 0 .. Pow2[k] : Pow2[j] = Pow2[k] => j = k
  BY Pow2Grows, Pow2Def
<1> QED
  BY <1>1, <1>2 DEF IsPowerOfTwo, Log2

-----------------------------------------------------------------------------
(* Recursion over the ranges of leaves: what is asked of a range is asked of *)
(* the two that it is split into.                                            *)

\* The value at n leaves from s on: given (d.base), or from those of the parts:
\* as their hash, or as a path on the side of a leaf (d.leaf).
Splice(d, f, n, s) ==
  LET split == LargestPowerOfTwoLessThan(n) IN
  IF <<n, s>> \in DOMAIN d.base THEN d.base[<<n, s>>]
  ELSE IF d.hashes THEN HashNode(f[split][s], f[n - split][s + split])
  ELSE IF d.leaf < s + split THEN Append(f[split][s], d.sibling[<<s + split, n - split>>])
  ELSE Append(f[n - split][s + split], d.sibling[<<s, split>>])

IsSplice(d, f, R) == f = [n \in R |-> [s \in Nat |-> Splice(d, f, n, s)]]

Based(d) == \A s \in Nat : <<1, s>> \in DOMAIN d.base

LEMMA SpliceIsLocal ==
  ASSUME NEW d, Based(d), NEW g, NEW h, NEW n \in Nat \ {0}, NEW s \in Nat,
         \A m \in 1 .. (n - 1) : g[m] = h[m]
  PROVE  Splice(d, g, n, s) = Splice(d, h, n, s)
<1>1. CASE n = 1
  BY <1>1 DEF Splice, Based
<1>2. CASE n # 1
  <2>1. /\ LargestPowerOfTwoLessThan(n) \in 1 .. (n - 1)
        /\ n - LargestPowerOfTwoLessThan(n) \in 1 .. (n - 1)
    BY <1>2, SplitInside
  <2>2. /\ g[LargestPowerOfTwoLessThan(n)] = h[LargestPowerOfTwoLessThan(n)]
        /\ g[n - LargestPowerOfTwoLessThan(n)] = h[n - LargestPowerOfTwoLessThan(n)]
    BY <2>1
  <2> QED
    BY <2>2 DEF Splice
<1> QED
  BY <1>1, <1>2

LEMMA SplicesExist ==
  ASSUME NEW d, Based(d)
  PROVE  \A n \in Nat : \E g : IsSplice(d, g, 1 .. n)
<1> DEFINE S == {n \in Nat : \E g : IsSplice(d, g, 1 .. n)}
<1>1. 0 \in S
  <2>1. PICK g : g = [n \in 1 .. 0 |-> 0]
    OBVIOUS
  <2>2. IsSplice(d, g, 1 .. 0)
    BY <2>1 DEF IsSplice
  <2> QED
    BY <2>2
<1>2. ASSUME NEW n \in Nat, n \in S PROVE n + 1 \in S
  <2>1. PICK g : IsSplice(d, g, 1 .. n)
    BY <1>2
  <2>2. PICK h : h = [m \in 1 .. (n + 1) |-> IF m <= n THEN g[m] ELSE [s \in Nat |-> Splice(d, g, n + 1, s)]]
    OBVIOUS
  <2>3. \A m \in 1 .. n : g[m] = h[m]
    BY <2>2
  <2>4. ASSUME NEW m \in 1 .. (n + 1), NEW s \in Nat PROVE Splice(d, g, m, s) = Splice(d, h, m, s)
    <3>1. m \in Nat \ {0} /\ \A i \in 1 .. (m - 1) : g[i] = h[i]
      BY <2>3
    <3> QED
      BY <3>1, SpliceIsLocal
  <2>5. ASSUME NEW m \in 1 .. (n + 1) PROVE h[m] = [s \in Nat |-> Splice(d, h, m, s)]
    <3>1. h[m] = [s \in Nat |-> Splice(d, g, m, s)]
      <4>1. CASE m <= n
        BY <2>1, <2>3, <4>1 DEF IsSplice
      <4>2. CASE ~ (m <= n)
        <5>1. m = n + 1
          BY <4>2
        <5> QED
          BY <2>2, <5>1
      <4> QED
        BY <4>1, <4>2
    <3> QED
      BY <2>4, <3>1
  <2>6. IsSplice(d, h, 1 .. (n + 1))
    <3>1. h = [m \in 1 .. (n + 1) |-> h[m]]
      BY <2>2
    <3> QED
      BY <2>5, <3>1, Zenon DEF IsSplice
  <2> QED
    BY <2>6
<1>3. Nat \subseteq S
  <2> HIDE DEF S
  <2> QED
    BY <1>1, <1>2, Inductive
<1> QED
  BY <1>3

LEMMA SplicesAgree ==
  ASSUME NEW d, Based(d), NEW n \in Nat, NEW m \in Nat, NEW g, NEW h,
         IsSplice(d, g, 1 .. n), IsSplice(d, h, 1 .. m),
         NEW k \in Nat \ {0}, k <= n, k <= m
  PROVE  g[k] = h[k]
<1> DEFINE S == {i \in Nat : i # 0 /\ i <= n /\ i <= m => g[i] = h[i]}
<1>1. ASSUME NEW i \in Nat, \A j \in Nat : j < i => j \in S PROVE i \in S
  <2> SUFFICES ASSUME i # 0, i <= n, i <= m PROVE g[i] = h[i]
    OBVIOUS
  <2>1. \A j \in 1 .. (i - 1) : g[j] = h[j]
    BY <1>1
  <2>2. \A s \in Nat : Splice(d, g, i, s) = Splice(d, h, i, s)
    BY <2>1, SpliceIsLocal
  <2>3. i \in 1 .. n /\ i \in 1 .. m
    OBVIOUS
  <2>4. g[i] = [s \in Nat |-> Splice(d, g, i, s)] /\ h[i] = [s \in Nat |-> Splice(d, h, i, s)]
    BY <2>3, Zenon DEF IsSplice
  <2> QED
    BY <2>2, <2>4
<1>2. Nat \subseteq S
  <2> HIDE DEF S
  <2> QED
    BY <1>1, CompletelyInductive
<1> QED
  BY <1>2

LEMMA SpliceExists ==
  ASSUME NEW d, Based(d)
  PROVE  \E f : IsSplice(d, f, Nat \ {0})
<1> DEFINE upTo(n) == CHOOSE g : IsSplice(d, g, 1 .. n)
<1>1. \A n \in Nat : IsSplice(d, upTo(n), 1 .. n)
  BY SplicesExist
<1> HIDE DEF upTo
<1>2. PICK f : f = [n \in Nat \ {0} |-> upTo(n)[n]]
  OBVIOUS
<1>3. ASSUME NEW n \in Nat \ {0} PROVE f[n] = [s \in Nat |-> Splice(d, f, n, s)]
  <2>1. n \in 1 .. n /\ n \in Nat
    OBVIOUS
  <2>2. f[n] = [s \in Nat |-> Splice(d, upTo(n), n, s)]
    <3>1. upTo(n)[n] = [s \in Nat |-> Splice(d, upTo(n), n, s)]
      BY <1>1, <2>1, Zenon DEF IsSplice
    <3> QED
      BY <1>2, <3>1
  <2>3. ASSUME NEW m \in 1 .. (n - 1) PROVE upTo(n)[m] = f[m]
    <3>1. m \in Nat \ {0} /\ m <= n /\ m <= m
      OBVIOUS
    <3>2. upTo(n)[m] = upTo(m)[m]
      BY <1>1, <3>1, SplicesAgree
    <3> QED
      BY <1>2, <3>1, <3>2
  <2>4. \A s \in Nat : Splice(d, upTo(n), n, s) = Splice(d, f, n, s)
    BY <2>3, SpliceIsLocal
  <2> QED
    BY <2>2, <2>4
<1>4. f = [n \in Nat \ {0} |-> f[n]]
  BY <1>2
<1>5. IsSplice(d, f, Nat \ {0})
  BY <1>3, <1>4, Zenon DEF IsSplice
<1> QED
  BY <1>5

\* The reference: the hash of n leaves from s on.
RangeHash(leaves, n, s) == RangeHashes(leaves)[n][s]

LEMMA RangeHashesDef ==
  ASSUME NEW leaves, NEW n \in Nat \ {0}, NEW s \in Nat
  PROVE  RangeHash(leaves, n, s) =
           IF n = 1 THEN HashLeaf(leaves[s + 1])
           ELSE HashNode(RangeHash(leaves, LargestPowerOfTwoLessThan(n), s),
                         RangeHash(leaves, n - LargestPowerOfTwoLessThan(n), s + LargestPowerOfTwoLessThan(n)))
<1> DEFINE Value(g, m, t) ==
             IF m = 1 THEN HashLeaf(leaves[t + 1])
             ELSE LET split == LargestPowerOfTwoLessThan(m) IN HashNode(g[split][t], g[m - split][t + split])
           Is(g) == g = [m \in Nat \ {0} |-> [t \in Nat |-> Value(g, m, t)]]
<1>1. PICK d : d = [base |-> [x \in {1} \X Nat |-> HashLeaf(leaves[x[2] + 1])],
                    hashes |-> TRUE, leaf |-> 0, sibling |-> 0]
  OBVIOUS
<1>2. d.base = [x \in {1} \X Nat |-> HashLeaf(leaves[x[2] + 1])] /\ d.hashes = TRUE
  BY <1>1
<1>3. Based(d)
  BY <1>2 DEF Based
<1>4. PICK f : IsSplice(d, f, Nat \ {0})
  BY <1>3, SpliceExists
<1>5. ASSUME NEW m \in Nat \ {0}, NEW t \in Nat PROVE Splice(d, f, m, t) = Value(f, m, t)
  <2>1. CASE m = 1
    <3>1. <<m, t>> \in DOMAIN d.base /\ d.base[<<m, t>>] = HashLeaf(leaves[t + 1])
      BY <1>2, <2>1
    <3> QED
      BY <2>1, <3>1 DEF Splice
  <2>2. CASE m # 1
    <3>1. <<m, t>> \notin DOMAIN d.base
      BY <1>2, <2>2
    <3> QED
      BY <1>2, <2>2, <3>1 DEF Splice
  <2> QED
    BY <2>1, <2>2
<1>6. Is(f)
  <2> HIDE DEF Value
  <2> QED
    BY <1>4, <1>5 DEF IsSplice
<1>7. RangeHashes(leaves) = CHOOSE g : Is(g)
  BY DEF RangeHashes
<1>8. Is(RangeHashes(leaves))
  <2> HIDE DEF Is
  <2> QED
    BY <1>6, <1>7
<1>9. RangeHashes(leaves)[n][s] = Value(RangeHashes(leaves), n, s)
  <2> HIDE DEF Value
  <2> QED
    BY <1>8
<1> QED
  BY <1>9 DEF RangeHash

\* The code: the root of a range, from the stored nodes.
LEMMA SubtreeRootDef ==
  ASSUME NEW stored, NEW n \in Nat \ {0}, NEW s \in Nat
  PROVE  SubtreeRoot(stored, s, n) =
           IF IsPowerOfTwo(n) /\ s % n = 0 THEN stored[<<Log2(n), s \div n>>]
           ELSE HashNode(SubtreeRoot(stored, s, LargestPowerOfTwoLessThan(n)),
                         SubtreeRoot(stored, s + LargestPowerOfTwoLessThan(n), n - LargestPowerOfTwoLessThan(n)))
<1> DEFINE aligned(m, t) == IsPowerOfTwo(m) /\ t % m = 0
           Value(g, m, t) ==
             IF aligned(m, t) THEN stored[<<Log2(m), t \div m>>]
             ELSE LET split == LargestPowerOfTwoLessThan(m) IN HashNode(g[split][t], g[m - split][t + split])
           Is(g) == g = [m \in Nat \ {0} |-> [t \in Nat |-> Value(g, m, t)]]
           ranges == {x \in (Nat \ {0}) \X Nat : aligned(x[1], x[2])}
<1>1. PICK d : d = [base |-> [x \in ranges |-> stored[<<Log2(x[1]), x[2] \div x[1]>>]],
                    hashes |-> TRUE, leaf |-> 0, sibling |-> 0]
  OBVIOUS
<1>2. d.base = [x \in ranges |-> stored[<<Log2(x[1]), x[2] \div x[1]>>]] /\ d.hashes = TRUE
  BY <1>1
<1>3. Based(d)
  <2>1. IsPowerOfTwo(1)
    BY Pow2Def DEF IsPowerOfTwo
  <2>2. \A t \in Nat : t % 1 = 0
    OBVIOUS
  <2>3. \A t \in Nat : <<1, t>> \in ranges
    BY <2>1, <2>2
  <2> HIDE DEF ranges
  <2> QED
    BY <1>2, <2>3 DEF Based
<1>4. PICK f : IsSplice(d, f, Nat \ {0})
  BY <1>3, SpliceExists
<1>5. ASSUME NEW m \in Nat \ {0}, NEW t \in Nat PROVE Splice(d, f, m, t) = Value(f, m, t)
  <2> HIDE DEF aligned
  <2>1. CASE aligned(m, t)
    <3>1. <<m, t>> \in ranges
      BY <2>1
    <3>2. <<m, t>> \in DOMAIN d.base /\ d.base[<<m, t>>] = stored[<<Log2(m), t \div m>>]
      <4> HIDE DEF ranges
      <4> QED
        BY <1>2, <3>1
    <3> QED
      BY <2>1, <3>2 DEF Splice
  <2>2. CASE ~ aligned(m, t)
    <3>1. <<m, t>> \notin DOMAIN d.base
      BY <1>2, <2>2
    <3> QED
      BY <1>2, <2>2, <3>1 DEF Splice
  <2> QED
    BY <2>1, <2>2
<1>6. Is(f)
  <2> HIDE DEF Value
  <2> QED
    BY <1>4, <1>5 DEF IsSplice
<1> DEFINE root == CHOOSE g : Is(g)
<1>7. \A m, t : SubtreeRoot(stored, t, m) = root[m][t]
  BY DEF SubtreeRoot
<1>8. Is(root)
  <2> HIDE DEF Is
  <2> QED
    BY <1>6
<1> HIDE DEF root
<1>9. root[n][s] = Value(root, n, s)
  <2> HIDE DEF Value
  <2> QED
    BY <1>8
<1> QED
  BY <1>7, <1>9

PathValue(stored, leaf, paths, n, s) ==
  LET split == LargestPowerOfTwoLessThan(n) IN
  IF n = 1 THEN << >>
  ELSE IF leaf < s + split
    THEN Append(paths[split][s], SubtreeRoot(stored, s + split, n - split))
    ELSE Append(paths[n - split][s + split], SubtreeRoot(stored, s, split))

\* The audit paths of a leaf in every range.
IsPaths(stored, leaf, paths) ==
  paths = [n \in Nat \ {0} |-> [s \in Nat |-> PathValue(stored, leaf, paths, n, s)]]

LEMMA InclusionProofDef ==
  ASSUME NEW stored, NEW leaf
  PROVE  \E paths : IsPaths(stored, leaf, paths) /\ \A n : InclusionProof(stored, leaf, n) = paths[n][0]
<1>1. PICK d : d = [base |-> [x \in {1} \X Nat |-> << >>], hashes |-> FALSE, leaf |-> leaf,
                    sibling |-> [x \in Nat \X (Nat \ {0}) |-> SubtreeRoot(stored, x[1], x[2])]]
  OBVIOUS
<1>2. /\ d.base = [x \in {1} \X Nat |-> << >>] /\ d.hashes = FALSE /\ d.leaf = leaf
      /\ d.sibling = [x \in Nat \X (Nat \ {0}) |-> SubtreeRoot(stored, x[1], x[2])]
  BY <1>1
<1>3. Based(d)
  BY <1>2 DEF Based
<1>4. PICK f : IsSplice(d, f, Nat \ {0})
  BY <1>3, SpliceExists
<1>5. ASSUME NEW m \in Nat \ {0}, NEW t \in Nat PROVE Splice(d, f, m, t) = PathValue(stored, leaf, f, m, t)
  <2>1. CASE m = 1
    <3>1. <<m, t>> \in DOMAIN d.base /\ d.base[<<m, t>>] = << >>
      BY <1>2, <2>1
    <3> QED
      BY <2>1, <3>1 DEF Splice, PathValue
  <2>2. CASE m # 1
    <3>1. <<m, t>> \notin DOMAIN d.base
      BY <1>2, <2>2
    <3>2. PICK split \in Nat \ {0} : split = LargestPowerOfTwoLessThan(m) /\ m - split \in Nat \ {0}
      BY <2>2, SplitInside
    <3>3. /\ d.sibling[<<t + split, m - split>>] = SubtreeRoot(stored, t + split, m - split)
          /\ d.sibling[<<t, split>>] = SubtreeRoot(stored, t, split)
      BY <1>2, <3>2
    <3> QED
      BY <1>2, <2>2, <3>1, <3>2, <3>3 DEF Splice, PathValue
  <2> QED
    BY <2>1, <2>2
<1> DEFINE Is(g) == IsPaths(stored, leaf, g)
           path == CHOOSE g : Is(g)
<1>6. Is(f)
  BY <1>4, <1>5 DEF IsSplice, IsPaths
<1>7. \A n : InclusionProof(stored, leaf, n) = path[n][0]
  BY DEF InclusionProof, IsPaths, PathValue
<1>8. Is(path)
  <2> HIDE DEF Is
  <2> QED
    BY <1>6
<1> QED
  BY <1>7, <1>8

LEMMA PathsAre ==
  ASSUME NEW stored, NEW leaf, NEW paths, IsPaths(stored, leaf, paths), NEW n \in Nat \ {0}, NEW s \in Nat
  PROVE  paths[n][s] = PathValue(stored, leaf, paths, n, s)
BY DEF IsPaths

-----------------------------------------------------------------------------
(* The hash of a range is of its leaves only *)

LEMMA RangeSplits ==
  ASSUME NEW leaves, NEW n \in Nat, n >= 2, NEW s \in Nat, NEW p, p = LargestPowerOfTwoLessThan(n)
  PROVE  RangeHash(leaves, n, s) = HashNode(RangeHash(leaves, p, s), RangeHash(leaves, n - p, s + p))
<1>1. n \in Nat \ {0} /\ n # 1
  OBVIOUS
<1>2. RangeHash(leaves, n, s) =
        HashNode(RangeHash(leaves, LargestPowerOfTwoLessThan(n), s),
                 RangeHash(leaves, n - LargestPowerOfTwoLessThan(n), s + LargestPowerOfTwoLessThan(n)))
  BY <1>1, RangeHashesDef
<1> QED
  BY <1>2

LEMMA LeafHash ==
  ASSUME NEW leaves, NEW s \in Nat
  PROVE  RangeHash(leaves, 1, s) = HashLeaf(leaves[s + 1])
BY RangeHashesDef

SameLeaves(k, a, l, b, n) == \A i \in 1 .. n : k[a + i] = l[b + i]

LEMMA RangeIsOfItsLeaves ==
  ASSUME NEW k, NEW l, NEW size \in Nat \ {0}, NEW a \in Nat, NEW b \in Nat,
         SameLeaves(k, a, l, b, size)
  PROVE  RangeHash(k, size, a) = RangeHash(l, size, b)
<1> DEFINE Same(n, s, t) == \A i \in 1 .. n : k[s + i] = l[t + i]
           S == {n \in Nat : n # 0 => \A s, t \in Nat : Same(n, s, t) => RangeHash(k, n, s) = RangeHash(l, n, t)}
<1>1. ASSUME NEW n \in Nat, \A m \in Nat : m < n => m \in S PROVE n \in S
  <2> SUFFICES ASSUME n # 0, NEW s \in Nat, NEW t \in Nat, Same(n, s, t)
               PROVE  RangeHash(k, n, s) = RangeHash(l, n, t)
    OBVIOUS
  <2>1. CASE n = 1
    <3>1. k[s + 1] = l[t + 1]
      BY <2>1
    <3>2. RangeHash(k, n, s) = HashLeaf(k[s + 1]) /\ RangeHash(l, n, t) = HashLeaf(l[t + 1])
      BY <2>1, RangeHashesDef
    <3> QED
      BY <3>1, <3>2
  <2>2. CASE n # 1
    <3>1. PICK p \in Nat : p = LargestPowerOfTwoLessThan(n) /\ p \in 1 .. (n - 1) /\ n - p \in 1 .. (n - 1)
      BY <2>2, SplitInside
    <3>2. n \in Nat \ {0} /\ p \in Nat \ {0} /\ n - p \in Nat \ {0} /\ s + p \in Nat /\ t + p \in Nat
          /\ p < n /\ n - p < n
      BY <3>1
    <3> n >= 2
      BY <2>2
    <3>3. /\ RangeHash(k, n, s) = HashNode(RangeHash(k, p, s), RangeHash(k, n - p, s + p))
          /\ RangeHash(l, n, t) = HashNode(RangeHash(l, p, t), RangeHash(l, n - p, t + p))
      BY <3>1, RangeSplits
    <3>4. Same(p, s, t)
      BY <3>1
    <3>5. Same(n - p, s + p, t + p)
      <4> SUFFICES ASSUME NEW i \in 1 .. (n - p) PROVE k[(s + p) + i] = l[(t + p) + i]
        OBVIOUS
      <4>1. p + i \in 1 .. n /\ (s + p) + i = s + (p + i) /\ (t + p) + i = t + (p + i)
        BY <3>1
      <4> QED
        BY <4>1
    <3>6. RangeHash(k, p, s) = RangeHash(l, p, t)
      <4> HIDE DEF Same
      <4> QED
        BY <1>1, <3>2, <3>4
    <3>7. RangeHash(k, n - p, s + p) = RangeHash(l, n - p, t + p)
      <4> HIDE DEF Same
      <4> QED
        BY <1>1, <3>2, <3>5
    <3> QED
      BY <3>3, <3>6, <3>7
  <2> QED
    BY <2>1, <2>2
<1>2. Nat \subseteq S
  <2> HIDE DEF S
  <2> QED
    BY <1>1, CompletelyInductive
<1>3. size \in S /\ Same(size, a, b)
  BY <1>2 DEF SameLeaves
<1> QED
  BY <1>3

-----------------------------------------------------------------------------
(* The nodes of complete subtrees *)

\* The number of complete subtrees on each level of a tree with n leaves.
Widths(n) == {w \in [Nat -> Nat] : w[0] = n /\ \A k \in Nat : w[k + 1] = w[k] \div 2}

CompleteNodes(w) == {x \in Nat \X Nat : x[2] < w[x[1]]}

LEMMA Products ==
  /\ \A a, b \in Nat \ {0} : a * b \in Nat \ {0} /\ a <= a * b /\ b <= a * b
  /\ \A a \in Nat, b \in Nat \ {0} : a * b \in Nat
OBVIOUS

LEMMA WidthIs ==
  ASSUME NEW n \in Nat, NEW w \in Widths(n)
  PROVE  \A k, j \in Nat : j < w[k] <=> (j + 1) * Pow2[k] <= n
<1> DEFINE S == {k \in Nat : \A j \in Nat : j < w[k] <=> (j + 1) * Pow2[k] <= n}
<1>1. 0 \in S
  <2>1. w[0] = n /\ Pow2[0] = 1
    BY Pow2Def DEF Widths
  <2> QED
    BY <2>1
<1>2. ASSUME NEW k \in Nat, k \in S PROVE k + 1 \in S
  <2> SUFFICES ASSUME NEW j \in Nat PROVE j < w[k + 1] <=> (j + 1) * Pow2[k + 1] <= n
    OBVIOUS
  <2>1. w[k] \in Nat /\ w[k + 1] = w[k] \div 2
    BY DEF Widths
  <2>2. PICK p \in Nat : p = Pow2[k] /\ Pow2[k + 1] = 2 * p
    BY Pow2Def
  <2>3. j < w[k + 1] <=> 2 * j + 1 < w[k]
    BY <2>1
  <2>4. 2 * j + 1 < w[k] <=> (2 * j + 1 + 1) * p <= n
    BY <1>2, <2>2
  <2>5. (2 * j + 1 + 1) * p = (j + 1) * (2 * p)
    OBVIOUS
  <2> QED
    BY <2>2, <2>3, <2>4, <2>5
<1>3. Nat \subseteq S
  <2> HIDE DEF S
  <2> QED
    BY <1>1, <1>2, Inductive
<1> QED
  BY <1>3

LEMMA SplitOfPower ==
  ASSUME NEW k \in Nat
  PROVE  LargestPowerOfTwoLessThan(Pow2[k + 1]) = Pow2[k]
<1>1. Pow2[k + 1] \in Nat /\ Pow2[k + 1] >= 2
  <2>1. Pow2[k] \in Nat \ {0} /\ Pow2[k + 1] = 2 * Pow2[k]
    BY Pow2Def
  <2> QED
    BY <2>1
<1>2. PICK m \in Nat : /\ LargestPowerOfTwoLessThan(Pow2[k + 1]) = Pow2[m]
                       /\ Pow2[m] < Pow2[k + 1] /\ Pow2[k + 1] <= 2 * Pow2[m]
  BY <1>1, SplitOf
<1>3. m < k + 1
  BY <1>2, Pow2Grows
<1>4. ~ (m < k)
  <2> SUFFICES ASSUME m < k PROVE FALSE
    OBVIOUS
  <2>1. 2 * Pow2[m] <= Pow2[k] /\ Pow2[k + 1] = 2 * Pow2[k] /\ Pow2[k] \in Nat \ {0}
    BY Pow2Grows, Pow2Def
  <2> QED
    BY <1>2, <2>1, Pow2Def
<1>5. m = k
  BY <1>3, <1>4
<1> QED
  BY <1>2, <1>5

\* Nodes that are the leaves of a sequence and, above them, hashes of the two below.
HashesOf(stored, leaves, n, w) ==
  /\ w \in Widths(n)
  /\ stored = [x \in CompleteNodes(w) |-> stored[x]]
  /\ \A j \in Nat : j < n => stored[<<0, j>>] = HashLeaf(leaves[j + 1])
  /\ \A k, j \in Nat : j < w[k + 1] =>
       stored[<<k + 1, j>>] = HashNode(stored[<<k, 2 * j>>], stored[<<k, 2 * j + 1>>])

\* Each stored node hashes the leaves below it.
RangesAreStored(stored, leaves, w) ==
  \A k, j \in Nat : j < w[k] => stored[<<k, j>>] = RangeHash(leaves, Pow2[k], j * Pow2[k])

LEMMA StoredNodeIs ==
  ASSUME NEW stored, NEW leaves, NEW n \in Nat, NEW w, HashesOf(stored, leaves, n, w)
  PROVE  RangesAreStored(stored, leaves, w)
<1> DEFINE S == {k \in Nat : \A j \in Nat : j < w[k] => stored[<<k, j>>] = RangeHash(leaves, Pow2[k], j * Pow2[k])}
<1>0. w \in Widths(n)
  BY DEF HashesOf
<1>1. 0 \in S
  <2> SUFFICES ASSUME NEW j \in Nat, j < w[0] PROVE stored[<<0, j>>] = RangeHash(leaves, Pow2[0], j * Pow2[0])
    OBVIOUS
  <2>1. w[0] = n /\ Pow2[0] = 1 /\ j * 1 = j
    BY <1>0, Pow2Def DEF Widths
  <2>2. RangeHash(leaves, 1, j) = HashLeaf(leaves[j + 1])
    BY RangeHashesDef
  <2> QED
    BY <2>1, <2>2 DEF HashesOf
<1>2. ASSUME NEW k \in Nat, k \in S PROVE k + 1 \in S
  <2> SUFFICES ASSUME NEW j \in Nat, j < w[k + 1]
               PROVE  stored[<<k + 1, j>>] = RangeHash(leaves, Pow2[k + 1], j * Pow2[k + 1])
    OBVIOUS
  <2>1. PICK p \in Nat \ {0} : p = Pow2[k] /\ Pow2[k + 1] = 2 * p
    BY Pow2Def
  <2>2. w[k] \in Nat /\ w[k + 1] = w[k] \div 2
    BY <1>0 DEF Widths
  <2>3. 2 * j < w[k] /\ 2 * j + 1 < w[k] /\ 2 * j \in Nat /\ 2 * j + 1 \in Nat
    BY <2>2
  <2>4. stored[<<k + 1, j>>] = HashNode(stored[<<k, 2 * j>>], stored[<<k, 2 * j + 1>>])
    BY DEF HashesOf
  <2>5. stored[<<k, 2 * j>>] = RangeHash(leaves, p, (2 * j) * p)
    BY <1>2, <2>1, <2>3
  <2>6. stored[<<k, 2 * j + 1>>] = RangeHash(leaves, p, (2 * j + 1) * p)
    BY <1>2, <2>1, <2>3
  <2>7. (2 * j) * p = j * (2 * p) /\ (2 * j + 1) * p = j * (2 * p) + p /\ 2 * p - p = p
        /\ j * (2 * p) \in Nat /\ 2 * p \in Nat /\ 2 * p >= 2
    BY Products
  <2>8. RangeHash(leaves, 2 * p, j * (2 * p)) =
          HashNode(RangeHash(leaves, p, j * (2 * p)), RangeHash(leaves, p, j * (2 * p) + p))
    <3>1. p = LargestPowerOfTwoLessThan(2 * p)
      BY <2>1, SplitOfPower
    <3>2. PICK q \in Nat : q = 2 * p
      OBVIOUS
    <3>3. PICK s \in Nat : s = j * (2 * p)
      BY <2>7
    <3>4. RangeHash(leaves, q, s) = HashNode(RangeHash(leaves, p, s), RangeHash(leaves, q - p, s + p))
      BY <3>1, <3>2, <2>7, RangeSplits
    <3> QED
      BY <2>7, <3>2, <3>3, <3>4
  <2> QED
    BY <2>1, <2>4, <2>5, <2>6, <2>7, <2>8
<1>3. Nat \subseteq S
  <2> HIDE DEF S
  <2> QED
    BY <1>1, <1>2, Inductive
<1> QED
  BY <1>3 DEF RangesAreStored

LEMMA CompleteSubtreesAre ==
  ASSUME NEW n \in Nat, NEW w \in Widths(n)
  PROVE  CompleteSubtrees(n) = CompleteNodes(w)
<1>1. ASSUME NEW k \in Nat, NEW j \in Nat, (j + 1) * Pow2[k] <= n PROVE k \in 0 .. n /\ j \in 0 .. n
  <2>1. PICK p \in Nat \ {0} : p = Pow2[k] /\ k < p
    BY Pow2Def, Pow2Grows
  <2>2. PICK q \in Nat : q = (j + 1) * p
    BY Products
  <2>3. j + 1 <= q /\ p <= q
    <3>1. j + 1 \in Nat \ {0}
      OBVIOUS
    <3> QED
      BY <2>2, <3>1, Products
  <2>4. q <= n
    BY <1>1, <2>1, <2>2
  <2> QED
    BY <2>1, <2>3, <2>4
<1>2. \A x \in CompleteSubtrees(n) : x \in (0 .. n) \X (0 .. n) /\ (x[2] + 1) * Pow2[x[1]] <= n
  BY DEF CompleteSubtrees
<1>3. \A x \in (0 .. n) \X (0 .. n) : (x[2] + 1) * Pow2[x[1]] <= n => x \in CompleteSubtrees(n)
  BY DEF CompleteSubtrees
<1>4. ASSUME NEW x \in CompleteSubtrees(n) PROVE x \in CompleteNodes(w)
  <2>1. PICK k \in 0 .. n, j \in 0 .. n : x = <<k, j>>
    BY <1>2
  <2>2. (j + 1) * Pow2[k] <= n /\ k \in Nat /\ j \in Nat
    BY <1>2, <2>1
  <2>3. j < w[k]
    BY <2>2, WidthIs
  <2> QED
    BY <2>1, <2>2, <2>3 DEF CompleteNodes
<1>5. ASSUME NEW x \in CompleteNodes(w) PROVE x \in CompleteSubtrees(n)
  <2>1. PICK k \in Nat, j \in Nat : x = <<k, j>> /\ j < w[k]
    BY DEF CompleteNodes
  <2>2. (j + 1) * Pow2[k] <= n
    BY <2>1, WidthIs
  <2>3. k \in 0 .. n /\ j \in 0 .. n
    BY <1>1, <2>2
  <2> QED
    BY <1>3, <2>1, <2>2, <2>3
<1> QED
  BY <1>4, <1>5

LEMMA NodesAreOfTheTree ==
  ASSUME NEW T, NEW leaves \in Seq(T), NEW n \in Nat, n = Len(leaves),
         NEW stored, NEW w, HashesOf(stored, leaves, n, w)
  PROVE  stored = NodesOf(leaves)
<1>0. w \in Widths(n) /\ DOMAIN leaves = 1 .. n
  BY DEF HashesOf
<1>1. CompleteSubtrees(n) = CompleteNodes(w)
  BY <1>0, CompleteSubtreesAre
<1>2. ASSUME NEW x \in CompleteNodes(w)
      PROVE  stored[x] = MTH(SubSeq(leaves, x[2] * Pow2[x[1]] + 1, (x[2] + 1) * Pow2[x[1]]))
  <2>1. PICK k \in Nat, j \in Nat : x = <<k, j>> /\ j < w[k]
    BY DEF CompleteNodes
  <2>2. PICK p \in Nat \ {0} : p = Pow2[k]
    BY Pow2Def
  <2>3. PICK s \in Nat : s = j * p
    BY Products
  <2>4. (j + 1) * p = s + p /\ s + p <= n
    <3>1. (j + 1) * p <= n
      BY <1>0, <2>1, <2>2, WidthIs
    <3>2. (j + 1) * p = j * p + p
      OBVIOUS
    <3> QED
      BY <2>3, <3>1, <3>2
  <2>5. PICK part : part = SubSeq(leaves, s + 1, s + p)
    OBVIOUS
  <2>6. Len(part) = p /\ part # << >> /\ \A i \in 1 .. p : part[0 + i] = leaves[s + i]
    <3>1. s + 1 \in Int /\ s + p \in Int /\ \A i \in (s + 1) .. (s + p) : leaves[i] \in T
      BY <1>0, <2>4
    <3>2. /\ Len(part) = IF s + 1 <= s + p THEN (s + p) - (s + 1) + 1 ELSE 0
          /\ part \in Seq(T)
          /\ \A i \in 1 .. ((s + p) - (s + 1) + 1) : part[i] = leaves[(s + 1) + i - 1]
      <4>1. PICK a \in Int, b \in Int : a = s + 1 /\ b = s + p
        BY <3>1
      <4>2. \A i \in a .. b : leaves[i] \in T
        BY <3>1, <4>1
      <4>3. /\ Len(SubSeq(leaves, a, b)) = IF a <= b THEN b - a + 1 ELSE 0
            /\ SubSeq(leaves, a, b) \in Seq(T)
            /\ \A i \in 1 .. (b - a + 1) : SubSeq(leaves, a, b)[i] = leaves[a + i - 1]
        BY <4>2, SubSeqProperties
      <4>4. part = SubSeq(leaves, a, b)
        BY <2>5, <4>1
      <4> QED
        BY <4>1, <4>3, <4>4
    <3>3. (s + p) - (s + 1) + 1 = p /\ s + 1 <= s + p
      OBVIOUS
    <3>4. Len(part) = p /\ p # 0 /\ part # << >>
      BY <3>2, <3>3
    <3>5. ASSUME NEW i \in 1 .. p PROVE part[0 + i] = leaves[s + i]
      <4>1. 0 + i = i /\ (s + 1) + i - 1 = s + i
        OBVIOUS
      <4>2. part[i] = leaves[(s + 1) + i - 1]
        BY <3>2, <3>3
      <4> QED
        BY <4>1, <4>2
    <3> QED
      BY <3>4, <3>5, Zenon
  <2>7. RangeHash(part, p, 0) = RangeHash(leaves, p, s)
    <3>1. 0 \in Nat /\ SameLeaves(part, 0, leaves, s, p)
      BY <2>6 DEF SameLeaves
    <3> QED
      BY <3>1, RangeIsOfItsLeaves
  <2>8. MTH(part) = RangeHash(leaves, p, s)
    <3>1. MTH(part) = RangeHashes(part)[p][0]
      BY <2>6, Zenon DEF MTH
    <3> QED
      BY <2>7, <3>1, Zenon DEF RangeHash
  <2>9. stored[<<k, j>>] = RangeHash(leaves, p, s)
    <3>1. RangesAreStored(stored, leaves, w)
      BY StoredNodeIs
    <3>2. stored[<<k, j>>] = RangeHash(leaves, Pow2[k], j * Pow2[k])
      BY <2>1, <3>1, Zenon DEF RangesAreStored
    <3> QED
      BY <2>2, <2>3, <3>2
  <2>10. x[1] = k /\ x[2] = j
    BY <2>1
  <2>11. MTH(SubSeq(leaves, j * p + 1, (j + 1) * p)) = MTH(part)
    BY <2>3, <2>4, <2>5
  <2>12. MTH(SubSeq(leaves, x[2] * Pow2[x[1]] + 1, (x[2] + 1) * Pow2[x[1]])) = MTH(part)
    BY <2>2, <2>10, <2>11
  <2> QED
    BY <2>1, <2>8, <2>9, <2>12, Zenon
<1>3. stored = [x \in CompleteNodes(w) |-> stored[x]]
  BY DEF HashesOf
<1> QED
  BY <1>1, <1>2, <1>3 DEF NodesOf

-----------------------------------------------------------------------------
(* The root that the code computes for a range *)

LEMMA Aligned ==
  ASSUME NEW s \in Nat, NEW m \in Nat \ {0}, s % m = 0
  PROVE  s \div m \in Nat /\ s = (s \div m) * m
OBVIOUS

LEMMA SubtreeRootIs ==
  ASSUME NEW stored, NEW leaves, NEW n \in Nat, NEW w, HashesOf(stored, leaves, n, w)
  PROVE  \A m \in Nat \ {0} : \A s \in Nat :
           s + m <= n => SubtreeRoot(stored, s, m) = RangeHash(leaves, m, s)
<1>0. RangesAreStored(stored, leaves, w)
  BY StoredNodeIs
<1> DEFINE S == {m \in Nat : m # 0 => \A s \in Nat :
                   s + m <= n => SubtreeRoot(stored, s, m) = RangeHash(leaves, m, s)}
<1>1. ASSUME NEW m \in Nat, \A i \in Nat : i < m => i \in S PROVE m \in S
  <2> SUFFICES ASSUME m # 0, NEW s \in Nat, s + m <= n
               PROVE  SubtreeRoot(stored, s, m) = RangeHash(leaves, m, s)
    OBVIOUS
  <2>1. CASE IsPowerOfTwo(m) /\ s % m = 0
    <3>1. PICK k \in Nat : m = Pow2[k]
      BY <2>1 DEF IsPowerOfTwo
    <3>2. Log2(m) = k
      BY <3>1, LogOf
    <3>3. PICK j \in Nat : j = s \div m /\ s = j * m
      BY <2>1, Aligned
    <3>4. SubtreeRoot(stored, s, m) = stored[<<k, j>>]
      BY <2>1, <3>2, <3>3, SubtreeRootDef
    <3>5. (j + 1) * m = s + m
      BY <3>3
    <3>6. j < w[k]
      BY <3>1, <3>5, WidthIs DEF HashesOf
    <3>7. stored[<<k, j>>] = RangeHash(leaves, Pow2[k], j * Pow2[k])
      BY <1>0, <3>6, Zenon DEF RangesAreStored
    <3>8. RangeHash(leaves, Pow2[k], j * Pow2[k]) = RangeHash(leaves, m, s)
      BY <3>1, <3>3
    <3> QED
      BY <3>4, <3>7, <3>8
  <2>2. CASE ~ (IsPowerOfTwo(m) /\ s % m = 0)
    <3>1. m >= 2
      <4>1. IsPowerOfTwo(1) /\ s % 1 = 0
        BY Pow2Def DEF IsPowerOfTwo
      <4> QED
        BY <2>2, <4>1
    <3>2. PICK p \in Nat : p = LargestPowerOfTwoLessThan(m) /\ p \in 1 .. (m - 1) /\ m - p \in 1 .. (m - 1)
      BY <3>1, SplitInside
    <3>3. SubtreeRoot(stored, s, m) = HashNode(SubtreeRoot(stored, s, p), SubtreeRoot(stored, s + p, m - p))
      BY <2>2, <3>2, SubtreeRootDef
    <3>4. RangeHash(leaves, m, s) = HashNode(RangeHash(leaves, p, s), RangeHash(leaves, m - p, s + p))
      BY <3>1, <3>2, RangeSplits
    <3>5. SubtreeRoot(stored, s, p) = RangeHash(leaves, p, s)
      <4>1. p \in S /\ p # 0 /\ s + p <= n
        BY <1>1, <3>2
      <4> QED
        BY <4>1
    <3>6. SubtreeRoot(stored, s + p, m - p) = RangeHash(leaves, m - p, s + p)
      <4>1. m - p \in S /\ m - p # 0 /\ s + p \in Nat /\ (s + p) + (m - p) <= n
        BY <1>1, <3>2
      <4> QED
        BY <4>1
    <3> QED
      BY <3>3, <3>4, <3>5, <3>6
  <2> QED
    BY <2>1, <2>2
<1>2. Nat \subseteq S
  <2> HIDE DEF S
  <2> QED
    BY <1>1, CompletelyInductive
<1> QED
  BY <1>2

-----------------------------------------------------------------------------
(* Halving *)

LEMMA QuotientBounds ==
  ASSUME NEW a \in Nat, NEW b \in Nat \ {0}
  PROVE  a \div b \in Nat /\ (a \div b) * b <= a /\ a < (a \div b) * b + b
OBVIOUS

LEMMA LessByAFactor ==
  ASSUME NEW x \in Nat, NEW y \in Nat, NEW b \in Nat \ {0}, x * b < y * b + b
  PROVE  x <= y
<1> SUFFICES ASSUME x >= y + 1 PROVE FALSE
  OBVIOUS
<1>1. PICK d \in Nat : x = (y + 1) + d
  <2>1. x - (y + 1) \in Nat /\ x = (y + 1) + (x - (y + 1))
    OBVIOUS
  <2> QED
    BY <2>1
<1>2. x * b = y * b + b + d * b /\ d * b >= 0
  <2>1. d * b \in Nat /\ y * b \in Nat
    BY Products
  <2>2. ((y + 1) + d) * b = y * b + b + d * b
    OBVIOUS
  <2> QED
    BY <1>1, <2>1, <2>2
<1>3. x * b \in Nat /\ y * b \in Nat /\ d * b \in Nat
  BY Products
<1> QED
  BY <1>2, <1>3

LEMMA Quotient ==
  ASSUME NEW a \in Nat, NEW b \in Nat \ {0}, NEW x \in Nat, x * b <= a, a < x * b + b
  PROVE  a \div b = x
<1>1. PICK y \in Nat : y = a \div b /\ y * b <= a /\ a < y * b + b
  BY QuotientBounds
<1>2. PICK xb \in Nat : xb = x * b
  BY Products
<1>3. PICK yb \in Nat : yb = y * b
  BY Products
<1>4. xb < yb + b /\ yb < xb + b
  BY <1>1, <1>2, <1>3
<1>5. x <= y
  BY <1>2, <1>3, <1>4, LessByAFactor
<1>6. y <= x
  BY <1>2, <1>3, <1>4, LessByAFactor
<1> QED
  BY <1>1, <1>5, <1>6

LEMMA QuotientOfQuotient ==
  ASSUME NEW a \in Nat, NEW b \in Nat \ {0}, NEW c \in Nat \ {0}
  PROVE  (a \div b) \div c = a \div (b * c)
<1>1. PICK x \in Nat : x = a \div b /\ x * b <= a /\ a < x * b + b
  BY QuotientBounds
<1>2. PICK y \in Nat : y = x \div c /\ y * c <= x /\ x < y * c + c
  BY QuotientBounds
<1>3. PICK r \in Nat : x = y * c + r /\ r + 1 <= c
  <2>1. PICK yc \in Nat : yc = y * c
    BY Products
  <2>2. x - yc \in Nat /\ x = yc + (x - yc) /\ (x - yc) + 1 <= c
    BY <1>2, <2>1
  <2> QED
    BY <2>1, <2>2
<1>4. PICK d \in Nat : c = (r + 1) + d
  <2>1. c - (r + 1) \in Nat /\ c = (r + 1) + (c - (r + 1))
    BY <1>3
  <2> QED
    BY <2>1
<1>5. x * b = y * (b * c) + r * b
  BY <1>3
<1>6. b * c = r * b + b + d * b
  BY <1>4
<1>7. b * c \in Nat \ {0} /\ y * (b * c) \in Nat /\ r * b \in Nat /\ d * b \in Nat
  BY Products
<1>8. y * (b * c) <= a /\ a < y * (b * c) + b * c
  BY <1>1, <1>5, <1>6, <1>7
<1>9. a \div (b * c) = y
  BY <1>7, <1>8, Quotient
<1> QED
  BY <1>1, <1>2, <1>9

\* How often a product of a power of two and an odd number is halved.
LEMMA ExtraHalvingsOf ==
  ASSUME NEW q \in Nat, NEW d \in Nat, NEW x \in Nat, x = (2 * q + 1) * Pow2[d]
  PROVE  ExtraHalvings(x) = d /\ (d = 0 => x % 2 = 1) /\ x \div Pow2[1 + d] = q
<1>0. PICK p \in Nat \ {0} : p = Pow2[d] /\ d < p
  BY Pow2Def, Pow2Grows
<1>1. x > 0 /\ d \in 0 .. x
  <2>1. p <= x /\ x \in Nat
    <3>1. 2 * q + 1 \in Nat \ {0}
      OBVIOUS
    <3> QED
      BY <1>0, <3>1, Products
  <2> QED
    BY <1>0, <2>1
<1>2. (x \div Pow2[d]) % 2 = 1
  <2>1. x \div p = 2 * q + 1
    <3>1. 2 * q + 1 \in Nat /\ (2 * q + 1) * p <= x /\ x < (2 * q + 1) * p + p
      BY <1>0
    <3> QED
      BY <3>1, Quotient
  <2>2. (2 * q + 1) % 2 = 1
    OBVIOUS
  <2> QED
    BY <1>0, <2>1, <2>2
<1>3. ASSUME NEW j \in 0 .. (d - 1) PROVE (x \div Pow2[j]) % 2 = 0
  <2>1. j \in Nat /\ d - 1 - j \in Nat /\ d = j + ((d - 1 - j) + 1)
    OBVIOUS
  <2>2. PICK a \in Nat \ {0} : a = Pow2[j]
    BY <2>1, Pow2Def
  <2>3. PICK b \in Nat \ {0} : b = Pow2[d - 1 - j] /\ Pow2[(d - 1 - j) + 1] = 2 * b
    BY <2>1, Pow2Def
  <2>4. Pow2[d] = a * (2 * b)
    BY <2>1, <2>2, <2>3, Pow2Sum
  <2>5. PICK y \in Nat : y = (2 * q + 1) * b
    BY Products
  <2>6. x = (2 * y) * a
    <3>1. (2 * q + 1) * (a * (2 * b)) = (2 * ((2 * q + 1) * b)) * a
      OBVIOUS
    <3> QED
      BY <2>4, <2>5, <3>1
  <2>7. x \div a = 2 * y
    <3>1. 2 * y \in Nat /\ (2 * y) * a <= x /\ x < (2 * y) * a + a
      BY <2>6
    <3> QED
      BY <3>1, Quotient
  <2>8. (2 * y) % 2 = 0
    OBVIOUS
  <2> QED
    BY <2>2, <2>7, <2>8
<1> DEFINE Odd(k) == (x \div Pow2[k]) % 2 = 1
           Even(k) == (x \div Pow2[k]) % 2 = 0
           Good(k) == (x = 0 => k = 0) /\ (x > 0 => Odd(k) /\ \A j \in 0 .. (k - 1) : Even(j))
<1>4. Good(d)
  BY <1>1, <1>2, <1>3
<1>5. \A k : ~ (Odd(k) /\ Even(k))
  OBVIOUS
<1>6. ASSUME NEW k \in 0 .. x, Good(k) PROVE k = d
  <2>1. Odd(k) /\ (\A j \in 0 .. (k - 1) : Even(j)) /\ Odd(d) /\ (\A j \in 0 .. (d - 1) : Even(j))
    BY <1>1, <1>4, <1>6
  <2>2. ~ (k < d)
    <3> HIDE DEF Odd, Even
    <3> QED
      BY <1>5, <2>1
  <2>3. ~ (d < k)
    <3> HIDE DEF Odd, Even
    <3> QED
      BY <1>5, <2>1
  <2> QED
    BY <2>2, <2>3
<1>7. ExtraHalvings(x) = d
  <2>1. ExtraHalvings(x) = CHOOSE k \in 0 .. x : Good(k)
    BY DEF ExtraHalvings
  <2> HIDE DEF Good
  <2> QED
    BY <1>1, <1>4, <1>6, <2>1
<1>8. d = 0 => x % 2 = 1
  <2> SUFFICES ASSUME d = 0 PROVE x % 2 = 1
    OBVIOUS
  <2>1. x = 2 * q + 1
    BY Pow2Def
  <2> QED
    BY <2>1
<1>9. x \div Pow2[1 + d] = q
  <2>1. Pow2[1 + d] = 2 * p /\ 2 * p \in Nat \ {0}
    BY <1>0, Pow2Def
  <2>2. x = q * (2 * p) + p /\ q * (2 * p) \in Nat
    <3>1. (2 * q + 1) * p = q * (2 * p) + p
      OBVIOUS
    <3> QED
      BY <1>0, <2>1, <3>1, Products
  <2>3. q * (2 * p) <= x /\ x < q * (2 * p) + 2 * p
    BY <2>2
  <2> QED
    BY <2>1, <2>3, Quotient
<1> QED
  BY <1>7, <1>8, <1>9

-----------------------------------------------------------------------------
(* The verifier climbs the ranges of an audit path *)

\* The n leaves from s on are the q-th range of level c in a tree with size
\* leaves: a complete subtree, or what there is of the last one.
IsRange(n, s, c, q, size) ==
  /\ size \in Nat /\ n \in Nat \ {0} /\ s \in Nat /\ c \in Nat /\ q \in Nat
  /\ n <= Pow2[c] /\ (c # 0 => Pow2[c - 1] < n)
  /\ s = q * Pow2[c]
  /\ s + n <= size
  /\ s + n = size \/ n = Pow2[c]

Climb(rounds, path, start) ==
  rounds[0] = start /\ \A k \in 1 .. Len(path) : rounds[k] = VerifierRound(rounds[k - 1], path[k])

\* After m rounds the verifier is at a range, and it has not been at the root.
Reaches(rounds, m, leaves, n, s, c, q, size) ==
  /\ rounds[m] = [node |-> RangeHash(leaves, n, s), index |-> q, last |-> (size - 1) \div Pow2[c]]
  /\ \A j \in 0 .. (m - 1) : rounds[j].last # 0

\* The left one of two ranges is complete, and not the last of its level.
LEMMA LeftRange ==
  ASSUME NEW size, NEW n, NEW s, NEW c, NEW q, IsRange(n, s, c, q, size), n >= 2
  PROVE  /\ c # 0 /\ c - 1 \in Nat /\ LargestPowerOfTwoLessThan(n) = Pow2[c - 1]
         /\ Pow2[c] = 2 * Pow2[c - 1] /\ Pow2[c - 1] \in Nat \ {0}
         /\ Pow2[c - 1] < n /\ n <= 2 * Pow2[c - 1]
         /\ s = (2 * q) * Pow2[c - 1] /\ s + Pow2[c - 1] < size
         /\ IsRange(Pow2[c - 1], s, c - 1, 2 * q, size)
<1>0. size \in Nat /\ n \in Nat \ {0} /\ s \in Nat /\ c \in Nat /\ q \in Nat
  BY DEF IsRange
<1> USE <1>0
<1>1. c # 0
  BY Pow2Def DEF IsRange
<1>2. PICK b \in Nat : b = c - 1 /\ c = b + 1
  BY <1>1
<1>3. PICK p \in Nat \ {0} : p = Pow2[b] /\ Pow2[c] = 2 * p
  BY <1>2, Pow2Def
<1>4. p < n /\ n <= 2 * p
  BY <1>1, <1>2, <1>3 DEF IsRange
<1>5. LargestPowerOfTwoLessThan(n) = p
  <2>1. PICK k \in Nat : /\ LargestPowerOfTwoLessThan(n) = Pow2[k] /\ Pow2[k] \in Nat
                         /\ Pow2[k] < n /\ n <= 2 * Pow2[k]
    BY SplitOf
  <2>2. ~ (k < b) /\ ~ (b < k)
    BY <1>3, <1>4, <2>1, Pow2Grows
  <2>3. k = b
    BY <2>2
  <2> QED
    BY <1>3, <2>1, <2>3
<1>6. s = (2 * q) * p /\ s + n <= size
  <2>1. q * (2 * p) = (2 * q) * p
    OBVIOUS
  <2> QED
    BY <1>3, <2>1 DEF IsRange
<1>7. b # 0 => Pow2[b - 1] < p
  <2> SUFFICES ASSUME b # 0 PROVE Pow2[b - 1] < p
    OBVIOUS
  <2>1. b - 1 \in Nat /\ b = (b - 1) + 1
    OBVIOUS
  <2>2. Pow2[b - 1] \in Nat \ {0} /\ Pow2[(b - 1) + 1] = 2 * Pow2[b - 1]
    BY <2>1, Pow2Def
  <2> QED
    BY <1>3, <2>1, <2>2
<1>8. IsRange(p, s, b, 2 * q, size)
  BY <1>3, <1>4, <1>6, <1>7 DEF IsRange
<1> QED
  BY <1>1, <1>2, <1>3, <1>4, <1>5, <1>6, <1>8

LEMMA LeftRound ==
  ASSUME NEW size, NEW n, NEW s, NEW c, NEW q, IsRange(n, s, c, q, size), n >= 2,
         NEW leaves, NEW rounds, NEW m \in Nat, NEW p, p = Pow2[c - 1],
         Reaches(rounds, m, leaves, p, s, c - 1, 2 * q, size),
         rounds[m + 1] = VerifierRound(rounds[m], RangeHash(leaves, n - p, s + p))
  PROVE  Reaches(rounds, m + 1, leaves, n, s, c, q, size)
<1>0. size \in Nat /\ n \in Nat \ {0} /\ s \in Nat /\ c \in Nat /\ q \in Nat
  BY DEF IsRange
<1> USE <1>0
<1>1. /\ p = LargestPowerOfTwoLessThan(n) /\ p \in Nat \ {0} /\ Pow2[c] = 2 * p
      /\ s = (2 * q) * p /\ s + p < size
  BY LeftRange
<1>2. PICK last \in Nat : last = (size - 1) \div p
  <2>1. size - 1 \in Nat
    BY <1>1
  <2> QED
    BY <1>1, <2>1, QuotientBounds
<1>3. last > 2 * q
  <2>1. size - 1 \in Nat /\ (2 * q + 1) * p <= size - 1
    <3>1. (2 * q + 1) * p = (2 * q) * p + p
      BY <1>1
    <3> QED
      BY <1>1, <3>1
  <2>2. (size - 1) < last * p + p
    BY <1>1, <1>2, <2>1, QuotientBounds
  <2>3. (2 * q + 1) * p < last * p + p
    <3>1. PICK x \in Nat, y \in Nat : x = (2 * q + 1) * p /\ y = last * p
      BY <1>1, Products
    <3> QED
      BY <1>1, <2>1, <2>2, <3>1
  <2>4. 2 * q + 1 <= last
    BY <1>1, <2>3, LessByAFactor
  <2> QED
    BY <2>4
<1>4. rounds[m] = [node |-> RangeHash(leaves, p, s), index |-> 2 * q, last |-> last]
  BY <1>1, <1>2 DEF Reaches
<1>5. rounds[m].index = 2 * q /\ rounds[m].last = last /\ rounds[m].node = RangeHash(leaves, p, s)
  BY <1>4
<1>6. (2 * q) % 2 # 1 /\ 2 * q # last /\ (2 * q) \div 2 = q /\ last # 0
  BY <1>3
<1>7. rounds[m + 1] = [node |-> HashNode(RangeHash(leaves, p, s), RangeHash(leaves, n - p, s + p)),
                    index |-> q, last |-> last \div 2]
  BY <1>5, <1>6 DEF VerifierRound
<1>8. last \div 2 = (size - 1) \div Pow2[c]
  <2>1. size - 1 \in Nat /\ Pow2[c] = p * 2
    BY <1>1
  <2>2. ((size - 1) \div p) \div 2 = (size - 1) \div (p * 2)
    BY <1>1, <2>1, QuotientOfQuotient
  <2> QED
    BY <1>2, <2>1, <2>2
<1>9. RangeHash(leaves, n, s) = HashNode(RangeHash(leaves, p, s), RangeHash(leaves, n - p, s + p))
  BY <1>1, RangeSplits
<1>10. \A j \in 0 .. m : rounds[j].last # 0
  <2>1. \A j \in 0 .. m : j = m \/ j \in 0 .. (m - 1)
    OBVIOUS
  <2> QED
    BY <1>5, <1>6, <2>1 DEF Reaches
<1> QED
  BY <1>7, <1>8, <1>9, <1>10 DEF Reaches

\* The right one of two ranges: its own level may be lower.
LEMMA RightRange ==
  ASSUME NEW size, NEW n, NEW s, NEW c, NEW q, IsRange(n, s, c, q, size), n >= 2, NEW p, p = Pow2[c - 1]
  PROVE  \E d \in 0 .. (c - 1) :
           /\ IsRange(n - p, s + p, c - 1 - d, (2 * q + 1) * Pow2[d], size)
           /\ d = 0 \/ s + n = size
<1>0. size \in Nat /\ n \in Nat \ {0} /\ s \in Nat /\ c \in Nat /\ q \in Nat
  BY DEF IsRange
<1> USE <1>0
<1>1. /\ p \in Nat \ {0} /\ p < n /\ n <= 2 * p /\ c - 1 \in Nat /\ s = (2 * q) * p
      /\ Pow2[c] = 2 * p
  BY LeftRange
<1>2. PICK r \in Nat : r = n - p /\ r >= 1 /\ r <= p
  BY <1>1
<1>3. s + p = (2 * q + 1) * p /\ (s + p) + r = s + n
  <2>1. (2 * q + 1) * p = (2 * q) * p + p
    BY <1>1
  <2> QED
    BY <1>1, <1>2, <2>1
<1>4. PICK e \in Nat : e <= c - 1 /\ r <= Pow2[e] /\ (e # 0 => Pow2[e - 1] < r)
  <2>1. CASE r = 1
    <3>1. r <= Pow2[0]
      BY <2>1, Pow2Def
    <3> QED
      BY <1>1, <3>1
  <2>2. CASE r # 1
    <3>1. PICK k \in Nat : Pow2[k] < r /\ r <= Pow2[k + 1]
      BY <1>2, <2>2, LevelOf
    <3>2. Pow2[k] < Pow2[c - 1] /\ Pow2[k] \in Nat
      BY <1>1, <1>2, <3>1, Pow2Def
    <3>3. k < c - 1
      BY <1>1, <3>2, Pow2Grows
    <3>4. k + 1 \in Nat /\ k + 1 <= c - 1 /\ (k + 1) - 1 = k
      BY <1>1, <3>3
    <3> QED
      BY <3>1, <3>4
  <2> QED
    BY <2>1, <2>2
<1>5. PICK d \in 0 .. (c - 1) : e = c - 1 - d /\ c - 1 = d + e /\ d \in Nat
  <2>1. (c - 1) - e \in 0 .. (c - 1)
    BY <1>1, <1>4
  <2> QED
    BY <1>1, <2>1
<1>6. s + p = ((2 * q + 1) * Pow2[d]) * Pow2[e]
  <2>1. PICK a \in Nat, b \in Nat : a = Pow2[d] /\ b = Pow2[e]
    BY <1>5, Pow2Def
  <2>2. p = a * b
    BY <1>5, <2>1, Pow2Sum
  <2>3. (2 * q + 1) * (a * b) = ((2 * q + 1) * a) * b
    OBVIOUS
  <2> QED
    BY <1>3, <2>1, <2>2, <2>3
<1>7. s + n <= size /\ (s + n = size \/ n = 2 * p)
  BY <1>1 DEF IsRange
<1>8. d = 0 \/ s + n = size
  <2> SUFFICES ASSUME n = 2 * p, d # 0 PROVE FALSE
    BY <1>7
  <2>1. r = p
    BY <1>1, <1>2
  <2>2. e < c - 1
    BY <1>5
  <2>3. 2 * Pow2[e] <= p /\ Pow2[e] \in Nat \ {0}
    BY <1>1, <2>2, Pow2Grows, Pow2Def
  <2> QED
    BY <1>4, <2>1, <2>3
<1>9. s + n = size \/ r = Pow2[e]
  <2> SUFFICES ASSUME s + n # size PROVE r = Pow2[e]
    OBVIOUS
  <2>1. d = 0 /\ n = 2 * p
    BY <1>7, <1>8
  <2>2. r = p /\ e = c - 1
    BY <1>1, <1>2, <1>5, <2>1
  <2> QED
    BY <2>2
<1>10. IsRange(r, s + p, e, (2 * q + 1) * Pow2[d], size)
  <2>1. Pow2[d] \in Nat
    BY <1>5, Pow2Def
  <2>2. (2 * q + 1) * Pow2[d] \in Nat /\ r \in Nat \ {0} /\ s + p \in Nat
    BY <1>1, <1>2, <2>1, Products
  <2> QED
    BY <1>3, <1>4, <1>6, <1>7, <1>9, <2>2 DEF IsRange
<1> QED
  BY <1>2, <1>5, <1>8, <1>10

LEMMA RightRound ==
  ASSUME NEW size, NEW n, NEW s, NEW c, NEW q, IsRange(n, s, c, q, size), n >= 2, NEW p, p = Pow2[c - 1],
         NEW d \in 0 .. (c - 1), d = 0 \/ s + n = size,
         NEW e, e = c - 1 - d, NEW x, x = (2 * q + 1) * Pow2[d],
         IsRange(n - p, s + p, e, x, size),
         NEW leaves, NEW rounds, NEW m \in Nat,
         Reaches(rounds, m, leaves, n - p, s + p, e, x, size),
         rounds[m + 1] = VerifierRound(rounds[m], RangeHash(leaves, p, s))
  PROVE  Reaches(rounds, m + 1, leaves, n, s, c, q, size)
<1>0. size \in Nat /\ n \in Nat \ {0} /\ s \in Nat /\ c \in Nat /\ q \in Nat
  BY DEF IsRange
<1> USE <1>0
<1>1. /\ p = LargestPowerOfTwoLessThan(n) /\ p \in Nat \ {0} /\ Pow2[c] = 2 * p
      /\ p < n /\ n <= 2 * p /\ s + p < size /\ c - 1 \in Nat
  <2>1. /\ c - 1 \in Nat /\ LargestPowerOfTwoLessThan(n) = Pow2[c - 1]
        /\ Pow2[c] = 2 * Pow2[c - 1] /\ Pow2[c - 1] \in Nat \ {0}
        /\ Pow2[c - 1] < n /\ n <= 2 * Pow2[c - 1] /\ s + Pow2[c - 1] < size
    BY LeftRange
  <2> QED
    BY <2>1
<1>2. e \in Nat /\ d \in Nat /\ c = e + (1 + d)
  BY <1>1
<1>3. PICK z \in Nat \ {0} : z = Pow2[e]
  BY <1>2, Pow2Def
<1>4. PICK h \in Nat \ {0} : h = Pow2[1 + d]
  BY <1>2, Pow2Def
<1>5. Pow2[c] = z * h
  BY <1>2, <1>3, <1>4, Pow2Sum
<1>6. x \in Nat /\ s + p = x * z /\ n - p <= z
  <2>1. x \in Nat
    <3>1. Pow2[d] \in Nat
      BY <1>2, Pow2Def
    <3> QED
      BY <3>1, Products
  <2> QED
    BY <1>3, <2>1 DEF IsRange
<1>7. PICK last \in Nat : last = (size - 1) \div z /\ last * z <= size - 1 /\ size - 1 < last * z + z
  <2>1. size - 1 \in Nat
    BY <1>1
  <2> QED
    BY <2>1, QuotientBounds
<1>8. s + n = size => last = x
  <2> SUFFICES ASSUME s + n = size PROVE last = x
    OBVIOUS
  <2>1. size - 1 \in Nat /\ x * z <= size - 1 /\ size - 1 < x * z + z
    BY <1>1, <1>6
  <2> QED
    BY <1>6, <1>7, <2>1, Quotient
<1>9. ExtraHalvings(x) = d /\ (d = 0 => x % 2 = 1) /\ x \div h = q
  <2>1. x \in Nat /\ x = (2 * q + 1) * Pow2[d]
    BY <1>6
  <2>2. ExtraHalvings(x) = d /\ (d = 0 => x % 2 = 1) /\ x \div Pow2[1 + d] = q
    BY <1>2, <2>1, ExtraHalvingsOf
  <2> QED
    BY <1>4, <2>2
<1>10. last # 0
  <2>1. z <= p
    <3>1. e = c - 1 \/ e < c - 1
      BY <1>1, <1>2
    <3>2. e < c - 1 => 2 * Pow2[e] <= Pow2[c - 1]
      <4>1. \A j, k \in Nat : j < k => 2 * Pow2[j] <= Pow2[k]
        BY Pow2Grows
      <4> QED
        BY <1>1, <1>2, <4>1
    <3>3. e = c - 1 => z = p
      BY <1>3
    <3>4. e < c - 1 => z <= p
      <4>1. 2 * z <= Pow2[c - 1] => z <= p
        BY <1>1
      <4> QED
        BY <1>3, <3>2, <4>1
    <3> QED
      BY <1>1, <1>3, <3>1, <3>3, <3>4
  <2>2. z <= size - 1
    BY <1>1, <2>1
  <2> SUFFICES ASSUME last = 0 PROVE FALSE
    OBVIOUS
  <2>3. last * z = 0
    OBVIOUS
  <2> QED
    BY <1>1, <1>7, <2>2, <2>3
<1>11. rounds[m] = [node |-> RangeHash(leaves, n - p, s + p), index |-> x, last |-> last]
  BY <1>3, <1>7 DEF Reaches
<1>12. rounds[m].index = x /\ rounds[m].last = last /\ rounds[m].node = RangeHash(leaves, n - p, s + p)
  BY <1>11
<1>13. x % 2 = 1 \/ x = last
  BY <1>8, <1>9
<1>14. rounds[m + 1] = [node |-> HashNode(RangeHash(leaves, p, s), RangeHash(leaves, n - p, s + p)),
                     index |-> x \div h, last |-> last \div h]
  BY <1>4, <1>9, <1>12, <1>13 DEF VerifierRound
<1>15. last \div h = (size - 1) \div Pow2[c]
  <2>1. size - 1 \in Nat
    BY <1>1
  <2>2. ((size - 1) \div z) \div h = (size - 1) \div (z * h)
    BY <2>1, QuotientOfQuotient
  <2> QED
    BY <1>5, <1>7, <2>2
<1>16. RangeHash(leaves, n, s) = HashNode(RangeHash(leaves, p, s), RangeHash(leaves, n - p, s + p))
  BY <1>1, RangeSplits
<1>17. \A j \in 0 .. m : rounds[j].last # 0
  <2>1. \A j \in 0 .. m : j = m \/ j \in 0 .. (m - 1)
    OBVIOUS
  <2> QED
    BY <1>10, <1>12, <2>1 DEF Reaches
<1> QED
  BY <1>9, <1>14, <1>15, <1>16, <1>17 DEF Reaches

\* Paths are sequences of hashes.
LEMMA PathsAreSequences ==
  ASSUME NEW stored, NEW leaf, NEW paths, IsPaths(stored, leaf, paths),
         NEW U, \A t \in Nat, k \in Nat \ {0} : SubtreeRoot(stored, t, k) \in U
  PROVE  \A n \in Nat \ {0}, s \in Nat : paths[n][s] \in Seq(U)
<1> DEFINE S == {n \in Nat : n # 0 => \A s \in Nat : paths[n][s] \in Seq(U)}
<1>1. ASSUME NEW n \in Nat, \A m \in Nat : m < n => m \in S PROVE n \in S
  <2> SUFFICES ASSUME n # 0, NEW s \in Nat PROVE paths[n][s] \in Seq(U)
    OBVIOUS
  <2>1. paths[n][s] = PathValue(stored, leaf, paths, n, s)
    BY PathsAre
  <2>2. CASE n = 1
    BY <2>1, <2>2 DEF PathValue
  <2>3. CASE n # 1
    <3>1. PICK p \in Nat : p = LargestPowerOfTwoLessThan(n) /\ p \in 1 .. (n - 1) /\ n - p \in 1 .. (n - 1)
      BY <2>3, SplitInside
    <3>2. PICK left : left = paths[p][s]
      OBVIOUS
    <3>3. PICK right : right = paths[n - p][s + p]
      OBVIOUS
    <3>4. left \in Seq(U) /\ right \in Seq(U)
      <4>1. p \in S /\ p # 0 /\ n - p \in S /\ n - p # 0 /\ s + p \in Nat
        BY <1>1, <3>1
      <4> QED
        BY <3>2, <3>3, <4>1
    <3>5. SubtreeRoot(stored, s + p, n - p) \in U /\ SubtreeRoot(stored, s, p) \in U
      BY <3>1
    <3>6. \/ paths[n][s] = Append(left, SubtreeRoot(stored, s + p, n - p))
          \/ paths[n][s] = Append(right, SubtreeRoot(stored, s, p))
      BY <2>1, <2>3, <3>1, <3>2, <3>3, Zenon DEF PathValue
    <3>7. Append(left, SubtreeRoot(stored, s + p, n - p)) \in Seq(U)
      BY <3>4, <3>5
    <3>8. Append(right, SubtreeRoot(stored, s, p)) \in Seq(U)
      BY <3>4, <3>5
    <3> QED
      BY <3>6, <3>7, <3>8, Zenon
  <2> QED
    BY <2>2, <2>3
<1>2. Nat \subseteq S
  <2> HIDE DEF S
  <2> QED
    BY <1>1, CompletelyInductive
<1> QED
  BY <1>2

\* One more element of the path is one more round.
LEMMA LongerClimb ==
  ASSUME NEW U, NEW path \in Seq(U), NEW x \in U, NEW rounds, NEW start, Climb(rounds, Append(path, x), start)
  PROVE  /\ Len(path) \in Nat /\ Len(Append(path, x)) = Len(path) + 1
         /\ Climb(rounds, path, start)
         /\ rounds[Len(path) + 1] = VerifierRound(rounds[Len(path)], x)
<1>1. PICK longer : longer = Append(path, x)
  OBVIOUS
<1>2. PICK m \in Nat : m = Len(path)
  OBVIOUS
<1>3. /\ Len(longer) = m + 1 /\ longer[m + 1] = x
      /\ \A k \in 1 .. m : longer[k] = path[k]
  BY <1>1, <1>2
<1>4. rounds[0] = start /\ \A k \in 1 .. (m + 1) : rounds[k] = VerifierRound(rounds[k - 1], longer[k])
  BY <1>1, <1>3 DEF Climb
<1>5. m + 1 \in 1 .. (m + 1) /\ (m + 1) - 1 = m /\ \A k \in 1 .. m : k \in 1 .. (m + 1)
  OBVIOUS
<1>6. rounds[m + 1] = VerifierRound(rounds[m], x)
  BY <1>3, <1>4, <1>5
<1>7. Climb(rounds, path, start)
  BY <1>2, <1>3, <1>4, <1>5 DEF Climb
<1> QED
  BY <1>1, <1>2, <1>3, <1>6, <1>7

\* The rounds of an audit path lead from a leaf to the range of the path.
LEMMA PathLeadsToRange ==
  ASSUME NEW stored, NEW leaves, NEW size \in Nat,
         \A k \in Nat \ {0} : \A t \in Nat : t + k <= size => SubtreeRoot(stored, t, k) = RangeHash(leaves, k, t),
         NEW leaf \in Nat, NEW paths, IsPaths(stored, leaf, paths),
         NEW start, start = [node |-> HashLeaf(leaves[leaf + 1]), index |-> leaf, last |-> size - 1]
  PROVE  \A n \in Nat \ {0} : \A s, c, q \in Nat : \A rounds :
           IsRange(n, s, c, q, size) /\ s <= leaf /\ leaf < s + n /\ Climb(rounds, paths[n][s], start)
             => Reaches(rounds, Len(paths[n][s]), leaves, n, s, c, q, size)
<1> DEFINE U == {SubtreeRoot(stored, x[1], x[2]) : x \in Nat \X (Nat \ {0})}
           Leads(n, s, c, q, rounds) ==
             IsRange(n, s, c, q, size) /\ s <= leaf /\ leaf < s + n /\ Climb(rounds, paths[n][s], start)
               => Reaches(rounds, Len(paths[n][s]), leaves, n, s, c, q, size)
           S == {n \in Nat : n # 0 => \A s, c, q \in Nat : \A rounds : Leads(n, s, c, q, rounds)}
<1>1. \A t \in Nat, k \in Nat \ {0} : SubtreeRoot(stored, t, k) \in U
  <2> SUFFICES ASSUME NEW t \in Nat, NEW k \in Nat \ {0} PROVE SubtreeRoot(stored, t, k) \in U
    OBVIOUS
  <2>1. <<t, k>> \in Nat \X (Nat \ {0}) /\ <<t, k>>[1] = t /\ <<t, k>>[2] = k
    OBVIOUS
  <2> QED
    BY <2>1
<1> HIDE DEF U
<1>2. \A n \in Nat \ {0}, s \in Nat : paths[n][s] \in Seq(U)
  BY <1>1, PathsAreSequences
<1>3. ASSUME NEW n \in Nat, \A m \in Nat : m < n => m \in S PROVE n \in S
  <2> SUFFICES ASSUME n # 0, NEW s \in Nat, NEW c \in Nat, NEW q \in Nat, NEW rounds,
                      IsRange(n, s, c, q, size), s <= leaf, leaf < s + n, Climb(rounds, paths[n][s], start)
               PROVE  Reaches(rounds, Len(paths[n][s]), leaves, n, s, c, q, size)
    OBVIOUS
  <2>1. paths[n][s] = PathValue(stored, leaf, paths, n, s)
    BY PathsAre
  <2>2. \A m \in Nat \ {0} : m < n => \A t, e, x \in Nat : Leads(m, t, e, x, rounds)
    <3> HIDE DEF Leads
    <3> QED
      BY <1>3
  <2>3. CASE n = 1
    <3>1. paths[n][s] = << >> /\ Len(paths[n][s]) = 0
      BY <2>1, <2>3 DEF PathValue
    <3>2. c = 0
      <4> SUFFICES ASSUME c # 0 PROVE FALSE
        OBVIOUS
      <4>1. Pow2[c - 1] < 1 /\ c - 1 \in Nat
        BY <2>3 DEF IsRange
      <4>2. Pow2[c - 1] \in Nat \ {0}
        BY <4>1, Pow2Def
      <4> QED
        BY <4>1, <4>2
    <3>3. Pow2[c] = 1
      BY <3>2, Pow2Def
    <3>4. s = q /\ leaf = s
      <4>1. s = q * Pow2[c] /\ q * 1 = q
        BY DEF IsRange
      <4>2. s = q
        BY <3>3, <4>1
      <4> QED
        BY <2>3, <4>2
    <3>5. RangeHash(leaves, 1, s) = HashLeaf(leaves[s + 1])
      BY LeafHash
    <3>6. rounds[0] = [node |-> RangeHash(leaves, n, s), index |-> q, last |-> size - 1]
      <4>1. rounds[0] = [node |-> HashLeaf(leaves[leaf + 1]), index |-> leaf, last |-> size - 1]
        BY DEF Climb
      <4> QED
        BY <2>3, <3>4, <3>5, <4>1
    <3>7. (size - 1) \div 1 = size - 1
      <4>1. size - 1 \in Nat
        BY <2>3 DEF IsRange
      <4> QED
        BY <4>1
    <3>8. (size - 1) \div Pow2[c] = size - 1
      BY <3>3, <3>7
    <3>9. 0 .. (0 - 1) = {}
      OBVIOUS
    <3> QED
      BY <3>1, <3>6, <3>8, <3>9 DEF Reaches
  <2>4. CASE n # 1
    <3>0. n >= 2
      BY <2>4
    <3>1. PICK p \in Nat \ {0} : /\ p = Pow2[c - 1] /\ p = LargestPowerOfTwoLessThan(n)
                                 /\ p < n /\ s + p < size /\ c - 1 \in Nat
                                 /\ IsRange(p, s, c - 1, 2 * q, size) /\ s + n <= size
      <4>1. /\ c - 1 \in Nat /\ LargestPowerOfTwoLessThan(n) = Pow2[c - 1]
            /\ Pow2[c - 1] \in Nat \ {0} /\ Pow2[c - 1] < n /\ s + Pow2[c - 1] < size
            /\ IsRange(Pow2[c - 1], s, c - 1, 2 * q, size)
        BY <3>0, LeftRange
      <4>2. s + n <= size
        BY DEF IsRange
      <4> QED
        BY <4>1, <4>2
    <3>2. n - p \in Nat \ {0} /\ n - p < n /\ s + p \in Nat /\ (s + p) + (n - p) = s + n
      BY <3>1
    <3>3. CASE leaf < s + p
      <4>1. PICK path \in Seq(U) : path = paths[p][s]
        BY <1>2
      <4>2. PICK x \in U : x = SubtreeRoot(stored, s + p, n - p)
        BY <1>1, <3>2
      <4>3. paths[n][s] = Append(path, x)
        BY <2>1, <2>4, <3>1, <3>3, <4>1, <4>2, Zenon DEF PathValue
      <4>4. Climb(rounds, Append(path, x), start)
        BY <4>3
      <4>5. /\ Len(path) \in Nat /\ Len(Append(path, x)) = Len(path) + 1
            /\ Climb(rounds, path, start) /\ rounds[Len(path) + 1] = VerifierRound(rounds[Len(path)], x)
        BY <4>4, LongerClimb
      <4>6. x = RangeHash(leaves, n - p, s + p)
        BY <3>1, <3>2, <4>2
      <4>7. Reaches(rounds, Len(path), leaves, p, s, c - 1, 2 * q, size)
        <5>1. Leads(p, s, c - 1, 2 * q, rounds)
          <6>1. 2 * q \in Nat
            OBVIOUS
          <6> HIDE DEF Leads
          <6> QED
            BY <2>2, <3>1, <6>1
        <5> QED
          BY <3>1, <3>3, <4>1, <4>5, <5>1
      <4>8. Reaches(rounds, Len(path) + 1, leaves, n, s, c, q, size)
        BY <3>0, <3>1, <4>5, <4>6, <4>7, LeftRound
      <4> QED
        BY <4>3, <4>5, <4>8
    <3>4. CASE ~ (leaf < s + p)
      <4>1. PICK path \in Seq(U) : path = paths[n - p][s + p]
        BY <1>2, <3>2
      <4>2. PICK x \in U : x = SubtreeRoot(stored, s, p)
        BY <1>1
      <4>3. paths[n][s] = Append(path, x)
        BY <2>1, <2>4, <3>1, <3>4, <4>1, <4>2, Zenon DEF PathValue
      <4>4. Climb(rounds, Append(path, x), start)
        BY <4>3
      <4>5. /\ Len(path) \in Nat /\ Len(Append(path, x)) = Len(path) + 1
            /\ Climb(rounds, path, start) /\ rounds[Len(path) + 1] = VerifierRound(rounds[Len(path)], x)
        BY <4>4, LongerClimb
      <4>6. x = RangeHash(leaves, p, s)
        <5>1. s + p <= size
          BY <3>1
        <5> QED
          BY <4>2, <5>1
      <4>7. PICK d \in 0 .. (c - 1) : /\ IsRange(n - p, s + p, c - 1 - d, (2 * q + 1) * Pow2[d], size)
                                      /\ d = 0 \/ s + n = size
        BY <3>0, <3>1, RightRange
      <4>8. PICK e \in Nat : e = c - 1 - d
        BY <3>1
      <4>9. PICK i \in Nat : i = (2 * q + 1) * Pow2[d]
        <5>1. d \in Nat
          BY <3>1
        <5>2. Pow2[d] \in Nat
          BY <5>1, Pow2Def
        <5> QED
          BY <5>2, Products
      <4>10. IsRange(n - p, s + p, e, i, size)
        BY <4>7, <4>8, <4>9
      <4>11. Reaches(rounds, Len(path), leaves, n - p, s + p, e, i, size)
        <5>1. Leads(n - p, s + p, e, i, rounds)
          <6> HIDE DEF Leads
          <6> QED
            BY <2>2, <3>2
        <5>2. s + p <= leaf /\ leaf < (s + p) + (n - p)
          BY <3>2, <3>4
        <5> QED
          BY <4>1, <4>5, <4>10, <5>1, <5>2
      <4>12. Reaches(rounds, Len(path) + 1, leaves, n, s, c, q, size)
        BY <3>0, <3>1, <4>5, <4>6, <4>7, <4>8, <4>9, <4>10, <4>11, RightRound
      <4> QED
        BY <4>3, <4>5, <4>12
    <3> QED
      BY <3>3, <3>4
  <2> QED
    BY <2>3, <2>4
<1>4. Nat \subseteq S
  <2> HIDE DEF S
  <2> QED
    BY <1>3, CompletelyInductive
<1> QED
  BY <1>4

IsRun(rounds, m, path, start) ==
  rounds = [k \in 0 .. m |-> IF k = 0 THEN start ELSE VerifierRound(rounds[k - 1], path[k])]

LEMMA RunExists ==
  ASSUME NEW path, NEW start
  PROVE  \A m \in Nat : \E rounds : IsRun(rounds, m, path, start)
<1> DEFINE S == {m \in Nat : \E rounds : IsRun(rounds, m, path, start)}
<1>1. 0 \in S
  <2>1. PICK rounds : rounds = [k \in 0 .. 0 |-> start]
    OBVIOUS
  <2>2. IsRun(rounds, 0, path, start)
    BY <2>1 DEF IsRun
  <2> QED
    BY <2>2
<1>2. ASSUME NEW m \in Nat, m \in S PROVE m + 1 \in S
  <2>1. PICK rounds : IsRun(rounds, m, path, start)
    BY <1>2
  <2>2. PICK next : next = [k \in 0 .. (m + 1) |-> IF k <= m THEN rounds[k] ELSE VerifierRound(rounds[m], path[m + 1])]
    OBVIOUS
  <2>3. \A k \in 0 .. m : next[k] = rounds[k]
    BY <2>2
  <2>4. ASSUME NEW k \in 0 .. (m + 1)
        PROVE  next[k] = IF k = 0 THEN start ELSE VerifierRound(next[k - 1], path[k])
    <3>1. CASE k <= m
      <4>1. k \in 0 .. m /\ next[k] = rounds[k] /\ (k # 0 => next[k - 1] = rounds[k - 1])
        BY <2>3, <3>1
      <4>2. rounds[k] = IF k = 0 THEN start ELSE VerifierRound(rounds[k - 1], path[k])
        BY <2>1, <4>1, Zenon DEF IsRun
      <4> QED
        BY <4>1, <4>2
    <3>2. CASE ~ (k <= m)
      <4>1. k = m + 1 /\ k # 0 /\ k - 1 = m /\ m \in 0 .. m
        BY <3>2
      <4>2. next[m + 1] = VerifierRound(rounds[m], path[m + 1]) /\ next[m] = rounds[m]
        BY <2>2, <4>1
      <4> QED
        BY <4>1, <4>2
    <3> QED
      BY <3>1, <3>2
  <2>5. IsRun(next, m + 1, path, start)
    <3>1. next = [k \in 0 .. (m + 1) |-> next[k]]
      BY <2>2
    <3> QED
      BY <2>4, <3>1, Zenon DEF IsRun
  <2> QED
    BY <2>5
<1>3. Nat \subseteq S
  <2> HIDE DEF S
  <2> QED
    BY <1>1, <1>2, Inductive
<1> QED
  BY <1>3

\* A whole tree is one range.
LEMMA TreeIsRange ==
  ASSUME NEW size \in Nat \ {0}
  PROVE  \E c \in Nat : IsRange(size, 0, c, 0, size) /\ (size - 1) \div Pow2[c] = 0
<1>1. PICK c \in Nat : size <= Pow2[c] /\ (c # 0 => Pow2[c - 1] < size)
  <2>1. CASE size = 1
    <3>1. size <= Pow2[0]
      BY <2>1, Pow2Def
    <3> QED
      BY <3>1
  <2>2. CASE size # 1
    <3>1. PICK k \in Nat : Pow2[k] < size /\ size <= Pow2[k + 1]
      BY <2>2, LevelOf
    <3>2. k + 1 \in Nat /\ (k + 1) - 1 = k
      OBVIOUS
    <3> QED
      BY <3>1, <3>2
  <2> QED
    BY <2>1, <2>2
<1>2. PICK p \in Nat \ {0} : p = Pow2[c]
  BY Pow2Def
<1>3. 0 * p = 0 /\ 0 + size = size
  BY <1>2
<1>4. IsRange(size, 0, c, 0, size)
  BY <1>1, <1>2, <1>3 DEF IsRange
<1>5. (size - 1) \div p = 0
  <2>1. size - 1 \in Nat /\ 0 * p <= size - 1 /\ size - 1 < 0 * p + p
    BY <1>1, <1>2, <1>3
  <2> QED
    BY <2>1, Quotient
<1> QED
  BY <1>2, <1>4, <1>5

\* The audit path of a leaf verifies against the root of the tree.
LEMMA AuditPathVerifies ==
  ASSUME NEW stored, NEW leaves, NEW size \in Nat,
         \A k \in Nat \ {0} : \A t \in Nat : t + k <= size => SubtreeRoot(stored, t, k) = RangeHash(leaves, k, t),
         NEW leaf \in Nat, leaf < size, NEW e, e = leaves[leaf + 1]
  PROVE  VerifyInclusionProof(e, leaf, size, InclusionProof(stored, leaf, size), RangeHash(leaves, size, 0))
<1>0. size \in Nat \ {0}
  OBVIOUS
<1>1. PICK paths : IsPaths(stored, leaf, paths) /\ InclusionProof(stored, leaf, size) = paths[size][0]
  <2>1. \E paths : IsPaths(stored, leaf, paths) /\ \A n : InclusionProof(stored, leaf, n) = paths[n][0]
    BY InclusionProofDef
  <2> QED
    BY <2>1
<1>2. PICK path : path = paths[size][0]
  OBVIOUS
<1>3. PICK start : start = [node |-> HashLeaf(e), index |-> leaf, last |-> size - 1]
  OBVIOUS
<1>4. Len(path) \in Nat
  <2> DEFINE U == {SubtreeRoot(stored, x[1], x[2]) : x \in Nat \X (Nat \ {0})}
  <2>1. ASSUME NEW t \in Nat, NEW k \in Nat \ {0} PROVE SubtreeRoot(stored, t, k) \in U
    <3>1. <<t, k>> \in Nat \X (Nat \ {0}) /\ <<t, k>>[1] = t /\ <<t, k>>[2] = k
      OBVIOUS
    <3> QED
      BY <3>1
  <2> HIDE DEF U
  <2>2. \A n \in Nat \ {0}, s \in Nat : paths[n][s] \in Seq(U)
    BY <1>1, <2>1, PathsAreSequences
  <2>3. path \in Seq(U)
    BY <1>0, <1>2, <2>2
  <2> QED
    BY <2>3
<1> DEFINE Is(rounds) == rounds = [k \in 0 .. Len(path) |->
                               IF k = 0 THEN [node |-> HashLeaf(e), index |-> leaf, last |-> size - 1]
                                        ELSE VerifierRound(rounds[k - 1], path[k])]
           after == CHOOSE rounds : Is(rounds)
<1>5. \E rounds : Is(rounds)
  <2>1. PICK rounds : IsRun(rounds, Len(path), path, start)
    BY <1>4, RunExists
  <2>2. Is(rounds)
    BY <1>3, <2>1 DEF IsRun
  <2> QED
    BY <2>2
<1>6. Is(after)
  <2> HIDE DEF Is
  <2> QED
    BY <1>5
<1>7. VerifyInclusionProof(e, leaf, size, path, RangeHash(leaves, size, 0)) <=>
        /\ 0 <= leaf /\ leaf < size
        /\ \A k \in 0 .. Len(path) : after[k].last = 0 <=> k = Len(path)
        /\ after[Len(path)].node = RangeHash(leaves, size, 0)
  BY DEF VerifyInclusionProof
<1> HIDE DEF after
<1>8. Climb(after, path, start)
  <2>1. after[0] = start
    BY <1>3, <1>4, <1>6
  <2>2. ASSUME NEW k \in 1 .. Len(path) PROVE after[k] = VerifierRound(after[k - 1], path[k])
    <3>1. k \in 0 .. Len(path) /\ k # 0
      BY <1>4
    <3> QED
      BY <1>6, <3>1
  <2> QED
    BY <2>1, <2>2 DEF Climb
<1>9. PICK c \in Nat : IsRange(size, 0, c, 0, size) /\ (size - 1) \div Pow2[c] = 0
  BY <1>0, TreeIsRange
<1>10. Reaches(after, Len(path), leaves, size, 0, c, 0, size)
  <2>1. \A n \in Nat \ {0} : \A s, x, q \in Nat : \A rounds :
          IsRange(n, s, x, q, size) /\ s <= leaf /\ leaf < s + n /\ Climb(rounds, paths[n][s], start)
            => Reaches(rounds, Len(paths[n][s]), leaves, n, s, x, q, size)
    BY <1>1, <1>3, PathLeadsToRange
  <2>2. 0 \in Nat /\ 0 <= leaf /\ leaf < 0 + size
    OBVIOUS
  <2>3. Climb(after, paths[size][0], start)
    BY <1>2, <1>8
  <2>4. Reaches(after, Len(paths[size][0]), leaves, size, 0, c, 0, size)
    BY <1>0, <1>9, <2>1, <2>2, <2>3
  <2> QED
    BY <1>2, <2>4
<1>11. /\ after[Len(path)].node = RangeHash(leaves, size, 0) /\ after[Len(path)].last = 0
       /\ \A k \in 0 .. (Len(path) - 1) : after[k].last # 0
  BY <1>9, <1>10 DEF Reaches
<1>12. \A k \in 0 .. Len(path) : after[k].last = 0 <=> k = Len(path)
  <2>1. \A k \in 0 .. Len(path) : k = Len(path) \/ k \in 0 .. (Len(path) - 1)
    BY <1>4
  <2> QED
    BY <1>4, <1>11, <2>1
<1> QED
  BY <1>1, <1>2, <1>7, <1>11, <1>12

-----------------------------------------------------------------------------
(* The verifier accepts one event and one path for a leaf *)

\* What a verifier has computed after each element of a path that it accepts.
AcceptingRun(rounds, e, leaf, size, path, root) ==
  /\ Climb(rounds, path, [node |-> HashLeaf(e), index |-> leaf, last |-> size - 1])
  /\ \A k \in 0 .. Len(path) : rounds[k].last = 0 <=> k = Len(path)
  /\ rounds[Len(path)].node = root

LEMMA AcceptedRun ==
  ASSUME NEW e, NEW leaf, NEW size, NEW path, NEW root,
         Len(path) \in Nat, VerifyInclusionProof(e, leaf, size, path, root)
  PROVE  \E rounds : AcceptingRun(rounds, e, leaf, size, path, root)
<1> DEFINE Is(rounds) == rounds = [k \in 0 .. Len(path) |->
                               IF k = 0 THEN [node |-> HashLeaf(e), index |-> leaf, last |-> size - 1]
                                        ELSE VerifierRound(rounds[k - 1], path[k])]
           after == CHOOSE rounds : Is(rounds)
<1>1. Len(path) \in Nat
  OBVIOUS
<1>2. PICK start : start = [node |-> HashLeaf(e), index |-> leaf, last |-> size - 1]
  OBVIOUS
<1>3. \E rounds : Is(rounds)
  <2>1. PICK rounds : IsRun(rounds, Len(path), path, start)
    BY <1>1, RunExists
  <2>2. Is(rounds)
    BY <1>2, <2>1 DEF IsRun
  <2> QED
    BY <2>2
<1>4. Is(after)
  <2> HIDE DEF Is
  <2> QED
    BY <1>3
<1>5. /\ \A k \in 0 .. Len(path) : after[k].last = 0 <=> k = Len(path)
      /\ after[Len(path)].node = root
  BY DEF VerifyInclusionProof
<1> HIDE DEF after
<1>6. Climb(after, path, start)
  <2>1. after[0] = start
    BY <1>1, <1>2, <1>4
  <2>2. ASSUME NEW k \in 1 .. Len(path) PROVE after[k] = VerifierRound(after[k - 1], path[k])
    <3>1. k \in 0 .. Len(path) /\ k # 0
      BY <1>1
    <3> QED
      BY <1>4, <3>1
  <2> QED
    BY <2>1, <2>2 DEF Climb
<1> QED
  BY <1>2, <1>5, <1>6 DEF AcceptingRun

\* A round goes to the same place whatever it hashes; and it hashes the same on
\* the same side only if it was given the same.
LEMMA RoundOf ==
  ASSUME NEW v, NEW u, NEW x, NEW y, v.index = u.index, v.last = u.last
  PROVE  /\ VerifierRound(v, x).index = VerifierRound(u, y).index
         /\ VerifierRound(v, x).last = VerifierRound(u, y).last
         /\ VerifierRound(v, x).node = VerifierRound(u, y).node => v.node = u.node /\ x = y
BY DEF VerifierRound, HashNode

LEMMA OneProofOfALeaf ==
  ASSUME NEW leaf \in Nat, NEW size \in Nat, NEW root, NEW e, NEW f,
         NEW U, NEW p \in Seq(U), NEW T, NEW q \in Seq(T),
         VerifyInclusionProof(e, leaf, size, p, root), VerifyInclusionProof(f, leaf, size, q, root)
  PROVE  e = f /\ p = q
<1>0. Len(p) \in Nat /\ Len(q) \in Nat
  OBVIOUS
<1>1. PICK a : /\ Climb(a, p, [node |-> HashLeaf(e), index |-> leaf, last |-> size - 1])
               /\ \A k \in 0 .. Len(p) : a[k].last = 0 <=> k = Len(p)
               /\ a[Len(p)].node = root
  <2>1. \E rounds : AcceptingRun(rounds, e, leaf, size, p, root)
    BY <1>0, AcceptedRun
  <2> QED
    BY <2>1 DEF AcceptingRun
<1>2. PICK b : /\ Climb(b, q, [node |-> HashLeaf(f), index |-> leaf, last |-> size - 1])
               /\ \A k \in 0 .. Len(q) : b[k].last = 0 <=> k = Len(q)
               /\ b[Len(q)].node = root
  <2>1. \E rounds : AcceptingRun(rounds, f, leaf, size, q, root)
    BY <1>0, AcceptedRun
  <2> QED
    BY <2>1 DEF AcceptingRun
<1>3. PICK m \in Nat, n \in Nat : m = Len(p) /\ n = Len(q)
  OBVIOUS
<1>4. /\ \A k \in 1 .. m : a[k] = VerifierRound(a[k - 1], p[k])
      /\ \A k \in 1 .. n : b[k] = VerifierRound(b[k - 1], q[k])
  BY <1>1, <1>2, <1>3 DEF Climb
<1>5. /\ a[0] = [node |-> HashLeaf(e), index |-> leaf, last |-> size - 1]
      /\ b[0] = [node |-> HashLeaf(f), index |-> leaf, last |-> size - 1]
  BY <1>1, <1>2 DEF Climb
<1>6. \A k \in Nat : k <= m /\ k <= n => a[k].index = b[k].index /\ a[k].last = b[k].last
  <2> DEFINE S == {k \in Nat : k <= m /\ k <= n => a[k].index = b[k].index /\ a[k].last = b[k].last}
  <2>1. 0 \in S
    BY <1>5
  <2>2. ASSUME NEW k \in Nat, k \in S PROVE k + 1 \in S
    <3> SUFFICES ASSUME k + 1 <= m, k + 1 <= n
                 PROVE  a[k + 1].index = b[k + 1].index /\ a[k + 1].last = b[k + 1].last
      OBVIOUS
    <3>1. a[k].index = b[k].index /\ a[k].last = b[k].last
      BY <2>2
    <3>2. k + 1 \in 1 .. m /\ k + 1 \in 1 .. n /\ (k + 1) - 1 = k
      OBVIOUS
    <3>3. a[k + 1] = VerifierRound(a[k], p[k + 1]) /\ b[k + 1] = VerifierRound(b[k], q[k + 1])
      BY <1>4, <3>2
    <3> QED
      BY <3>1, <3>3, RoundOf
  <2>3. Nat \subseteq S
    <3> HIDE DEF S
    <3> QED
      BY <2>1, <2>2, Inductive
  <2> QED
    BY <2>3
<1>7. m = n
  <2>1. a[m].last = 0 /\ b[n].last = 0
    BY <1>1, <1>2, <1>3
  <2>2. m <= n => m = n
    BY <1>2, <1>3, <1>6, <2>1
  <2>3. n <= m => m = n
    BY <1>1, <1>3, <1>6, <2>1
  <2> QED
    BY <2>2, <2>3
<1>8. \A i \in Nat : i <= m => a[m - i].node = b[m - i].node
  <2> DEFINE S == {i \in Nat : i <= m => a[m - i].node = b[m - i].node}
  <2>1. 0 \in S
    <3>1. m - 0 = m
      OBVIOUS
    <3> QED
      BY <1>1, <1>2, <1>3, <1>7, <3>1
  <2>2. ASSUME NEW i \in Nat, i \in S PROVE i + 1 \in S
    <3> SUFFICES ASSUME i + 1 <= m PROVE a[m - (i + 1)].node = b[m - (i + 1)].node
      OBVIOUS
    <3>1. PICK k \in Nat : k = m - (i + 1) /\ m - i = k + 1 /\ k + 1 \in 1 .. m /\ (k + 1) - 1 = k /\ k <= m
      OBVIOUS
    <3>2. a[k + 1] = VerifierRound(a[k], p[k + 1]) /\ b[k + 1] = VerifierRound(b[k], q[k + 1])
      BY <1>4, <1>7, <3>1
    <3>3. a[k + 1].node = b[k + 1].node
      BY <2>2, <3>1
    <3>4. a[k].index = b[k].index /\ a[k].last = b[k].last
      BY <1>6, <1>7, <3>1
    <3>5. a[k].node = b[k].node
      BY <3>2, <3>3, <3>4, RoundOf
    <3> QED
      BY <3>1, <3>5
  <2>3. Nat \subseteq S
    <3> HIDE DEF S
    <3> QED
      BY <2>1, <2>2, Inductive
  <2> QED
    BY <2>3
<1>9. \A k \in 0 .. m : a[k].node = b[k].node
  <2> SUFFICES ASSUME NEW k \in 0 .. m PROVE a[k].node = b[k].node
    OBVIOUS
  <2>1. m - k \in Nat /\ m - k <= m /\ m - (m - k) = k
    OBVIOUS
  <2> QED
    BY <1>8, <2>1
<1>10. e = f
  <2>1. a[0].node = HashLeaf(e) /\ b[0].node = HashLeaf(f) /\ 0 \in 0 .. m
    BY <1>5
  <2>2. HashLeaf(e) = HashLeaf(f)
    BY <1>9, <2>1
  <2> QED
    BY <2>2 DEF HashLeaf
<1>11. ASSUME NEW k \in 1 .. m PROVE p[k] = q[k]
  <2>1. k - 1 \in Nat /\ k - 1 <= m /\ k - 1 \in 0 .. m /\ k \in 0 .. m
    OBVIOUS
  <2>2. a[k] = VerifierRound(a[k - 1], p[k]) /\ b[k] = VerifierRound(b[k - 1], q[k])
    BY <1>4, <1>7
  <2>3. a[k - 1].index = b[k - 1].index /\ a[k - 1].last = b[k - 1].last
    BY <1>6, <1>7, <2>1
  <2>4. a[k].node = b[k].node
    BY <1>9, <2>1
  <2> QED
    BY <2>2, <2>3, <2>4, RoundOf
<1>12. p = q
  <2>1. DOMAIN p = 1 .. m /\ DOMAIN q = 1 .. m
    <3>1. DOMAIN p = 1 .. Len(p) /\ DOMAIN q = 1 .. Len(q)
      <4>1. p \in Seq(U)
        OBVIOUS
      <4>2. q \in Seq(T)
        OBVIOUS
      <4> QED
        BY <4>1, <4>2, LenProperties
    <3> QED
      BY <1>3, <1>7, <3>1
  <2>2. p = [k \in DOMAIN p |-> p[k]] /\ q = [k \in DOMAIN q |-> q[k]]
    <3>1. p \in Seq(U) /\ q \in Seq(T)
      OBVIOUS
    <3> QED
      BY <3>1
  <2> QED
    BY <2>1, <2>2, <1>11, Zenon
<1> QED
  BY <1>10, <1>12

\* Only the event at a leaf verifies there against the root of the tree.
LEMMA OnlyTheLeafVerifies ==
  ASSUME NEW stored, NEW leaves, NEW size \in Nat,
         \A k \in Nat \ {0} : \A t \in Nat : t + k <= size => SubtreeRoot(stored, t, k) = RangeHash(leaves, k, t),
         NEW leaf \in Nat, NEW e, NEW U, NEW path \in Seq(U),
         VerifyInclusionProof(e, leaf, size, path, RangeHash(leaves, size, 0))
  PROVE  leaf < size /\ e = leaves[leaf + 1]
<1>1. leaf < size
  BY DEF VerifyInclusionProof
<1>2. VerifyInclusionProof(leaves[leaf + 1], leaf, size, InclusionProof(stored, leaf, size), RangeHash(leaves, size, 0))
  BY <1>1, AuditPathVerifies
<1>3. \E T : InclusionProof(stored, leaf, size) \in Seq(T)
  <2> DEFINE T == {SubtreeRoot(stored, x[1], x[2]) : x \in Nat \X (Nat \ {0})}
  <2>1. ASSUME NEW t \in Nat, NEW k \in Nat \ {0} PROVE SubtreeRoot(stored, t, k) \in T
    <3>1. <<t, k>> \in Nat \X (Nat \ {0}) /\ <<t, k>>[1] = t /\ <<t, k>>[2] = k
      OBVIOUS
    <3> QED
      BY <3>1
  <2> HIDE DEF T
  <2>2. PICK paths : IsPaths(stored, leaf, paths) /\ InclusionProof(stored, leaf, size) = paths[size][0]
    <3>1. \E paths : IsPaths(stored, leaf, paths) /\ \A n : InclusionProof(stored, leaf, n) = paths[n][0]
      BY InclusionProofDef
    <3> QED
      BY <3>1
  <2>3. \A n \in Nat \ {0}, s \in Nat : paths[n][s] \in Seq(T)
    BY <2>1, <2>2, PathsAreSequences
  <2>4. size \in Nat \ {0}
    BY <1>1
  <2> QED
    BY <2>2, <2>3, <2>4
<1> QED
  BY <1>1, <1>2, <1>3, OneProofOfALeaf

-----------------------------------------------------------------------------
(* One shard: its tables and its requests *)

Kinds == {"append", "checkpoint", "prove"}
Steps == {"idle", "queued", "hashing", "asked", "rooting", "proving", "replied"}

\* A statement of the shard: the stored checkpoint of its tree size.
IsStated(s) ==
  /\ s.size \in DOMAIN checkpoints
  /\ s = [size |-> s.size, root |-> checkpoints[s.size].root, at |-> checkpoints[s.size].at]

\* Each event is one leaf, and the leaves are numbered without a gap.
EventsAreLeaves ==
  /\ IsFiniteSet(DOMAIN events) /\ Cardinality(DOMAIN events) = treeSize
  /\ \A e \in DOMAIN events : events[e] \in 0 .. (treeSize - 1)
  /\ \A i \in 0 .. (treeSize - 1) : \E e \in DOMAIN events : events[e] = i
  /\ \A e, f \in DOMAIN events : events[e] = events[f] => e = f

TablesOK ==
  /\ now \in Nat /\ treeSize \in Nat
  /\ EventsAreLeaves
  /\ DOMAIN checkpoints \subseteq 0 .. treeSize
  /\ \A n \in DOMAIN checkpoints : checkpoints[n].at \in 0 .. now

Acknowledged(k) ==
  /\ k.code = "OK"
  /\ k.event \in DOMAIN events
  /\ events[k.event] = k.body.leaf
  /\ k.body.treeSize \in 0 .. treeSize
  /\ k.body.leaf < k.body.treeSize

AnswerOK(k) ==
  /\ k.kind \in Kinds
  /\ k.kind = "append" => Acknowledged(k)
  /\ k.kind = "checkpoint" => k.code = "OK" /\ IsStated(k.body)
  /\ k.kind = "prove" /\ k.code = "OK" =>
       /\ k.event \in DOMAIN events /\ events[k.event] = k.body.leaf
       /\ IsStated(k.body.checkpoint)

\* What a request at each of its steps has read and may still rely on.
CallOK(k) ==
  /\ k.pc \in Steps
  /\ k.pc = "queued" => k.kind = "append" /\ k.event \in Events
  /\ k.pc = "hashing" =>
       k.kind = "append" /\ k.event \in Events /\ k.event \notin DOMAIN events /\ k.leaf = treeSize
  /\ k.pc \in {"asked", "rooting"} => k.kind \in {"checkpoint", "prove"} /\ k.at \in 0 .. now
  /\ k.pc = "rooting" =>
       k.size \in 0 .. treeSize /\ (k.kind = "prove" => k.event \in DOMAIN events)
  /\ k.pc = "proving" => k.kind = "prove" /\ k.event \in DOMAIN events /\ IsStated(k.checkpoint)
  /\ k.pc = "replied" => AnswerOK(k)

CallsOK == DOMAIN call = Callers /\ \A c \in Callers : CallOK(call[c])

\* The appends in flight are in line, each once, and only the first has begun.
LineOK ==
  /\ appendTail \in Seq(Callers)
  /\ \A i, j \in DOMAIN appendTail : appendTail[i] = appendTail[j] => i = j
  /\ \A c \in Callers : call[c].pc \in {"queued", "hashing"} <=>
                          \E i \in DOMAIN appendTail : appendTail[i] = c
  /\ \A i \in DOMAIN appendTail : i > 1 => call[appendTail[i]].pc = "queued"

-----------------------------------------------------------------------------
(* The shape of the tree *)

\* A stored node is the hash of its event, or of the two nodes below it, which
\* are stored as well.
NodesAreHashes ==
  \A x \in DOMAIN nodes :
    IF x[1] = 0
      THEN \E e \in DOMAIN events : events[e] = x[2] /\ nodes[x] = HashLeaf(e)
      ELSE LET left == <<x[1] - 1, 2 * x[2]>>
               right == <<x[1] - 1, 2 * x[2] + 1>> IN
           /\ left \in DOMAIN nodes /\ right \in DOMAIN nodes
           /\ nodes[x] = HashNode(nodes[left], nodes[right])

\* The nodes hashed so far are those that the new leaf completes, up to level m.
Climbs(w, k, m) ==
  /\ k.top = <<m, w[m]>>
  /\ DOMAIN k.pending = {<<j, w[j]>> : j \in 0 .. m}
  /\ k.pending[<<0, w[0]>>] = HashLeaf(k.event)
  /\ \A j \in 0 .. (m - 1) :
       /\ w[j] % 2 = 1
       /\ k.pending[<<j + 1, w[j + 1]>>] = HashNode(nodes[<<j, w[j] - 1>>], k.pending[<<j, w[j]>>])

TreeIs(w) ==
  /\ w \in Widths(treeSize)
  /\ DOMAIN nodes = CompleteNodes(w)
  /\ \A c \in Callers : call[c].pc = "hashing" => \E m \in Nat : Climbs(w, call[c], m)

TreeOK == (\E w : TreeIs(w)) /\ NodesAreHashes

ShardInv == TablesOK /\ CallsOK /\ LineOK /\ TreeOK

LEMMA ShardInitInv == ShardInit => ShardInv
<1> SUFFICES ASSUME ShardInit PROVE ShardInv
  OBVIOUS
<1>1. DOMAIN events = {} /\ DOMAIN nodes = {} /\ DOMAIN checkpoints = {} /\ DOMAIN appendTail = {}
  BY DEF ShardInit
<1>2. TablesOK
  BY <1>1, FS_EmptySet DEF ShardInit, TablesOK, EventsAreLeaves
<1>3. CallsOK /\ LineOK
  BY <1>1 DEF ShardInit, CallsOK, LineOK, CallOK, Idle, Steps
<1>4. TreeOK
  <2> DEFINE w == [k \in Nat |-> 0]
  <2>1. w \in Widths(0)
    BY DEF Widths
  <2>2. CompleteNodes(w) = {}
    BY DEF CompleteNodes
  <2>3. TreeIs(w)
    BY <1>1, <2>1, <2>2 DEF ShardInit, TreeIs, Idle
  <2> QED
    BY <1>1, <2>3 DEF TreeOK, NodesAreHashes
<1> QED
  BY <1>2, <1>3, <1>4 DEF ShardInv

-----------------------------------------------------------------------------
(* What stays true of a request while the tables grow *)

\* Events and checkpoints are added, none is changed.
TablesGrow ==
  /\ now <= now' /\ now' \in Nat
  /\ treeSize <= treeSize' /\ treeSize' \in Nat
  /\ \A e \in DOMAIN events : e \in DOMAIN events' /\ events'[e] = events[e]
  /\ \A n \in DOMAIN checkpoints : n \in DOMAIN checkpoints' /\ checkpoints'[n] = checkpoints[n]

LEMMA StatedStays ==
  ASSUME TablesGrow, NEW s, IsStated(s)
  PROVE  IsStated(s)'
BY DEF TablesGrow, IsStated

LEMMA CallStays ==
  ASSUME TablesOK, TablesGrow, NEW k, CallOK(k),
         k.pc = "hashing" => UNCHANGED <<events, treeSize>>
  PROVE  CallOK(k)'
<1>1. k.pc = "replied" => AnswerOK(k)'
  BY StatedStays DEF TablesOK, TablesGrow, CallOK, AnswerOK, Acknowledged
<1>2. k.pc = "proving" => IsStated(k.checkpoint)'
  BY StatedStays DEF CallOK
<1>3. \A i : /\ i \in 0 .. now => i \in 0 .. now'
             /\ i \in 0 .. treeSize => i \in 0 .. treeSize'
  BY DEF TablesOK, TablesGrow
<1>4. \A e \in DOMAIN events : e \in DOMAIN events'
  BY DEF TablesGrow
<1> QED
  BY <1>1, <1>2, <1>3, <1>4 DEF CallOK

\* A request that is not an append goes on, or ends.
LEMMA OtherCallMoves ==
  ASSUME ShardInv, NEW c \in Callers, NEW k,
         call' = [call EXCEPT ![c] = k],
         call[c].pc \notin {"queued", "hashing"}, k.pc \notin {"queued", "hashing"},
         TablesGrow, TablesOK', CallOK(k)',
         UNCHANGED <<events, treeSize, nodes, appendTail>>
  PROVE  ShardInv'
<1>1. /\ DOMAIN call' = Callers /\ call'[c] = k
      /\ \A d \in Callers : d # c => call'[d] = call[d]
  BY DEF ShardInv, CallsOK
<1>2. CallsOK'
  <2>1. ASSUME NEW d \in Callers, d # c PROVE CallOK(call[d])'
    <3>1. PICK kk : kk = call[d]
      OBVIOUS
    <3>2. CallOK(kk)'
      BY <3>1, CallStays DEF ShardInv, CallsOK
    <3>3. call'[d] = kk
      BY <1>1, <2>1, <3>1
    <3> QED  BY <3>2, <3>3
  <2> QED  BY <1>1, <2>1 DEF CallsOK
<1>3. LineOK'
  <2>1. \A d \in Callers : call'[d].pc \in {"queued", "hashing"} <=> call[d].pc \in {"queued", "hashing"}
    BY <1>1
  <2>2. \A i \in DOMAIN appendTail : appendTail[i] \in Callers /\ appendTail[i] # c
    BY DEF ShardInv, LineOK
  <2> QED  BY <1>1, <2>1, <2>2 DEF ShardInv, LineOK
<1>4. TreeOK'
  <2>1. PICK w : TreeIs(w)
    BY DEF ShardInv, TreeOK
  <2>2. \A d \in Callers : call'[d].pc = "hashing" => call'[d] = call[d]
    BY <1>1
  <2>3. \A k2, m : Climbs(w, k2, m) => Climbs(w, k2, m)'
    BY DEF Climbs
  <2>4. ASSUME NEW d \in Callers, call'[d].pc = "hashing" PROVE \E m \in Nat : Climbs(w, call[d], m)'
    BY <2>1, <2>2, <2>3, <2>4 DEF TreeIs
  <2>5. TreeIs(w)'
    BY <2>1, <2>4 DEF TreeIs
  <2> QED  BY <2>5 DEF ShardInv, TreeOK, NodesAreHashes
<1> QED
  BY <1>2, <1>3, <1>4 DEF ShardInv

-----------------------------------------------------------------------------
(* The line of appends *)

\* The append that hashes is the first in line, and no other hashes.
LEMMA OnlyTheFirstHashes ==
  ASSUME ShardInv, NEW c \in Callers, call[c].pc = "hashing"
  PROVE  AppendTurn(c) /\ \A d \in Callers : d # c => call[d].pc # "hashing"
<1>1. PICK i \in DOMAIN appendTail : appendTail[i] = c
  BY DEF ShardInv, LineOK
<1>2. i = 1
  BY <1>1 DEF ShardInv, LineOK
<1>3. AppendTurn(c)
  BY <1>1, <1>2 DEF ShardInv, LineOK, AppendTurn
<1>4. ASSUME NEW d \in Callers, call[d].pc = "hashing" PROVE d = c
  <2>1. PICK j \in DOMAIN appendTail : appendTail[j] = d
    BY <1>4 DEF ShardInv, LineOK
  <2>2. j = 1
    BY <1>4, <2>1 DEF ShardInv, LineOK
  <2> QED  BY <1>1, <1>2, <2>1, <2>2
<1> QED  BY <1>3, <1>4

\* The first in line leaves: everybody else moves up, and nobody has begun.
LEMMA LineMovesUp ==
  ASSUME ShardInv, NEW c \in Callers, AppendTurn(c), NEW k, k.pc = "replied",
         call' = [call EXCEPT ![c] = k], appendTail' = Tail(appendTail)
  PROVE  LineOK' /\ \A d \in Callers : call'[d].pc # "hashing"
<1> DEFINE line == appendTail
<1>1. /\ line \in Seq(Callers) /\ line # << >> /\ line[1] = c
      /\ \A i, j \in DOMAIN line : line[i] = line[j] => i = j
      /\ \A i \in DOMAIN line : i > 1 => call[line[i]].pc = "queued"
  BY DEF ShardInv, LineOK, AppendTurn
<1>2. /\ line' \in Seq(Callers)
      /\ DOMAIN line' = 1 .. (Len(line) - 1) /\ DOMAIN line = 1 .. Len(line)
      /\ Len(line) \in Nat /\ Len(line) > 0
      /\ \A i \in DOMAIN line' : line'[i] = line[i + 1] /\ i + 1 \in DOMAIN line /\ i + 1 > 1
  BY <1>1
<1>3. /\ call'[c] = k
      /\ \A d \in Callers : d # c => call'[d] = call[d]
  BY DEF ShardInv, CallsOK
<1>4. \A i \in DOMAIN line' : line'[i] \in Callers /\ line'[i] # c /\ call'[line'[i]].pc = "queued"
  <2> SUFFICES ASSUME NEW i \in DOMAIN line'
               PROVE  line'[i] \in Callers /\ line'[i] # c /\ call'[line'[i]].pc = "queued"
    OBVIOUS
  <2>1. i + 1 \in DOMAIN line /\ line'[i] = line[i + 1] /\ i + 1 # 1 /\ i + 1 > 1 /\ 1 \in DOMAIN line
    BY <1>2
  <2>2. line[i + 1] \in Callers /\ line[i + 1] # c
    BY <1>1, <2>1
  <2> QED  BY <1>1, <1>3, <2>1, <2>2
<1>5. \A d \in Callers : call'[d].pc \in {"queued", "hashing"} <=> \E i \in DOMAIN line' : line'[i] = d
  <2> SUFFICES ASSUME NEW d \in Callers, d # c
               PROVE  call'[d].pc \in {"queued", "hashing"} <=> \E i \in DOMAIN line' : line'[i] = d
    BY <1>3, <1>4
  <2>1. call[d].pc \in {"queued", "hashing"} <=> \E i \in DOMAIN line : line[i] = d
    BY DEF ShardInv, LineOK
  <2>2. ASSUME NEW i \in DOMAIN line, line[i] = d PROVE \E j \in DOMAIN line' : line'[j] = d
    <3>1. i # 1
      BY <1>1, <2>2
    <3>2. i - 1 \in DOMAIN line' /\ (i - 1) + 1 = i
      BY <1>2, <3>1
    <3> QED  BY <1>2, <2>2, <3>2
  <2>3. ASSUME NEW i \in DOMAIN line', line'[i] = d PROVE \E j \in DOMAIN line : line[j] = d
    BY <1>2, <2>3
  <2> QED  BY <1>3, <2>1, <2>2, <2>3
<1>6. \A i, j \in DOMAIN line' : line'[i] = line'[j] => i = j
  BY <1>1, <1>2
<1>7. LineOK'
  BY <1>2, <1>4, <1>5, <1>6 DEF LineOK
<1>8. ASSUME NEW d \in Callers PROVE call'[d].pc # "hashing"
  <2>1. CASE d = c
    BY <1>3, <2>1
  <2>2. CASE call'[d].pc \in {"queued", "hashing"}
    BY <1>4, <1>5, <2>2
  <2> QED  BY <2>1, <2>2
<1> QED  BY <1>7, <1>8

\* An append joins the line, or begins.
LEMMA RequestAppendKeeps ==
  ASSUME ShardInv, NEW c \in Callers, NEW e \in Events, RequestAppend(c, e)
  PROVE  ShardInv'
<1>1. PICK k : k = [pc |-> "queued", kind |-> "append", event |-> e]
  OBVIOUS
<1>2. /\ call' = [call EXCEPT ![c] = k] /\ appendTail' = Append(appendTail, c)
      /\ call[c].pc \in {"idle", "replied"}
      /\ UNCHANGED <<events, treeSize, nodes, checkpoints, now>>
  BY <1>1 DEF RequestAppend, Free, tables
<1>3. /\ DOMAIN call' = Callers /\ call'[c] = k
      /\ \A d \in Callers : d # c => call'[d] = call[d]
  BY <1>2 DEF ShardInv, CallsOK
<1>4. TablesOK'
  BY <1>2 DEF ShardInv, TablesOK, EventsAreLeaves
<1>5. CallsOK'
  <2>1. CallOK(k)'
    BY <1>1 DEF CallOK, Steps
  <2>2. ASSUME NEW d \in Callers, d # c PROVE CallOK(call[d])'
    BY <1>2, <1>3, <2>2 DEF ShardInv, CallsOK, CallOK, AnswerOK, Acknowledged, IsStated
  <2> QED  BY <1>3, <2>1, <2>2 DEF CallsOK
<1>6. LineOK'
  <2>1. /\ appendTail \in Seq(Callers) /\ appendTail' \in Seq(Callers)
        /\ Len(appendTail) \in Nat
        /\ DOMAIN appendTail = 1 .. Len(appendTail)
        /\ DOMAIN appendTail' = 1 .. (Len(appendTail) + 1)
        /\ appendTail'[Len(appendTail) + 1] = c
        /\ \A i \in DOMAIN appendTail : appendTail'[i] = appendTail[i]
    BY <1>2 DEF ShardInv, LineOK
  <2>2. \A i \in DOMAIN appendTail : appendTail[i] \in Callers /\ appendTail[i] # c
    BY <1>2, <2>1 DEF ShardInv, LineOK
  <2>3. \A i, j \in DOMAIN appendTail' : appendTail'[i] = appendTail'[j] => i = j
    BY <2>1, <2>2 DEF ShardInv, LineOK
  <2>4. \A i \in DOMAIN appendTail' : i > 1 => call'[appendTail'[i]].pc = "queued"
    BY <1>1, <1>3, <2>1, <2>2 DEF ShardInv, LineOK
  <2>5. ASSUME NEW d \in Callers
        PROVE  call'[d].pc \in {"queued", "hashing"} <=> \E i \in DOMAIN appendTail' : appendTail'[i] = d
    <3>1. CASE d = c
      BY <1>1, <1>3, <2>1, <3>1
    <3>2. CASE d # c
      <4>1. call'[d] = call[d]
        BY <1>3, <3>2
      <4>2. call[d].pc \in {"queued", "hashing"} <=> \E i \in DOMAIN appendTail : appendTail[i] = d
        BY DEF ShardInv, LineOK
      <4>3. (\E i \in DOMAIN appendTail : appendTail[i] = d) <=> \E i \in DOMAIN appendTail' : appendTail'[i] = d
        BY <2>1, <3>2
      <4> QED  BY <4>1, <4>2, <4>3
    <3> QED  BY <3>1, <3>2
  <2> QED  BY <2>1, <2>3, <2>4, <2>5 DEF LineOK
<1>7. TreeOK'
  <2>1. PICK w : TreeIs(w)
    BY DEF ShardInv, TreeOK
  <2>2. \A d \in Callers : call'[d].pc = "hashing" => call'[d] = call[d]
    BY <1>1, <1>3
  <2>3. \A k2, m : Climbs(w, k2, m) => Climbs(w, k2, m)'
    BY <1>2 DEF Climbs
  <2>4. ASSUME NEW d \in Callers, call'[d].pc = "hashing" PROVE \E m \in Nat : Climbs(w, call[d], m)'
    BY <2>1, <2>2, <2>3, <2>4 DEF TreeIs
  <2>5. TreeIs(w)'
    BY <1>2, <2>1, <2>4 DEF TreeIs
  <2> QED  BY <1>2, <2>5 DEF ShardInv, TreeOK, NodesAreHashes
<1> QED
  BY <1>4, <1>5, <1>6, <1>7 DEF ShardInv

\* One of the appends goes on or ends, and the others are where they were.
LEMMA OthersStay ==
  ASSUME ShardInv, NEW c \in Callers, NEW k, call' = [call EXCEPT ![c] = k],
         TablesGrow, CallOK(k)',
         (\A d \in Callers : d # c => call[d].pc # "hashing") \/ UNCHANGED <<events, treeSize>>
  PROVE  CallsOK'
<1>1. /\ DOMAIN call' = Callers /\ call'[c] = k
      /\ \A d \in Callers : d # c => call'[d] = call[d]
  BY DEF ShardInv, CallsOK
<1>2. ASSUME NEW d \in Callers, d # c PROVE CallOK(call[d])'
  <2>1. PICK kk : kk = call[d]
    OBVIOUS
  <2>2. CallOK(kk)'
    BY <1>2, <2>1, CallStays DEF ShardInv, CallsOK
  <2>3. call'[d] = kk
    BY <1>1, <1>2, <2>1
  <2> QED  BY <2>2, <2>3
<1> QED
  BY <1>1, <1>2 DEF CallsOK

LEMMA UnchangedGrow ==
  ASSUME TablesOK, UNCHANGED <<events, treeSize, checkpoints, now>>
  PROVE  TablesGrow /\ TablesOK'
BY DEF TablesOK, TablesGrow, EventsAreLeaves

LEMMA BeginAppendKeeps ==
  ASSUME ShardInv, NEW c \in Callers, BeginAppend(c)
  PROVE  ShardInv'
<1> DEFINE e == call[c].event
<1>1. /\ call[c].pc = "queued" /\ AppendTurn(c) /\ e \in Events
      /\ call[c].kind = "append"
      /\ UNCHANGED <<events, treeSize, nodes, checkpoints, now>>
  BY DEF BeginAppend, tables, ShardInv, CallsOK, CallOK
<1>2. TablesGrow /\ TablesOK' /\ NodesAreHashes'
  BY <1>1, UnchangedGrow DEF ShardInv, TreeOK, NodesAreHashes
<1>3. PICK w : TreeIs(w)
  BY DEF ShardInv, TreeOK
<1>4. CASE e \in DOMAIN events /\ Release(c, "OK", [leaf |-> events[e], treeSize |-> treeSize, duplicate |-> TRUE])
  <2>1. PICK k : k = Replied(c, "OK", [leaf |-> events[e], treeSize |-> treeSize, duplicate |-> TRUE])
    OBVIOUS
  <2>2. call' = [call EXCEPT ![c] = k] /\ appendTail' = Tail(appendTail) /\ k.pc = "replied"
    BY <1>4, <2>1 DEF Release, Reply, Replied
  <2>3. AnswerOK(k)'
    <3>1. k.kind = "append" /\ k.code = "OK" /\ k.event = e /\ k.body.leaf = events[e] /\ k.body.treeSize = treeSize
      BY <1>1, <2>1 DEF Replied
    <3>2. events[e] \in 0 .. (treeSize - 1) /\ treeSize \in Nat
      BY <1>4 DEF ShardInv, TablesOK, EventsAreLeaves
    <3> QED  BY <1>1, <1>4, <3>1, <3>2 DEF AnswerOK, Acknowledged, Kinds
  <2>4. CallOK(k)'
    BY <2>2, <2>3 DEF CallOK, Steps
  <2>5. CallsOK'
    BY <1>1, <1>2, <2>2, <2>4, OthersStay
  <2>6. LineOK' /\ \A d \in Callers : call'[d].pc # "hashing"
    BY <1>1, <2>2, LineMovesUp
  <2>7. TreeIs(w)'
    BY <1>1, <1>3, <2>6 DEF TreeIs
  <2> QED  BY <1>2, <2>5, <2>6, <2>7 DEF ShardInv, TreeOK
<1>5. CASE /\ e \notin DOMAIN events /\ UNCHANGED appendTail
           /\ call' = [call EXCEPT ![c] =
                Hashing(e, treeSize, <<0, treeSize>>, [x \in {<<0, treeSize>>} |-> HashLeaf(e)])]
  <2>1. PICK k : k = Hashing(e, treeSize, <<0, treeSize>>, [x \in {<<0, treeSize>>} |-> HashLeaf(e)])
    OBVIOUS
  <2>2. call' = [call EXCEPT ![c] = k] /\ k.pc = "hashing" /\ k.kind = "append" /\ k.event = e
        /\ k.leaf = treeSize /\ k.top = <<0, treeSize>>
        /\ k.pending = [x \in {<<0, treeSize>>} |-> HashLeaf(e)]
    BY <1>5, <2>1 DEF Hashing
  <2>3. /\ DOMAIN call' = Callers /\ call'[c] = k
        /\ \A d \in Callers : d # c => call'[d] = call[d]
    BY <2>2 DEF ShardInv, CallsOK
  <2>4. CallOK(k)'
    BY <1>1, <1>5, <2>2 DEF CallOK, Steps
  <2>5. CallsOK'
    BY <1>1, <1>2, <2>2, <2>4, OthersStay
  <2>6. LineOK'
    <3>1. appendTail # << >> /\ appendTail[1] = c /\ 1 \in DOMAIN appendTail
      BY <1>1 DEF ShardInv, LineOK, AppendTurn
    <3>2. \A i \in DOMAIN appendTail : i > 1 => appendTail[i] # c /\ appendTail[i] \in Callers
      BY <3>1 DEF ShardInv, LineOK
    <3>3. \A d \in Callers : call'[d].pc \in {"queued", "hashing"} <=> call[d].pc \in {"queued", "hashing"}
      BY <1>1, <2>2, <2>3
    <3> QED  BY <1>5, <2>3, <3>2, <3>3 DEF ShardInv, LineOK
  <2>7. Climbs(w, k, 0)'
    <3>1. w[0] = treeSize /\ w \in [Nat -> Nat]
      BY <1>3 DEF TreeIs, Widths
    <3>2. 0 .. 0 = {0} /\ 0 .. (0 - 1) = {}
      OBVIOUS
    <3>3. {<<j, w[j]>> : j \in 0 .. 0} = {<<0, treeSize>>}
      BY <3>1, <3>2
    <3> QED  BY <1>1, <2>2, <3>1, <3>2, <3>3 DEF Climbs
  <2>8. TreeIs(w)'
    <3>1. ASSUME NEW d \in Callers, call'[d].pc = "hashing"
          PROVE  \E m \in Nat : Climbs(w, call[d], m)'
      <4>1. CASE d = c
        BY <2>3, <2>7, <4>1
      <4>2. CASE d # c
        <5>1. PICK m \in Nat : Climbs(w, call[d], m)
          BY <1>3, <2>3, <3>1, <4>2 DEF TreeIs
        <5>2. call'[d] = call[d]
          BY <2>3, <4>2
        <5> QED  BY <1>1, <5>1, <5>2 DEF Climbs
      <4> QED  BY <4>1, <4>2
    <3> QED  BY <1>1, <1>3, <3>1 DEF TreeIs
  <2> QED  BY <1>2, <2>5, <2>6, <2>8 DEF ShardInv, TreeOK
<1> QED
  BY <1>4, <1>5 DEF BeginAppend

\* The nodes that an append needs are stored: it climbs one level, and never
\* ends half way.
LEMMA HashParentKeeps ==
  ASSUME ShardInv, NEW c \in Callers, HashParent(c)
  PROVE  ShardInv'
<1> DEFINE hashed == call[c].pending
           top == call[c].top
           left == <<top[1], top[2] - 1>>
           parent == <<top[1] + 1, top[2] \div 2>>
           node == HashNode(nodes[left], hashed[top])
<1>1. /\ call[c].pc = "hashing" /\ top[2] % 2 = 1
      /\ call[c].event \in Events /\ call[c].event \notin DOMAIN events /\ call[c].leaf = treeSize
      /\ UNCHANGED <<events, treeSize, nodes, checkpoints, now>>
  BY DEF HashParent, tables, ShardInv, CallsOK, CallOK
<1>2. TablesGrow /\ TablesOK' /\ NodesAreHashes'
  BY <1>1, UnchangedGrow DEF ShardInv, TreeOK, NodesAreHashes
<1>3. PICK w : TreeIs(w)
  BY DEF ShardInv, TreeOK
<1>4. PICK m \in Nat : Climbs(w, call[c], m)
  BY <1>1, <1>3 DEF TreeIs
<1>5. /\ w \in [Nat -> Nat] /\ w[m + 1] = w[m] \div 2
      /\ top = <<m, w[m]>> /\ top[1] = m /\ top[2] = w[m]
  BY <1>3, <1>4 DEF TreeIs, Widths, Climbs
<1>6. left \in DOMAIN nodes
  BY <1>1, <1>3, <1>5 DEF TreeIs, CompleteNodes
<1>7. PICK k : k = Hashing(call[c].event, call[c].leaf, parent, Put(hashed, parent, node))
  OBVIOUS
<1>8. /\ call' = [call EXCEPT ![c] = k] /\ appendTail' = appendTail
      /\ k.pc = "hashing" /\ k.kind = "append" /\ k.event = call[c].event /\ k.leaf = call[c].leaf
      /\ k.top = <<m + 1, w[m + 1]>>
      /\ k.pending = Put(hashed, <<m + 1, w[m + 1]>>, HashNode(nodes[<<m, w[m] - 1>>], hashed[<<m, w[m]>>]))
  BY <1>5, <1>6, <1>7 DEF HashParent, Hashing
<1>9. /\ DOMAIN call' = Callers /\ call'[c] = k
      /\ \A d \in Callers : d # c => call'[d] = call[d]
  BY <1>8 DEF ShardInv, CallsOK
<1>10. CallsOK'
  <2>1. CallOK(k)'
    BY <1>1, <1>8 DEF CallOK, Steps
  <2> QED  BY <1>1, <1>2, <1>8, <2>1, OthersStay
<1>11. LineOK'
  <2>1. \A i \in DOMAIN appendTail : i > 1 => appendTail[i] # c /\ appendTail[i] \in Callers
    BY <1>1 DEF ShardInv, LineOK
  <2>2. \A d \in Callers : call'[d].pc \in {"queued", "hashing"} <=> call[d].pc \in {"queued", "hashing"}
    BY <1>1, <1>8, <1>9
  <2> QED  BY <1>8, <1>9, <2>1, <2>2 DEF ShardInv, LineOK
<1>12. Climbs(w, k, m + 1)'
  <2>1. /\ DOMAIN k.pending = DOMAIN hashed \cup {<<m + 1, w[m + 1]>>}
        /\ k.pending[<<m + 1, w[m + 1]>>] = HashNode(nodes[<<m, w[m] - 1>>], hashed[<<m, w[m]>>])
        /\ \A x \in DOMAIN hashed : x # <<m + 1, w[m + 1]>> => k.pending[x] = hashed[x]
    BY <1>8 DEF Put
  <2>2. DOMAIN hashed = {<<j, w[j]>> : j \in 0 .. m}
    BY <1>4 DEF Climbs
  <2>3. DOMAIN k.pending = {<<j, w[j]>> : j \in 0 .. (m + 1)}
    <3>1. 0 .. (m + 1) = (0 .. m) \cup {m + 1}
      OBVIOUS
    <3> QED  BY <2>1, <2>2, <3>1
  <2>4. \A j \in 0 .. m : <<j, w[j]>> # <<m + 1, w[m + 1]>> /\ k.pending[<<j, w[j]>>] = hashed[<<j, w[j]>>]
    BY <2>1, <2>2
  <2>5. ASSUME NEW j \in 0 .. m
        PROVE  /\ w[j] % 2 = 1
               /\ k.pending[<<j + 1, w[j + 1]>>] = HashNode(nodes[<<j, w[j] - 1>>], k.pending[<<j, w[j]>>])
    <3>1. CASE j = m
      BY <1>1, <1>5, <2>1, <2>4, <3>1
    <3>2. CASE j # m
      <4>1. j \in 0 .. (m - 1) /\ j + 1 \in 0 .. m
        BY <3>2
      <4>2. /\ w[j] % 2 = 1
            /\ hashed[<<j + 1, w[j + 1]>>] = HashNode(nodes[<<j, w[j] - 1>>], hashed[<<j, w[j]>>])
        BY <1>4, <4>1 DEF Climbs
      <4>3. /\ k.pending[<<j + 1, w[j + 1]>>] = hashed[<<j + 1, w[j + 1]>>]
            /\ k.pending[<<j, w[j]>>] = hashed[<<j, w[j]>>]
        BY <2>4, <4>1
      <4> QED  BY <4>2, <4>3
    <3> QED  BY <3>1, <3>2
  <2>6. k.pending[<<0, w[0]>>] = HashLeaf(k.event)
    <3>1. 0 \in 0 .. m /\ hashed[<<0, w[0]>>] = HashLeaf(call[c].event)
      BY <1>4 DEF Climbs
    <3> QED  BY <1>8, <2>4, <3>1
  <2>7. (m + 1) - 1 = m
    OBVIOUS
  <2> QED  BY <1>1, <1>8, <2>3, <2>5, <2>6, <2>7 DEF Climbs
<1>13. TreeIs(w)'
  <2>1. ASSUME NEW d \in Callers, call'[d].pc = "hashing"
        PROVE  \E l \in Nat : Climbs(w, call[d], l)'
    <3>1. CASE d = c
      BY <1>9, <1>12, <3>1
    <3>2. CASE d # c
      BY <1>1, <1>9, <2>1, <3>2, OnlyTheFirstHashes
    <3> QED  BY <3>1, <3>2
  <2> QED  BY <1>1, <1>3, <2>1 DEF TreeIs
<1> QED
  BY <1>2, <1>10, <1>11, <1>13 DEF ShardInv, TreeOK

-----------------------------------------------------------------------------
(* The transaction that adds a leaf *)

\* The complete subtrees that a new leaf completes are those it climbed.
LEMMA WidthsGrow ==
  ASSUME NEW n \in Nat, NEW w \in Widths(n), NEW m \in Nat,
         \A j \in 0 .. (m - 1) : w[j] % 2 = 1, w[m] % 2 = 0,
         NEW v \in [Nat -> Nat], \A j \in Nat : v[j] = IF j <= m THEN w[j] + 1 ELSE w[j]
  PROVE  /\ v \in Widths(n + 1)
         /\ \A x : x \in CompleteNodes(v) <=>
                     x \in CompleteNodes(w) \/ \E j \in 0 .. m : x = <<j, w[j]>>
<1>1. w \in [Nat -> Nat] /\ w[0] = n /\ \A j \in Nat : w[j + 1] = w[j] \div 2
  BY DEF Widths
<1>2. v \in [Nat -> Nat] /\ v[0] = n + 1
  BY <1>1
<1>3. ASSUME NEW j \in Nat PROVE v[j + 1] = v[j] \div 2
  <2>1. w[j] \in Nat /\ w[j + 1] = w[j] \div 2
    BY <1>1
  <2>2. CASE j < m
    <3>1. w[j] % 2 = 1 /\ v[j] = w[j] + 1 /\ v[j + 1] = w[j + 1] + 1
      BY <1>1, <2>2
    <3> QED  BY <2>1, <3>1
  <2>3. CASE j = m
    <3>1. w[j] % 2 = 0 /\ v[j] = w[j] + 1 /\ v[j + 1] = w[j + 1]
      BY <1>1, <2>3
    <3> QED  BY <2>1, <3>1
  <2>4. CASE j > m
    BY <1>1, <2>1, <2>4
  <2> QED  BY <2>2, <2>3, <2>4
<1>4. v \in Widths(n + 1)
  BY <1>2, <1>3 DEF Widths
<1>5. ASSUME NEW x \in CompleteNodes(v)
      PROVE  x \in CompleteNodes(w) \/ \E j \in 0 .. m : x = <<j, w[j]>>
  <2>1. PICK j \in Nat, i \in Nat : x = <<j, i>>
    BY <1>5 DEF CompleteNodes
  <2>2. i < v[j] /\ w[j] \in Nat /\ v[j] = IF j <= m THEN w[j] + 1 ELSE w[j]
    BY <1>1, <1>5, <2>1 DEF CompleteNodes
  <2>3. CASE i < w[j]
    BY <2>1, <2>3 DEF CompleteNodes
  <2>4. CASE ~(i < w[j])
    <3>1. j \in 0 .. m /\ i = w[j]
      BY <2>1, <2>2, <2>4
    <3> QED  BY <2>1, <3>1
  <2> QED  BY <2>3, <2>4
<1>6. ASSUME NEW x \in CompleteNodes(w) PROVE x \in CompleteNodes(v)
  <2>1. PICK j \in Nat, i \in Nat : x = <<j, i>>
    BY <1>6 DEF CompleteNodes
  <2>2. i < w[j]
    BY <1>6, <2>1 DEF CompleteNodes
  <2>3. w[j] \in Nat
    BY <1>1, <2>1
  <2>4. v[j] = IF j <= m THEN w[j] + 1 ELSE w[j]
    BY <2>1
  <2>5. i < v[j]
    BY <2>1, <2>2, <2>3, <2>4
  <2> QED  BY <2>1, <2>5 DEF CompleteNodes
<1>7. ASSUME NEW j \in 0 .. m PROVE <<j, w[j]>> \in CompleteNodes(v)
  BY <1>1 DEF CompleteNodes
<1> QED
  BY <1>4, <1>5, <1>6, <1>7

LEMMA CommitAppendKeeps ==
  ASSUME ShardInv, NEW c \in Callers, CommitAppend(c)
  PROVE  ShardInv' /\ TablesGrow
<1> DEFINE e == call[c].event
           hashed == call[c].pending
           new == [leaf |-> treeSize, treeSize |-> treeSize + 1, duplicate |-> FALSE]
<1>1. /\ call[c].pc = "hashing" /\ call[c].kind = "append" /\ call[c].top[2] % 2 = 0
      /\ e \in Events /\ e \notin DOMAIN events /\ call[c].leaf = treeSize
      /\ UNCHANGED <<checkpoints, now>>
  BY DEF CommitAppend, ShardInv, CallsOK, CallOK
<1>2. PICK w : TreeIs(w)
  BY DEF ShardInv, TreeOK
<1>3. PICK m \in Nat : Climbs(w, call[c], m)
  BY <1>1, <1>2 DEF TreeIs
<1>4. /\ w \in Widths(treeSize) /\ w \in [Nat -> Nat] /\ w[0] = treeSize
      /\ \A j \in Nat : w[j + 1] = w[j] \div 2
      /\ \A j \in 0 .. (m - 1) : w[j] % 2 = 1
      /\ w[m] % 2 = 0
      /\ DOMAIN hashed = {<<j, w[j]>> : j \in 0 .. m}
      /\ DOMAIN nodes = CompleteNodes(w)
  <2>1. call[c].top[2] = w[m]
    BY <1>3 DEF Climbs
  <2> QED  BY <1>1, <1>2, <1>3, <2>1 DEF TreeIs, Widths, Climbs
<1>5. DOMAIN hashed \cap DOMAIN nodes = {}
  BY <1>4 DEF CompleteNodes
<1>6. \A f \in DOMAIN events : events[f] # treeSize /\ events[f] \in 0 .. (treeSize - 1)
  BY DEF ShardInv, TablesOK, EventsAreLeaves
<1>7. /\ events' = Put(events, e, treeSize)
      /\ nodes' = [x \in DOMAIN nodes \cup DOMAIN hashed |-> IF x \in DOMAIN hashed THEN hashed[x] ELSE nodes[x]]
      /\ treeSize' = treeSize + 1
      /\ Release(c, "OK", new)
  BY <1>1, <1>5, <1>6 DEF CommitAppend
<1>8. /\ DOMAIN events' = DOMAIN events \cup {e} /\ events'[e] = treeSize
      /\ \A f \in DOMAIN events : events'[f] = events[f]
  BY <1>1, <1>7 DEF Put
<1>9. /\ DOMAIN nodes' = DOMAIN nodes \cup DOMAIN hashed
      /\ \A x \in DOMAIN hashed : nodes'[x] = hashed[x]
      /\ \A x \in DOMAIN nodes : nodes'[x] = nodes[x]
  BY <1>5, <1>7
<1>10. PICK k : k = Replied(c, "OK", new)
  OBVIOUS
<1>11. /\ call' = [call EXCEPT ![c] = k] /\ appendTail' = Tail(appendTail)
       /\ k.pc = "replied" /\ k.kind = "append" /\ k.event = e /\ k.code = "OK"
       /\ k.body.leaf = treeSize /\ k.body.treeSize = treeSize + 1
  BY <1>1, <1>7, <1>10 DEF Release, Reply, Replied
<1>12. TablesGrow
  BY <1>1, <1>7, <1>8 DEF TablesGrow, ShardInv, TablesOK
<1>13. TablesOK'
  <2>1. treeSize \in Nat /\ IsFiniteSet(DOMAIN events) /\ Cardinality(DOMAIN events) = treeSize
    BY DEF ShardInv, TablesOK, EventsAreLeaves
  <2>2. IsFiniteSet(DOMAIN events') /\ Cardinality(DOMAIN events') = treeSize'
    BY <1>1, <1>7, <1>8, <2>1, FS_AddElement
  <2>3. \A f \in DOMAIN events' : events'[f] \in 0 .. (treeSize' - 1)
    BY <1>6, <1>7, <1>8, <2>1
  <2>4. \A i \in 0 .. (treeSize' - 1) : \E f \in DOMAIN events' : events'[f] = i
    <3> SUFFICES ASSUME NEW i \in 0 .. treeSize PROVE \E f \in DOMAIN events' : events'[f] = i
      BY <1>7, <2>1
    <3>1. CASE i = treeSize
      BY <1>8, <3>1
    <3>2. CASE i # treeSize
      <4>1. i \in 0 .. (treeSize - 1)
        BY <2>1, <3>2
      <4>2. PICK f \in DOMAIN events : events[f] = i
        BY <4>1 DEF ShardInv, TablesOK, EventsAreLeaves
      <4> QED  BY <1>8, <4>2
    <3> QED  BY <3>1, <3>2
  <2>5. \A f, g \in DOMAIN events' : events'[f] = events'[g] => f = g
    BY <1>6, <1>8 DEF ShardInv, TablesOK, EventsAreLeaves
  <2>6. EventsAreLeaves'
    BY <2>2, <2>3, <2>4, <2>5 DEF EventsAreLeaves
  <2> QED  BY <1>1, <1>7, <2>1, <2>6 DEF ShardInv, TablesOK
<1>14. LineOK' /\ \A d \in Callers : call'[d].pc # "hashing"
  BY <1>1, <1>11, OnlyTheFirstHashes, LineMovesUp
<1>15. CallsOK'
  <2>1. treeSize \in Nat
    BY DEF ShardInv, TablesOK
  <2>2. CallOK(k)'
    BY <1>7, <1>8, <1>11, <2>1 DEF CallOK, AnswerOK, Acknowledged, Steps, Kinds
  <2>3. \A d \in Callers : d # c => call[d].pc # "hashing"
    BY <1>1, OnlyTheFirstHashes
  <2> QED  BY <1>11, <1>12, <2>2, <2>3, OthersStay
<1>16. \E v : TreeIs(v)'
  <2>1. PICK v \in [Nat -> Nat] : \A j \in Nat : v[j] = IF j <= m THEN w[j] + 1 ELSE w[j]
    <3>1. [j \in Nat |-> IF j <= m THEN w[j] + 1 ELSE w[j]] \in [Nat -> Nat]
      BY <1>4
    <3> QED  BY <3>1
  <2>2. treeSize \in Nat
    BY DEF ShardInv, TablesOK
  <2>3. /\ v \in Widths(treeSize + 1)
        /\ \A x : x \in CompleteNodes(v) <=>
                    x \in CompleteNodes(w) \/ \E j \in 0 .. m : x = <<j, w[j]>>
    <3>1. /\ w \in Widths(treeSize)
          /\ \A j \in 0 .. (m - 1) : w[j] % 2 = 1
          /\ w[m] % 2 = 0
      BY <1>4
    <3> QED  BY <1>3, <2>1, <2>2, <3>1, WidthsGrow
  <2>4. TreeIs(v)'
    BY <1>4, <1>7, <1>9, <1>14, <2>3 DEF TreeIs
  <2> QED  BY <2>4
<1>17. NodesAreHashes'
  <2> SUFFICES ASSUME NEW x \in DOMAIN nodes'
               PROVE  IF x[1] = 0
                        THEN \E f \in DOMAIN events' : events'[f] = x[2] /\ nodes'[x] = HashLeaf(f)
                        ELSE /\ <<x[1] - 1, 2 * x[2]>> \in DOMAIN nodes'
                             /\ <<x[1] - 1, 2 * x[2] + 1>> \in DOMAIN nodes'
                             /\ nodes'[x] = HashNode(nodes'[<<x[1] - 1, 2 * x[2]>>],
                                                     nodes'[<<x[1] - 1, 2 * x[2] + 1>>])
    BY DEF NodesAreHashes
  <2>1. CASE x \in DOMAIN nodes
    BY <1>8, <1>9, <2>1 DEF ShardInv, TreeOK, NodesAreHashes
  <2>2. CASE x \in DOMAIN hashed
    <3>1. PICK j \in 0 .. m : x = <<j, w[j]>>
      BY <1>4, <2>2
    <3>2. x[1] = j /\ x[2] = w[j] /\ nodes'[x] = hashed[x]
      BY <1>9, <2>2, <3>1
    <3>3. CASE j = 0
      <4>1. hashed[x] = HashLeaf(e) /\ x[2] = treeSize
        BY <1>3, <1>4, <3>1, <3>2, <3>3 DEF Climbs
      <4> QED  BY <1>8, <3>2, <3>3, <4>1
    <3>4. CASE j # 0
      <4> DEFINE i == j - 1
      <4>1. i \in 0 .. (m - 1) /\ i \in 0 .. m /\ i \in Nat /\ i + 1 = j
        BY <3>4
      <4>2. w[i] \in Nat /\ w[i] % 2 = 1 /\ w[j] = w[i] \div 2
        BY <1>4, <4>1
      <4>3. 2 * w[j] = w[i] - 1 /\ 2 * w[j] + 1 = w[i] /\ w[i] - 1 \in Nat /\ w[i] - 1 < w[i]
        BY <4>2
      <4>4. <<i, w[i] - 1>> \in DOMAIN nodes
        BY <1>4, <4>1, <4>3 DEF CompleteNodes
      <4>5. <<i, w[i]>> \in DOMAIN hashed
        BY <1>4, <4>1
      <4>6. hashed[<<i + 1, w[i + 1]>>] = HashNode(nodes[<<i, w[i] - 1>>], hashed[<<i, w[i]>>])
        BY <1>3, <4>1 DEF Climbs
      <4>7. hashed[x] = HashNode(nodes'[<<i, w[i] - 1>>], nodes'[<<i, w[i]>>])
        BY <1>9, <3>1, <4>1, <4>4, <4>5, <4>6
      <4>8. <<i, w[i] - 1>> \in DOMAIN nodes' /\ <<i, w[i]>> \in DOMAIN nodes'
        BY <1>9, <4>4, <4>5
      <4> HIDE DEF i
      <4> QED  BY <3>2, <3>4, <4>1, <4>3, <4>7, <4>8
    <3> QED  BY <3>3, <3>4
  <2> QED  BY <1>9, <2>1, <2>2
<1> QED
  BY <1>12, <1>13, <1>14, <1>15, <1>16, <1>17 DEF ShardInv, TreeOK

-----------------------------------------------------------------------------
(* Checkpoints, proofs, restarts and time *)

\* A checkpoint in hand is answered, or a path is computed for it.
LEMMA WithCheckpointMoves ==
  ASSUME NEW c \in Callers, NEW size, NEW stored, WithCheckpoint(c, size, stored),
         call[c].kind \in {"checkpoint", "prove"},
         size \in DOMAIN checkpoints', stored = checkpoints'[size],
         call[c].kind = "prove" => call[c].event \in DOMAIN events'
  PROVE  \E k : call' = [call EXCEPT ![c] = k] /\ k.pc \notin {"queued", "hashing"} /\ CallOK(k)'
<1> DEFINE s == [size |-> size, root |-> stored.root, at |-> stored.at]
<1>1. IsStated(s)'
  BY DEF IsStated
<1>2. CASE call[c].kind = "checkpoint"
  <2>1. PICK k : k = Replied(c, "OK", s)
    OBVIOUS
  <2>2. call' = [call EXCEPT ![c] = k] /\ k.pc = "replied" /\ k.kind = "checkpoint" /\ k.code = "OK" /\ k.body = s
    BY <1>2, <2>1 DEF WithCheckpoint, Reply, Replied
  <2>3. IsStated(k.body)'
    BY <1>1, <2>2
  <2>4. CallOK(k)'
    BY <2>2, <2>3 DEF CallOK, AnswerOK, Steps, Kinds
  <2> QED  BY <2>2, <2>4
<1>3. CASE call[c].kind = "prove"
  <2>1. PICK k : k = [pc |-> "proving", kind |-> "prove", event |-> call[c].event, checkpoint |-> s]
    OBVIOUS
  <2>2. /\ call' = [call EXCEPT ![c] = k] /\ k.pc = "proving" /\ k.kind = "prove"
        /\ k.event = call[c].event /\ k.checkpoint = s
    BY <1>3, <2>1 DEF WithCheckpoint
  <2>3. IsStated(k.checkpoint)'
    BY <1>1, <2>2
  <2>4. CallOK(k)'
    BY <1>3, <2>2, <2>3 DEF CallOK, Steps
  <2> QED  BY <2>2, <2>4
<1> QED
  BY <1>2, <1>3

LEMMA RequestCheckpointKeeps ==
  ASSUME ShardInv, NEW c \in Callers, RequestCheckpoint(c)
  PROVE  ShardInv' /\ TablesGrow
<1>1. PICK k : k = [pc |-> "asked", kind |-> "checkpoint", event |-> NULL, at |-> now]
  OBVIOUS
<1>2. /\ call' = [call EXCEPT ![c] = k] /\ call[c].pc \in {"idle", "replied"}
      /\ UNCHANGED <<events, treeSize, nodes, checkpoints, appendTail, now>>
  BY <1>1 DEF RequestCheckpoint, Free, tables
<1>3. TablesGrow /\ TablesOK'
  BY <1>2, UnchangedGrow DEF ShardInv
<1>4. CallOK(k)'
  BY <1>1, <1>2 DEF CallOK, Steps, ShardInv, TablesOK
<1> QED
  BY <1>1, <1>2, <1>3, <1>4, OtherCallMoves

LEMMA RequestProofKeeps ==
  ASSUME ShardInv, NEW c \in Callers, NEW e \in Events, RequestProof(c, e)
  PROVE  ShardInv' /\ TablesGrow
<1>1. PICK k : k = [pc |-> "asked", kind |-> "prove", event |-> e, at |-> now]
  OBVIOUS
<1>2. /\ call' = [call EXCEPT ![c] = k] /\ call[c].pc \in {"idle", "replied"}
      /\ UNCHANGED <<events, treeSize, nodes, checkpoints, appendTail, now>>
  BY <1>1 DEF RequestProof, Free, tables
<1>3. TablesGrow /\ TablesOK'
  BY <1>2, UnchangedGrow DEF ShardInv
<1>4. CallOK(k)'
  BY <1>1, <1>2 DEF CallOK, Steps, ShardInv, TablesOK
<1> QED
  BY <1>1, <1>2, <1>3, <1>4, OtherCallMoves

LEMMA BeginKeeps ==
  ASSUME ShardInv, NEW c \in Callers, Begin(c)
  PROVE  ShardInv' /\ TablesGrow
<1>1. /\ call[c].pc = "asked" /\ call[c].kind \in {"checkpoint", "prove"} /\ call[c].at \in 0 .. now
      /\ UNCHANGED <<events, treeSize, nodes, checkpoints, appendTail, now>>
  BY DEF Begin, tables, ShardInv, CallsOK, CallOK
<1>2. TablesGrow /\ TablesOK'
  BY <1>1, UnchangedGrow DEF ShardInv
<1>3. \E k : call' = [call EXCEPT ![c] = k] /\ k.pc \notin {"queued", "hashing"} /\ CallOK(k)'
  <2>1. CASE call[c].kind = "prove" /\ call[c].event \notin DOMAIN events /\ Reply(c, "NOT_FOUND", NULL)
    <3>1. PICK k : k = Replied(c, "NOT_FOUND", NULL)
      OBVIOUS
    <3>2. call' = [call EXCEPT ![c] = k] /\ k.pc = "replied" /\ k.kind = "prove" /\ k.code = "NOT_FOUND"
      BY <2>1, <3>1 DEF Reply, Replied
    <3>3. CallOK(k)'
      BY <3>2 DEF CallOK, AnswerOK, Steps, Kinds
    <3> QED  BY <3>2, <3>3
  <2>2. CASE /\ call[c].kind = "prove" => call[c].event \in DOMAIN events
             /\ treeSize \in DOMAIN checkpoints
             /\ WithCheckpoint(c, treeSize, checkpoints[treeSize])
    <3>1. PICK size, stored : size = treeSize /\ stored = checkpoints[treeSize]
      OBVIOUS
    <3>2. WithCheckpoint(c, size, stored)
      BY <2>2, <3>1
    <3> QED  BY <1>1, <2>2, <3>1, <3>2, WithCheckpointMoves
  <2>3. CASE /\ call[c].kind = "prove" => call[c].event \in DOMAIN events
             /\ call' = [call EXCEPT ![c] = [pc |-> "rooting", kind |-> call[c].kind,
                                             event |-> call[c].event, at |-> call[c].at,
                                             size |-> treeSize]]
    <3>1. PICK k : k = [pc |-> "rooting", kind |-> call[c].kind, event |-> call[c].event,
                        at |-> call[c].at, size |-> treeSize]
      OBVIOUS
    <3>2. treeSize \in 0 .. treeSize
      BY DEF ShardInv, TablesOK
    <3>3. CallOK(k)'
      BY <1>1, <2>3, <3>1, <3>2 DEF CallOK, Steps
    <3> QED  BY <2>3, <3>1, <3>3
  <2> QED  BY <2>1, <2>2, <2>3 DEF Begin
<1> QED
  BY <1>1, <1>2, <1>3, OtherCallMoves

\* The first checkpoint of a size is kept for good.
LEMMA StoreCheckpointKeeps ==
  ASSUME ShardInv, NEW c \in Callers, StoreCheckpoint(c)
  PROVE  ShardInv' /\ TablesGrow
<1>1. PICK size, at : size = call[c].size /\ at = call[c].at
  OBVIOUS
<1>2. /\ call[c].pc = "rooting" /\ call[c].kind \in {"checkpoint", "prove"}
      /\ at \in 0 .. now /\ size \in 0 .. treeSize
      /\ call[c].kind = "prove" => call[c].event \in DOMAIN events
      /\ UNCHANGED <<events, treeSize, nodes, appendTail, now>>
  BY <1>1 DEF StoreCheckpoint, ShardInv, CallsOK, CallOK
<1>3. PICK row : row = [root |-> TreeRoot(nodes, size), at |-> at]
  OBVIOUS
<1>4. checkpoints' = IF size \in DOMAIN checkpoints THEN checkpoints ELSE Put(checkpoints, size, row)
  BY <1>1, <1>3 DEF StoreCheckpoint, Stored, PutNew
<1>5. /\ DOMAIN checkpoints' = DOMAIN checkpoints \cup {size}
      /\ \A n \in DOMAIN checkpoints : checkpoints'[n] = checkpoints[n]
      /\ size \notin DOMAIN checkpoints => checkpoints'[size] = row
  BY <1>4 DEF Put
<1>6. TablesGrow
  BY <1>2, <1>5 DEF TablesGrow, ShardInv, TablesOK
<1>7. TablesOK'
  <2>1. \A n \in DOMAIN checkpoints' : checkpoints'[n].at \in 0 .. now
    BY <1>2, <1>3, <1>5 DEF ShardInv, TablesOK
  <2> QED  BY <1>2, <1>5, <2>1 DEF ShardInv, TablesOK, EventsAreLeaves
<1>8. PICK stored : stored = checkpoints'[size]
  OBVIOUS
<1>9. WithCheckpoint(c, size, stored)
  BY <1>1, <1>8 DEF StoreCheckpoint
<1>10. \E k : call' = [call EXCEPT ![c] = k] /\ k.pc \notin {"queued", "hashing"} /\ CallOK(k)'
  BY <1>2, <1>5, <1>8, <1>9, WithCheckpointMoves
<1> QED
  BY <1>2, <1>6, <1>7, <1>10, OtherCallMoves

LEMMA ProveKeeps ==
  ASSUME ShardInv, NEW c \in Callers, Prove(c)
  PROVE  ShardInv' /\ TablesGrow
<1>1. /\ call[c].pc = "proving" /\ call[c].kind = "prove" /\ call[c].event \in DOMAIN events
      /\ IsStated(call[c].checkpoint)
      /\ UNCHANGED <<events, treeSize, nodes, checkpoints, appendTail, now>>
  BY DEF Prove, tables, ShardInv, CallsOK, CallOK
<1>2. TablesGrow /\ TablesOK'
  BY <1>1, UnchangedGrow DEF ShardInv
<1>3. PICK path : path = ProofPath(c)
  OBVIOUS
<1>4. PICK k : k = Replied(c, "OK", [leaf |-> events[call[c].event], auditPath |-> path,
                                     checkpoint |-> call[c].checkpoint])
  OBVIOUS
<1>5. /\ call' = [call EXCEPT ![c] = k] /\ k.pc = "replied" /\ k.kind = "prove"
      /\ k.event = call[c].event /\ k.body.leaf = events[k.event] /\ k.body.checkpoint = call[c].checkpoint
  BY <1>1, <1>3, <1>4 DEF Prove, Reply, Replied
<1>6. CallOK(k)'
  BY <1>1, <1>5 DEF CallOK, AnswerOK, IsStated, Steps, Kinds
<1> QED
  BY <1>1, <1>2, <1>5, <1>6, OtherCallMoves

LEMMA RestartKeeps ==
  ASSUME ShardInv, Restart
  PROVE  ShardInv' /\ TablesGrow
<1>1. /\ call' = [c \in Callers |-> IF Free(c) THEN call[c] ELSE Idle] /\ appendTail' = << >>
      /\ UNCHANGED <<events, treeSize, nodes, checkpoints, now>>
  BY DEF Restart, tables
<1>2. TablesGrow /\ TablesOK'
  BY <1>1, UnchangedGrow DEF ShardInv
<1>3. \A c \in Callers : call'[c].pc \in {"idle", "replied"} /\ (call'[c] = call[c] \/ call'[c] = Idle)
  BY <1>1 DEF Free, Idle
<1>4. CallsOK'
  <2>1. ASSUME NEW c \in Callers PROVE CallOK(call[c])'
    <3>1. PICK k : k = call[c]
      OBVIOUS
    <3>2. CallOK(k)'
      BY <1>1, <1>2, <3>1, CallStays DEF ShardInv, CallsOK
    <3>3. CASE call'[c] = k
      BY <3>2, <3>3
    <3>4. CASE call'[c] = Idle
      BY <3>4 DEF CallOK, Idle, Steps
    <3> QED  BY <1>3, <3>1, <3>3, <3>4
  <2> QED  BY <1>1, <2>1 DEF CallsOK
<1>5. LineOK'
  BY <1>1, <1>3 DEF LineOK
<1>6. TreeOK'
  BY <1>1, <1>3 DEF ShardInv, TreeOK, TreeIs, NodesAreHashes
<1> QED
  BY <1>2, <1>4, <1>5, <1>6 DEF ShardInv

LEMMA TickKeeps ==
  ASSUME ShardInv, Tick
  PROVE  ShardInv' /\ TablesGrow
<1>1. now' = now + 1 /\ UNCHANGED <<events, treeSize, nodes, checkpoints, appendTail, call>>
  BY DEF Tick, tables
<1>2. TablesGrow
  BY <1>1 DEF TablesGrow, ShardInv, TablesOK
<1>3. TablesOK'
  BY <1>1 DEF ShardInv, TablesOK, EventsAreLeaves
<1>4. CallsOK'
  <2>1. ASSUME NEW c \in Callers PROVE CallOK(call[c])'
    <3>1. PICK k : k = call[c]
      OBVIOUS
    <3>2. CallOK(k)'
      BY <1>1, <1>2, <3>1, CallStays DEF ShardInv, CallsOK
    <3> QED  BY <1>1, <3>1, <3>2
  <2> QED  BY <1>1, <2>1 DEF ShardInv, CallsOK
<1>5. LineOK'
  BY <1>1 DEF ShardInv, LineOK
<1>6. TreeOK'
  <2>1. PICK w : TreeIs(w)
    BY DEF ShardInv, TreeOK
  <2>2. TreeIs(w)'
    BY <1>1, <2>1 DEF TreeIs, Climbs
  <2> QED  BY <1>1, <2>1, <2>2 DEF ShardInv, TreeOK, NodesAreHashes
<1> QED
  BY <1>2, <1>3, <1>4, <1>5, <1>6 DEF ShardInv

\* Whatever the shard does.
LEMMA ShardStepKeeps ==
  ASSUME ShardInv,
         (\E c \in Callers : Request(c) \/ Proceed(c)) \/ Restart \/ Tick
  PROVE  ShardInv' /\ TablesGrow
<1>1. ASSUME NEW c \in Callers, NEW e \in Events, RequestAppend(c, e) PROVE TablesGrow
  BY <1>1, UnchangedGrow DEF RequestAppend, tables, ShardInv
<1>2. ASSUME NEW c \in Callers, BeginAppend(c) \/ HashParent(c) PROVE TablesGrow
  BY <1>2, UnchangedGrow DEF BeginAppend, HashParent, tables, ShardInv
<1> QED
  BY <1>1, <1>2, RequestAppendKeeps, BeginAppendKeeps, HashParentKeeps, CommitAppendKeeps,
     RequestCheckpointKeeps, RequestProofKeeps, BeginKeeps, StoreCheckpointKeeps, ProveKeeps,
     RestartKeeps, TickKeeps
     DEF Request, Proceed

\* A step of a request leaves the other requests alone, and what it is about.
LEMMA RequestsAreApart ==
  ASSUME ShardInv, NEW c \in Callers, Request(c) \/ Proceed(c)
  PROVE  /\ DOMAIN call' = Callers
         /\ \A d \in Callers : d # c => call'[d] = call[d]
         /\ Proceed(c) => call'[c].kind = call[c].kind
<1>1. DOMAIN call = Callers
  BY DEF ShardInv, CallsOK
<1>2. CASE Request(c)
  <2>1. ~Proceed(c)
    BY <1>2 DEF Request, RequestAppend, RequestProof, RequestCheckpoint, Free, Proceed, BeginAppend,
                HashParent, CommitAppend, Begin, StoreCheckpoint, Prove
  <2>2. \E k : call' = [call EXCEPT ![c] = k]
    BY <1>2 DEF Request, RequestAppend, RequestProof, RequestCheckpoint
  <2> QED  BY <1>1, <2>1, <2>2
<1>3. CASE Proceed(c)
  <2> SUFFICES \E k : call' = [call EXCEPT ![c] = k] /\ k.kind = call[c].kind
    BY <1>1
  <2>1. CallOK(call[c])
    BY DEF ShardInv, CallsOK
  <2>2. ASSUME NEW code, NEW body, Reply(c, code, body)
        PROVE  \E k : call' = [call EXCEPT ![c] = k] /\ k.kind = call[c].kind
    <3>1. PICK k : k = Replied(c, code, body)
      OBVIOUS
    <3>2. call' = [call EXCEPT ![c] = k] /\ k.kind = call[c].kind
      BY <2>2, <3>1 DEF Reply, Replied
    <3> QED  BY <3>2
  <2>3. ASSUME NEW size, NEW stored, WithCheckpoint(c, size, stored),
               call[c].kind \in {"checkpoint", "prove"}
        PROVE  \E k : call' = [call EXCEPT ![c] = k] /\ k.kind = call[c].kind
    BY <2>2, <2>3 DEF WithCheckpoint
  <2>4. CASE BeginAppend(c)
    BY <2>1, <2>2, <2>4 DEF BeginAppend, Release, Hashing, CallOK
  <2>5. CASE HashParent(c)
    BY <2>1, <2>2, <2>5 DEF HashParent, Release, Hashing, CallOK
  <2>6. CASE CommitAppend(c)
    BY <2>2, <2>6 DEF CommitAppend, Release
  <2>7. CASE Begin(c)
    BY <2>1, <2>2, <2>3, <2>7 DEF Begin, CallOK
  <2>8. CASE StoreCheckpoint(c)
    BY <2>1, <2>3, <2>8 DEF StoreCheckpoint, CallOK
  <2>9. CASE Prove(c)
    BY <2>2, <2>9 DEF Prove
  <2> QED  BY <1>3, <2>4, <2>5, <2>6, <2>7, <2>8, <2>9 DEF Proceed
<1> QED
  BY <1>2, <1>3

-----------------------------------------------------------------------------
(* The publications of a shard *)

Backed(s) ==
  /\ ArtifactKey(s) \in DOMAIN immutable
  /\ immutable[ArtifactKey(s)].checkpoint = s.checkpoint

\* A signed statement of the shard, by a key that was in use.
SignedOK(s) ==
  /\ IsStated(s.checkpoint)
  /\ s.kid \in 0 .. signerKid
  /\ s = [checkpoint |-> s.checkpoint, kid |-> s.kid]

\* A publication that waits has asked for a checkpoint, or its call was lost;
\* one that writes, writes a statement of the shard.
PublicationOK(p, k) ==
  /\ p.pc # "none" => p.kid \in 0 .. signerKid
  /\ p.pc = "waiting" => k.pc = "idle" \/ k.kind = "checkpoint"
  /\ p.pc \in {"immutable", "latest"} => SignedOK(p.statement)
  /\ p.pc = "latest" => Backed(p.statement)

BucketOK ==
  /\ signerKid \in Nat
  /\ \A key \in DOMAIN immutable : SignedOK(immutable[key]) /\ key = ArtifactKey(immutable[key])
  /\ latest # NULL => Backed(latest)

PublicationInv ==
  /\ DOMAIN publication = Callers
  /\ \A c \in Callers : PublicationOK(publication[c], call[c])
  /\ BucketOK

OneShardInv == ShardInv /\ PublicationInv

\* The key only moves on, and the artifacts stay: their checkpoints, and their
\* bytes as long as the first key is in use.
Kept ==
  /\ signerKid \in Nat /\ signerKid' \in Nat /\ signerKid <= signerKid'
  /\ \A key \in DOMAIN immutable :
       /\ key \in DOMAIN immutable'
       /\ immutable'[key].checkpoint = immutable[key].checkpoint
       /\ signerKid = 0 => immutable'[key] = immutable[key]

\* A shard states one checkpoint of a size.
LEMMA OneStatementOfASize ==
  ASSUME NEW s, NEW t, IsStated(s), IsStated(t), s.size = t.size
  PROVE  s = t
BY DEF IsStated

LEMMA BackedStays ==
  ASSUME Kept, NEW s, Backed(s)
  PROVE  Backed(s)'
BY DEF Kept, Backed, ArtifactKey

LEMMA SignedStays ==
  ASSUME TablesGrow, Kept, NEW s, SignedOK(s)
  PROVE  SignedOK(s)'
<1>1. IsStated(s.checkpoint)'
  BY StatedStays DEF SignedOK
<1> QED
  BY <1>1 DEF SignedOK, Kept

LEMMA PublicationStays ==
  ASSUME TablesGrow, Kept, NEW p, NEW k, PublicationOK(p, k)
  PROVE  /\ PublicationOK(p, k)'
         /\ \A kk : (p.pc = "waiting" => kk.pc = "idle" \/ (kk.kind = k.kind /\ k.pc # "idle"))
                      => PublicationOK(p, kk)'
<1>1. p.pc \in {"immutable", "latest"} => SignedOK(p.statement)'
  BY SignedStays DEF PublicationOK
<1>2. p.pc = "latest" => Backed(p.statement)'
  BY BackedStays DEF PublicationOK
<1>3. p.pc # "none" => (p.kid \in 0 .. signerKid)'
  BY DEF PublicationOK, Kept
<1> QED
  BY <1>1, <1>2, <1>3 DEF PublicationOK

LEMMA BucketStays ==
  ASSUME TablesGrow, BucketOK, UNCHANGED <<immutable, latest>>,
         signerKid' \in Nat, signerKid <= signerKid'
  PROVE  BucketOK' /\ Kept
<1>1. Kept
  BY DEF Kept, BucketOK
<1>2. \A key \in DOMAIN immutable : SignedOK(immutable[key])'
  <2> SUFFICES ASSUME NEW key \in DOMAIN immutable PROVE SignedOK(immutable[key])'
    OBVIOUS
  <2>1. PICK s : s = immutable[key]
    OBVIOUS
  <2>2. SignedOK(s)'
    BY <1>1, <2>1, SignedStays DEF BucketOK
  <2> QED  BY <2>1, <2>2
<1> QED
  BY <1>1, <1>2 DEF BucketOK, Backed, ArtifactKey

\* One publication moves, and the others and their calls stay as they are.
LEMMA PublicationMoves ==
  ASSUME OneShardInv, NEW c \in Callers, NEW p, publication' = [publication EXCEPT ![c] = p],
         TablesGrow, Kept, BucketOK',
         \A d \in Callers : d # c => call'[d] = call[d],
         PublicationOK(p, call[c])'
  PROVE  PublicationInv'
<1>2. /\ DOMAIN publication' = Callers /\ publication'[c] = p
      /\ \A d \in Callers : d # c => publication'[d] = publication[d]
  BY DEF OneShardInv, PublicationInv
<1>3. ASSUME NEW d \in Callers, d # c PROVE PublicationOK(publication[d], call[d])'
  <2>1. PICK q, k : q = publication[d] /\ k = call[d] /\ PublicationOK(q, k)
    BY DEF OneShardInv, PublicationInv
  <2>2. PublicationOK(q, k)'
    BY <2>1, PublicationStays
  <2> QED  BY <1>2, <1>3, <2>1, <2>2
<1>4. PublicationOK(publication[c], call[c])'
  BY <1>2
<1> QED
  BY <1>2, <1>3, <1>4 DEF PublicationInv

-----------------------------------------------------------------------------

LEMMA UnchangedShard ==
  ASSUME ShardInv, UNCHANGED <<events, treeSize, nodes, checkpoints, appendTail, call, now>>
  PROVE  ShardInv'
<1>1. TablesOK' /\ LineOK'
  <2>1. TablesOK'
    BY DEF ShardInv, TablesOK, EventsAreLeaves
  <2>2. LineOK'
    BY DEF ShardInv, LineOK
  <2> QED  BY <2>1, <2>2
<1>2. CallsOK'
  <2>1. TablesOK /\ TablesGrow
    BY UnchangedGrow DEF ShardInv
  <2>2. ASSUME NEW d \in Callers PROVE CallOK(call[d])'
    <3>1. PICK k : k = call[d] /\ CallOK(k)
      BY DEF ShardInv, CallsOK
    <3>2. CallOK(k)'
      BY <2>1, <3>1, CallStays
    <3> QED  BY <3>1, <3>2
  <2> QED  BY <2>2 DEF ShardInv, CallsOK
<1>3. TreeOK'
  <2>1. PICK w : TreeIs(w)
    BY DEF ShardInv, TreeOK
  <2>2. TreeIs(w)'
    BY <2>1 DEF TreeIs, Climbs
  <2> QED  BY <2>2 DEF ShardInv, TreeOK, NodesAreHashes
<1> QED
  BY <1>1, <1>2, <1>3 DEF ShardInv

LEMMA StartPublicationKeeps ==
  ASSUME OneShardInv, NEW c \in Callers, StartPublication(c)
  PROVE  OneShardInv' /\ Kept /\ TablesGrow
<1> DEFINE p == [pc |-> "waiting", kid |-> signerKid, statement |-> NULL]
<1>1. /\ ShardInv' /\ TablesGrow /\ RequestCheckpoint(c)
      /\ publication' = [publication EXCEPT ![c] = p]
      /\ UNCHANGED <<signerKid, immutable, latest>>
  BY RequestCheckpointKeeps DEF StartPublication, OneShardInv
<1>2. /\ call'[c].kind = "checkpoint"
      /\ \A d \in Callers : d # c => call'[d] = call[d]
  BY <1>1 DEF RequestCheckpoint, OneShardInv, ShardInv, CallsOK
<1>3. BucketOK' /\ Kept
  BY <1>1, BucketStays DEF OneShardInv, PublicationInv, BucketOK
<1>4. PICK q : q = p
  OBVIOUS
<1>5. PublicationOK(q, call[c])'
  BY <1>1, <1>2, <1>4 DEF PublicationOK, OneShardInv, PublicationInv, BucketOK
<1> HIDE DEF p
<1> QED
  BY <1>1, <1>2, <1>3, <1>4, <1>5, PublicationMoves DEF OneShardInv

LEMMA SignCheckpointKeeps ==
  ASSUME OneShardInv, NEW c \in Callers, SignCheckpoint(c)
  PROVE  OneShardInv' /\ Kept /\ TablesGrow
<1>1. /\ publication[c].pc = "waiting" /\ call[c].pc = "replied"
      /\ publication' = [publication EXCEPT ![c] =
            [pc |-> "immutable", kid |-> publication[c].kid,
             statement |-> [checkpoint |-> call[c].body, kid |-> publication[c].kid]]]
      /\ call' = [call EXCEPT ![c] = Idle]
      /\ UNCHANGED <<events, treeSize, nodes, checkpoints, appendTail, now, signerKid,
                     immutable, latest>>
  BY DEF SignCheckpoint, MovesTo, tables
<1>2. PICK s, p : /\ s = [checkpoint |-> call[c].body, kid |-> publication[c].kid]
                  /\ p = [pc |-> "immutable", kid |-> publication[c].kid, statement |-> s]
  OBVIOUS
<1>3. SignedOK(s) /\ p.kid \in 0 .. signerKid
  <2>1. IsStated(call[c].body)
    BY <1>1 DEF OneShardInv, PublicationInv, PublicationOK, ShardInv, CallsOK, CallOK, AnswerOK
  <2> QED  BY <1>1, <1>2, <2>1 DEF OneShardInv, PublicationInv, PublicationOK, SignedOK
<1>4. TablesGrow /\ TablesOK' /\ BucketOK' /\ Kept
  BY <1>1, UnchangedGrow, BucketStays DEF OneShardInv, PublicationInv, BucketOK, ShardInv
<1>5. ShardInv'
  <2>1. PICK k : k = Idle
    OBVIOUS
  <2>2. CallOK(k)'
    BY <2>1 DEF CallOK, Idle, Steps
  <2> QED  BY <1>1, <1>4, <2>1, <2>2, OtherCallMoves DEF OneShardInv, Idle
<1>6. PublicationOK(p, call[c])'
  BY <1>1, <1>2, <1>3, <1>4, SignedStays DEF PublicationOK
<1>7. \A d \in Callers : d # c => call'[d] = call[d]
  BY <1>1 DEF OneShardInv, ShardInv, CallsOK
<1> QED
  BY <1>1, <1>2, <1>4, <1>5, <1>6, <1>7, PublicationMoves DEF OneShardInv

\* The artifact of a size and a root is written with the same time each time.
LEMMA PutImmutableKeeps ==
  ASSUME OneShardInv, NEW c \in Callers, PutImmutable(c)
  PROVE  OneShardInv' /\ Kept /\ TablesGrow
<1>1. PICK s : s = publication[c].statement
  OBVIOUS
<1>2. PICK key, p : /\ key = ArtifactKey(s)
                    /\ p = [pc |-> "latest", kid |-> publication[c].kid, statement |-> s]
  OBVIOUS
<1>3. /\ publication[c].pc = "immutable" /\ publication' = [publication EXCEPT ![c] = p]
      /\ immutable' = Put(immutable, key, s)
      /\ UNCHANGED <<events, treeSize, nodes, checkpoints, appendTail, call, now, signerKid,
                     latest>>
  BY <1>1, <1>2 DEF PutImmutable, MovesTo, shardVars
<1>4. ShardInv' /\ TablesGrow
  <2>1. TablesGrow
    BY <1>3, UnchangedGrow DEF OneShardInv, ShardInv
  <2> QED  BY <1>3, <2>1, UnchangedShard DEF OneShardInv
<1>5. SignedOK(s) /\ p.kid \in 0 .. signerKid
  BY <1>1, <1>2, <1>3 DEF OneShardInv, PublicationInv, PublicationOK
<1>6. /\ DOMAIN immutable' = DOMAIN immutable \cup {key} /\ immutable'[key] = s
      /\ \A other \in DOMAIN immutable : other # key => immutable'[other] = immutable[other]
  BY <1>3 DEF Put
<1>7. Kept
  <2>1. ASSUME key \in DOMAIN immutable
        PROVE  /\ immutable[key].checkpoint = s.checkpoint
               /\ signerKid = 0 => immutable[key] = s
    <3>1. SignedOK(immutable[key]) /\ key = ArtifactKey(immutable[key])
      BY <2>1 DEF OneShardInv, PublicationInv, BucketOK
    <3>2. immutable[key].checkpoint = s.checkpoint
      BY <1>2, <1>5, <3>1, OneStatementOfASize DEF SignedOK, ArtifactKey
    <3>3. signerKid = 0 => immutable[key].kid = s.kid
      BY <1>5, <3>1 DEF SignedOK
    <3> QED  BY <1>5, <3>1, <3>2, <3>3 DEF SignedOK
  <2> QED  BY <1>3, <1>6, <2>1 DEF Kept, OneShardInv, PublicationInv, BucketOK
<1>8. SignedOK(s)'
  BY <1>4, <1>5, <1>7, SignedStays
<1>9. BucketOK'
  <2>1. ASSUME NEW other \in DOMAIN immutable, other # key
        PROVE  SignedOK(immutable[other])' /\ (other = ArtifactKey(immutable[other]))'
    <3>1. PICK t : t = immutable[other] /\ SignedOK(t) /\ other = ArtifactKey(t)
      BY DEF OneShardInv, PublicationInv, BucketOK
    <3>2. SignedOK(t)' /\ immutable'[other] = t
      BY <1>4, <1>6, <1>7, <2>1, <3>1, SignedStays
    <3> QED  BY <3>1, <3>2 DEF ArtifactKey
  <2>2. latest # NULL => Backed(latest)'
    <3>1. PICK t : t = latest
      OBVIOUS
    <3>2. latest # NULL => Backed(t)'
      BY <1>7, <3>1, BackedStays DEF OneShardInv, PublicationInv, BucketOK
    <3> QED  BY <1>3, <3>1, <3>2
  <2>3. SignedOK(immutable[key])' /\ (key = ArtifactKey(immutable[key]))'
    BY <1>2, <1>6, <1>8 DEF ArtifactKey
  <2>4. signerKid' \in Nat
    BY <1>7 DEF Kept
  <2> QED  BY <1>3, <1>6, <2>1, <2>2, <2>3, <2>4 DEF BucketOK
<1>10. PublicationOK(p, call[c])'
  BY <1>2, <1>3, <1>5, <1>6, <1>8 DEF PublicationOK, Backed, ArtifactKey
<1> QED
  BY <1>3, <1>4, <1>7, <1>9, <1>10, PublicationMoves DEF OneShardInv

LEMMA PutLatestKeeps ==
  ASSUME OneShardInv, NEW c \in Callers, PutLatest(c)
  PROVE  OneShardInv' /\ Kept /\ TablesGrow
<1>1. /\ publication[c].pc = "latest" /\ publication' = [publication EXCEPT ![c] = NoPublication]
      /\ latest' = publication[c].statement
      /\ UNCHANGED <<events, treeSize, nodes, checkpoints, appendTail, call, now, signerKid,
                     immutable>>
  BY DEF PutLatest, Ends, shardVars
<1>2. TablesGrow
  BY <1>1, UnchangedGrow DEF OneShardInv, ShardInv
<1>3. ShardInv'
  BY <1>1, <1>2, UnchangedShard DEF OneShardInv
<1>4. Kept
  BY <1>1 DEF Kept, OneShardInv, PublicationInv, BucketOK
<1>5. BucketOK'
  <2>1. ASSUME NEW key \in DOMAIN immutable
        PROVE  SignedOK(immutable[key])' /\ (key = ArtifactKey(immutable[key]))'
    <3>1. PICK t : t = immutable[key] /\ SignedOK(t) /\ key = ArtifactKey(t)
      BY DEF OneShardInv, PublicationInv, BucketOK
    <3>2. SignedOK(t)'
      BY <1>2, <1>4, <3>1, SignedStays
    <3> QED  BY <1>1, <3>1, <3>2 DEF ArtifactKey
  <2>2. Backed(latest)'
    BY <1>1 DEF OneShardInv, PublicationInv, PublicationOK, Backed, ArtifactKey
  <2> QED  BY <1>1, <1>4, <2>1, <2>2 DEF BucketOK, Kept
<1>6. PublicationOK(NoPublication, call[c])'
  BY DEF PublicationOK, NoPublication
<1> QED
  BY <1>1, <1>2, <1>3, <1>4, <1>5, <1>6, PublicationMoves DEF OneShardInv

LEMMA PublicationFailsKeeps ==
  ASSUME OneShardInv, NEW c \in Callers, PublicationFails(c)
  PROVE  OneShardInv' /\ Kept /\ TablesGrow
<1>1. /\ publication' = [publication EXCEPT ![c] = NoPublication]
      /\ UNCHANGED <<events, treeSize, nodes, checkpoints, appendTail, call, now, signerKid,
                     immutable, latest>>
  BY DEF PublicationFails, Ends, shardVars
<1>2. TablesGrow
  BY <1>1, UnchangedGrow DEF OneShardInv, ShardInv
<1>3. ShardInv' /\ BucketOK' /\ Kept
  BY <1>1, <1>2, UnchangedShard, BucketStays DEF OneShardInv, PublicationInv, BucketOK
<1>4. PublicationOK(NoPublication, call[c])'
  BY DEF PublicationOK, NoPublication
<1> QED
  BY <1>1, <1>2, <1>3, <1>4, PublicationMoves DEF OneShardInv

\* The key may become another, and nothing else moves.
LEMMA KeyMovesOn ==
  ASSUME OneShardInv, signerKid' \in Nat, signerKid <= signerKid',
         UNCHANGED <<events, treeSize, nodes, checkpoints, appendTail, call, now,
                     publication, immutable, latest>>
  PROVE  OneShardInv' /\ Kept /\ TablesGrow
<1>2. TablesGrow
  BY UnchangedGrow DEF OneShardInv, ShardInv
<1>3. ShardInv' /\ BucketOK' /\ Kept
  BY <1>2, UnchangedShard, BucketStays DEF OneShardInv, PublicationInv
<1>4. ASSUME NEW c \in Callers PROVE PublicationOK(publication[c], call[c])'
  <2>1. PICK p, k : p = publication[c] /\ k = call[c] /\ PublicationOK(p, k)
    BY DEF OneShardInv, PublicationInv
  <2>2. PublicationOK(p, k)'
    BY <1>2, <1>3, <2>1, PublicationStays
  <2> QED  BY <2>1, <2>2
<1> QED
  BY <1>2, <1>3, <1>4 DEF OneShardInv, PublicationInv

LEMMA RotateSigningKeyKeeps ==
  ASSUME OneShardInv, RotateSigningKey
  PROVE  OneShardInv' /\ Kept /\ TablesGrow
<1>1. /\ signerKid' = signerKid + 1
      /\ UNCHANGED <<events, treeSize, nodes, checkpoints, appendTail, call, now,
                     publication, immutable, latest>>
  BY DEF RotateSigningKey, shardVars
<1>2. signerKid' \in Nat /\ signerKid <= signerKid'
  BY <1>1 DEF OneShardInv, PublicationInv, BucketOK
<1> QED
  BY <1>1, <1>2, KeyMovesOn

\* The shard goes on, and the publications stay where they are.
LEMMA ShardStepKeepsPublications ==
  ASSUME OneShardInv, UNCHANGED <<signerKid, publication, immutable, latest>>,
         \/ \E c \in Callers : (~Publishing(c) /\ Request(c)) \/ Proceed(c)
         \/ Restart
         \/ Tick
  PROVE  OneShardInv' /\ Kept /\ TablesGrow
<1>1. ShardInv' /\ TablesGrow
  BY ShardStepKeeps DEF OneShardInv
<1>2. BucketOK' /\ Kept
  BY <1>1, BucketStays DEF OneShardInv, PublicationInv, BucketOK
<1>3. ASSUME NEW c \in Callers
      PROVE  publication[c].pc = "waiting" =>
               \/ call'[c] = call[c] \/ call'[c].pc = "idle"
               \/ call'[c].kind = call[c].kind /\ call[c].pc # "idle"
  <2>1. CASE Restart
    BY <2>1 DEF Restart, Idle
  <2>2. CASE Tick
    BY <2>2 DEF Tick
  <2>3. ASSUME NEW d \in Callers, (~Publishing(d) /\ Request(d)) \/ Proceed(d)
        PROVE  publication[c].pc = "waiting" =>
                 \/ call'[c] = call[c]
                 \/ call'[c].kind = call[c].kind /\ call[c].pc # "idle"
    <3>1. CASE c # d
      BY <2>3, <3>1, RequestsAreApart DEF OneShardInv
    <3>2. CASE c = d /\ Proceed(d)
      <4>1. call[d].pc # "idle"
        BY <3>2 DEF Proceed, BeginAppend, HashParent, CommitAppend, Begin, StoreCheckpoint, Prove
      <4> QED  BY <3>2, <4>1, RequestsAreApart DEF OneShardInv
    <3> QED  BY <2>3, <3>1, <3>2 DEF Publishing
  <2> QED  BY <2>1, <2>2, <2>3
<1>4. ASSUME NEW c \in Callers PROVE PublicationOK(publication[c], call[c])'
  <2>1. PICK p, k : p = publication[c] /\ k = call[c] /\ PublicationOK(p, k)
    BY DEF OneShardInv, PublicationInv
  <2>2. PICK kk : kk = call'[c]
    OBVIOUS
  <2>4. PublicationOK(p, kk)'
    <3>1. PublicationOK(p, k)'
      BY <1>1, <1>2, <2>1, PublicationStays
    <3>2. kk = k \/ (p.pc = "waiting" => kk.pc = "idle" \/ (kk.kind = k.kind /\ k.pc # "idle"))
      BY <1>3, <1>4, <2>1, <2>2
    <3>3. (p.pc = "waiting" => kk.pc = "idle" \/ (kk.kind = k.kind /\ k.pc # "idle"))
            => PublicationOK(p, kk)'
      BY <1>1, <1>2, <2>1, PublicationStays
    <3> QED  BY <3>1, <3>2, <3>3
  <2> QED  BY <2>1, <2>2, <2>4
<1> QED
  BY <1>1, <1>2, <1>4 DEF OneShardInv, PublicationInv

LEMMA OneShardStepKeeps ==
  ASSUME OneShardInv, Next
  PROVE  OneShardInv' /\ Kept /\ TablesGrow
BY ShardStepKeepsPublications, StartPublicationKeeps, SignCheckpointKeeps, PutImmutableKeeps,
   PutLatestKeeps, PublicationFailsKeeps, RotateSigningKeyKeeps DEF Next

LEMMA OneShardStutters ==
  ASSUME OneShardInv, UNCHANGED publicationVars
  PROVE  OneShardInv' /\ Kept /\ TablesGrow
<1>1. UNCHANGED <<events, treeSize, nodes, checkpoints, appendTail, call, now, signerKid,
                  publication, immutable, latest>>
  BY DEF publicationVars, shardVars
<1> QED
  BY <1>1, KeyMovesOn DEF OneShardInv, PublicationInv, BucketOK

-----------------------------------------------------------------------------
(* The manifests of all shards *)

\* A shard has stated a checkpoint of a size.
Listed(s, size) == <<s, size>> \in DOMAIN stated

StatedOK ==
  /\ DOMAIN sizes = Shards /\ \A s \in Shards : sizes[s] \in Nat
  /\ \A x \in DOMAIN stated :
       /\ x[1] \in Shards /\ x[2] \in Nat /\ x = <<x[1], x[2]>>
       /\ x[2] <= sizes[x[1]] /\ stated[x] \in 0 .. now

\* A manifest lists a statement of each shard, has the time of the latest of
\* them and, when it is the cron's, an artifact for each.
ManifestOK(m) ==
  /\ \A s \in Shards : Listed(s, m.sizes[s]) /\ stated[<<s, m.sizes[s]>>] <= m.at
  /\ \E s \in Shards : m.at = stated[<<s, m.sizes[s]>>]
  /\ m.kid \in 0 .. signerKid
  /\ m.kind = "scheduled" => \A s \in Shards : <<s, m.sizes[s]>> \in DOMAIN artifacts

\* How far a run is with a shard: what it was told is what the shard stated, and
\* it has written the artifact when it goes on to the pointer.
PartOK(kind, s, p) ==
  \/ p = Unasked
  \/ /\ p = [step |-> p.step, size |-> p.size, at |-> p.at]
     /\ p.step \in {"put", "point", "done"}
     /\ Listed(s, p.size) /\ p.at = stated[<<s, p.size>>]
     /\ p.step = "put" => kind = "scheduled"
     /\ p.step # "put" /\ kind = "scheduled" => <<s, p.size>> \in DOMAIN artifacts
     /\ p.step = "point" => kind = "scheduled"

PartsOK(r) ==
  /\ r = [step |-> r.step, kind |-> r.kind, kid |-> r.kid, start |-> r.start,
          at |-> r.at, parts |-> r.parts]
  /\ r.kid \in 0 .. signerKid /\ r.at \in 0 .. now /\ r.start \in Nat
  /\ DOMAIN r.parts = Shards /\ \A s \in Shards : PartOK(r.kind, s, r.parts[s])
  /\ \A s \in Shards : s < r.start => r.parts[s].step = "done"

RunOK(r) ==
  /\ r.step \in {"none", "batch", "failed", "manifest", "global", "over"}
  /\ r.step \in {"batch", "failed"} => PartsOK(r)
  /\ r.step \in {"manifest", "global"} =>
       r = [step |-> r.step, kind |-> r.kind, manifest |-> r.manifest] /\ ManifestOK(r.manifest)
  /\ r.step = "global" => r.manifest \in manifests

RunsOK == DOMAIN run = Invocations /\ \A i \in Invocations : RunOK(run[i])

PublishedOK ==
  /\ signerKid \in Nat
  /\ \A m \in manifests : ManifestOK(m)
  /\ globalPointer # NULL => globalPointer \in manifests
  /\ DOMAIN pointers = Shards
  /\ \A s \in Shards : pointers[s] # NULL => <<s, pointers[s]>> \in DOMAIN artifacts

AllShardsInv == now \in Nat /\ StatedOK /\ RunsOK /\ PublishedOK

\* What has been stated or published stays.
LogGrows ==
  /\ now <= now' /\ now' \in Nat
  /\ signerKid <= signerKid' /\ signerKid' \in Nat
  /\ \A x \in DOMAIN stated : x \in DOMAIN stated' /\ stated'[x] = stated[x]
  /\ DOMAIN artifacts \subseteq DOMAIN artifacts'
  /\ manifests \subseteq manifests'

LEMMA ManifestStays ==
  ASSUME signerKid \in Nat, LogGrows, NEW m, ManifestOK(m)
  PROVE  ManifestOK(m)'
BY DEF LogGrows, ManifestOK, Listed, Shards

LEMMA PartsStay ==
  ASSUME now \in Nat, signerKid \in Nat, LogGrows, NEW r, PartsOK(r)
  PROVE  PartsOK(r)'
<1>1. ASSUME NEW kind, NEW s \in Shards, NEW p, PartOK(kind, s, p) PROVE PartOK(kind, s, p)'
  BY <1>1 DEF LogGrows, PartOK, Listed, Shards
<1>2. \A i : (i \in 0 .. now => i \in 0 .. now') /\ (i \in 0 .. signerKid => i \in 0 .. signerKid')
  BY DEF LogGrows
<1> QED
  BY <1>1, <1>2 DEF PartsOK, Shards

LEMMA RunStays ==
  ASSUME now \in Nat, signerKid \in Nat, LogGrows, NEW r, RunOK(r)
  PROVE  RunOK(r)'
<1>1. r.step \in {"batch", "failed"} => PartsOK(r)'
  BY PartsStay DEF RunOK
<1>2. r.step \in {"manifest", "global"} => ManifestOK(r.manifest)'
  BY ManifestStays DEF RunOK
<1>3. r.step = "global" => r.manifest \in manifests'
  BY DEF RunOK, LogGrows
<1> QED
  BY <1>1, <1>2, <1>3 DEF RunOK

LEMMA RunsStay ==
  ASSUME AllShardsInv, LogGrows, run' = run
  PROVE  RunsOK'
<1>1. ASSUME NEW i \in Invocations PROVE RunOK(run[i])'
  <2>1. PICK r : r = run[i]
    OBVIOUS
  <2>2. RunOK(r)'
    BY <1>1, <2>1, RunStays DEF AllShardsInv, RunsOK, PublishedOK
  <2> QED  BY <2>1, <2>2
<1> QED
  BY <1>1 DEF AllShardsInv, RunsOK

\* One run moves.
LEMMA RunMoves ==
  ASSUME AllShardsInv, LogGrows, NEW i \in Invocations, NEW r,
         run' = [run EXCEPT ![i] = r], RunOK(r)'
  PROVE  RunsOK'
<1>1. /\ DOMAIN run' = Invocations /\ run'[i] = r
      /\ \A j \in Invocations : j # i => run'[j] = run[j]
  BY DEF AllShardsInv, RunsOK
<1>2. ASSUME NEW j \in Invocations, j # i PROVE RunOK(run[j])'
  <2>1. PICK q : q = run[j]
    OBVIOUS
  <2>2. RunOK(q)'
    BY <1>2, <2>1, RunStays DEF AllShardsInv, RunsOK, PublishedOK
  <2> QED  BY <1>1, <1>2, <2>1, <2>2
<1> QED
  BY <1>1, <1>2 DEF RunsOK

\* The bucket as it is, or with one more artifact.
LEMMA PublishedStays ==
  ASSUME AllShardsInv, LogGrows, UNCHANGED <<pointers, manifests, globalPointer>>
  PROVE  PublishedOK'
<1>1. \A m \in manifests : ManifestOK(m)'
  BY ManifestStays DEF AllShardsInv, PublishedOK
<1> QED
  BY <1>1 DEF AllShardsInv, PublishedOK, LogGrows, Shards

LEMMA StatedStaysOK ==
  ASSUME AllShardsInv, LogGrows, UNCHANGED <<sizes, stated>>
  PROVE  StatedOK'
BY DEF AllShardsInv, StatedOK, LogGrows, Shards

\* The clock moves on or the key does, in one shard or elsewhere.
LEMMA AllShardsStay ==
  ASSUME AllShardsInv, now <= now', now' \in Nat, signerKid <= signerKid', signerKid' \in Nat,
         UNCHANGED manifestVars
  PROVE  AllShardsInv' /\ LogGrows
<1>1. UNCHANGED <<sizes, stated, artifacts, pointers, manifests, globalPointer, run>>
  BY DEF manifestVars, bucket
<1>2. LogGrows
  BY <1>1 DEF LogGrows, AllShardsInv, PublishedOK
<1> QED
  BY <1>1, <1>2, RunsStay, PublishedStays, StatedStaysOK DEF AllShardsInv

\* A shard states the present size of its tree, now or before.
LEMMA StateIsListed ==
  ASSUME AllShardsInv, NEW s \in Shards, NEW at \in 0 .. now, State(s, at),
         UNCHANGED <<sizes, signerKid, artifacts, pointers, manifests, globalPointer, now>>
  PROVE  StatedOK' /\ LogGrows /\ Listed(s, sizes[s])' /\ sizes[s] \in Nat
<1>1. PICK key : key = <<s, sizes[s]>>
  OBVIOUS
<1>2. /\ \A x \in DOMAIN stated : x \in DOMAIN stated' /\ stated'[x] = stated[x]
      /\ DOMAIN stated' = DOMAIN stated \cup {key}
      /\ key \notin DOMAIN stated => stated'[key] = at
  BY <1>1 DEF State, PutNew, Put
<1>3. sizes[s] \in Nat
  BY DEF AllShardsInv, StatedOK
<1>4. StatedOK'
  BY SMTT(20), <1>1, <1>2, <1>3 DEF AllShardsInv, StatedOK, Shards
<1> QED
  BY <1>1, <1>2, <1>3, <1>4 DEF AllShardsInv, PublishedOK, LogGrows, Listed

-----------------------------------------------------------------------------
(* The steps of the runs *)

LEMMA StartRunKeeps ==
  ASSUME AllShardsInv, NEW i \in Invocations, StartRun(i), UNCHANGED <<now, signerKid>>
  PROVE  AllShardsInv' /\ LogGrows
<1>1. UNCHANGED <<sizes, stated, signerKid, artifacts, pointers, manifests, globalPointer>>
  BY DEF StartRun, bucket
<1>2. LogGrows
  BY <1>1 DEF LogGrows, AllShardsInv, PublishedOK
<1>3. PICK kind \in {"scheduled", "rpc"} :
        BeginBatch(i, kind, signerKid, 0, [s \in Shards |-> Unasked], now)
  BY DEF StartRun
<1>4. PICK r : r = [step |-> "batch", kind |-> kind, kid |-> signerKid, start |-> 0, at |-> now,
                    parts |-> [s \in Shards |-> Unasked]]
  OBVIOUS
<1>5. PartsOK(r)'
  BY <1>1, <1>4 DEF PartsOK, PartOK, AllShardsInv, PublishedOK, Shards
<1>6. RunOK(r)' /\ run' = [run EXCEPT ![i] = r]
  BY <1>3, <1>4, <1>5 DEF RunOK, BeginBatch
<1> QED
  BY <1>1, <1>2, <1>6, RunMoves, PublishedStays, StatedStaysOK DEF AllShardsInv

\* The run of a batch, and what it becomes when one of its parts moves.
LEMMA PartMoves ==
  ASSUME AllShardsInv, LogGrows, NEW i \in Invocations, NEW s \in Shards, InBatch(i, s), NEW p,
         run[i].parts[s].step # "done", NEW kind, kind = run[i].kind, PartOK(kind, s, p)',
         Part(i, s, p)
  PROVE  RunsOK'
<1>1. PICK r : r = run[i]
  OBVIOUS
<1>2. /\ r.step \in {"batch", "failed"} /\ PartsOK(r) /\ s >= r.start /\ r.parts[s].step # "done"
  BY <1>1 DEF InBatch, ShardBatch, AllShardsInv, RunsOK, RunOK
<1>3. PartsOK(r)'
  BY <1>2, PartsStay DEF AllShardsInv, PublishedOK
<1>4. PICK q : q = [r EXCEPT !.parts[s] = p]
  OBVIOUS
<1>5. run' = [run EXCEPT ![i] = q]
  BY <1>1, <1>4 DEF Part, AllShardsInv, RunsOK
<1>6. /\ q = [step |-> r.step, kind |-> r.kind, kid |-> r.kid, start |-> r.start,
              at |-> r.at, parts |-> q.parts]
      /\ DOMAIN q.parts = Shards /\ q.parts[s] = p
      /\ \A t \in Shards : t # s => q.parts[t] = r.parts[t]
  <2>1. PICK step, batchKind, kid, start, at, parts :
          /\ r = [step |-> step, kind |-> batchKind, kid |-> kid, start |-> start, at |-> at, parts |-> parts]
          /\ DOMAIN parts = Shards
    BY <1>2 DEF PartsOK
  <2>2. q = [step |-> step, kind |-> batchKind, kid |-> kid, start |-> start, at |-> at,
             parts |-> [parts EXCEPT ![s] = p]]
    BY <1>4, <2>1
  <2> QED  BY <2>1, <2>2
<1>7. PartsOK(q)'
  <2>1. PartOK(r.kind, s, p)'
    <3>1. r.kind = kind
      BY <1>1
    <3> QED  BY <3>1
  <2>2. \A t \in Shards : PartOK(r.kind, t, q.parts[t])'
    <3> SUFFICES ASSUME NEW t \in Shards, t # s PROVE PartOK(r.kind, t, q.parts[t])'
      BY <1>6, <2>1
    <3> QED  BY <1>3, <1>6 DEF PartsOK, Shards
  <2>3. \A t \in Shards : t < r.start => t # s
    BY <1>2 DEF Shards, PartsOK
  <2> QED  BY <1>2, <1>3, <1>6, <2>2, <2>3 DEF PartsOK, Shards
<1>8. RunOK(q)'
  BY <1>2, <1>6, <1>7 DEF RunOK
<1> QED
  BY <1>5, <1>8, RunMoves

LEMMA AskCheckpointKeeps ==
  ASSUME AllShardsInv, NEW i \in Invocations, NEW s \in Shards, AskCheckpoint(i, s), UNCHANGED <<now, signerKid>>
  PROVE  AllShardsInv' /\ LogGrows
<1>1. /\ InBatch(i, s) /\ run[i].parts[s] = Unasked /\ State(s, run[i].at)
      /\ UNCHANGED <<sizes, signerKid, artifacts, pointers, manifests, globalPointer, now>>
  BY DEF AskCheckpoint, bucket
<1>2. run[i].at \in 0 .. now
  BY <1>1 DEF InBatch, AllShardsInv, RunsOK, RunOK, PartsOK
<1>3. PICK at \in 0 .. now : at = run[i].at
  BY <1>2
<1>4. StatedOK' /\ LogGrows /\ Listed(s, sizes[s])' /\ sizes[s] \in Nat
  BY <1>1, <1>3, StateIsListed
<1>5. PICK p : p = [step |-> IF run[i].kind = "scheduled" THEN "put" ELSE "done",
                    size |-> sizes[s], at |-> stated'[<<s, sizes[s]>>]]
  OBVIOUS
<1>6. PICK kind : kind = run[i].kind
  OBVIOUS
<1>7. PartOK(kind, s, p)'
  BY <1>1, <1>4, <1>5, <1>6 DEF PartOK, Listed
<1>8. Part(i, s, p)
  BY <1>5 DEF AskCheckpoint
<1>9. RunsOK'
  BY <1>1, <1>4, <1>6, <1>7, <1>8, PartMoves DEF Unasked
<1> QED
  BY <1>1, <1>4, <1>9, PublishedStays DEF AllShardsInv

\* What a part of a run that is in its batch was told and may rely on.
LEMMA PartInBatch ==
  ASSUME AllShardsInv, NEW i \in Invocations, NEW s \in Shards, InBatch(i, s)
  PROVE  PartsOK(run[i]) /\ PartOK(run[i].kind, s, run[i].parts[s])
BY DEF InBatch, AllShardsInv, RunsOK, RunOK, PartsOK

LEMMA PutArtifactKeeps ==
  ASSUME AllShardsInv, NEW i \in Invocations, NEW s \in Shards, PutArtifact(i, s), UNCHANGED <<now, signerKid>>
  PROVE  AllShardsInv' /\ LogGrows
<1>1. PICK p, kind : p = run[i].parts[s] /\ kind = run[i].kind
  OBVIOUS
<1>2. PICK q : q = [p EXCEPT !.step = "point"]
  OBVIOUS
<1>3. /\ InBatch(i, s) /\ p.step = "put" /\ Part(i, s, q)
      /\ DOMAIN artifacts' = DOMAIN artifacts \cup {<<s, p.size>>}
      /\ UNCHANGED <<sizes, stated, signerKid, pointers, manifests, globalPointer, now>>
  BY <1>1, <1>2 DEF PutArtifact, Put
<1>4. PartOK(kind, s, p)
  BY <1>1, <1>3, PartInBatch
<1>5. LogGrows
  BY <1>3 DEF LogGrows, AllShardsInv, PublishedOK
<1>6. PartOK(kind, s, q)'
  <2>1. PICK step, size, at : p = [step |-> step, size |-> size, at |-> at]
    BY <1>3, <1>4 DEF PartOK, Unasked
  <2>2. q = [step |-> "point", size |-> size, at |-> at]
    BY <1>2, <2>1
  <2> QED  BY <1>3, <1>4, <2>1, <2>2 DEF PartOK, Listed, Unasked
<1>7. RunsOK'
  BY <1>1, <1>3, <1>5, <1>6, PartMoves
<1> QED
  BY <1>3, <1>5, <1>7, PublishedStays, StatedStaysOK DEF AllShardsInv

LEMMA PutPointerKeeps ==
  ASSUME AllShardsInv, NEW i \in Invocations, NEW s \in Shards, PutPointer(i, s), UNCHANGED <<now, signerKid>>
  PROVE  AllShardsInv' /\ LogGrows
<1>1. PICK p, kind : p = run[i].parts[s] /\ kind = run[i].kind
  OBVIOUS
<1>2. PICK q : q = [p EXCEPT !.step = "done"]
  OBVIOUS
<1>3. /\ InBatch(i, s) /\ p.step = "point" /\ Part(i, s, q)
      /\ pointers' = [pointers EXCEPT ![s] = p.size]
      /\ UNCHANGED <<sizes, stated, signerKid, artifacts, manifests, globalPointer, now>>
  BY <1>1, <1>2 DEF PutPointer
<1>4. PartOK(kind, s, p)
  BY <1>1, <1>3, PartInBatch
<1>5. LogGrows
  BY <1>3 DEF LogGrows, AllShardsInv, PublishedOK
<1>6. PartOK(kind, s, q)' /\ <<s, p.size>> \in DOMAIN artifacts
  <2>1. PICK step, size, at : p = [step |-> step, size |-> size, at |-> at]
    BY <1>3, <1>4 DEF PartOK, Unasked
  <2>2. q = [step |-> "done", size |-> size, at |-> at]
    BY <1>2, <2>1
  <2> QED  BY <1>3, <1>4, <2>1, <2>2 DEF PartOK, Listed, Unasked
<1>7. RunsOK'
  BY <1>1, <1>3, <1>5, <1>6, PartMoves
<1>8. \A m \in manifests : ManifestOK(m)'
  BY <1>5, ManifestStays DEF AllShardsInv, PublishedOK
<1>9. PublishedOK'
  BY <1>3, <1>6, <1>8 DEF AllShardsInv, PublishedOK, Shards
<1> QED
  BY <1>3, <1>5, <1>7, <1>9, StatedStaysOK DEF AllShardsInv

\* The latest of some times.
LEMMA MaxOfTimes ==
  ASSUME NEW n \in Nat, NEW S, S \subseteq 0 .. n, S # {}
  PROVE  Max(S) \in S /\ \A y \in S : y <= Max(S)
<1> DEFINE T == {k \in Nat : n - k \in S}
<1>1. T # {}
  <2>1. PICK y \in S : TRUE
    OBVIOUS
  <2>2. n - y \in Nat /\ n - (n - y) = y
    BY <2>1
  <2> QED  BY <2>1, <2>2
<1>2. \E k \in T : \A j \in T : k <= j
  <2> DEFINE R == OpToRel(<, Nat)
  <2>1. \E k \in T : \A j \in T : <<j, k>> \notin R
    BY <1>1, NatLessThanWellFounded, WFMin
  <2>2. \A k, j \in T : <<j, k>> \notin R => k <= j
    BY DEF OpToRel
  <2> QED  BY <2>1, <2>2
<1>3. PICK k \in T : \A j \in T : k <= j
  BY <1>2
<1>4. \A y \in S : n - y \in T /\ y \in Int
  OBVIOUS
<1>5. \E x \in S : \A y \in S : x >= y
  <2>1. n - k \in S /\ k \in Nat
    OBVIOUS
  <2>2. \A y \in S : n - k >= y
    BY <1>3, <1>4
  <2> QED  BY <2>1, <2>2
<1>6. Max(S) \in S /\ \A y \in S : Max(S) >= y
  BY <1>5 DEF Max
<1>7. \A x, y \in S : x >= y => y <= x
  OBVIOUS
<1> QED
  BY <1>6, <1>7

\* The manifest of a run that has an answer of every shard.
LEMMA ManifestIsOK ==
  ASSUME AllShardsInv, NEW i \in Invocations, PartsOK(run[i]),
         \A s \in Shards : run[i].parts[s].step = "done"
  PROVE  ManifestOK(Manifest(i))
<1>1. PICK r : r = run[i]
  OBVIOUS
<1>2. PICK times : times = {r.parts[s].at : s \in Shards}
  OBVIOUS
<1>3. PICK m : m = Manifest(i)
  OBVIOUS
<1>4. /\ \A s \in Shards : m.sizes[s] = r.parts[s].size
      /\ m.at = Max(times) /\ m.kind = r.kind /\ m.kid = r.kid
  BY <1>1, <1>2, <1>3 DEF Manifest
<1>5. \A s \in Shards :
        /\ Listed(s, m.sizes[s]) /\ r.parts[s].at = stated[<<s, m.sizes[s]>>]
        /\ r.parts[s].at \in 0 .. now
        /\ r.kind = "scheduled" => <<s, m.sizes[s]>> \in DOMAIN artifacts
  <2> SUFFICES ASSUME NEW s \in Shards
               PROVE  /\ Listed(s, m.sizes[s]) /\ r.parts[s].at = stated[<<s, m.sizes[s]>>]
                      /\ r.parts[s].at \in 0 .. now
                      /\ r.kind = "scheduled" => <<s, m.sizes[s]>> \in DOMAIN artifacts
    OBVIOUS
  <2>1. PartOK(r.kind, s, r.parts[s]) /\ r.parts[s].step = "done"
    BY <1>1 DEF PartsOK
  <2>2. Listed(s, r.parts[s].size) /\ r.parts[s].at = stated[<<s, r.parts[s].size>>]
    BY <2>1 DEF PartOK, Unasked
  <2> QED  BY <1>4, <2>1, <2>2 DEF PartOK, Unasked, AllShardsInv, StatedOK, Listed
<1>6. times \subseteq 0 .. now /\ times # {}
  <2>1. 0 \in Shards
    BY ManifestAssumption DEF Shards
  <2> QED  BY <1>2, <1>5, <2>1
<1>7. Max(times) \in times /\ \A y \in times : y <= Max(times)
  BY <1>6, MaxOfTimes DEF AllShardsInv
<1>8. \A s \in Shards : stated[<<s, m.sizes[s]>>] <= m.at
  BY <1>2, <1>4, <1>5, <1>7
<1>9. \E s \in Shards : m.at = stated[<<s, m.sizes[s]>>]
  BY <1>2, <1>4, <1>5, <1>7
<1>10. m.kid \in 0 .. signerKid
  BY <1>1, <1>4 DEF PartsOK
<1> QED
  BY <1>3, <1>4, <1>5, <1>8, <1>9, <1>10 DEF ManifestOK

LEMMA NextBatchKeeps ==
  ASSUME AllShardsInv, NEW i \in Invocations, NextBatch(i), UNCHANGED <<now, signerKid>>
  PROVE  AllShardsInv' /\ LogGrows
<1>1. PICK r : r = run[i]
  OBVIOUS
<1>2. UNCHANGED <<sizes, stated, signerKid, artifacts, pointers, manifests, globalPointer>>
  BY DEF NextBatch, bucket
<1>3. LogGrows
  BY <1>2 DEF LogGrows, AllShardsInv, PublishedOK
<1>4. /\ r.step = "batch" /\ PartsOK(r) /\ r.start \in Nat
      /\ \A s \in ShardBatch(r.start) : r.parts[s].step = "done"
  BY <1>1 DEF NextBatch, BatchIsDone, AllShardsInv, RunsOK, RunOK, PartsOK
<1>5. BatchSize \in Nat /\ ShardCount \in Nat
  BY ManifestAssumption
<1>6. \A s \in Shards : s < r.start + BatchSize => r.parts[s].step = "done"
  BY <1>4, <1>5 DEF PartsOK, ShardBatch, Shards
<1>7. CASE r.start + BatchSize < ShardCount
  <2>1. PICK q : q = [step |-> "batch", kind |-> r.kind, kid |-> r.kid, start |-> r.start + BatchSize,
                      at |-> IF r.kind = "scheduled" THEN now ELSE r.at, parts |-> r.parts]
    OBVIOUS
  <2>2. run' = [run EXCEPT ![i] = q]
    BY <1>1, <1>7, <2>1 DEF NextBatch, BeginBatch
  <2>3. PartsOK(r)'
    BY <1>3, <1>4, PartsStay DEF AllShardsInv, PublishedOK
  <2>4. now' \in 0 .. now'
    BY <1>3 DEF LogGrows
  <2>5. PartsOK(q)'
    BY <1>4, <1>5, <1>6, <2>1, <2>3, <2>4 DEF PartsOK, Shards
  <2>6. RunOK(q)'
    BY <2>1, <2>5 DEF RunOK
  <2> QED
    BY <1>2, <1>3, <2>2, <2>6, RunMoves, PublishedStays, StatedStaysOK DEF AllShardsInv
<1>8. CASE ~(r.start + BatchSize < ShardCount)
  <2>1. \A s \in Shards : r.parts[s].step = "done"
    BY <1>4, <1>5, <1>6, <1>8 DEF Shards
  <2>2. PICK m : m = Manifest(i)
    OBVIOUS
  <2>3. ManifestOK(m)
    BY <1>1, <1>4, <2>1, <2>2, ManifestIsOK
  <2>4. PICK q : q = [step |-> "manifest", kind |-> r.kind, manifest |-> m]
    OBVIOUS
  <2>5. run' = [run EXCEPT ![i] = q]
    BY <1>1, <1>8, <2>2, <2>4 DEF NextBatch
  <2>6. RunOK(q)'
    BY <1>3, <2>3, <2>4, ManifestStays DEF RunOK, AllShardsInv, PublishedOK
  <2> QED
    BY <1>2, <1>3, <2>5, <2>6, RunMoves, PublishedStays, StatedStaysOK DEF AllShardsInv
<1> QED
  BY <1>7, <1>8

LEMMA PutManifestKeeps ==
  ASSUME AllShardsInv, NEW i \in Invocations, PutManifest(i), UNCHANGED <<now, signerKid>>
  PROVE  AllShardsInv' /\ LogGrows
<1>1. PICK r : r = run[i]
  OBVIOUS
<1>2. PICK m : m = r.manifest
  OBVIOUS
<1>3. /\ r = [step |-> "manifest", kind |-> r.kind, manifest |-> m] /\ ManifestOK(m)
      /\ manifests' = manifests \cup {m}
      /\ UNCHANGED <<sizes, stated, signerKid, artifacts, pointers, globalPointer>>
  BY <1>1, <1>2 DEF PutManifest, AllShardsInv, RunsOK, RunOK
<1>4. LogGrows
  BY <1>3 DEF LogGrows, AllShardsInv, PublishedOK
<1>5. PICK q : q = [step |-> "global", kind |-> r.kind, manifest |-> m]
  OBVIOUS
<1>6. run' = [run EXCEPT ![i] = q]
  <2>1. q = [r EXCEPT !.step = "global"]
    BY <1>3, <1>5
  <2> QED  BY <1>1, <2>1 DEF PutManifest, AllShardsInv, RunsOK
<1>7. \A other \in manifests \cup {m} : ManifestOK(other)'
  BY <1>3, <1>4, ManifestStays DEF AllShardsInv, PublishedOK
<1>8. RunOK(q)'
  BY <1>3, <1>5, <1>7 DEF RunOK
<1>9. PublishedOK'
  BY <1>3, <1>7 DEF AllShardsInv, PublishedOK, Shards
<1> QED
  BY <1>3, <1>4, <1>6, <1>8, <1>9, RunMoves, StatedStaysOK DEF AllShardsInv

LEMMA PutGlobalPointerKeeps ==
  ASSUME AllShardsInv, NEW i \in Invocations, PutGlobalPointer(i), UNCHANGED <<now, signerKid>>
  PROVE  AllShardsInv' /\ LogGrows
<1>1. PICK r : r = run[i]
  OBVIOUS
<1>2. /\ r.manifest \in manifests /\ globalPointer' = r.manifest
      /\ run' = [run EXCEPT ![i] = Over]
      /\ UNCHANGED <<sizes, stated, signerKid, artifacts, pointers, manifests>>
  BY <1>1 DEF PutGlobalPointer, AllShardsInv, RunsOK, RunOK
<1>3. LogGrows
  BY <1>2 DEF LogGrows, AllShardsInv, PublishedOK
<1>4. RunOK(Over)'
  BY DEF RunOK, Over
<1>5. \A m \in manifests : ManifestOK(m)'
  BY <1>3, ManifestStays DEF AllShardsInv, PublishedOK
<1>6. PublishedOK'
  BY <1>2, <1>5 DEF AllShardsInv, PublishedOK, Shards
<1> QED
  BY <1>2, <1>3, <1>4, <1>6, RunMoves, StatedStaysOK DEF AllShardsInv

LEMMA RunFailsKeeps ==
  ASSUME AllShardsInv, NEW i \in Invocations, RunFails(i), UNCHANGED <<now, signerKid>>
  PROVE  AllShardsInv' /\ LogGrows
<1>1. UNCHANGED <<sizes, stated, signerKid, artifacts, pointers, manifests, globalPointer>>
  BY DEF RunFails, bucket
<1>2. LogGrows
  BY <1>1 DEF LogGrows, AllShardsInv, PublishedOK
<1>3. PICK r : r = run[i]
  OBVIOUS
<1>4. CASE r.step = "batch" /\ run' = [run EXCEPT ![i].step = "failed"]
  <2>1. PICK kind, kid, start, at, parts :
          r = [step |-> "batch", kind |-> kind, kid |-> kid, start |-> start, at |-> at, parts |-> parts]
    BY <1>3, <1>4 DEF AllShardsInv, RunsOK, RunOK, PartsOK
  <2>2. PICK q : q = [step |-> "failed", kind |-> kind, kid |-> kid, start |-> start, at |-> at,
                      parts |-> parts]
    OBVIOUS
  <2>3. q = [r EXCEPT !.step = "failed"]
    BY <2>1, <2>2
  <2>4. run' = [run EXCEPT ![i] = q]
    BY <1>3, <1>4, <2>3 DEF AllShardsInv, RunsOK
  <2>5. PartsOK(r)'
    BY <1>2, <1>3, <1>4, PartsStay DEF AllShardsInv, RunsOK, RunOK, PublishedOK
  <2>6. RunOK(q)'
    BY <2>1, <2>2, <2>5 DEF RunOK, PartsOK
  <2> QED
    BY <1>1, <1>2, <2>4, <2>6, RunMoves, PublishedStays, StatedStaysOK DEF AllShardsInv
<1>5. CASE run' = [run EXCEPT ![i] = Over]
  <2>1. RunOK(Over)'
    BY DEF RunOK, Over
  <2> QED
    BY <1>1, <1>2, <1>5, <2>1, RunMoves, PublishedStays, StatedStaysOK DEF AllShardsInv
<1> QED
  BY <1>3, <1>4, <1>5 DEF RunFails

LEMMA GrowKeeps ==
  ASSUME AllShardsInv, NEW s \in Shards, Grow(s), UNCHANGED <<now, signerKid>>
  PROVE  AllShardsInv' /\ LogGrows
<1>1. /\ sizes' = [sizes EXCEPT ![s] = @ + 1] /\ run' = run
      /\ UNCHANGED <<stated, signerKid, artifacts, pointers, manifests, globalPointer>>
  BY DEF Grow, bucket
<1>2. LogGrows
  BY <1>1 DEF LogGrows, AllShardsInv, PublishedOK
<1>3. StatedOK'
  BY <1>1 DEF AllShardsInv, StatedOK, Shards
<1> QED
  BY <1>1, <1>2, <1>3, RunsStay, PublishedStays DEF AllShardsInv

LEMMA ManifestStepKeeps ==
  ASSUME AllShardsInv, ManifestNext, UNCHANGED <<now, signerKid>>
  PROVE  AllShardsInv' /\ LogGrows
BY StartRunKeeps, AskCheckpointKeeps, PutArtifactKeeps, PutPointerKeeps, NextBatchKeeps,
   PutManifestKeeps, PutGlobalPointerKeeps, RunFailsKeeps, GrowKeeps DEF ManifestNext

\* The times of two manifests of the same trees are the same.
LEMMA BackedManifests ==
  ASSUME AllShardsInv
  PROVE  ManifestsAreBacked
<1>1. ASSUME NEW m \in manifests, NEW other \in manifests, m.sizes = other.sizes
      PROVE  m.at = other.at
  <2>1. PICK s \in Shards : m.at = stated[<<s, m.sizes[s]>>]
    BY DEF AllShardsInv, PublishedOK, ManifestOK
  <2>2. PICK t \in Shards : other.at = stated[<<t, other.sizes[t]>>]
    BY DEF AllShardsInv, PublishedOK, ManifestOK
  <2>3. m.at \in Int /\ other.at \in Int
    BY <2>1, <2>2 DEF AllShardsInv, PublishedOK, ManifestOK, StatedOK, Listed
  <2>4. m.at <= other.at /\ other.at <= m.at
    BY <1>1, <2>1, <2>2 DEF AllShardsInv, PublishedOK, ManifestOK
  <2> QED  BY <2>3, <2>4
<1> QED
  BY <1>1 DEF AllShardsInv, PublishedOK, ManifestOK, ManifestsAreBacked

-----------------------------------------------------------------------------
(* The verdicts of an auditor *)

\* A verdict is "OK" when every check is, and else the error of the first that fails.
LEMMA VerdictIsTheFirst ==
  ASSUME NEW checks, DOMAIN checks \subseteq Nat
  PROVE  \/ Verdict(checks) = "OK" /\ \A i \in DOMAIN checks : checks[i] = "OK"
         \/ \E i \in DOMAIN checks : /\ checks[i] # "OK" /\ Verdict(checks) = checks[i]
                                    /\ \A j \in DOMAIN checks : j < i => checks[j] = "OK"
<1> DEFINE failing == {j \in DOMAIN checks : checks[j] # "OK"}
<1> DEFINE first == CHOOSE j \in failing : \A k \in failing : j <= k
<1>1. CASE failing = {}
  BY <1>1 DEF Verdict
<1>2. CASE failing # {}
  <2>1. Verdict(checks) = checks[first]
    BY <1>2 DEF Verdict
  <2>2. failing \in SUBSET Nat
    OBVIOUS
  <2>3. \E j \in failing : \A k \in failing : j <= k
    <3> HIDE DEF failing
    <3> DEFINE R == OpToRel(<, Nat)
    <3>1. \E j \in failing : \A k \in failing : <<k, j>> \notin R
      BY <1>2, <2>2, NatLessThanWellFounded, WFMin
    <3>2. \A j, k \in failing : <<k, j>> \notin R => j <= k
      BY <2>2 DEF OpToRel
    <3> QED  BY <3>1, <3>2
  <2>4. first \in failing /\ \A k \in failing : first <= k
    BY <2>3
  <2> HIDE DEF first
  <2>5. first \in DOMAIN checks /\ checks[first] # "OK"
    BY <2>4
  <2>6. \A j \in DOMAIN checks : j < first => checks[j] = "OK"
    BY <2>4, <2>5
  <2> QED  BY <2>1, <2>5, <2>6
<1> QED
  BY <1>1, <1>2

\* A manifest is refused for its key, or because it comes too early or too late.
LEMMA ManifestsNeedTheirTime ==
  ASSUME NEW m, NEW keyset, NEW e, NEW v, v = GlobalCheckpoint(m, keyset, e, << >>), v # "OK"
  PROVE  \/ v = "KEY_NOT_FOUND" /\ m.kid \notin keyset
         \/ v = "PROOF_NOT_YET_VALID" /\ m.at > e.now + e.skew
         \/ v = "PROOF_EXPIRED" /\ e.now > m.at + e.maxAge + e.skew
<1>1. PICK a, b, c :
        /\ a = Check(m.kid \notin keyset, "KEY_NOT_FOUND")
        /\ b = Check(m.at > e.now + e.skew, "PROOF_NOT_YET_VALID")
        /\ c = Check(e.now > m.at + e.maxAge + e.skew, "PROOF_EXPIRED")
  OBVIOUS
<1>2. PICK fields : fields = << <<"kid", "KEY_NOT_FOUND">>, <<"shards", "WRONG_MANIFEST">> >>
  OBVIOUS
<1>3. Differences(m, << >>, fields) = << "OK", "OK" >>
  <2>1. DOMAIN fields = 1 .. 2
    BY <1>2
  <2>2. Differences(m, << >>, fields) = [i \in 1 .. 2 |-> "OK"]
    BY <2>1 DEF Differences, Check
  <2> QED  BY <2>2
<1>4. PICK checks : checks = << a >> \o << b, c >> \o << "OK", "OK" >>
  OBVIOUS
<1>5. v = Verdict(checks)
  BY <1>1, <1>2, <1>3, <1>4 DEF GlobalCheckpoint, ServiceSignature, Freshness
<1>6. DOMAIN checks = 1 .. 5 /\ \A i \in 1 .. 5 : checks[i] \in {a, b, c, "OK"}
  BY <1>4
<1>7. v \in {a, b, c}
  <2>1. DOMAIN checks \subseteq Nat
    BY <1>6
  <2> QED  BY <1>5, <1>6, <2>1, VerdictIsTheFirst
<1> QED
  BY <1>1, <1>7 DEF Check

AskedFor(p, expected, size) ==
  /\ p.checkpoint.shard = p.shard /\ p.checkpoint.root = <<p.shard, p.checkpoint.size>>
  /\ DOMAIN expected = {"event", "shard", "size", "root"}
  /\ expected.event = p.event /\ expected.shard = p.shard
  /\ expected.size = size /\ expected.root = <<p.shard, size>>

JudgedByItsTree(v, p, keyset, e, size) ==
  \/ v = "OK" /\ p.checkpoint.size = size
  \/ v = "KEY_NOT_FOUND" /\ p.checkpoint.kid \notin keyset
  \/ v = "PROOF_NOT_YET_VALID" /\ p.checkpoint.at > e.now + e.skew
  \/ v = "PROOF_EXPIRED" /\ e.now > p.checkpoint.at + e.maxAge + e.skew
  \/ v = "WRONG_TREE_SIZE" /\ p.checkpoint.size # size

\* A proof of the event that was asked for, with a checkpoint of its shard, is
\* accepted for the tree it is held against only; it is refused for the key,
\* for its time, or because it is of another tree of that shard.
LEMMA ProofsAreOfTheTree ==
  ASSUME NEW p, NEW keyset, NEW e, NEW expected, NEW size, AskedFor(p, expected, size)
  PROVE  JudgedByItsTree(AuthenticatedInclusion(p, keyset, e, expected, TRUE), p, keyset, e, size)
<1> DEFINE v == AuthenticatedInclusion(p, keyset, e, expected, TRUE)
<1> USE DEF AskedFor
<1>1. PICK checkpoint : checkpoint = p.checkpoint
  OBVIOUS
<1>2. PICK a, b, c, d, f :
        /\ a = Check(checkpoint.kid \notin keyset, "KEY_NOT_FOUND")
        /\ b = Check(checkpoint.at > e.now + e.skew, "PROOF_NOT_YET_VALID")
        /\ c = Check(e.now > checkpoint.at + e.maxAge + e.skew, "PROOF_EXPIRED")
        /\ d = Check(checkpoint.size # size, "WRONG_TREE_SIZE")
        /\ f = Check(checkpoint.root # <<p.shard, size>>, "WRONG_ROOT")
  OBVIOUS
<1>3. PICK fields : fields = << <<"kid", "KEY_NOT_FOUND">>, <<"shard", "WRONG_SHARD">>,
                                <<"size", "WRONG_TREE_SIZE">>, <<"root", "WRONG_ROOT">> >>
  OBVIOUS
<1>4. Differences(checkpoint, expected, fields) = << "OK", "OK", d, f >>
  <2>1. /\ DOMAIN expected = {"event", "shard", "size", "root"}
        /\ expected["shard"] = p.shard /\ expected["size"] = size /\ expected["root"] = <<p.shard, size>>
    OBVIOUS
  <2>2. DOMAIN fields = 1 .. 4
    BY <1>3
  <2>3. PICK found : found = Differences(checkpoint, expected, fields)
    OBVIOUS
  <2>4. /\ DOMAIN found = 1 .. 4
        /\ \A i \in 1 .. 4 :
             found[i] = Check(/\ fields[i][1] \in DOMAIN expected
                              /\ checkpoint[fields[i][1]] # expected[fields[i][1]], fields[i][2])
        /\ found = [i \in 1 .. 4 |-> found[i]]
    BY <2>2, <2>3 DEF Differences
  <2>5. found[1] = "OK"
    BY <1>3, <2>1, <2>4 DEF Check
  <2>6. found[2] = "OK"
    BY <1>1, <1>3, <2>1, <2>4 DEF Check
  <2>7. found[3] = d
    BY <1>2, <1>3, <2>1, <2>4 DEF Check
  <2>8. found[4] = f
    BY <1>2, <1>3, <2>1, <2>4 DEF Check
  <2> QED
    BY <2>3, <2>4, <2>5, <2>6, <2>7, <2>8
<1>5. PICK checks : checks = << a >> \o << b, c >> \o << "OK", "OK", d, f >>
  OBVIOUS
<1>6. TransparencyCheckpoint(checkpoint, keyset, e, expected) = Verdict(checks)
  BY <1>2, <1>3, <1>4, <1>5 DEF TransparencyCheckpoint, ServiceSignature, Freshness
<1>7. v = Verdict(checks)
  <2>1. PICK asked : asked = << Check(p.event # expected.event, "WRONG_EVENT_HASH"),
                                Check(p.shard # expected.shard, "WRONG_SHARD") >>
    OBVIOUS
  <2>2. DOMAIN asked = 1 .. 2 /\ asked[1] = "OK" /\ asked[2] = "OK"
    BY <2>1 DEF Check
  <2>3. \A i \in DOMAIN asked : asked[i] = "OK"
    BY <2>2
  <2>4. Verdict(asked) = "OK"
    BY <2>3 DEF Verdict
  <2> QED
    BY <1>1, <1>6, <2>1, <2>4 DEF AuthenticatedInclusion
<1>8. /\ DOMAIN checks = 1 .. 7
      /\ checks[1] = a /\ checks[2] = b /\ checks[3] = c /\ checks[4] = "OK" /\ checks[5] = "OK"
      /\ checks[6] = d /\ checks[7] = f
  BY <1>5
<1>9. d = "OK" => f = "OK"
  BY <1>1, <1>2 DEF Check
<1>10. (v = "OK" /\ d = "OK") \/ (v # "OK" /\ v \in {a, b, c, d})
  <2>1. DOMAIN checks = {1, 2, 3, 4, 5, 6, 7} /\ DOMAIN checks \subseteq Nat
    BY <1>8
  <2>2. CASE Verdict(checks) = "OK" /\ \A i \in DOMAIN checks : checks[i] = "OK"
    <3>1. checks[6] = "OK"
      BY <2>1, <2>2
    <3> QED  BY <1>7, <1>8, <2>2, <3>1
  <2>3. ASSUME NEW i \in DOMAIN checks, checks[i] # "OK", Verdict(checks) = checks[i],
               \A j \in DOMAIN checks : j < i => checks[j] = "OK"
        PROVE  v # "OK" /\ v \in {a, b, c, d}
    <3>1. ASSUME i = 7 PROVE FALSE
      <4>1. checks[6] = "OK"
        BY <2>1, <2>3, <3>1
      <4>2. f = "OK"
        BY <1>8, <1>9, <4>1
      <4> QED  BY <1>8, <2>3, <3>1, <4>2
    <3>2. i \in {1, 2, 3, 4, 5, 6}
      BY <2>1, <2>3, <3>1
    <3>3. v = checks[i]
      BY <1>7, <2>3
    <3>4. checks[i] \in {a, b, c, d, "OK"}
      BY <1>8, <3>2
    <3> QED
      BY <2>3, <3>3, <3>4
  <2>4. \/ Verdict(checks) = "OK" /\ \A i \in DOMAIN checks : checks[i] = "OK"
        \/ \E i \in DOMAIN checks : /\ checks[i] # "OK" /\ Verdict(checks) = checks[i]
                                   /\ \A j \in DOMAIN checks : j < i => checks[j] = "OK"
    BY <2>1, VerdictIsTheFirst
  <2> QED
    BY <2>2, <2>3, <2>4
<1> QED
  BY <1>1, <1>2, <1>10 DEF Check, JudgedByItsTree

-----------------------------------------------------------------------------
(* What an auditor holds *)

KeysetOK(keyset) == \E current \in 0 .. signerKid : keyset.keys = Keyset(current)

\* A proof that was read when the tree had grown at least to its size of then.
ProofIsStated(p, event, t) ==
  LET s == p.shard
      checkpoint == p.checkpoint IN
  /\ p.event = event /\ s \in Shards
  /\ checkpoint.shard = s /\ checkpoint.root = <<s, checkpoint.size>> /\ checkpoint.size \in Nat
  /\ Listed(s, checkpoint.size) /\ checkpoint.at = stated[<<s, checkpoint.size>>]
  /\ checkpoint.kid \in 0 .. signerKid
  /\ event \in 1 .. checkpoint.size /\ t.sizes[s] <= checkpoint.size

PendingOK(p, t) ==
  /\ p.what \in {"nothing", "manifest", "proof"}
  /\ p.what = "manifest" => p.object \in manifests
  /\ p.what = "proof" => t # NULL /\ ProofIsStated(p.object, p.of, t)

IncludedOK == \A found \in included : found[2] <= found[3].sizes[found[1]] /\ found[3] \in manifests

RefusalOK(r) ==
  r # Nothing =>
    /\ r.what \in {"manifest", "proof"}
    /\ r.what = "manifest" => r.object \in manifests
    /\ r.what = "proof" => r.object.checkpoint.root \in DOMAIN stated
    /\ RefusedForAReason(r)

AuditInv ==
  /\ cached # NULL => KeysetOK(cached)
  /\ trusted # NULL => trusted \in manifests
  /\ PendingOK(pending, trusted)
  /\ IncludedOK
  /\ RefusalOK(refusal)

\* The reason of a refusal does not go away.
LEMMA RefusalStays ==
  ASSUME AllShardsInv, LogGrows, NEW r, RefusalOK(r)
  PROVE  RefusalOK(r)'
<1>1. CASE r = Nothing
  BY <1>1 DEF RefusalOK
<1>2. CASE r # Nothing
  <2>1. /\ r.what \in {"manifest", "proof"}
        /\ r.what = "manifest" => r.object \in manifests /\ r.object \in manifests'
        /\ r.what = "proof" => /\ r.object.checkpoint.root \in DOMAIN stated
                               /\ r.object.checkpoint.root \in DOMAIN stated'
        /\ RefusedForAReason(r)
    BY <1>2 DEF RefusalOK, LogGrows
  <2>2. \A x \in DOMAIN stated : stated'[x] = stated[x]
    BY DEF LogGrows
  <2>3. r.what = "manifest" => \A s \in Shards : <<s, r.object.sizes[s]>> \in DOMAIN stated
    BY <2>1 DEF AllShardsInv, PublishedOK, ManifestOK, Listed
  <2>4. RefusedForAReason(r)'
    BY <2>1, <2>2, <2>3 DEF RefusedForAReason, Shards
  <2> QED  BY <1>2, <2>1, <2>4 DEF RefusalOK
<1> QED
  BY <1>1, <1>2

LEMMA PendingStays ==
  ASSUME AllShardsInv, LogGrows, NEW p, NEW t, PendingOK(p, t)
  PROVE  PendingOK(p, t)'
<1>1. p.what = "manifest" => p.object \in manifests'
  BY DEF PendingOK, LogGrows
<1>2. \A i : i \in 0 .. signerKid => i \in 0 .. signerKid'
  BY DEF LogGrows, AllShardsInv, PublishedOK
<1>3. p.what = "proof" => ProofIsStated(p.object, p.of, t)'
  BY <1>2 DEF PendingOK, ProofIsStated, LogGrows, Listed, Shards
<1> QED
  BY <1>1, <1>3 DEF PendingOK

LEMMA KeysetStays ==
  ASSUME AllShardsInv, LogGrows, NEW keyset, KeysetOK(keyset)
  PROVE  KeysetOK(keyset)'
BY DEF AllShardsInv, PublishedOK, LogGrows, KeysetOK, Keyset

LEMMA IncludedStays ==
  ASSUME LogGrows, IncludedOK, included' = included
  PROVE  IncludedOK'
BY DEF LogGrows, IncludedOK

\* What others do leaves the auditor's objects as they were.
LEMMA AuditStays ==
  ASSUME AllShardsInv, AuditInv, LogGrows, UNCHANGED auditVars
  PROVE  AuditInv'
<1>1. UNCHANGED <<cached, pending, trusted, included, refusal>>
  BY DEF auditVars
<1>2. PICK keyset, p, t, r : keyset = cached /\ p = pending /\ t = trusted /\ r = refusal
  OBVIOUS
<1>3. PendingOK(p, t)' /\ RefusalOK(r)' /\ IncludedOK'
  BY <1>1, <1>2, PendingStays, RefusalStays, IncludedStays DEF AuditInv
<1>4. keyset # NULL => KeysetOK(keyset)'
  BY <1>2, KeysetStays DEF AuditInv
<1>5. t # NULL => t \in manifests'
  BY <1>2 DEF AuditInv, LogGrows
<1> QED
  BY <1>1, <1>2, <1>3, <1>4, <1>5 DEF AuditInv

-----------------------------------------------------------------------------

LEMMA FetchKeysetKeeps ==
  ASSUME AllShardsInv, AuditInv, FetchKeyset, LogGrows, UNCHANGED <<now, signerKid>>
  PROVE  AuditInv'
<1>1. /\ cached' = [keys |-> Keyset(signerKid), at |-> now]
      /\ UNCHANGED <<pending, trusted, included, refusal, manifests, stated, signerKid>>
  BY DEF FetchKeyset, manifestVars, bucket
<1>2. KeysetOK(cached)'
  BY <1>1 DEF KeysetOK, Keyset, AllShardsInv, PublishedOK
<1>3. PICK p, t, r : p = pending /\ t = trusted /\ r = refusal
  OBVIOUS
<1>4. PendingOK(p, t)' /\ RefusalOK(r)' /\ IncludedOK'
  BY <1>1, <1>3, PendingStays, RefusalStays, IncludedStays DEF AuditInv
<1> QED
  BY <1>1, <1>2, <1>3, <1>4 DEF AuditInv

LEMMA ReadManifestKeeps ==
  ASSUME AllShardsInv, AuditInv, ReadManifest, LogGrows, UNCHANGED <<now, signerKid>>
  PROVE  AuditInv'
<1>1. /\ globalPointer # NULL /\ pending' = [what |-> "manifest", object |-> globalPointer]
      /\ UNCHANGED <<cached, trusted, included, refusal, manifests, stated, signerKid>>
  BY DEF ReadManifest, manifestVars, bucket
<1>2. PendingOK(pending, trusted)'
  BY <1>1 DEF PendingOK, AllShardsInv, PublishedOK
<1>3. PICK keyset, r : keyset = cached /\ r = refusal
  OBVIOUS
<1>4. (keyset # NULL => KeysetOK(keyset)') /\ RefusalOK(r)' /\ IncludedOK'
  BY <1>1, <1>3, KeysetStays, RefusalStays, IncludedStays DEF AuditInv
<1> QED
  BY <1>1, <1>2, <1>3, <1>4 DEF AuditInv

\* The proof is of a tree that lists the trusted manifest's, or a later one.
LEMMA ReadInclusionKeeps ==
  ASSUME AllShardsInv, AuditInv, NEW s \in Shards, ReadInclusion(s), UNCHANGED <<now, signerKid>>
  PROVE  AllShardsInv' /\ LogGrows /\ AuditInv'
<1>1. PICK event \in 1 .. sizes[s] :
        /\ State(s, now)
        /\ pending' = [what |-> "proof", object |-> ProofOfInclusion(s, event), of |-> event]
  BY DEF ReadInclusion
<1>2. /\ trusted # NULL /\ run' = run
      /\ UNCHANGED <<sizes, signerKid, artifacts, pointers, manifests, globalPointer,
                     cached, trusted, included, refusal>>
  BY DEF ReadInclusion, bucket
<1>3. PICK at \in 0 .. now : at = now
  BY DEF AllShardsInv
<1>4. StatedOK' /\ LogGrows /\ Listed(s, sizes[s])' /\ sizes[s] \in Nat
  BY <1>1, <1>2, <1>3, StateIsListed
<1>5. AllShardsInv'
  BY <1>2, <1>4, RunsStay, PublishedStays DEF AllShardsInv
<1>6. PICK keyset, t, r : keyset = cached /\ t = trusted /\ r = refusal
  OBVIOUS
<1>7. PICK p : p = ProofOfInclusion(s, event)
  OBVIOUS
<1>8. t \in manifests /\ t.sizes[s] <= sizes[s]
  <2>1. t \in manifests
    BY <1>2, <1>6 DEF AuditInv
  <2>2. <<s, t.sizes[s]>> \in DOMAIN stated
    BY <2>1 DEF AllShardsInv, PublishedOK, ManifestOK, Listed
  <2> QED  BY <2>1, <2>2 DEF AllShardsInv, StatedOK
<1>9. ProofIsStated(p, event, t)'
  BY <1>1, <1>2, <1>4, <1>7, <1>8 DEF ProofIsStated, ProofOfInclusion, Listed, AllShardsInv, PublishedOK, Shards
<1>10. PendingOK(pending, trusted)'
  BY <1>1, <1>2, <1>6, <1>7, <1>9 DEF PendingOK
<1>11. (keyset # NULL => KeysetOK(keyset)') /\ RefusalOK(r)' /\ IncludedOK'
  BY <1>2, <1>4, <1>6, KeysetStays, RefusalStays, IncludedStays DEF AuditInv
<1> QED
  BY <1>2, <1>4, <1>5, <1>6, <1>8, <1>10, <1>11 DEF AuditInv

\* A key is missing from an older key set only because it is younger.
LEMMA MissingKeysAreYounger ==
  ASSUME AllShardsInv, NEW keyset, KeysetOK(keyset), NEW kid \in 0 .. signerKid, kid \notin keyset.keys
  PROVE  \A known \in keyset.keys : known < kid
BY DEF AllShardsInv, PublishedOK, KeysetOK, Keyset

LEMMA CheckManifestKeeps ==
  ASSUME AllShardsInv, AuditInv, CheckManifest, LogGrows, UNCHANGED <<now, signerKid>>
  PROVE  AuditInv'
<1>1. PICK m, keyset, t, r, e, v :
        /\ m = pending.object /\ keyset = cached /\ t = trusted /\ r = refusal'
        /\ e = Environment /\ v = GlobalCheckpoint(m, keyset.keys, e, << >>)
  OBVIOUS
<1>2. /\ pending.what = "manifest" /\ keyset # NULL /\ Judged(m, v)
      /\ trusted' = IF v = "OK" THEN m ELSE trusted
      /\ UNCHANGED <<manifests, stated, signerKid, now, cached, included>>
  <2>1. UNCHANGED <<manifests, stated, signerKid, cached, included>>
    BY DEF CheckManifest, manifestVars, bucket
  <2> QED  BY <1>1, <2>1 DEF CheckManifest, CacheIsFresh
<1>3. m \in manifests /\ ManifestOK(m) /\ KeysetOK(keyset)
  BY <1>1, <1>2 DEF AuditInv, PendingOK, AllShardsInv, PublishedOK
<1>4. e.now = now /\ e.maxAge = AuditMaxAge /\ e.skew = AuditSkew
  BY <1>1 DEF Environment
<1>5. /\ AuditMaxAge \in Nat /\ AuditSkew \in Nat /\ now \in Nat
      /\ m.at \in 0 .. now
      /\ \A s \in Shards : stated[<<s, m.sizes[s]>>] \in Nat /\ stated[<<s, m.sizes[s]>>] <= m.at
  BY <1>3, AuditAssumption DEF AllShardsInv, ManifestOK, StatedOK, Listed
<1>6. v # "OK" => RefusalOK(r)'
  <2> SUFFICES ASSUME v # "OK" PROVE RefusalOK(r)'
    OBVIOUS
  <2>1. r = [what |-> "manifest", object |-> m, code |-> v, at |-> now, keys |-> keyset.keys, trusted |-> t]
    BY <1>1, <1>2 DEF Judged
  <2>2. \/ v = "KEY_NOT_FOUND" /\ m.kid \notin keyset.keys
        \/ v = "PROOF_EXPIRED" /\ now > m.at + AuditMaxAge + AuditSkew
    <3>1. \/ v = "KEY_NOT_FOUND" /\ m.kid \notin keyset.keys
          \/ v = "PROOF_NOT_YET_VALID" /\ m.at > e.now + e.skew
          \/ v = "PROOF_EXPIRED" /\ e.now > m.at + e.maxAge + e.skew
      BY <1>1, ManifestsNeedTheirTime
    <3>2. ~(m.at > now + AuditSkew)
      BY <1>5
    <3> QED  BY <1>4, <3>1, <3>2
  <2>3. CASE v = "KEY_NOT_FOUND" /\ m.kid \notin keyset.keys
    <3>1. \A known \in keyset.keys : known < m.kid
      BY <1>3, <2>3, MissingKeysAreYounger DEF ManifestOK
    <3> QED  BY <1>2, <1>3, <2>1, <2>3, <3>1 DEF RefusalOK, RefusedForAReason
  <2>4. CASE v = "PROOF_EXPIRED" /\ now > m.at + AuditMaxAge + AuditSkew
    <3>1. \A s \in Shards : stated[<<s, m.sizes[s]>>] + AuditMaxAge + AuditSkew < now
      BY <1>5, <2>4
    <3>2. RefusedForAReason(r)'
      BY <1>2, <2>1, <2>4, <3>1 DEF RefusedForAReason, Shards
    <3> QED  BY <1>2, <1>3, <2>1, <3>2 DEF RefusalOK
  <2> QED  BY <2>2, <2>3, <2>4
<1>7. v = "OK" => RefusalOK(r)'
  BY <1>1, <1>2 DEF Judged, RefusalOK
<1>8. pending' = Nothing
  BY <1>2 DEF Judged
<1>9. PendingOK(pending, trusted)'
  BY <1>8 DEF PendingOK, Nothing
<1>10. KeysetOK(keyset)' /\ IncludedOK'
  BY <1>2, <1>3, KeysetStays, IncludedStays DEF AuditInv
<1>11. trusted' # NULL => trusted' \in manifests'
  BY <1>2, <1>3 DEF AuditInv
<1> QED
  BY <1>1, <1>2, <1>6, <1>7, <1>9, <1>10, <1>11 DEF AuditInv

LEMMA CheckInclusionKeeps ==
  ASSUME AllShardsInv, AuditInv, CheckInclusion, LogGrows, UNCHANGED <<now, signerKid>>
  PROVE  AuditInv'
<1>1. PICK p, checkpoint, s, size, keyset, t, r, e, expected, v :
        /\ p = pending.object /\ checkpoint = p.checkpoint /\ s = p.shard
        /\ keyset = cached /\ t = trusted /\ size = t.sizes[s] /\ r = refusal' /\ e = Environment
        /\ expected = [event |-> pending.of, shard |-> s, size |-> size, root |-> <<s, size>>]
        /\ v = AuthenticatedInclusion(p, keyset.keys, e, expected, TRUE)
  OBVIOUS
<1>2. /\ pending.what = "proof" /\ keyset # NULL /\ Judged(p, v)
      /\ included' = IF v = "OK" THEN included \cup {<<s, p.event, t>>} ELSE included
      /\ UNCHANGED <<manifests, stated, signerKid, now, cached, trusted>>
  <2>1. UNCHANGED <<manifests, stated, signerKid, cached, trusted>>
    BY DEF CheckInclusion, manifestVars, bucket
  <2> QED  BY <1>1, <2>1 DEF CheckInclusion, CacheIsFresh
<1>3. t \in manifests /\ ProofIsStated(p, pending.of, t) /\ KeysetOK(keyset)
  BY <1>1, <1>2 DEF AuditInv, PendingOK
<1>4. e.now = now /\ e.maxAge = AuditMaxAge /\ e.skew = AuditSkew
  BY <1>1 DEF Environment
<1>5. /\ p.event = pending.of /\ s \in Shards /\ checkpoint.shard = s
      /\ checkpoint.root = <<s, checkpoint.size>> /\ checkpoint.size \in Nat
      /\ checkpoint.root \in DOMAIN stated /\ checkpoint.at = stated[checkpoint.root]
      /\ checkpoint.kid \in 0 .. signerKid
      /\ p.event \in 1 .. checkpoint.size /\ size <= checkpoint.size
  BY <1>1, <1>3 DEF ProofIsStated, Listed
<1>6. /\ AuditMaxAge \in Nat /\ AuditSkew \in Nat /\ now \in Nat
      /\ checkpoint.at \in 0 .. now /\ size \in Nat
  <2>1. <<s, size>> \in DOMAIN stated
    BY <1>1, <1>3, <1>5 DEF AllShardsInv, PublishedOK, ManifestOK, Listed
  <2> QED  BY <1>5, <2>1, AuditAssumption DEF AllShardsInv, StatedOK
<1>7. \/ v = "OK" /\ checkpoint.size = size
      \/ v = "KEY_NOT_FOUND" /\ checkpoint.kid \notin keyset.keys
      \/ v = "PROOF_EXPIRED" /\ now > checkpoint.at + AuditMaxAge + AuditSkew
      \/ v = "WRONG_TREE_SIZE" /\ checkpoint.size # size
  <2>1. PICK keys : keys = keyset.keys
    OBVIOUS
  <2>2. v = AuthenticatedInclusion(p, keys, e, expected, TRUE)
    BY <1>1, <2>1
  <2>3. AskedFor(p, expected, size)
    BY <1>1, <1>5 DEF AskedFor
  <2>4. JudgedByItsTree(v, p, keys, e, size)
    BY <2>2, <2>3, ProofsAreOfTheTree
  <2>5. ~(checkpoint.at > now + AuditSkew)
    BY <1>6
  <2> QED  BY <1>1, <1>4, <2>1, <2>4, <2>5 DEF JudgedByItsTree
<1>8. v # "OK" => RefusalOK(r)'
  <2> SUFFICES ASSUME v # "OK" PROVE RefusalOK(r)'
    OBVIOUS
  <2>1. r = [what |-> "proof", object |-> p, code |-> v, at |-> now, keys |-> keyset.keys, trusted |-> t]
    BY <1>1, <1>2 DEF Judged
  <2>2. /\ r.what = "proof" /\ r.code = v /\ r.at = now /\ r.keys = keyset.keys
        /\ r.object.checkpoint = checkpoint /\ r.trusted.sizes[r.object.shard] = size
    BY <1>1, <2>1
  <2>3. RefusedForAReason(r)'
    <3>1. CASE v = "KEY_NOT_FOUND" /\ checkpoint.kid \notin keyset.keys
      <4>1. \A known \in keyset.keys : known < checkpoint.kid
        BY <1>3, <1>5, <3>1, MissingKeysAreYounger
      <4> QED  BY <2>2, <3>1, <4>1 DEF RefusedForAReason
    <3>2. CASE v = "PROOF_EXPIRED" /\ now > checkpoint.at + AuditMaxAge + AuditSkew
      <4>1. stated[checkpoint.root] + AuditMaxAge + AuditSkew < now
        BY <1>5, <1>6, <3>2
      <4> QED  BY <1>2, <2>2, <3>2, <4>1 DEF RefusedForAReason
    <3>3. CASE v = "WRONG_TREE_SIZE" /\ checkpoint.size # size
      <4>1. checkpoint.size > size
        BY <1>5, <1>6, <3>3
      <4> QED  BY <2>2, <3>3, <4>1 DEF RefusedForAReason
    <3> QED  BY <1>7, <3>1, <3>2, <3>3
  <2> QED  BY <1>2, <1>5, <2>2, <2>3 DEF RefusalOK
<1>9. v = "OK" => RefusalOK(r)'
  BY <1>1, <1>2 DEF Judged, RefusalOK
<1>10. pending' = Nothing
  BY <1>2 DEF Judged
<1>11. PendingOK(pending, trusted)'
  BY <1>10 DEF PendingOK, Nothing
<1>12. IncludedOK'
  <2>1. v = "OK" => p.event <= t.sizes[s]
    <3>1. v = "OK" => checkpoint.size = size
      BY <1>7
    <3>2. t.sizes[s] = size
      BY <1>1
    <3> QED  BY <1>5, <3>1, <3>2
  <2>2. PICK found : found = <<s, p.event, t>>
    OBVIOUS
  <2>3. v = "OK" => found[2] <= found[3].sizes[found[1]] /\ found[3] \in manifests
    BY <1>3, <2>1, <2>2
  <2> QED  BY <1>2, <2>2, <2>3 DEF AuditInv, IncludedOK
<1>13. KeysetOK(keyset)'
  BY <1>3, KeysetStays
<1> QED
  BY <1>1, <1>2, <1>3, <1>8, <1>9, <1>11, <1>12, <1>13 DEF AuditInv

LEMMA AuditStepKeeps ==
  ASSUME AllShardsInv, AuditInv, AuditNext, UNCHANGED <<now, signerKid>>
  PROVE  AllShardsInv' /\ LogGrows /\ AuditInv'
<1>1. CASE FetchKeyset \/ ReadManifest \/ CheckManifest \/ CheckInclusion
  <2>1. UNCHANGED manifestVars
    BY <1>1 DEF FetchKeyset, ReadManifest, CheckManifest, CheckInclusion
  <2>2. AllShardsInv' /\ LogGrows
    BY <2>1, AllShardsStay DEF AllShardsInv, PublishedOK
  <2> QED
    BY <1>1, <2>2, FetchKeysetKeeps, ReadManifestKeeps, CheckManifestKeeps, CheckInclusionKeeps
<1> QED
  BY <1>1, ReadInclusionKeeps DEF AuditNext

LEMMA TrueAudits ==
  ASSUME AuditInv
  PROVE  AuditsAreTrue
BY DEF AuditInv, RefusalOK, IncludedOK, AuditsAreTrue

-----------------------------------------------------------------------------
(* The operator's command *)

BodyOf(k) == [manifest |-> k.options.input, key |-> k.options.key, kid |-> k.options.kid]

\* How far a run of the command is, and what it has seen to on the way.
CommandOK(o, k) ==
  /\ k.at \in {"not run", "secrets", "input", "output", "filling", "upload", "print", "done", "failed"}
  /\ k.at # "not run" => k = [at |-> k.at, options |-> k.options]
  /\ k.at \in {"input", "output", "filling", "upload", "print", "done"} =>
       {k.options.key, k.options.kid} \cap RegistryKeys = {}
  /\ k.at \in {"output", "filling", "upload", "print", "done"} => k.options.input \in Complete
  /\ k.at = "filling" => file = PartOfFile
  /\ k.at \in {"upload", "print", "done"} /\ k.options.output => file = Written(BodyOf(k))
  /\ \/ k.at = "print"
     \/ k.at = "done" /\ k.options.upload
     => [by |-> o, body |-> BodyOf(k)] \in uploads

UploadOK(u) ==
  /\ u.by \in Operators /\ command[u.by].at \in {"print", "done", "failed"}
  /\ u.body = BodyOf(command[u.by])
  /\ command[u.by].options.output => file = Written(u.body)
  /\ u.body.manifest \in Complete /\ {u.body.key, u.body.kid} \cap RegistryKeys = {}

OneFills == \A o, p \in Operators : At(o, "filling") /\ At(p, "filling") => o = p

CliInv ==
  /\ DOMAIN command = Operators /\ \A o \in Operators : CommandOK(o, command[o])
  /\ OneFills
  /\ \A u \in uploads : UploadOK(u)

\* A file that is written stays as it is.
FileStays == \A body : file = Written(body) => file' = file

LEMMA CommandStays ==
  ASSUME FileStays, uploads \subseteq uploads', NEW o, NEW k, CommandOK(o, k),
         k.at = "filling" => file' = file
  PROVE  CommandOK(o, k)'
BY DEF CommandOK, FileStays

\* One run of the command goes on with its options.
LEMMA CommandMoves ==
  ASSUME CliInv, NEW o \in Operators, NEW k, command' = [command EXCEPT ![o] = k], CommandOK(o, k)',
         FileStays, uploads \subseteq uploads',
         file' # file => \A p \in Operators : p # o => ~At(p, "filling"),
         k.at = "filling" => \A p \in Operators : p # o => ~At(p, "filling"),
         command[o].at \in {"print", "done", "failed"} =>
           k.at \in {"print", "done", "failed"} /\ k.options = command[o].options,
         \A u \in uploads' : u \in uploads \/ UploadOK(u)'
  PROVE  CliInv'
<1>1. /\ DOMAIN command' = Operators /\ command'[o] = k
      /\ \A p \in Operators : p # o => command'[p] = command[p]
  BY DEF CliInv
<1>2. ASSUME NEW p \in Operators, p # o PROVE CommandOK(p, command[p])'
  <2>1. PICK q : q = command[p] /\ CommandOK(p, q)
    BY <1>2 DEF CliInv
  <2>2. q.at = "filling" => file' = file
    BY <1>2, <2>1 DEF At
  <2>3. CommandOK(p, q)'
    BY <2>1, <2>2, CommandStays
  <2> QED  BY <1>1, <1>2, <2>1, <2>3
<1>3. OneFills'
  BY <1>1 DEF CliInv, OneFills, At
<1>4. ASSUME NEW u \in uploads PROVE UploadOK(u)'
  <2>1. UploadOK(u)
    BY <1>4 DEF CliInv
  <2>2. /\ u.by \in Operators /\ command'[u.by].at \in {"print", "done", "failed"}
        /\ command'[u.by].options = command[u.by].options
    BY <1>1, <2>1 DEF UploadOK
  <2>3. BodyOf(command[u.by])' = BodyOf(command[u.by])
    BY <2>2 DEF BodyOf
  <2> QED  BY <2>1, <2>2, <2>3 DEF UploadOK, FileStays
<1> QED
  BY <1>1, <1>2, <1>3, <1>4 DEF CliInv

LEMMA OnlyTheStepChanges ==
  ASSUME NEW at, NEW options, NEW step
  PROVE  [[at |-> at, options |-> options] EXCEPT !.at = step] = [at |-> step, options |-> options]
OBVIOUS

LEMMA StepOfCommand ==
  ASSUME CliInv, NEW o \in Operators, command[o].at # "not run",
         NEW step \in {"input", "output", "filling", "upload", "print", "done", "failed"}, GoesTo(o, step)
  PROVE  command' = [command EXCEPT ![o] = [at |-> step, options |-> command[o].options]]
<1>1. PICK q : q = command[o]
  OBVIOUS
<1>2. PICK at, options : q = [at |-> at, options |-> options]
  BY <1>1 DEF CliInv, CommandOK
<1>3. [q EXCEPT !.at = step] = [at |-> step, options |-> options]
  BY <1>2, OnlyTheStepChanges
<1> QED
  BY <1>1, <1>2, <1>3 DEF GoesTo, CliInv

\* A step of a run of the command that writes nothing.
LEMMA CommandGoesOn ==
  ASSUME CliInv, NEW o \in Operators, NEW step \in {"input", "output", "upload", "done", "failed"},
         GoesTo(o, step), command[o].at \notin {"not run", "done", "failed"},
         command[o].at = "print" => step \in {"done", "failed"},
         UNCHANGED <<file, uploads>>,
         CommandOK(o, [at |-> step, options |-> command[o].options])
  PROVE  CliInv'
<1>1. PICK k : k = [at |-> step, options |-> command[o].options]
  OBVIOUS
<1>2. command' = [command EXCEPT ![o] = k]
  BY ZenonT(40), <1>1, StepOfCommand
<1>3. FileStays
  BY DEF FileStays
<1>4. CommandOK(o, k)'
  BY <1>1, <1>3, CommandStays
<1> QED
  BY <1>1, <1>2, <1>3, <1>4, CommandMoves

LEMMA StartCommandKeeps ==
  ASSUME CliInv, NEW o \in Operators, StartCommand(o)
  PROVE  CliInv'
<1>1. PICK options \in Options : command' = [command EXCEPT ![o] = [at |-> "secrets", options |-> options]]
  BY DEF StartCommand
<1>2. PICK k : k = [at |-> "secrets", options |-> options]
  OBVIOUS
<1>3. command[o].at = "not run" /\ UNCHANGED <<file, uploads>>
  BY DEF StartCommand, At
<1>4. FileStays
  BY <1>3 DEF FileStays
<1>5. CommandOK(o, k)'
  BY <1>2 DEF CommandOK
<1> QED
  BY <1>1, <1>2, <1>3, <1>4, <1>5, CommandMoves

LEMMA CheckSecretsKeeps ==
  ASSUME CliInv, NEW o \in Operators, CheckSecrets(o)
  PROVE  CliInv'
<1>1. PICK step : step = IF {command[o].options.key, command[o].options.kid} \cap RegistryKeys = {}
                           THEN "input" ELSE "failed"
  OBVIOUS
<1>2. command[o].at = "secrets" /\ GoesTo(o, step) /\ UNCHANGED <<file, uploads>>
  BY <1>1 DEF CheckSecrets, At
<1>3. CommandOK(o, [at |-> step, options |-> command[o].options])
  BY <1>1 DEF CommandOK
<1> QED
  BY <1>1, <1>2, <1>3, CommandGoesOn

LEMMA SignInputKeeps ==
  ASSUME CliInv, NEW o \in Operators, SignInput(o)
  PROVE  CliInv'
<1>1. PICK step : step = IF command[o].options.input \in Complete THEN "output" ELSE "failed"
  OBVIOUS
<1>2. command[o].at = "input" /\ GoesTo(o, step) /\ UNCHANGED <<file, uploads>>
  BY <1>1 DEF SignInput, At
<1>3. CommandOK(o, command[o])
  BY DEF CliInv
<1>4. CommandOK(o, [at |-> step, options |-> command[o].options])
  BY <1>1, <1>2, <1>3 DEF CommandOK
<1> QED
  BY <1>1, <1>2, <1>4, CommandGoesOn

\* Only a path that does not exist is opened, so nobody is filling it.
LEMMA OpenOutputKeeps ==
  ASSUME CliInv, NEW o \in Operators, OpenOutput(o)
  PROVE  CliInv'
<1>1. CommandOK(o, command[o])
  BY DEF CliInv
<1>2. CASE file # NoFile
  <2>1. command[o].at = "output" /\ GoesTo(o, "failed") /\ UNCHANGED <<file, uploads>>
    BY <1>2 DEF OpenOutput, Writable, At
  <2>2. CommandOK(o, [at |-> "failed", options |-> command[o].options])
    BY DEF CommandOK
  <2> QED
    BY <2>1, <2>2, CommandGoesOn
<1>3. CASE file = NoFile
  <2>1. /\ command[o].at = "output" /\ GoesTo(o, "filling")
        /\ file' = PartOfFile /\ UNCHANGED uploads
    BY <1>3 DEF OpenOutput, Writable, At
  <2>2. PICK k : k = [at |-> "filling", options |-> command[o].options]
    OBVIOUS
  <2>3. command' = [command EXCEPT ![o] = k]
    BY <2>1, <2>2, StepOfCommand
  <2>4. FileStays
    BY <1>3 DEF FileStays, NoFile, Written
  <2>5. CommandOK(o, k)'
    BY <1>1, <2>1, <2>2 DEF CommandOK
  <2>6. \A p \in Operators : ~At(p, "filling")
    BY <1>3 DEF CliInv, CommandOK, At, NoFile, PartOfFile
  <2> QED
    BY <2>1, <2>2, <2>3, <2>4, <2>5, <2>6, CommandMoves
<1> QED
  BY <1>2, <1>3

LEMMA FillOutputKeeps ==
  ASSUME CliInv, NEW o \in Operators, FillOutput(o)
  PROVE  CliInv'
<1>1. /\ command[o].at = "filling" /\ GoesTo(o, "upload")
      /\ file' = Written(BodyOf(command[o])) /\ UNCHANGED uploads
  BY DEF FillOutput, At, Body, BodyOf
<1>2. CommandOK(o, command[o])
  BY DEF CliInv
<1>3. PICK k : k = [at |-> "upload", options |-> command[o].options]
  OBVIOUS
<1>4. command' = [command EXCEPT ![o] = k]
  BY <1>1, <1>3, StepOfCommand
<1>5. FileStays
  BY <1>1, <1>2 DEF FileStays, CommandOK, PartOfFile, Written
<1>6. CommandOK(o, k)'
  <2>1. BodyOf(k) = BodyOf(command[o])
    BY <1>3 DEF BodyOf
  <2> QED  BY <1>1, <1>2, <1>3, <2>1 DEF CommandOK
<1>7. \A p \in Operators : p # o => ~At(p, "filling")
  BY <1>1 DEF CliInv, OneFills, At
<1> QED
  BY <1>1, <1>3, <1>4, <1>5, <1>6, <1>7, CommandMoves

LEMMA SkipOutputKeeps ==
  ASSUME CliInv, NEW o \in Operators, SkipOutput(o)
  PROVE  CliInv'
<1>1. /\ command[o].at = "output" /\ ~command[o].options.output /\ GoesTo(o, "upload")
      /\ UNCHANGED <<file, uploads>>
  BY DEF SkipOutput, At
<1>2. CommandOK(o, command[o])
  BY DEF CliInv
<1>3. CommandOK(o, [at |-> "upload", options |-> command[o].options])
  BY <1>1, <1>2 DEF CommandOK
<1> QED
  BY <1>1, <1>3, CommandGoesOn

LEMMA UploadKeeps ==
  ASSUME CliInv, NEW o \in Operators, Upload(o)
  PROVE  CliInv'
<1>1. command[o].at = "upload" /\ CommandOK(o, command[o]) /\ UNCHANGED file
  BY DEF Upload, At, CliInv
<1>2. CASE UNCHANGED uploads /\ GoesTo(o, "failed")
  <2>1. CommandOK(o, [at |-> "failed", options |-> command[o].options])
    BY DEF CommandOK
  <2> QED
    BY <1>1, <1>2, <2>1, CommandGoesOn
<1>3. ASSUME uploads' = uploads \cup {[by |-> o, body |-> Body(o)]},
             NEW step \in {"print", "failed"}, GoesTo(o, step)
      PROVE  CliInv'
  <2>1. PICK k : k = [at |-> step, options |-> command[o].options]
    OBVIOUS
  <2>2. command' = [command EXCEPT ![o] = k]
    BY ZenonT(40), <1>1, <1>3, <2>1, StepOfCommand
  <2>3. FileStays
    BY <1>1 DEF FileStays
  <2>4. PICK body : body = BodyOf(k) /\ body = Body(o) /\ body = BodyOf(command[o])
    BY <2>1 DEF Body, BodyOf
  <2>5. CommandOK(o, k)'
    BY <1>1, <1>3, <2>1, <2>4 DEF CommandOK
  <2>6. PICK u : u = [by |-> o, body |-> body]
    OBVIOUS
  <2>7. UploadOK(u)'
    <3>1. command'[o] = k
      BY <2>2 DEF CliInv
    <3>2. body.manifest = k.options.input /\ body.key = k.options.key /\ body.kid = k.options.kid
      BY <2>4 DEF BodyOf
    <3>3. BodyOf(command[o])' = body
      BY <2>4, <3>1 DEF BodyOf
    <3>4. command'[o].at \in {"print", "done", "failed"} /\ command'[o].options = command[o].options
      BY <2>1, <3>1
    <3>5. body.manifest \in Complete /\ {body.key, body.kid} \cap RegistryKeys = {}
      BY <1>1, <2>1, <3>2 DEF CommandOK
    <3>6. command[o].options.output => file' = Written(body)
      BY <1>1, <2>4 DEF CommandOK
    <3>7. u.by = o /\ u.body = body
      BY <2>6
    <3> QED
      BY <3>3, <3>4, <3>5, <3>6, <3>7 DEF UploadOK
  <2>8. \A v \in uploads' : v \in uploads \/ UploadOK(v)'
    BY <1>3, <2>4, <2>6, <2>7
  <2> QED
    BY <1>1, <1>3, <2>1, <2>2, <2>3, <2>5, <2>8, CommandMoves
<1> QED
  BY <1>2, <1>3 DEF Upload

LEMMA FinishKeeps ==
  ASSUME CliInv, NEW o \in Operators, Finish(o)
  PROVE  CliInv'
<1>1. /\ command[o].at = "print" \/ (command[o].at = "upload" /\ ~command[o].options.upload)
      /\ GoesTo(o, "done") /\ UNCHANGED <<file, uploads>>
  BY DEF Finish, At
<1>2. CommandOK(o, command[o])
  BY DEF CliInv
<1>3. PICK k : k = [at |-> "done", options |-> command[o].options]
  OBVIOUS
<1>4. BodyOf(k) = BodyOf(command[o])
  BY <1>3 DEF BodyOf
<1>5. CommandOK(o, k)
  BY <1>1, <1>2, <1>3, <1>4 DEF CommandOK
<1> QED
  BY <1>1, <1>3, <1>5, CommandGoesOn

LEMMA DiesKeeps ==
  ASSUME CliInv, NEW o \in Operators, Dies(o)
  PROVE  CliInv'
<1>1. /\ command[o].at \in {"input", "filling"}
      /\ GoesTo(o, "failed") /\ UNCHANGED <<file, uploads>>
  BY DEF Dies
<1>2. CommandOK(o, [at |-> "failed", options |-> command[o].options])
  BY DEF CommandOK
<1> QED
  BY <1>1, <1>2, CommandGoesOn

LEMMA CliStepKeeps ==
  ASSUME CliInv, CliNext
  PROVE  CliInv'
BY StartCommandKeeps, CheckSecretsKeeps, SignInputKeeps, OpenOutputKeeps, FillOutputKeeps,
   SkipOutputKeeps, UploadKeeps, FinishKeeps, DiesKeeps DEF CliNext

LEMMA CliStutters ==
  ASSUME CliInv, UNCHANGED cliVars
  PROVE  CliInv'
BY DEF CliInv, cliVars, CommandOK, UploadOK, OneFills, At, BodyOf

LEMMA FiledUploads ==
  ASSUME CliInv
  PROVE  UploadsAreOnFile
<1>1. ASSUME NEW u \in uploads
      PROVE  /\ command[u.by].options.output => file = Written(u.body)
             /\ u.body.manifest \in Complete /\ {u.body.key, u.body.kid} \cap RegistryKeys = {}
  BY <1>1 DEF CliInv, UploadOK
<1>2. ASSUME NEW o \in Operators, At(o, "done")
      PROVE  /\ command[o].options.output => file = Written(Body(o))
             /\ command[o].options.upload => [by |-> o, body |-> Body(o)] \in uploads
  <2>1. Body(o) = BodyOf(command[o])
    BY DEF Body, BodyOf
  <2> QED  BY <1>2, <2>1 DEF CliInv, CommandOK, At
<1> QED
  BY <1>1, <1>2 DEF UploadsAreOnFile

-----------------------------------------------------------------------------
(* The service as a whole *)

\* The invariant: of the shard with its publications, of the manifests, of the
\* auditor's objects and of the operator's runs.
ServiceInv == OneShardInv /\ AllShardsInv /\ AuditInv /\ CliInv

LEMMA ServiceInitInv == ServiceInit => ServiceInv
<1> SUFFICES ASSUME ServiceInit PROVE ServiceInv
  OBVIOUS
<1>1. Init /\ ManifestInit /\ AuditInit /\ CliInit
  BY DEF ServiceInit
<1>2. OneShardInv
  <2>1. ShardInv
    BY <1>1, ShardInitInv DEF Init
  <2>2. DOMAIN immutable = {} /\ latest = NULL
    BY <1>1 DEF Init
  <2>3. PublicationInv
    BY <1>1, <2>2 DEF Init, PublicationInv, PublicationOK, NoPublication, BucketOK
  <2> QED  BY <2>1, <2>3 DEF OneShardInv
<1>3. AllShardsInv
  <2>1. now \in Nat
    BY <1>1 DEF Init, ShardInit
  <2>2. DOMAIN stated = {} /\ DOMAIN artifacts = {} /\ manifests = {} /\ globalPointer = NULL
    BY <1>1 DEF ManifestInit
  <2>3. StatedOK
    BY <1>1, <2>2 DEF ManifestInit, StatedOK, Shards
  <2>4. RunsOK
    BY <1>1 DEF ManifestInit, RunsOK, RunOK, NotBegun
  <2>5. PublishedOK
    BY <1>1, <2>2 DEF Init, ManifestInit, PublishedOK
  <2> QED  BY <2>1, <2>3, <2>4, <2>5 DEF AllShardsInv
<1>4. AuditInv
  BY <1>1 DEF AuditInit, AuditInv, PendingOK, IncludedOK, RefusalOK, Nothing
<1>5. CliInv
  BY <1>1 DEF CliInit, CliInv, CommandOK, OneFills, At, NotRun
<1> QED
  BY <1>2, <1>3, <1>4, <1>5 DEF ServiceInv

\* What is in the tables stays there as it is, and what is in the buckets stays.
LogStays == TablesGrow /\ LogGrows /\ Kept

LEMMA ServiceStepKeeps ==
  ASSUME ServiceInv, [ServiceNext]_serviceVars
  PROVE  ServiceInv' /\ LogStays
<1>1. OneShardInv /\ AllShardsInv /\ AuditInv /\ CliInv
  BY DEF ServiceInv
<1>2. ASSUME UNCHANGED publicationVars
      PROVE  OneShardInv' /\ Kept /\ TablesGrow /\ UNCHANGED <<now, signerKid>>
  BY <1>1, <1>2, OneShardStutters DEF publicationVars, shardVars
<1>3. ASSUME OneShardInv', TablesGrow, Kept, UNCHANGED <<manifestVars, auditVars>>
      PROVE  AllShardsInv' /\ LogGrows /\ AuditInv'
  <2>1. AllShardsInv' /\ LogGrows
    BY <1>1, <1>3, AllShardsStay DEF TablesGrow, Kept
  <2> QED  BY <1>1, <1>3, <2>1, AuditStays
<1>4. CASE InOneShard
  <2>1. OneShardInv' /\ Kept /\ TablesGrow
    BY <1>1, <1>4, OneShardStepKeeps DEF InOneShard
  <2>2. AllShardsInv' /\ LogGrows /\ AuditInv'
    BY <1>3, <1>4, <2>1 DEF InOneShard
  <2>3. CliInv'
    BY <1>1, <1>4, CliStutters DEF InOneShard
  <2> QED  BY <2>1, <2>2, <2>3 DEF ServiceInv, LogStays
<1>5. CASE InAllShards
  <2>1. OneShardInv' /\ Kept /\ TablesGrow /\ UNCHANGED <<now, signerKid>>
    BY <1>2, <1>5 DEF InAllShards
  <2>2. AllShardsInv' /\ LogGrows
    BY <1>1, <1>5, <2>1, ManifestStepKeeps DEF InAllShards
  <2>3. AuditInv' /\ CliInv'
    BY <1>1, <1>5, <2>2, AuditStays, CliStutters DEF InAllShards
  <2> QED  BY <2>1, <2>2, <2>3 DEF ServiceInv, LogStays
<1>6. CASE ByAuditor
  <2>1. OneShardInv' /\ Kept /\ TablesGrow /\ UNCHANGED <<now, signerKid>>
    BY <1>2, <1>6 DEF ByAuditor
  <2>2. AllShardsInv' /\ LogGrows /\ AuditInv'
    BY <1>1, <1>6, <2>1, AuditStepKeeps DEF ByAuditor
  <2>3. CliInv'
    BY <1>1, <1>6, CliStutters DEF ByAuditor
  <2> QED  BY <2>1, <2>2, <2>3 DEF ServiceInv, LogStays
<1>7. CASE ByOperator
  <2>1. OneShardInv' /\ Kept /\ TablesGrow
    BY <1>2, <1>7 DEF ByOperator
  <2>2. AllShardsInv' /\ LogGrows /\ AuditInv'
    BY <1>3, <1>7, <2>1 DEF ByOperator
  <2>3. CliInv'
    BY <1>1, <1>7, CliStepKeeps DEF ByOperator
  <2> QED  BY <2>1, <2>2, <2>3 DEF ServiceInv, LogStays
<1>8. CASE UNCHANGED serviceVars
  <2>1. UNCHANGED <<publicationVars, manifestVars, auditVars, cliVars>>
    BY <1>8 DEF serviceVars
  <2>2. OneShardInv' /\ Kept /\ TablesGrow
    BY <1>2, <2>1
  <2>3. AllShardsInv' /\ LogGrows /\ AuditInv'
    BY <1>3, <2>1, <2>2
  <2>4. CliInv'
    BY <1>1, <2>1, CliStutters
  <2> QED  BY <2>2, <2>3, <2>4 DEF ServiceInv, LogStays
<1> QED
  BY <1>4, <1>5, <1>6, <1>7, <1>8 DEF ServiceNext

\* The inductive invariant holds of every behaviour of the service.
THEOREM ServiceInvHolds == ServiceSpec => []ServiceInv
<1>1. ServiceInv /\ [ServiceNext]_serviceVars => ServiceInv'
  BY ServiceStepKeeps
<1> QED
  BY <1>1, ServiceInitInv, PTL DEF ServiceSpec

\* Any number of appends in flight, of the same events or others, with evictions
\* at any await: each that is answered has its leaf, and none is refused.
THEOREM AppendsAreAcknowledgedAlways == ServiceSpec => []AppendsAreAcknowledged
<1>1. ServiceInv => AppendsAreAcknowledged
  <2> SUFFICES ASSUME ServiceInv, NEW c \in Callers, call[c].pc = "replied", call[c].kind = "append"
               PROVE  /\ call[c].code = "OK" /\ call[c].event \in DOMAIN events
                      /\ events[call[c].event] = call[c].body.leaf
                      /\ call[c].body.leaf < call[c].body.treeSize
                      /\ call[c].body.treeSize <= treeSize
    BY DEF AppendsAreAcknowledged
  <2>1. Acknowledged(call[c])
    BY DEF ServiceInv, OneShardInv, ShardInv, CallsOK, CallOK, AnswerOK
  <2> QED  BY <2>1 DEF Acknowledged, ServiceInv, OneShardInv, ShardInv, TablesOK
<1> QED
  BY <1>1, ServiceInvHolds, PTL

-----------------------------------------------------------------------------
(* Roots and audit paths *)

RootOf(leaves, n) == IF n = 0 THEN EmptyRoot ELSE RangeHash(leaves, n, 0)

\* What a request for a proof relies on: its event is in the tree that the proof
\* is for.
ProofOK(k) ==
  /\ k.pc = "rooting" /\ k.kind = "prove" => events[k.event] < k.size
  /\ k.pc = "proving" => events[k.event] < k.checkpoint.size
  /\ k.pc = "replied" /\ k.kind = "prove" /\ k.code = "OK" =>
       VerifyInclusionProof(k.event, k.body.leaf, k.body.checkpoint.size,
                            k.body.auditPath, k.body.checkpoint.root)

NodesAreStored == nodes = [x \in DOMAIN nodes |-> nodes[x]]

RootsOK == \A n \in DOMAIN checkpoints : checkpoints[n].root = RootOf(Leaves, n)

HashInv == NodesAreStored /\ RootsOK /\ \A c \in Callers : ProofOK(call[c])

LEMMA MTHIsRoot ==
  ASSUME NEW T, NEW leaves \in Seq(T), NEW n \in Nat, n <= Len(leaves)
  PROVE  MTH(SubSeq(leaves, 1, n)) = RootOf(leaves, n)
<1>1. PICK part : part = SubSeq(leaves, 1, n)
  OBVIOUS
<1>2. part \in Seq(T) /\ Len(part) = n /\ \A i \in 1 .. n : part[i] = leaves[i]
  BY <1>1
<1>3. CASE n = 0
  <2>1. part = << >>
    BY <1>2, <1>3
  <2> QED
    BY <1>1, <1>3, <2>1 DEF MTH, RootOf
<1>4. CASE n # 0
  <2>1. part # << >>
    BY <1>2, <1>4
  <2>2. MTH(part) = RangeHashes(part)[n][0]
    BY <1>2, <2>1, Zenon DEF MTH
  <2>3. MTH(part) = RangeHash(part, n, 0)
    BY <2>2, Zenon DEF RangeHash
  <2>4. \A i \in 1 .. n : part[0 + i] = leaves[0 + i]
    BY <1>2
  <2>5. 0 \in Nat /\ n \in Nat \ {0} /\ SameLeaves(part, 0, leaves, 0, n)
    BY <1>4, <2>4 DEF SameLeaves
  <2>6. RangeHash(part, n, 0) = RangeHash(leaves, n, 0)
    BY <2>5, RangeIsOfItsLeaves
  <2> QED
    BY <1>1, <1>4, <2>3, <2>6 DEF RootOf
<1> QED
  BY <1>3, <1>4

\* The leaves by their numbers.
LEMMA LeavesInOrder ==
  ASSUME NEW leafOf, NEW n \in Nat, NEW leaves,
         leaves = [i \in 1 .. n |-> CHOOSE e \in DOMAIN leafOf : leafOf[e] = i - 1],
         \A e \in DOMAIN leafOf : leafOf[e] \in 0 .. (n - 1),
         \A i \in 0 .. (n - 1) : \E e \in DOMAIN leafOf : leafOf[e] = i,
         \A e, f \in DOMAIN leafOf : leafOf[e] = leafOf[f] => e = f
  PROVE  /\ leaves \in Seq(DOMAIN leafOf) /\ Len(leaves) = n
         /\ \A i \in 1 .. n : leaves[i] \in DOMAIN leafOf /\ leafOf[leaves[i]] = i - 1
         /\ \A e \in DOMAIN leafOf : leaves[leafOf[e] + 1] = e
<1>1. ASSUME NEW i \in 1 .. n PROVE leaves[i] \in DOMAIN leafOf /\ leafOf[leaves[i]] = i - 1
  <2>1. i - 1 \in 0 .. (n - 1)
    OBVIOUS
  <2>2. \E e \in DOMAIN leafOf : leafOf[e] = i - 1
    BY <2>1
  <2>3. leaves[i] = CHOOSE e \in DOMAIN leafOf : leafOf[e] = i - 1
    OBVIOUS
  <2> QED
    BY <2>2, <2>3
<1>2. leaves \in Seq(DOMAIN leafOf) /\ Len(leaves) = n
  <2>1. leaves \in [1 .. n -> DOMAIN leafOf]
    BY <1>1
  <2> QED
    BY <2>1
<1>3. ASSUME NEW e \in DOMAIN leafOf PROVE leaves[leafOf[e] + 1] = e
  <2>1. PICK i \in 1 .. n : i = leafOf[e] + 1 /\ i - 1 = leafOf[e]
    <3>1. leafOf[e] \in 0 .. (n - 1)
      OBVIOUS
    <3> QED
      BY <3>1
  <2> QED
    BY <1>1, <2>1
<1> QED
  BY <1>1, <1>2, <1>3

LEMMA LeavesAre ==
  ASSUME TablesOK
  PROVE  /\ Leaves \in Seq(DOMAIN events) /\ Len(Leaves) = treeSize
         /\ \A i \in 1 .. treeSize : Leaves[i] \in DOMAIN events /\ events[Leaves[i]] = i - 1
         /\ \A e \in DOMAIN events : Leaves[events[e] + 1] = e
<1>1. /\ treeSize \in Nat
      /\ \A e \in DOMAIN events : events[e] \in 0 .. (treeSize - 1)
      /\ \A i \in 0 .. (treeSize - 1) : \E e \in DOMAIN events : events[e] = i
      /\ \A e, f \in DOMAIN events : events[e] = events[f] => e = f
  BY DEF TablesOK, EventsAreLeaves
<1>2. PICK leaves : leaves = [i \in 1 .. treeSize |-> CHOOSE e \in DOMAIN events : events[e] = i - 1]
  OBVIOUS
<1>3. /\ leaves \in Seq(DOMAIN events) /\ Len(leaves) = treeSize
      /\ \A i \in 1 .. treeSize : leaves[i] \in DOMAIN events /\ events[leaves[i]] = i - 1
      /\ \A e \in DOMAIN events : leaves[events[e] + 1] = e
  BY <1>1, <1>2, LeavesInOrder
<1> QED
  BY <1>2, <1>3 DEF Leaves

\* Leaves are added after those that there are.
LEMMA LeavesStay ==
  ASSUME TablesOK, TablesOK', TablesGrow
  PROVE  \A i \in 1 .. treeSize : Leaves'[i] = Leaves[i]
<1>1. /\ \A i \in 1 .. treeSize : Leaves[i] \in DOMAIN events /\ events[Leaves[i]] = i - 1
      /\ treeSize \in Nat
  BY LeavesAre DEF TablesOK
<1>2. \A e \in DOMAIN events' : Leaves'[events'[e] + 1] = e
  BY LeavesInOrder DEF TablesOK, EventsAreLeaves, Leaves
<1> SUFFICES ASSUME NEW i \in 1 .. treeSize PROVE Leaves'[i] = Leaves[i]
  OBVIOUS
<1>3. PICK e \in DOMAIN events : e = Leaves[i] /\ events[e] = i - 1
  BY <1>1
<1>4. e \in DOMAIN events' /\ events'[e] = i - 1
  BY <1>3 DEF TablesGrow
<1>5. (i - 1) + 1 = i
  OBVIOUS
<1> QED
  BY <1>2, <1>3, <1>4, <1>5

LEMMA RootsStay ==
  ASSUME TablesOK, TablesOK', TablesGrow, NEW n \in 0 .. treeSize
  PROVE  RootOf(Leaves', n) = RootOf(Leaves, n)
<1>1. \A i \in 1 .. treeSize : Leaves'[i] = Leaves[i]
  BY LeavesStay
<1>2. CASE n = 0
  BY <1>2 DEF RootOf
<1>3. CASE n # 0
  <2>1. n \in Nat \ {0} /\ n <= treeSize /\ treeSize \in Nat
    BY <1>3 DEF TablesOK
  <2>2. \A i \in 1 .. n : Leaves'[0 + i] = Leaves[0 + i]
    BY <1>1, <2>1
  <2>3. 0 \in Nat /\ SameLeaves(Leaves', 0, Leaves, 0, n)
    BY <2>2 DEF SameLeaves
  <2>4. RangeHash(Leaves', n, 0) = RangeHash(Leaves, n, 0)
    BY <2>1, <2>3, RangeIsOfItsLeaves
  <2> QED
    BY <1>3, <2>4 DEF RootOf
<1> QED
  BY <1>2, <1>3

\* The stored nodes are the hashes of the tree over the leaves.
LEMMA NodesHashLeaves ==
  ASSUME ShardInv, NodesAreStored
  PROVE  \E w : HashesOf(nodes, Leaves, treeSize, w)
<1>1. PICK w : TreeIs(w)
  BY DEF ShardInv, TreeOK
<1>2. /\ w \in Widths(treeSize) /\ DOMAIN nodes = CompleteNodes(w)
      /\ w \in [Nat -> Nat] /\ w[0] = treeSize
  BY <1>1 DEF TreeIs, Widths
<1>3. ASSUME NEW j \in Nat, j < treeSize PROVE nodes[<<0, j>>] = HashLeaf(Leaves[j + 1])
  <2>1. <<0, j>> \in DOMAIN nodes
    BY <1>2, <1>3 DEF CompleteNodes
  <2>2. PICK e \in DOMAIN events : events[e] = j /\ nodes[<<0, j>>] = HashLeaf(e)
    BY <2>1 DEF ShardInv, TreeOK, NodesAreHashes
  <2>3. Leaves[j + 1] = e
    BY <2>2, LeavesAre DEF ShardInv
  <2> QED
    BY <2>2, <2>3
<1>4. ASSUME NEW k \in Nat, NEW j \in Nat, j < w[k + 1]
      PROVE  nodes[<<k + 1, j>>] = HashNode(nodes[<<k, 2 * j>>], nodes[<<k, 2 * j + 1>>])
  <2>1. <<k + 1, j>> \in DOMAIN nodes
    BY <1>2, <1>4 DEF CompleteNodes
  <2>2. k + 1 # 0 /\ (k + 1) - 1 = k
    OBVIOUS
  <2> QED
    BY <2>1, <2>2 DEF ShardInv, TreeOK, NodesAreHashes
<1>5. nodes = [x \in CompleteNodes(w) |-> nodes[x]]
  BY <1>2 DEF NodesAreStored
<1> QED
  BY <1>2, <1>3, <1>4, <1>5 DEF HashesOf

LEMMA RangesOfTheTree ==
  ASSUME ShardInv, NodesAreStored
  PROVE  \A k \in Nat \ {0} : \A t \in Nat :
           t + k <= treeSize => SubtreeRoot(nodes, t, k) = RangeHash(Leaves, k, t)
<1>1. PICK w : HashesOf(nodes, Leaves, treeSize, w)
  BY NodesHashLeaves
<1>2. treeSize \in Nat
  BY DEF ShardInv, TablesOK
<1> QED
  BY <1>1, <1>2, SubtreeRootIs

LEMMA RootOfTheTree ==
  ASSUME ShardInv, NodesAreStored, NEW n \in 0 .. treeSize
  PROVE  TreeRoot(nodes, n) = RootOf(Leaves, n)
<1>1. treeSize \in Nat
  BY DEF ShardInv, TablesOK
<1>2. CASE n = 0
  BY <1>2 DEF TreeRoot, RootOf
<1>3. CASE n # 0
  <2>1. n \in Nat \ {0} /\ 0 \in Nat /\ 0 + n <= treeSize
    BY <1>1, <1>3
  <2>2. SubtreeRoot(nodes, 0, n) = RangeHash(Leaves, n, 0)
    BY <2>1, RangesOfTheTree
  <2> QED
    BY <1>3, <2>2 DEF TreeRoot, RootOf
<1> QED
  BY <1>2, <1>3

\* A request keeps what it relies on while the log grows.
LEMMA ProofStays ==
  ASSUME TablesGrow, NEW k, CallOK(k), ProofOK(k)
  PROVE  ProofOK(k)'
<1>1. k.pc = "rooting" /\ k.kind = "prove" => k.event \in DOMAIN events
  BY DEF CallOK
<1>2. k.pc = "proving" => k.event \in DOMAIN events
  BY DEF CallOK
<1> QED
  BY <1>1, <1>2 DEF TablesGrow, ProofOK

LEMMA HashStep ==
  ASSUME ShardInv, ShardInv', TablesGrow, HashInv, NodesAreStored',
         \A n \in DOMAIN checkpoints' : n \notin DOMAIN checkpoints =>
           n \in 0 .. treeSize /\ checkpoints'[n].root = RootOf(Leaves, n),
         \A c \in Callers : call'[c] = call[c] \/ ProofOK(call[c])'
  PROVE  HashInv'
<1>1. TablesOK /\ TablesOK'
  BY DEF ShardInv
<1>2. RootsOK'
  <2> SUFFICES ASSUME NEW n \in DOMAIN checkpoints' PROVE checkpoints'[n].root = RootOf(Leaves', n)
    BY DEF RootsOK
  <2>1. n \in 0 .. treeSize /\ checkpoints'[n].root = RootOf(Leaves, n)
    BY <1>1 DEF HashInv, RootsOK, TablesOK, TablesGrow
  <2> QED
    BY <1>1, <2>1, RootsStay
<1>3. ASSUME NEW c \in Callers PROVE ProofOK(call[c])'
  <2>1. CASE call'[c] = call[c]
    <3>1. PICK k : k = call[c]
      OBVIOUS
    <3>2. CallOK(k) /\ ProofOK(k)
      BY <3>1 DEF ShardInv, CallsOK, HashInv
    <3>3. ProofOK(k)'
      BY <3>2, ProofStays
    <3> QED
      BY <2>1, <3>1, <3>3
  <2> QED
    BY <2>1
<1> QED
  BY <1>2, <1>3 DEF HashInv

\* The step of one request that adds no checkpoint.
LEMMA OneCallMoves ==
  ASSUME ShardInv, ShardInv', TablesGrow, HashInv, NodesAreStored', UNCHANGED checkpoints,
         NEW c \in Callers, NEW k, call' = [call EXCEPT ![c] = k], ProofOK(k)'
  PROVE  HashInv'
<1>1. call'[c] = k /\ \A d \in Callers : d # c => call'[d] = call[d]
  BY DEF ShardInv, CallsOK
<1>2. \A d \in Callers : call'[d] = call[d] \/ ProofOK(call[d])'
  BY <1>1
<1> QED
  BY <1>2, HashStep

\* A step after which there is no proof at hand has nothing to keep.
NoProofAtHand(k) ==
  k.pc \in {"queued", "hashing", "asked", "idle"} \/ (k.pc = "replied" /\ k.kind = "append")

LEMMA AppendsHash ==
  ASSUME ShardInv, ShardInv', TablesGrow, HashInv, NEW c \in Callers,
         \/ \E e \in Events : RequestAppend(c, e) \/ RequestProof(c, e)
         \/ RequestCheckpoint(c) \/ BeginAppend(c) \/ HashParent(c) \/ CommitAppend(c)
  PROVE  HashInv'
<1>1. UNCHANGED checkpoints
  BY DEF RequestAppend, RequestProof, RequestCheckpoint, BeginAppend, HashParent, CommitAppend, tables
<1>2. NodesAreStored'
  <2>1. UNCHANGED nodes \/ \E T, f : nodes' = [x \in T |-> IF x \in f THEN call[c].pending[x] ELSE nodes[x]]
    BY DEF RequestAppend, RequestProof, RequestCheckpoint, BeginAppend, HashParent, CommitAppend, tables
  <2> QED
    BY <2>1 DEF HashInv, NodesAreStored
<1>3. \E k : call' = [call EXCEPT ![c] = k] /\ NoProofAtHand(k)
  <2>1. ASSUME NEW e \in Events, RequestAppend(c, e) \/ RequestProof(c, e)
        PROVE  \E k : call' = [call EXCEPT ![c] = k] /\ NoProofAtHand(k)
    <3>1. PICK k : \/ k = [pc |-> "queued", kind |-> "append", event |-> e] /\ RequestAppend(c, e)
                   \/ k = [pc |-> "asked", kind |-> "prove", event |-> e, at |-> now] /\ RequestProof(c, e)
      BY <2>1
    <3>2. call' = [call EXCEPT ![c] = k]
      BY <3>1 DEF RequestAppend, RequestProof
    <3>3. NoProofAtHand(k)
      BY <3>1 DEF NoProofAtHand
    <3> QED
      BY <3>2, <3>3
  <2>2. CASE RequestCheckpoint(c)
    <3>1. PICK k : k = [pc |-> "asked", kind |-> "checkpoint", event |-> NULL, at |-> now]
      OBVIOUS
    <3>2. call' = [call EXCEPT ![c] = k] /\ NoProofAtHand(k)
      BY <2>2, <3>1 DEF RequestCheckpoint, NoProofAtHand
    <3> QED
      BY <3>2
  <2>3. CASE \E code, body : Release(c, code, body) /\ call[c].kind = "append"
    <3>1. PICK code, body : Release(c, code, body) /\ call[c].kind = "append"
      BY <2>3
    <3>2. PICK k : k = Replied(c, code, body)
      OBVIOUS
    <3>3. call' = [call EXCEPT ![c] = k]
      BY <3>1, <3>2 DEF Release, Reply
    <3>4. NoProofAtHand(k)
      BY <3>1, <3>2 DEF Replied, NoProofAtHand
    <3> QED
      BY <3>3, <3>4
  <2>4. call[c].pc \in {"queued", "hashing"} => call[c].kind = "append"
    BY DEF ShardInv, CallsOK, CallOK
  <2>5. CASE BeginAppend(c)
    BY <2>3, <2>4, <2>5 DEF BeginAppend, Hashing, NoProofAtHand
  <2>6. CASE HashParent(c)
    BY <2>3, <2>4, <2>6 DEF HashParent, Hashing, NoProofAtHand
  <2>7. CASE CommitAppend(c)
    BY <2>3, <2>4, <2>7 DEF CommitAppend
  <2> QED
    BY <2>1, <2>2, <2>5, <2>6, <2>7
<1>4. PICK k : call' = [call EXCEPT ![c] = k] /\ NoProofAtHand(k)
  BY <1>3
<1>5. ProofOK(k)'
  BY <1>4 DEF NoProofAtHand, ProofOK
<1> QED
  BY <1>1, <1>2, <1>4, <1>5, OneCallMoves

\* A checkpoint of a size that has the event can be proved against.
LEMMA CheckpointAtHand ==
  ASSUME NEW c \in Callers, NEW size, NEW stored, WithCheckpoint(c, size, stored),
         call[c].kind \in {"checkpoint", "prove"},
         call[c].kind = "prove" => events'[call[c].event] < size
  PROVE  \E k : call' = [call EXCEPT ![c] = k] /\ ProofOK(k)'
<1> DEFINE s == [size |-> size, root |-> stored.root, at |-> stored.at]
<1>1. CASE call[c].kind = "checkpoint"
  <2>1. PICK k : k = Replied(c, "OK", s)
    OBVIOUS
  <2>2. call' = [call EXCEPT ![c] = k] /\ k.pc = "replied" /\ k.kind = "checkpoint"
    BY <1>1, <2>1 DEF WithCheckpoint, Reply, Replied
  <2>3. ProofOK(k)'
    BY <2>2 DEF ProofOK
  <2> QED
    BY <2>2, <2>3
<1>2. CASE call[c].kind = "prove"
  <2>1. PICK k : k = [pc |-> "proving", kind |-> "prove", event |-> call[c].event, checkpoint |-> s]
    OBVIOUS
  <2>2. /\ call' = [call EXCEPT ![c] = k] /\ k.pc = "proving"
        /\ k.event = call[c].event /\ k.checkpoint.size = size
    BY <1>2, <2>1 DEF WithCheckpoint
  <2>3. ProofOK(k)'
    BY <1>2, <2>2 DEF ProofOK
  <2> QED
    BY <2>2, <2>3
<1> QED
  BY <1>1, <1>2

LEMMA BeginHash ==
  ASSUME ShardInv, ShardInv', TablesGrow, HashInv, NEW c \in Callers, Begin(c)
  PROVE  HashInv'
<1>1. /\ call[c].pc = "asked" /\ call[c].kind \in {"checkpoint", "prove"}
      /\ UNCHANGED <<events, treeSize, nodes, checkpoints>>
  BY DEF Begin, tables, ShardInv, CallsOK, CallOK
<1>2. \A e \in DOMAIN events : events'[e] < treeSize
  BY <1>1 DEF ShardInv, TablesOK, EventsAreLeaves
<1>3. \E k : call' = [call EXCEPT ![c] = k] /\ ProofOK(k)'
  <2>1. CASE Reply(c, "NOT_FOUND", NULL)
    <3>1. PICK k : k = Replied(c, "NOT_FOUND", NULL)
      OBVIOUS
    <3>2. call' = [call EXCEPT ![c] = k] /\ k.pc = "replied" /\ k.code = "NOT_FOUND"
      BY <2>1, <3>1 DEF Reply, Replied
    <3>3. ProofOK(k)'
      BY <3>2 DEF ProofOK
    <3> QED
      BY <3>2, <3>3
  <2>2. CASE /\ call[c].kind = "prove" => call[c].event \in DOMAIN events
             /\ WithCheckpoint(c, treeSize, checkpoints[treeSize])
    BY <1>1, <1>2, <2>2, CheckpointAtHand
  <2>3. CASE /\ call[c].kind = "prove" => call[c].event \in DOMAIN events
             /\ call' = [call EXCEPT ![c] = [pc |-> "rooting", kind |-> call[c].kind,
                                             event |-> call[c].event, at |-> call[c].at,
                                             size |-> treeSize]]
    <3>1. PICK k : k = [pc |-> "rooting", kind |-> call[c].kind, event |-> call[c].event,
                        at |-> call[c].at, size |-> treeSize]
      OBVIOUS
    <3>2. ProofOK(k)'
      BY <1>2, <2>3, <3>1 DEF ProofOK
    <3> QED
      BY <2>3, <3>1, <3>2
  <2> QED
    BY <2>1, <2>2, <2>3 DEF Begin
<1>4. NodesAreStored'
  BY <1>1 DEF HashInv, NodesAreStored
<1> QED
  BY <1>1, <1>3, <1>4, OneCallMoves

\* The stored root is that of the size read before the awaits.
LEMMA StoreCheckpointHash ==
  ASSUME ShardInv, ShardInv', TablesGrow, HashInv, NEW c \in Callers, StoreCheckpoint(c)
  PROVE  HashInv'
<1>1. PICK size, at : size = call[c].size /\ at = call[c].at
  OBVIOUS
<1>2. /\ call[c].pc = "rooting" /\ call[c].kind \in {"checkpoint", "prove"}
      /\ size \in 0 .. treeSize
      /\ UNCHANGED <<events, treeSize, nodes>>
  BY <1>1 DEF StoreCheckpoint, ShardInv, CallsOK, CallOK
<1>3. TreeRoot(nodes, size) = RootOf(Leaves, size)
  BY <1>2, RootOfTheTree DEF HashInv
<1>4. PICK row : row = [root |-> TreeRoot(nodes, size), at |-> at]
  OBVIOUS
<1>5. checkpoints' = IF size \in DOMAIN checkpoints THEN checkpoints ELSE Put(checkpoints, size, row)
  BY <1>1, <1>4 DEF StoreCheckpoint, Stored, PutNew
<1>6. \A n \in DOMAIN checkpoints' : n \notin DOMAIN checkpoints =>
        n \in 0 .. treeSize /\ checkpoints'[n].root = RootOf(Leaves, n)
  <2>1. \A n \in DOMAIN checkpoints' : n \notin DOMAIN checkpoints => n = size /\ checkpoints'[n] = row
    BY <1>5 DEF Put
  <2> QED
    BY <1>2, <1>3, <1>4, <2>1
<1>7. PICK stored : stored = checkpoints'[size]
  OBVIOUS
<1>8. WithCheckpoint(c, size, stored)
  BY <1>1, <1>7 DEF StoreCheckpoint
<1>9. call[c].kind = "prove" => events'[call[c].event] < size
  BY <1>1, <1>2 DEF HashInv, ProofOK
<1>10. PICK k : call' = [call EXCEPT ![c] = k] /\ ProofOK(k)'
  BY <1>2, <1>8, <1>9, CheckpointAtHand
<1>11. \A d \in Callers : call'[d] = call[d] \/ ProofOK(call[d])'
  <2>1. call'[c] = k /\ \A d \in Callers : d # c => call'[d] = call[d]
    BY <1>10 DEF ShardInv, CallsOK
  <2> QED
    BY <1>10, <2>1
<1>12. NodesAreStored'
  BY <1>2 DEF HashInv, NodesAreStored
<1> QED
  BY <1>6, <1>11, <1>12, HashStep

\* The audit path verifies in the tree of the checkpoint, however much the log
\* has grown since.
LEMMA ProveHash ==
  ASSUME ShardInv, ShardInv', TablesGrow, HashInv, NEW c \in Callers, Prove(c)
  PROVE  HashInv'
<1>1. /\ call[c].pc = "proving" /\ call[c].kind = "prove" /\ call[c].event \in DOMAIN events
      /\ IsStated(call[c].checkpoint)
      /\ UNCHANGED <<events, treeSize, nodes, checkpoints>>
  BY DEF Prove, tables, ShardInv, CallsOK, CallOK
<1>2. PICK e, s : e = call[c].event /\ s = call[c].checkpoint
  OBVIOUS
<1>3. PICK size : size = s.size
  OBVIOUS
<1>4. PICK leaf : leaf = events[e]
  OBVIOUS
<1>5. /\ size \in 0 .. treeSize /\ treeSize \in Nat /\ leaf \in Nat /\ leaf < size
      /\ s.root = RootOf(Leaves, size)
  <2>1. size \in DOMAIN checkpoints /\ s.root = checkpoints[size].root
    BY <1>1, <1>2, <1>3 DEF IsStated
  <2>2. size \in 0 .. treeSize /\ treeSize \in Nat /\ leaf \in Nat
    BY <1>1, <1>2, <1>4, <2>1 DEF ShardInv, TablesOK, EventsAreLeaves
  <2>3. leaf < size
    BY <1>1, <1>2, <1>3, <1>4 DEF HashInv, ProofOK
  <2> QED
    BY <2>1, <2>2, <2>3 DEF HashInv, RootsOK
<1>6. s.root = RangeHash(Leaves, size, 0) /\ size \in Nat
  BY <1>5 DEF RootOf
<1>7. \A k \in Nat \ {0} : \A t \in Nat :
        t + k <= size => SubtreeRoot(nodes, t, k) = RangeHash(Leaves, k, t)
  BY <1>5, RangesOfTheTree DEF HashInv
<1>8. e = Leaves[leaf + 1]
  BY <1>1, <1>2, <1>4, LeavesAre DEF ShardInv
<1>9. VerifyInclusionProof(e, leaf, size, InclusionProof(nodes, leaf, size), RangeHash(Leaves, size, 0))
  BY <1>5, <1>6, <1>7, <1>8, AuditPathVerifies
<1>10. PICK path : path = InclusionProof(nodes, leaf, size)
  OBVIOUS
<1>11. PICK k : k = Replied(c, "OK", [leaf |-> leaf, auditPath |-> path, checkpoint |-> s])
  OBVIOUS
<1>12. /\ call' = [call EXCEPT ![c] = k]
       /\ k.pc = "replied" /\ k.event = e /\ k.body.leaf = leaf /\ k.body.auditPath = path
       /\ k.body.checkpoint = s
  BY <1>2, <1>3, <1>4, <1>10, <1>11 DEF Prove, ProofPath, Reply, Replied
<1>13. ProofOK(k)'
  <2>1. VerifyInclusionProof(k.event, k.body.leaf, k.body.checkpoint.size, k.body.auditPath, k.body.checkpoint.root)
    BY <1>3, <1>6, <1>9, <1>10, <1>12
  <2> QED
    BY <1>12, <2>1 DEF ProofOK
<1>14. NodesAreStored'
  BY <1>1 DEF HashInv, NodesAreStored
<1> QED
  BY <1>1, <1>12, <1>13, <1>14, OneCallMoves

\* Nothing is stored, and the requests that end are those that are evicted.
LEMMA OtherStepsHash ==
  ASSUME ShardInv, ShardInv', TablesGrow, HashInv, UNCHANGED <<nodes, checkpoints>>,
         \A c \in Callers : call'[c] = call[c] \/ call'[c] = Idle
  PROVE  HashInv'
<1>1. \A c \in Callers : call'[c] = call[c] \/ ProofOK(call[c])'
  BY DEF Idle, ProofOK
<1>2. NodesAreStored'
  BY DEF HashInv, NodesAreStored
<1> QED
  BY <1>1, <1>2, HashStep

LEMMA ShardStepHash ==
  ASSUME ShardInv, ShardInv', TablesGrow, HashInv,
         (\E c \in Callers : Request(c) \/ Proceed(c)) \/ Restart \/ Tick
  PROVE  HashInv'
<1>1. CASE Restart
  BY <1>1, OtherStepsHash DEF Restart, tables
<1>2. CASE Tick
  BY <1>2, OtherStepsHash DEF Tick, tables
<1>3. ASSUME NEW c \in Callers, Request(c) \/ Proceed(c) PROVE HashInv'
  BY <1>3, AppendsHash, BeginHash, StoreCheckpointHash, ProveHash DEF Request, Proceed
<1> QED
  BY <1>1, <1>2, <1>3

LEMMA ServiceStepHash ==
  ASSUME ServiceInv, HashInv, [ServiceNext]_serviceVars
  PROVE  HashInv'
<1>1. ShardInv /\ ShardInv' /\ TablesGrow
  BY ServiceStepKeeps DEF ServiceInv, OneShardInv, LogStays
<1>2. CASE UNCHANGED shardVars
  BY <1>1, <1>2, OtherStepsHash DEF shardVars
<1>3. CASE Next
  <2>1. ASSUME NEW c \in Callers,
               \/ StartPublication(c) \/ SignCheckpoint(c) \/ PutImmutable(c)
               \/ PutLatest(c) \/ PublicationFails(c)
        PROVE  HashInv'
    <3>1. CASE StartPublication(c)
      BY <1>1, <3>1, AppendsHash DEF StartPublication
    <3>2. CASE SignCheckpoint(c)
      <4>1. call' = [call EXCEPT ![c] = Idle] /\ UNCHANGED <<nodes, checkpoints>>
        BY <3>2 DEF SignCheckpoint, tables
      <4> QED
        BY <1>1, <4>1, OtherStepsHash DEF ShardInv, CallsOK
    <3>3. CASE ~ (StartPublication(c) \/ SignCheckpoint(c))
      <4>1. UNCHANGED shardVars
        BY <2>1, <3>3 DEF PutImmutable, PutLatest, PublicationFails
      <4> QED
        BY <1>2, <4>1
    <3> QED
      BY <3>1, <3>2, <3>3
  <2>2. RotateSigningKey => UNCHANGED shardVars
    BY DEF RotateSigningKey
  <2> QED
    BY <1>1, <1>2, <1>3, <2>1, <2>2, ShardStepHash DEF Next
<1>4. \/ UNCHANGED shardVars
      \/ Next
  BY DEF ServiceNext, InOneShard, InAllShards, ByAuditor, ByOperator, CliNext, Tick, publicationVars, serviceVars
<1> QED
  BY <1>2, <1>3, <1>4

LEMMA ServiceInitHash == ServiceInit => HashInv
BY DEF ServiceInit, Init, ShardInit, HashInv, NodesAreStored, RootsOK, ProofOK, Idle

\* What has been hashed and stored is right, on top of the service's invariant.
THEOREM HashInvHolds == ServiceSpec => [](ServiceInv /\ HashInv)
<1>1. ServiceInit => ServiceInv /\ HashInv
  BY ServiceInitInv, ServiceInitHash
<1>2. ServiceInv /\ HashInv /\ [ServiceNext]_serviceVars => (ServiceInv /\ HashInv)'
  BY ServiceStepKeeps, ServiceStepHash
<1> QED
  BY <1>1, <1>2, PTL DEF ServiceSpec

\* The stored nodes are those of the tree hash over the events in their order,
\* and every checkpoint ever stated is the root of a prefix of them, however the
\* hashing of appends, checkpoints and proofs interleaves: two checkpoints never
\* contradict each other. For any number of events and requests.
THEOREM LogIsAlwaysTheTree == ServiceSpec => []LogIsTheTree
<1>1. ServiceInv /\ HashInv => LogIsTheTree
  <2> SUFFICES ASSUME ServiceInv, HashInv PROVE LogIsTheTree
    OBVIOUS
  <2>1. ShardInv /\ TablesOK /\ treeSize \in Nat /\ NodesAreStored
    BY DEF ServiceInv, OneShardInv, ShardInv, TablesOK, HashInv
  <2>2. Leaves \in Seq(DOMAIN events) /\ Len(Leaves) = treeSize
    BY <2>1, LeavesAre
  <2>3. Cardinality(DOMAIN events) = treeSize /\ {events[e] : e \in DOMAIN events} = 0 .. (treeSize - 1)
    BY <2>1 DEF TablesOK, EventsAreLeaves
  <2>4. nodes = NodesOf(Leaves)
    <3>1. PICK w : HashesOf(nodes, Leaves, treeSize, w)
      BY <2>1, NodesHashLeaves
    <3>2. PICK T, leaves : leaves \in Seq(T) /\ leaves = Leaves
      BY <2>2
    <3>3. nodes = NodesOf(leaves)
      BY <2>1, <2>2, <3>1, <3>2, NodesAreOfTheTree
    <3> QED
      BY <3>2, <3>3
  <2>5. ASSUME NEW n \in DOMAIN checkpoints
        PROVE  n <= treeSize /\ checkpoints[n].root = MTH(SubSeq(Leaves, 1, n))
    <3>1. n \in 0 .. treeSize /\ checkpoints[n].root = RootOf(Leaves, n)
      BY <2>1 DEF HashInv, RootsOK, TablesOK
    <3>2. PICK T, leaves : leaves \in Seq(T) /\ leaves = Leaves /\ Len(leaves) = treeSize
      BY <2>2
    <3>3. MTH(SubSeq(leaves, 1, n)) = RootOf(leaves, n)
      BY <2>1, <3>1, <3>2, MTHIsRoot
    <3> QED
      BY <2>1, <3>1, <3>2, <3>3
  <2> QED
    BY <2>3, <2>4, <2>5 DEF LogIsTheTree
<1> QED
  BY <1>1, HashInvHolds, PTL

\* Every proof that is answered verifies against the checkpoint it comes with,
\* whatever has been appended between the two, in trees of any size.
THEOREM ProofsAlwaysVerify == ServiceSpec => []ProofsVerify
<1>1. HashInv => ProofsVerify
  BY DEF HashInv, ProofOK, ProofsVerify
<1> QED
  BY <1>1, HashInvHolds, PTL

\* Whatever is claimed to be in the log, with whatever path, verifies against a
\* stated root only if the log has it, as the leaf that is claimed: an auditor
\* who accepts a proof is never wrong about the log.
OnlyTheLogVerifies ==
  \A n \in DOMAIN checkpoints : \A leaf \in Nat : \A e, T : \A path \in Seq(T) :
    VerifyInclusionProof(e, leaf, n, path, checkpoints[n].root) =>
      e \in DOMAIN events /\ events[e] = leaf

THEOREM OnlyTheLogEverVerifies == ServiceSpec => []OnlyTheLogVerifies
<1>1. ServiceInv /\ HashInv => OnlyTheLogVerifies
  <2> SUFFICES ASSUME ServiceInv, HashInv, NEW n \in DOMAIN checkpoints, NEW leaf \in Nat,
                      NEW e, NEW T, NEW path \in Seq(T),
                      VerifyInclusionProof(e, leaf, n, path, checkpoints[n].root)
               PROVE  e \in DOMAIN events /\ events[e] = leaf
    BY DEF OnlyTheLogVerifies
  <2>1. ShardInv /\ TablesOK /\ treeSize \in Nat /\ NodesAreStored
    BY DEF ServiceInv, OneShardInv, ShardInv, TablesOK, HashInv
  <2>2. n \in 0 .. treeSize /\ checkpoints[n].root = RootOf(Leaves, n) /\ n \in Nat
    BY <2>1 DEF HashInv, RootsOK, TablesOK
  <2>3. leaf < n
    BY DEF VerifyInclusionProof
  <2>4. checkpoints[n].root = RangeHash(Leaves, n, 0)
    BY <2>2, <2>3 DEF RootOf
  <2>5. \A k \in Nat \ {0} : \A t \in Nat :
          t + k <= n => SubtreeRoot(nodes, t, k) = RangeHash(Leaves, k, t)
    BY <2>1, <2>2, RangesOfTheTree
  <2>6. VerifyInclusionProof(e, leaf, n, path, RangeHash(Leaves, n, 0))
    BY <2>4
  <2>7. e = Leaves[leaf + 1]
    BY <2>2, <2>5, <2>6, OnlyTheLeafVerifies
  <2>8. leaf + 1 \in 1 .. treeSize /\ (leaf + 1) - 1 = leaf
    BY <2>1, <2>2, <2>3
  <2> QED
    BY <2>1, <2>7, <2>8, LeavesAre
<1> QED
  BY <1>1, HashInvHolds, PTL

-----------------------------------------------------------------------------
(* The service implements the abstract log *)

StatedRoots == [n \in DOMAIN checkpoints |-> checkpoints[n].root]

Log == INSTANCE AppendOnlyLog WITH log <- Leaves, roots <- StatedRoots

\* Two kinds of steps change what the abstract log is made of.
LEMMA LogMoves ==
  ASSUME [ServiceNext]_serviceVars
  PROVE  \/ UNCHANGED <<events, treeSize, checkpoints>>
         \/ \E c \in Callers : CommitAppend(c) \/ StoreCheckpoint(c)
<1>1. ASSUME NEW c \in Callers, Request(c) \/ Proceed(c), ~ (CommitAppend(c) \/ StoreCheckpoint(c))
      PROVE  UNCHANGED <<events, treeSize, checkpoints>>
  BY <1>1 DEF Request, Proceed, RequestAppend, RequestProof, RequestCheckpoint, BeginAppend,
              HashParent, Begin, Prove, tables
<1>2. CASE UNCHANGED shardVars
  BY <1>2 DEF shardVars
<1>3. CASE Next
  <2>1. ASSUME NEW c \in Callers,
               \/ StartPublication(c) \/ SignCheckpoint(c) \/ PutImmutable(c)
               \/ PutLatest(c) \/ PublicationFails(c)
        PROVE  UNCHANGED <<events, treeSize, checkpoints>>
    BY <2>1 DEF StartPublication, RequestCheckpoint, SignCheckpoint, PutImmutable, PutLatest,
                PublicationFails, shardVars, tables
  <2>2. Restart \/ Tick => UNCHANGED <<events, treeSize, checkpoints>>
    BY DEF Restart, Tick, tables
  <2>3. RotateSigningKey => UNCHANGED shardVars
    BY DEF RotateSigningKey
  <2> QED
    BY <1>1, <1>2, <1>3, <2>1, <2>2, <2>3 DEF Next
<1>4. UNCHANGED shardVars \/ Next
  BY DEF ServiceNext, InOneShard, InAllShards, ByAuditor, ByOperator, CliNext, Tick, publicationVars, serviceVars
<1> QED
  BY <1>2, <1>3, <1>4

\* The commit of an append adds its event at the end, once.
LEMMA CommitAppendIsLogged ==
  ASSUME ShardInv, ShardInv', TablesGrow, NEW c \in Callers, CommitAppend(c)
  PROVE  [Log!LogNext]_(Log!logVars)
<1>1. UNCHANGED checkpoints
  BY DEF CommitAppend
<1>2. CASE UNCHANGED <<events, treeSize>>
  BY <1>1, <1>2 DEF Log!logVars, Leaves, StatedRoots
<1>3. CASE ~ UNCHANGED <<events, treeSize>>
  <2>1. PICK e : e = call[c].event
    OBVIOUS
  <2>2. e \in Events /\ e \notin DOMAIN events /\ call[c].leaf = treeSize
    BY <2>1 DEF CommitAppend, ShardInv, CallsOK, CallOK
  <2>3. events' = Put(events, e, treeSize) /\ treeSize' = treeSize + 1
    BY <1>3, <2>1, <2>2 DEF CommitAppend
  <2>4. e \in DOMAIN events' /\ events'[e] = treeSize
    BY <2>3 DEF Put
  <2>5. /\ Leaves \in Seq(DOMAIN events) /\ Len(Leaves) = treeSize /\ treeSize \in Nat
        /\ \A i \in 1 .. treeSize : Leaves[i] \in DOMAIN events
    BY LeavesAre DEF ShardInv, TablesOK
  <2>6. /\ Leaves' \in Seq(DOMAIN events') /\ Len(Leaves') = treeSize'
        /\ \A f \in DOMAIN events' : Leaves'[events'[f] + 1] = f
    <3>1. PICK leafOf, n : leafOf = events' /\ n = treeSize'
      OBVIOUS
    <3>2. PICK new : new = [i \in 1 .. n |-> CHOOSE f \in DOMAIN leafOf : leafOf[f] = i - 1]
      OBVIOUS
    <3>3. /\ n \in Nat
          /\ \A f \in DOMAIN leafOf : leafOf[f] \in 0 .. (n - 1)
          /\ \A i \in 0 .. (n - 1) : \E f \in DOMAIN leafOf : leafOf[f] = i
          /\ \A f, g \in DOMAIN leafOf : leafOf[f] = leafOf[g] => f = g
      BY <3>1 DEF ShardInv, TablesOK, EventsAreLeaves
    <3>4. /\ new \in Seq(DOMAIN leafOf) /\ Len(new) = n
          /\ \A f \in DOMAIN leafOf : new[leafOf[f] + 1] = f
      BY <3>3, <3>2, LeavesInOrder
    <3>5. new = Leaves'
      BY <3>1, <3>2 DEF Leaves
    <3> QED
      BY <3>1, <3>4, <3>5
  <2>7. \A i \in 1 .. treeSize : Leaves'[i] = Leaves[i]
    BY LeavesStay DEF ShardInv
  <2>8. Leaves'[treeSize + 1] = e
    BY <2>4, <2>6
  <2>9. Leaves' = Append(Leaves, e)
    <3>1. PICK old, new, T : /\ old = Leaves /\ new = Leaves' /\ T = DOMAIN events \cup DOMAIN events'
      OBVIOUS
    <3>2. old \in Seq(T) /\ new \in Seq(T) /\ e \in T
      BY <2>4, <2>5, <2>6, <3>1
    <3>3. /\ Len(old) = treeSize /\ Len(new) = treeSize + 1 /\ new[treeSize + 1] = e
          /\ \A i \in 1 .. treeSize : new[i] = old[i]
      BY <2>3, <2>5, <2>6, <2>7, <2>8, <3>1
    <3>4. new = Append(old, e)
      BY <2>5, <3>2, <3>3
    <3> QED
      BY <3>1, <3>4
  <2>10. \A i \in DOMAIN Leaves : Leaves[i] # e
    BY <2>2, <2>5
  <2>11. UNCHANGED StatedRoots
    BY <1>1 DEF StatedRoots
  <2> QED
    BY <2>2, <2>9, <2>10, <2>11 DEF Log!LogNext, Log!AppendEvent
<1> QED
  BY <1>2, <1>3

\* What a checkpoint states is the tree hash of the prefix it was asked for.
LEMMA StoreCheckpointIsLogged ==
  ASSUME ShardInv, HashInv, NEW c \in Callers, StoreCheckpoint(c)
  PROVE  [Log!LogNext]_(Log!logVars)
<1>1. PICK size, at : size = call[c].size /\ at = call[c].at
  OBVIOUS
<1>2. size \in 0 .. treeSize /\ treeSize \in Nat /\ UNCHANGED <<events, treeSize, nodes>>
  BY <1>1 DEF StoreCheckpoint, ShardInv, CallsOK, CallOK, TablesOK
<1>3. UNCHANGED Leaves
  BY <1>2 DEF Leaves
<1>4. PICK row : row = [root |-> TreeRoot(nodes, size), at |-> at]
  OBVIOUS
<1>5. checkpoints' = IF size \in DOMAIN checkpoints THEN checkpoints ELSE Put(checkpoints, size, row)
  BY <1>1, <1>4 DEF StoreCheckpoint, Stored, PutNew
<1>6. CASE size \in DOMAIN checkpoints
  BY <1>3, <1>5, <1>6 DEF Log!logVars, StatedRoots
<1>7. CASE size \notin DOMAIN checkpoints
  <2>1. PICK T, leaves : leaves \in Seq(T) /\ leaves = Leaves /\ Len(leaves) = treeSize
    BY LeavesAre DEF ShardInv
  <2>2. MTH(SubSeq(leaves, 1, size)) = RootOf(leaves, size)
    BY <1>2, <2>1, MTHIsRoot
  <2>3. row.root = MTH(SubSeq(Leaves, 1, size))
    BY <1>2, <1>4, <2>1, <2>2, RootOfTheTree DEF HashInv
  <2>4. /\ DOMAIN checkpoints' = DOMAIN checkpoints \cup {size} /\ checkpoints'[size] = row
        /\ \A n \in DOMAIN checkpoints : checkpoints'[n] = checkpoints[n]
    BY <1>5, <1>7 DEF Put
  <2>5. PICK root : root = MTH(SubSeq(Leaves, 1, size))
    OBVIOUS
  <2>6. StatedRoots' = [n \in DOMAIN StatedRoots \cup {size} |->
                          IF n = size THEN root ELSE StatedRoots[n]]
    BY <1>7, <2>3, <2>4, <2>5 DEF StatedRoots
  <2>7. size \notin DOMAIN StatedRoots
    BY <1>7 DEF StatedRoots
  <2>8. size \in 0 .. Len(Leaves)
    BY <1>2, <2>1
  <2>9. Log!StateRoot(size)
    BY <1>3, <2>5, <2>6, <2>7 DEF Log!StateRoot
  <2> QED
    BY <2>8, <2>9 DEF Log!LogNext
<1> QED
  BY <1>6, <1>7

\* However appends, checkpoints and evictions interleave with each other and
\* with the rest of the service, a shard is a list to which each event is added
\* once, at the end, with the tree hash of some of its prefixes.
THEOREM ShardIsAnAppendOnlyLog == ServiceSpec => Log!LogSpec
<1>1. ServiceInit => Log!LogInit
  BY DEF ServiceInit, Init, ShardInit, Leaves, StatedRoots, Log!LogInit
<1>2. ServiceInv /\ HashInv /\ [ServiceNext]_serviceVars => [Log!LogNext]_(Log!logVars)
  <2> SUFFICES ASSUME ServiceInv, HashInv, [ServiceNext]_serviceVars
               PROVE  [Log!LogNext]_(Log!logVars)
    OBVIOUS
  <2>1. ShardInv /\ ShardInv' /\ TablesGrow
    BY ServiceStepKeeps DEF ServiceInv, OneShardInv, LogStays
  <2>2. CASE UNCHANGED <<events, treeSize, checkpoints>>
    BY <2>2 DEF Log!logVars, Leaves, StatedRoots
  <2> QED
    BY <2>1, <2>2, LogMoves, CommitAppendIsLogged, StoreCheckpointIsLogged
<1> QED
  BY <1>1, <1>2, HashInvHolds, PTL DEF ServiceSpec, Log!LogSpec

-----------------------------------------------------------------------------

\* The stored nodes are those of the complete subtrees over the first treeSize
\* leaves, each the hash of its event or of the two nodes below it; the events
\* are the leaves, without a gap and without a repetition.
TreeIsComplete ==
  /\ EventsAreLeaves /\ NodesAreHashes
  /\ \E w \in Widths(treeSize) : DOMAIN nodes = CompleteNodes(w)

THEOREM TreeIsAlwaysComplete == ServiceSpec => []TreeIsComplete
<1>1. ServiceInv => TreeIsComplete
  BY DEF ServiceInv, OneShardInv, ShardInv, TablesOK, TreeOK, TreeIs, TreeIsComplete
<1> QED
  BY <1>1, ServiceInvHolds, PTL

\* No step changes or removes an event's leaf, a stated checkpoint or the one that
\* an artifact of the shard carries, none removes an artifact or a manifest of the
\* cron, and the tree never shrinks.
THEOREM LogIsAppendOnly == ServiceSpec => [][LogStays]_serviceVars
<1>1. ServiceInv /\ [ServiceNext]_serviceVars => [LogStays]_serviceVars
  BY ServiceStepKeeps
<1> QED
  BY <1>1, ServiceInvHolds, PTL DEF ServiceSpec

\* No artifact goes and none is written again for another checkpoint, by any
\* number of publications that overlap and fail and under any number of
\* rotations; and its bytes are the same each time until the key is rotated.
THEOREM CheckpointsAreAlwaysKept == ServiceSpec => CheckpointsAreKept
<1>1. ServiceInv /\ [ServiceNext]_serviceVars =>
        [\A key \in DOMAIN immutable :
           /\ key \in DOMAIN immutable'
           /\ immutable'[key].checkpoint = immutable[key].checkpoint
           /\ signerKid = 0 => immutable'[key] = immutable[key]]_immutable
  BY ServiceStepKeeps DEF LogStays, Kept
<1> QED
  BY <1>1, ServiceInvHolds, PTL DEF ServiceSpec, CheckpointsAreKept

\* Every pointer has its artifact, every manifest of the cron the artifacts it
\* lists, with one time for the same trees; an auditor refuses nothing without a
\* reason that is not the log's; and what the command uploaded is on file. For
\* any number of shards, batch size, runs, rotations and runs of the command.
THEOREM PublishedAlwaysStands == ServiceSpec => []PublishedStands
<1>1. ServiceInv => LatestIsBacked
  BY DEF ServiceInv, OneShardInv, PublicationInv, BucketOK, Backed, LatestIsBacked
<1>2. ServiceInv => PublishedStands
  BY <1>1, BackedManifests, TrueAudits, FiledUploads
     DEF ServiceInv, PublishedStands, PublishedIsAuditable, PublishedIsBacked
<1> QED
  BY <1>2, ServiceInvHolds, PTL
=============================================================================
