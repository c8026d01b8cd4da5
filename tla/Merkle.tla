------------------------------- MODULE Merkle -------------------------------
(***************************************************************************)
(* The hash tree of a transparency shard (workers/transparency/src/        *)
(* merkle.ts): roots and audit paths are computed from stored nodes, each  *)
(* the root of a complete subtree, named by its level and index.           *)
(*                                                                         *)
(* A hash is the term it was computed from: SHA-256 is taken as injective, *)
(* and the prefixes of leaves and nodes keep their terms apart.            *)
(*                                                                         *)
(* Recursion is by recursive functions, so that modules with theorems may  *)
(* use this one.                                                           *)
(***************************************************************************)
EXTENDS Integers, Sequences

HashLeaf(e) == <<"leaf", e>>
HashNode(left, right) == <<"node", left, right>>
EmptyRoot == <<"empty">>

Pow2[k \in Nat] == IF k = 0 THEN 1 ELSE 2 * Pow2[k - 1]

IsPowerOfTwo(n) == \E k \in 0..n : Pow2[k] = n
Log2(n) == CHOOSE k \in 0..n : Pow2[k] = n

LargestPowerOfTwoLessThan(n) ==
  CHOOSE p \in {Pow2[k] : k \in 0..n} : p < n /\ n <= 2 * p

\* The root of the leaves start .. start + size - 1: a stored node when they
\* are a complete subtree, otherwise hashed from two smaller ones.
SubtreeRoot(nodes, start, size) ==
  LET root[n \in Nat \ {0}] == [s \in Nat |->
        IF IsPowerOfTwo(n) /\ s % n = 0
          THEN nodes[<<Log2(n), s \div n>>]
          ELSE LET split == LargestPowerOfTwoLessThan(n) IN
               HashNode(root[split][s], root[n - split][s + split])]
  IN  root[size][start]

TreeRoot(nodes, treeSize) ==
  IF treeSize = 0 THEN EmptyRoot ELSE SubtreeRoot(nodes, 0, treeSize)

\* The siblings on the way from a leaf to the root.
InclusionProof(nodes, leaf, treeSize) ==
  LET path[n \in Nat \ {0}] == [s \in Nat |->
        IF n = 1 THEN << >>
        ELSE LET split == LargestPowerOfTwoLessThan(n) IN
             IF leaf < s + split
               THEN Append(path[split][s], SubtreeRoot(nodes, s + split, n - split))
               ELSE Append(path[n - split][s + split], SubtreeRoot(nodes, s, split))]
  IN  path[treeSize][0]

\* How often the verifier halves an even index besides the halving of each
\* round: until it is odd or zero.
ExtraHalvings(index) ==
  CHOOSE k \in 0..index :
    /\ index = 0 => k = 0
    /\ index > 0 => (index \div Pow2[k]) % 2 = 1 /\ \A j \in 0..(k - 1) : (index \div Pow2[j]) % 2 = 0

\* One round of the verifier's loop: the sibling is on the left of an odd node
\* and of the last one of its level.
VerifierRound(v, sibling) ==
  IF v.index % 2 = 1 \/ v.index = v.last
    THEN LET halvings == 1 + ExtraHalvings(v.index) IN
         [node |-> HashNode(sibling, v.node),
          index |-> v.index \div Pow2[halvings], last |-> v.last \div Pow2[halvings]]
    ELSE [node |-> HashNode(v.node, sibling),
          index |-> v.index \div 2, last |-> v.last \div 2]

\* The path has to be used up by the round that reaches the root.
VerifyInclusionProof(e, leaf, treeSize, path, expectedRoot) ==
  LET after[k \in 0..Len(path)] ==
        IF k = 0 THEN [node |-> HashLeaf(e), index |-> leaf, last |-> treeSize - 1]
                 ELSE VerifierRound(after[k - 1], path[k])
  IN  /\ 0 <= leaf /\ leaf < treeSize
      /\ \A k \in 0..Len(path) : after[k].last = 0 <=> k = Len(path)
      /\ after[Len(path)].node = expectedRoot

-----------------------------------------------------------------------------
(* Reference: the tree hash of RFC 6962 over the sequence of leaves, and the *)
(* nodes of its complete subtrees.                                           *)

\* The hashes of the leaves s + 1 .. s + n, for any n and s.
RangeHashes(leaves) ==
  LET hash[n \in Nat \ {0}] == [s \in Nat |->
        IF n = 1 THEN HashLeaf(leaves[s + 1])
        ELSE LET split == LargestPowerOfTwoLessThan(n) IN
             HashNode(hash[split][s], hash[n - split][s + split])]
  IN  hash

MTH(leaves) == IF leaves = << >> THEN EmptyRoot ELSE RangeHashes(leaves)[Len(leaves)][0]

CompleteSubtrees(n) ==
  {x \in (0..n) \X (0..n) : (x[2] + 1) * Pow2[x[1]] <= n}

NodesOf(leaves) ==
  [x \in CompleteSubtrees(Len(leaves)) |->
     MTH(SubSeq(leaves, x[2] * Pow2[x[1]] + 1, (x[2] + 1) * Pow2[x[1]]))]

\* For every tree size and leaf the audit path of the leaf verifies against the
\* root, and against no other leaf, position or event.
ProofsAreSound(leaves) ==
  LET size == Len(leaves)
      nodes == NodesOf(leaves) IN
  /\ TreeRoot(nodes, size) = MTH(leaves)
  /\ \A i, j \in 1..size :
       VerifyInclusionProof(leaves[j], j - 1, size,
                            InclusionProof(nodes, i - 1, size), TreeRoot(nodes, size)) <=> i = j
=============================================================================
