------------------------------- MODULE Merkle -------------------------------
(***************************************************************************)
(* The transaction merkle tree of primitives/block.cpp (BuildMerkleTree,   *)
(* GetMerkleBranch, CBlock::CheckMerkleBranch) and the cross-chain proof   *)
(* check of cc/eval.cpp (SafeCheckMerkleBranch, GetMerkleRoot).  A hash is *)
(* a 1-tuple <<v>>; Hash(a, b) is the pair <<a, b>>, so two hashes are equal*)
(* exactly when they are built the same way: double-SHA256 is taken to be *)
(* collision free, as the comment in BuildMerkleTree assumes.  The tree    *)
(* vMerkleTree is a flat sequence, level after level, indexed from 0 in   *)
(* the code and from 1 here.                                              *)
(***************************************************************************)
EXTENDS Integers, Sequences, SequencesExt, Bitwise

CONSTANTS
    Values,      \* leaf hashes (txids), each a 1-tuple <<v>>
    MaxLeaves    \* bound on the number of leaves

ASSUME \A v \in Values : Len(v) = 1
ASSUME MaxLeaves \in Nat \ {0}

\* uint256(): the null hash
Null == <<>>

Hash(a, b) == <<a, b>>

MinOf(a, b) == IF a < b THEN a ELSE b

-----------------------------------------------------------------------------
(* BuildMerkleTree.  One call per level of size nSize starting at j:       *)
(* appends the hash of each pair (the last node paired with itself when    *)
(* nSize is odd) and notes a mutation when the last pair are two distinct *)
(* positions holding the same hash.                                       *)

LevelNodes(tree, j, nSize) ==
    [k \in 1..((nSize + 1) \div 2) |->
        LET i == 2 * (k - 1)
            i2 == MinOf(i + 1, nSize - 1)
        IN Hash(tree[j + i + 1], tree[j + i2 + 1])]

\* Mutant of LevelMutated: only the leaf level is examined.
LevelMutatedLeavesOnly(tree, j, nSize) ==
    /\ j = 0
    /\ nSize % 2 = 0
    /\ tree[nSize - 1] = tree[nSize]

LevelMutated(tree, j, nSize) ==
    \E i \in {2 * k : k \in 0..((nSize - 1) \div 2)} :
        LET i2 == MinOf(i + 1, nSize - 1) IN
        /\ i2 = i + 1
        /\ i2 + 1 = nSize
        /\ tree[j + i + 1] = tree[j + i2 + 1]

\* Mutant of BuildLevels: the next level's size rounds down.
RECURSIVE BuildLevelsRoundDown(_, _, _, _)
BuildLevelsRoundDown(tree, j, nSize, mutated) ==
    IF nSize <= 1 THEN [tree |-> tree, mutated |-> mutated]
    ELSE BuildLevelsRoundDown(tree \o LevelNodes(tree, j, nSize), j + nSize,
                              nSize \div 2, mutated \/ LevelMutated(tree, j, nSize))

RECURSIVE BuildLevels(_, _, _, _)
BuildLevels(tree, j, nSize, mutated) ==
    IF nSize <= 1 THEN [tree |-> tree, mutated |-> mutated]
    ELSE BuildLevels(tree \o LevelNodes(tree, j, nSize), j + nSize,
                     (nSize + 1) \div 2, mutated \/ LevelMutated(tree, j, nSize))

\* ::BuildMerkleTree(fMutated, leaves, vMerkleTree): the root, the flag, the tree
BuildMerkleTree(leaves) ==
    LET r == BuildLevels(leaves, 0, Len(leaves), FALSE) IN
    [root |-> IF r.tree = <<>> THEN Null ELSE Last(r.tree),
     mutated |-> r.mutated,
     tree |-> r.tree]

\* cc/eval.cpp GetMerkleRoot
GetMerkleRoot(vLeaves) == BuildMerkleTree(vLeaves).root

\* ::GetMerkleBranch: the sibling of the path node at every level
RECURSIVE BranchLevels(_, _, _, _)
BranchLevels(nIndex, nSize, j, tree) ==
    IF nSize <= 1 THEN <<>>
    ELSE <<tree[j + MinOf(nIndex ^^ 1, nSize - 1) + 1]>>
         \o BranchLevels(shiftR(nIndex, 1), (nSize + 1) \div 2, j + nSize, tree)

GetMerkleBranch(nIndex, nLeaves, vMerkleTree) == BranchLevels(nIndex, nLeaves, 0, vMerkleTree)

\* CBlock::CheckMerkleBranch: climb from hash, the low bit of nIndex saying
\* on which side the branch node sits
\* Mutant of Climb: the sides of the hash are swapped.
RECURSIVE ClimbSwapped(_, _, _)
ClimbSwapped(hash, branch, nIndex) ==
    IF branch = <<>> THEN hash
    ELSE ClimbSwapped(IF nIndex & 1 = 1 THEN Hash(hash, Head(branch)) ELSE Hash(Head(branch), hash),
                      Tail(branch), shiftR(nIndex, 1))

RECURSIVE Climb(_, _, _)
Climb(hash, branch, nIndex) ==
    IF branch = <<>> THEN hash
    ELSE Climb(IF nIndex & 1 = 1 THEN Hash(Head(branch), hash) ELSE Hash(hash, Head(branch)),
               Tail(branch), shiftR(nIndex, 1))

CheckMerkleBranch(hash, vMerkleBranch, nIndex) ==
    IF nIndex = -1 THEN Null ELSE Climb(hash, vMerkleBranch, nIndex)

\* cc/eval.cpp SafeCheckMerkleBranch: as above, but a branch node equal to
\* the running hash on the left makes the proof non canonical (null)
\* Mutant of SafeClimb: the non-canonical test is missing.
RECURSIVE SafeClimbUnguarded(_, _, _)
SafeClimbUnguarded(hash, branch, nIndex) ==
    IF branch = <<>> THEN hash
    ELSE SafeClimbUnguarded(IF nIndex & 1 = 1 THEN Hash(Head(branch), hash) ELSE Hash(hash, Head(branch)),
                            Tail(branch), shiftR(nIndex, 1))

\* Mutant of SafeClimb: the test fires on either side.
RECURSIVE SafeClimbBothSides(_, _, _)
SafeClimbBothSides(hash, branch, nIndex) ==
    IF branch = <<>> THEN hash
    ELSE IF Head(branch) = hash THEN Null
    ELSE SafeClimbBothSides(IF nIndex & 1 = 1 THEN Hash(Head(branch), hash) ELSE Hash(hash, Head(branch)),
                            Tail(branch), shiftR(nIndex, 1))

RECURSIVE SafeClimb(_, _, _)
SafeClimb(hash, branch, nIndex) ==
    IF branch = <<>> THEN hash
    ELSE IF nIndex & 1 = 1 /\ Head(branch) = hash THEN Null
    ELSE SafeClimb(IF nIndex & 1 = 1 THEN Hash(Head(branch), hash) ELSE Hash(hash, Head(branch)),
                   Tail(branch), shiftR(nIndex, 1))

SafeCheckMerkleBranch(hash, vMerkleBranch, nIndex) ==
    IF nIndex = -1 THEN Null ELSE SafeClimb(hash, vMerkleBranch, nIndex)

=============================================================================
