------------------------------- MODULE MCEval -------------------------------
(***************************************************************************)
(* Checks of the algorithms of cc/eval.cpp and the block's merkle tree    *)
(* over every input within the bounds.  Each input is an initial state    *)
(* and no step changes it, so an invariant is checked once per input.     *)
(*                                                                         *)
(* Merkle: ListInputs enumerates every leaf list over Values of length    *)
(* 1..MaxLeaves (duplicates included: they are what the mutation check is *)
(* for).  ClaimInputs takes the leaves <<1>>..<<n>>, distinct as the      *)
(* txids of a block are, with a claimed leaf and position for a proof.    *)
(*                                                                         *)
(* Notary inputs: NotaryInputList enumerates every notarisation input     *)
(* list of up to MaxInputs inputs, each funding tx with one output, with  *)
(* every answer CheckNotaryInputs can give for it.  The code's count of   *)
(* 11 is scaled to MinNotaryInputs: the count is compared once and never  *)
(* read again, so only its boundary matters.                              *)
(*                                                                         *)
(* The variables of the other algorithm keep a fixed input meanwhile.     *)
(***************************************************************************)
EXTENDS Merkle, NotaryInputs, FiniteSets

CONSTANTS K1, K2, K3, MaxInputs, PrevoutIndexes

VARIABLES leaves, pos, claim, vin, result

vars == <<leaves, pos, claim, vin, result>>

\* two distinct txids
MCValues == {<<1>>, <<2>>}

Lists == UNION {[1..n -> Values] : n \in 1..MaxLeaves}

\* number of levels above the leaves: the length of every branch
RECURSIVE Depth(_)
Depth(n) == IF n <= 1 THEN 0 ELSE 1 + Depth((n + 1) \div 2)

\* every leaf list, with no claim
ListInputs == leaves \in Lists /\ pos = 0 /\ claim = Null

\* distinct leaves with a claimed leaf and position
ClaimInputs ==
    \E n \in 1..MaxLeaves :
        /\ leaves = [i \in 1..n |-> <<i>>]
        /\ pos \in 0..(2^Depth(n) - 1)
        /\ claim \in {<<i>> : i \in 1..n}

MCKeys == {K1, K2, K3}
MCNotaries == <<K1, K2, K3>>

Inputs == [found : BOOLEAN, voutSize : {1}, vout : [1..1 -> Scripts], n : PrevoutIndexes]

\* every notarisation input list, with the answers the check can give
NotaryInputList ==
    /\ vin \in UNION {[1..k -> Inputs] : k \in 0..MaxInputs}
    /\ result \in CheckNotaryInputs(vin)

MerkleChecks == (ListInputs \/ ClaimInputs) /\ vin = <<>> /\ result = FALSE

NotaryChecks == NotaryInputList /\ leaves = <<<<1>>>> /\ pos = 0 /\ claim = Null

Spec == (MerkleChecks \/ NotaryChecks) /\ [][UNCHANGED vars]_vars

-----------------------------------------------------------------------------
(* Reference: the root by the textbook recursion on a list, the last       *)
(* element repeated when the list is odd.                                  *)
RECURSIVE RefRoot(_)
RefRoot(l) ==
    IF Len(l) = 0 THEN Null
    ELSE IF Len(l) = 1 THEN l[1]
    ELSE LET p == IF Len(l) % 2 = 1 THEN Append(l, l[Len(l)]) ELSE l
         IN RefRoot([k \in 1..(Len(p) \div 2) |-> Hash(p[2 * k - 1], p[2 * k])])

\* every list's tree, computed once
Trees == [l \in Lists |-> BuildMerkleTree(l)]

Built == BuildMerkleTree(leaves)

\* Reference: enough inputs, each a found, in-range, pay-to-pubkey output,
\* and the inputs matched one to one with notary slots of their keys.
RefAccept(v) ==
    /\ Len(v) >= MinNotaryInputs
    /\ \A i \in DOMAIN v : v[i].found /\ v[i].n < v[i].voutSize
    /\ \E f \in [DOMAIN v -> DOMAIN Notaries] :
          /\ IsInjective(f)
          /\ \A i \in DOMAIN v : Notaries[f[i]] = v[i].vout[v[i].n + 1]

-----------------------------------------------------------------------------

(* GetMerkleRoot / BuildMerkleTree computes the root of the reference     *)
(* recursion, whatever the number of leaves and however the level sizes   *)
(* round: the flat-array walk with j and nSize is the same tree.          *)
RootIsReference == GetMerkleRoot(leaves) = RefRoot(leaves)

(* Every branch GetMerkleBranch cuts from the tree leads CheckMerkleBranch *)
(* from its leaf back to the root, including the positions whose sibling *)
(* is the duplicated last node of a level.                                *)
BranchProvesRoot ==
    \A i \in 0..(Len(leaves) - 1) :
        CheckMerkleBranch(leaves[i + 1], GetMerkleBranch(i, Len(leaves), Built.tree), i)
            = Built.root

(* CVE-2012-2459: two different transaction lists with the same merkle    *)
(* root always have the mutation flag set on one of them, so a block      *)
(* whose list was tampered with is rejected as mutated, never as invalid. *)
MutationDetected ==
    \A l \in Lists :
        (l # leaves /\ Trees[l].root = Built.root) => (Trees[l].mutated \/ Built.mutated)

(* SafeCheckMerkleBranch accepts every genuine branch of a block whose    *)
(* txids are distinct: its non-canonical test never fires on a real proof. *)
SafeCheckCanonical ==
    IsInjective(leaves) =>
        \A i \in 0..(Len(leaves) - 1) :
            SafeCheckMerkleBranch(leaves[i + 1], GetMerkleBranch(i, Len(leaves), Built.tree), i)
                = Built.root

(* A proof SafeCheckMerkleBranch accepts binds its leaf to the position   *)
(* it claims: no branch built from the tree's own nodes proves a leaf at  *)
(* a position past the last leaf (where the duplicated node would sit) or *)
(* at another leaf's position.                                            *)
SafePositionBinding ==
    LET nodes == Range(Built.tree) IN
    \A b \in [1..Depth(Len(leaves)) -> nodes] :
        SafeCheckMerkleBranch(claim, b, pos) = Built.root
            => pos < Len(leaves) /\ leaves[pos + 1] = claim


(* CheckNotaryInputs accepts exactly the notarisations whose inputs are   *)
(* spent from distinct notaries: the first-unseen-slot greedy match and   *)
(* the early returns agree with a one-to-one matching of inputs to        *)
(* notary slots.                                                          *)
AcceptsExactlyDistinctNotaries == result = RefAccept(vin)

(* The guard before vout[n] is read keeps the read inside the funding     *)
(* tx: an accepted notarisation only spends outputs that exist.           *)
AcceptedInputsInBounds ==
    result => \A i \in DOMAIN vin : vin[i].n < vin[i].voutSize

=============================================================================
