------------------------------- MODULE MCNode -------------------------------
(***************************************************************************)
(* A small node for TLC.  Two genesis outputs: G0 is a coinbase, G1 is     *)
(* not.  A spends G1 and has two outputs; B spends A's first (a child);    *)
(* D spends G1 too (a double spend of A) and expires at height 2; S spends *)
(* the coinbase (mature from height 2) and reveals Sprout nullifier 2; Z   *)
(* reveals Sapling nullifier 1 and is locked until height 2; W reveals     *)
(* Sapling nullifier 1 and Sprout nullifier 2 (conflicting with Z and S).  *)
(* The branch id changes at height 3.                                      *)
(***************************************************************************)
EXTENDS Node, TLC

CONSTANTS A, B, D, S, Z, W, G0, G1, I

MCTx == {A, B, D, S, Z, W}
\* I is a coin import: its one input is the marker outpoint of a burn on
\* another chain, an index no output of this chain has (<<G1, 3>>)
MCAllTx == MCTx \cup {I}
MCChainOnlyTx == {G0, G1}
MCCoinbaseTx == {G0}

MCVin == (A :> <<<<G1, 0>>>>) @@ (B :> <<<<A, 0>>>>) @@ (D :> <<<<G1, 0>>>>)
      @@ (S :> <<<<G0, 0>>>>) @@ (Z :> <<>>) @@ (W :> <<>>) @@ (I :> <<<<G1, 3>>>>)

MCNOut == [h \in MCAllTx \cup MCChainOnlyTx |-> IF h = A THEN 2 ELSE 1]

NoNf == [ty \in ShieldedType |-> {}]
MCNullifiers ==
    [t \in MCAllTx |->
        CASE t = S -> [NoNf EXCEPT !["sprout"] = {2}]
          [] t = Z -> [NoNf EXCEPT !["sapling"] = {1}]
          [] t = W -> [NoNf EXCEPT !["sapling"] = {1}, !["sprout"] = {2}]
          [] OTHER -> NoNf]

\* D is a t-to-z tx appending to the Sapling tree; W's Sapling spend proves
\* against the tree D makes; the other shielded spends use the empty trees
MCCommits == [t \in MCAllTx |-> IF t = D THEN {"sapling"} ELSE {}]
MCAnchors ==
    [t \in MCAllTx |->
        [ty \in ShieldedType |->
            IF MCNullifiers[t][ty] = {} THEN {}
            ELSE IF t = W /\ ty = "sapling" THEN {<<D>>} ELSE {<<>>}]]

MCIsCoinImport == [t \in MCAllTx |-> t = I]
MCTxSize == [t \in MCAllTx |-> IF t = A THEN 2 ELSE 1]
MCTxUsage == [t \in MCAllTx |-> IF t = W THEN 3 ELSE 1]
MCLockHeight == [t \in MCAllTx |-> IF t = Z THEN 1 ELSE 0]
MCExpiryHeight == [t \in MCAllTx |-> IF t = D THEN 2 ELSE 0]

\* the address each output pays: A's second output is a script of unknown type
MCOutAddress ==
    [op \in Outpoint |->
        CASE op = <<A, 1>> -> "unknown"
          [] op[1] \in {G0, B} -> "P2"
          [] OTHER -> "P1"]

\* the notifier run: a parent, its child and a shielded tx
MCNotifyTx == {A, B, Z}

\* the coin-import run: a plain tx and an import
MCImportTx == {A, I}

MCMaxHeight == 3
MCBranchAt == [h \in 0..(MCMaxHeight + 2) |-> IF h >= 3 THEN "b2" ELSE "b1"]

=============================================================================
