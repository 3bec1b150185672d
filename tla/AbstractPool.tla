---------------------------- MODULE AbstractPool ----------------------------
(***************************************************************************)
(* What the memory pool promises its users (spec.md sections 3, 4.3 and   *)
(* 8), with no indexes and no eviction machinery: a set of transactions   *)
(* over the active chain.  The pool grows one transaction at a time, and  *)
(* only by a transaction that leaves it consistent.  It shrinks only when *)
(* the tip moves, to a consistent set drawn from what was pooled and, on  *)
(* a disconnect, from the block taken off the chain.  A pool is           *)
(* consistent over a chain when none of it is confirmed, every input is   *)
(* a chain coin (mature when it is a coinbase's) or an output of another  *)
(* pooled transaction, no two members spend one outpoint or reveal one     *)
(* nullifier, none reveals a nullifier of the chain, every shielded spend *)
(* proves against a root the chain has had, and every member is final    *)
(* for the next block and not expired at the tip.                         *)
(***************************************************************************)
EXTENDS Naturals, Sequences, SequencesExt

CONSTANTS
    Tx, ChainOnlyTx, CoinbaseTx, Vin, NOut, Nullifiers, IsCoinImport,
    LockHeight, ExpiryHeight, COINBASE_MATURITY, Commits, Anchors

VARIABLES
    pool,   \* the pooled transactions
    chain   \* the active chain after genesis, a sequence of blocks

absVars == <<pool, chain>>

NullifierTypes == {"sprout", "sapling"}

Spends(t) == {Vin[t][i] : i \in DOMAIN Vin[t]}
Creates(h) == {<<h, n>> : n \in 0..(NOut[h] - 1)}
InBlock(b) == {b[i] : i \in DOMAIN b}
Mined(c) == UNION {InBlock(c[k]) : k \in DOMAIN c}
Coins(c) == UNION {Creates(h) : h \in ChainOnlyTx \cup Mined(c)} \ UNION {Spends(t) : t \in Mined(c)}
MinedAt(c, h) == IF h \in ChainOnlyTx THEN 0 ELSE CHOOSE k \in DOMAIN c : h \in InBlock(c[k])
Tree(c, ty) == SelectSeq(FlattenSeq(c), LAMBDA t : ty \in Commits[t])
Roots(c, ty) == {Tree(SubSeq(c, 1, k), ty) : k \in 0..Len(c)}
Revealed(c, ty) == UNION {Nullifiers[t][ty] : t \in Mined(c)}

\* the conditions of the header comment, for pool P over chain c
Consistent(P, c) ==
    LET next == Len(c) + 1 IN
    /\ P \cap Mined(c) = {}
    /\ \A t \in P : ~IsCoinImport[t] =>
          \A op \in Spends(t) :
             \/ op[1] \in P /\ op[2] < NOut[op[1]]
             \/ /\ op \in Coins(c)
                /\ op[1] \in CoinbaseTx => next - MinedAt(c, op[1]) >= COINBASE_MATURITY
    /\ \A t, u \in P : t # u =>
          /\ (IsCoinImport[t] \/ IsCoinImport[u] \/ Spends(t) \cap Spends(u) = {})
          /\ \A ty \in NullifierTypes : Nullifiers[t][ty] \cap Nullifiers[u][ty] = {}
    /\ \A t \in P : \A ty \in NullifierTypes : Nullifiers[t][ty] \cap Revealed(c, ty) = {}
    /\ \A t \in P : \A ty \in NullifierTypes : Anchors[t][ty] \subseteq Roots(c, ty)
    /\ \A t \in P : LockHeight[t] = 0 \/ LockHeight[t] < next
    /\ \A t \in P : ExpiryHeight[t] = 0 \/ Len(c) <= ExpiryHeight[t]

Init == pool = {} /\ chain = <<>>

\* a transaction enters the pool, the chain unchanged
Add(t) ==
    /\ t \notin pool
    /\ Consistent(pool \cup {t}, chain)
    /\ pool' = pool \cup {t}
    /\ UNCHANGED chain

\* the chain gains or loses its last block; the pool keeps a consistent
\* part of what it had and of the block disconnected
MoveTip ==
    /\ \/ /\ Len(chain') = Len(chain) + 1
          /\ SubSeq(chain', 1, Len(chain)) = chain
       \/ /\ chain # <<>>
          /\ chain' = Front(chain)
    /\ pool' \subseteq pool \cup (IF Len(chain') < Len(chain) THEN InBlock(Last(chain)) ELSE {})
    /\ Consistent(pool', chain')

Next == (\E t \in Tx : Add(t)) \/ MoveTip

Spec == Init /\ [][Next]_absVars

=============================================================================
