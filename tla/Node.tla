-------------------------------- MODULE Node --------------------------------
(***************************************************************************)
(* The mempool inside a node: the active chain, the callers that add to    *)
(* the pool (AcceptToMemoryPool from a peer, the sendrawtransaction RPC),  *)
(* the tip changes that evict from it (ConnectTip, DisconnectTip), the     *)
(* prioritisation RPCs and the wallet-notify thread.  cs_main serialises   *)
(* the tip changes and acceptance; each is one step that calls the pool    *)
(* operations in the order main.cpp calls them.  main.cpp is not among the *)
(* sources, so acceptance and the tip changes follow spec.md sections 4.2, *)
(* 4.3 and 6.                                                               *)
(***************************************************************************)
EXTENDS Mempool

CONSTANTS
    MaxHeight,          \* bound on the chain's length
    MaxBlockTxs,        \* bound on the transactions of one block
    MaxAdds,            \* bound on nRecentlyAddedSequence (additions made)
    BranchAt,           \* BranchAt[h]: consensus branch id of a block at height h
    OVERWINTER_HEIGHT,  \* activation height of Overwinter
    ClientHashes,       \* hashes clients pass to prioritisetransaction
    UseAfterFreeOutcomes, \* TRUE: let the stale read in remove() miss (see EraseTx)
    TX_EXPIRING_SOON_THRESHOLD

VARIABLE chain          \* the active chain after genesis: a sequence of blocks,
                        \* each the sequence vtx of its transactions

vars == <<poolVars, notifyVars, chain>>

-----------------------------------------------------------------------------
(* The chain's coins view (pcoinsTip).                                    *)

BlockTxs(b) == {b[i] : i \in DOMAIN b}
ConfirmedIn(c) == UNION {BlockTxs(c[k]) : k \in DOMAIN c}
UtxoOf(c) ==
    UNION {Outputs(h) : h \in ChainOnlyTx \cup ConfirmedIn(c)}
      \ UNION {Prevouts(t) : t \in ConfirmedIn(c)}
\* the height of the block that created a transaction's coins
CoinHeightOf(c) ==
    [h \in ChainOnlyTx \cup ConfirmedIn(c) |->
        IF h \in ChainOnlyTx THEN 0 ELSE CHOOSE k \in DOMAIN c : h \in BlockTxs(c[k])]
ChainNullifiersOf(c) ==
    [ty \in ShieldedType |-> UNION {Nullifiers[t][ty] : t \in ConfirmedIn(c)}]

\* the roots GetSproutAnchorAt / GetSaplingAnchorAt know: every tree the
\* chain has had, the empty one included
KnownAnchorsOf(c) == [ty \in ShieldedType |-> {TreeOf(SubSeq(c, 1, k), ty) : k \in 0..Len(c)}]
AnchorsKnown(t, c) ==
    \A ty \in ShieldedType : Anchors[t][ty] \subseteq KnownAnchorsOf(c)[ty]

Height == Len(chain)
Utxo == UtxoOf(chain)

-----------------------------------------------------------------------------
(* AcceptToMemoryPool (main.cpp; spec 4.2 and 6): the checks a transaction *)
(* passes before addUnchecked, made against the pool and the chain with    *)
(* tip height `tip`.  Inputs are looked up through CCoinsViewMemPool.      *)

AcceptGuard(m, t, c) ==
    LET tip == Len(c)
        utxo == UtxoOf(c)
    IN
    /\ t \notin DOMAIN m.mapTx
    /\ m.nRecentlyAddedSequence < MaxAdds
    /\ ~AccessCoins(utxo, t)
    /\ CheckFinalTx(t, tip + 1)
    /\ ~IsExpiredTx(t, tip + 1)
    \* conflicts with in-memory transactions
    /\ ~IsCoinImport[t] => \A op \in Prevouts(t) : op \notin DOMAIN m.mapNextTx
    /\ \A ty \in ShieldedType : \A nf \in Nullifiers[t][ty] :
          ~ViewMemPoolGetNullifier(m, ChainNullifiersOf(c), nf, ty)
    \* every shielded spend proves against a root the chain has had
    /\ AnchorsKnown(t, c)
    \* HaveInputs through the mempool-backed view, and coinbase maturity
    /\ ~IsCoinImport[t] =>
          \A op \in Prevouts(t) : op \in ViewMemPoolCoins(m, utxo, op[1])
    /\ \A op \in Prevouts(t) :
          op[1] \in CoinbaseTx => tip + 1 - CoinHeightOf(c)[op[1]] >= COINBASE_MATURITY

\* the entry AcceptToMemoryPool builds: validated branch, spends-coinbase flag
NewEntry(t, c) ==
    [branchId |-> BranchAt[Len(c) + 1],
     spendsCoinbase |-> \E op \in Prevouts(t) : op[1] \in CoinbaseTx]

\* addUnchecked, then the explorer indexes when enabled (spec 4.2)
AcceptToMemoryPool(m, t, c) ==
    LET m1 == addUnchecked(m, t, NewEntry(t, c))
        m2 == IF fAddressIndex THEN addAddressIndex(m1, t) ELSE m1
    IN IF fSpentIndex THEN addSpentIndex(m2, t) ELSE m2

\* hashes whose prioritisation a removal may fail to clear (see EraseTx)
Prioritised == DOMAIN mapDeltas \cup mapReserveTransactions
\* the outcomes of that read the model explores: all of them, or only the
\* one where the freed entry still holds the hash
Garbages == IF UseAfterFreeOutcomes THEN SUBSET Prioritised ELSE {{}}

-----------------------------------------------------------------------------
(* Adding.                                                                 *)

\* a transaction relayed by a peer
AcceptFromPeer(t) ==
    /\ AcceptGuard(Pool, t, chain)
    /\ SetPool(AcceptToMemoryPool(Pool, t, chain))
    /\ UNCHANGED <<notifyVars, chain>>

(* sendrawtransaction (rpc/rawtransaction.cpp): reject a tx expiring soon *)
(* once Overwinter is active; submit it unless the pool or the chain has  *)
(* it (the chain has it when some output of it is unspent).  A rejection  *)
(* or an already-known tx changes nothing.                                *)
SendRawTransaction(t) ==
    LET nextBlockHeight == Height + 1 IN
    /\ ~(/\ ExpiryHeight[t] > 0
         /\ nextBlockHeight >= OVERWINTER_HEIGHT
         /\ nextBlockHeight + TX_EXPIRING_SOON_THRESHOLD > ExpiryHeight[t])
    /\ t \notin DOMAIN mapTx
    /\ ~AccessCoins(Utxo, t)
    /\ AcceptGuard(Pool, t, chain)
    /\ SetPool(AcceptToMemoryPool(Pool, t, chain))
    /\ UNCHANGED <<notifyVars, chain>>

-----------------------------------------------------------------------------
(* Tip changes.                                                            *)

\* ContextualCheckBlock/ConnectBlock (outside the pool): each tx final, not
\* expired, its inputs unspent coins of the chain or of earlier txs of the
\* block, its nullifiers unrevealed, its coinbase inputs mature.
RECURSIVE BlockTxsValid(_, _, _, _, _)
BlockTxsValid(vtx, utxo, nfs, coinHeight, h) ==
    IF vtx = <<>> THEN TRUE
    ELSE LET t == Head(vtx) IN
       /\ ~IsCoinImport[t]
       /\ Prevouts(t) \subseteq utxo
       /\ \A ty \in ShieldedType : Nullifiers[t][ty] \cap nfs[ty] = {}
       /\ CheckFinalTx(t, h)
       /\ ~IsExpiredTx(t, h)
       /\ \A op \in Prevouts(t) :
             op[1] \in CoinbaseTx => h - coinHeight[op[1]] >= COINBASE_MATURITY
       /\ BlockTxsValid(Tail(vtx), UpdateCoins(t, utxo),
                        [ty \in ShieldedType |-> nfs[ty] \cup Nullifiers[t][ty]],
                        coinHeight, h)

BlockValid(vtx) ==
    /\ vtx # <<>>
    /\ BlockTxs(vtx) \cap ConfirmedIn(chain) = {}
    /\ \A t \in BlockTxs(vtx) : AnchorsKnown(t, chain)
    /\ BlockTxsValid(vtx, Utxo, ChainNullifiersOf(chain), CoinHeightOf(chain), Height + 1)

(* ConnectTip (main.cpp, spec 4.3 and 6): the block's txs leave the pool  *)
(* with removeForBlock, then expired txs with removeExpired at the new    *)
(* height, then txs validated for another branch than the next block's.   *)
ConnectTip(vtx) ==
    LET h == Height + 1 IN
    /\ Height < MaxHeight
    /\ BlockValid(vtx)
    /\ \E garbage \in Garbages :
          SetPool(removeWithoutBranchId(
                    removeExpired(removeForBlock(Pool, vtx, garbage), h, garbage),
                    BranchAt[h + 1], garbage))
    /\ chain' = Append(chain, vtx)
    /\ UNCHANGED notifyVars

\* DisconnectTip resurrects each tx of the block, in block order: it is
\* either accepted again or removed with remove(tx, removed, true).
RECURSIVE Resurrect(_, _, _, _, _)
Resurrect(m, vtx, accepted, c, garbage) ==
    IF vtx = <<>> THEN m
    ELSE LET t == Head(vtx)
             m2 == IF Head(accepted) /\ AcceptGuard(m, t, c)
                   THEN AcceptToMemoryPool(m, t, c)
                   ELSE remove(m, t, TRUE, garbage)
         IN Resurrect(m2, Tail(vtx), Tail(accepted), c, garbage)

(* DisconnectTip and the reorg handling after it (spec 4.3 and 6): the    *)
(* block's txs are resurrected, AcceptToMemoryPool succeeding or failing  *)
(* for reasons outside the model; each tree whose root the disconnect     *)
(* changed has its old root invalidated with removeWithAnchor, Sprout      *)
(* first; then removeForReorg at the new mempool height and                *)
(* removeWithoutBranchId for the next block's branch.                      *)
RECURSIVE InvalidateRoots(_, _, _, _)
InvalidateRoots(m, c, types, garbage) ==
    IF types = <<>> THEN m
    ELSE LET ty == Head(types)
             m2 == IF TreeOf(chain, ty) # TreeOf(c, ty)
                   THEN removeWithAnchor(m, TreeOf(chain, ty), ty, garbage) ELSE m
         IN InvalidateRoots(m2, c, Tail(types), garbage)

DisconnectTip ==
    LET c == Front(chain)
        blk == Last(chain)
        tip == Len(c)
    IN
    /\ Height > 0
    /\ \E accepted \in [DOMAIN blk -> BOOLEAN] :
       \E garbage \in Garbages :
          SetPool(removeWithoutBranchId(
                    removeForReorg(
                      InvalidateRoots(Resurrect(Pool, blk, accepted, c, garbage),
                                      c, ShieldedTypes, garbage),
                      UtxoOf(c), CoinHeightOf(c), tip + 1, garbage),
                    BranchAt[tip + 1], garbage))
    /\ chain' = c
    /\ UNCHANGED notifyVars

-----------------------------------------------------------------------------
(* Prioritisation RPCs and the wallet-notify thread.                       *)

PrioritiseTx(hash) ==
    /\ \E d \in FeeDeltas : PrioritiseTransaction(hash, d)
    /\ UNCHANGED chain

PrioritiseReserveTx(hash) ==
    /\ PrioritiseReserveTransaction(hash)
    /\ UNCHANGED chain

KnownReserveTx(hash) ==
    /\ IsKnownReserveTransaction(hash)
    /\ UNCHANGED chain

Notify ==
    /\ NotifyTake \/ NotifySync \/ NotifyEnd
    /\ UNCHANGED chain

-----------------------------------------------------------------------------

NodeInit ==
    /\ Init
    /\ chain = <<>>

Next ==
    \/ \E t \in Tx : AcceptFromPeer(t)
    \/ \E t \in Tx : SendRawTransaction(t)
    \/ \E vtx \in BoundedSeq(Tx, MaxBlockTxs) : ConnectTip(vtx)
    \/ DisconnectTip
    \/ \E t \in ClientHashes : PrioritiseTx(t)
    \/ \E t \in ReserveTx : PrioritiseReserveTx(t)
    \/ \E t \in ReserveTx : KnownReserveTx(t)
    \/ Notify

Spec == NodeInit /\ [][Next]_vars

(* CTxMemPool::clear, a public method main.cpp may call at any time under *)
(* cs (main.cpp is not among the sources; spec.md does not restrict it).  *)
ClearPool ==
    /\ SetPool(clear(Pool))
    /\ UNCHANGED <<notifyVars, chain>>

(* The wallet-notify thread calls NotifyRecentlyAdded in an endless loop  *)
(* (ThreadNotifyRecentlyAdded, init.cpp), so its steps are weakly fair;   *)
(* nothing is assumed of peers, RPC clients or miners.                    *)
NotifySpec == Spec /\ WF_vars(Notify)

SpecWithClear == NodeInit /\ [][Next \/ ClearPool]_vars

-----------------------------------------------------------------------------
(* Invariants and properties.                                              *)

(* The state TLC tells apart in the pool runs.  nTransactionsUpdated only *)
(* counts changes, and the notify thread's copies (notifySeq, notifyTxs,  *)
(* walletSynced) are written, never read, by every other action: states   *)
(* that differ only in them have the same futures for these properties.   *)
StateView == <<mapTx, mapNextTx, mapNullifiers, mapRecentlyAddedTx, nRecentlyAddedSequence,
               nNotifiedSequence, totalTxSize, cachedInnerUsage, mapDeltas,
               mapReserveTransactions, notifyPc, chain,
               mapAddress, mapAddressInserted, mapSpent, mapSpentInserted>>

TypeOK ==
    /\ DOMAIN mapTx \subseteq Tx
    /\ \A t \in DOMAIN mapTx :
          mapTx[t] \in [branchId : Range(BranchAt), spendsCoinbase : BOOLEAN]
    /\ DOMAIN mapNextTx \subseteq Outpoint
    /\ \A op \in DOMAIN mapNextTx : mapNextTx[op] \in Tx \X Nat
    /\ DOMAIN mapNullifiers = ShieldedType
    /\ \A ty \in ShieldedType : Range(mapNullifiers[ty]) \subseteq Tx
    /\ mapRecentlyAddedTx \subseteq Tx
    /\ nRecentlyAddedSequence \in 0..MaxAdds
    /\ nNotifiedSequence \in 0..MaxAdds
    /\ nTransactionsUpdated \in Nat
    /\ totalTxSize \in Nat /\ cachedInnerUsage \in Nat
    /\ DOMAIN mapDeltas \subseteq Tx
    /\ Range(mapDeltas) \subseteq -MaxDelta..MaxDelta
    /\ mapReserveTransactions \subseteq ReserveTx
    /\ notifyPc \in {"idle", "sync", "end"}
    /\ notifyTxs \subseteq Tx /\ walletSynced \subseteq Tx
    /\ chain \in Seq(Seq(Tx)) /\ Len(chain) <= MaxHeight
    /\ mapAddress \subseteq Range(OutAddress) \X Tx \X Nat \X {0, 1}
    /\ DOMAIN mapAddressInserted \subseteq Tx
    /\ DOMAIN mapSpent \subseteq Outpoint /\ Range(mapSpent) \subseteq Tx \X Nat
    /\ DOMAIN mapSpentInserted \subseteq Tx

(* The pool passes its own audit: CTxMemPool::check against the chain's   *)
(* coins never fails an assertion.  Every pooled input is an unspent coin *)
(* or an output of another pooled tx, the pool replays onto the coins in   *)
(* dependency order with coinbases mature, mapNextTx and both nullifier   *)
(* maps agree exactly with mapTx, and the size counters are the sums.     *)
CheckPasses ==
    check(Pool, Utxo, CoinHeightOf(chain), ChainNullifiersOf(chain),
          KnownAnchorsOf(chain), Height + 1)

(* No two pooled transactions spend the same outpoint or reveal the same  *)
(* nullifier (spec section 8).  Acceptance only consults the indexes, so  *)
(* this holds only while every removal keeps them in step with mapTx.     *)
NoDoubleSpend ==
    \A t1, t2 \in DOMAIN mapTx : t1 # t2 =>
        /\ (IsCoinImport[t1] \/ IsCoinImport[t2] \/ Prevouts(t1) \cap Prevouts(t2) = {})
        /\ \A ty \in ShieldedType : Nullifiers[t1][ty] \cap Nullifiers[t2][ty] = {}

(* After every tip change every pooled tx is final at the next height,   *)
(* not expired at the tip (IsExpiredTx is strict, so a tx expiring at the *)
(* tip stays), validated for the next block's branch and not confirmed.   *)
(* Its shielded spends prove against roots the chain has.  This is the   *)
(* joint duty of removeForBlock, removeExpired, removeForReorg,           *)
(* removeWithAnchor and removeWithoutBranchId.                            *)
PoolValidAtTip ==
    \A t \in DOMAIN mapTx :
        /\ CheckFinalTx(t, Height + 1)
        /\ ~IsExpiredTx(t, Height)
        /\ mapTx[t].branchId = BranchAt[Height + 1]
        /\ t \notin ConfirmedIn(chain)
        /\ AnchorsKnown(t, chain)

(* Every index that holds a pointer to a pooled CTransaction (mapNextTx,  *)
(* the nullifier maps, mapRecentlyAddedTx) points at a tx still in mapTx; *)
(* NotifyRecentlyAdded dereferences the recently-added pointers.          *)
NoDanglingTxPointers ==
    /\ \A op \in DOMAIN mapNextTx : mapNextTx[op][1] \in DOMAIN mapTx
    /\ \A ty \in ShieldedType : Range(mapNullifiers[ty]) \subseteq DOMAIN mapTx
    /\ mapRecentlyAddedTx \subseteq DOMAIN mapTx

(* getaddressmempool and getspentinfo answer from the pool's explorer     *)
(* indexes, which addAddressIndex/addSpentIndex fill after addUnchecked    *)
(* and remove() empties by the keys it noted.  Whatever sequence of        *)
(* acceptances, conflicts, expiries and reorgs ran, the address query for  *)
(* every address lists exactly the inputs and outputs of pooled txs that   *)
(* touch it, and the spent query for every outpoint names exactly the      *)
(* pooled tx spending it.                                                  *)
IndexesMatchPool ==
    /\ fAddressIndex =>
         \A a \in Range(OutAddress) \ {"unknown"} :
            {<<k[2], k[3], k[4]>> : k \in getAddressIndex(Pool, {a})} =
              UNION {{<<t, j - 1, 1>> : j \in {i \in DOMAIN Vin[t] : OutAddress[Vin[t][i]] = a}}
                     \cup {<<t, n, 0>> : n \in {i \in 0..(NOut[t] - 1) : OutAddress[<<t, i>>] = a}}
                     : t \in DOMAIN mapTx}
    /\ fSpentIndex =>
         \A op \in Outpoint :
            getSpentIndex(Pool, op) =
              {<<t, VinIndex(t, op)>> : t \in {u \in DOMAIN mapTx : op \in Prevouts(u)}}

(* The pool's auxiliary structures never outlive what they describe: every *)
(* pointer (mapNextTx, the nullifier maps, mapRecentlyAddedTx) and every   *)
(* explorer index entry refers to a transaction still in mapTx, after     *)
(* clear() as after any removal.                                          *)
NothingOutlivesPool == NoDanglingTxPointers /\ IndexesMatchPool

(* IsFullyNotified is what regtest callers poll before reading the wallet *)
(* (spec section 6): once it holds, every pooled tx has been handed to   *)
(* SyncWithWallets.  NotifyRecentlyAdded copies the sequence in the same *)
(* locked block as the list, so an addition racing the unlocked sync     *)
(* keeps the pool "not fully notified".                                   *)
FullyNotifiedMeansSynced ==
    IsFullyNotified => DOMAIN mapTx \subseteq walletSynced

(* Every addition is eventually notified: whatever sequence number the    *)
(* pool reaches, nNotifiedSequence later reaches it (regtest).            *)
AdditionsEventuallyNotified ==
    \A k \in 1..MaxAdds : (nRecentlyAddedSequence = k) ~> (nNotifiedSequence >= k)

(* The pool implements the abstract pool of AbstractPool: seen as the set *)
(* DOMAIN mapTx over the same chain, every acceptance adds one tx that     *)
(* keeps it consistent, and every ConnectTip or DisconnectTip, with all    *)
(* the removals it chains, leaves a consistent subset of the old pool and *)
(* the disconnected block; prioritisation and notification do not change *)
(* it at all.                                                              *)
AbsPool == INSTANCE AbstractPool WITH pool <- DOMAIN mapTx, chain <- chain

RefinesAbstractPool == AbsPool!Spec

(* remove() purges the Prioritisation Table entry of every hash it erases *)
(* from mapTx (spec 4.3).  In the code the call ClearPrioritisation(      *)
(* tx.GetHash()) reads tx through a reference into the mapTx node erased  *)
(* a few lines before, so whether the right entry is cleared is up to the *)
(* freed memory.  No step may erase a tx from mapTx and keep its delta.   *)
PrioritisationClearedOnRemoval ==
    [][\A t \in DOMAIN mapTx \ DOMAIN mapTx' : t \notin DOMAIN mapDeltas']_vars

=============================================================================
