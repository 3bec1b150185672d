------------------------------ MODULE Mempool ------------------------------
(***************************************************************************)
(* CTxMemPool of src/src/txmempool.cpp: the primary index mapTx, the spend *)
(* index mapNextTx, the Sprout and Sapling nullifier indexes, the          *)
(* recently-added list and its sequence numbers, the aggregate counters,   *)
(* the prioritisation tables and the wallet notifier.                      *)
(*                                                                         *)
(* A transaction is a model value; its shape (inputs, number of outputs,   *)
(* nullifiers, size) is fixed by constants, as a CTransaction is immutable.*)
(* Every public operation runs under LOCK(cs), so each is one atomic step. *)
(* The operations are written as operators from a pool record to a pool    *)
(* record, so that a caller holding the lock (ConnectTip, DisconnectTip)   *)
(* can run several of them in one step, as the code does.                  *)
(***************************************************************************)
EXTENDS Naturals, Sequences, SequencesExt, FiniteSets

CONSTANTS
    Tx,                 \* ids of transactions that may enter the pool
    ChainOnlyTx,        \* ids of transactions only ever on chain (genesis)
    CoinbaseTx,         \* the coinbases among ChainOnlyTx
    Vin,                \* Vin[t][i] = tx.vin[i-1].prevout, a pair <<txid, n>>
    NOut,               \* NOut[t] = tx.vout.size()
    Nullifiers,         \* Nullifiers[t][type]: nullifiers t reveals
    IsCoinImport,       \* IsCoinImport[t] = tx.IsCoinImport()
    TxSize,             \* TxSize[t] = entry.GetTxSize()
    TxUsage,            \* TxUsage[t] = entry.DynamicMemoryUsage()
    LockHeight,         \* nLockTime, as a block height (0: none)
    ExpiryHeight,       \* nExpiryHeight (0: none)
    COINBASE_MATURITY,
    ReserveTx,          \* txs whose CReserveTransactionDescriptor IsValid()
    FeeDeltas,          \* fee deltas a client may pass to prioritisetransaction
    MaxDelta,           \* bound on |accumulated fee delta| of one hash
    IsRegtest,          \* Params().NetworkIDString() == "regtest"
    Commits,            \* Commits[t]: the types whose note commitment tree t appends to
    Anchors,            \* Anchors[t][type]: the roots t's shielded spends of that
                        \* type prove against (a tx may have several spends)
    fAddressIndex,      \* -addressindex: the pool keeps mapAddress
    fSpentIndex,        \* -spentindex: the pool keeps mapSpent
    OutAddress          \* OutAddress[op]: the address the script of output op
                        \* pays (type and AddressHash), or "unknown" (UNKNOWN)

\* enum ShieldedType {SPROUT, SAPLING}; a sequence, in the order the code
\* visits the two nullifier maps.
ShieldedTypes == <<"sprout", "sapling">>
ShieldedType == ToSet(ShieldedTypes)

AllTx == Tx \cup ChainOnlyTx
Outpoint == {<<h, n>> : h \in AllTx, n \in 0..3}

ASSUME /\ Tx \cap ChainOnlyTx = {}
       /\ CoinbaseTx \subseteq ChainOnlyTx
       /\ \A t \in Tx : Vin[t] \in Seq(Outpoint)
       /\ \A t \in Tx : Nullifiers[t] \in [ShieldedType -> SUBSET Nat]
       \* CheckTransaction rejects duplicate inputs (bad-txns-inputs-duplicate)
       /\ \A t \in Tx : \A i, j \in DOMAIN Vin[t] : Vin[t][i] = Vin[t][j] => i = j

VARIABLES
    mapTx,                  \* txid -> entry [branchId, spendsCoinbase]
    mapNextTx,              \* prevout -> CInPoint <<spending txid, input index>>
    mapNullifiers,          \* type -> (nullifier -> spending txid)
    mapRecentlyAddedTx,     \* txids added since the last notification
    nRecentlyAddedSequence,
    nNotifiedSequence,
    nTransactionsUpdated,
    totalTxSize,
    cachedInnerUsage,
    mapDeltas,              \* txid -> accumulated fee delta
    mapReserveTransactions, \* txids with a stored reserve descriptor
    notifyPc,               \* where NotifyRecentlyAdded is: "idle" or "sync"/"end"
    notifySeq,              \* its local recentlyAddedSequence
    notifyTxs,              \* its local copy txs
    walletSynced,           \* txs handed to SyncWithWallets (history)
    mapAddress,             \* set of CMempoolAddressDeltaKey <<address, txid, index, spending>>
    mapAddressInserted,     \* txid -> the keys addAddressIndex inserted for it
    mapSpent,               \* prevout -> CSpentIndexValue <<spending txid, input index>>
    mapSpentInserted        \* txid -> the prevouts addSpentIndex inserted for it

poolVars == <<mapTx, mapNextTx, mapNullifiers, mapRecentlyAddedTx,
              nRecentlyAddedSequence, nNotifiedSequence, nTransactionsUpdated,
              totalTxSize, cachedInnerUsage, mapDeltas, mapReserveTransactions,
              mapAddress, mapAddressInserted, mapSpent, mapSpentInserted>>
indexVars == <<mapAddress, mapAddressInserted, mapSpent, mapSpentInserted>>
notifyVars == <<notifyPc, notifySeq, notifyTxs, walletSynced>>

-----------------------------------------------------------------------------
(* Shape of a transaction.                                                 *)

Prevouts(t) == {Vin[t][i] : i \in DOMAIN Vin[t]}
Outputs(h) == {<<h, n>> : n \in 0..(NOut[h] - 1)}
\* the 0-based index of prevout op among tx.vin
VinIndex(t, op) == (CHOOSE i \in DOMAIN Vin[t] : Vin[t][i] = op) - 1

\* f with the keys in S erased (std::map::erase)
Erase(f, S) == [x \in DOMAIN f \ S |-> f[x]]

\* CheckFinalTx (main.cpp, a policy the pool is given): nLockTime, read as a
\* height, is final once it is below the height of the next block.
CheckFinalTx(t, nextHeight) == LockHeight[t] = 0 \/ LockHeight[t] < nextHeight

\* IsExpiredTx (main.cpp): nExpiryHeight != 0 && nBlockHeight > nExpiryHeight
IsExpiredTx(t, nBlockHeight) ==
    ExpiryHeight[t] # 0 /\ nBlockHeight > ExpiryHeight[t]

(* A note commitment tree, and so its root, is identified by the txs that  *)
(* appended to it, in chain order: the tree of type ty after blocks c.     *)
TreeOf(c, ty) == SelectSeq(FlattenSeq(c), LAMBDA t : ty \in Commits[t])

-----------------------------------------------------------------------------
(* The pool as a record, so operations compose within one locked step.    *)

Pool == [mapTx |-> mapTx, mapNextTx |-> mapNextTx,
         mapNullifiers |-> mapNullifiers,
         mapRecentlyAddedTx |-> mapRecentlyAddedTx,
         nRecentlyAddedSequence |-> nRecentlyAddedSequence,
         nTransactionsUpdated |-> nTransactionsUpdated,
         totalTxSize |-> totalTxSize, cachedInnerUsage |-> cachedInnerUsage,
         mapDeltas |-> mapDeltas, mapReserveTransactions |-> mapReserveTransactions,
         mapAddress |-> mapAddress, mapAddressInserted |-> mapAddressInserted,
         mapSpent |-> mapSpent, mapSpentInserted |-> mapSpentInserted]

SetPool(m) ==
    /\ mapTx' = m.mapTx
    /\ mapNextTx' = m.mapNextTx
    /\ mapNullifiers' = m.mapNullifiers
    /\ mapRecentlyAddedTx' = m.mapRecentlyAddedTx
    /\ nRecentlyAddedSequence' = m.nRecentlyAddedSequence
    /\ nTransactionsUpdated' = m.nTransactionsUpdated
    /\ totalTxSize' = m.totalTxSize
    /\ cachedInnerUsage' = m.cachedInnerUsage
    /\ mapDeltas' = m.mapDeltas
    /\ mapReserveTransactions' = m.mapReserveTransactions
    /\ mapAddress' = m.mapAddress
    /\ mapAddressInserted' = m.mapAddressInserted
    /\ mapSpent' = m.mapSpent
    /\ mapSpentInserted' = m.mapSpentInserted
    /\ UNCHANGED nNotifiedSequence

-----------------------------------------------------------------------------
\* Mutant of addUnchecked: the nullifier indexes are not written.
addUncheckedNoNullifiers(m, t, entry) ==
    [m EXCEPT
        !.mapTx = @ @@ (t :> entry),
        !.mapRecentlyAddedTx = @ \cup {t},
        !.nRecentlyAddedSequence = @ + 1,
        !.mapNextTx = IF IsCoinImport[t] THEN @
                      ELSE [op \in Prevouts(t) |-> <<t, VinIndex(t, op)>>] @@ @,
        !.nTransactionsUpdated = @ + 1,
        !.totalTxSize = @ + TxSize[t],
        !.cachedInnerUsage = @ + TxUsage[t]]

(* CTxMemPool::addUnchecked: no validation, only bookkeeping.  mapTx.insert *)
(* keeps an existing entry; the index writes overwrite.                    *)
addUnchecked(m, t, entry) ==
    [m EXCEPT
        !.mapTx = @ @@ (t :> entry),
        !.mapRecentlyAddedTx = @ \cup {t},
        !.nRecentlyAddedSequence = @ + 1,
        !.mapNextTx = IF IsCoinImport[t] THEN @
                      ELSE [op \in Prevouts(t) |-> <<t, VinIndex(t, op)>>] @@ @,
        !.mapNullifiers = [ty \in ShieldedType |->
                              [nf \in Nullifiers[t][ty] |-> t] @@ m.mapNullifiers[ty]],
        !.nTransactionsUpdated = @ + 1,
        !.totalTxSize = @ + TxSize[t],
        !.cachedInnerUsage = @ + TxUsage[t]]

\* CTxMemPool::ClearPrioritisation
ClearPrioritisation(m, hash) ==
    [m EXCEPT !.mapDeltas = Erase(@, {hash}),
              !.mapReserveTransactions = @ \ {hash}]

-----------------------------------------------------------------------------
(* The address and spent indexes (insight explorer).  std::map::insert     *)
(* keeps an existing entry, so a new key only lands where none is: g @@ f  *)
(* with the old map g first.  Amounts and times are left out.              *)

\* CTxMemPool::addAddressIndex: a key per input (spending, from the address
\* of the coin it spends, found through the view) and per output, skipping
\* scripts of unknown type; a coinbase's inputs are skipped.
addAddressIndex(m, t) ==
    LET ins == IF t \in CoinbaseTx THEN {}
               ELSE {<<OutAddress[Vin[t][j]], t, j - 1, 1>> :
                        j \in {i \in DOMAIN Vin[t] : OutAddress[Vin[t][i]] # "unknown"}}
        outs == {<<OutAddress[<<t, j>>], t, j, 0>> :
                    j \in {i \in 0..(NOut[t] - 1) : OutAddress[<<t, i>>] # "unknown"}}
    IN [m EXCEPT !.mapAddress = @ \cup ins \cup outs,
                 !.mapAddressInserted = @ @@ (t :> (ins \cup outs))]

\* CTxMemPool::getAddressIndex: the keys of the given addresses
getAddressIndex(m, addresses) == {k \in m.mapAddress : k[1] \in addresses}

\* CTxMemPool::removeAddressIndex
removeAddressIndex(m, txhash) ==
    IF txhash \notin DOMAIN m.mapAddressInserted THEN m
    ELSE [m EXCEPT !.mapAddress = @ \ m.mapAddressInserted[txhash],
                   !.mapAddressInserted = Erase(@, {txhash})]

\* CTxMemPool::addSpentIndex: every input's prevout -> <<txid, input index>>
addSpentIndex(m, t) ==
    [m EXCEPT !.mapSpent = @ @@ [op \in Prevouts(t) |-> <<t, VinIndex(t, op)>>],
              !.mapSpentInserted = @ @@ (t :> Prevouts(t))]

\* CTxMemPool::getSpentIndex: the value found for key, if any
getSpentIndex(m, key) == IF key \in DOMAIN m.mapSpent THEN {m.mapSpent[key]} ELSE {}

\* Mutant of removeSpentIndex: the keys are forgotten, the entries kept.
removeSpentIndexKeepEntries(m, txhash) ==
    IF txhash \notin DOMAIN m.mapSpentInserted THEN m
    ELSE [m EXCEPT !.mapSpentInserted = Erase(@, {txhash})]

\* CTxMemPool::removeSpentIndex
removeSpentIndex(m, txhash) ==
    IF txhash \notin DOMAIN m.mapSpentInserted THEN m
    ELSE [m EXCEPT !.mapSpent = Erase(@, m.mapSpentInserted[txhash]),
                   !.mapSpentInserted = Erase(@, {txhash})]

\* the index removals at the end of remove()'s loop, each behind its flag
RemoveIndexes(m, hash) ==
    LET m1 == IF fAddressIndex THEN removeAddressIndex(m, hash) ELSE m
    IN IF fSpentIndex THEN removeSpentIndex(m1, hash) ELSE m1

\* The pooled children of h, found through mapNextTx for outputs
\* 0 .. vout.size()-1, in output order.
ChildrenOf(m, h) ==
    LET spent == SelectSeq([i \in 1..NOut[h] |-> <<h, i - 1>>],
                           LAMBDA op : op \in DOMAIN m.mapNextTx)
    IN [k \in 1..Len(spent) |-> m.mapNextTx[spent[k]][1]]

\* Mutant of EraseTx: the size is subtracted twice.
EraseTxDoubleSize(m, hash, garbage) ==
    ClearPrioritisation(RemoveIndexes([m EXCEPT
        !.mapRecentlyAddedTx = @ \ {hash},
        !.mapNextTx = Erase(@, Prevouts(hash)),
        !.mapNullifiers = [ty \in ShieldedType |->
                             Erase(m.mapNullifiers[ty], Nullifiers[hash][ty])],
        !.totalTxSize = @ - 2 * TxSize[hash],
        !.cachedInnerUsage = @ - TxUsage[hash],
        !.mapTx = Erase(@, {hash}),
        !.nTransactionsUpdated = @ + 1], hash), hash)

\* Mutant of EraseTx: mapRecentlyAddedTx.erase(hash) is missing.
EraseTxKeepRecent(m, hash, garbage) ==
    ClearPrioritisation(RemoveIndexes([m EXCEPT
        !.mapNextTx = Erase(@, Prevouts(hash)),
        !.mapNullifiers = [ty \in ShieldedType |->
                             Erase(m.mapNullifiers[ty], Nullifiers[hash][ty])],
        !.totalTxSize = @ - TxSize[hash],
        !.cachedInnerUsage = @ - TxUsage[hash],
        !.mapTx = Erase(@, {hash}),
        !.nTransactionsUpdated = @ + 1], hash), hash)

(* One iteration of the removal loop for a pooled hash.  The final        *)
(* ClearPrioritisation(tx.GetHash()) reads tx, a reference into the entry *)
(* mapTx.erase(hash) has just destroyed: the read is undefined and the    *)
(* build either still finds the hash there or reads freed memory, whose   *)
(* first bytes the allocator reuses.  `garbage` is the set of hashes for   *)
(* which the read yields a value that names no table entry.               *)
EraseTx(m, hash, garbage) ==
    LET m1 == [m EXCEPT
                 !.mapRecentlyAddedTx = @ \ {hash},
                 !.mapNextTx = Erase(@, Prevouts(hash)),
                 !.mapNullifiers = [ty \in ShieldedType |->
                                      Erase(m.mapNullifiers[ty], Nullifiers[hash][ty])],
                 !.totalTxSize = @ - TxSize[hash],
                 !.cachedInnerUsage = @ - TxUsage[hash],
                 !.mapTx = Erase(@, {hash}),
                 !.nTransactionsUpdated = @ + 1]
        m2 == RemoveIndexes(m1, hash)
    IN IF hash \in garbage THEN m2 ELSE ClearPrioritisation(m2, hash)

RECURSIVE RemoveWalk(_, _, _, _)
RemoveWalk(m, txToRemove, fRecursive, garbage) ==
    IF txToRemove = <<>> THEN m
    ELSE LET hash == Head(txToRemove)
             rest == Tail(txToRemove)
         IN IF hash \notin DOMAIN m.mapTx
            THEN RemoveWalk(m, rest, fRecursive, garbage)
            ELSE RemoveWalk(EraseTx(m, hash, garbage),
                            rest \o (IF fRecursive THEN ChildrenOf(m, hash) ELSE <<>>),
                            fRecursive, garbage)

\* Mutant of remove: the children of an unpooled origTx are not roots.
removeNoOrphanRoots(m, origTx, fRecursive, garbage) ==
    RemoveWalk(m, <<origTx>>, fRecursive, garbage)

(* CTxMemPool::remove: breadth-first walk from origTx; when recursing and *)
(* origTx is not pooled, its pooled children are roots too.               *)
remove(m, origTx, fRecursive, garbage) ==
    RemoveWalk(m, <<origTx>> \o (IF fRecursive /\ origTx \notin DOMAIN m.mapTx
                                 THEN ChildrenOf(m, origTx) ELSE <<>>),
               fRecursive, garbage)

\* remove(tx, removed, true) for each tx of a list collected beforehand
RECURSIVE RemoveEach(_, _, _)
RemoveEach(m, txs, garbage) ==
    IF txs = {} THEN m
    ELSE LET t == CHOOSE x \in txs : TRUE
         IN RemoveEach(remove(m, t, TRUE, garbage), txs \ {t}, garbage)

-----------------------------------------------------------------------------
(* Eviction triggers.                                                      *)

\* Mutant of removeWithAnchor: the case labels are swapped.
removeWithAnchorSwapped(m, invalidRoot, type, garbage) ==
    LET other == CHOOSE ty \in ShieldedType : ty # type IN
    RemoveEach(m, {t \in DOMAIN m.mapTx : invalidRoot \in Anchors[t][other]}, garbage)

(* CTxMemPool::removeWithAnchor: every pooled tx with a spend of `type`    *)
(* proving against invalidRoot is collected, then removed recursively.    *)
removeWithAnchor(m, invalidRoot, type, garbage) ==
    RemoveEach(m, {t \in DOMAIN m.mapTx : invalidRoot \in Anchors[t][type]}, garbage)

\* CCoinsViewCache::AccessCoins(hash) != NULL: some output of hash unspent
AccessCoins(utxo, h) == \E op \in utxo : op[1] = h

\* Mutant of ReorgEvicted: the finality re-check is missing.
ReorgEvictedNoFinality(m, utxo, coinHeight, nMemPoolHeight) ==
    {t \in DOMAIN m.mapTx :
        /\ m.mapTx[t].spendsCoinbase
        /\ \E i \in DOMAIN Vin[t] :
              LET h == Vin[t][i][1] IN
              /\ h \notin DOMAIN m.mapTx
              /\ \/ ~AccessCoins(utxo, h)
                 \/ /\ h \in CoinbaseTx
                    /\ nMemPoolHeight - coinHeight[h] < COINBASE_MATURITY}

(* CTxMemPool::removeForReorg.  Besides finality, inputs are re-examined  *)
(* only for entries that spend a coinbase.  The timelock disjunct is off  *)
(* on this chain (ASSETCHAINS_TIMELOCKGTE is the off value).              *)
ReorgEvicted(m, utxo, coinHeight, nMemPoolHeight) ==
    {t \in DOMAIN m.mapTx :
        \/ ~CheckFinalTx(t, nMemPoolHeight)
        \/ /\ m.mapTx[t].spendsCoinbase
           /\ \E i \in DOMAIN Vin[t] :
                 LET h == Vin[t][i][1] IN
                 /\ h \notin DOMAIN m.mapTx
                 /\ \/ ~AccessCoins(utxo, h)
                    \/ /\ h \in CoinbaseTx
                       /\ nMemPoolHeight - coinHeight[h] < COINBASE_MATURITY}

removeForReorg(m, utxo, coinHeight, nMemPoolHeight, garbage) ==
    RemoveEach(m, ReorgEvicted(m, utxo, coinHeight, nMemPoolHeight), garbage)

RECURSIVE PrevoutConflicts(_, _, _, _)
PrevoutConflicts(m, tx, ops, garbage) ==
    IF ops = <<>> THEN m
    ELSE LET op == Head(ops)
             m2 == IF op \in DOMAIN m.mapNextTx /\ m.mapNextTx[op][1] # tx
                   THEN remove(m, m.mapNextTx[op][1], TRUE, garbage) ELSE m
         IN PrevoutConflicts(m2, tx, Tail(ops), garbage)

RECURSIVE NullifierConflicts(_, _, _, _)
NullifierConflicts(m, tx, keys, garbage) ==
    IF keys = <<>> THEN m
    ELSE LET ty == Head(keys)[1]
             nf == Head(keys)[2]
             m2 == IF nf \in DOMAIN m.mapNullifiers[ty] /\ m.mapNullifiers[ty][nf] # tx
                   THEN remove(m, m.mapNullifiers[ty][nf], TRUE, garbage) ELSE m
         IN NullifierConflicts(m2, tx, Tail(keys), garbage)

\* CTxMemPool::removeConflicts: prevouts, then Sprout, then Sapling nullifiers
removeConflicts(m, tx, garbage) ==
    NullifierConflicts(
        PrevoutConflicts(m, tx, Vin[tx], garbage), tx,
        SetToSeq({<<"sprout", nf>> : nf \in Nullifiers[tx]["sprout"]})
          \o SetToSeq({<<"sapling", nf>> : nf \in Nullifiers[tx]["sapling"]}),
        garbage)

\* CTxMemPool::removeExpired (the komodo interest test applies only when
\* ASSETCHAINS_SYMBOL is empty, never on this chain)
removeExpired(m, nBlockHeight, garbage) ==
    RemoveEach(m, {t \in DOMAIN m.mapTx : IsExpiredTx(t, nBlockHeight)}, garbage)

RECURSIVE BlockWalk(_, _, _)
BlockWalk(m, vtx, garbage) ==
    IF vtx = <<>> THEN m
    ELSE LET tx == Head(vtx)
             m1 == removeConflicts(remove(m, tx, FALSE, garbage), tx, garbage)
         IN BlockWalk(ClearPrioritisation(m1, tx), Tail(vtx), garbage)

\* CTxMemPool::removeForBlock (the fee estimator is an outside observer)
removeForBlock(m, vtx, garbage) == BlockWalk(m, vtx, garbage)

\* CTxMemPool::removeWithoutBranchId
removeWithoutBranchId(m, nMemPoolBranchId, garbage) ==
    RemoveEach(m, {t \in DOMAIN m.mapTx : m.mapTx[t].branchId # nMemPoolBranchId},
               garbage)

\* CTxMemPool::clear
clear(m) ==
    [m EXCEPT !.mapTx = <<>>, !.mapNextTx = <<>>, !.totalTxSize = 0,
              !.cachedInnerUsage = 0, !.nTransactionsUpdated = @ + 1]

-----------------------------------------------------------------------------
(* CCoinsViewMemPool: the pool seen as a coins view over the chain's.      *)

\* GetCoins: a pooled tx wins and has every output; else the chain's coins
\* of txid, when not pruned.  The unspent outputs of txid it reports:
ViewMemPoolCoins(m, utxo, txid) ==
    IF txid \in DOMAIN m.mapTx THEN Outputs(txid)
    ELSE {op \in utxo : op[1] = txid}

\* nullifierExists, and CCoinsViewMemPool::GetNullifier
nullifierExists(m, nf, type) == nf \in DOMAIN m.mapNullifiers[type]
ViewMemPoolGetNullifier(m, chainNullifiers, nf, type) ==
    nullifierExists(m, nf, type) \/ nf \in chainNullifiers[type]

-----------------------------------------------------------------------------
(* CTxMemPool::check: the audit that replays the pool over a copy of the  *)
(* chain's coins.  TRUE iff none of its assertions fails.  Entries are    *)
(* visited in mapTx order (a hashed index: any order); those spending a    *)
(* pooled output wait in a list that is retried until no entry makes      *)
(* progress.  Anchors are not represented (see README).                   *)

\* CheckTxInputs against the duplicate view: inputs there, coinbases mature
CheckTxInputs(t, view, coinHeight, nSpendHeight) ==
    /\ Prevouts(t) \subseteq view
    /\ \A op \in Prevouts(t) :
          op[1] \in CoinbaseTx => nSpendHeight - coinHeight[op[1]] >= COINBASE_MATURITY

UpdateCoins(t, view) == (view \ Prevouts(t)) \cup Outputs(t)

RECURSIVE ReplayReady(_, _, _, _)
ReplayReady(seq, view, coinHeight, nSpendHeight) ==
    IF seq = <<>> THEN [ok |-> TRUE, view |-> view]
    ELSE IF ~CheckTxInputs(Head(seq), view, coinHeight, nSpendHeight)
         THEN [ok |-> FALSE, view |-> view]
         ELSE ReplayReady(Tail(seq), UpdateCoins(Head(seq), view), coinHeight, nSpendHeight)

\* the waitingOnDependants loop, with its stepsSinceLastRemove assertion
RECURSIVE DrainWaiting(_, _, _, _, _)
DrainWaiting(waiting, view, steps, coinHeight, nSpendHeight) ==
    IF waiting = <<>> THEN TRUE
    ELSE LET e == Head(waiting)
             rest == Tail(waiting)
         IN IF ~(Prevouts(e) \subseteq view)
            THEN /\ steps + 1 < Len(rest) + 1
                 /\ DrainWaiting(Append(rest, e), view, steps + 1, coinHeight, nSpendHeight)
            ELSE /\ CheckTxInputs(e, view, coinHeight, nSpendHeight)
                 /\ DrainWaiting(rest, UpdateCoins(e, view), 0, coinHeight, nSpendHeight)

check(m, utxo, coinHeight, chainNullifiers, anchors, nSpendHeight) ==
    LET pooled == DOMAIN m.mapTx
        order == SetToSeq(pooled)
        DependsWait(t) == \E op \in Prevouts(t) : op[1] \in pooled
        ready == SelectSeq(order, LAMBDA t : ~DependsWait(t))
        waiting == SelectSeq(order, DependsWait)
        replay == ReplayReady(ready, utxo, coinHeight, nSpendHeight)
    IN
    /\ \A t \in pooled : \A i \in DOMAIN Vin[t] :
          LET op == Vin[t][i] IN
          /\ op[1] \in pooled => op[2] < NOut[op[1]]
          /\ op[1] \notin pooled => op \in utxo
          /\ op \in DOMAIN m.mapNextTx
          /\ m.mapNextTx[op] = <<t, i - 1>>
    /\ \A t \in pooled : \A ty \in ShieldedType :
          Nullifiers[t][ty] \cap chainNullifiers[ty] = {}
    \* GetSproutAnchorAt / GetSaplingAnchorAt find every spend's anchor
    /\ \A t \in pooled : \A ty \in ShieldedType :
          Anchors[t][ty] \subseteq anchors[ty]
    /\ replay.ok
    /\ DrainWaiting(waiting, replay.view, 0, coinHeight, nSpendHeight)
    /\ \A op \in DOMAIN m.mapNextTx :
          LET h == m.mapNextTx[op][1]
              n == m.mapNextTx[op][2]
          IN h \in pooled /\ n < Len(Vin[h]) /\ Vin[h][n + 1] = op
    \* checkNullifiers(SPROUT), checkNullifiers(SAPLING)
    /\ \A ty \in ShieldedType : \A nf \in DOMAIN m.mapNullifiers[ty] :
          m.mapNullifiers[ty][nf] \in pooled
    /\ m.totalTxSize = MapThenSumSet(LAMBDA t : TxSize[t], pooled)
    /\ m.cachedInnerUsage = MapThenSumSet(LAMBDA t : TxUsage[t], pooled)

-----------------------------------------------------------------------------
(* Operations a caller invokes on its own, each one locked step.          *)

Init ==
    /\ mapTx = <<>>
    /\ mapNextTx = <<>>
    /\ mapNullifiers = [ty \in ShieldedType |-> <<>>]
    /\ mapRecentlyAddedTx = {}
    /\ nRecentlyAddedSequence = 0
    /\ nNotifiedSequence = 0
    /\ nTransactionsUpdated = 0
    /\ totalTxSize = 0
    /\ cachedInnerUsage = 0
    /\ mapDeltas = <<>>
    /\ mapReserveTransactions = {}
    /\ notifyPc = "idle"
    /\ notifySeq = 0
    /\ notifyTxs = {}
    /\ walletSynced = {}
    /\ mapAddress = {}
    /\ mapAddressInserted = <<>>
    /\ mapSpent = <<>>
    /\ mapSpentInserted = <<>>

\* the accumulated delta of hash, 0 when absent (ApplyDeltas)
ApplyDeltas(m, hash) == IF hash \in DOMAIN m.mapDeltas THEN m.mapDeltas[hash] ELSE 0

\* mapDeltas[hash] += delta, creating the entry
Prioritise(m, hash, feeDelta) ==
    [m EXCEPT !.mapDeltas = (hash :> ApplyDeltas(m, hash) + feeDelta) @@ @]

\* CTxMemPool::PrioritiseTransaction, from the prioritisetransaction RPC
PrioritiseTransaction(hash, feeDelta) ==
    /\ ApplyDeltas(Pool, hash) + feeDelta \in -MaxDelta..MaxDelta
    /\ SetPool(Prioritise(Pool, hash, feeDelta))
    /\ UNCHANGED notifyVars

\* CTxMemPool::PrioritiseReserveTransaction with a valid descriptor: store
\* it and prioritise by the fee it converts to (one unit here).  An invalid
\* descriptor returns false and changes nothing.
PrioritiseReserveTransaction(hash) ==
    /\ hash \in ReserveTx
    /\ ApplyDeltas(Pool, hash) + 1 <= MaxDelta
    /\ SetPool(Prioritise([Pool EXCEPT !.mapReserveTransactions = @ \cup {hash}],
                          hash, 1))
    /\ UNCHANGED notifyVars

\* CTxMemPool::IsKnownReserveTransaction: a stored descriptor whose tx is no
\* longer pooled is dropped by ClearPrioritisation; otherwise only the
\* descriptor's pointer is refreshed, which the model does not represent.
IsKnownReserveTransaction(hash) ==
    /\ hash \in mapReserveTransactions
    /\ hash \notin DOMAIN mapTx
    /\ SetPool(ClearPrioritisation(Pool, hash))
    /\ UNCHANGED notifyVars

(* CTxMemPool::NotifyRecentlyAdded, run by the wallet-notify thread in     *)
(* three steps: copy and clear the list under the lock; call              *)
(* SyncWithWallets on the copies without the lock (failures are caught    *)
(* and logged); on regtest only, publish the sequence copied in step one. *)
NotifyTake ==
    /\ notifyPc = "idle"
    /\ notifySeq' = nRecentlyAddedSequence
    /\ notifyTxs' = mapRecentlyAddedTx
    /\ mapRecentlyAddedTx' = {}
    /\ notifyPc' = "sync"
    /\ UNCHANGED <<mapTx, mapNextTx, mapNullifiers, nRecentlyAddedSequence,
                   nNotifiedSequence, nTransactionsUpdated, totalTxSize,
                   cachedInnerUsage, mapDeltas, mapReserveTransactions, walletSynced,
                   indexVars>>

\* Mutant of NotifySync: the regtest branch is never taken.
NotifySyncNoPublish ==
    /\ notifyPc = "sync"
    /\ walletSynced' = walletSynced \cup notifyTxs
    /\ notifyPc' = "idle"
    /\ UNCHANGED <<poolVars, notifySeq, notifyTxs>>

NotifySync ==
    /\ notifyPc = "sync"
    /\ walletSynced' = walletSynced \cup notifyTxs
    /\ notifyPc' = IF IsRegtest THEN "end" ELSE "idle"
    /\ UNCHANGED <<poolVars, notifySeq, notifyTxs>>

\* Mutant of NotifyEnd: publishes the sequence read under the second lock.
NotifyEndCurrentSeq ==
    /\ notifyPc = "end"
    /\ nNotifiedSequence' = nRecentlyAddedSequence
    /\ notifyPc' = "idle"
    /\ UNCHANGED <<mapTx, mapNextTx, mapNullifiers, mapRecentlyAddedTx,
                   nRecentlyAddedSequence, nTransactionsUpdated, totalTxSize,
                   cachedInnerUsage, mapDeltas, mapReserveTransactions,
                   notifySeq, notifyTxs, walletSynced, indexVars>>

NotifyEnd ==
    /\ notifyPc = "end"
    /\ nNotifiedSequence' = notifySeq
    /\ notifyPc' = "idle"
    /\ UNCHANGED <<mapTx, mapNextTx, mapNullifiers, mapRecentlyAddedTx,
                   nRecentlyAddedSequence, nTransactionsUpdated, totalTxSize,
                   cachedInnerUsage, mapDeltas, mapReserveTransactions,
                   notifySeq, notifyTxs, walletSynced, indexVars>>

\* CTxMemPool::IsFullyNotified
IsFullyNotified == nRecentlyAddedSequence = nNotifiedSequence

=============================================================================
