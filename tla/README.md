# TLA+ models of the VerusCoin memory pool and its neighbours

This directory holds TLA+ models of:
- the transaction memory pool in `src/src/txmempool.cpp` (`CTxMemPool`);
- the node code that drives the pool;
- the RPCs in the sources that touch the pool or its indexes;
- the signing, merkle and notary-check algorithms beside them.

It also has the TLC configurations that check these models. `PROJECT.json`
lists every component, run, mutant, finding and hazard. It maps every
definition to the source lines it translates.

## 1. The system

| Part | Source | Role |
|---|---|---|
| Entry insertion | `txmempool.cpp` 24-135 | `addUnchecked` stores an entry in `mapTx`, records it in `mapRecentlyAddedTx` and points `mapNextTx` at it for every spent outpoint (coin imports excepted). It also points the Sprout/Sapling nullifier maps at it and updates the counters. |
| Address / spent indexes | 137-246 | `mapAddress` / `mapSpent` and their `...Inserted` key lists back the explorer RPCs. |
| Eviction engine | 248-511 | `remove` is a breadth-first, optionally recursive walk. `removeForReorg`, `removeWithAnchor`, `removeConflicts`, `removeExpired`, `removeForBlock`, `removeWithoutBranchId` and `clear` are built on it. |
| Consistency checker | 513-648 | `check` / `checkNullifiers`: the debug audit that replays the pool onto the chain's coins. |
| Prioritisation | 715-780 | `mapDeltas` (fee deltas per hash) and `mapReserveTransactions`. |
| Wallet notification | 802-843 | `NotifyRecentlyAdded` on the wallet-notify thread, and `IsFullyNotified`. |
| Coins-view overlay | 845-866 | `CCoinsViewMemPool`: the pool seen as a coins view. |
| Node RPCs | `txmempool.cpp` 873-2203 | `getinfo`, `validateaddress` and the like, plus the insight-explorer address queries. |
| Raw-transaction RPCs | `rpc/rawtransaction.cpp` | `sendrawtransaction` submits to the pool. `signrawtransaction` signs and merges. `createrawtransaction` builds an unsigned transaction from JSON params. |
| RPC client | `rpc/client.cpp` | `RPCConvertValues` turns command-line words into JSON params, parsing those `vRPCConvertParams` lists. |
| Crypto-conditions | `cc/eval.cpp` | `CheckNotaryInputs` and `SafeCheckMerkleBranch`. |
| Script signing | `unnamed/part_000` (`script/sign.cpp`) | `ProduceSignature` and `CombineSignatures`. |
| Block and merkle tree | `unnamed/part_002` (`primitives/block.cpp`) | `BuildMerkleTree`, `GetMerkleBranch` and `CheckMerkleBranch`. |

The parts interact through `main.cpp`, which is not among the sources:
- `AcceptToMemoryPool` validates against the chain through
  `CCoinsViewMemPool`, then calls `addUnchecked` and the index writers.
- `ConnectTip` calls `removeForBlock`, `removeExpired` and
  `removeWithoutBranchId`.
- `DisconnectTip` re-accepts the block's transactions, then calls
  `removeForReorg`, `removeWithAnchor` for the roots it invalidates, and
  `removeWithoutBranchId`.
- All of this runs under `cs_main`, with the pool's `cs` taken inside each
  call.

The wallet-notify thread is the one truly concurrent actor. It copies the
recently-added list under `cs`, calls `SyncWithWallets` with no lock held, and
on regtest publishes `nNotifiedSequence`.

## 2. Modules

- **`Mempool.tla`**: the pool's state as VARIABLES, including the explorer
  indexes.
  - Every method that changes state is an operator on a record `m` of the pool.
    `SetPool` writes the record back, so one locked step can chain methods in
    the code's order.
  - `remove` is the recursive `RemoveWalk`, which also drops the index entries
    (`RemoveIndexes`).
  - `removeWithAnchor` walks the pooled txs whose Sprout or Sapling anchor is
    the invalidated root.
  - `check` is a Boolean operator. Its loops are `ReplayReady` and
    `DrainWaiting`.
  - The three steps of `NotifyRecentlyAdded` are actions.
- **`Node.tla`**: the pool composed with the active chain.
  - The callers are actions: `AcceptFromPeer`, `SendRawTransaction`,
    `ConnectTip`, `DisconnectTip`, the prioritisation RPCs, `Notify` and
    `ClearPool`.
  - The callers in `main.cpp` are taken from spec.md 4.2, 4.3 and 6 and
    marked `spec_modelled`.
  - A note-commitment root is the sequence of committing txs of a chain prefix.
    `KnownAnchorsOf` holds the roots the chain has had.
  - `RefinesAbstractPool` instantiates `AbstractPool` with
    `pool <- DOMAIN mapTx`.
- **`AbstractPool.tla`**: what the pool promises, as a set of txs over the
  chain. It grows only by a tx that keeps it consistent, and shrinks only when
  the tip moves, to a consistent set.
- **`MCNode.tla`**: the universe.
  - The genesis coins are `G0` (coinbase) and `G1`.
  - `A` spends `G1`, `B` is A's child, and `D` double-spends `G1` and expires
    at height 2.
  - `S` spends the coinbase: it needs maturity 2 and reveals Sprout nullifier
    2.
  - `Z` reveals a Sapling nullifier and is time-locked. `W` conflicts with both
    `Z` and `S`.
  - The branch id changes at height 3.
  - The outputs pay two addresses, and one output has no address.
  - `MCImportTx` is `A` and the coin import `I` only.
- **`Merkle.tla`**: the flat-array merkle tree, its branches and the
  cross-chain `SafeCheckMerkleBranch`, as RECURSIVE operators. Hashes are
  collision-free pairs.
- **`NotaryInputs.tla`**: `Eval::CheckNotaryInputs`, checked against a
  reference: "one distinct notary per input".
- **`MCEval.tla`**: both of the above. Each input (a leaf list with a
  position, or a list of up to 3 notary inputs) is an initial state, with
  `[][UNCHANGED vars]_vars`; the variables of the other algorithm stay fixed.
- **`Signing.tla` / `MCSigning.tla`**: `SignStep`, `ProduceSignature`,
  `CombineSignatures` / `CombineMultisig`, `VerifyScript`, and
  `signrawtransaction` whole: the prevtxs loop (`AddPrevTx`, folded over the
  array), the keystore choice (`Keystore`), the sighash parameter and the
  per-input loop (`SignInputs`).
  - Scripts are named, and a stack element is a signature, pubkey or script
    push. A signature is `Sig(k, v)`: key `k` over message `v`. The whole
    handler's message is `<<"cur", amount>>`, since the sighash commits to the
    spent amount (ZIP 243).
  - `MCSigning` is not checked alone; `MCRpc` extends it. It enumerates:
    - one input: 7 scripts (P2PK, P2PKH, 2-of-3 multisig, multisig with a
      repeated key, P2SH of either, nonstandard, and a missing coin), every
      keystore, and lists of one or two variants signed by anyone over the
      current or an older transaction;
    - whole calls: one or two of three inputs (a P2PKH and a multisig coin the
      node holds, a P2SH coin it does not), 8 prevtxs entries (well formed,
      non-object, negative vout, a scriptPubKey mismatch, P2SH with and
      without redeem script, with and without amount), keys absent, empty,
      one, two or invalid, the wallet off, locked or unlocked, sighash ALL,
      SINGLE or bogus with one or two outputs, and co-signed variants.
- **`AddressQueries.tla`**: `getAddressesFromParams`,
  `getaddressmempool`, `getaddressdeltas`, `getaddressbalance` and
  `getaddresstxids`.
  - They run over a chain address index (`GetAddressIndex`, spec_modelled:
    `main.cpp`) and the pool's address deltas.
  - The chain has three blocks and shows every case the queries distinguish:
    - a block whose block order differs from its txid-hex order;
    - a tx that spends from an address and pays change back to it;
    - an output with no address.
  - Three pool txs have two equal timestamps, to exercise the unstable sort.
  - Every `params[0]` is checked: a string, an object (0-2 addresses,
    including duplicates and invalid ones, or a non-array; start/end numbers
    or absent, including 0, a start after the end and past the tip; with
    chainInfo on or off) or anything else. The index is on or off.

- **`RPCClient.tla`**: the `vRPCConvertParams` table (all 135 entries) and
  `RPCConvertValues`. A command-line argument is a record of its text and
  what `ParseNonRFCJSONValue` makes of it.
- **`RawTransaction.tla`**: `createrawtransaction` whole. Its checks run in the
  code's order and the first failing one is the error. Integer widths are
  scaled to `W` bits (`W = 4`: int32 is -8..7, uint32 0..15); `get_int` throws
  outside int32 and the `(uint32_t)` cast is modulo `2^W`.
- **`Multisig.tla`**: `createmultisig` and `_createmultisig_redeemScript`. A key
  string is its kind (wallet address with or without a known public key, P2SH
  address, valid hex key, anything else) and its public key's size.
  `GetScriptForMultisig` (not in the sources, so spec_modelled) is reduced to
  its `EncodeOP_N` assertion and the script's size.
- **`MCRpc.tla`**: every RPC model above as a disjunction of initial-state
  universes, the variables of the other RPCs held at a fixed input:
  - the address queries over their three-block chain and pool;
  - one command line per RPC handler of the sources, typed as a user would;
  - `createrawtransaction` with varied inputs arrays (bad txids, absent,
    negative and out-of-range vouts and sequences), addresses objects
    (invalid and repeated keys) and param shapes (counts, types, nulls,
    locktime and expiry heights around every bound);
  - `createmultisig` with 0-17 keys mixing compressed and uncompressed ones,
    two-key lists with a key of each kind, `nrequired` in
    {-1, 0, 1, 2, 7, 15, 16, 17}, the wallet on or off.

Data abstraction:
- Hashes and addresses are model values.
- Fee and priority doubles collapse to one bounded integer delta.
- A txid's hex string is its rank in string order.
- Formatting of RPC results is left out.

## 3. Runs

| Run | Config | Expect | Properties |
|---|---|---|---|
| `node_pool` | `MCNode.cfg` | pass | `TypeOK`, `CheckPasses`, `NoDoubleSpend`, `PoolValidAtTip`, `NoDanglingTxPointers`, `IndexesMatchPool`, `RefinesAbstractPool` |
| `node_notify` | `MCNodeNotify.cfg` | pass | `FullyNotifiedMeansSynced`, `AdditionsEventuallyNotified` |
| `use_after_free` | `MCNodeUseAfterFree.cfg` | violation | `PrioritisationClearedOnRemoval` |
| `clear_stale_state` | `MCNodeClear.cfg` | violation | `NothingOutlivesPool` |
| `coin_import_check` | `MCNodeImport.cfg` | violation | `CheckPasses` |
| `merkle_algorithms` | `MCEval.cfg` | pass | `RootIsReference`, `BranchProvesRoot`, `MutationDetected`, `SafePositionBinding`, `SafeCheckCanonical`, `AcceptsExactlyDistinctNotaries` |
| `notary_prevout_bounds` | `MCEvalBounds.cfg` | violation | `AcceptedInputsInBounds` |
| `rpc_calls` | `MCRpc.cfg` | pass | `TxidsListedOnce`, `DeltasWithinRange`, `BalanceIsUnspent`, `ClientDeliversExpectedTypes`, `CreatedAsRequested`, `MultisigRedeemable`, `HonestMergeCompletes`, `StaleSignaturesIgnored`, `SignedForNodeScripts`, `OnlyGivenKeysSign` |
| `txids_range_zero` | `MCRpcRange.cfg` | violation | `TxidsWithinRange` |
| `balance_duplicate_address` | `MCRpcDup.cfg` | violation | `BalanceOfAddressList` |
| `createraw_sequence` | `MCRpcSeq.cfg` | violation | `SequenceAsRequested` |
| `signraw_amount` | `MCRpcAmount.cfg` | violation | `CompleteForRealAmounts` |

What the passing properties say:
- **`CheckPasses`**: the pool's own audit never fails against the chain.
- **`NoDoubleSpend`**: no two pooled txs share an outpoint or nullifier.
- **`PoolValidAtTip`**: every pooled tx is final at the next height, not
  expired, on the next block's branch, not confirmed, and its anchors are
  roots the chain has had.
- **`NoDanglingTxPointers`**: `mapNextTx`, the nullifier maps and
  `mapRecentlyAddedTx` name only pooled txs.
- **`IndexesMatchPool`**: the address and spent queries answer exactly from
  the pooled txs, whatever sequence of acceptances, conflicts, expiries and
  reorgs ran.
- **`RefinesAbstractPool`**: every node behaviour is an `AbstractPool`
  behaviour.
- **`FullyNotifiedMeansSynced` / `AdditionsEventuallyNotified`**: on regtest,
  `IsFullyNotified` never lies, and every addition is eventually published.
- **`RootIsReference`**, **`BranchProvesRoot`** and **`MutationDetected`**: the
  tree has the textbook root, and every branch proves its leaf. Two lists with
  one root raise the CVE-2012-2459 flag.
- **`SafePositionBinding`** and **`SafeCheckCanonical`**: the safe check
  accepts genuine branches, and binds a proof to its leaf's position.
- **`AcceptsExactlyDistinctNotaries`**: `CheckNotaryInputs` accepts exactly the
  input lists that map one to one onto notaries (with in-range prevouts).
- **`HonestMergeCompletes`**: with current signatures, `signrawtransaction`
  says "complete" exactly when the signers between them could satisfy the
  script, whatever the order of the variants.
- **`StaleSignaturesIgnored`**: for multisig (bare or P2SH), signatures over an
  older transaction never count and never block.
- **`SignedForNodeScripts`**: when a whole `signrawtransaction` call reports
  "complete", every input whose coin the node holds carries a scriptSig that
  verifies against the node's scriptPubKey for that coin, whatever prevtxs
  the caller passed. A prevtx that contradicts the node's coin is refused.
- **`OnlyGivenKeysSign`**: when keys are passed, every signature in the
  result is by a passed key or was already in a variant the caller supplied;
  the wallet's keys never sign, locked or not.
- **`TxidsListedOnce`**: without a range, `getaddresstxids` lists each
  touching tx once and by height, on both its one- and many-address paths.
- **`DeltasWithinRange`**: `getaddressdeltas` answers with exactly the entries
  in the range it accepted.
- **`BalanceIsUnspent`**: `getaddressbalance` of distinct addresses equals
  their unspent chain value. Its `received` is the value of all outputs that
  paid them.
- **`ClientDeliversExpectedTypes`**: for every RPC handler of the sources, the
  command-line client delivers each param in the JSON type the handler reads
  it with; the conversion table agrees with the handlers' accessors.
- **`CreatedAsRequested`**: a transaction `createrawtransaction` returns has
  the inputs, outputs (each with its own amount, no destination twice) and
  locktime asked for. An input with no given sequence is non-final exactly
  when a locktime is set.
- **`MultisigRedeemable`**: `createmultisig` never reaches the `OP_n`
  assertion, returns only scripts within the 520-byte push limit, and accepts
  every m-of-n of up to 15 resolvable compressed keys. (16 compressed keys
  pass the "> 16" check but make a 547-byte script, which is rejected.)

**Bounds.**
- `MCNode`:
  - chain height 3, blocks of 2 txs, and 6 additions (`MaxAdds`);
  - height 3 reaches the branch change, expiry, maturity and lock-time edges;
  - 6 additions let a tx leave and re-enter through a reorg;
  - the `VIEW` drops `nTransactionsUpdated` and the notify thread's copies,
    which no action reads.
- `MCEval` covers every list of 1-8 leaves over two values. 8 leaves give
  three levels, odd levels at every height, and duplicated last pairs. Notary
  inputs are lists of up to 3 over 3 keys with prevout indexes {0, 2} into a
  1-output funding transaction: one index inside, one the guard rejects.
  `MCEvalBounds` uses {0, 1}, where 1 equals `vout.size()`.
- `MCRpc`'s integers are scaled to 4 bits, so int32, uint32 and int64 limits
  all lie inside the small number sets chosen (-1, 0, 7, 14, 15, 16, 200).
  The multisig key counts reach 17, one past the key limit, and the script
  sizes cross 520 bytes (15 vs. 16 compressed keys, 7 vs. 8 uncompressed).
- The whole `signrawtransaction` universe takes one or two of three inputs,
  so the prevtxs fold meets an entry for a coin the node holds, one it does
  not, and two entries in either order; two outputs make SIGHASH_SINGLE sign
  the second input or not.
- The RPC and signing universes above contain every case that the code's
  branches distinguish.

**Fairness.**
- Only the notify thread is weakly fair (`NotifySpec`), because
  `ThreadNotifyRecentlyAdded` loops forever.
- Peers, RPC clients and miners get no fairness.
- The pure-algorithm runs are invariants over initial states.

**Mutants.** Each property of a passing run has a mutant, defined just before
the operator it replaces. TLC finds that mutant's violation under the run's
own cfg:

| Property | Replaced operator → mutant |
|---|---|
| `TypeOK` | `EraseTx` → `EraseTxDoubleSize` |
| `NoDanglingTxPointers` | `EraseTx` → `EraseTxKeepRecent` |
| `CheckPasses` | `remove` → `removeNoOrphanRoots` |
| `NoDoubleSpend` | `addUnchecked` → `addUncheckedNoNullifiers` |
| `PoolValidAtTip` | `ReorgEvicted` → `ReorgEvictedNoFinality` |
| `IndexesMatchPool` | `removeSpentIndex` → `removeSpentIndexKeepEntries` |
| `RefinesAbstractPool` | `removeWithAnchor` → `removeWithAnchorSwapped` |
| `FullyNotifiedMeansSynced` | `NotifyEnd` → `NotifyEndCurrentSeq` |
| `AdditionsEventuallyNotified` | `NotifySync` → `NotifySyncNoPublish` |
| `RootIsReference` | `BuildLevels` → `BuildLevelsRoundDown` |
| `BranchProvesRoot` | `Climb` → `ClimbSwapped` |
| `MutationDetected` | `LevelMutated` → `LevelMutatedLeavesOnly` |
| `SafeCheckCanonical` | `SafeClimb` → `SafeClimbBothSides` |
| `SafePositionBinding` | `SafeClimb` → `SafeClimbUnguarded` |
| `AcceptsExactlyDistinctNotaries` | `FirstUnseen` → `FirstUnseenIgnoringSeen` |
| `HonestMergeCompletes` | `CombineStacks` → `CombineStacksNoRecurse` |
| `StaleSignaturesIgnored` | `CombineMultisig` → `CombineMultisigNoCheck` |
| `TxidsListedOnce` | `getaddresstxids` → `getaddresstxidsNoDedup` |
| `DeltasWithinRange` | `getaddressdeltas` → `getaddressdeltasNoLowerBound` |
| `BalanceIsUnspent` | `getaddressbalance` → `getaddressbalanceAllReceived` |
| `ClientDeliversExpectedTypes` | `convert` → `convertOneBased` |
| `CreatedAsRequested` | `OutputError` → `OutputErrorNoDuplicateCheck`; `TxIn` → `TxInIgnoringLockTime` |
| `MultisigRedeemable` | `RedeemScript` → `RedeemScriptNoKeyLimit` |
| `SignedForNodeScripts` | `AddPrevTx` → `AddPrevTxNoMismatch` |
| `OnlyGivenKeysSign` | `Keystore` → `KeystoreWalletFirst` |

## 4. Findings

- **Use after free in `remove()` (`txmempool.cpp:303`).** `ClearPrioritisation`
  reads the hash from the entry erased at line 296, so a removed tx can keep
  its fee delta. `use_after_free`: accept A, prioritise A, connect a block with
  D.
- **`clear()` leaves stale state (`:503`).**
  - It resets `mapTx` and `mapNextTx`, but keeps:
    - the nullifier maps;
    - `mapRecentlyAddedTx`, which the next notify pass dereferences;
    - the address and spent indexes.
  - `clear_stale_state` shows it in two steps.
- **Coin imports fail `check()` (`:546`).** An import's only input is the
  marker outpoint of a burn on another chain, which is no coin of `pcoins`.
  `check()` asserts `coins && coins->IsAvailable(n)` for every input that does
  not spend a pooled tx, so it aborts on every pooled import. The `mapNextTx`
  assertion at `:550`, which imports would fail too (`addUnchecked` writes no
  entry for them), is never reached. Writing those entries would not stop the
  abort; `check()` would have to skip imports' inputs.
- **Out-of-bounds read in `CheckNotaryInputs` (`cc/eval.cpp:176`).**
  - The guard `vout.size() < n` lets `n == vout.size()` through.
  - The model makes the bytes read a nondeterministic script, so the undefined
    behaviour is an explicit choice.
- **`getaddresstxids` ignores a non-positive range (`:2092`).**
  - A start of 0 returns the whole history.
  - `getaddressdeltas` rejects the same input.
- **Repeated addresses are double counted (`:1968`).**
  `getaddressbalance({"addresses": [A, A]})` reports twice A's balance. The
  deltas and pool queries repeat entries too.
- **A negative "sequence" is accepted (`rpc/rawtransaction.cpp:984`).**
  `createrawtransaction` reads the sequence with `get_int` and casts it to
  `uint32_t`, so -1 becomes 4294967295 instead of being refused.
  `createraw_sequence` shows it on one input.
- **`signrawtransaction` signs for a zero amount (`rpc/rawtransaction.cpp:1317`).**
  A prevtxs entry without "amount" overwrites the coin in the view with
  amount 0, even when the node holds the coin. The sighash commits to the
  amount, so the signature is over the wrong value; the in-RPC verification
  uses the same 0 and reports "complete". `signraw_amount`: one P2PKH input,
  a prevtx with no amount, an unlocked wallet. The returned transaction
  fails against the real coin.

## 5. Not modelled

- **Fee-estimate file I/O** (`WriteFeeEstimates` / `ReadFeeEstimates`):
  serialisation only.
- **`GetPriority`**: floating-point age arithmetic; no property tells doubles
  apart.
- **`pruneSpent`**: a read.
- **The rest of `txmempool.cpp`'s RPCs**: `getinfo`, `coinsupply`, the jumblr
  calls, `validateaddress`, `z_validateaddress`, `verifymessage`,
  `setmocktime`, `getsnapshot`, `getspentinfo` and `getaddressutxos` format
  results or forward to code outside the sources.
- **The order of equal-time entries in `getaddressmempool`.** The model
  gives every time-sorted order as an outcome of the unstable `std::sort`
  (`:1697`); a property of those outcomes would only restate the sort.
- **Within a block, the many-address path of `getaddresstxids` orders txids by
  hex string, not block order.** No documented promise fixes the order, so this
  is a hazard note, not a property.
- **Raw-transaction RPCs**: `decoderawtransaction` and `decodescript` build or
  parse data. `getrawtransaction`, `gettxout_scriptPubKey`, `gettxoutproof`
  and `verifytxoutproof` rest on `GetTransaction`, `ReadBlockFromDisk` and
  `CMerkleBlock`, which are not in the sources. (`gettxout_scriptPubKey`
  tests `n <= vout.size()` at `:766`, one past the end; it is listed as a
  hazard without a property.) `signrawtransaction` is modelled whole; its
  coin view is a fixed map, not the chain of `MCNode`.
- **Signing**:
  - the crypto-condition signer `SignStepCC`;
  - the CLTV prefix;
  - the `SignSignature` wrappers;
  - `DummySignatureCreator`;
  - `VerifyScript` (`interpreter.cpp`) is spec_modelled only for the standard
    types.
- **Sprout intermediate roots within a transaction** (`check` lines 556-576):
  the universe has no joinsplit chaining.
- **`Eval::Dispatch` / `RunCCEval`**: they hand off to `ProcessCC` and the
  eval-code handlers, which are not in the sources.
- **PBaaS header code and hash writers of `part_002` / `hash.h`**: byte layout
  and serialisation. `CVerusSolutionVector` is not in the sources.
