--------------------------- MODULE AddressQueries ---------------------------
(***************************************************************************)
(* The insight-explorer queries of rpc/misc (in txmempool.cpp here):       *)
(* getAddressesFromParams, getaddressmempool, getaddressdeltas,           *)
(* getaddressbalance and getaddresstxids, over the chain's address index  *)
(* and the pool's mapAddress.                                             *)
(*                                                                         *)
(* The chain is a set of confirmed transactions [txid, height, pos, vin,  *)
(* vout]: pos is the position in the block (CAddressIndexKey's txindex),  *)
(* vin a sequence of spent outpoints <<txid, n>>, vout a sequence of       *)
(* [addr, value], output n being vout[n + 1].  An output whose address is *)
(* "nonstandard" has no index key (ScriptType UNKNOWN).  A txid's hex      *)
(* string is abstracted to its rank TxHex[txid] in string order: it only  *)
(* matters through the std::set<pair<int, string>> of getaddresstxids.     *)
(* The pool's address deltas are records [addr, txid, index, spending,     *)
(* time, amount], as addAddressIndex made them.                           *)
(*                                                                         *)
(* A call's params[0] is a record: [kind |-> "str", addr] for a string,    *)
(* [kind |-> "obj", addrs, start, end, chainInfo] for an object (addrs a  *)
(* sequence of address strings or NotArray, start and end a number or   *)
(* None), [kind |-> "num"] for anything else.  The string "bad" is not a *)
(* valid address.  A call returns [err, ...]: err is the message of the    *)
(* JSONRPCError thrown ("help" for the usage runtime_error), or "none".   *)
(***************************************************************************)
EXTENDS Integers, Sequences, SequencesExt

CONSTANTS
    Addrs,          \* valid transparent addresses (P2PKH or P2SH)
    Chain,          \* the confirmed transactions
    TipHeight,      \* chainActive.Height()
    TxHex,          \* txid -> rank of its hex string (GetHex) in string order
    TxKey,          \* txid -> rank of the uint256 in operator< order
    MempoolDeltas,  \* the pool's address index entries
    None,           \* a "start" or "end" that is not a number
    NotArray        \* an "addresses" that is not an array

SumOf(s) == FoldLeft(LAMBDA a, b : a + b, 0, s)

IsNum(x) == x # None

-----------------------------------------------------------------------------
(* The chain's address index (CAddressIndexKey -> amount), which          *)
(* ConnectBlock writes in main.cpp: an entry per input (spending, the     *)
(* negated value of the coin) and per output whose script has an address. *)

OutOf(op) == LET t == CHOOSE c \in Chain : c.txid = op[1] IN t.vout[op[2] + 1]

SpendEntries(t) ==
    {[addr |-> OutOf(t.vin[j]).addr, height |-> t.height, pos |-> t.pos, txid |-> t.txid,
      index |-> j - 1, spending |-> 1, amount |-> -OutOf(t.vin[j]).value] :
        j \in {i \in DOMAIN t.vin : OutOf(t.vin[i]).addr # "nonstandard"}}

OutputEntries(t) ==
    {[addr |-> t.vout[n].addr, height |-> t.height, pos |-> t.pos, txid |-> t.txid,
      index |-> n - 1, spending |-> 0, amount |-> t.vout[n].value] :
        n \in {i \in DOMAIN t.vout : t.vout[i].addr # "nonstandard"}}

IndexEntries == UNION {SpendEntries(t) \cup OutputEntries(t) : t \in Chain}

\* the key order of the index database within one address
KeyLess(x, y) ==
    \/ x.height < y.height
    \/ x.height = y.height /\ x.pos < y.pos
    \/ x.height = y.height /\ x.pos = y.pos /\ x.index < y.index
    \/ x.height = y.height /\ x.pos = y.pos /\ x.index = y.index /\ x.spending < y.spending

(* GetAddressIndex (main.cpp, ReadAddressIndex of txdb.cpp): appends the  *)
(* entries of one address in key order, only those with heights start..end *)
(* when a range is asked for; fails when -addressindex is off.            *)
GetAddressIndex(indexOn, a, start, end) ==
    [ok |-> indexOn,
     entries |-> SetToSortSeq({e \in IndexEntries :
                                 /\ e.addr = a
                                 /\ start > 0 /\ end > 0 => e.height \in start..end},
                              KeyLess)]

\* one GetAddressIndex call per address, appended in turn
RECURSIVE CollectIndex(_, _, _, _)
CollectIndex(indexOn, addrs, start, end) ==
    IF addrs = <<>> THEN [ok |-> TRUE, entries |-> <<>>]
    ELSE LET r == GetAddressIndex(indexOn, Head(addrs), start, end)
             rest == CollectIndex(indexOn, Tail(addrs), start, end)
         IN [ok |-> r.ok /\ rest.ok, entries |-> r.entries \o rest.entries]

-----------------------------------------------------------------------------
(* getAddressesFromParams: a single address string, or the "addresses"    *)
(* array of an object; any invalid address throws.                        *)
getAddressesFromParams(p) ==
    CASE p.kind = "str" ->
            IF p.addr \in Addrs THEN [err |-> "none", addrs |-> <<p.addr>>]
            ELSE [err |-> "Invalid address", addrs |-> <<>>]
      [] p.kind = "obj" ->
            IF p.addrs = NotArray
            THEN [err |-> "Addresses is expected to be an array", addrs |-> <<>>]
            ELSE IF \E i \in DOMAIN p.addrs : p.addrs[i] \notin Addrs
            THEN [err |-> "Invalid addresses", addrs |-> <<>>]
            ELSE [err |-> "none", addrs |-> p.addrs]
      [] OTHER -> [err |-> "Invalid addresse", addrs |-> <<>>]

\* CTxMemPool::getAddressIndex: the pool's entries of each address in turn,
\* each in mapAddress key order (txhash, index, spending)
MempoolKeyLess(x, y) ==
    \/ TxKey[x.txid] < TxKey[y.txid]
    \/ x.txid = y.txid /\ x.index < y.index
    \/ x.txid = y.txid /\ x.index = y.index /\ x.spending < y.spending

MempoolIndex(addrs) ==
    FlattenSeq([i \in DOMAIN addrs |->
                   SetToSortSeq({d \in MempoolDeltas : d.addr = addrs[i]}, MempoolKeyLess)])

(* getaddressmempool: the pool's deltas of the addresses, std::sort'ed by  *)
(* time.  std::sort is not stable, so entries with equal times may come    *)
(* out in any order: the result is one of a set of sequences.             *)
getaddressmempool(p) ==
    LET a == getAddressesFromParams(p) IN
    IF a.err # "none" THEN [err |-> a.err, results |-> {}]
    ELSE LET idx == MempoolIndex(a.addrs)
             perms == SetToSeqs(DOMAIN idx)
         IN [err |-> "none",
             results |-> {[i \in DOMAIN idx |-> idx[pi[i]]] :
                             pi \in {q \in perms :
                                       IsSorted([i \in DOMAIN idx |-> idx[q[i]].time], \leq)}}]

-----------------------------------------------------------------------------
\* the start and end a query uses: both numbers, or 0 and 0
RangeOf(p) ==
    IF p.kind = "obj" /\ IsNum(p.start) /\ IsNum(p.end)
    THEN [start |-> p.start, end |-> p.end] ELSE [start |-> 0, end |-> 0]

\* Mutant of getaddressdeltas: a start or end of zero or less is not rejected.
getaddressdeltasNoLowerBound(indexOn, p) ==
    IF p.kind # "obj" THEN [err |-> "help", deltas |-> <<>>]
    ELSE LET r == RangeOf(p) IN
    IF IsNum(p.start) /\ IsNum(p.end) /\ r.end < r.start
    THEN [err |-> "End value is expected to be greater than start", deltas |-> <<>>]
    ELSE LET a == getAddressesFromParams(p)
             c == CollectIndex(indexOn, a.addrs, r.start, r.end)
         IN CASE a.err # "none" -> [err |-> a.err, deltas |-> <<>>]
              [] ~c.ok -> [err |-> "No information available for address", deltas |-> <<>>]
              [] p.chainInfo /\ r.start > 0 /\ r.end > 0 /\ (r.start > TipHeight \/ r.end > TipHeight) ->
                    [err |-> "Start or end is outside chain range", deltas |-> <<>>]
              [] OTHER -> [err |-> "none", deltas |-> c.entries]

(* getaddressdeltas: start and end, when both are numbers, must be         *)
(* positive and in order; the index of each address is read (in the range *)
(* only when both are positive); with chainInfo and a range, a range past *)
(* the tip is rejected after the index was read.  getAddressFromIndex      *)
(* cannot fail: the index is read by the queried addresses' own type.      *)
getaddressdeltas(indexOn, p) ==
    IF p.kind # "obj" THEN [err |-> "help", deltas |-> <<>>]
    ELSE LET r == RangeOf(p) IN
    IF IsNum(p.start) /\ IsNum(p.end) /\ (r.start <= 0 \/ r.end <= 0)
    THEN [err |-> "Start and end is expected to be greater than zero", deltas |-> <<>>]
    ELSE IF IsNum(p.start) /\ IsNum(p.end) /\ r.end < r.start
    THEN [err |-> "End value is expected to be greater than start", deltas |-> <<>>]
    ELSE LET a == getAddressesFromParams(p)
             c == CollectIndex(indexOn, a.addrs, r.start, r.end)
         IN CASE a.err # "none" -> [err |-> a.err, deltas |-> <<>>]
              [] ~c.ok -> [err |-> "No information available for address", deltas |-> <<>>]
              [] p.chainInfo /\ r.start > 0 /\ r.end > 0 /\ (r.start > TipHeight \/ r.end > TipHeight) ->
                    [err |-> "Start or end is outside chain range", deltas |-> <<>>]
              [] OTHER -> [err |-> "none", deltas |-> c.entries]

\* Mutant of getaddressbalance: every delta counts as received.
getaddressbalanceAllReceived(indexOn, p) ==
    LET a == getAddressesFromParams(p)
        c == CollectIndex(indexOn, a.addrs, 0, 0)
        amounts == [i \in DOMAIN c.entries |-> c.entries[i].amount]
    IN CASE a.err # "none" -> [err |-> a.err, balance |-> 0, received |-> 0]
         [] ~c.ok -> [err |-> "No information available for address", balance |-> 0, received |-> 0]
         [] OTHER -> [err |-> "none", balance |-> SumOf(amounts), received |-> SumOf(amounts)]

\* getaddressbalance: the sum of all deltas, and of the positive ones
getaddressbalance(indexOn, p) ==
    LET a == getAddressesFromParams(p)
        c == CollectIndex(indexOn, a.addrs, 0, 0)
        amounts == [i \in DOMAIN c.entries |-> c.entries[i].amount]
    IN CASE a.err # "none" -> [err |-> a.err, balance |-> 0, received |-> 0]
         [] ~c.ok -> [err |-> "No information available for address", balance |-> 0, received |-> 0]
         [] OTHER -> [err |-> "none", balance |-> SumOf(amounts),
                      received |-> SumOf(SelectSeq(amounts, LAMBDA v : v > 0))]

-----------------------------------------------------------------------------
\* std::pair<int, std::string> order of the txids set
PairLess(x, y) == x[1] < y[1] \/ (x[1] = y[1] /\ TxHex[x[2]] < TxHex[y[2]])

\* Mutant of getaddresstxids: one address pushes every entry's txid, the
\* result of txids.insert unchecked.
getaddresstxidsNoDedup(indexOn, p) ==
    LET a == getAddressesFromParams(p)
        r == RangeOf(p)
        c == CollectIndex(indexOn, a.addrs, r.start, r.end)
        idx == c.entries
    IN CASE a.err # "none" -> [err |-> a.err, txids |-> <<>>]
         [] ~c.ok -> [err |-> "No information available for address", txids |-> <<>>]
         [] Len(a.addrs) > 1 ->
               LET sorted == SetToSortSeq({<<e.height, e.txid>> : e \in ToSet(idx)}, PairLess)
               IN [err |-> "none", txids |-> [i \in DOMAIN sorted |-> sorted[i][2]]]
         [] OTHER -> [err |-> "none", txids |-> [i \in DOMAIN idx |-> idx[i].txid]]

(* getaddresstxids: the addresses first, then start and end (any numbers, *)
(* unchecked); with several addresses the (height, txid hex) pairs are     *)
(* listed in set order, with one address in index order, each pair the     *)
(* first time it is inserted.                                             *)
getaddresstxids(indexOn, p) ==
    LET a == getAddressesFromParams(p)
        r == RangeOf(p)
        c == CollectIndex(indexOn, a.addrs, r.start, r.end)
        idx == c.entries
        firsts == {i \in DOMAIN idx :
                     \A j \in 1..(i - 1) : <<idx[j].height, idx[j].txid>> # <<idx[i].height, idx[i].txid>>}
        kept == SetToSortSeq(firsts, <)
    IN CASE a.err # "none" -> [err |-> a.err, txids |-> <<>>]
         [] ~c.ok -> [err |-> "No information available for address", txids |-> <<>>]
         [] Len(a.addrs) > 1 ->
               LET sorted == SetToSortSeq({<<e.height, e.txid>> : e \in ToSet(idx)}, PairLess)
               IN [err |-> "none", txids |-> [i \in DOMAIN sorted |-> sorted[i][2]]]
         [] OTHER -> [err |-> "none", txids |-> [i \in DOMAIN kept |-> idx[kept[i]].txid]]

=============================================================================
