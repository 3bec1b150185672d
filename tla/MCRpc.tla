------------------------------- MODULE MCRpc -------------------------------
(***************************************************************************)
(* The RPCs over small universes of their inputs, each input an initial   *)
(* state that no step changes; the variables of the other RPCs keep a     *)
(* fixed input meanwhile.                                                 *)
(*                                                                         *)
(* Address queries: a three-block chain and a pool of three transactions, *)
(* every params[0] of a small universe, the address index on or off.      *)
(* The chain: t1 (height 1) pays A 4 and B 2; t2 and t3 share block 2, t2 *)
(* first: t2 pays B 1, t3 spends t1's A output and pays A 1 (change) and  *)
(* B 3; t4 (height 3) spends t1's B output and pays A 2 and a script with *)
(* no address.  t3's hex string sorts before t2's.  The pool: m1 (time 5) *)
(* spends t3's B output and pays A 3; m2 (time 3) pays A 1; m3 (time 5)   *)
(* pays A 2; m1 has the lowest uint256, m3 the highest.                   *)
(*                                                                         *)
(* Client conversion: for each RPC handler of the sources, the command    *)
(* line a user types for it: a bare word for a string param, a JSON       *)
(* literal for the others.                                                 *)
(*                                                                         *)
(* createrawtransaction: three sub-universes, one varying the inputs      *)
(* array, one the addresses object, one the shape of params with the     *)
(* locktime and expiry height, with W = 4 (int32 -8..7, uint32 0..15).    *)
(***************************************************************************)
EXTENDS AddressQueries, MCSigning, FiniteSets, FiniteSetsExt

CONSTANTS A, B, t1, t2, t3, t4, m1, m2, m3,
    W, BadHex, H1, NotJson, DefaultExpiry, ExpiryThreshold, ExpiringSoon

Raw == INSTANCE RawTransaction WITH Addrs <- {A, B}
Client == INSTANCE RPCClient
Msig == INSTANCE Multisig WITH MaxScriptElementSize <- 520

VARIABLES
    indexOn,    \* -addressindex
    param,      \* params[0] of an address query
    call,       \* a command line: [method, args]
    raw,        \* a createrawtransaction call: [overwinter, params]
    msig        \* a createmultisig call: [walletOn, params]

vars == <<indexOn, param, call, raw, msig, prevPubKey, own, signIt, variants, sraw>>

MCAddrs == {A, B}

MCChain ==
    {[txid |-> t1, height |-> 1, pos |-> 0, vin |-> <<>>,
      vout |-> <<[addr |-> A, value |-> 4], [addr |-> B, value |-> 2]>>],
     [txid |-> t2, height |-> 2, pos |-> 0, vin |-> <<>>,
      vout |-> <<[addr |-> B, value |-> 1]>>],
     [txid |-> t3, height |-> 2, pos |-> 1, vin |-> <<<<t1, 0>>>>,
      vout |-> <<[addr |-> A, value |-> 1], [addr |-> B, value |-> 3]>>],
     [txid |-> t4, height |-> 3, pos |-> 0, vin |-> <<<<t1, 1>>>>,
      vout |-> <<[addr |-> A, value |-> 2], [addr |-> "nonstandard", value |-> 1]>>]}

MCTxHex == (t3 :> 1) @@ (t2 :> 2) @@ (t1 :> 3) @@ (t4 :> 4)

MCTxKey == (m1 :> 1) @@ (m2 :> 2) @@ (m3 :> 3)

Delta(a, tx, i, sp, time, amt) ==
    [addr |-> a, txid |-> tx, index |-> i, spending |-> sp, time |-> time, amount |-> amt]

MCMempoolDeltas ==
    {Delta(B, m1, 0, 1, 5, -3), Delta(A, m1, 0, 0, 5, 3),
     Delta(A, m2, 0, 0, 3, 1), Delta(A, m3, 0, 0, 5, 2)}

Strings == MCAddrs \cup {"bad"}

Params ==
    {[kind |-> "str", addr |-> a] : a \in Strings}
    \cup {[kind |-> "num"]}
    \cup [kind : {"obj"},
          addrs : {NotArray} \cup UNION {[1..n -> Strings] : n \in 0..2},
          start : {None, 0, 1, 2, 4},
          end : {None, 1, 2, 4},
          chainInfo : BOOLEAN]

-----------------------------------------------------------------------------
(* How each handler of the sources reads its params (txmempool.cpp,       *)
(* rpc/rawtransaction.cpp): the JSON type the accessor it applies needs, *)
(* get_str and ParseHashV/ParseHexV needing "str".                        *)
ServerReads ==
    [getinfo |-> <<>>, coinsupply |-> <<"str">>, jumblr_deposit |-> <<"str">>,
     jumblr_secret |-> <<"str">>, jumblr_pause |-> <<>>, jumblr_resume |-> <<>>,
     validateaddress |-> <<"str">>, z_validateaddress |-> <<"str">>,
     createmultisig |-> <<"num", "arr">>, verifymessage |-> <<"str", "str", "str">>,
     setmocktime |-> <<"num">>, getaddressmempool |-> <<"obj">>,
     getaddressutxos |-> <<"obj">>, getaddressdeltas |-> <<"obj">>,
     getaddressbalance |-> <<"obj">>, getsnapshot |-> <<"str">>,
     getaddresstxids |-> <<"obj">>, getspentinfo |-> <<"obj">>,
     getrawtransaction |-> <<"str", "num">>, gettxoutproof |-> <<"arr", "str">>,
     verifytxoutproof |-> <<"str">>,
     createrawtransaction |-> <<"arr", "obj", "num", "num">>,
     decoderawtransaction |-> <<"str">>, decodescript |-> <<"str">>,
     signrawtransaction |-> <<"str", "arr", "arr", "str", "str">>,
     sendrawtransaction |-> <<"str", "bool">>]

\* what a user types for a param of type t: a bare word for a string (a
\* txid, an address, hex), the JSON literal of a value otherwise
CliArg(t) ==
    IF t = "str" THEN [text |-> "word", values |-> NotJson]
    ELSE [text |-> "literal", values |-> <<Client!Json(t, "v")>>]

CliCalls ==
    {[method |-> m, args |-> [i \in DOMAIN ServerReads[m] |-> CliArg(ServerReads[m][i])]]
        : m \in DOMAIN ServerReads}

\* JSON values of createrawtransaction's params
JNull == [t |-> "null", arr |-> <<>>, obj |-> <<>>, num |-> 0]
JArr(a) == [JNull EXCEPT !.t = "arr", !.arr = a]
JObj(o) == [JNull EXCEPT !.t = "obj", !.obj = o]
JNum(n) == [JNull EXCEPT !.t = "num", !.num = n]

In(tx, n, sq) == [txid |-> tx, vout |-> n, sequence |-> sq]
Out(k, v) == [key |-> k, amount |-> v]

UpTo(S, n) == UNION {[1..k -> S] : k \in 0..n}

\* the inputs array varies: bad txids, absent, negative and out-of-range
\* vouts, sequences absent, negative, zero, int32 max, and past int32 max
InputsVary ==
    {<<JArr(ins), JObj(<<Out(A, 1)>>)>> \o tail :
        ins \in UpTo({In(tx, n, sq) : tx \in {H1, BadHex}, n \in {None, -1, 0, 9},
                                      sq \in {None, -1, 0, 7, 14}}, 2),
        tail \in {<<>>, <<JNum(0)>>, <<JNum(3)>>}}

\* the addresses object varies: invalid and repeated keys, unequal amounts
OutputsVary ==
    {<<JArr(<<In(H1, 0, None)>>), JObj(outs)>> \o tail :
        outs \in UpTo({Out(k, v) : k \in {A, B, "bad"}, v \in {1, 2}}, 3),
        tail \in {<<>>, <<JNum(3)>>}}

\* the shape of params: counts, types, nulls, locktime and expiry height
ShapeVary ==
    LET simple == {JArr(<<In(H1, 0, None)>>), JObj(<<Out(A, 1)>>), JNull}
        nums(S) == {JNum(n) : n \in S} \cup {JNull, JArr(<<>>)}
    IN UNION {[1..k -> simple] : k \in 0..2}
       \cup {<<p1, p2, p3>> \o p4 :
               p1 \in simple, p2 \in simple, p3 \in nums({-1, 0, 15, 16, 200}),
               p4 \in {<<>>} \cup {<<x>> : x \in nums({-1, 6, 7, 11, 12, 200})}}
       \cup {<<p1, p2, JNull, JNull, JNull>> : p1 \in simple, p2 \in simple}

RawParams == InputsVary \cup OutputsVary \cup ShapeVary

\* createmultisig keys: c compressed then u uncompressed hex public keys,
\* up to 17 of them, and two-key lists with one key of each kind
HexKey(len) == [kind |-> "hex", len |-> len]
KeyList(c, u) == [i \in 1..(c + u) |-> HexKey(IF i <= c THEN 33 ELSE 65)]
KeyKinds == {"addrKey", "addrNoPub", "addrScript", "hex", "badHex", "text"}
MsigKeys ==
    {KeyList(p[1], p[2]) : p \in {p \in (0..17) \X (0..9) : p[1] + p[2] <= 17}}
    \cup {<<[kind |-> k, len |-> 33]>> \o KeyList(1, 0) : k \in KeyKinds}
    \cup {KeyList(1, 0) \o <<[kind |-> k, len |-> 65]>> : k \in KeyKinds}
MsigParams ==
    {<<m, ks>> : m \in {-1, 0, 1, 2, 7, 15, 16, 17}, ks \in MsigKeys} \cup {<<2>>}

\* the inputs fixed while another RPC varies
NoQuery == indexOn = FALSE /\ param = [kind |-> "num"]
NoCall == call = [method |-> "getinfo", args |-> <<>>]
NoRaw == raw = [overwinter |-> TRUE, params |-> <<JArr(<<>>), JObj(<<>>)>>]
NoMsig == msig = [walletOn |-> FALSE, params |-> <<>>]
NoOneInput ==
    prevPubKey = "missing" /\ own = [keys |-> {}, scripts |-> {}] /\ signIt = FALSE /\ variants = <<Unsigned>>
NoWholeCall ==
    sraw = [tx |-> [vin |-> <<>>, nvout |-> 0], wallet |-> CHOOSE w \in Wallets : ~w.on,
            p |-> [hex |-> [ok |-> FALSE, variants |-> <<>>], prevtxs |-> NotGiven, keys |-> NotGiven, sighash |-> "ALL"]]
NoSign == NoOneInput /\ NoWholeCall
NoRpc == NoQuery /\ NoCall /\ NoRaw /\ NoMsig

Spec ==
    /\ \/ indexOn \in BOOLEAN /\ param \in Params /\ NoCall /\ NoRaw /\ NoMsig /\ NoSign
       \/ call \in CliCalls /\ NoQuery /\ NoRaw /\ NoMsig /\ NoSign
       \/ raw \in [overwinter : BOOLEAN, params : RawParams] /\ NoQuery /\ NoCall /\ NoMsig /\ NoSign
       \/ msig \in [walletOn : BOOLEAN, params : MsigParams] /\ NoQuery /\ NoCall /\ NoRaw /\ NoSign
       \/ OneInput /\ NoWholeCall /\ NoRpc
       \/ WholeCall /\ NoOneInput /\ NoRpc
    /\ [][UNCHANGED vars]_vars

-----------------------------------------------------------------------------
\* what the call asked for
Asked == getAddressesFromParams(param)

Distinct == Asked.err = "none" /\ IsInjective(Asked.addrs)

HasRange == param.kind = "obj" /\ IsNum(param.start) /\ IsNum(param.end)

InRange(h) == HasRange => h \in param.start..param.end

HeightOf(tx) == (CHOOSE t \in Chain : t.txid = tx).height

Spent == UNION {ToSet(t.vin) : t \in Chain}

\* the outputs of the chain paying one of the addresses
OutputsTo(as) ==
    UNION {{<<t.txid, n - 1>> : n \in {i \in DOMAIN t.vout : t.vout[i].addr \in as}} : t \in Chain}

ValueOf(op) == OutOf(op).value

TypeOK ==
    /\ indexOn \in BOOLEAN
    /\ param \in Params
    /\ call \in CliCalls \cup {[method |-> "getinfo", args |-> <<>>]}
    /\ raw \in [overwinter : BOOLEAN, params : RawParams \cup {<<JArr(<<>>), JObj(<<>>)>>}]
    /\ msig \in [walletOn : BOOLEAN, params : MsigParams \cup {<<>>}]

(* getaddresstxids, without a range, lists every transaction that pays or *)
(* spends from the addresses exactly once and by height, on both paths:   *)
(* the insertion check of the one-address path drops the second entry of  *)
(* a transaction that spends from an address and pays change back to it, *)
(* the std::set of the several-address path sorts by (height, txid).      *)
TxidsListedOnce ==
    LET q == getaddresstxids(indexOn, param) IN
    q.err = "none" /\ ~HasRange =>
        /\ IsInjective(q.txids)
        /\ ToSet(q.txids) = {e.txid : e \in {x \in IndexEntries : x.addr \in ToSet(Asked.addrs)}}
        /\ IsSorted([i \in DOMAIN q.txids |-> HeightOf(q.txids[i])], \leq)

(* getaddresstxids with numbers start and end returns only transactions  *)
(* of heights start..end, as its help ("the start block height", "the    *)
(* end block height") describes.                                         *)
TxidsWithinRange ==
    LET q == getaddresstxids(indexOn, param) IN
    q.err = "none" /\ HasRange => \A i \in DOMAIN q.txids : InRange(HeightOf(q.txids[i]))

(* getaddressdeltas, when it answers, returns exactly the index entries  *)
(* of the addresses in the range asked for, or all of them when no range *)
(* is given: its checks of start and end must reject every range that    *)
(* GetAddressIndex would read as "no range".                             *)
DeltasWithinRange ==
    LET d == getaddressdeltas(indexOn, param) IN
    d.err = "none" =>
        ToSet(d.deltas) = {e \in IndexEntries : e.addr \in ToSet(Asked.addrs) /\ InRange(e.height)}

(* getaddressbalance of distinct addresses reports as balance the value   *)
(* of their unspent outputs on the chain, and as received the value of all*)
(* the outputs paying them, change included, though it only sums the     *)
(* index's signed deltas.                                                *)
BalanceIsUnspent ==
    LET b == getaddressbalance(indexOn, param) IN
    b.err = "none" /\ Distinct =>
        /\ b.balance = MapThenSumSet(ValueOf, OutputsTo(ToSet(Asked.addrs)) \ Spent)
        /\ b.received = MapThenSumSet(ValueOf, OutputsTo(ToSet(Asked.addrs)))

(* getaddressbalance of an address list reports the balance of the        *)
(* addresses it names, each counted once, as its help ("the balance for  *)
(* an address(es)") describes.                                           *)
BalanceOfAddressList ==
    LET b == getaddressbalance(indexOn, param) IN
    b.err = "none" => b.balance = MapThenSumSet(ValueOf, OutputsTo(ToSet(Asked.addrs)) \ Spent)

(* The command-line client delivers every param of every RPC handler of  *)
(* the sources in the type the handler reads it with: RPCConvertValues   *)
(* parses exactly the params the handlers read as numbers, booleans,     *)
(* arrays or objects, and passes the others on as the strings typed, so  *)
(* vRPCConvertParams agrees with the handlers' accessors.                 *)
ClientDeliversExpectedTypes ==
    LET r == Client!RPCConvertValues(call.method, call.args)
        want == ServerReads[call.method]
    IN /\ r.err = "none"
       /\ \A i \in DOMAIN want : r.params[i].t = want[i]

\* the params of a createrawtransaction call
RawIns == IF raw.params # <<>> THEN raw.params[1].arr ELSE <<>>
RawOuts == IF Len(raw.params) >= 2 THEN raw.params[2].obj ELSE <<>>
RawLockTime ==
    IF Len(raw.params) >= 3 /\ raw.params[3].t = "num" THEN raw.params[3].num ELSE 0

(* createrawtransaction builds what it was asked for: an input per       *)
(* element of the inputs array, in order and spending its outpoint, one  *)
(* whose sequence is not given being non-final exactly when a locktime   *)
(* is set (the default nSequence reads rawTx.nLockTime, assigned before  *)
(* the inputs loop); an output per key of the addresses object, in       *)
(* order and paying that key's own amount, no destination twice; and    *)
(* the locktime given.                                                   *)
CreatedAsRequested ==
    LET r == Raw!createrawtransaction(raw.overwinter, raw.params) IN
    r.err = "none" =>
        /\ Len(r.tx.vin) = Len(RawIns)
        /\ \A i \in DOMAIN RawIns :
              /\ r.tx.vin[i].txid = RawIns[i].txid /\ r.tx.vin[i].n = RawIns[i].vout
              /\ RawIns[i].sequence = None =>
                    (r.tx.vin[i].nSequence < Raw!UInt32Max <=> RawLockTime # 0)
        /\ Len(r.tx.vout) = Len(RawOuts)
        /\ \A i \in DOMAIN RawOuts :
              r.tx.vout[i] = [dest |-> RawOuts[i].key, amount |-> RawOuts[i].amount]
        /\ IsInjective([i \in DOMAIN r.tx.vout |-> r.tx.vout[i].dest])
        /\ r.tx.nLockTime = RawLockTime

\* the call with every "sequence" key removed
WithoutSequences(p) ==
    [p EXCEPT ![1].arr = [i \in DOMAIN p[1].arr |-> [p[1].arr[i] EXCEPT !.sequence = None]]]

(* createrawtransaction takes a "sequence" (help: "(numeric, optional)   *)
(* The sequence number") as the uint32 nSequence it sets: a call it       *)
(* accepts has each given sequence in 0..2^32-1 as the input's           *)
(* nSequence, and a call it would accept without its sequences it also   *)
(* accepts with sequences in that range.                                  *)
SequenceAsRequested ==
    LET r == Raw!createrawtransaction(raw.overwinter, raw.params)
        given == {i \in DOMAIN RawIns : RawIns[i].sequence # None}
    IN /\ r.err = "none" =>
            \A i \in given : RawIns[i].sequence \in 0..Raw!UInt32Max
                             /\ r.tx.vin[i].nSequence = RawIns[i].sequence
       /\ (/\ raw.params # <<>> /\ raw.params[1].t = "arr"
           /\ \A i \in given : RawIns[i].sequence \in 0..Raw!UInt32Max
           /\ Raw!createrawtransaction(raw.overwinter, WithoutSequences(raw.params)).err = "none")
            => r.err = "none"

(* createmultisig never aborts the node and returns only redeem scripts a *)
(* P2SH spend can push: no input reaches GetScriptForMultisig's assertion *)
(* on OP_n (the 16-key check runs before it), a returned script is within *)
(* MAX_SCRIPT_ELEMENT_SIZE (checked after it), and every m-of-n of up to  *)
(* 15 compressed keys the node can resolve is accepted.                   *)
MultisigRedeemable ==
    LET r == Msig!createmultisig(msig.params, msig.walletOn)
        m == msig.params[1]
        ks == msig.params[2]
    IN /\ r.err # "assert"
       /\ r.err = "none" => r.size <= 520
       /\ (/\ Len(msig.params) = 2 /\ 1 <= m /\ m <= Len(ks) /\ Len(ks) <= 15
           /\ \A i \in DOMAIN ks : ks[i].len = 33 /\ Msig!KeyError(ks[i], msig.walletOn) = "none")
            => r.err = "none"

=============================================================================
