--------------------------- MODULE RawTransaction ---------------------------
(***************************************************************************)
(* The createrawtransaction RPC (rpc/rawtransaction.cpp): the checks of   *)
(* its params and the unsigned transaction it builds.                     *)
(*                                                                         *)
(* params is a sequence of JSON values, each a record [t, arr, obj, num]  *)
(* with t its type; only the field of its type is read.  An element of   *)
(* the inputs array is [txid, vout, sequence]: txid a hash or BadHex      *)
(* (not 64 hex digits), vout and sequence a number or None (a key that is *)
(* absent or not a number).  The addresses object is a sequence of        *)
(* [key, amount], in the order of its keys, a key repeated if the JSON    *)
(* text repeats it; a key is an address of Addrs or an invalid string.    *)
(*                                                                         *)
(* Integers keep their widths scaled to W bits for uint32 and int32 (and  *)
(* 2W bits for int64): get_int throws outside int32, the cast to uint32_t *)
(* is modulo 2^W.                                                          *)
(***************************************************************************)
EXTENDS Integers, Sequences

CONSTANTS
    W,                  \* bits of uint32_t, scaled
    Addrs,              \* strings DecodeDestination accepts
    BadHex,             \* a txid string ParseHashO rejects
    None,               \* an absent or non-numeric key
    TipHeight,          \* chainActive.Height()
    DefaultExpiry,      \* nExpiryHeight CreateNewContextualCMutableTransaction sets
    ExpiryThreshold,    \* TX_EXPIRY_HEIGHT_THRESHOLD, scaled
    ExpiringSoon        \* TX_EXPIRING_SOON_THRESHOLD

UInt32Max == 2^W - 1
Int32Range == -(2^(W - 1))..(2^(W - 1) - 1)
Int64Range == -(2^(2 * W - 1))..(2^(2 * W - 1) - 1)

\* UniValue::get_int and get_int64: the number, or "out of range" thrown
GetIntOk(x) == x \in Int32Range
GetInt64Ok(x) == x \in Int64Range

\* the (uint32_t) conversion of an int
ToUInt32(x) == x % 2^W

\* RPCTypeCheck(params, {VARR, VOBJ, VNUM, VNUM}, true): a param present
\* must have its type unless it is null
Expected == <<"arr", "obj", "num", "num">>

TypeCheckOk(params) ==
    \A i \in DOMAIN params : i <= 4 => params[i].t \in {Expected[i], "null"}

Present(params, i) == Len(params) >= i /\ params[i].t # "null"

-----------------------------------------------------------------------------
\* the error of one input object, or "none"
InputError(in) ==
    CASE in.txid = BadHex -> "txid must be hexadecimal string"
      [] in.vout = None -> "Invalid parameter, missing vout key"
      [] ~GetIntOk(in.vout) -> "JSON integer out of range"
      [] in.vout < 0 -> "Invalid parameter, vout must be positive"
      [] in.sequence # None /\ ~GetIntOk(in.sequence) -> "JSON integer out of range"
      [] OTHER -> "none"

\* the CTxIn an input object gives, under the transaction's nLockTime
\* Mutant of TxIn: the default sequence ignores the lock time.
TxInIgnoringLockTime(in, lockTime) ==
    [txid |-> in.txid, n |-> in.vout,
     nSequence |-> IF in.sequence # None THEN ToUInt32(in.sequence) ELSE UInt32Max]

TxIn(in, lockTime) ==
    [txid |-> in.txid, n |-> in.vout,
     nSequence |-> IF in.sequence # None THEN ToUInt32(in.sequence)
                   ELSE IF lockTime # 0 THEN UInt32Max - 1 ELSE UInt32Max]

\* Mutant of OutputError: the std::set of destinations is not consulted.
OutputErrorNoDuplicateCheck(sendTo, i) ==
    IF sendTo[i].key \notin Addrs THEN "Invalid Komodo address" ELSE "none"

\* the error of the i-th key of the addresses object, or "none"
OutputError(sendTo, i) ==
    CASE sendTo[i].key \notin Addrs -> "Invalid Komodo address"
      [] \E j \in 1..(i - 1) : sendTo[j].key = sendTo[i].key
            -> "Invalid parameter, duplicated address"
      [] OTHER -> "none"

\* sendTo[name_]: the value of the first pair with that key
ValueOfKey(sendTo, k) ==
    sendTo[CHOOSE i \in DOMAIN sendTo : sendTo[i].key = k /\ \A j \in 1..(i - 1) : sendTo[j].key # k].amount

\* the first error of a sequence of checks, or "none"
FirstError(errs) ==
    LET bad == {i \in DOMAIN errs : errs[i] # "none"} IN
    IF bad = {} THEN "none" ELSE errs[CHOOSE i \in bad : \A j \in bad : i <= j]

-----------------------------------------------------------------------------
LockTimeOf(params) == IF Present(params, 3) THEN params[3].num ELSE 0

\* the locktime check: an int64 within uint32_t
LockTimeError(params) ==
    LET x == LockTimeOf(params) IN
    CASE ~Present(params, 3) -> "none"
      [] ~GetInt64Ok(x) -> "JSON integer out of range"
      [] x < 0 \/ x > UInt32Max -> "Invalid parameter, locktime out of range"
      [] OTHER -> "none"

\* the expiry height check, made only when the param is given
ExpiryError(overwinter, params) ==
    LET x == params[4].num IN
    CASE ~Present(params, 4) -> "none"
      [] ~overwinter -> "Invalid parameter, expiryheight can only be used if Overwinter is active"
      [] ~GetInt64Ok(x) -> "JSON integer out of range"
      [] x < 0 \/ x >= ExpiryThreshold -> "Invalid parameter, expiryheight must be nonnegative and less than threshold"
      [] TipHeight + 1 + ExpiringSoon > x -> "Invalid parameter, expiryheight should be at least next height plus soon"
      [] OTHER -> "none"

(* createrawtransaction(params): [err, tx], err the message thrown or     *)
(* "none".  The checks run in the code's order and the first that fails  *)
(* throws: params count, types, nulls, locktime, expiry height, each      *)
(* input, then each output.                                               *)
createrawtransaction(overwinter, params) ==
    LET inputs == params[1].arr
        sendTo == params[2].obj
        lockTime == LockTimeOf(params)
        err ==
          IF Len(params) < 2 \/ Len(params) > 4 THEN "help"
          ELSE IF ~TypeCheckOk(params) THEN "Expected type"
          ELSE IF params[1].t = "null" \/ params[2].t = "null"
          THEN "Invalid parameter, arguments 1 and 2 must be non-null"
          ELSE FirstError(<<LockTimeError(params),
                            ExpiryError(overwinter, params),
                            FirstError([i \in DOMAIN inputs |-> InputError(inputs[i])]),
                            FirstError([i \in DOMAIN sendTo |-> OutputError(sendTo, i)])>>)
    IN [err |-> err,
        tx |-> IF err # "none" THEN <<>>
               ELSE [vin |-> [i \in DOMAIN inputs |-> TxIn(inputs[i], lockTime)],
                     vout |-> [i \in DOMAIN sendTo |->
                                 [dest |-> sendTo[i].key,
                                  amount |-> ValueOfKey(sendTo, sendTo[i].key)]],
                     nLockTime |-> lockTime,
                     nExpiryHeight |-> CASE ~overwinter -> 0
                                         [] Present(params, 4) -> params[4].num
                                         [] OTHER -> DefaultExpiry]]

=============================================================================
