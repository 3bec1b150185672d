------------------------------ MODULE Signing ------------------------------
(***************************************************************************)
(* Signing a transaction input and merging partial signatures: SignStep,  *)
(* SignN, Sign1 and ProduceSignature, CombineSignatures and               *)
(* CombineMultisig of script/sign.cpp (src/unnamed/part_000), and the     *)
(* per-input loop of the signrawtransaction RPC (rpc/rawtransaction.cpp). *)
(*                                                                         *)
(* A script is named; ScriptOf gives what Solver finds in it: its type,   *)
(* its keys (the pubkey, the key hash's key, or the multisig keys in      *)
(* order), the multisig count m, and for pay-to-script-hash the name of   *)
(* the redeem script.  A stack element (valtype) is a tuple:              *)
(*   <<>>                   an empty push (OP_0, a placeholder),          *)
(*   <<"sig", k, v>>         a signature by key k over message v,           *)
(*   <<"pub", k>>            the push of public key k,                     *)
(*   <<"script", s>>         the push of serialized script s.              *)
(* A signature checks only for its own key and only against the message  *)
(* cur the checker computes (SignatureHash of the transaction being      *)
(* signed, which commits to the amount of the spent output).  PushAll *)
(* and Stacks (EvalScript of a push-only scriptSig) are inverse on these   *)
(* pushes, so a scriptSig is represented by its stack.                     *)
(***************************************************************************)
EXTENDS Integers, Sequences, SequencesExt

CONSTANTS
    Keys,       \* public keys, with the private keys a keystore may hold
    ScriptOf    \* script name -> [type, keys, m, redeem]

Empty == <<>>
Sig(k, v) == <<"sig", k, v>>

\* BaseSignatureChecker::CheckSig through TransactionSignatureChecker
CheckSig(sig, pubkey, cur) == sig = Sig(pubkey, cur)

\* A keystore ks is a record: its private keys and its redeem scripts
\* (CBasicKeyStore GetKey, GetCScript).  v is the version of the transaction
\* a signature is made over.
MinOf(a, b) == IF a < b THEN a ELSE b

-----------------------------------------------------------------------------
(* Producing a signature.                                                  *)

\* TransactionSignatureCreator::CreateSig / Sign1: a signature when the
\* keystore has the key
Sign1(k, ks, v) == IF k \in ks.keys THEN <<Sig(k, v)>> ELSE <<>>

\* SignN: the first nRequired keys, in script order, that the keystore holds
SignN(keys, m, ks, v) ==
    LET held == SelectSeq(keys, LAMBDA k : k \in ks.keys)
        n == MinOf(m, Len(held))
    IN [ok |-> n = m, sigs |-> [i \in 1..n |-> Sig(held[i], v)]]

\* SignStep: whether it solved the script, and the stack ret it built
SignStep(ks, v, spk) ==
    LET s == ScriptOf[spk] IN
    CASE s.type = "pubkey" ->
            [ok |-> s.keys[1] \in ks.keys, ret |-> Sign1(s.keys[1], ks, v)]
      [] s.type = "pubkeyhash" ->
            IF s.keys[1] \in ks.keys
            THEN [ok |-> TRUE, ret |-> Sign1(s.keys[1], ks, v) \o <<<<"pub", s.keys[1]>>>>]
            ELSE [ok |-> FALSE, ret |-> <<>>]
      [] s.type = "scripthash" ->
            IF s.redeem \in ks.scripts
            THEN [ok |-> TRUE, ret |-> <<<<"script", s.redeem>>>>]
            ELSE [ok |-> FALSE, ret |-> <<>>]
      [] s.type = "multisig" ->
            LET r == SignN(s.keys, s.m, ks, v) IN
            [ok |-> r.ok, ret |-> <<Empty>> \o r.sigs]
      [] OTHER -> [ok |-> FALSE, ret |-> <<>>]

(* ProduceSignature: the scriptSig.  For pay-to-script-hash, the inner    *)
(* step's stack (SignStep clears ret first) then the redeem script.  The  *)
(* verdict it returns is unused by signrawtransaction.                   *)
ProduceSignature(ks, v, fromPubKey) ==
    LET r1 == SignStep(ks, v, fromPubKey) IN
    IF r1.ok /\ ScriptOf[fromPubKey].type = "scripthash"
    THEN LET sub == ScriptOf[fromPubKey].redeem
         IN SignStep(ks, v, sub).ret \o <<<<"script", sub>>>>
    ELSE r1.ret

-----------------------------------------------------------------------------
(* Merging.                                                                *)

\* Mutant of CombineMultisig: any non-empty element counts as a signature
\* of the first key still missing one.
CombineMultisigNoCheck(keys, m, sigs1, sigs2, cur) ==
    LET allsigs == {x \in Range(sigs1) \cup Range(sigs2) : x # Empty}
        have == SubSeq(SetToSeq(allsigs), 1, MinOf(m, Cardinality(allsigs)))
    IN <<Empty>> \o have \o [i \in 1..(m - Len(have)) |-> Empty]

(* CombineMultisig: every non-empty element of either stack is matched to *)
(* a key of the script it checks against; the merged stack is the dummy,  *)
(* the signatures in key order up to nSigsRequired, then OP_0 for each    *)
(* one missing.  A signature checks for one key only, so the order in     *)
(* which the set allsigs is visited does not change the map.              *)
CombineMultisig(keys, m, sigs1, sigs2, cur) ==
    LET allsigs == {x \in Range(sigs1) \cup Range(sigs2) : x # Empty}
        signed == {k \in Range(keys) : \E x \in allsigs : CheckSig(x, k, cur)}
        inOrder == SelectSeq(keys, LAMBDA k : k \in signed)
        have == [i \in 1..MinOf(m, Len(inOrder)) |-> Sig(inOrder[i], cur)]
    IN <<Empty>> \o have \o [i \in 1..(m - Len(have)) |-> Empty]

\* Solver on the script pushed last, as CombineSignatures reads it
SolverOfPush(x) ==
    IF Len(x) = 2 /\ x[1] = "script" THEN ScriptOf[x[2]]
    ELSE [type |-> "nonstandard", keys |-> <<>>, m |-> 0, redeem |-> "none"]

\* Mutant of CombineStacks: two pay-to-script-hash stacks are not merged
\* recursively; the first is kept.
CombineStacksNoRecurse(s, sigs1, sigs2, cur) ==
    CASE s.type \in {"nonstandard", "nulldata"} ->
            IF Len(sigs1) >= Len(sigs2) THEN sigs1 ELSE sigs2
      [] s.type \in {"pubkey", "pubkeyhash", "cryptocondition"} ->
            IF sigs1 = <<>> \/ sigs1[1] = Empty THEN sigs2 ELSE sigs1
      [] s.type = "scripthash" ->
            IF sigs1 = <<>> \/ Last(sigs1) = Empty THEN sigs2 ELSE sigs1
      [] s.type = "multisig" -> CombineMultisig(s.keys, s.m, sigs1, sigs2, cur)
      [] OTHER -> <<>>

(* CombineSignatures on stacks: by the script's type, keep the bigger      *)
(* stack, the first with a signature, recurse into the redeem script of   *)
(* the first stack (dropping the second's), or merge multisig signatures. *)
RECURSIVE CombineStacks(_, _, _, _)
CombineStacks(s, sigs1, sigs2, cur) ==
    CASE s.type \in {"nonstandard", "nulldata"} ->
            IF Len(sigs1) >= Len(sigs2) THEN sigs1 ELSE sigs2
      [] s.type \in {"pubkey", "pubkeyhash", "cryptocondition"} ->
            IF sigs1 = <<>> \/ sigs1[1] = Empty THEN sigs2 ELSE sigs1
      [] s.type = "scripthash" ->
            IF sigs1 = <<>> \/ Last(sigs1) = Empty THEN sigs2
            ELSE IF sigs2 = <<>> \/ Last(sigs2) = Empty THEN sigs1
            ELSE CombineStacks(SolverOfPush(Last(sigs1)), Front(sigs1), Front(sigs2), cur)
                   \o <<Last(sigs1)>>
      [] s.type = "multisig" -> CombineMultisig(s.keys, s.m, sigs1, sigs2, cur)
      [] OTHER -> <<>>

\* CombineSignatures(scriptPubKey, checker, scriptSig1, scriptSig2)
CombineSignatures(spk, cur, sig1, sig2) == CombineStacks(ScriptOf[spk], sig1, sig2, cur)

-----------------------------------------------------------------------------
(* VerifyScript (script/interpreter.cpp, not among the sources) for these  *)
(* script types: the scriptSig's stack run against the scriptPubKey, the   *)
(* redeem script evaluated on the rest of the stack for pay-to-script-hash.*)
(* OP_CHECKMULTISIG walks keys and signatures in step, a key whose         *)
(* signature does not check being skipped.                                 *)
RECURSIVE CheckMultisig(_, _, _)
CheckMultisig(sigs, keys, cur) ==
    IF sigs = <<>> THEN TRUE
    ELSE IF Len(sigs) > Len(keys) THEN FALSE
    ELSE IF CheckSig(Head(sigs), Head(keys), cur) THEN CheckMultisig(Tail(sigs), Tail(keys), cur)
    ELSE CheckMultisig(sigs, Tail(keys), cur)

RECURSIVE Verify(_, _, _)
Verify(stack, s, cur) ==
    CASE s.type = "pubkey" -> Len(stack) = 1 /\ CheckSig(stack[1], s.keys[1], cur)
      [] s.type = "pubkeyhash" ->
            Len(stack) = 2 /\ CheckSig(stack[1], s.keys[1], cur) /\ stack[2] = <<"pub", s.keys[1]>>
      [] s.type = "multisig" -> Len(stack) = s.m + 1 /\ CheckMultisig(Tail(stack), s.keys, cur)
      [] s.type = "scripthash" ->
            stack # <<>> /\ Last(stack) = <<"script", s.redeem>>
            /\ Verify(Front(stack), ScriptOf[s.redeem], cur)
      [] OTHER -> FALSE

VerifyScript(scriptSig, spk, cur) == Verify(scriptSig, ScriptOf[spk], cur)

-----------------------------------------------------------------------------
(* signrawtransaction, the loop over mergedTx.vin for one input whose     *)
(* previous output pays prevPubKey ("missing" when view.AccessCoins finds *)
(* no available coin).  The keystore signs unless SIGHASH_SINGLE has no   *)
(* output for the input (signIt false), over mergedTx, the current        *)
(* version, cur; then the input's scriptSig of every variant, txVariants[0]    *)
(* (mergedTx itself) included, is merged in, in order.  The result is the *)
(* scriptSig written back by UpdateTransaction and whether the input adds  *)
(* to vErrors; fComplete is true when no input does.                      *)
RECURSIVE MergeVariants(_, _, _, _)
MergeVariants(spk, cur, sigdata, variants) ==
    IF variants = <<>> THEN sigdata
    ELSE MergeVariants(spk, cur, CombineSignatures(spk, cur, sigdata, Head(variants)), Tail(variants))

SignRawInput(ks, prevPubKey, signIt, variants, cur) ==
    IF prevPubKey = "missing"
    THEN [scriptSig |-> variants[1], error |-> TRUE]
    ELSE LET sigdata == MergeVariants(prevPubKey, cur,
                          IF signIt THEN ProduceSignature(ks, cur, prevPubKey) ELSE <<>>,
                          variants)
         IN [scriptSig |-> sigdata, error |-> ~VerifyScript(sigdata, prevPubKey, cur)]

-----------------------------------------------------------------------------
(* The whole signrawtransaction handler.  The node's inputs: view, the     *)
(* coins CCoinsViewMemPool finds (an outpoint <<txid, n>> to [spk,        *)
(* amount]), and wallet [on, locked, ks] (pwalletMain).  The call: tx, the *)
(* transaction's inputs (outpoints) and output count; p.hex, whether the  *)
(* hex decodes and the variants it holds, each the scriptSig of every     *)
(* input; p.prevtxs and p.keys, each given (not null) or not, and a list; *)
(* p.sighash, "ALL" when null.  A prevtx is [obj, txid, vout, spk, redeem, *)
(* hasAmount, amount]; a private key is a key of Keys or "invalid".  The   *)
(* message a signature over input i commits to is <<"cur", amount>>, the   *)
(* amount the view holds for the spent output.                            *)

SigHashTypes == {"ALL", "ALL|ANYONECANPAY", "NONE", "NONE|ANYONECANPAY",
                 "SINGLE", "SINGLE|ANYONECANPAY"}

\* the prevtxs loop: each entry checked against the view as updated so far;
\* RPCTypeCheckObj (rpcserver.cpp) throws "Missing redeemScript" for a P2SH
\* entry without one when keys are given
\* Mutant of AddPrevTx: the scriptPubKey mismatch check is missing.
AddPrevTxNoMismatch(acc, pt, fGivenKeys) ==
    LET op == <<pt.txid, pt.vout>> IN
    CASE acc.err # "none" -> acc
      [] ~pt.obj -> [acc EXCEPT !.err = "expected object with {\"txid'\",\"vout\",\"scriptPubKey\"}"]
      [] pt.vout < 0 -> [acc EXCEPT !.err = "vout must be positive"]
      [] fGivenKeys /\ ScriptOf[pt.spk].type = "scripthash" /\ pt.redeem = "none"
            -> [acc EXCEPT !.err = "Missing redeemScript"]
      [] OTHER ->
            [acc EXCEPT !.view = (op :> [spk |-> pt.spk, amount |-> IF pt.hasAmount THEN pt.amount ELSE 0])
                                 @@ acc.view,
                        !.scripts = IF fGivenKeys /\ ScriptOf[pt.spk].type = "scripthash"
                                    THEN acc.scripts \cup {pt.redeem} ELSE acc.scripts]

AddPrevTx(acc, pt, fGivenKeys) ==
    LET op == <<pt.txid, pt.vout>> IN
    CASE acc.err # "none" -> acc
      [] ~pt.obj -> [acc EXCEPT !.err = "expected object with {\"txid'\",\"vout\",\"scriptPubKey\"}"]
      [] pt.vout < 0 -> [acc EXCEPT !.err = "vout must be positive"]
      [] op \in DOMAIN acc.view /\ acc.view[op].spk # pt.spk
            -> [acc EXCEPT !.err = "Previous output scriptPubKey mismatch"]
      [] fGivenKeys /\ ScriptOf[pt.spk].type = "scripthash" /\ pt.redeem = "none"
            -> [acc EXCEPT !.err = "Missing redeemScript"]
      [] OTHER ->
            [acc EXCEPT !.view = (op :> [spk |-> pt.spk, amount |-> IF pt.hasAmount THEN pt.amount ELSE 0])
                                 @@ acc.view,
                        !.scripts = IF fGivenKeys /\ ScriptOf[pt.spk].type = "scripthash"
                                    THEN acc.scripts \cup {pt.redeem} ELSE acc.scripts]

\* Mutant of Keystore: a loaded wallet is used even when keys are given.
KeystoreWalletFirst(fGivenKeys, keys, scripts, wallet) ==
    IF wallet.on THEN wallet.ks
    ELSE [keys |-> IF fGivenKeys THEN Range(keys) ELSE {}, scripts |-> scripts]

\* the keystore that signs: tempKeystore (the given keys and redeem
\* scripts) when keys are given or no wallet is loaded, else the wallet
Keystore(fGivenKeys, keys, scripts, wallet) ==
    IF fGivenKeys \/ ~wallet.on
    THEN [keys |-> IF fGivenKeys THEN Range(keys) ELSE {}, scripts |-> scripts]
    ELSE wallet.ks

\* the loop over mergedTx.vin: each input signed, merged and verified
SignInputs(tx, variants, view, ks, fHashSingle) ==
    [i \in DOMAIN tx.vin |->
        LET op == tx.vin[i] IN
        IF op \notin DOMAIN view
        THEN [scriptSig |-> variants[1][i], error |-> TRUE]
        ELSE SignRawInput(ks, view[op].spk, ~fHashSingle \/ i <= tx.nvout,
                          [j \in DOMAIN variants |-> variants[j][i]],
                          <<"cur", view[op].amount>>)]

(* signrawtransaction: [err, scriptSigs, complete].  The checks run in the *)
(* code's order: decoding, the private keys, the wallet lock, the prevtxs *)
(* in turn, the sighash type; then every input is signed with the given   *)
(* keys (and the given redeem scripts), or with the wallet when no keys   *)
(* are given and a wallet is loaded.                                      *)
signrawtransaction(tx, p, view, wallet) ==
    LET fGivenKeys == p.keys.given
        \* the coins of the input transactions, fetched into the cache
        cached == [op \in {o \in DOMAIN view : \E i \in DOMAIN tx.vin : tx.vin[i][1] = o[1]} |-> view[op]]
        prev == FoldLeft(LAMBDA acc, pt : AddPrevTx(acc, pt, fGivenKeys),
                         [err |-> "none", view |-> cached, scripts |-> {}],
                         IF p.prevtxs.given THEN p.prevtxs.list ELSE <<>>)
        ks == Keystore(fGivenKeys, p.keys.list, prev.scripts, wallet)
        err ==
          CASE ~p.hex.ok -> "TX decode failed"
            [] p.hex.variants = <<>> -> "Missing transaction"
            [] fGivenKeys /\ "invalid" \in Range(p.keys.list) -> "Invalid private key"
            [] ~fGivenKeys /\ wallet.on /\ wallet.locked
                  -> "Error: Please enter the wallet passphrase with walletpassphrase first."
            [] prev.err # "none" -> prev.err
            [] p.sighash \notin SigHashTypes -> "Invalid sighash param"
            [] OTHER -> "none"
        signed == SignInputs(tx, p.hex.variants, prev.view, ks,
                             p.sighash \in {"SINGLE", "SINGLE|ANYONECANPAY"})
    IN IF err # "none" THEN [err |-> err]
       ELSE [err |-> "none",
             scriptSigs |-> [i \in DOMAIN signed |-> signed[i].scriptSig],
             complete |-> \A i \in DOMAIN signed : ~signed[i].error]

=============================================================================
