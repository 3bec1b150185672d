------------------------------ MODULE Multisig ------------------------------
(***************************************************************************)
(* The createmultisig RPC and _createmultisig_redeemScript (txmempool.cpp, *)
(* from rpc/misc): the checks on nrequired and the keys, the redeem       *)
(* script, and the P2SH address of it.                                    *)
(*                                                                         *)
(* A key string is a record [kind, len]: kind "addrKey" is a P2PKH         *)
(* address whose full public key the wallet holds, "addrNoPub" one whose  *)
(* key it lacks, "addrScript" a P2SH address, "hex" the hex of a valid    *)
(* public key, "badHex" hex that is no valid public key, "text" neither   *)
(* an address nor hex; len is the size of the public key (33 compressed,  *)
(* 65 uncompressed).  walletOn is ENABLE_WALLET with pwalletMain set.     *)
(* params is <<nrequired, keys>>; nrequired is read by get_int, whose     *)
(* int32 range the small numbers used never leave.                        *)
(***************************************************************************)
EXTENDS Integers, Sequences, SequencesExt

CONSTANT MaxScriptElementSize   \* MAX_SCRIPT_ELEMENT_SIZE (520)

\* The error the loop body throws for one key, or "none".  Without a
\* wallet an address is not hex, so it is an invalid public key.
KeyError(k, walletOn) ==
    CASE walletOn /\ k.kind = "addrScript" -> "does not refer to a key"
      [] walletOn /\ k.kind = "addrNoPub" -> "no full public key for address"
      [] walletOn /\ k.kind = "addrKey" -> "none"
      [] k.kind = "hex" -> "none"
      [] OTHER -> "Invalid public key"

\* GetScriptForMultisig (script/standard.cpp): OP_m, a push of each key,
\* OP_n, OP_CHECKMULTISIG.  Its EncodeOP_N asserts 0 <= n <= 16.
EncodeOpNOk(n) == n \in 0..16

\* CScript::size() of the multisig script
ScriptSize(keys) == 3 + FoldLeft(LAMBDA s, k : s + 1 + k.len, 0, keys)

\* Mutant of _createmultisig_redeemScript: the 16-key limit is missing.
RedeemScriptNoKeyLimit(params, walletOn) ==
    LET nRequired == params[1]
        keys == params[2]
        errs == {i \in DOMAIN keys : KeyError(keys[i], walletOn) # "none"} IN
    CASE nRequired < 1 -> [err |-> "a multisignature address must require at least one key"]
      [] Len(keys) < nRequired -> [err |-> "not enough keys supplied"]
      [] errs # {} -> [err |-> KeyError(keys[Min(errs)], walletOn)]
      [] ~EncodeOpNOk(nRequired) \/ ~EncodeOpNOk(Len(keys)) -> [err |-> "assert"]
      [] ScriptSize(keys) > MaxScriptElementSize -> [err |-> "redeemScript exceeds size limit"]
      [] OTHER -> [err |-> "none", m |-> nRequired, keys |-> keys, size |-> ScriptSize(keys)]

(* _createmultisig_redeemScript(params): [err, m, keys, size].  The checks run in *)
(* the code's order: nrequired, the key count against it and against 16, *)
(* each key in turn, then GetScriptForMultisig, whose assertion failing   *)
(* aborts the node ("assert"), then the size of the script.               *)
RedeemScript(params, walletOn) ==
    LET nRequired == params[1]
        keys == params[2]
        errs == {i \in DOMAIN keys : KeyError(keys[i], walletOn) # "none"} IN
    CASE nRequired < 1 -> [err |-> "a multisignature address must require at least one key"]
      [] Len(keys) < nRequired -> [err |-> "not enough keys supplied"]
      [] Len(keys) > 16 -> [err |-> "Number of addresses involved in the multisignature address creation > 16"]
      [] errs # {} -> [err |-> KeyError(keys[Min(errs)], walletOn)]
      [] ~EncodeOpNOk(nRequired) \/ ~EncodeOpNOk(Len(keys)) -> [err |-> "assert"]
      [] ScriptSize(keys) > MaxScriptElementSize -> [err |-> "redeemScript exceeds size limit"]
      [] OTHER -> [err |-> "none", m |-> nRequired, keys |-> keys, size |-> ScriptSize(keys)]

\* createmultisig: the redeem script and its P2SH address (CScriptID)
createmultisig(params, walletOn) ==
    IF Len(params) # 2 THEN [err |-> "help"]
    ELSE LET r == RedeemScript(params, walletOn) IN
         IF r.err # "none" THEN r
         ELSE r @@ [address |-> <<"p2sh", r.m, r.keys>>]

=============================================================================
