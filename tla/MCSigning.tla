----------------------------- MODULE MCSigning -----------------------------
(***************************************************************************)
(* Two universes of signrawtransaction calls, both extended into MCRpc.    *)
(* The one-input universe: every previous output script of a small set,   *)
(* every keystore of the signing node, and every list of one or two       *)
(* transaction variants whose scriptSig for the input was made by another *)
(* signer (any keys, the redeem script or not, over the current           *)
(* transaction or an older version of it) or left empty.  The whole-      *)
(* handler universe (sraw): a transaction of up to two inputs, the        *)
(* prevtxs, keys and sighash parameters, and the wallet (off, locked or   *)
(* unlocked), run against the node's coin view.  Each choice is an        *)
(* initial state and no step changes it.                                  *)
(***************************************************************************)
EXTENDS Signing, FiniteSets

CONSTANTS K1, K2, K3

VARIABLES
    prevPubKey,   \* the script of the spent output, or "missing"
    own,          \* the node's keystore
    signIt,       \* FALSE when SIGHASH_SINGLE has no output for the input
    variants,     \* txVariants: who made each one's scriptSig for the input
    sraw          \* a whole signrawtransaction call: [tx, p, wallet]

signingVars == <<prevPubKey, own, signIt, variants, sraw>>

MCKeys == {K1, K2, K3}

Rec(type, keys, m, redeem) == [type |-> type, keys |-> keys, m |-> m, redeem |-> redeem]

MCScriptOf ==
    ("p2pk" :> Rec("pubkey", <<K1>>, 0, "none"))
    @@ ("p2pkh" :> Rec("pubkeyhash", <<K2>>, 0, "none"))
    @@ ("ms" :> Rec("multisig", <<K1, K2, K3>>, 2, "none"))
    @@ ("msdup" :> Rec("multisig", <<K1, K1, K2>>, 2, "none"))
    @@ ("shms" :> Rec("scripthash", <<>>, 0, "ms"))
    @@ ("shpkh" :> Rec("scripthash", <<>>, 0, "p2pkh"))
    @@ ("nonstd" :> Rec("nonstandard", <<>>, 0, "none"))

Spks == DOMAIN ScriptOf \cup {"missing"}

\* the redeem scripts a keystore may hold for script s: none, or its own
RedeemChoices(s) ==
    IF s # "missing" /\ ScriptOf[s].type = "scripthash"
    THEN {{}, {ScriptOf[s].redeem}} ELSE {{}}

Keystores(s) == [keys : SUBSET Keys, scripts : RedeemChoices(s)]

Unsigned == [signed |-> FALSE, ks |-> [keys |-> {}, scripts |-> {}], v |-> "cur"]

Signers(s) == {Unsigned} \cup
              {[signed |-> TRUE, ks |-> k, v |-> v] : k \in Keystores(s), v \in {"cur", "old"}}

OneInput ==
    /\ prevPubKey \in Spks
    /\ own \in Keystores(prevPubKey)
    /\ signIt \in BOOLEAN
    /\ variants \in UNION {[1..n -> Signers(prevPubKey)] : n \in 1..2}

(* The whole handler.  The node's view holds both outputs of "ta": a     *)
(* P2PKH coin of 5 paying K2 and a 2-of-3 multisig coin of 4; "tb" is     *)
(* unknown to it and really pays 3 to the P2SH of the multisig.  The      *)
(* wallet is absent, unlocked with K1, K2 and the redeem script, or       *)
(* locked.  Co-signers sign the real coins with K1 or K3.                 *)
NodeView ==
    (<<"ta", 0>> :> [spk |-> "p2pkh", amount |-> 5])
    @@ (<<"ta", 1>> :> [spk |-> "ms", amount |-> 4])

RealCoin == NodeView @@ (<<"tb", 0>> :> [spk |-> "shms", amount |-> 3])

Wallets ==
    {[on |-> FALSE, locked |-> FALSE, ks |-> [keys |-> {}, scripts |-> {}]]}
    \cup {[on |-> TRUE, locked |-> l, ks |-> [keys |-> {K1, K2}, scripts |-> {"ms"}]] : l \in BOOLEAN}

PT(tx, n, spk, redeem, hasAmount, amount, obj) ==
    [obj |-> obj, txid |-> tx, vout |-> n, spk |-> spk, redeem |-> redeem,
     hasAmount |-> hasAmount, amount |-> amount]

\* prevtxs entries: right and wrong scripts, amounts given or omitted, a
\* redeem script given or not, a negative vout, a non-object
PrevTxChoices ==
    {PT("ta", 0, "p2pkh", "none", FALSE, 0, TRUE), PT("ta", 0, "p2pkh", "none", TRUE, 5, TRUE),
     PT("ta", 0, "p2pk", "none", TRUE, 5, TRUE),
     PT("tb", 0, "shms", "ms", TRUE, 3, TRUE), PT("tb", 0, "shms", "ms", FALSE, 0, TRUE),
     PT("tb", 0, "shms", "none", TRUE, 3, TRUE), PT("tb", -1, "shms", "ms", TRUE, 3, TRUE),
     PT("tb", 0, "shms", "ms", TRUE, 3, FALSE)}

Given(l) == [given |-> TRUE, list |-> l]
NotGiven == [given |-> FALSE, list |-> <<>>]

KeyChoices == {NotGiven, Given(<<>>), Given(<<K2>>), Given(<<K1, K3>>), Given(<<K1, "invalid">>)}

\* the scriptSig a co-signer holding keys k gives the i-th input of tx
CoSig(tx, i, k) ==
    IF k = {} THEN <<>>
    ELSE LET c == RealCoin[tx.vin[i]] IN
         ProduceSignature([keys |-> k, scripts |-> {"ms"}], <<"cur", c.amount>>, c.spk)

Variants(tx, n) ==
    UNION {{[j \in 1..m |-> [i \in DOMAIN tx.vin |-> CoSig(tx, i, f[j][i])]]
              : f \in [1..m -> [DOMAIN tx.vin -> {{}, {K1}, {K3}}]]} : m \in 1..n}

UnsignedHex(tx) == [ok |-> TRUE, variants |-> <<[i \in DOMAIN tx.vin |-> <<>>]>>]

Txs == {[vin |-> v, nvout |-> 1] :
          v \in {<<<<"ta", 0>>>>, <<<<"ta", 1>>, <<"tb", 0>>>>, <<<<"ta", 0>>, <<"tb", 0>>>>}}

TwoIn == <<<<"ta", 1>>, <<"tb", 0>>>>

\* one universe varies the prevtxs, keys and wallet; the other the
\* variants, the sighash type and the output count
RawCalls ==
    {[tx |-> tx, wallet |-> w,
      p |-> [hex |-> UnsignedHex(tx), prevtxs |-> pt, keys |-> k, sighash |-> "ALL"]] :
        tx \in Txs, w \in Wallets, k \in KeyChoices,
        pt \in {NotGiven} \cup {Given(l) : l \in UNION {[1..n -> PrevTxChoices] : n \in 0..2}}}
    \cup
    {[tx |-> [vin |-> TwoIn, nvout |-> no], wallet |-> w,
      p |-> [hex |-> h, prevtxs |-> pt, keys |-> k, sighash |-> sh]] :
        no \in {1, 2}, w \in Wallets,
        h \in {[ok |-> FALSE, variants |-> <<>>], [ok |-> TRUE, variants |-> <<>>]}
              \cup {[ok |-> TRUE, variants |-> vs] : vs \in Variants([vin |-> TwoIn], 2)},
        pt \in {NotGiven, Given(<<PT("tb", 0, "shms", "ms", TRUE, 3, TRUE)>>)},
        k \in {NotGiven, Given(<<K1>>)}, sh \in {"ALL", "SINGLE", "bogus"}}

WholeCall == sraw \in RawCalls

-----------------------------------------------------------------------------
\* the scriptSig a variant carries for the input (its content is immaterial
\* when the coin is missing)
VariantSig(sg) == IF sg.signed /\ prevPubKey # "missing" THEN ProduceSignature(sg.ks, sg.v, prevPubKey) ELSE <<>>

Result == SignRawInput(own, prevPubKey, signIt, [i \in DOMAIN variants |-> VariantSig(variants[i])], "cur")

(* Reference: the input can be completed when the signers that signed the *)
(* current transaction and could reach the script to sign (the redeem     *)
(* script, for pay-to-script-hash) hold between them the keys it needs.   *)
Contributors ==
    (IF signIt THEN {[ks |-> own, v |-> "cur"]} ELSE {})
    \cup {[ks |-> variants[i].ks, v |-> variants[i].v] : i \in {j \in DOMAIN variants : variants[j].signed}}

Inner(s) == IF s.type = "scripthash" THEN ScriptOf[s.redeem] ELSE s

Useful(s) == {c \in Contributors : c.v = "cur" /\ (s.type = "scripthash" => s.redeem \in c.ks.scripts)}

Solvable(s, held) ==
    CASE s.type \in {"pubkey", "pubkeyhash"} -> s.keys[1] \in held
      [] s.type = "multisig" -> Cardinality({j \in DOMAIN s.keys : s.keys[j] \in held}) >= s.m
      [] OTHER -> FALSE

RefComplete ==
    /\ prevPubKey # "missing"
    /\ LET s == ScriptOf[prevPubKey] IN
       /\ s.type = "scripthash" => Useful(s) # {}
       /\ Solvable(Inner(s), UNION {c.ks.keys : c \in Useful(s)})

AllCurrent == \A c \in Contributors : c.v = "cur"

MultisigBased == prevPubKey # "missing" /\ Inner(ScriptOf[prevPubKey]).type = "multisig"

-----------------------------------------------------------------------------

(* When every signature offered was made over the transaction being        *)
(* signed, signrawtransaction reports the input complete exactly when the  *)
(* signers between them could satisfy its script: ProduceSignature's       *)
(* partial stacks and CombineSignatures' merge (by type, recursing into    *)
(* the redeem script) lose no signature, whatever the order of variants.  *)
HonestMergeCompletes == AllCurrent => (~Result.error <=> RefComplete)

(* For multisig, bare or behind pay-to-script-hash, signatures over an     *)
(* older version of the transaction never block completion and never     *)
(* count: CombineMultisig keeps only signatures that check against a key. *)
StaleSignaturesIgnored == MultisigBased => (~Result.error <=> RefComplete)

SRaw == signrawtransaction(sraw.tx, sraw.p, NodeView, sraw.wallet)

\* the message a scriptSig's signatures commit to, for some amount
SignedFor(ss, spk) == \E a \in 0..5 : VerifyScript(ss, spk, <<"cur", a>>)

(* signrawtransaction reports complete only with scriptSigs that satisfy  *)
(* the scriptPubKey the node knows for every input it holds a coin for:   *)
(* a prevtxs entry, merged into the view after the coins were fetched,   *)
(* can describe a coin the node does not know but never replace the      *)
(* script of one it does.                                                  *)
SignedForNodeScripts ==
    SRaw.err = "none" /\ SRaw.complete =>
        \A i \in DOMAIN sraw.tx.vin :
            sraw.tx.vin[i] \in DOMAIN NodeView => SignedFor(SRaw.scriptSigs[i], NodeView[sraw.tx.vin[i]].spk)

(* Private keys given to signrawtransaction "will be the only keys used   *)
(* to sign the transaction" (its help): every signature in a scriptSig it *)
(* returns is by a given key or was already in a variant's scriptSig for *)
(* that input, even with an unlocked wallet holding other keys.          *)
OnlyGivenKeysSign ==
    SRaw.err = "none" /\ sraw.p.keys.given =>
        \A i \in DOMAIN sraw.tx.vin : \A x \in Range(SRaw.scriptSigs[i]) :
            x # <<>> /\ x[1] = "sig" =>
                \/ x[2] \in Range(sraw.p.keys.list)
                \/ \E j \in DOMAIN sraw.p.hex.variants : x \in Range(sraw.p.hex.variants[j][i])

\* the prevtxs describe the real coins, the amount omitted or right
PrevTxsTruthful ==
    sraw.p.prevtxs.given =>
        \A j \in DOMAIN sraw.p.prevtxs.list :
            LET pt == sraw.p.prevtxs.list[j] IN
            <<pt.txid, pt.vout>> \in DOMAIN RealCoin =>
                /\ pt.spk = RealCoin[<<pt.txid, pt.vout>>].spk
                /\ pt.hasAmount => pt.amount = RealCoin[<<pt.txid, pt.vout>>].amount

(* signrawtransaction's help calls a prevtx's "amount" required ("The     *)
(* amount spent"): a call it accepts and reports complete, whose prevtxs  *)
(* describe the real coins, has scriptSigs valid for those coins, their   *)
(* signatures committing to the real amounts.                            *)
CompleteForRealAmounts ==
    SRaw.err = "none" /\ SRaw.complete /\ PrevTxsTruthful =>
        \A i \in DOMAIN sraw.tx.vin :
            LET c == RealCoin[sraw.tx.vin[i]] IN
            VerifyScript(SRaw.scriptSigs[i], c.spk, <<"cur", c.amount>>)

=============================================================================
