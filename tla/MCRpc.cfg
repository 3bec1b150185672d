CONSTANTS
    A = A
    B = B
    t1 = t1
    t2 = t2
    t3 = t3
    t4 = t4
    m1 = m1
    m2 = m2
    m3 = m3
    None = None
    NotArray = NotArray
    Addrs <- MCAddrs
    Chain <- MCChain
    TipHeight = 3
    TxHex <- MCTxHex
    TxKey <- MCTxKey
    MempoolDeltas <- MCMempoolDeltas
    W = 4
    BadHex = BadHex
    H1 = H1
    NotJson = NotJson
    DefaultExpiry = 10
    ExpiryThreshold = 12
    ExpiringSoon = 3
    K1 = K1
    K2 = K2
    K3 = K3
    Keys <- MCKeys
    ScriptOf <- MCScriptOf

SPECIFICATION Spec
INVARIANT TxidsListedOnce
INVARIANT DeltasWithinRange
INVARIANT BalanceIsUnspent
INVARIANT ClientDeliversExpectedTypes
INVARIANT CreatedAsRequested
INVARIANT MultisigRedeemable
INVARIANT HonestMergeCompletes
INVARIANT StaleSignaturesIgnored
INVARIANT SignedForNodeScripts
INVARIANT OnlyGivenKeysSign
