CONSTANTS
    A = A
    B = B
    D = D
    S = S
    Z = Z
    W = W
    G0 = G0
    G1 = G1
    I = I
    Tx <- MCTx
    ChainOnlyTx <- MCChainOnlyTx
    CoinbaseTx <- MCCoinbaseTx
    Vin <- MCVin
    NOut <- MCNOut
    Nullifiers <- MCNullifiers
    IsCoinImport <- MCIsCoinImport
    TxSize <- MCTxSize
    TxUsage <- MCTxUsage
    LockHeight <- MCLockHeight
    ExpiryHeight <- MCExpiryHeight
    COINBASE_MATURITY = 2
    ReserveTx = {B}
    ClientHashes = {A}
    FeeDeltas = {1}
    MaxDelta = 1
    IsRegtest = FALSE
    MaxHeight <- MCMaxHeight
    MaxBlockTxs = 2
    MaxAdds = 6
    BranchAt <- MCBranchAt
    OVERWINTER_HEIGHT = 0
    TX_EXPIRING_SOON_THRESHOLD = 3
    Commits <- MCCommits
    Anchors <- MCAnchors
    fAddressIndex = TRUE
    fSpentIndex = TRUE
    OutAddress <- MCOutAddress
    UseAfterFreeOutcomes = TRUE

SPECIFICATION Spec
VIEW StateView
PROPERTY PrioritisationClearedOnRemoval
