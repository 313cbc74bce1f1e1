\* Rounds with handleKnownTx holding one hash: maxHandleKnownTxs reached, so every new hash clears it.
CONSTANTS
    t1 = t1
    t2 = t2
    p1 = p1
    p2 = p2
    Txs <- MCTxs
    Peers <- MCPeers
    Slots <- MCSlots
    WorkIds <- MCWorkIds
    ChanCap = 1
    MaxKnown = 1
    PoolBlockCount = 1
    Threshold = 1
    BlockMaxTxs = 1
    LateConfirms = FALSE
    GenMayFail = TRUE
    WriteMayFail = TRUE
    ProofMayFail = FALSE
    MaxStops = 0
    AddCallers = 1

SPECIFICATION Spec


INVARIANT TxExclusive
