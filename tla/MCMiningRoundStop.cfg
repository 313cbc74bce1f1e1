\* One miner_stop while a timed-out round may be on its way to FinalMine.
CONSTANTS
    t1 = t1
    t2 = t2
    p1 = p1
    p2 = p2
    Txs <- MCTxs
    Peers <- MCPeers
    Slots <- MCSlots
    WorkIds <- MCWorkIds
    ChanCap = 1
    MaxKnown = 2
    PoolBlockCount = 1
    Threshold = 1
    BlockMaxTxs = 1
    LateConfirms = FALSE
    GenMayFail = FALSE
    WriteMayFail = FALSE
    ProofMayFail = FALSE
    MaxStops = 1
    AddCallers = 1

SPECIFICATION Spec

INVARIANT NoSendOnClosedChannel
