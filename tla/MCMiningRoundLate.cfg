\* Rounds where a confirm may still arrive after its entry's 30 s elapsed.
CONSTANTS
    t1 = t1
    t2 = t2
    p1 = p1
    p2 = p2
    Txs <- MCTxs
    Peers <- MCPeers
    Slots <- MCSlots
    WorkIds <- MCWorkIds
    ChanCap = 1
    MaxKnown = 2
    PoolBlockCount = 1
    Threshold = 1
    BlockMaxTxs = 1
    LateConfirms = TRUE
    GenMayFail = FALSE
    WriteMayFail = FALSE
    ProofMayFail = FALSE
    MaxStops = 0
    AddCallers = 1

SPECIFICATION Spec

INVARIANT NoDoubleFire
