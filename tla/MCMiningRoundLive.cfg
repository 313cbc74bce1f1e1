\* Rounds whose proof signing succeeds: sealing and block write may fail; the
\* miner is never stopped.
CONSTANTS
    t1 = t1
    t2 = t2
    p1 = p1
    p2 = p2
    Txs <- MCTxs
    Peers <- MCPeers
    Slots <- MCSlots
    WorkIds <- MCWorkIds
    ChanCap = 1
    MaxKnown = 2
    PoolBlockCount = 1
    Threshold = 1
    BlockMaxTxs = 1
    LateConfirms = FALSE
    GenMayFail = TRUE
    WriteMayFail = TRUE
    ProofMayFail = FALSE
    MaxStops = 0
    AddCallers = 1

SPECIFICATION Spec

PROPERTY DrainedTxsSettle
PROPERTY RoundReturnsToIdle
PROPERTY WorkPendingSelfHeals
PROPERTY UCRefinement
