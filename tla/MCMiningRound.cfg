\* Rounds whose proof signing, sealing and block write may all fail, with confirms
\* that arrive within the 30 s timeout or not at all, and one miner_stop and
\* miner_start at any point.
CONSTANTS
    t1 = t1
    t2 = t2
    p1 = p1
    p2 = p2
    Txs <- MCTxs
    Peers <- MCPeers
    Slots <- MCSlots
    WorkIds <- MCWorkIds
    ChanCap = 1
    MaxKnown = 2
    PoolBlockCount = 1
    Threshold = 1
    BlockMaxTxs = 1
    LateConfirms = FALSE
    GenMayFail = TRUE
    WriteMayFail = TRUE
    ProofMayFail = TRUE
    MaxStops = 1
    AddCallers = 1

SPECIFICATION Spec

INVARIANT TypeOK
INVARIANT TxExclusive
PROPERTY UCSafe
INVARIANT CommitChainLinked
INVARIANT TxCommittedOnce

