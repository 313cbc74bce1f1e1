\* Rounds while two AddTx calls of the same hash may run at once (a TxsPoolLoop batch and a dealProofEvent AddTxs); handleKnownTx is far from its limit.
CONSTANTS
    t1 = t1
    t2 = t2
    p1 = p1
    p2 = p2
    Txs <- MCTxs
    Peers <- MCPeers
    Slots <- MCSlots
    WorkIds <- MCWorkIds
    ChanCap = 1
    MaxKnown = 2
    PoolBlockCount = 1
    Threshold = 1
    BlockMaxTxs = 1
    LateConfirms = FALSE
    GenMayFail = FALSE
    WriteMayFail = FALSE
    ProofMayFail = FALSE
    MaxStops = 0
    AddCallers = 2

SPECIFICATION Spec


INVARIANT TxExclusive
