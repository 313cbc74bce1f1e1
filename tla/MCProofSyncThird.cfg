\* A peer that holds a miner's state at the asked number answers for it.
CONSTANTS
    a = a
    c = c
    t1 = t1
    Miners <- MCMiners
    MaxNum = 3
    Reorder = FALSE
    ThirdParty = TRUE
    RaceTimeout = FALSE
    FifoCap = 3
    Txs = {}
    ProofTxs <- NoProofTxs
    MaxUpdaters = 0
SPECIFICATION Spec

INVARIANT NoSpuriousReject
