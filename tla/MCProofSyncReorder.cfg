\* Proofs of one miner may arrive out of order (gossip over several routes).
CONSTANTS
    a = a
    c = c
    t1 = t1
    Miners <- MCMiners
    MaxNum = 3
    Reorder = TRUE
    ThirdParty = FALSE
    RaceTimeout = FALSE
    FifoCap = 3
    Txs = {}
    ProofTxs <- NoProofTxs
    MaxUpdaters = 0
SPECIFICATION Spec

PROPERTY StoreMonotonic
