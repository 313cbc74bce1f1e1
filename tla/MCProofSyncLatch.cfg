\* In-order proofs, answers from the queried miner only, messages may be lost.
CONSTANTS
    a = a
    c = c
    t1 = t1
    Miners <- MCMiners
    MaxNum = 3
    Reorder = FALSE
    ThirdParty = FALSE
    RaceTimeout = FALSE
    FifoCap = 3
    Txs = {}
    ProofTxs <- NoProofTxs
    MaxUpdaters = 0
SPECIFICATION Spec

INVARIANT AnsweredQueryNotTimedOut
