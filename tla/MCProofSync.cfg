\* In-order proofs, answers from the queried miner only, a timer that does not
\* fire once the listener holds the latch; messages may be lost; verifyChMap holds one
\* proof, so the listener can block on it (the backlog of 1000 under load).
CONSTANTS
    a = a
    c = c
    t1 = t1
    Miners <- MCMiners
    MaxNum = 3
    Reorder = FALSE
    ThirdParty = FALSE
    RaceTimeout = FALSE
    FifoCap = 1
    Txs = {t1}
    ProofTxs <- MCProofTxs
    MaxUpdaters = 2

SPECIFICATION Spec

INVARIANT TypeOK
PROPERTY ListenerNeverStuck
INVARIANT ConfirmCountsKept
PROPERTY ConfirmsReachReceipts
