\* The 30 s timer may fire while a response is being handed to the latch.
CONSTANTS
    a = a
    c = c
    t1 = t1
    Miners <- MCMiners
    MaxNum = 3
    Reorder = FALSE
    ThirdParty = FALSE
    RaceTimeout = TRUE
    FifoCap = 3
    Txs = {}
    ProofTxs <- NoProofTxs
    MaxUpdaters = 0
SPECIFICATION Spec

\* A listener blocked for good is the behaviour under study: the node stops.
CHECK_DEADLOCK FALSE

PROPERTY ListenerNeverStuck
