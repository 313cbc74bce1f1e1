\* Any miner may answer a query about another from its own store (dealQueryState);
\* the timer does not fire once the listener holds the latch.  A listener
\* blocked for good is the behaviour under study: the node stops.
CONSTANTS
    a = a
    c = c
    t1 = t1
    Miners <- MCMiners
    MaxNum = 3
    Reorder = FALSE
    ThirdParty = TRUE
    RaceTimeout = FALSE
    FifoCap = 3
    Txs = {}
    ProofTxs <- NoProofTxs
    MaxUpdaters = 0
SPECIFICATION Spec

CHECK_DEADLOCK FALSE

PROPERTY ListenerNeverStuck
