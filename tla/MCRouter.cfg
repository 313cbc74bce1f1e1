\* One message flooded over a triangle of miners and a boot node, with the
\* code's budget of 3; two transactions from two peers with batches of 2, so
\* both the full-batch and the timer flush happen.  The network is reliable.
\* The router idles once the flood and the batches are done, so deadlock is
\* not checked.
CONSTANTS
    n1 = n1
    n2 = n2
    n3 = n3
    b = b
    m1 = m1
    t1 = t1
    t2 = t2
    p1 = p1
    p2 = p2
    Nodes <- MCNodes
    BootNodes = {b}
    Msgs = {m1}
    Origin <- MCOrigin
    Peers <- MCPeers
    RoutCount = 3
    Txs = {t1, t2}
    TxPeers = {p1, p2}
    TxCap = 2

SPECIFICATION Spec
CHECK_DEADLOCK FALSE

INVARIANT TypeOK
INVARIANT RebroadcastBudget
PROPERTY FloodReachesAll
PROPERTY TxEventuallyPooled
