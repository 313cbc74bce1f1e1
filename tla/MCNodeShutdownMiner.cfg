\* A node with two fullCh/verifyCh pairs (the code has four) started and
\* stopped once, while a miner and a boot node connect, send a transaction
\* and disconnect, and the RPC server starts and stops the miner and sets
\* shxerbase to an address with a wallet (a1) or without one (a2).  Two
\* threads let AddTx meet one closed fullCh and one open one; each channel
\* holds two, more than there are transactions, so no non-blocking send
\* finds one full (the code's hold 2000000).  One Miner.Start goroutine
\* may be in flight at a time, which is all the stop/start race needs.  The process exits after
\* Node.Stop returns or after a panic, so deadlock is not checked.
CONSTANTS
    t1 = t1
    p1 = p1
    b1 = b1
    a1 = a1
    a2 = a2
    NThreads = 2
    Txs = {t1}
    Peers = {p1, b1}
    BootPeers = {b1}
    ChanCap = 2
    Addrs = {a1, a2}
    LocalAccounts = {a1}
    MaxStarts = 1

SPECIFICATION Spec
CHECK_DEADLOCK FALSE

INVARIANT NoMiningAfterStop
