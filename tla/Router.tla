------------------------------- MODULE Router -------------------------------
(***************************************************************************)
(* The router of synctrl (synctrl/handlemessage.go, routdata.go,           *)
(* controller.go), for one node's view of a small network of miners.       *)
(*                                                                         *)
(* Gossip: HandleWorkProofMsg, HandleProofConfirmMsg, HandleResStateMsg    *)
(* and HandleGetStateMsg have the same body over four caches: under the    *)
(* cache's mutex, the first arrival of a hash posts it to the worker and   *)
(* sets a budget of defaultRoutCount rebroadcasts; each arrival while the  *)
(* budget is positive rebroadcasts to every peer that is not a boot node.  *)
(* Messages of different hashes never interact (the LRUs hold 100000       *)
(* entries), so the model floods the messages of Msgs over Peers.  A       *)
(* message starts at its origin, whose worker posts a Rout event that      *)
(* minedRoutingLoop broadcasts without touching the origin's own cache.    *)
(*                                                                         *)
(* Transactions: HandleTxMsg drops everything while AcceptTxs is 0, and    *)
(* otherwise hands each transaction to a goroutine that sends it on        *)
(* poolTxsCh; TxsPoolLoop batches them and calls AddTxs when the batch is  *)
(* full or its 500 ms timer fires.                                         *)
(***************************************************************************)
EXTENDS Integers, SequencesExt, BagsExt

CONSTANTS
    Nodes,      \* the nodes of the network
    BootNodes,  \* the boot nodes among them
    Msgs,       \* the rebroadcastable messages, one hash each
    Origin,     \* Origin[m]: the miner whose worker created m
    Peers,      \* Peers[n]: the peers connected to n
    RoutCount,  \* defaultRoutCount
    Txs,        \* transaction hashes
    TxPeers,    \* peers that send us transactions
    TxCap       \* txCap, the batch size of TxsPoolLoop

MineNodes == Nodes \ BootNodes

ASSUME
    /\ BootNodes \subseteq Nodes
    /\ Origin \in [Msgs -> MineNodes]
    /\ Peers \in [Nodes -> SUBSET Nodes]
    /\ \A n \in Nodes : n \notin Peers[n]
    /\ RoutCount \in Nat \ {0}
    /\ TxCap \in Nat \ {0}

\* The handler's cache holds no entry for the hash.
NotCached == -1

VARIABLES
    cache,       \* cache[n][m]: the rebroadcasts of m left at n, or NotCached
    net,         \* bag of <<n, m>>: a copy of m sent to n, not yet handled
    originated,  \* the messages whose origin has broadcast them
    posted,      \* posted[n][m]: how often n's router posted m to its worker
    routs,       \* routs[n][m]: how often n's handler rebroadcast m
    acceptTxs,   \* SynCtrl.AcceptTxs = 1
    txSent,      \* txSent[p]: the transactions peer p has sent us
    accepted,    \* bag of the transactions HandleTxMsg let through
    poolTxsCh,   \* bag of the transactions sent or being sent on poolTxsCh
    batch,       \* the txs slice of TxsPoolLoop
    pooled       \* bag of the transactions handed to AddTxs

gossipVars == <<cache, net, originated, posted, routs>>
txVars == <<acceptTxs, txSent, accepted, poolTxsCh, batch, pooled>>
vars == <<gossipVars, txVars>>

TypeOK ==
    /\ cache \in [Nodes -> [Msgs -> {NotCached} \cup 0..RoutCount]]
    /\ IsABag(net) /\ BagToSet(net) \subseteq Nodes \X Msgs
    /\ originated \subseteq Msgs
    /\ posted \in [Nodes -> [Msgs -> Nat]]
    /\ routs \in [Nodes -> [Msgs -> 0..RoutCount]]
    /\ acceptTxs \in BOOLEAN
    /\ txSent \in [TxPeers -> SUBSET Txs]
    /\ IsABag(accepted) /\ BagToSet(accepted) \subseteq Txs
    /\ IsABag(poolTxsCh) /\ BagToSet(poolTxsCh) \subseteq Txs
    /\ batch \in Seq(Txs) /\ Len(batch) < TxCap
    /\ IsABag(pooled) /\ BagToSet(pooled) \subseteq Txs

Init ==
    /\ cache = [n \in Nodes |-> [m \in Msgs |-> NotCached]]
    /\ net = EmptyBag
    /\ originated = {}
    /\ posted = [n \in Nodes |-> [m \in Msgs |-> 0]]
    /\ routs = [n \in Nodes |-> [m \in Msgs |-> 0]]
    /\ acceptTxs = FALSE
    /\ txSent = [p \in TxPeers |-> {}]
    /\ accepted = EmptyBag
    /\ poolTxsCh = EmptyBag
    /\ batch = <<>>
    /\ pooled = EmptyBag

-----------------------------------------------------------------------------
(* Gossip *)

\* routProof and its three copies: every peer of n that is not a boot node.
RoutTargets(n) == {p \in Peers[n] : p \notin BootNodes}

\* The copies of m that a broadcast from n puts on the network.
Broadcast(n, m) == SetToBag({<<p, m>> : p \in RoutTargets(n)})

\* The origin's worker posts the Rout event, and minedRoutingLoop routs it.
Originate(m) ==
    /\ m \notin originated
    /\ originated' = originated \cup {m}
    /\ net' = net (+) Broadcast(Origin[m], m)
    /\ UNCHANGED <<cache, posted, routs, txVars>>

\* Fault variant: the budget is stored back without the decrement.
HandleWorkProofMsgNoDecrement(n, m) ==
    /\ BagIn(<<n, m>>, net)
    /\ LET seen  == cache[n][m] # NotCached
           count == IF seen THEN cache[n][m] ELSE RoutCount
       IN /\ posted' = IF seen THEN posted
                       ELSE [posted EXCEPT ![n][m] = @ + 1]
          /\ count > 0
          /\ net' = BagRemove(net, <<n, m>>) (+) Broadcast(n, m)
          /\ routs' = [routs EXCEPT ![n][m] = @ + 1]
          /\ cache' = [cache EXCEPT ![n][m] = count]
    /\ UNCHANGED <<originated, txVars>>

\* Fault variant: the first arrival is posted and cached but not rebroadcast.
HandleWorkProofMsgNoForward(n, m) ==
    /\ BagIn(<<n, m>>, net)
    /\ LET seen == cache[n][m] # NotCached
       IN \/ /\ ~seen
             /\ posted' = [posted EXCEPT ![n][m] = @ + 1]
             /\ cache' = [cache EXCEPT ![n][m] = RoutCount]
             /\ net' = BagRemove(net, <<n, m>>)
             /\ UNCHANGED routs
          \/ /\ seen
             /\ cache[n][m] > 0
             /\ net' = BagRemove(net, <<n, m>>) (+) Broadcast(n, m)
             /\ routs' = [routs EXCEPT ![n][m] = @ + 1]
             /\ cache' = [cache EXCEPT ![n][m] = @ - 1]
             /\ UNCHANGED posted
          \/ /\ seen
             /\ cache[n][m] = 0
             /\ net' = BagRemove(net, <<n, m>>)
             /\ UNCHANGED <<posted, routs, cache>>
    /\ UNCHANGED <<originated, txVars>>

\* One arrival of m at n, handled under the cache's mutex.
HandleWorkProofMsg(n, m) ==
    /\ BagIn(<<n, m>>, net)
    /\ LET seen  == cache[n][m] # NotCached
           count == IF seen THEN cache[n][m] ELSE RoutCount
           rest  == BagRemove(net, <<n, m>>)
       IN /\ posted' = IF seen THEN posted
                       ELSE [posted EXCEPT ![n][m] = @ + 1]
          /\ \/ /\ count > 0
                /\ net' = rest (+) Broadcast(n, m)
                /\ routs' = [routs EXCEPT ![n][m] = @ + 1]
                /\ cache' = [cache EXCEPT ![n][m] = count - 1]
             \/ /\ count = 0
                /\ net' = rest
                /\ UNCHANGED <<routs, cache>>
    /\ UNCHANGED <<originated, txVars>>

-----------------------------------------------------------------------------
(* Transactions *)

\* Peer p sends t once; the sync gate drops it, or a goroutine takes it
\* towards poolTxsCh.
HandleTxMsg(p, t) ==
    /\ t \notin txSent[p]
    /\ txSent' = [txSent EXCEPT ![p] = @ \cup {t}]
    /\ IF acceptTxs
       THEN /\ accepted' = BagAdd(accepted, t)
            /\ poolTxsCh' = BagAdd(poolTxsCh, t)
       ELSE UNCHANGED <<accepted, poolTxsCh>>
    /\ UNCHANGED <<acceptTxs, batch, pooled, gossipVars>>

\* Node.StartMining with local mining marks the node synchronised.
SetAcceptTxs ==
    /\ ~acceptTxs
    /\ acceptTxs' = TRUE
    /\ UNCHANGED <<txSent, accepted, poolTxsCh, batch, pooled, gossipVars>>

\* Fault variant: the length is tested before the append, so a batch holds
\* TxCap transactions before it is handed on.
PoolLoopRecvLateFlush(t) ==
    /\ BagIn(t, poolTxsCh)
    /\ poolTxsCh' = BagRemove(poolTxsCh, t)
    /\ IF Len(batch) >= TxCap
       THEN /\ pooled' = pooled (+) ToBag(batch)
            /\ batch' = <<t>>
       ELSE /\ batch' = Append(batch, t)
            /\ UNCHANGED pooled
    /\ UNCHANGED <<acceptTxs, txSent, accepted, gossipVars>>

\* The poolTxsCh case: append, and hand a full batch to AddTxs.
PoolLoopRecv(t) ==
    /\ BagIn(t, poolTxsCh)
    /\ poolTxsCh' = BagRemove(poolTxsCh, t)
    /\ IF Len(batch) + 1 >= TxCap
       THEN /\ pooled' = pooled (+) ToBag(Append(batch, t))
            /\ batch' = <<>>
       ELSE /\ batch' = Append(batch, t)
            /\ UNCHANGED pooled
    /\ UNCHANGED <<acceptTxs, txSent, accepted, gossipVars>>

\* Fault variant: the timer flushes only a full batch.
PoolLoopTimerFullOnly ==
    /\ Len(batch) >= TxCap
    /\ pooled' = pooled (+) ToBag(batch)
    /\ batch' = <<>>
    /\ UNCHANGED <<acceptTxs, txSent, accepted, poolTxsCh, gossipVars>>

\* The timer case: a non-empty batch goes to AddTxs.
PoolLoopTimer ==
    /\ Len(batch) > 0
    /\ pooled' = pooled (+) ToBag(batch)
    /\ batch' = <<>>
    /\ UNCHANGED <<acceptTxs, txSent, accepted, poolTxsCh, gossipVars>>

-----------------------------------------------------------------------------
Next ==
    \/ \E m \in Msgs : Originate(m)
    \/ \E n \in Nodes, m \in Msgs : HandleWorkProofMsg(n, m)
    \/ \E p \in TxPeers, t \in Txs : HandleTxMsg(p, t)
    \/ SetAcceptTxs
    \/ \E t \in Txs : PoolLoopRecv(t)
    \/ PoolLoopTimer

\* Each peer's read loop, TxsPoolLoop and its timer keep running.  The
\* origin's worker, the peers and the gate are the environment.
Fairness ==
    /\ \A n \in Nodes, m \in Msgs : WF_vars(HandleWorkProofMsg(n, m))
    /\ \A t \in Txs : WF_vars(PoolLoopRecv(t))
    /\ WF_vars(PoolLoopTimer)

Spec == Init /\ [][Next]_vars /\ Fairness

-----------------------------------------------------------------------------
(* Properties *)

\* Spec property 7: a node rebroadcasts a hash at most defaultRoutCount
\* times, and the cached budget is what the handler has not yet spent.
RebroadcastBudget ==
    \A n \in Nodes, m \in Msgs :
        /\ routs[n][m] <= RoutCount
        /\ cache[n][m] # NotCached => routs[n][m] + cache[n][m] = RoutCount

\* Once its origin broadcasts a message, every miner's worker eventually
\* receives it exactly once.  This includes the origin itself, to which
\* the first echo comes back as new because minedRoutingLoop never marks
\* the origin's cache.
FloodReachesAll ==
    \A m \in Msgs :
        m \in originated ~> \A n \in MineNodes : posted[n][m] = 1

\* Every transaction that passes the sync gate eventually reaches AddTxs,
\* once, whether its batch fills or the timer fires.
TxEventuallyPooled == <>[](pooled = accepted)

=============================================================================
