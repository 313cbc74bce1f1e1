---------------------------- MODULE NodeShutdown ----------------------------
(***************************************************************************)
(* One node from Node.Start to Node.Stop (node/node.go), with what runs    *)
(* while it stops: the peer set of the PeerManager (network/p2p/           *)
(* peermanager.go), which lets peers deliver transactions while the p2p    *)
(* server runs, and the channels of the transaction pool (txpool/          *)
(* tx_pool.go).                                                            *)
(*                                                                         *)
(* A transaction a peer sends passes the AcceptTxs gate of HandleTxMsg and *)
(* TxsPoolLoop hands it to an AddTxs goroutine; TxsPoolLoop is never       *)
(* stopped, and its batching is the Router module's.  AddTx probes the     *)
(* fullCh of each thread, from a random one, with a non-blocking send.     *)
(* Each thread has a reader of its fullCh, which stores the transaction in *)
(* queue and sends it on the thread's verifyCh, and a reader of verifyCh,  *)
(* which moves it to pending.  TxPool.Stop makes the pool's loop close     *)
(* invalidTxCh and then, thread by thread, fullCh and verifyCh, and wait   *)
(* for the readers.  A send on a closed channel panics, even inside a      *)
(* select with a default case, and kills the process.                      *)
(*                                                                         *)
(* The miner is started by Node.StartMining, from startNode or from the   *)
(* miner_start call of the RPC server, which authorizes the signer and    *)
(* runs Miner.Start in a goroutine of its own; miner_stop and Node.Stop   *)
(* call Miner.Stop directly.  The worker's rounds are MiningRound's: here *)
(* the worker is its mining flag, set and cleared under worker.mu.        *)
(***************************************************************************)
EXTENDS Integers, SequencesExt, FiniteSets

CONSTANTS
    NThreads,   \* maxThreadNumber, the number of fullCh/verifyCh pairs
    Txs,        \* transaction hashes
    Peers,      \* remote nodes that may connect
    BootPeers,  \* the boot nodes among them
    ChanCap,    \* the capacity of each fullCh and verifyCh
    Addrs,      \* addresses that may be set as shxerbase
    LocalAccounts, \* those with a wallet in the account manager
    MaxStarts   \* Miner.Start goroutines that may be in flight at once

ASSUME
    /\ NThreads \in Nat \ {0}
    /\ BootPeers \subseteq Peers
    /\ ChanCap \in Nat \ {0}
    /\ LocalAccounts \subseteq Addrs /\ LocalAccounts # {}
    /\ MaxStarts \in Nat \ {0}

Threads == 1..NThreads

\* No transaction held by a fullCh reader.
NoTx == "none"

\* The channels the pool's loop closes, in the order it closes them.
InvalidCh == <<"invalid", 0>>
CloseOrder ==
    <<InvalidCh>> \o
    [k \in 1..2 * NThreads |->
        IF k % 2 = 1 THEN <<"full", (k + 1) \div 2>> ELSE <<"verify", k \div 2>>]

\* The stages of the node; those from "txpool" on are inside Node.Stop.
StopStages == {"txpool", "txwait", "miner", "peers", "rest"}

VARIABLES
    node,       \* the stage Start or Stop of node.go has reached
    serverUp,   \* the p2p server runs and delivers peers' messages
    closed,     \* PeerManager.closed
    peers,      \* PeerManager.peers: the ids of connected mining peers
    boots,      \* PeerManager.boots: the ids of connected boot nodes
    acceptTxs,  \* SynCtrl.AcceptTxs = 1
    arrived,    \* the transactions peers have sent us
    adding,     \* the transactions an AddTxs goroutine still has to add
    known,      \* handleKnownTx
    fullCh,     \* fullCh[i]: the transactions buffered in fullCh[i]
    verifyCh,   \* verifyCh[i]: the transactions buffered in verifyCh[i]
    holding,    \* holding[i]: what fullCh[i]'s reader received, or NoTx
    closedChs,  \* the channels the pool's loop has closed
    toClose,    \* the channels the loop still has to close
    loop,       \* the pool's loop: "idle", "run", "close", "wait", "done"
    dealers,    \* the reader goroutines of dealwg still running
    invalidUp,  \* dealInvalid still runs
    queue,      \* the hashes in pool.queue
    pending,    \* the hashes in pool.pending
    admitted,   \* the transactions ever sent into a fullCh
    poolStopped,\* STOPPED: TxPool.Stop has returned
    panicked,   \* "none", or the channel whose send killed the process
    shxerbase,  \* Node.shxerbase
    signer,     \* the signer Prometheus.Authorize has set, or "none"
    starters,   \* starters[k]: where the k-th Miner.Start goroutine is
    starterEb,  \* starterEb[k]: the coinbase it was started with
    controlStarted, \* Miner.controlStarted
    minerMining,    \* Miner.mining, which Mining() and IsMining read
    workerMining,   \* worker.mining: RoutineMine runs
    workerCoinbase, \* worker.coinbase
    stopping,   \* the Miner.Stop calls between worker.stop and their stores
    lastCall    \* history: the last call that started or stopped the miner

peerVars == <<serverUp, closed, peers, boots>>
chanVars == <<fullCh, verifyCh, holding, closedChs, toClose, loop, dealers,
              invalidUp>>
poolVars == <<known, queue, pending, admitted, poolStopped>>
minerVars == <<shxerbase, signer, starters, starterEb, controlStarted,
               minerMining, workerMining, workerCoinbase, stopping, lastCall>>
vars == <<node, peerVars, acceptTxs, arrived, adding, chanVars, poolVars,
          panicked, minerVars>>

Dealers == {"full", "verify"} \X Threads

StartIds == 1..MaxStarts

\* The callers of Miner.Stop: miner_stop and Node.Stop.
Stoppers == {"rpc", "node"}

TypeOK ==
    /\ node \in {"new", "started", "running", "stopped"} \cup StopStages
    /\ serverUp \in BOOLEAN /\ closed \in BOOLEAN
    /\ peers \subseteq Peers \ BootPeers /\ boots \subseteq BootPeers
    /\ acceptTxs \in BOOLEAN
    /\ arrived \subseteq Txs /\ adding \subseteq Txs /\ known \subseteq Txs
    /\ fullCh \in [Threads -> BoundedSeq(Txs, ChanCap)]
    /\ verifyCh \in [Threads -> BoundedSeq(Txs, ChanCap)]
    /\ holding \in [Threads -> Txs \cup {NoTx}]
    /\ closedChs \subseteq ToSet(CloseOrder)
    /\ toClose \in Seq(ToSet(CloseOrder))
    /\ loop \in {"idle", "run", "close", "wait", "done"}
    /\ dealers \subseteq Dealers /\ invalidUp \in BOOLEAN
    /\ queue \subseteq Txs /\ pending \subseteq Txs /\ admitted \subseteq Txs
    /\ poolStopped \in BOOLEAN
    /\ panicked \in {"none", "fullCh", "verifyCh"}
    /\ shxerbase \in Addrs /\ signer \in Addrs \cup {"none"}
    /\ starters \in [StartIds -> {"idle", "spawned", "flagged"}]
    /\ starterEb \in [StartIds -> Addrs]
    /\ controlStarted \in BOOLEAN
    /\ minerMining \in BOOLEAN /\ workerMining \in BOOLEAN
    /\ workerCoinbase \in Addrs
    /\ stopping \subseteq Stoppers
    /\ lastCall \in {"none", "start", "stop"}

\* node.New takes the first account of the first wallet as shxerbase.
InitShxerbase == shxerbase \in LocalAccounts

\* node.New: the PeerManager and the pool exist, with their channels made,
\* and nothing runs; WorkerInit gives the worker shxerbase as coinbase.
Init ==
    /\ node = "new"
    /\ serverUp = FALSE /\ closed = FALSE /\ peers = {} /\ boots = {}
    /\ acceptTxs = FALSE
    /\ arrived = {} /\ adding = {} /\ known = {}
    /\ fullCh = [i \in Threads |-> <<>>]
    /\ verifyCh = [i \in Threads |-> <<>>]
    /\ holding = [i \in Threads |-> NoTx]
    /\ closedChs = {} /\ toClose = <<>>
    /\ loop = "idle" /\ dealers = {} /\ invalidUp = FALSE
    /\ queue = {} /\ pending = {} /\ admitted = {}
    /\ poolStopped = FALSE
    /\ panicked = "none"
    /\ InitShxerbase
    /\ signer = "none"
    /\ starters = [k \in StartIds |-> "idle"]
    /\ starterEb = [k \in StartIds |-> shxerbase]
    /\ controlStarted = FALSE
    /\ minerMining = FALSE /\ workerMining = FALSE
    /\ workerCoinbase = shxerbase
    /\ stopping = {}
    /\ lastCall = "none"

\* Every goroutine is gone once the process has panicked.
Alive == panicked = "none"

IsClosed(ch) == ch \in closedChs

-----------------------------------------------------------------------------
(* Node.Start and the PeerManager *)

\* PeerManager.Start: the p2p server starts and accepts peers.
PeerManagerStart == serverUp' = TRUE

\* Node.Start up to the pool: WorkerInit, SynCtrl.Start, PeerManager.Start,
\* the miner callback and the RPC manager.
NodeStart ==
    /\ Alive
    /\ node = "new"
    /\ node' = "started"
    /\ PeerManagerStart
    /\ UNCHANGED <<minerVars, closed, peers, boots, acceptTxs, arrived, adding, chanVars,
                   poolVars, panicked>>

\* TxPool.Start, the last step of Node.Start: the loop, the two readers of
\* every thread and dealInvalid start.  The code calls wg.Add and
\* dealwg.Add inside the spawned goroutines; they are taken here as
\* registered at once, so a Stop that overtakes a goroutine not yet
\* scheduled is not explored.
PoolStart ==
    /\ Alive
    /\ node = "started"
    /\ node' = "running"
    /\ loop' = "run"
    /\ dealers' = Dealers
    /\ invalidUp' = TRUE
    /\ UNCHANGED <<minerVars, peerVars, acceptTxs, arrived, adding, fullCh, verifyCh,
                   holding, closedChs, toClose, poolVars, panicked>>

\* Fault variant: every peer is registered as a miner, boot nodes included.
RegisterNoBootSplit(p) ==
    /\ Alive
    /\ serverUp
    /\ ~closed
    /\ p \notin peers \cup boots
    /\ peers' = peers \cup {p}
    /\ UNCHANGED <<minerVars, node, serverUp, closed, boots, acceptTxs, arrived, adding,
                   chanVars, poolVars, panicked>>

\* The server's handshake registers peer p: a boot node joins boots, a
\* miner joins peers unless it is there already; a closed set refuses both.
Register(p) ==
    /\ Alive
    /\ serverUp
    /\ ~closed
    /\ p \notin peers \cup boots
    /\ IF p \in BootPeers
       THEN /\ boots' = boots \cup {p}
            /\ UNCHANGED peers
       ELSE /\ peers' = peers \cup {p}
            /\ UNCHANGED boots
    /\ UNCHANGED <<minerVars, node, serverUp, closed, acceptTxs, arrived, adding,
                   chanVars, poolVars, panicked>>

\* The peer disconnects and is removed from both sets.
Unregister(p) ==
    /\ Alive
    /\ p \in peers \cup boots
    /\ peers' = peers \ {p}
    /\ boots' = boots \ {p}
    /\ UNCHANGED <<minerVars, node, serverUp, closed, acceptTxs, arrived, adding,
                   chanVars, poolVars, panicked>>

\* A connected peer sends t.  HandleTxMsg drops it while AcceptTxs is 0;
\* otherwise TxsPoolLoop hands it to a goroutine running AddTxs.
HandleTxMsg(p, t) ==
    /\ Alive
    /\ serverUp
    /\ p \in peers \cup boots
    /\ t \notin arrived
    /\ arrived' = arrived \cup {t}
    /\ adding' = IF acceptTxs THEN adding \cup {t} ELSE adding
    /\ UNCHANGED <<minerVars, node, peerVars, acceptTxs, chanVars, poolVars, panicked>>

-----------------------------------------------------------------------------
(* The miner: Node.StartMining, Miner.Start and Miner.Stop *)

\* The RPC server runs from the end of Node.Start's RPC step to the last
\* step of Node.Stop.
RpcUp == node \in {"started", "running"} \cup StopStages

\* Node.IsMining, which is Miner.Mining: the miner's flag, not the worker's.
IsMining == minerMining

\* Node.StartMining(true): shxerbase is read without the node's lock; with
\* no wallet for it the call returns an error and changes nothing.
\* Otherwise the engine is authorized, AcceptTxs is stored, and Miner.Start
\* runs in a goroutine of its own, with eb as coinbase.
StartMining ==
    LET eb == shxerbase IN
    /\ eb \in LocalAccounts
    /\ \E k \in StartIds :
         /\ starters[k] = "idle"
         /\ starters' = [starters EXCEPT ![k] = "spawned"]
         /\ starterEb' = [starterEb EXCEPT ![k] = eb]
    /\ signer' = eb
    /\ acceptTxs' = TRUE
    /\ lastCall' = "start"

\* miner_start (PrivateMinerAPI.Start) calls StartMining only if the miner
\* does not mine; startNode's call comes while it does not.
MinerAPIStart ==
    /\ Alive
    /\ RpcUp
    /\ ~IsMining
    /\ StartMining
    /\ UNCHANGED <<node, peerVars, arrived, adding, chanVars, poolVars,
                   panicked, shxerbase, controlStarted, minerMining,
                   workerMining, workerCoinbase, stopping>>

\* Node.SetShxerbase under the node's lock, which Node.Stop holds.
SetShxerbase(a) == shxerbase' = a

\* miner_setShxerbase (PrivateMinerAPI.SetShxerbase).
MinerAPISetShxerbase(a) ==
    /\ Alive
    /\ node \in {"started", "running"}
    /\ SetShxerbase(a)
    /\ UNCHANGED <<node, peerVars, acceptTxs, arrived, adding, chanVars,
                   poolVars, panicked, signer, starters, starterEb,
                   controlStarted, minerMining, workerMining, workerCoinbase,
                   stopping, lastCall>>

\* The goroutine of Miner.Start, until the process exits: WorkControl is
\* started once, the worker's coinbase is set, and (canStart stays 1, as
\* no StartEvent is ever posted) the miner's flag is stored.
MinerStartFlags(k) ==
    /\ Alive
    /\ node # "stopped"
    /\ starters[k] = "spawned"
    /\ starters' = [starters EXCEPT ![k] = "flagged"]
    /\ controlStarted' = TRUE
    /\ workerCoinbase' = starterEb[k]
    /\ minerMining' = TRUE
    /\ UNCHANGED <<node, peerVars, acceptTxs, arrived, adding, chanVars,
                   poolVars, panicked, shxerbase, signer, starterEb,
                   workerMining, stopping, lastCall>>

\* Fault variant: worker.start tests the miner's flag instead of its own.
MinerStartWorkerMinerFlag(k) ==
    /\ Alive
    /\ node # "stopped"
    /\ starters[k] = "flagged"
    /\ starters' = [starters EXCEPT ![k] = "idle"]
    /\ workerMining' = (workerMining \/ ~minerMining)
    /\ UNCHANGED <<node, peerVars, acceptTxs, arrived, adding, chanVars,
                   poolVars, panicked, shxerbase, signer, starterEb,
                   controlStarted, minerMining, workerCoinbase, stopping,
                   lastCall>>

\* worker.start under worker.mu: it returns if the worker mines, and
\* otherwise sets its flag and starts RoutineMine.  The goroutine ends.
MinerStartWorker(k) ==
    /\ Alive
    /\ node # "stopped"
    /\ starters[k] = "flagged"
    /\ starters' = [starters EXCEPT ![k] = "idle"]
    /\ workerMining' = TRUE
    /\ UNCHANGED <<node, peerVars, acceptTxs, arrived, adding, chanVars,
                   poolVars, panicked, shxerbase, signer, starterEb,
                   controlStarted, minerMining, workerCoinbase, stopping,
                   lastCall>>

\* worker.stop under worker.mu: if the worker mines, exitCh ends
\* RoutineMine, wg.Wait joins it, and the flag is cleared.  wg.Wait also
\* joins the round's NewMineRound and FinalMine goroutines; they are not
\* part of this module, so it returns at once here.  MiningRound models
\* them, and a FinalMine that never returns (StopCompletes).
WorkerStop == workerMining' = FALSE

\* Miner.Stop, by miner_stop (PrivateMinerAPI.Stop, through StopMining) or
\* by Node.Stop after the pool: first worker.stop.
MinerStop(c) ==
    /\ Alive
    /\ c \notin stopping
    /\ \/ c = "rpc" /\ RpcUp
       \/ c = "node" /\ node = "miner"
    /\ WorkerStop
    /\ stopping' = stopping \cup {c}
    /\ lastCall' = "stop"
    /\ UNCHANGED <<node, peerVars, acceptTxs, arrived, adding, chanVars,
                   poolVars, panicked, shxerbase, signer, starters,
                   starterEb, controlStarted, minerMining, workerCoinbase>>

\* Then Miner.Stop clears the miner's flag and returns; Node.Stop goes on
\* to the PeerManager.
MinerStopDone(c) ==
    /\ Alive
    /\ c \in stopping
    /\ minerMining' = FALSE
    /\ stopping' = stopping \ {c}
    /\ node' = IF c = "node" THEN "peers" ELSE node
    /\ UNCHANGED <<peerVars, acceptTxs, arrived, adding, chanVars, poolVars,
                   panicked, shxerbase, signer, starters, starterEb,
                   controlStarted, workerMining, workerCoinbase, lastCall>>

-----------------------------------------------------------------------------
(* The transaction pool *)

\* The fullCh indices AddTx tries, from the random index start on.
ProbeOrder(start) == [k \in Threads |-> ((start - 1 + k - 1) % NThreads) + 1]

\* AddTx(t): DupTx (handleKnownTx holds every hash ever in queue, pending
\* or onChain here), KnownTxAdd, and the non-blocking sends of sendToFull.
\* The first closed or non-full fullCh ends the probe: the send panics on
\* a closed one and succeeds on the other; if every one is full AddTx
\* fails with the hash already known.
AddTx(t) ==
    /\ Alive
    /\ t \in adding
    /\ adding' = adding \ {t}
    /\ IF t \in known
       THEN UNCHANGED <<known, fullCh, admitted, panicked>>
       ELSE
         /\ known' = known \cup {t}
         /\ \E start \in Threads :
              LET order == ProbeOrder(start)
                  k == SelectInSeq(order, LAMBDA i :
                           IsClosed(<<"full", i>>) \/ Len(fullCh[i]) < ChanCap)
                  i == order[k]
              IN \/ /\ k = 0
                    /\ UNCHANGED <<fullCh, admitted, panicked>>
                 \/ /\ k # 0
                    /\ IsClosed(<<"full", i>>)
                    /\ panicked' = "fullCh"
                    /\ UNCHANGED <<fullCh, admitted>>
                 \/ /\ k # 0
                    /\ ~IsClosed(<<"full", i>>)
                    /\ fullCh' = [fullCh EXCEPT ![i] = Append(@, t)]
                    /\ admitted' = admitted \cup {t}
                    /\ UNCHANGED panicked
    /\ UNCHANGED <<minerVars, node, peerVars, acceptTxs, arrived, verifyCh, holding,
                   closedChs, toClose, loop, dealers, invalidUp, queue,
                   pending, poolStopped>>

\* The fullCh reader of thread i receives a transaction, buffered ones
\* first even once the channel is closed, and stores it in queue.
DealTxFull(i) ==
    /\ Alive
    /\ <<"full", i>> \in dealers
    /\ holding[i] = NoTx
    /\ fullCh[i] # <<>>
    /\ holding' = [holding EXCEPT ![i] = Head(fullCh[i])]
    /\ fullCh' = [fullCh EXCEPT ![i] = Tail(@)]
    /\ queue' = queue \cup {Head(fullCh[i])}
    /\ UNCHANGED <<minerVars, node, peerVars, acceptTxs, arrived, adding, verifyCh,
                   closedChs, toClose, loop, dealers, invalidUp, known,
                   pending, admitted, poolStopped, panicked>>

\* sendToVerify: a non-blocking send on verifyCh[i]; it panics if the loop
\* has closed the channel and drops the transaction if the channel is full.
SendToVerify(i) ==
    /\ Alive
    /\ holding[i] # NoTx
    /\ holding' = [holding EXCEPT ![i] = NoTx]
    /\ \/ /\ IsClosed(<<"verify", i>>)
          /\ panicked' = "verifyCh"
          /\ UNCHANGED verifyCh
       \/ /\ ~IsClosed(<<"verify", i>>)
          /\ verifyCh' = [verifyCh EXCEPT ![i] =
                            IF Len(@) < ChanCap THEN Append(@, holding[i])
                            ELSE @]
          /\ UNCHANGED panicked
    /\ UNCHANGED <<minerVars, node, peerVars, acceptTxs, arrived, adding, fullCh,
                   closedChs, toClose, loop, dealers, invalidUp, poolVars>>

\* The fullCh reader sees its closed, drained channel and returns.
DealTxFullExit(i) ==
    /\ Alive
    /\ <<"full", i>> \in dealers
    /\ holding[i] = NoTx
    /\ fullCh[i] = <<>>
    /\ IsClosed(<<"full", i>>)
    /\ dealers' = dealers \ {<<"full", i>>}
    /\ UNCHANGED <<minerVars, node, peerVars, acceptTxs, arrived, adding, fullCh,
                   verifyCh, holding, closedChs, toClose, loop, invalidUp,
                   poolVars, panicked>>

\* The verifyCh reader: verifyTx accepts every transaction, which moves
\* from queue to pending.
DealTxVerify(i) ==
    /\ Alive
    /\ <<"verify", i>> \in dealers
    /\ verifyCh[i] # <<>>
    /\ pending' = pending \cup {Head(verifyCh[i])}
    /\ queue' = queue \ {Head(verifyCh[i])}
    /\ verifyCh' = [verifyCh EXCEPT ![i] = Tail(@)]
    /\ UNCHANGED <<minerVars, node, peerVars, acceptTxs, arrived, adding, fullCh,
                   holding, closedChs, toClose, loop, dealers, invalidUp,
                   known, admitted, poolStopped, panicked>>

\* The verifyCh reader sees its closed, drained channel and returns.
DealTxVerifyExit(i) ==
    /\ Alive
    /\ <<"verify", i>> \in dealers
    /\ verifyCh[i] = <<>>
    /\ IsClosed(<<"verify", i>>)
    /\ dealers' = dealers \ {<<"verify", i>>}
    /\ UNCHANGED <<minerVars, node, peerVars, acceptTxs, arrived, adding, fullCh,
                   verifyCh, holding, closedChs, toClose, loop, invalidUp,
                   poolVars, panicked>>

-----------------------------------------------------------------------------
(* Node.Stop and the pool's shutdown *)

\* SynCtrl.Stop unsubscribes the tx and mined-block routing loops;
\* HandleTxMsg and TxsPoolLoop keep running.
StopSynCtrl ==
    /\ Alive
    /\ node = "running"
    /\ node' = "txpool"
    /\ UNCHANGED <<minerVars, peerVars, acceptTxs, arrived, adding, chanVars, poolVars,
                   panicked>>

\* TxPool.Stop, not yet STOPPED, sends on stopCh; the loop receives it and
\* starts closing its channels.
TxPoolStopSend ==
    /\ Alive
    /\ node = "txpool"
    /\ ~poolStopped
    /\ loop = "run"
    /\ node' = "txwait"
    /\ loop' = "close"
    /\ toClose' = CloseOrder
    /\ UNCHANGED <<minerVars, peerVars, acceptTxs, arrived, adding, fullCh, verifyCh,
                   holding, closedChs, dealers, invalidUp, poolVars, panicked>>

\* Fault variant: the loop never closes the verifyCh of a thread.
LoopCloseKeepsVerify ==
    /\ Alive
    /\ loop = "close"
    /\ closedChs' = IF Head(toClose)[1] = "verify" THEN closedChs
                    ELSE closedChs \cup {Head(toClose)}
    /\ toClose' = Tail(toClose)
    /\ loop' = IF Len(toClose) = 1 THEN "wait" ELSE "close"
    /\ UNCHANGED <<minerVars, node, peerVars, acceptTxs, arrived, adding, fullCh,
                   verifyCh, holding, dealers, invalidUp, poolVars, panicked>>

\* The stopCh case of the loop closes invalidTxCh, then fullCh[i] and
\* verifyCh[i] for each thread in turn, one channel per step.
LoopClose ==
    /\ Alive
    /\ loop = "close"
    /\ closedChs' = closedChs \cup {Head(toClose)}
    /\ toClose' = Tail(toClose)
    /\ loop' = IF Len(toClose) = 1 THEN "wait" ELSE "close"
    /\ UNCHANGED <<minerVars, node, peerVars, acceptTxs, arrived, adding, fullCh,
                   verifyCh, holding, dealers, invalidUp, poolVars, panicked>>

\* Fault variant: the loop returns without dealwg.Wait.
LoopWaitNoJoin ==
    /\ Alive
    /\ loop = "wait"
    /\ loop' = "done"
    /\ UNCHANGED <<minerVars, node, peerVars, acceptTxs, arrived, adding, fullCh,
                   verifyCh, holding, closedChs, toClose, dealers, invalidUp,
                   poolVars, panicked>>

\* dealwg.Wait: the loop returns once every reader has returned.
LoopWait ==
    /\ Alive
    /\ loop = "wait"
    /\ dealers = {}
    /\ loop' = "done"
    /\ UNCHANGED <<minerVars, node, peerVars, acceptTxs, arrived, adding, fullCh,
                   verifyCh, holding, closedChs, toClose, dealers, invalidUp,
                   poolVars, panicked>>

\* dealInvalid returns when invalidTxCh is closed.
DealInvalidExit ==
    /\ Alive
    /\ invalidUp
    /\ IsClosed(InvalidCh)
    /\ invalidUp' = FALSE
    /\ UNCHANGED <<minerVars, node, peerVars, acceptTxs, arrived, adding, fullCh,
                   verifyCh, holding, closedChs, toClose, loop, dealers,
                   poolVars, panicked>>

\* wg.Wait returns once the loop and dealInvalid have; STOPPED is stored.
TxPoolStopWait ==
    /\ Alive
    /\ node = "txwait"
    /\ loop = "done"
    /\ ~invalidUp
    /\ poolStopped' = TRUE
    /\ node' = "miner"
    /\ UNCHANGED <<minerVars, peerVars, acceptTxs, arrived, adding, chanVars, known,
                   queue, pending, admitted, panicked>>

\* close(): the miners (not the boot nodes) are told to disconnect, and
\* the set refuses every later Register.
PeerSetClose == closed' = TRUE

\* PeerManager.Stop: the server stops, then close().
PeerManagerStop ==
    /\ Alive
    /\ node = "peers"
    /\ node' = "rest"
    /\ serverUp' = FALSE
    /\ PeerSetClose
    /\ UNCHANGED <<minerVars, peers, boots, acceptTxs, arrived, adding, chanVars,
                   poolVars, panicked>>

\* The RPC manager stops, the database closes and n.stop is closed, which
\* releases Node.Wait.
NodeStopRest ==
    /\ Alive
    /\ node = "rest"
    /\ node' = "stopped"
    /\ UNCHANGED <<minerVars, peerVars, acceptTxs, arrived, adding, chanVars, poolVars,
                   panicked>>

-----------------------------------------------------------------------------
Next ==
    \/ NodeStart \/ PoolStart \/ MinerAPIStart
    \/ \E a \in Addrs : MinerAPISetShxerbase(a)
    \/ \E k \in StartIds : MinerStartFlags(k) \/ MinerStartWorker(k)
    \/ \E c \in Stoppers : MinerStop(c) \/ MinerStopDone(c)
    \/ \E p \in Peers : Register(p) \/ Unregister(p)
    \/ \E p \in Peers, t \in Txs : HandleTxMsg(p, t)
    \/ \E t \in Txs : AddTx(t)
    \/ \E i \in Threads :
          \/ DealTxFull(i) \/ SendToVerify(i) \/ DealTxFullExit(i)
          \/ DealTxVerify(i) \/ DealTxVerifyExit(i)
    \/ StopSynCtrl \/ TxPoolStopSend \/ LoopClose \/ LoopWait
    \/ DealInvalidExit \/ TxPoolStopWait \/ PeerManagerStop
    \/ NodeStopRest

\* Every goroutine of the pool, every AddTxs and Miner.Start goroutine, a
\* Miner.Stop call once begun, and the goroutine running Node.Stop keep
\* running.  Starting the node, connecting peers, sending transactions,
\* the RPC calls and the signal that calls Node.Stop are the environment's.
Fairness ==
    /\ \A t \in Txs : WF_vars(AddTx(t))
    /\ \A i \in Threads :
          /\ WF_vars(DealTxFull(i)) /\ WF_vars(SendToVerify(i))
          /\ WF_vars(DealTxFullExit(i))
          /\ WF_vars(DealTxVerify(i)) /\ WF_vars(DealTxVerifyExit(i))
    /\ WF_vars(TxPoolStopSend) /\ WF_vars(LoopClose) /\ WF_vars(LoopWait)
    /\ WF_vars(DealInvalidExit) /\ WF_vars(TxPoolStopWait)
    /\ \A k \in StartIds :
          WF_vars(MinerStartFlags(k)) /\ WF_vars(MinerStartWorker(k))
    /\ WF_vars(MinerStop("node")) /\ \A c \in Stoppers : WF_vars(MinerStopDone(c))
    /\ WF_vars(PeerManagerStop) /\ WF_vars(NodeStopRest)

Spec == Init /\ [][Next]_vars /\ Fairness

-----------------------------------------------------------------------------
(* Properties *)

\* Once Node.Stop has reached TxPool.Stop, TxPool.Stop returns unless a
\* send on a closed channel has killed the process: the loop closes every
\* channel its readers wait on, the readers drain and return, and dealwg
\* and wg are released.  What Node.Stop does next, Miner.Stop, waits in
\* worker.stop for goroutines of the mining round (MiningRound's
\* StopCompletes).
PoolStopReturns ==
    (node \in {"txpool", "txwait"}) ~> (poolStopped \/ panicked # "none")

\* When TxPool.Stop has returned, every transaction that entered a fullCh
\* has reached pending and none is left in queue: the readers drain the
\* closed channels before dealwg lets the loop return.
PoolDrainedOnStop ==
    poolStopped => (admitted \subseteq pending /\ queue = {})

\* Node.Stop never kills the process: no AddTxs goroutine sends on a
\* fullCh and no fullCh reader sends on a verifyCh after the pool's loop
\* closed it.
NoSendOnClosedChannel == panicked = "none"

\* A successful StartMining makes the worker mine, unless a Miner.Stop
\* begins first or the process ends: the goroutine it spawns stores the
\* miner's flag and worker.start sets the worker's.
MinerStartTakesEffect ==
    (lastCall = "start")
        ~> (workerMining \/ lastCall # "start" \/ panicked # "none"
            \/ node = "stopped")

\* Once miner_stop, or the Miner.Stop of Node.Stop, has returned, and no
\* StartMining came after it, the worker does not mine.
NoMiningAfterStop ==
    (lastCall = "stop" /\ stopping = {}) => ~workerMining

====
