# TLA+ models of the sphinx mining node

These modules model the Go sources under `src/`: the federated-confirmation
mining node. Each node drains its transaction pool into a candidate block,
broadcasts a signed proof of it and commits the block once enough peers confirm.
`PROJECT.json` lists every component, run, mutant, finding and hazard. Its
`map` names the source lines that each definition translates.

## The system and its parts

| Part | Source | State it keeps | Operations |
|---|---|---|---|
| TxPool | `txpool/tx_pool.go` | `handleKnownTx` (seen set, cleared at `maxHandleKnownTxs`), `fullCh[i]`/`verifyCh[i]` slots, `queue`, `pending`, `working[workid]`, `onChain[hash]` | `AddTx`/`AddTxs`, the two `DealTxRoutine` goroutines per slot, `Pending`, `WorkEnded`, `FitOnChain` (1-minute ticker) |
| UnconfirmedProofs | `worker/unconfirmed.go` | `proofs`: sig hash → accept set, reject set, threshold, insertion time | `Insert`, `Confirm`, `CheckTimeout` (5 s ticker, 30 s timeout), `Stop` |
| WorkPending | `worker/work_pending.go` | ordered `Pending` works, `errored` latch | `Add`, `Top`, `Head`, `SetNoError`, the 500 ms writer `Run` |
| Worker round | `worker/worker_mine.go`, `commitTx.go`, `worker.go` | `roundState` (IDLE, PostMining, Mining), current `Work` with `genCh` and `confirmed` | the 10 ms ticker with `CheckNeedStartMine`, `NewMineRound`, the Finalize goroutine, `FinalMine`, the exit case |
| Proof handling | `worker/worker_verify.go`, `worker.go` | PeerProofStore (per peer `num`, `root`), `verifyChMap`, `peerLockMap`, `queryCache`, `txConfirmPool` | `dealProofEvent` (per-sender goroutine), `queryRemoteState`, `dealQueryState`, `dealResponseState`, `dealConfirm`, `updateTxConfirm` |
| Miner | `worker/miner.go` | `mining`, `shouldStart` | `Start`, `Stop`, `WorkControl` (pause on sync) |
| Router | `synctrl/*.go` | LRU of rebroadcast budgets per message hash, `AcceptTxs`, the `poolTxsCh` batch | `HandleTxMsg`, `HandleWorkProofMsg`, `HandleProofConfirmMsg`, `HandleGetStateMsg`, `HandleResStateMsg`, `rout*`, `minedRoutingLoop`, `TxsPoolLoop` |
| PeerManager | `network/p2p/peermanager.go` | `peers`, `boots` (connected miners and boot nodes), `closed` | `Start`, `Register`, `unregister`, `Stop` with `close()` |
| Node | `node/node.go` | the component instances | `New`, `Start` (synctrl, peer manager, RPC, then the pool), `Stop` (synctrl, pool, miner, peer manager, RPC, database), `StartMining` |
| SigWorkerPool | `blockchain/types/QuickSigner.go` | round-robin recovery queues | `ASyncValidateSign`, the recovery goroutines |

The parts interact as follows:
- The Router feeds transactions into the TxPool and proofs, confirms, queries and responses into the Worker.
- The Worker drains `pending` into `working[id]` (`Pending`), inserts its proof into UnconfirmedProofs and receives the work back on `confirmCh` when a quorum answers or the entry times out.
- A confirmed, sealed work is appended to WorkPending. Its writer commits blocks in order and calls `WorkEnded`, which moves the work's transactions to `onChain` or back to `pending`.
- The Node starts the components in order, with the pool last, and stops them in order: synctrl, pool, miner, then peer manager. Peers registered with the PeerManager deliver messages to the Router until the peer manager stops.
- Proofs of other miners go through `dealProofEvent`, which advances PeerProofStore and adds the proof's transactions to the pool (`AddTxs`).

## Modules

### `TxPool`

This module models the pool.
- A hash is a model value of `Txs`.
- `known` is `handleKnownTx`. `fullCh` and `verifyCh` are bounded sequences per slot (`Slots`, capacity `ChanCap`).
- `queue` and `pending` are sets. `working` maps a work id to its drained set, with `{}` meaning no entry. `onChain` maps a hash to a block number, with 0 meaning no entry.

| Definition | Code |
|---|---|
| `AddTxCheck(t)` | The first half of `AddTx`: the `DupTx` check. `adds[t]` counts the callers that passed it and have not yet marked the hash. There are at most `AddCallers` of them. |
| `AddTxSend(t)` | The second half: `KnownTxAdd` and `sendToFull`. No lock is held between the two halves, so two concurrent callers can both pass the check. Every non-full slot may be the one chosen, because the probing starts at a random slot. When all slots are full, the call fails and the hash stays marked as seen. |
| `DealTxQueue(i)` | The queue goroutine of one slot. It includes `sendToVerify`, which drops the hand-off when `verifyCh` is full. |
| `DealTxVerify(i)` | The verify goroutine of one slot. `verifyTx` always passes. |
| `Pending(w, drained)` | Any `min(maxtxs, \|pending\|)`-subset of `pending` may be drained, because `sync.Map.Range` has no fixed order. |
| `WorkEnded(w, n, ok)` | Moves the work's transactions to `onChain` or back to `pending`. |
| `FitOnChain(h)` | The eviction pass. |

The queue goroutine does `pending.Store` and then `queue.Delete`. The model does both in one step. Only `DupTx` reads `queue`, and it rejects the hash in either intermediate state, so nothing can tell the two apart.

### `MiningRound` (extends `TxPool`)

This module models one node's rounds, composed with its pool.

Variables:
- `roundState` is the round state and `posted` the parent sent on `newRoundCh`.
- `work[w]` holds a work's parent, number, transactions and `confirmed` flag. A work id is a counter, standing for `time.Now().UnixNano()`.
- `gen[w]` is what the Finalize goroutine wrote on `genCh`.
- `uc[w]` is the UnconfirmedProofs entry.
- `scanning` is an entry that `CheckTimeout` has loaded and not yet deleted.
- `handoff[w]` counts the goroutines sending `w` on `confirmCh`.
- `finalWait[w]` counts the FinalMine goroutines blocked on `genCh`.
- `ending` holds the pending `go work.WorkEnded(false)` calls.
- `wp` and `errored` are WorkPending.
- `committed` is the chain, a sequence of works.
- `fires` is a history variable that counts the hand-offs per entry.
- The stop and start state (`Miner.Start`/`Stop`, `worker.start`/`stop`) is kept in these variables:
  - `mining` and `mineGo` (a `newRoundCh` value received and not yet handled by `NewMineRound`);
  - `loopOn` (`RoutineMine` is running) and `tickerOn` (the ticker goroutine is running);
  - `closed` (the current `newRoundCh` and `confirmCh` are closed by the exit case) and `stopping` (`StopJoin` is still waiting);
  - `stops` (the stop count, capped at `MaxStops`);
  - `sendDead` (the ticker posted on a channel that is now closed);
  - `tmSend` (works whose `CheckTimeout` send on `confirmCh` is pending), `scanStale` (a `CheckTimeout` scan started before the stop) and `panicked` (a send on a closed channel).

Actions:

| Action | Code |
|---|---|
| `TickNewRound` | The 10 ms ticker with `CheckNeedStartMine`: `SetNoError` on an empty errored queue, and the parent from `Top` or the chain head. The period test always passes eventually, so time is left out. |
| `NewMineRound` | The `newRoundCh` receive and `NewMineRound`, which calls `Pending`, `commitTransactions` and `GenerateProof`, then either posts the proof and calls `Insert`, or fails and returns the round to IDLE. |
| `Generate(w)` | The Finalize/GenBlockWithSig goroutine. It may report an error. |
| `Confirm(p, w, a)` | `unconfirmedProofs.Confirm`: a rejecting quorum wins, then the work is sent and the entry deleted. |
| `Expire(w)` | 30 s elapse for an entry. |
| `CheckTimeoutLoad(w)`, `CheckTimeoutFire` | The Range callback of `CheckTimeout`, split where another goroutine can act in between. A send that panics on the closed `confirmCh` delivers nothing, so it does not count in `fires`. |
| `FinalMineStart(w)`, `FinalMineGen(w)` | The `confirmCh` case and `FinalMine` with `WorkPending.Add`. |
| `EndWork(w)` | The asynchronous `WorkEnded(false)`. |
| `RunDrain`, `RunWrite` | `WorkPending.Run`: draining while errored, and writing the head, which may fail. |
| `Ingest`, `Evict` | The pool's input side (client transactions, and the `AddTxs` of other miners' proofs) and its eviction ticker. |
| `NewRoundRecv` | `RoutineMine`'s `newRoundCh` case, which moves the round to Mining and starts `NewMineRound`. |
| `WorkerStop`, `StopJoin` | `Miner.Stop` and `worker.stop`: the exit case of `RoutineMine` closes the channels, stops `unconfirmedProofs` and sets the round to IDLE, then `wg.Wait`, which returns only once no `NewMineRound` or FinalMine goroutine is left (`StopJoin`). A pending send on the closed `confirmCh` panics. |
| `TickerExit`, `TickBusy` | The ticker goroutine: it exits when it finds `newRoundCh` closed, and otherwise skips while a round is running. |
| `WorkerStart` | `Miner.Start` with `worker.start`: new channels and a new `unconfirmedProofs`, and `RoutineMine` is started again. |
| `Top`, `Insert(w)`, `NewUnconfirmedProofs` | `WorkPending.Top` with the ticker's fallback to the chain head, `unconfirmedProofs.Insert`, and `newUnconfirmedProofs`. |
| `KnownAncestor(w)` | `WriteBlockAndState` refuses a block whose parent is unknown. This code is not under `src/`, so it is modelled from the spec. |
| `Done`, `Crashed` | Termination: every round is used and nothing is in flight, or the process has panicked. |

Peers are the environment. A peer answers a proof once, or never.

### `UnconfirmedSpec`, and the refinement

`UnconfirmedSpec` states what the table of unconfirmed proofs promises the round, with no peers, thresholds or timers. A work is `none`, `open`, `handed` or `dropped`, and `handoffs` counts its hand-offs to FinalMine. The actions are:
- `Insert`: into a running table the work becomes open, and into a stopped one it is dropped at once;
- `Hand`: an open work is handed on, once;
- `Stop(keep)`: the open works are dropped, except at most one that a timeout scan has already loaded;
- `Start`;
- `Crash`: everything open is dropped.

`SafetySpec` is the safety part. `Spec` adds weak fairness on each `Hand(w)`: an open work is eventually handed on.

`MiningRound` maps onto it (`UC == INSTANCE UnconfirmedSpec WITH ...`):
- a work is `Inserted` once its id is used, unless its proof failed before `Insert`;
- it is `handed` once `fires[w] > 0`;
- it is `open` while the process is up and its entry is live in a running table, or a scan holds it (`TableOpen`);
- otherwise it is `dropped`;
- `running` is `loopOn /\ ~panicked`, and `up` is `~panicked`.

`UCSafe` (the mapping satisfies `SafetySpec`) replaces the old "never fires twice" invariant, and adds that nothing dropped is ever handed on and that only one loaded entry survives a stop. `UCRefinement` (the mapping satisfies `Spec`) is checked on the liveness model.

### `MCMiningRound`

This module gives the model values `t1`, `t2` (transactions) and `p1`, `p2` (peers), one slot, and two work ids.

### `ProofSync`

This module models how one node checks the proofs of other miners: `dealProofEvent` in `worker_verify.go` and the `eventListener` of `worker.go`.
- `Miners` are the other miners, with proofs `1..MaxNum` each. Every miner is honest, and its root at number `n` is `<<m, n>>`.
- `store[m]` is PeerProofStore. `fifo[m]` is `verifyChMap[m]`. `pc`, `cur` and `local` are the per-sender goroutine's program counter, proof number and `peerProofState` variable.
- `qcache`, `latch` and `waitOn` are `queryCache`, `peerLockMap` and the channel the goroutine's `select` reads. `latch` is "absent", "nil" or "open".
- `listener` is "free", or the miner whose latch the listener is blocked sending on.
- `asked`, `answered` and `resps` are the queries posted, the answers given and the `ResponseState` messages in flight.
- `verdicts` is a history of the confirms posted.
- `txConfirmPool`, `updating` and `updaters` are the worker's confirm counts, its `updating` flag, and the `updateTxConfirm` goroutines spawned and waiting for `txMu` (at most `MaxUpdaters`).
- `onChain[t]` and `confirmCount[t]` say whether the local chain holds `t` and what its receipt's `ConfirmCount` is. `accepts[t]` is a history: the accepted proofs that carry `t` (`ProofTxs`).

| Action | Code |
|---|---|
| `RecvProof(m, n)` | The listener's `WorkProofMsg` case, which queues the proof on `verifyChMap[m]`. When the channel already holds `FifoCap` proofs, the listener blocks on the send (`blocked`). |
| `ListenerPush` | The blocked send completes once the sender's goroutine has taken a proof. |
| `Take(m)` | `dealProofEvent` up to its loop: genesis for proof 1 of an unknown miner, else a query for `n-1`. |
| `Loop(m)` | One pass of the loop: accept and write the store, reject when the store is one behind, or query. |
| `Query(m, k)` | `queryRemoteState` up to its `select`. A nil latch entry is found and used as it is. |
| `Timeout(m)` | The 30 s timer: the latch entry is set to nil and the proof rejected. |
| `Reload(m)` | The store reload after the latch signal. |
| `Respond(r, m, k)` | `dealQueryState` at responder `r`. Each responder answers a query once, because the router drops a repeated hash. |
| `QueryFirstSeen(r, m, k)` | `HandleGetStateMsg` at node `r`: a query is posted to the worker only when its hash is not yet in `handleQueryState`. |
| `ConfirmTxs(m, n)` | The tail of an accepting `dealProofEvent`: under `txMu`, each transaction of the proof gains a confirm in `txConfirmPool`. It is part of `Loop`'s accept branch. |
| `UpdateTimer` | The listener's 1 s timer case, which spawns `updateTxConfirm` unless `updating` is set. The goroutine sets the flag only once it holds `txMu`, so several may be spawned. |
| `UpdateTxConfirm` | `updateTxConfirm` under `txMu`: the pooled confirms of every transaction whose receipt exists are added to it and leave the pool. |
| `TxOnChain(t)` | The local chain writes a block holding `t`. This is the environment, modelled from the spec, because the blockchain's write is not under `src/`. |
| `RecvResp(x)`, `ListenerSend(m)` | `dealResponseState`: the match on `queryCache[sender]`, the store write, and the unbuffered latch send. |

Three constants switch on the environment's freedoms:
- `Reorder` lets proofs of one miner arrive out of order;
- `ThirdParty` lets a miner answer a query about another miner;
- `RaceTimeout` lets the timer fire while the listener holds the latch.

`MCProofSync` gives two miners, `a` and `c`, with `MaxNum = 3`.

### `Router`

This module models the router of `synctrl` over a small network of nodes. `MCRouter` gives it three miners in a triangle, a boot node linked to each, one message and two transactions from two peers.

The four gossip handlers (`HandleWorkProofMsg`, `HandleProofConfirmMsg`, `HandleResStateMsg`, `HandleGetStateMsg`) have the same body over four caches. Hashes of different messages never interact while the LRUs hold them, and they hold 100000. So one action, named after the first handler, stands for all four, and the model floods one message.

Variables:
- `cache[n][m]` is the budget left at node `n`, or `NotCached`;
- `net` is a bag of `<<n, m>>` copies in flight;
- `posted[n][m]` and `routs[n][m]` count the posts to `n`'s worker and the rebroadcasts;
- `acceptTxs` is `SynCtrl.AcceptTxs`;
- `accepted`, `poolTxsCh` and `pooled` are bags of transactions: let through the gate, on their way on `poolTxsCh`, and handed to `AddTxs`;
- `batch` is the `txs` slice of `TxsPoolLoop`.

| Action | Code |
|---|---|
| `Originate(m)` | The origin's worker posts a Rout event, and `minedRoutingLoop` broadcasts it with `routProof` (or a copy) to every peer that is not a boot node. The origin's own cache is not touched. |
| `HandleWorkProofMsg(n, m)` | The handler under the cache's mutex: on the first arrival, post to the worker and take a budget of `defaultRoutCount`; while the budget is positive, rebroadcast and decrement it; else drop. |
| `HandleTxMsg(p, t)` | Dropped while `AcceptTxs` is 0, else a goroutine sends `t` on `poolTxsCh`. The goroutine and the channel together deliver in any order, so `poolTxsCh` is a bag. |
| `SetAcceptTxs` | `Node.StartMining` with local mining sets `AcceptTxs`. |
| `PoolLoopRecv(t)`, `PoolLoopTimer` | The two cases of `TxsPoolLoop`: append and flush a full batch, or flush a non-empty batch on the 500 ms timer. |

The network is reliable in this model; see the hazards for loss.

### `NodeShutdown`

This module models one node from `Node.Start` to `Node.Stop`, together with what still runs while it stops. That is the PeerManager's peer set, which lets peers deliver transactions while the p2p server runs, and the channels of the transaction pool. It also models the miner's start and stop as the RPC server and `Node.Stop` reach them. `StartMining` runs `Miner.Start` in a goroutine of its own, and `Miner.Stop` is called directly. `MCNodeShutdown` gives it two pool threads, one transaction, a miner `p1` and a boot node `b1` that may connect, and two addresses for `shxerbase`: `a1` has a wallet and `a2` has none.

Variables:
- `node` is the stage `Start` or `Stop` has reached: `new`, `started` (everything up to the pool), `running`, then the stop stages `txpool`, `txwait`, `miner`, `peers`, `rest` and `stopped`;
- `serverUp`, `closed`, `peers` and `boots` are the PeerManager's;
- `arrived` holds the transactions peers sent, and `adding` those an `AddTxs` goroutine has still to add. `TxsPoolLoop`'s batching between the two is the Router's;
- `fullCh[i]`, `verifyCh[i]` are the buffered contents of each thread's channels, and `holding[i]` is what the `fullCh` reader has received but not yet sent on;
- `closedChs` and `toClose` are the channels the pool's loop has closed and has yet to close;
- `loop`, `dealers` (the `dealwg` readers) and `invalidUp` (`dealInvalid`) are the pool's goroutines;
- `known`, `queue` and `pending` are the pool's sets. `admitted` is a history of every transaction sent into a `fullCh`. `poolStopped` is `STOPPED`;
- `panicked` is the channel whose send killed the process, or `none`. Every action is disabled once it is set;
- `shxerbase` and `signer` are the node's coinbase and the signer `Prometheus.Authorize` set;
- `starters[k]` is where the `k`-th in-flight `Miner.Start` goroutine is (`spawned`, `flagged`, or `idle` once it has ended), and `starterEb[k]` is the coinbase it was given;
- `minerMining`, `controlStarted` are `Miner.mining` and `Miner.controlStarted`; `workerMining` and `workerCoinbase` are `worker.mining` and `worker.coinbase`;
- `stopping` holds the `Miner.Stop` calls (`rpc`, `node`) that have done `worker.stop` but not yet their stores;
- `lastCall` is a history variable: the last call that started (`StartMining`) or stopped (`Miner.Stop`) the miner.

| Action | Code |
|---|---|
| `NodeStart`, `PoolStart` | `Node.Start`: WorkerInit, `SynCtrl.Start`, `PeerManager.Start`, the RPC manager; then `TxPool.Start`, which starts the loop, two readers per thread and `dealInvalid`. |
| `MinerAPIStart` with `StartMining` | `miner_start` calls `Node.StartMining(true)` only if `IsMining()` is false (`startNode`'s call comes while it is). With no wallet for `shxerbase` the call returns an error; otherwise the engine is authorized, `AcceptTxs` is stored, and `go s.miner.Start(eb)` spawns a starter. |
| `MinerAPISetShxerbase(a)` | `miner_setShxerbase`, under the node's lock, which `Node.Stop` holds. |
| `MinerStartFlags(k)`, `MinerStartWorker(k)` | The `Miner.Start` goroutine: `controlStarted`, the worker's coinbase and `Miner.mining`, then `worker.start` under `worker.mu`, which returns if the worker mines. `canStart` stays 1 because no sync event is ever posted. |
| `MinerStop(c)`, `MinerStopDone(c)` | `Miner.Stop` from `miner_stop` (`c = rpc`) or from `Node.Stop` (`c = node`): `worker.stop` under `worker.mu`, which ends `RoutineMine` if the worker mines. Its `wg.Wait` also joins the round's FinalMine goroutines; this module does not contain them, so here it returns at once (`MiningRound` checks whether it does, `StopCompletes`); then `Miner.mining` is cleared. For `Node.Stop` the next stage is the PeerManager. |
| `Register(p)`, `Unregister(p)` | The peer set: a boot node joins `boots` and a miner joins `peers`, and nothing joins once the set is closed. Removal is from both. |
| `HandleTxMsg(p, t)` | A connected peer's transaction passes the `AcceptTxs` gate to an `AddTxs` goroutine, while the server runs. |
| `AddTx(t)` | `DupTx`, `KnownTxAdd` and the probe of `sendToFull` from a random index. The first closed or non-full `fullCh` ends the probe: it panics on a closed channel and sends otherwise. If all are full, the call fails. |
| `DealTxFull(i)`, `SendToVerify(i)`, `DealTxFullExit(i)` | The `fullCh` reader receives (buffered transactions first, even once the channel is closed) and stores in `queue`. Then `sendToVerify` panics on a closed `verifyCh` and drops the transaction on a full one. The reader returns on a closed, drained channel. |
| `DealTxVerify(i)`, `DealTxVerifyExit(i)` | The `verifyCh` reader moves the transaction from `queue` to `pending`, and returns on a closed, drained channel. |
| `StopSynCtrl` | `SynCtrl.Stop` unsubscribes the routing loops. `HandleTxMsg` and `TxsPoolLoop` keep running. |
| `TxPoolStopSend`, `LoopClose`, `LoopWait`, `DealInvalidExit`, `TxPoolStopWait` | `TxPool.Stop` sends on `stopCh`. The loop closes `invalidTxCh`, then `fullCh[i]` and `verifyCh[i]` thread by thread, one per step, and waits on `dealwg`. `Stop` waits on `wg` and stores `STOPPED`. |
| `PeerManagerStop` | `server.Stop`, then `close()`: the set is closed. |
| `NodeStopRest` | The RPC manager and the database stop, and `n.stop` is closed, which releases `Node.Wait`. |

## Runs

| Run | cfg | Expect | What it shows |
|---|---|---|---|
| `round_safety` | `MCMiningRound.cfg` | pass | Proof signing, sealing and block writes may all fail, and confirms come in time or never. A transaction is in one place at a time (`TxExclusive`). The round refines the safety part of `UnconfirmedSpec` (`UCSafe`): no entry is handed to FinalMine twice, and nothing the table dropped is handed on. Written blocks form one chain (`CommitChainLinked`). No transaction is written twice and each is recorded at its block's number (`TxCommittedOnce`). The miner may be stopped and started once at any point. |
| `round_liveness` | `MCMiningRoundLive.cfg` | pass | Proof signing succeeds and the miner is never stopped. Every drained transaction leaves `working` (`DrainedTxsSettle`), every round returns to IDLE (`RoundReturnsToIdle`), and a write error always heals (`WorkPendingSelfHeals`). The round refines `UnconfirmedSpec` with its fairness (`UCRefinement`): each inserted work is handed on exactly once. |
| `restart_round_stuck` | `MCMiningRoundRestart.cfg` | violation | A ticker tick that lands after the exit case leaves the round in PostMining, so no round starts after `Start`. |
| `late_confirm_stop_hang` | `MCMiningRoundStopHang.cfg` | violation | A confirm that arrives after `CheckTimeout` has loaded the expired entry makes both hand the work to FinalMine. The second FinalMine waits on a `genCh` the first one emptied, so a later `miner_stop` never gets past `wg.Wait` in `worker.stop` (`StopCompletes`). |
| `add_race_readmit` | `MCMiningRoundAddRace.cfg` | violation | Two concurrent `AddTx` callers both pass `DupTx` before either marks the hash, so it is sent twice and ends up in `queue` and `pending` at once (`TxExclusive`). |
| `proof_sync` | `MCProofSync.cfg` | pass | Proofs arrive in order or are lost, and only the queried miner answers. `verifyChMap` holds one proof, so the listener can block on a full channel while that sender waits for an answer that only the listener delivers. The 30 s timeout breaks this cycle, and the listener is never blocked for good (`ListenerNeverStuck`); `listener_latch_stuck` shows that third-party answers break it. The first proof of each miner carries a transaction `t1`. Its confirms are never lost or counted twice between `txConfirmPool` and the receipt (`ConfirmCountsKept`), and once `t1` is on the local chain they reach its receipt (`ConfirmsReachReceipts`). |
| `router_flood` | `MCRouter.cfg` | pass | No node rebroadcasts a hash more than `defaultRoutCount` times, and the cached budget is what is left (`RebroadcastBudget`, spec property 7). Once broadcast, every miner's worker receives the message exactly once (`FloodReachesAll`). This includes the origin, to which the first echo comes back as new. Every transaction past the sync gate reaches `AddTxs` exactly once, through a full batch or the timer (`TxEventuallyPooled`). Deadlock is not checked, because the router idles once the flood and the batches are done. |
| `listener_latch_stuck` | `MCProofSyncStuck.cfg` | violation | Any miner may answer a query from its own store, as `dealQueryState` does. An answer of `c` about another miner, at the number of an earlier, answered query about `c`, is matched to that query; the listener sends on `c`'s latch, where no goroutine waits, and blocks forever (`ListenerNeverStuck`). The cfg disables the deadlock check, so TLC reports the liveness violation rather than the resulting stop. |
| `query_latch_nil` | `MCProofSyncLatch.cfg` | violation | After one timeout, every query about that miner times out even when its answer arrived. |
| `node_shutdown` | `MCNodeShutdown.cfg` | pass | The node starts and stops once while peers connect, send and disconnect. `TxPool.Stop` always returns unless a send on a closed channel has killed the process (`PoolStopReturns`). When it returns, every transaction that entered a `fullCh` is in `pending` and `queue` is empty (`PoolDrainedOnStop`), because the readers drain the closed channels before `dealwg` releases the loop. A successful `StartMining` makes the worker mine unless a `Miner.Stop` begins first or the process ends (`MinerStartTakesEffect`). That `Node.Stop` as a whole returns is not claimed: its `Miner.Stop` can hang (finding 1). Deadlock is not checked, because the process exits after `Node.Stop` returns or after a panic. |
| `node_stop_panic` | `MCNodeShutdownPanic.cfg` | violation | A late `AddTxs`, or a `fullCh` reader holding a transaction, sends on a channel the pool's loop has already closed, and the process panics inside `Node.Stop` (`NoSendOnClosedChannel`). |
| `miner_stop_late_start` | `MCNodeShutdownMiner.cfg` | violation | `miner_stop` is handled while the `Miner.Start` goroutine of an earlier `miner_start` has not started the worker; it finds the worker idle and returns `true`. The goroutine then starts the worker, which mines after the stop (`NoMiningAfterStop`). Finding 12 gives the orderings in which `Mining()` also reports false. |

Each property of a passing run has a mutant in `PROJECT.json`: a plausible fault in one mapped definition, under which TLC finds the property violated. The fault variants are the operators defined just before the definition they replace.

### Bounds

The bounds are two transactions, two peers, two work ids, one slot with channel capacity 1, `BlockMaxTxs = 1` and `Threshold = 1`. They are enough because:
- With two rounds, a second round can build on a first one still in WorkPending. This is the case that the chain-link property and the errored drain are about.
- With two transactions, one can be re-admitted while the other is mined.
- With two peers, an accepting and a rejecting answer can race.
- `MCMiningRoundKnown.cfg` (finding 2) sets `MaxKnown = 1`, the smallest limit, so a clear happens on the second hash.

`AddCallers = 1` in every `MiningRound` run except the race run, which sets it to 2: two callers are the fewest for the race.

For `Router`, a triangle is the smallest network in which a node receives copies of one message from two peers, so the budget is spent past its first unit. The boot node, linked to every miner, exercises the boot-node filter. `TxCap = 2` with two transactions from two peers makes both the full-batch flush and the timer flush happen.

For `ProofSync`, two miners let a third party answer. `proof_sync` delivers proofs in order: with `Reorder = TRUE` it takes more than 15 minutes, and order only matters for the stored number (finding 4). It lets only the queried miner answer, so `ListenerNeverStuck` is checked there for the full-channel cycle alone; `listener_latch_stuck` lets third parties answer and finds it violated. `MaxUpdaters = 2` in `proof_sync` lets a second `updateTxConfirm` be spawned before the first runs. The violation runs carry no transactions and set it to 0. `FifoCap` is 1 in `proof_sync`, so the listener fills a channel with one proof, and 3 in the violation runs, where the channel never fills. Three proofs are the fewest for which a catch-up query (for proof 3 at store 1) can meet a late answer and reordering.

`MaxStops = 1` in `late_confirm_stop_hang`, so the miner is stopped after the double fire. `MaxStops = 1` in the safety run covers a stop at any point of a round and a start after it. The liveness run sets `MaxStops = 0`, because a miner that is stopped and never started again legitimately makes no progress.

For `NodeShutdown`, two threads are the fewest for which the loop has closed one `fullCh` and not the other, so the random probe of `AddTx` matters. One transaction is enough to be in flight at any point of the closing. A second one, with the miner's state beside the pool's, gives more than a million states and a liveness check past the time a run may take. Each channel holds two transactions, more than there are, so no send finds one full. The code's hold 2000000, and at capacity 1 the drop in `sendToVerify` would break `PoolDrainedOnStop` (see the hazards). One miner and one boot node cover both branches of `Register`. `MaxStarts = 1`: one `Miner.Start` goroutine in flight is all the stop/start race needs, and a second `miner_start` in that window is not explored. `a2` has no wallet, so `StartMining` after `miner_setShxerbase(a2)` fails.

For `MiningRound`, a third round multiplies the state space by about 30 and takes over 7 minutes.

### Fairness

Every goroutine of the worker, the pool and the writer is weakly fair, because each one loops on a ticker or a channel. The actions covered are:
- `TickNewRound` and `NewMineRound`;
- Finalize;
- `CheckTimeout` (its 5 s ticker) and the passing of time (`Expire`);
- the FinalMine steps and the asynchronous `WorkEnded`;
- the writer;
- the pool routines, including the second half of each `AddTx` call that has passed its check.

`WorkerStop` and `WorkerStart` are not fair, because they are calls from the node (sync) or the user, which may never come. `StopJoin` and `TickerExit` are fair.

Peers are not fair: a peer may never answer. Liveness comes only from the timeout.

In `Router`, each peer's read loop (one handler call per arrival), `TxsPoolLoop` and its timer are weakly fair. The origin, the peers that send transactions and the sync gate are the environment.

In `ProofSync`, each per-sender goroutine, its timer, the listener's latch send, its blocked `verifyChMap` send, its 1 s timer and the `updateTxConfirm` goroutine are weakly fair. The local chain's writes are not, because a transaction of another miner may never be mined here. The network and the responders are not, because a message may be lost.

In `NodeShutdown`, these are weakly fair: every goroutine of the pool, each `AddTxs` and `Miner.Start` goroutine, a `Miner.Stop` call once begun, and the goroutine running `Node.Stop` after its first step. Starting the node, connecting peers, sending transactions, the RPC calls and the signal that calls `Node.Stop` are the environment, and are not fair. A goroutine stops when the process exits after `Node.Stop`.

## Findings

1. `unconfirmed.go:111`. `CheckTimeout` sends the work of an entry it loaded without checking that `Confirm` has not already fired it. This breaks the spec's "never fires twice" (`MCMiningRoundLate.cfg`, `NoDoubleFire`). The second FinalMine then waits on `genCh` (`worker_mine.go:273`), which the first one emptied, and `worker.stop`'s `wg.Wait` (`worker.go:215`) waits for it for good: `miner_stop` never returns, nor does `Node.Stop`, which holds `n.lock` (`late_confirm_stop_hang`).
2. `tx_pool.go:238`. `DupTx` ignores `working`, so after `handleKnownTx` is cleared, a transaction being mined is admitted again. This breaks spec invariant 2. `MCMiningRoundKnown.cfg` reproduces it (`TxExclusive` is violated). It is no longer one of the project's runs, because the clear is one sequential call that a unit test with a small limit reaches.
3. `worker_mine.go:216`. When `GenerateProof` fails after `Pending`, the drained transactions are leaked in `working`. `MCMiningRoundSignFail.cfg` reproduces it (`DrainedTxsSettle` is violated), but it is not one of the project's runs.
4. `worker_verify.go:172`. The accept path writes the proof's number over whatever the store holds. The check at lines 270-274 is commented out. Reordered proofs therefore lower the store, which breaks spec invariant 3. `MCProofSyncReorder.cfg` reproduces it (`StoreMonotonic` is violated), but it is no longer one of the project's runs: one out-of-order delivery reaches it, so a unit test can too.
5. `worker_verify.go:260`. `queryCache` is keyed by the responder, so a third party's answer is stored as its own state. `MCProofSyncThird.cfg` reproduces the rejection this causes (`NoSpuriousReject` is violated), but it is not one of the project's runs. Its worse effect is finding 6.
6. `worker_verify.go:289`. The unbuffered latch send can block the listener forever. The latch entry of a miner stays a channel after its query is answered. A later answer from that miner about another miner, at the same number, is matched to it (finding 5), and the send has no receiver (`listener_latch_stuck`). A timer that fires between the listener's read of the latch and its send has the same effect (`MCProofSyncRace.cfg`, no longer a run). Then no proof, query, response or receipt update is handled again.
7. `worker_verify.go:69`. A nil latch entry left by a timeout makes every later query time out.
8. `worker_mine.go:107`. The ticker sets PostMining and posts on `newRoundCh` without checking that the loop is still running. If the exit case has closed the channel, the send fails and the round stays in PostMining, so after `Start` no round ever begins.
9. `unconfirmed.go:111`. `Stop` does not wait for `CheckTimeout`. A send on `confirmCh` that is pending when the exit case closes it panics and brings the node down. `MCMiningRoundStop.cfg` reproduces it (`NoSendOnClosedChannel` of `MiningRound` is violated). It is no longer one of the project's runs: finding 11 checks the same panic-on-close pattern as a run.
10. `tx_pool.go:323`. `AddTx` checks `DupTx` and marks the hash with no lock in between. `TxsPoolLoop` (`go AddTxs`) and each per-sender `dealProofEvent` call it concurrently, so the same hash is queued twice and sits in `queue` and `pending` at once.
11. `tx_pool.go:193`. On `stopCh` the pool's loop closes `fullCh[i]` and `verifyCh[i]` while senders still run. `Node.Stop` stops the pool before the PeerManager, so peers still deliver transactions, and `TxsPoolLoop` is never stopped. A later `AddTxs` probes a closed `fullCh`, or a `fullCh` reader sends on a `verifyCh` closed after its receive. A send on a closed channel panics even inside a `select` with a `default` case, so the process dies in the middle of `Node.Stop`, before the database is closed.
12. `node.go:556`. `StartMining` runs `Miner.Start` in a goroutine and returns, so `miner_start` returns before anything is set. A `miner_stop` handled before the goroutine runs finds the worker idle, returns `true`, and the goroutine then starts the worker. If the goroutine stores `Miner.mining` before `Stop` clears it, `Mining()` reports false while `RoutineMine` runs. The `Miner.Stop` inside `Node.Stop` can be undone in the same way.

## Plan for the remaining parts (most important first)

1. **ProofSync** is done, including `txConfirmPool` and `updateTxConfirm`, except for re-mined proofs. `AddTx` is split per caller.
2. **MinerControl** is modelled inside `MiningRound` (stop, the exit case, the ticker's exit, and start). The asynchronous `Miner.Start` of `StartMining`, racing `Miner.Stop`, is modelled in `NodeShutdown`. `WorkControl` is left out: no `StartEvent` or `DoneEvent` is posted anywhere in `src/`, so the sync pause is dead code.
3. **Router** is modelled in `Router`: the rebroadcast budget, `minedRoutingLoop`, the sync gate and `TxsPoolLoop`. Its query dedup is `QueryFirstSeen` in `ProofSync`. `QueryStateMsg.Hash` covers the data and a deterministic signature, so a repeated query reaches a responder's worker at most once, and a retried query is never answered. Left out: `SynCtrl.Start` and `Stop`, which only subscribe and unsubscribe the routing loops, LRU eviction, and message loss.
4. **SigWorkerPool**: `ASyncValidateSign` is called only from `ASynrecoverPlain`, which nothing under `src/` calls, so no task ever reaches its queues. Its recovery goroutine would throw the result away anyway. No state of the node depends on it, so there is nothing to check.
5. The refinement of `UnconfirmedSpec` is done. Still open, each needing a run of its own: the drop in `sendToVerify` (`tx_pool.go:267`), the eviction pass (`tx_pool.go:222`), an `AddTx` that fails after marking the hash (`tx_pool.go:340`), and the router's rebroadcast budget (`handlemessage.go:205`).
6. **Node shutdown** is modelled in `NodeShutdown`, with the PeerManager's peer set and the miner's RPC start and stop. Open: two starts around a `miner_setShxerbase` leaving the signer and the worker's coinbase on different addresses (it needs a second wallet account). Left out: `Node.Restart`, which nothing calls, and which would panic on the second `close(n.stop)` and on the `nil` server that `PeerManager.Stop` leaves. Also left out: a second `Node.Stop`.

## Not modelled

These parts are not modelled:
- encoding, hashing and signatures (`blockchain/types`);
- the p2p layer below the PeerManager (socket I/O, where the peers are the environment), `SetLocalType`, and the PeerManager's read-only queries;
- RPC and configuration parsing, and the node wiring outside `Start`, `Stop` and the miner calls. `ImportChain` and `ExportChain` drive the blockchain package, which is not under `src/`; `StorageRangeAt` is commented out; `Content` and `Stats` are reads (their non-atomic snapshot is a hazard);
- the consensus engine beyond the success or failure of proof generation and sealing.
