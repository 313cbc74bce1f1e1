----------------------------- MODULE MiningRound -----------------------------
(***************************************************************************)
(* The mining round of one node: src/worker/worker_mine.go (round state    *)
(* machine, NewMineRound, FinalMine), src/worker/unconfirmed.go (the       *)
(* confirm aggregator and its timeout checker) and                         *)
(* src/worker/work_pending.go (the queue of confirmed works and its block  *)
(* writer), composed with the transaction pool of TxPool.                  *)
(*                                                                         *)
(* A work is named by its id (time.Now().UnixNano() in the code, an        *)
(* increasing counter here).  Its proof goes to the other miners, whose    *)
(* confirms are the environment: any peer may accept or reject a proof     *)
(* once, or stay silent.  Time is abstracted to Expire(w), the 30 s        *)
(* waitConfirmTimeout of an entry elapsing.  The chain is the sequence of  *)
(* works WriteBlockAndState accepted; its head is the last of them.        *)
(***************************************************************************)
EXTENDS TxPool

CONSTANTS
    Peers,          \* the other mining peers that confirm our proofs
    Threshold,      \* quorum handed to Insert: MinerNumber/2+1-1
    BlockMaxTxs,    \* blockMaxTxs: most transactions drained per round
    LateConfirms,   \* may a confirm arrive after its entry's 30 s elapsed?
    GenMayFail,     \* may Finalize/GenBlockWithSig report an error on genCh?
    WriteMayFail,   \* may WriteBlockAndState fail?
    ProofMayFail,   \* may GenerateProof or SignData fail in NewMineRound?
    MaxStops        \* how many times miner_stop may stop the worker

ASSUME
    /\ WorkIds = 1..Cardinality(WorkIds)
    /\ Threshold \in 1..Cardinality(Peers)
    /\ BlockMaxTxs \in Nat \ {0}
    /\ {LateConfirms, GenMayFail, WriteMayFail, ProofMayFail} \subseteq BOOLEAN
    /\ MaxStops \in Nat

MaxRounds == Cardinality(WorkIds)
Genesis == 0                       \* the genesis header as a parent
NoWork == 0                        \* no entry being scanned

VARIABLES
    roundState, \* worker.roundState: IDLE, PostMining or Mining
    posted,     \* the parent header posted on newRoundCh
    nextId,     \* the id the next work gets
    work,       \* work[w]: parent, number, block txs and the confirmed flag
    gen,        \* gen[w]: what the Finalize goroutine wrote on work.genCh
    uc,         \* unconfirm_mine.proofs: the entry of w's proof
    scanning,   \* the entry CheckTimeout has loaded and not yet deleted
    handoff,    \* handoff[w]: goroutines sending w on confirmCh
    finalWait,  \* finalWait[w]: FinalMine goroutines blocked on w.genCh
    ending,     \* works with a `go work.WorkEnded(false)` not yet run
    wp,         \* workPending.Pending
    errored,    \* workPending.errored
    committed,  \* works written to the chain, in order
    fires,      \* history: how often w's entry was handed to confirmCh
    mineGo,     \* a NewMineRound goroutine has been started and not finished
    mining,     \* worker.mining: RoutineMine has been started and not stopped
    loopOn,     \* the RoutineMine select loop (and unconfirm_mine.RoutineLoop) runs
    tickerOn,   \* a round ticker goroutine runs
    closed,     \* the current confirmCh and newRoundCh are closed
    stopping,   \* worker.stop is in wg.Wait after the exit case ran
    stops,      \* how many times the worker was stopped
    sendDead,   \* the newRoundCh send of a PostMining round panicked
    tmSend,     \* works whose confirmCh send comes from CheckTimeout
    scanStale,  \* the running CheckTimeout holds an already closed confirmCh
    panicked    \* an unrecovered send on a closed channel killed the process

ctlVars == <<mineGo, mining, loopOn, tickerOn, closed, stopping, stops,
             sendDead, tmSend, scanStale, panicked>>
workerVars == <<roundState, posted, nextId, work, gen, uc, scanning, handoff,
                finalWait, ending, wp, errored, committed, fires, ctlVars>>
vars == <<poolVars, workerVars>>

NoEntry == [live |-> FALSE, acc |-> {}, rej |-> {}, expired |-> FALSE]
Parents == {Genesis} \cup WorkIds

Num(w) == IF w = Genesis THEN 0 ELSE work[w].num

ChainHead == IF committed = <<>> THEN Genesis ELSE committed[Len(committed)]

(* WorkPending.Top: the newest pending work, or nil when the queue is     *)
(* empty (or errored, which the caller has just reset); the ticker then   *)
(* falls back to the chain head.                                          *)
Top == IF wp # <<>> THEN wp[Len(wp)] ELSE ChainHead

(* unconfirmedProofs.Insert: a new entry with empty accept and reject     *)
(* sets.  The signature hash is new for every work, so the Load check     *)
(* never finds one.                                                       *)
Insert(w) == [uc EXCEPT ![w] = [NoEntry EXCEPT !.live = TRUE]]

(* newUnconfirmedProofs: an empty table.                                  *)
NewUnconfirmedProofs == [w \in WorkIds |-> NoEntry]

TypeOK ==
    /\ PoolTypeOK
    /\ roundState \in {"IDLE", "PostMining", "Mining"}
    /\ posted \in Parents
    /\ nextId \in 1..MaxRounds + 1
    /\ work \in [WorkIds -> [parent : Parents, num : 0..MaxRounds,
                             txs : SUBSET Txs, confirmed : BOOLEAN]]
    /\ gen \in [WorkIds -> {"none", "ok", "err", "taken"}]
    /\ uc \in [WorkIds -> [live : BOOLEAN, acc : SUBSET Peers,
                           rej : SUBSET Peers, expired : BOOLEAN]]
    /\ scanning \in {NoWork} \cup WorkIds
    /\ handoff \in [WorkIds -> Nat]
    /\ finalWait \in [WorkIds -> Nat]
    /\ ending \subseteq WorkIds
    /\ wp \in Seq(WorkIds)
    /\ errored \in BOOLEAN
    /\ committed \in Seq(WorkIds)
    /\ fires \in [WorkIds -> Nat]
    /\ {mineGo, mining, loopOn, tickerOn, closed, stopping, sendDead,
        scanStale, panicked} \subseteq BOOLEAN
    /\ stops \in 0..MaxStops
    /\ tmSend \subseteq WorkIds

Init ==
    /\ PoolInit
    /\ roundState = "IDLE"
    /\ posted = Genesis
    /\ nextId = 1
    /\ work = [w \in WorkIds |-> [parent |-> Genesis, num |-> 0,
                                  txs |-> {}, confirmed |-> FALSE]]
    /\ gen = [w \in WorkIds |-> "none"]
    /\ uc = NewUnconfirmedProofs
    /\ scanning = NoWork
    /\ handoff = [w \in WorkIds |-> 0]
    /\ finalWait = [w \in WorkIds |-> 0]
    /\ ending = {}
    /\ wp = <<>>
    /\ errored = FALSE
    /\ committed = <<>>
    /\ fires = [w \in WorkIds |-> 0]
    /\ mineGo = FALSE
    /\ mining = TRUE       \* StartMining at boot: worker.start ran RoutineMine
    /\ loopOn = TRUE
    /\ tickerOn = TRUE
    /\ closed = FALSE
    /\ stopping = FALSE
    /\ stops = 0
    /\ sendDead = FALSE
    /\ tmSend = {}
    /\ scanStale = FALSE
    /\ panicked = FALSE

-----------------------------------------------------------------------------
(* Fault variants of TickNewRound: the parent is always the chain head,  *)
(* ignoring works still waiting in WorkPending; the errored latch is not   *)
(* reset by SetNoError.                                                   *)
TickNewRoundFromHead ==
    /\ tickerOn
    /\ roundState = "IDLE"
    /\ ~(errored /\ wp # <<>>)
    /\ nextId <= MaxRounds \/ errored
    /\ errored' = FALSE
    /\ IF nextId <= MaxRounds
         THEN /\ roundState' = "PostMining"
              /\ posted' = ChainHead
              /\ sendDead' = closed
         ELSE UNCHANGED <<roundState, posted, sendDead>>
    /\ UNCHANGED <<poolVars, nextId, work, gen, uc, scanning, handoff,
                   finalWait, ending, wp, committed, fires, mineGo, mining,
                   loopOn, tickerOn, closed, stopping, stops, tmSend,
                   scanStale, panicked>>

TickNewRoundNoReset ==
    /\ tickerOn
    /\ roundState = "IDLE"
    /\ ~(errored /\ wp # <<>>)
    /\ nextId <= MaxRounds
    /\ roundState' = "PostMining"
    /\ posted' = IF wp # <<>> THEN wp[Len(wp)] ELSE ChainHead
    /\ sendDead' = closed
    /\ UNCHANGED <<poolVars, nextId, work, gen, uc, scanning, handoff,
                   finalWait, ending, wp, errored, committed, fires, mineGo,
                   mining, loopOn, tickerOn, closed, stopping, stops, tmSend,
                   scanStale, panicked>>

(* The 10 ms ticker goroutine of RoutineMine when the round is IDLE, with *)
(* CheckNeedStartMine: an errored WorkPending that has drained is reset;  *)
(* one that still holds works blocks the round.  The parent is the last   *)
(* work waiting to be written, else the chain head; it is sent on         *)
(* newRoundCh from a new goroutine, which panics (recovered) when the     *)
(* channel is already closed, leaving the round PostMining.  The period   *)
(* test is always met eventually, so time does not appear.  Rounds stop   *)
(* at the model bound MaxRounds.                                          *)
TickNewRound ==
    /\ tickerOn
    /\ roundState = "IDLE"
    /\ ~(errored /\ wp # <<>>)
    /\ nextId <= MaxRounds \/ errored
    /\ errored' = FALSE
    /\ IF nextId <= MaxRounds
         THEN /\ roundState' = "PostMining"
              /\ posted' = Top
              /\ sendDead' = closed
         ELSE UNCHANGED <<roundState, posted, sendDead>>
    /\ UNCHANGED <<poolVars, nextId, work, gen, uc, scanning, handoff,
                   finalWait, ending, wp, committed, fires, mineGo, mining,
                   loopOn, tickerOn, closed, stopping, stops, tmSend,
                   scanStale, panicked>>

(* The ticker goroutine receives the parent from newRoundCh, sets the     *)
(* round Mining and starts the NewMineRound goroutine (wg.Add(1)).        *)
NewRoundRecv ==
    /\ tickerOn
    /\ ~closed
    /\ roundState = "PostMining"
    /\ ~sendDead
    /\ ~mineGo
    /\ roundState' = "Mining"
    /\ mineGo' = TRUE
    /\ UNCHANGED <<poolVars, posted, nextId, work, gen, uc, scanning, handoff,
                   finalWait, ending, wp, errored, committed, fires, mining,
                   loopOn, tickerOn, closed, stopping, stops, sendDead, tmSend,
                   scanStale, panicked>>

(* The NewMineRound goroutine: a work on top of the posted parent drains  *)
(* pending (txpool.Pending) and every drained transaction is applied      *)
(* (ApplyTransaction always succeeds).  Then either the proof is          *)
(* generated, broadcast and inserted into unconfirm_mine, Finalize        *)
(* starts and the goroutine sets the round Mining; or GenerateProof or    *)
(* SignData fails (the signer's account is locked), no Finalize goroutine *)
(* is started and the goroutine sets the round IDLE.  Either way it       *)
(* overwrites what the round state was meanwhile.                         *)
NewMineRound ==
    /\ mineGo
    /\ LET w == nextId IN
         \E drained \in Drainable(BlockMaxTxs) :
            /\ Pending(w, drained)
            /\ work' = [work EXCEPT ![w] = [parent |-> posted, num |-> Num(posted) + 1,
                                            txs |-> drained, confirmed |-> FALSE]]
            /\ nextId' = w + 1
            /\ \/ /\ uc' = Insert(w)
                  /\ roundState' = "Mining"
                  /\ UNCHANGED gen
               \/ /\ ProofMayFail
                  /\ gen' = [gen EXCEPT ![w] = "taken"]
                  /\ roundState' = "IDLE"
                  /\ UNCHANGED uc
    /\ mineGo' = FALSE
    /\ UNCHANGED <<known, fullCh, verifyCh, queue, adds, onChain, posted,
                   scanning, handoff, finalWait, ending, wp, errored, committed,
                   fires, mining, loopOn, tickerOn, closed, stopping, stops,
                   sendDead, tmSend, scanStale, panicked>>

(* The Finalize / GenBlockWithSig goroutine writes its result on genCh.   *)
Generate(w) ==
    /\ w < nextId
    /\ gen[w] = "none"
    /\ \E r \in IF GenMayFail THEN {"ok", "err"} ELSE {"ok"} : gen' = [gen EXCEPT ![w] = r]
    /\ UNCHANGED <<poolVars, roundState, posted, nextId, work, uc, scanning,
                   handoff, finalWait, ending, wp, errored, committed, fires, ctlVars>>

(* unconfirmedProofs.Confirm, reached through dealConfirm from the        *)
(* RoutineMine loop for a confirm of peer p on our proof w.  A peer       *)
(* answers a proof once.  When either count reaches the threshold the     *)
(* work's confirmed flag is set (a rejecting quorum wins), the work is    *)
(* sent on confirmCh from a new goroutine and the entry deleted.          *)
Confirm(p, w, accept) ==
    /\ loopOn
    /\ uc[w].live
    /\ p \notin uc[w].acc \cup uc[w].rej
    /\ LateConfirms \/ ~uc[w].expired
    /\ LET acc == IF accept THEN uc[w].acc \cup {p} ELSE uc[w].acc
           rej == IF accept THEN uc[w].rej ELSE uc[w].rej \cup {p}
       IN IF Cardinality(acc) >= Threshold \/ Cardinality(rej) >= Threshold
            THEN /\ work' = [work EXCEPT ![w].confirmed = Cardinality(rej) < Threshold]
                 /\ handoff' = [handoff EXCEPT ![w] = @ + 1]
                 /\ fires' = [fires EXCEPT ![w] = @ + 1]
                 /\ uc' = [uc EXCEPT ![w] = NoEntry]
            ELSE /\ uc' = [uc EXCEPT ![w].acc = acc, ![w].rej = rej]
                 /\ UNCHANGED <<work, handoff, fires>>
    /\ UNCHANGED <<poolVars, roundState, posted, nextId, gen, scanning,
                   finalWait, ending, wp, errored, committed, ctlVars>>

(* waitConfirmTimeout seconds pass for the entry of w.                    *)
Expire(w) ==
    /\ uc[w].live
    /\ ~uc[w].expired
    /\ uc' = [uc EXCEPT ![w].expired = TRUE]
    /\ UNCHANGED <<poolVars, roundState, posted, nextId, work, gen, scanning,
                   handoff, finalWait, ending, wp, errored, committed, fires, ctlVars>>

(* CheckTimeout, started by the 5 s ticker of unconfirm_mine.RoutineLoop, *)
(* first half: the Range callback loads an expired entry.                 *)
CheckTimeoutLoad(w) ==
    /\ loopOn
    /\ scanning = NoWork
    /\ uc[w].live
    /\ uc[w].expired
    /\ scanning' = w
    /\ UNCHANGED <<poolVars, roundState, posted, nextId, work, gen, uc,
                   handoff, finalWait, ending, wp, errored, committed, fires, ctlVars>>

(* Fault variant of CheckTimeoutFire: the expired entry is deleted and  *)
(* its work is never sent on confirmCh.                                   *)
CheckTimeoutFireNoSend ==
    /\ scanning # NoWork
    /\ uc' = [uc EXCEPT ![scanning] = NoEntry]
    /\ scanning' = NoWork
    /\ scanStale' = FALSE
    /\ panicked' = (panicked \/ closed \/ scanStale)
    /\ UNCHANGED <<poolVars, roundState, posted, nextId, work, gen, handoff,
                   finalWait, ending, wp, errored, committed, fires, mineGo,
                   mining, loopOn, tickerOn, closed, stopping, stops, sendDead,
                   tmSend>>

(* CheckTimeout, second half: the loaded work is sent on confirmCh from a *)
(* new goroutine, with its confirmed flag as it is, and the key deleted.  *)
(* That goroutine has no recover: on a closed confirmCh it panics and the *)
(* process dies.                                                          *)
CheckTimeoutFire ==
    /\ scanning # NoWork
    /\ uc' = [uc EXCEPT ![scanning] = NoEntry]
    /\ scanning' = NoWork
    /\ scanStale' = FALSE
    /\ IF closed \/ scanStale
         THEN /\ panicked' = TRUE
              /\ UNCHANGED <<handoff, tmSend, fires>>
         ELSE /\ handoff' = [handoff EXCEPT ![scanning] = @ + 1]
              /\ tmSend' = tmSend \cup {scanning}
              /\ fires' = [fires EXCEPT ![scanning] = @ + 1]
              /\ UNCHANGED panicked
    /\ UNCHANGED <<poolVars, roundState, posted, nextId, work, gen,
                   finalWait, ending, wp, errored, committed, mineGo, mining,
                   loopOn, tickerOn, closed, stopping, stops, sendDead>>

(* Fault variant of FinalMineStart: an unconfirmed work is dropped        *)
(* without WorkEnded(false).                                              *)
FinalMineStartNoEnd(w) ==
    /\ loopOn
    /\ handoff[w] > 0
    /\ handoff' = [handoff EXCEPT ![w] = @ - 1]
    /\ tmSend' = IF handoff[w] = 1 THEN tmSend \ {w} ELSE tmSend
    /\ IF work[w].confirmed
         THEN /\ finalWait' = [finalWait EXCEPT ![w] = @ + 1]
              /\ UNCHANGED roundState
         ELSE /\ roundState' = "IDLE"
              /\ UNCHANGED finalWait
    /\ UNCHANGED <<poolVars, posted, nextId, work, gen, uc, scanning, wp,
                   errored, committed, fires, ending, mineGo, mining, loopOn,
                   tickerOn, closed, stopping, stops, sendDead, scanStale, panicked>>

(* The RoutineMine loop receives w from confirmCh and runs FinalMine in a *)
(* new goroutine (wg.Add(1)): an unconfirmed work ends with               *)
(* `go WorkEnded(false)` and the round goes IDLE; a confirmed one waits   *)
(* on genCh.                                                              *)
FinalMineStart(w) ==
    /\ loopOn
    /\ handoff[w] > 0
    /\ handoff' = [handoff EXCEPT ![w] = @ - 1]
    /\ tmSend' = IF handoff[w] = 1 THEN tmSend \ {w} ELSE tmSend
    /\ IF work[w].confirmed
         THEN /\ finalWait' = [finalWait EXCEPT ![w] = @ + 1]
              /\ UNCHANGED <<ending, roundState>>
         ELSE /\ ending' = ending \cup {w}
              /\ roundState' = "IDLE"
              /\ UNCHANGED finalWait
    /\ UNCHANGED <<poolVars, posted, nextId, work, gen, uc, scanning, wp,
                   errored, committed, fires, mineGo, mining, loopOn, tickerOn,
                   closed, stopping, stops, sendDead, scanStale, panicked>>

(* Fault variant of FinalMineGen: the round is left in its state.        *)
FinalMineGenNoIdle(w) ==
    /\ finalWait[w] > 0
    /\ gen[w] \in {"ok", "err"}
    /\ finalWait' = [finalWait EXCEPT ![w] = @ - 1]
    /\ gen' = [gen EXCEPT ![w] = "taken"]
    /\ IF gen[w] = "ok" /\ ~errored
         THEN /\ wp' = Append(wp, w)
              /\ UNCHANGED ending
         ELSE /\ ending' = ending \cup {w}
              /\ UNCHANGED wp
    /\ UNCHANGED <<poolVars, roundState, posted, nextId, work, uc, scanning, handoff,
                   errored, committed, fires, ctlVars>>

(* FinalMine after genCh delivers: a failed seal ends the work; a sealed  *)
(* block is added to WorkPending, and ends the work when Add refuses it   *)
(* because WorkPending is errored.  The round goes IDLE.                  *)
FinalMineGen(w) ==
    /\ finalWait[w] > 0
    /\ gen[w] \in {"ok", "err"}
    /\ finalWait' = [finalWait EXCEPT ![w] = @ - 1]
    /\ gen' = [gen EXCEPT ![w] = "taken"]
    /\ IF gen[w] = "ok" /\ ~errored
         THEN /\ wp' = Append(wp, w)
              /\ UNCHANGED ending
         ELSE /\ ending' = ending \cup {w}
              /\ UNCHANGED wp
    /\ roundState' = "IDLE"
    /\ UNCHANGED <<poolVars, posted, nextId, work, uc, scanning, handoff,
                   errored, committed, fires, ctlVars>>

(* The goroutine `go work.WorkEnded(false)` runs.                         *)
EndWork(w) ==
    /\ w \in ending
    /\ ending' = ending \ {w}
    /\ WorkEnded(w, work[w].num, FALSE)
    /\ UNCHANGED <<known, fullCh, verifyCh, queue, adds, roundState, posted, nextId,
                   work, gen, uc, scanning, handoff, finalWait, wp, errored,
                   committed, fires, ctlVars>>

(* chain.WriteBlockAndState refuses a block whose parent it does not     *)
(* hold (UnknownAncestor, spec section 7).                                *)
KnownAncestor(w) ==
    work[w].parent = Genesis \/ \E i \in 1..Len(committed) : committed[i] = work[w].parent

(* WorkPending.Run, one iteration: while errored, pop and end every work; *)
(* otherwise write the head: on success commit it and end it as           *)
(* succeeded, on error latch errored and end it as failed.                *)
RunDrain ==
    /\ errored
    /\ wp # <<>>
    /\ WorkEnded(Head(wp), work[Head(wp)].num, FALSE)
    /\ wp' = Tail(wp)
    /\ UNCHANGED <<known, fullCh, verifyCh, queue, adds, roundState, posted, nextId,
                   work, gen, uc, scanning, handoff, finalWait, ending, errored,
                   committed, fires, ctlVars>>

RunWrite ==
    /\ ~errored
    /\ wp # <<>>
    /\ LET w == Head(wp) IN
         \/ /\ KnownAncestor(w)
            /\ committed' = Append(committed, w)
            /\ WorkEnded(w, work[w].num, TRUE)
            /\ UNCHANGED errored
         \/ /\ WriteMayFail \/ ~KnownAncestor(w)
            /\ errored' = TRUE
            /\ WorkEnded(w, work[w].num, FALSE)
            /\ UNCHANGED committed
    /\ wp' = Tail(wp)
    /\ UNCHANGED <<known, fullCh, verifyCh, queue, adds, roundState, posted, nextId,
                   work, gen, uc, scanning, handoff, finalWait, ending, fires, ctlVars>>

(* The ingestion side of the pool: client transactions and the            *)
(* transactions of other miners' accepted proofs (dealProofEvent's        *)
(* AddTxs) both enter through AddTx.                                      *)
Ingest ==
    /\ PoolIngest
    /\ UNCHANGED workerVars

(* The one-minute eviction ticker of the pool loop runs FitOnChain        *)
(* against the height of the chain head.                                  *)
Evict ==
    /\ FitOnChain(Num(ChainHead))
    /\ UNCHANGED workerVars

(* Miner.Stop (RPC miner_stop) calls worker.stop, whose exitCh send the  *)
(* RoutineMine loop takes at once: unconfirm_mine.Stop ends RoutineLoop,  *)
(* confirmCh and newRoundCh are closed and the round set IDLE.  Goroutines *)
(* blocked sending on confirmCh panic: Confirm's recover and its work is   *)
(* lost, CheckTimeout's do not and the process dies.  The entries of the   *)
(* stopped unconfirm_mine stay where they are.                             *)
WorkerStop ==
    /\ mining
    /\ ~stopping
    /\ stops < MaxStops
    /\ loopOn' = FALSE
    /\ closed' = TRUE
    /\ stopping' = TRUE
    /\ stops' = stops + 1
    /\ roundState' = "IDLE"
    /\ sendDead' = FALSE
    /\ panicked' = (panicked \/ tmSend # {})
    /\ handoff' = [w \in WorkIds |-> 0]
    /\ tmSend' = {}
    /\ scanStale' = (scanning # NoWork)
    /\ UNCHANGED <<poolVars, posted, nextId, work, gen, uc, scanning, finalWait,
                   ending, wp, errored, committed, fires, mineGo, mining, tickerOn>>

(* worker.stop's wg.Wait returns once the NewMineRound and FinalMine      *)
(* goroutines are done; then worker.mining is cleared.                    *)
StopJoin ==
    /\ stopping
    /\ ~mineGo
    /\ \A w \in WorkIds : finalWait[w] = 0
    /\ stopping' = FALSE
    /\ mining' = FALSE
    /\ UNCHANGED <<poolVars, roundState, posted, nextId, work, gen, uc, scanning,
                   handoff, finalWait, ending, wp, errored, committed, fires,
                   mineGo, loopOn, tickerOn, closed, stops, sendDead, tmSend,
                   scanStale, panicked>>

(* The round ticker goroutine finds newRoundCh closed and returns.  Once  *)
(* a new RoutineMine has made a new channel, the old goroutine reads that *)
(* one (it reads self.newRoundCh) and acts as a second copy of the new.   *)
TickerExit ==
    /\ tickerOn
    /\ closed
    /\ tickerOn' = FALSE
    /\ UNCHANGED <<poolVars, roundState, posted, nextId, work, gen, uc, scanning,
                   handoff, finalWait, ending, wp, errored, committed, fires,
                   mineGo, mining, loopOn, closed, stopping, stops, sendDead,
                   tmSend, scanStale, panicked>>

(* Fault variant of WorkerStart: the stopped unconfirmedProofs table is *)
(* reused instead of a new one.                                           *)
WorkerStartKeepsTable ==
    /\ ~mining
    /\ ~stopping
    /\ mining' = TRUE
    /\ loopOn' = TRUE
    /\ tickerOn' = TRUE
    /\ closed' = FALSE
    /\ UNCHANGED <<poolVars, roundState, posted, nextId, work, gen, uc, scanning,
                   handoff, finalWait, ending, wp, errored, committed, fires,
                   mineGo, stopping, stops, sendDead, tmSend, scanStale, panicked>>

(* Miner.Start (RPC miner_start once IsMining is false) calls             *)
(* worker.start: RoutineMine makes new channels and a new unconfirm_mine, *)
(* and starts its loops.  The round state is left as it is.               *)
WorkerStart ==
    /\ ~mining
    /\ ~stopping
    /\ mining' = TRUE
    /\ loopOn' = TRUE
    /\ tickerOn' = TRUE
    /\ closed' = FALSE
    /\ uc' = NewUnconfirmedProofs
    /\ UNCHANGED <<poolVars, roundState, posted, nextId, work, gen, scanning,
                   handoff, finalWait, ending, wp, errored, committed, fires,
                   mineGo, stopping, stops, sendDead, tmSend, scanStale, panicked>>

(* A tick of the round ticker while a round is in progress does nothing. *)
TickBusy ==
    /\ tickerOn
    /\ roundState # "IDLE"
    /\ UNCHANGED vars

(* Every round used and nothing left in flight.                           *)
Done ==
    /\ nextId > MaxRounds
    /\ roundState = "IDLE"
    /\ ~mineGo /\ ~stopping
    /\ wp = <<>>
    /\ ending = {}
    /\ \A w \in WorkIds : handoff[w] = 0 /\ finalWait[w] = 0
    /\ UNCHANGED vars

(* The process died of a panic: nothing runs any more.                    *)
Crashed ==
    /\ panicked
    /\ UNCHANGED vars

Worker ==
    \/ TickNewRound
    \/ NewRoundRecv
    \/ NewMineRound
    \/ \E w \in WorkIds :
          \/ Generate(w) \/ Expire(w) \/ CheckTimeoutLoad(w)
          \/ FinalMineStart(w) \/ FinalMineGen(w) \/ EndWork(w)
    \/ CheckTimeoutFire
    \/ RunDrain
    \/ RunWrite
    \/ StopJoin
    \/ TickerExit

Next ==
    \/ /\ ~panicked
       /\ \/ Ingest
          \/ Evict
          \/ Worker
          \/ WorkerStop
          \/ WorkerStart
          \/ \E p \in Peers, w \in WorkIds, a \in BOOLEAN : Confirm(p, w, a)
          \/ TickBusy
          \/ Done
    \/ Crashed

(* Every goroutine of the worker, the pool and the writer is scheduled;   *)
(* time passes.  Peers are not obliged to confirm, and the operator is    *)
(* not obliged to call miner_stop or miner_start.                         *)
Fairness ==
    /\ WF_vars(TickNewRound)
    /\ WF_vars(NewRoundRecv)
    /\ WF_vars(NewMineRound)
    /\ WF_vars(CheckTimeoutFire)
    /\ WF_vars(RunDrain)
    /\ WF_vars(RunWrite)
    /\ WF_vars(StopJoin)
    /\ WF_vars(TickerExit)
    /\ \A t \in Txs : WF_vars(AddTxSend(t) /\ UNCHANGED workerVars)
    /\ \A i \in Slots : WF_vars(DealTxQueue(i) /\ UNCHANGED workerVars)
                        /\ WF_vars(DealTxVerify(i) /\ UNCHANGED workerVars)
    /\ \A w \in WorkIds :
          /\ WF_vars(Generate(w))
          /\ WF_vars(Expire(w))
          /\ WF_vars(CheckTimeoutLoad(w))
          /\ WF_vars(FinalMineStart(w))
          /\ WF_vars(FinalMineGen(w))
          /\ WF_vars(EndWork(w))

Spec == Init /\ [][Next]_vars /\ Fairness

-----------------------------------------------------------------------------
(* Properties.                                                              *)

(* A transaction is held by at most one of queue, pending, the working    *)
(* entries and onChain (spec section 3).  AddTx's duplicate check, the    *)
(* Pending drain, WorkEnded from FinalMine, EndWork and the writer, and   *)
(* re-added proof transactions all have to agree for this to hold.        *)
TxExclusive == \A t \in Txs : HoldCount(t) <= 1

(* The unconfirmed-proof tracker hands a work to FinalMine at most once   *)
(* (spec section 3): Confirm reaching a quorum and CheckTimeout must not  *)
(* both fire the same entry.                                              *)
NoDoubleFire == \A w \in WorkIds : fires[w] <= 1

(* The blocks written to the chain form one unbroken chain: each one's    *)
(* parent is the block written before it.  This is what the WorkPending   *)
(* order, the choice of parent in CheckNeedStartMine and the error drain  *)
(* must together guarantee for the per-miner proof chain.                 *)
CommitChainLinked ==
    \A i \in 1..Len(committed) :
        work[committed[i]].parent = IF i = 1 THEN Genesis ELSE committed[i - 1]

(* Every transaction of a written block is recorded onChain at that       *)
(* block's number, and no transaction is written in two blocks.           *)
TxCommittedOnce ==
    \A i \in 1..Len(committed) :
        \A t \in work[committed[i]].txs :
            /\ onChain[t] = work[committed[i]].num
            /\ \A j \in 1..Len(committed) \ {i} : t \notin work[committed[j]].txs

(* A transaction drained into a round always leaves the working map: the  *)
(* round is confirmed, rejected or timed out, and its block is written or *)
(* the transactions go back to pending.                                   *)
DrainedTxsSettle ==
    \A t \in Txs, w \in WorkIds : (t \in working[w]) ~> (t \notin working[w])

(* After a failed block write, WorkPending drains and mining resumes: the *)
(* errored latch is always cleared again.                                 *)
WorkPendingSelfHeals == errored ~> ~errored

(* A round that has started always ends while the worker keeps running:  *)
(* the round state comes back to IDLE, so CheckNeedStartMine is asked     *)
(* again.  A stop that races a round's goroutines, and the restart after  *)
(* it, must not leave a round state that no goroutine will reset.         *)
RoundReturnsToIdle ==
    (roundState # "IDLE" /\ mining) ~> (roundState = "IDLE" \/ ~mining)

(* miner_stop returns: once the RoutineMine exit case has run,           *)
(* worker.stop's wg.Wait is released, because every NewMineRound and      *)
(* FinalMine goroutine it joins ends, unless the process has died.  A     *)
(* FinalMine still blocked on genCh would hold Miner.Stop, and Node.Stop  *)
(* with it, for good.                                                      *)
StopCompletes == stopping ~> (~stopping \/ panicked)

(* Stopping the miner never kills the node: no goroutine sends on a       *)
(* confirmCh that the RoutineMine exit case has closed without recovering *)
(* from the panic (spec 5: every cross-goroutine send site recovers).     *)
NoSendOnClosedChannel == ~panicked
-----------------------------------------------------------------------------
(* The table of unconfirmed proofs, seen through UnconfirmedSpec.  A work *)
(* is inserted once NewMineRound has drawn it and its proof did not fail  *)
(* (a failed proof marks genCh taken with nothing handed).  It is handed   *)
(* once a hand-off to FinalMine has been counted, open while its entry is  *)
(* live in a running table or a timeout scan holds it, and dropped         *)
(* otherwise.  A panic ends the process.                                   *)
Inserted(w) == w < nextId /\ ~(gen[w] = "taken" /\ fires[w] = 0)

TableOpen(w) == ~panicked /\ ((uc[w].live /\ loopOn) \/ scanning = w)

UCStatus ==
    [w \in WorkIds |->
        CASE ~Inserted(w)  -> "none"
          [] fires[w] > 0  -> "handed"
          [] TableOpen(w)  -> "open"
          [] OTHER         -> "dropped"]

UC == INSTANCE UnconfirmedSpec
        WITH status <- UCStatus, handoffs <- fires,
             running <- loopOn /\ ~panicked, up <- ~panicked

(* The round, its confirms and timeouts, and stop and start implement the *)
(* safety part of UnconfirmedSpec: a work is handed to FinalMine only     *)
(* after NewMineRound inserted it into a running table, at most once, and *)
(* a work dropped by a stop is never handed or reopened later, whatever   *)
(* the order of Confirm, CheckTimeout, the exit case and Miner.Start.    *)
UCSafe == UC!SafetySpec

(* With the miner running, UnconfirmedSpec holds with its fairness: every *)
(* inserted work is eventually handed to FinalMine, by a quorum of        *)
(* confirms or by CheckTimeout, even when no peer ever answers.           *)
UCRefinement == UC!Spec
=============================================================================
