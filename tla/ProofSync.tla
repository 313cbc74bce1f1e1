------------------------------ MODULE ProofSync ------------------------------
(***************************************************************************)
(* How one node verifies the proofs of the other miners and keeps their    *)
(* proof state (PeerProofStore): src/worker/worker_verify.go and the       *)
(* eventListener of src/worker/worker.go.                                  *)
(*                                                                         *)
(* The event listener takes proofs and ResponseState messages off the     *)
(* event bus.  A proof goes to the per-sender channel verifyChMap[m],      *)
(* whose goroutine runs dealProofEvent: it chains the proof onto the      *)
(* stored (num, root) of m and, when the store is behind, asks the        *)
(* network for m's root at number-1 with queryRemoteState and waits up to *)
(* 30 s on the latch peerLockMap[m].  dealResponseState, on the listener, *)
(* writes the answer into the store and signals the latch with an         *)
(* unbuffered send.                                                        *)
(*                                                                         *)
(* Every miner is honest: its proof n is built on its root n-1, and a     *)
(* root is named <<m, n>>.  The other miners are the environment: they    *)
(* send proofs and answer queries (dealQueryState), and the network may   *)
(* lose any message.  Whether it reorders proofs, whether third parties   *)
(* answer queries about a miner, and whether the 30 s timer may fire      *)
(* between the listener's read of the latch and its send, are constants.  *)
(***************************************************************************)
EXTENDS Integers, FiniteSets, Sequences

CONSTANTS
    Miners,       \* the other mining peers
    MaxNum,       \* proofs 1..MaxNum of every miner
    Reorder,      \* may proofs of one miner arrive out of order?
    ThirdParty,   \* may a peer answer a query about another miner?
    RaceTimeout,  \* may the timer fire once the listener holds the latch?
    FifoCap,      \* capacity of every verifyChMap channel (1000)
    Txs,          \* transaction hashes
    ProofTxs,     \* ProofTxs[<<m, n>>]: the transactions in m's proof n
    MaxUpdaters   \* bound on the updateTxConfirm goroutines spawned at once

ASSUME MaxNum \in Nat \ {0} /\ {Reorder, ThirdParty, RaceTimeout} \subseteq BOOLEAN
ASSUME FifoCap \in Nat \ {0}
ASSUME ProofTxs \in [Miners \X (1..MaxNum) -> SUBSET Txs] /\ MaxUpdaters \in Nat

Nums == 1..MaxNum

(* The proof root of miner m at number n; number 0 is the genesis header, *)
(* whose ProofHash every miner starts from.                               *)
Root(m, n) == IF n = 0 THEN <<"genesis", 0>> ELSE <<m, n>>

Roots == {Root(m, n) : m \in Miners, n \in 0..MaxNum}
ProofStates == [num : 0..MaxNum, root : Roots]
NoState == [num |-> 0, root |-> <<"nil", 0>>]     \* GetPeerProof returned nil
NoQuery == -1                                     \* no queryCache entry
NoPush == <<"none", 0>>                           \* the listener is not blocked on a fifo

VARIABLES
    net,       \* proofs in flight: <<m, n>>
    taken,     \* taken[m]: highest proof number of m the listener took
    fifo,      \* fifo[m]: the verifyChMap[m] channel
    pc,        \* pc[m]: where m's dealProofEvent goroutine is
    cur,       \* cur[m]: the number of the proof it handles
    local,     \* local[m]: its peerProofState variable
    store,     \* PeerProofStore in chainDb: store[m]
    qcache,    \* queryCache[m]: number of the last query about m
    asked,     \* queries ever posted: <<m, k>>
    answered,  \* answers ever given: <<r, m, k>>, r the responder
    resps,     \* ResponseState messages in flight to this node
    latch,     \* peerLockMap[m]: "absent", "nil" or "open" (the one channel made)
    waitOn,    \* waitOn[m]: the latch value m's waiting select reads
    listener,  \* "free", or the miner whose latch the listener is sending on
    blocked,   \* NoPush, or the proof <<m, n>> the listener is sending on a full fifo[m]
    verdicts,  \* history: the confirms posted, [m, n, v, answered]
    txConfirmPool, \* txConfirmPool[t]: confirms of t not yet in its receipt
    onChain,   \* onChain[t]: the local chain holds t, so its receipt exists
    confirmCount,  \* confirmCount[t]: the ConfirmCount of t's receipt
    updaters,  \* updateTxConfirm goroutines spawned, waiting for txMu
    updating,  \* worker.updating
    accepts    \* history: accepts[t], the accepted proofs that carry t

vars == <<net, taken, fifo, pc, cur, local, store, qcache, asked, answered,
          resps, latch, waitOn, listener, blocked, verdicts, txConfirmPool,
          onChain, confirmCount, updaters, updating, accepts>>

confirmVars == <<txConfirmPool, onChain, confirmCount, updaters, updating, accepts>>

Verdicts == [m : Miners, n : Nums, v : {"accept", "mismatch", "timeout"},
             answered : BOOLEAN]

TypeOK ==
    /\ net \subseteq Miners \X Nums
    /\ taken \in [Miners -> 0..MaxNum]
    /\ fifo \in [Miners -> Seq(Nums)]
    /\ pc \in [Miners -> {"idle", "loop", "wait", "woken"}]
    /\ cur \in [Miners -> 0..MaxNum]
    /\ local \in [Miners -> ProofStates \cup {NoState}]
    /\ store \in [Miners -> ProofStates \cup {NoState}]
    /\ qcache \in [Miners -> {NoQuery} \cup 0..MaxNum]
    /\ asked \subseteq Miners \X (0..MaxNum)
    /\ answered \subseteq Miners \X Miners \X (0..MaxNum)
    /\ resps \subseteq [from : Miners, num : 0..MaxNum, root : Roots]
    /\ latch \in [Miners -> {"absent", "nil", "open"}]
    /\ waitOn \in [Miners -> {"nil", "open"}]
    /\ listener \in {"free"} \cup Miners
    /\ blocked \in {NoPush} \cup (Miners \X Nums)
    /\ \A m \in Miners : Len(fifo[m]) <= FifoCap
    /\ verdicts \subseteq Verdicts
    /\ txConfirmPool \in [Txs -> Nat]
    /\ onChain \in [Txs -> BOOLEAN]
    /\ confirmCount \in [Txs -> Nat]
    /\ updaters \in 0..MaxUpdaters
    /\ updating \in BOOLEAN
    /\ accepts \in [Txs -> Nat]

Init ==
    /\ net = Miners \X Nums
    /\ taken = [m \in Miners |-> 0]
    /\ fifo = [m \in Miners |-> <<>>]
    /\ pc = [m \in Miners |-> "idle"]
    /\ cur = [m \in Miners |-> 0]
    /\ local = [m \in Miners |-> NoState]
    /\ store = [m \in Miners |-> NoState]
    /\ qcache = [m \in Miners |-> NoQuery]
    /\ asked = {}
    /\ answered = {}
    /\ resps = {}
    /\ latch = [m \in Miners |-> "absent"]
    /\ waitOn = [m \in Miners |-> "nil"]
    /\ listener = "free"
    /\ blocked = NoPush
    /\ verdicts = {}
    /\ txConfirmPool = [t \in Txs |-> 0]
    /\ onChain = [t \in Txs |-> FALSE]
    /\ confirmCount = [t \in Txs |-> 0]
    /\ updaters = 0
    /\ updating = FALSE
    /\ accepts = [t \in Txs |-> 0]

-----------------------------------------------------------------------------
(* Prometheus.verifyProof: the proof of m at n recovers to m only when    *)
(* lastHash is the root m built it on; the new root is then m's root n.   *)
VerifyProof(m, lastHash, n) == lastHash = Root(m, n - 1)

(* The listener goroutine is at its select, not blocked in a send.        *)
ListenerIdle == listener = "free" /\ blocked = NoPush

(* The listener takes a WorkProofMsg of m off the bus and sends it on     *)
(* verifyChMap[m] (the goroutine is made on first use).  On a full        *)
(* channel the send blocks the listener.  Without reordering, proofs of   *)
(* one miner arrive in number order, some lost.                           *)
RecvProof(m, n) ==
    /\ ListenerIdle
    /\ <<m, n>> \in net
    /\ Reorder \/ n > taken[m]
    /\ net' = net \ {<<m, n>>}
    /\ taken' = [taken EXCEPT ![m] = IF n > @ THEN n ELSE @]
    /\ IF Len(fifo[m]) < FifoCap
         THEN /\ fifo' = [fifo EXCEPT ![m] = Append(@, n)]
              /\ UNCHANGED blocked
         ELSE /\ blocked' = <<m, n>>
              /\ UNCHANGED fifo
    /\ UNCHANGED <<confirmVars, pc, cur, local, store, qcache, asked, answered, resps,
                   latch, waitOn, listener, verdicts>>

(* The blocked `ch <- ev` completes once m's goroutine has taken a proof  *)
(* off the channel.                                                        *)
ListenerPush ==
    /\ blocked # NoPush
    /\ Len(fifo[blocked[1]]) < FifoCap
    /\ fifo' = [fifo EXCEPT ![blocked[1]] = Append(@, blocked[2])]
    /\ blocked' = NoPush
    /\ UNCHANGED <<confirmVars, net, taken, pc, cur, local, store, qcache, asked, answered,
                   resps, latch, waitOn, listener, verdicts>>

(* queryRemoteState(m, k), up to the select: the query is recorded in     *)
(* queryCache under m and posted, and the latch is looked up, made when   *)
(* there is no entry.  An entry that a timeout set to nil is found (ok is *)
(* true) and used as it is.                                               *)
Query(m, k) ==
    /\ qcache' = [qcache EXCEPT ![m] = k]
    /\ asked' = asked \cup {<<m, k>>}
    /\ latch' = [latch EXCEPT ![m] = IF @ = "absent" THEN "open" ELSE @]
    /\ waitOn' = [waitOn EXCEPT ![m] = IF latch[m] = "absent" THEN "open" ELSE latch[m]]
    /\ pc' = [pc EXCEPT ![m] = "wait"]

(* dealProofEvent, up to its loop: a proof of a miner without stored      *)
(* state is chained onto genesis when it is number 1; otherwise m's state *)
(* at n-1 is queried first.  VerifyState always passes.                   *)
Take(m) ==
    /\ pc[m] = "idle"
    /\ fifo[m] # <<>>
    /\ LET n == Head(fifo[m]) IN
         /\ cur' = [cur EXCEPT ![m] = n]
         /\ fifo' = [fifo EXCEPT ![m] = Tail(@)]
         /\ IF store[m] # NoState \/ n = 1
              THEN /\ local' = [local EXCEPT ![m] = IF store[m] # NoState THEN store[m]
                                                     ELSE [num |-> 0, root |-> Root(m, 0)]]
                   /\ pc' = [pc EXCEPT ![m] = "loop"]
                   /\ UNCHANGED <<qcache, asked, latch, waitOn>>
              ELSE /\ Query(m, n - 1)
                   /\ UNCHANGED local
    /\ UNCHANGED <<confirmVars, net, taken, store, answered, resps, listener, blocked, verdicts>>

(* The tail of an accepting dealProofEvent: under txMu, every transaction *)
(* of the proof gains one confirm in txConfirmPool.  accepts records it.  *)
ConfirmTxs(m, n) ==
    LET Inc(f) == [t \in Txs |-> IF t \in ProofTxs[<<m, n>>] THEN f[t] + 1 ELSE f[t]]
    IN /\ txConfirmPool' = Inc(txConfirmPool)
       /\ accepts' = Inc(accepts)

(* Fault variant of Loop: the stored number is one past the proof's.     *)
LoopNumOffByOne(m) ==
    /\ pc[m] = "loop"
    /\ LET n == cur[m] IN
         \/ /\ VerifyProof(m, local[m].root, n)
            /\ store' = [store EXCEPT ![m] = [num |-> n + 1, root |-> Root(m, n)]]
            /\ verdicts' = verdicts \cup {[m |-> m, n |-> n, v |-> "accept", answered |-> FALSE]}
            /\ pc' = [pc EXCEPT ![m] = "idle"]
            /\ UNCHANGED <<qcache, asked, latch, waitOn>>
            /\ ConfirmTxs(m, n)
         \/ /\ ~VerifyProof(m, local[m].root, n)
            /\ local[m].num + 1 # n
            /\ Query(m, n - 1)
            /\ UNCHANGED <<store, verdicts, txConfirmPool, accepts>>
    /\ UNCHANGED <<onChain, confirmCount, updaters, updating, net, taken, fifo, cur, local, answered, resps, listener, blocked>>

(* One pass of dealProofEvent's loop: an accepted proof is written to the *)
(* store and confirmed; a failed one is rejected when the store is just   *)
(* one behind (a genuine disagreement), else m's state at n-1 is queried. *)
Loop(m) ==
    /\ pc[m] = "loop"
    /\ LET n == cur[m] IN
         \/ /\ VerifyProof(m, local[m].root, n)
            /\ store' = [store EXCEPT ![m] = [num |-> n, root |-> Root(m, n)]]
            /\ verdicts' = verdicts \cup {[m |-> m, n |-> n, v |-> "accept", answered |-> FALSE]}
            /\ pc' = [pc EXCEPT ![m] = "idle"]
            /\ UNCHANGED <<qcache, asked, latch, waitOn>>
            /\ ConfirmTxs(m, n)
         \/ /\ ~VerifyProof(m, local[m].root, n)
            /\ local[m].num + 1 = n
            /\ verdicts' = verdicts \cup {[m |-> m, n |-> n, v |-> "mismatch", answered |-> FALSE]}
            /\ pc' = [pc EXCEPT ![m] = "idle"]
            /\ UNCHANGED <<store, qcache, asked, latch, waitOn, txConfirmPool,
                           accepts>>
         \/ /\ ~VerifyProof(m, local[m].root, n)
            /\ local[m].num + 1 # n
            /\ Query(m, n - 1)
            /\ UNCHANGED <<store, verdicts, txConfirmPool, accepts>>
    /\ UNCHANGED <<onChain, confirmCount, updaters, updating, net, taken, fifo, cur, local, answered, resps, listener, blocked>>

(* Fault variant of Timeout: the latch entry is left as it is.           *)
TimeoutKeepsLatch(m) ==
    /\ pc[m] = "wait"
    /\ RaceTimeout \/ listener # m
    /\ verdicts' = verdicts \cup {[m |-> m, n |-> cur[m], v |-> "timeout",
                                   answered |-> store[m] # NoState /\ store[m].num = cur[m] - 1]}
    /\ pc' = [pc EXCEPT ![m] = "idle"]
    /\ UNCHANGED <<confirmVars, net, taken, fifo, cur, local, store, qcache, asked, answered,
                   resps, latch, waitOn, listener, blocked>>

(* The 30 s timer of queryRemoteState fires: the latch entry is set to    *)
(* nil and the proof is rejected.  answered records whether the store     *)
(* already holds the state that was asked for.                            *)
Timeout(m) ==
    /\ pc[m] = "wait"
    /\ RaceTimeout \/ listener # m
    /\ latch' = [latch EXCEPT ![m] = "nil"]
    /\ verdicts' = verdicts \cup {[m |-> m, n |-> cur[m], v |-> "timeout",
                                   answered |-> store[m] # NoState /\ store[m].num = cur[m] - 1]}
    /\ pc' = [pc EXCEPT ![m] = "idle"]
    /\ UNCHANGED <<confirmVars, net, taken, fifo, cur, local, store, qcache, asked, answered,
                   resps, waitOn, listener, blocked>>

(* After the latch signal the goroutine reloads the store.                *)
Reload(m) ==
    /\ pc[m] = "woken"
    /\ local' = [local EXCEPT ![m] = store[m]]
    /\ pc' = [pc EXCEPT ![m] = "loop"]
    /\ UNCHANGED <<confirmVars, net, taken, fifo, cur, store, qcache, asked, answered, resps,
                   latch, waitOn, listener, blocked, verdicts>>

(* HandleGetStateMsg at node r: the router posts a query to the worker   *)
(* only when its hash is not yet in the handleQueryState cache; a later   *)
(* copy only spends the rebroadcast budget.  The hash covers the query    *)
(* data and a deterministic signature, so every copy of the query for     *)
(* <<m, k>> has one hash.  The cache (100000 entries) never evicts within *)
(* the model's bounds.                                                    *)
QueryFirstSeen(r, m, k) == <<r, m, k>> \notin answered

(* dealQueryState at a responder r, for this node's query about m at k:  *)
(* m answers with the ProofHash of its header k; another miner answers    *)
(* from its own store of m when it is at k.  The router posts the query   *)
(* to r's worker once, so r answers it at most once.                      *)
Respond(r, m, k) ==
    /\ <<m, k>> \in asked
    /\ QueryFirstSeen(r, m, k)
    /\ r = m \/ ThirdParty
    /\ answered' = answered \cup {<<r, m, k>>}
    /\ resps' = resps \cup {[from |-> r, num |-> k, root |-> Root(m, k)]}
    /\ UNCHANGED <<confirmVars, net, taken, fifo, pc, cur, local, store, qcache, asked,
                   latch, waitOn, listener, blocked, verdicts>>

(* dealResponseState on the listener: the response of sender x.from is    *)
(* matched against queryCache[x.from] by number only, written to the      *)
(* store of x.from, and the latch of x.from is read; when it is a channel *)
(* the listener goes on to send on it.                                     *)
RecvResp(x) ==
    /\ ListenerIdle
    /\ x \in resps
    /\ resps' = resps \ {x}
    /\ IF qcache[x.from] = x.num
         THEN /\ store' = [store EXCEPT ![x.from] = [num |-> x.num, root |-> x.root]]
              /\ listener' = IF latch[x.from] = "open" THEN x.from ELSE "free"
         ELSE UNCHANGED <<store, listener>>
    /\ UNCHANGED <<confirmVars, net, taken, fifo, pc, cur, local, qcache, asked, answered,
                   latch, waitOn, blocked, verdicts>>

(* The unbuffered `ch <- struct{}{}` completes when m's goroutine selects *)
(* on that channel; until then the listener handles no event.             *)
ListenerSend(m) ==
    /\ listener = m
    /\ pc[m] = "wait"
    /\ waitOn[m] = "open"
    /\ pc' = [pc EXCEPT ![m] = "woken"]
    /\ listener' = "free"
    /\ UNCHANGED <<confirmVars, net, taken, fifo, cur, local, store, qcache, asked, answered,
                   resps, latch, waitOn, blocked, verdicts>>

(* The listener's 1 s timer case: it spawns updateTxConfirm unless the    *)
(* updating flag is set.  The flag is set by the goroutine, once it holds *)
(* txMu, so several goroutines may be spawned before one runs.            *)
UpdateTimer ==
    /\ ListenerIdle
    /\ ~updating
    /\ updaters < MaxUpdaters
    /\ updaters' = updaters + 1
    /\ UNCHANGED <<txConfirmPool, onChain, confirmCount, updating, accepts>>
    /\ UNCHANGED <<net, taken, fifo, pc, cur, local, store, qcache, asked,
                   answered, resps, latch, waitOn, listener, blocked, verdicts>>

(* Fault variants of updateTxConfirm: the pooled count overwrites the     *)
(* receipt's instead of adding to it; the updating flag is never reset.   *)
UpdateTxConfirmAssign ==
    /\ updaters > 0
    /\ updaters' = updaters - 1
    /\ confirmCount' = [t \in Txs |-> IF onChain[t] /\ txConfirmPool[t] > 0
                                       THEN txConfirmPool[t] ELSE confirmCount[t]]
    /\ txConfirmPool' = [t \in Txs |-> IF onChain[t] THEN 0 ELSE txConfirmPool[t]]
    /\ updating' = FALSE
    /\ UNCHANGED <<onChain, accepts>>
    /\ UNCHANGED <<net, taken, fifo, pc, cur, local, store, qcache, asked,
                   answered, resps, latch, waitOn, listener, blocked, verdicts>>

UpdateTxConfirmNoReset ==
    /\ updaters > 0
    /\ updaters' = updaters - 1
    /\ confirmCount' = [t \in Txs |-> IF onChain[t]
                                       THEN confirmCount[t] + txConfirmPool[t]
                                       ELSE confirmCount[t]]
    /\ txConfirmPool' = [t \in Txs |-> IF onChain[t] THEN 0 ELSE txConfirmPool[t]]
    /\ updating' = TRUE
    /\ UNCHANGED <<onChain, accepts>>
    /\ UNCHANGED <<net, taken, fifo, pc, cur, local, store, qcache, asked,
                   answered, resps, latch, waitOn, listener, blocked, verdicts>>

(* updateTxConfirm, all under txMu: the confirms of every pooled          *)
(* transaction whose receipt exists are added to it and leave the pool;  *)
(* the others stay.  The 10000-receipt cap never binds here.              *)
UpdateTxConfirm ==
    /\ updaters > 0
    /\ updaters' = updaters - 1
    /\ confirmCount' = [t \in Txs |-> IF onChain[t]
                                       THEN confirmCount[t] + txConfirmPool[t]
                                       ELSE confirmCount[t]]
    /\ txConfirmPool' = [t \in Txs |-> IF onChain[t] THEN 0 ELSE txConfirmPool[t]]
    /\ updating' = FALSE
    /\ UNCHANGED <<onChain, accepts>>
    /\ UNCHANGED <<net, taken, fifo, pc, cur, local, store, qcache, asked,
                   answered, resps, latch, waitOn, listener, blocked, verdicts>>

(* The local chain writes a block holding t, with a receipt whose         *)
(* ConfirmCount is 0.  This is the environment: t may never be mined.     *)
TxOnChain(t) ==
    /\ ~onChain[t]
    /\ onChain' = [onChain EXCEPT ![t] = TRUE]
    /\ UNCHANGED <<txConfirmPool, confirmCount, updaters, updating, accepts>>
    /\ UNCHANGED <<net, taken, fifo, pc, cur, local, store, qcache, asked,
                   answered, resps, latch, waitOn, listener, blocked, verdicts>>

(* Nothing left to do: every goroutine idle and the listener free; what   *)
(* is still in flight is lost.                                             *)
Quiescent ==
    /\ ListenerIdle
    /\ \A m \in Miners : pc[m] = "idle" /\ fifo[m] = <<>>
    /\ UNCHANGED vars

Next ==
    \/ \E m \in Miners, n \in Nums : RecvProof(m, n)
    \/ \E x \in resps : RecvResp(x)
    \/ \E r, m \in Miners, k \in 0..MaxNum : Respond(r, m, k)
    \/ \E m \in Miners :
          Take(m) \/ Loop(m) \/ Timeout(m) \/ Reload(m) \/ ListenerSend(m)
    \/ ListenerPush
    \/ UpdateTimer \/ UpdateTxConfirm
    \/ \E t \in Txs : TxOnChain(t)
    \/ Quiescent

(* The per-sender goroutines and their timers are scheduled; the network  *)
(* and the responders are not obliged to deliver or answer.               *)
Fairness ==
    /\ WF_vars(ListenerPush)
    /\ WF_vars(UpdateTimer)
    /\ WF_vars(UpdateTxConfirm)
    /\ \A m \in Miners :
        /\ WF_vars(Take(m))
        /\ WF_vars(Loop(m))
        /\ WF_vars(Timeout(m))
        /\ WF_vars(Reload(m))
        /\ WF_vars(ListenerSend(m))

Spec == Init /\ [][Next]_vars /\ Fairness

-----------------------------------------------------------------------------
(* Properties.                                                              *)

(* PeerProofStore[m].num never decreases (spec invariant 3): neither a    *)
(* late response written by dealResponseState nor the catch-up queries of *)
(* dealProofEvent may move a miner's stored state backwards.              *)
StoreMonotonic ==
    [][\A m \in Miners : store[m] # NoState => store'[m].num >= store[m].num]_vars

(* Every proof here is honest, so dealProofEvent's rejection for a         *)
(* mismatch "one behind" (a genuine disagreement, spec 4.6.4) must never  *)
(* happen: an honest proof is only ever rejected by a query timeout.       *)
NoSpuriousReject == \A v \in verdicts : v.v # "mismatch"

(* The event listener is never blocked for good, neither on the latch     *)
(* send of dealResponseState nor on a full verifyChMap channel whose      *)
(* goroutine waits for a response only the listener can deliver:         *)
(* proofs, queries and responses keep being handled.  The send needs a    *)
(* receiver: a third party's answer, matched by number to an old query    *)
(* about the responder whose latch is still a channel, or a timer firing  *)
(* after the listener read the latch, leaves none.                        *)
ListenerNeverStuck == ~ListenerIdle ~> ListenerIdle

(* A catch-up query whose answer reached the store before its 30 s ran    *)
(* out does not end in a timeout rejection.                                *)
AnsweredQueryNotTimedOut == \A v \in verdicts : v.v = "timeout" => ~v.answered


(* updateTxConfirm and the accepting dealProofEvent share txConfirmPool   *)
(* under txMu: every confirm a transaction gained is either still pooled  *)
(* or added to its receipt, never lost or counted twice, and nothing is   *)
(* written before the receipt exists.                                     *)
ConfirmCountsKept ==
    \A t \in Txs :
        /\ confirmCount[t] + txConfirmPool[t] = accepts[t]
        /\ ~onChain[t] => confirmCount[t] = 0

(* Once a transaction is on the local chain, its pooled confirms are      *)
(* eventually written to its receipt by the 1 s updateTxConfirm.          *)
ConfirmsReachReceipts ==
    \A t \in Txs : (onChain[t] /\ txConfirmPool[t] > 0) ~> txConfirmPool[t] = 0

=============================================================================
