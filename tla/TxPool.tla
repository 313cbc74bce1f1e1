------------------------------- MODULE TxPool -------------------------------
(***************************************************************************)
(* The transaction pool of src/txpool/tx_pool.go.                          *)
(*                                                                         *)
(* A transaction is identified by its hash (a model value of Txs).  AddTx  *)
(* deduplicates it against the seen set handleKnownTx and the queue,       *)
(* pending and onChain maps, marks it seen and hands it to one of the      *)
(* fullCh channels; the DealTxRoutine goroutines of each slot move it to   *)
(* queue and then to pending.  A mining round drains pending into          *)
(* working[workid] (Pending) and gives the transactions back with          *)
(* WorkEnded: to onChain when the block was written, to pending otherwise. *)
(*                                                                         *)
(* The module is composed by MiningRound, which drives Pending and        *)
(* WorkEnded from the round state machine.                                 *)
(***************************************************************************)
EXTENDS Naturals, FiniteSets, Sequences, FiniteSetsExt

CONSTANTS
    Txs,            \* transaction hashes
    Slots,          \* indexes of the (fullCh, verifyCh) pairs: maxThreadNumber
    ChanCap,        \* capacity of every fullCh and verifyCh
    MaxKnown,       \* maxHandleKnownTxs: handleKnownTx is cleared at this size
    PoolBlockCount, \* poolBlockCount: onChain eviction distance
    WorkIds,        \* ids a round drains pending under
    AddCallers      \* AddTx calls of one hash that may run at once

ASSUME ChanCap \in Nat \ {0} /\ MaxKnown \in Nat \ {0} /\ PoolBlockCount \in Nat
ASSUME AddCallers \in Nat \ {0}

VARIABLES
    known,      \* handleKnownTx: every hash AddTx accepted since the last clear
    fullCh,     \* fullCh[i]: hashes sent to slot i, not yet queued
    verifyCh,   \* verifyCh[i]: queued hashes waiting for verification
    queue,      \* pool.queue
    pending,    \* pool.pending
    working,    \* pool.working: working[w] = txs drained under work id w ({} = no entry)
    onChain,    \* pool.onChain: onChain[t] = block number, NoBlock = no entry
    adds        \* adds[t]: AddTx calls of t past DupTx and not yet past KnownTxAdd

poolVars == <<known, fullCh, verifyCh, queue, pending, working, onChain, adds>>

NoBlock == 0

PoolTypeOK ==
    /\ known \subseteq Txs
    /\ fullCh \in [Slots -> Seq(Txs)]
    /\ verifyCh \in [Slots -> Seq(Txs)]
    /\ \A i \in Slots : Len(fullCh[i]) <= ChanCap /\ Len(verifyCh[i]) <= ChanCap
    /\ queue \subseteq Txs
    /\ pending \subseteq Txs
    /\ working \in [WorkIds -> SUBSET Txs]
    /\ onChain \in [Txs -> Nat]
    /\ adds \in [Txs -> 0..AddCallers]

PoolInit ==
    /\ known = {}
    /\ fullCh = [i \in Slots |-> <<>>]
    /\ verifyCh = [i \in Slots |-> <<>>]
    /\ queue = {}
    /\ pending = {}
    /\ working = [w \in WorkIds |-> {}]
    /\ onChain = [t \in Txs |-> NoBlock]
    /\ adds = [t \in Txs |-> 0]

-----------------------------------------------------------------------------
(* DupTx: a hash is a duplicate when it was seen, or is queued, pending or *)
(* on chain.  The working map is not consulted.                           *)
DupTx(t) ==
    \/ t \in known
    \/ t \in queue
    \/ t \in pending
    \/ onChain[t] # NoBlock

(* Fault variant of KnownTxAdd: the hash is never marked seen.           *)
KnownTxAddForgets(t) == known' = known

(* KnownTxAdd: the seen set is cleared when it reaches maxHandleKnownTxs. *)
KnownTxAdd(t) ==
    known' = IF Cardinality(known) >= MaxKnown THEN {t} ELSE known \cup {t}

(* AddTx up to its duplicate check: DupTx finds nothing.  handleKnownTx  *)
(* has no lock around the check and the KnownTxAdd after it, so another   *)
(* AddTx of the same hash (a TxsPoolLoop batch or a dealProofEvent        *)
(* AddTxs running at the same time) can pass the check in between.       *)
AddTxCheck(t) ==
    /\ adds[t] < AddCallers
    /\ ~DupTx(t)
    /\ adds' = [adds EXCEPT ![t] = @ + 1]
    /\ UNCHANGED <<known, fullCh, verifyCh, queue, pending, working, onChain>>

(* Fault variant of AddTxSend: the full test of sendToFull's select is    *)
(* lost.                                                                  *)
AddTxNoFullCheck(t) ==
    /\ adds[t] > 0
    /\ adds' = [adds EXCEPT ![t] = @ - 1]
    /\ KnownTxAdd(t)
    /\ \E i \in Slots : fullCh' = [fullCh EXCEPT ![i] = Append(@, t)]
    /\ UNCHANGED <<verifyCh, queue, pending, working, onChain>>

(* The rest of AddTx: the hash is marked seen, then the slots are probed  *)
(* round robin from a random start and the hash goes to the first one     *)
(* whose fullCh is not full.  Every non-full slot can be the first one    *)
(* probed.  When all are full the call fails, and the hash stays marked   *)
(* as seen.                                                               *)
AddTxSend(t) ==
    /\ adds[t] > 0
    /\ adds' = [adds EXCEPT ![t] = @ - 1]
    /\ KnownTxAdd(t)
    /\ \/ \E i \in Slots :
            /\ Len(fullCh[i]) < ChanCap
            /\ fullCh' = [fullCh EXCEPT ![i] = Append(@, t)]
       \/ /\ \A i \in Slots : Len(fullCh[i]) >= ChanCap
          /\ UNCHANGED fullCh
    /\ UNCHANGED <<verifyCh, queue, pending, working, onChain>>

(* The queue goroutine of DealTxRoutine: store into queue, then           *)
(* sendToVerify, which drops the hand-off when verifyCh is full.          *)
DealTxQueue(i) ==
    /\ fullCh[i] # <<>>
    /\ LET t == Head(fullCh[i]) IN
         /\ queue' = queue \cup {t}
         /\ fullCh' = [fullCh EXCEPT ![i] = Tail(@)]
         /\ verifyCh' = IF Len(verifyCh[i]) < ChanCap
                          THEN [verifyCh EXCEPT ![i] = Append(@, t)]
                          ELSE verifyCh
    /\ UNCHANGED <<known, pending, working, onChain, adds>>

(* The verify goroutine of DealTxRoutine: verifyTx always passes; the     *)
(* hash moves from queue to pending.                                      *)
DealTxVerify(i) ==
    /\ verifyCh[i] # <<>>
    /\ LET t == Head(verifyCh[i]) IN
         /\ pending' = pending \cup {t}
         /\ queue' = queue \ {t}
         /\ verifyCh' = [verifyCh EXCEPT ![i] = Tail(@)]
    /\ UNCHANGED <<known, fullCh, working, onChain, adds>>

(* The sets Pending(workid, maxtxs) may drain: min(maxtxs, |pending|)     *)
(* hashes, in map iteration order, so any such subset.                    *)
Drainable(max) == kSubset(Min({max, Cardinality(pending)}), pending)

(* Fault variant of Pending: the drained hashes are also left in pending. *)
PendingKeeps(w, drained) ==
    /\ pending' = pending
    /\ working' = IF drained = {} THEN working ELSE [working EXCEPT ![w] = drained]

(* Pending: the drained hashes leave pending and, when there is at least  *)
(* one, are stored under the work id.                                     *)
Pending(w, drained) ==
    /\ pending' = pending \ drained
    /\ working' = IF drained = {} THEN working ELSE [working EXCEPT ![w] = drained]

(* WorkEnded: every hash of the work goes to onChain at the block number  *)
(* when the work succeeded, back to pending otherwise; the entry is       *)
(* removed.  A work id without an entry changes nothing.                  *)
WorkEnded(w, number, succeed) ==
    /\ onChain' = IF succeed
                    THEN [t \in Txs |-> IF t \in working[w] THEN number ELSE onChain[t]]
                    ELSE onChain
    /\ pending' = IF succeed THEN pending ELSE pending \cup working[w]
    /\ working' = [working EXCEPT ![w] = {}]

(* FitOnChain: drop the onChain entries whose block number exceeds the    *)
(* current height by more than poolBlockCount.                            *)
FitOnChain(curHigh) ==
    /\ onChain' = [t \in Txs |-> IF onChain[t] > curHigh + PoolBlockCount
                                   THEN NoBlock ELSE onChain[t]]
    /\ UNCHANGED <<known, fullCh, verifyCh, queue, pending, working, adds>>

(* The ingestion side of the pool, shared by every specification that     *)
(* composes it.                                                            *)
PoolIngest ==
    \/ \E t \in Txs : AddTxCheck(t) \/ AddTxSend(t)
    \/ \E i \in Slots : DealTxQueue(i) \/ DealTxVerify(i)

-----------------------------------------------------------------------------
(* How many places of the pool hold hash t: queue, pending, each entry of *)
(* working, onChain.                                                      *)
HoldCount(t) ==
    Cardinality({w \in WorkIds : t \in working[w]})
      + (IF t \in queue THEN 1 ELSE 0)
      + (IF t \in pending THEN 1 ELSE 0)
      + (IF onChain[t] # NoBlock THEN 1 ELSE 0)
=============================================================================
