---------------------------- MODULE MCMiningRound ----------------------------
(* Model-checking instance of MiningRound: two transactions, two peers     *)
(* with a quorum of one, two rounds, one ingestion slot.                 *)
EXTENDS MiningRound, TLC

CONSTANTS t1, t2, p1, p2

MCTxs == {t1, t2}
MCPeers == {p1, p2}
MCSlots == {1}
MCWorkIds == 1..2
=============================================================================
