---------------------------- MODULE MCProofSync ----------------------------
(* Two other miners with two proofs each.                                  *)
EXTENDS ProofSync, TLC

CONSTANTS a, c, t1

MCMiners == {a, c}

\* The first proof of each miner carries t1; the others carry nothing.
MCProofTxs == [p \in MCMiners \X (1..MaxNum) |-> IF p[2] = 1 THEN {t1} ELSE {}]
NoProofTxs == [p \in MCMiners \X (1..MaxNum) |-> {}]
=============================================================================
