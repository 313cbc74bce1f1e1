--------------------------- MODULE MCNodeShutdown ---------------------------
(* Two pool threads, one transaction, a miner and a boot node that may   *)
(* connect, send and disconnect, and two addresses for shxerbase.        *)
EXTENDS NodeShutdown, TLC

CONSTANTS t1, p1, b1, a1, a2
=============================================================================
