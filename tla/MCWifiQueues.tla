----------------------------- MODULE MCWifiQueues -----------------------------
(* Two threads, a command queue of two and a transmit ring of three entries, *)
(* and tails that wrap after six calls.                                      *)
EXTENDS WifiQueues, TLC

CONSTANTS t1, t2

MCCallers == {t1, t2}
MCSymmetry == Permutations(MCCallers)
===============================================================================
