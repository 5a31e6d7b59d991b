------------------------------ MODULE MCR8169Rx ------------------------------
(* The receive side on a ring of three descriptors, with a short and a long *)
(* frame.                                                                   *)
EXTENDS R8169Rx, TLC

CONSTANTS short, long

MCFrames == {short, long}
MCFrameLen == short :> 1 @@ long :> 3
===============================================================================
