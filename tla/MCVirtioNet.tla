----------------------------- MODULE MCVirtioNet -----------------------------
(* A queue of three buffers, whose indexes wrap after three rounds, with a  *)
(* short and a long frame.                                                  *)
EXTENDS VirtioNet, TLC

CONSTANTS short, long

MCFrames == {short, long}
MCFrameLen == short :> 1 @@ long :> 3
===============================================================================
