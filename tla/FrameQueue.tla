------------------------------ MODULE FrameQueue ------------------------------
(***************************************************************************)
(* What one direction of a network driver promises its caller: a bounded,  *)
(* lossless, in-order pipe of frames.  For the send direction the sink is  *)
(* the wire, for the receive direction it is the caller of recv().         *)
(*                                                                         *)
(* struct nc_net_driver declares send and recv and says nothing about      *)
(* queues; the promise below is the weakest one under which "send returned *)
(* len" and "recv returned n" mean what their callers take them to mean.   *)
(***************************************************************************)
EXTENDS Naturals, Sequences

CONSTANTS Depth,     \* how many frames the pipe can hold
          Frames,    \* the frames that travel
          NoFrame    \* nothing has come out yet

VARIABLES queue,     \* frames inside, oldest first
          out        \* the frame that came out last

vars == <<queue, out>>

Init == queue = <<>> /\ out = NoFrame

Put(f) ==
    /\ Len(queue) < Depth
    /\ queue' = Append(queue, f)
    /\ UNCHANGED out

Take ==
    /\ queue # <<>>
    /\ out' = Head(queue)
    /\ queue' = Tail(queue)

Next == (\E f \in Frames : Put(f)) \/ Take

Spec == Init /\ [][Next]_vars

\* What is inside comes out.
Moves == WF_vars(Take)
===============================================================================
