--------------------------- MODULE DescriptorRings ---------------------------
(***************************************************************************)
(* The send and receive rings of e1000, e1000e and vmxnet3.                *)
(*                                                                         *)
(* All six are rings of descriptors with one bit by which driver and       *)
(* device tell each other whose turn it is, and a uint16_t position of the *)
(* driver.  For e1000 and e1000e the bit is DD (status & 1), set by the    *)
(* device, and the driver writes its position, not reduced to the ring, to *)
(* a tail register.  For vmxnet3 it is the generation.  The two rings of a *)
(* card share nothing, so a behaviour is that of one ring of one card.     *)
(*                                                                         *)
(* Registers are taken by the names the driver gives them.  Frames are     *)
(* numbered in the order in which they enter the ring; lengths are left    *)
(* out, and a recv() with too small a buffer changes nothing.              *)
(***************************************************************************)
EXTENDS Integers

CONSTANTS
    RingSize,      \* number of descriptors, 256 in each driver
    TailSpan,      \* number of values of the uint16_t position
    MaxFrames      \* bound: frames numbered in a behaviour

ASSUME RingAssumption == RingSize \in Nat /\ RingSize > 1
ASSUME SpanAssumption == TailSpan \in Nat \ {0} /\ TailSpan % RingSize = 0
ASSUME BoundAssumption == MaxFrames \in Nat

VARIABLES
    card,       \* the driver
    way,        \* the ring: "send" or "recv"
    reading,    \* what the device makes of a tail beyond the ring
    desc,       \* the descriptors: the bit, and the frame in the buffer
    tail,       \* priv->tx_tail or rx_tail (rx_head for vmxnet3)
    gen,        \* priv->tx_gen or rx_gen
    call,       \* what the host is doing inside send or recv
    head,       \* TDH or RDH; the device's own position for vmxnet3
    limit,      \* TDT or RDT
    next,       \* number of the next frame to enter the ring
    last        \* the frame that came out last, on the wire or from recv

vars == <<card, way, reading, desc, tail, gen, call, head, limit, next, last>>

device == <<card, way, reading>>

Slots == 0 .. RingSize - 1

Cards == {"e1000", "e1000e", "vmxnet3"}

Legacy == card \in {"e1000", "e1000e"}

Readings == {"reduce", "ignore", "raw"}

Idle == [at |-> "idle", slot |-> 0]

\* What the three probes leave behind.  A zeroed legacy ring has DD clear;
\* the tail registers give the device nothing to send and all but one of
\* the receive descriptors.  vmxnet3 starts with both generations 1, its
\* receive descriptors in that generation and its send descriptors not.
Init ==
    /\ card \in Cards /\ way \in {"send", "recv"} /\ reading \in Readings
    /\ gen = 1
    /\ desc = [s \in Slots |->
          [bit |-> IF ~Legacy /\ way = "recv" THEN gen ELSE 0, frame |-> 0]]
    /\ tail = 0 /\ call = Idle
    /\ head = 0 /\ limit = (IF way = "recv" THEN RingSize - 1 ELSE 0)
    /\ next = 1 /\ last = 0

Front == tail % RingSize

Enter(at) ==
    /\ call = Idle
    /\ call' = [at |-> at, slot |-> Front]
    /\ UNCHANGED <<device, desc, tail, gen, head, limit, next, last>>

Advance == tail' = (tail + 1) % TailSpan

\* The device's view of a value written to a tail register.  A value beyond
\* the ring is reduced, ignored, or kept and never met.
SetLimit(v) ==
    limit' = IF v < RingSize \/ reading = "reduce" THEN v % RingSize
             ELSE IF reading = "ignore" THEN limit ELSE RingSize

-------------------------------------------------------------------------------
(* e1000_send and e1000e_send *)

\* Mutant: the test of DD is missing.
LegacySendEnterBlind == next <= MaxFrames /\ Enter("fill")

\* The test of DD: a descriptor the device has finished with is refused.
LegacySendEnter ==
    /\ next <= MaxFrames
    /\ desc[Front].bit = 0
    /\ Enter("fill")

\* The stores to the descriptor, the barrier and tx_tail++.
LegacySendFill ==
    /\ call.at = "fill"
    /\ desc' = [desc EXCEPT ![call.slot] = [bit |-> 0, frame |-> next]]
    /\ next' = next + 1
    /\ Advance
    /\ call' = [call EXCEPT !.at = "kick"]
    /\ UNCHANGED <<device, gen, head, limit, last>>

\* The write of TDT.
LegacySendKick ==
    /\ call.at = "kick"
    /\ SetLimit(tail)
    /\ call' = Idle
    /\ UNCHANGED <<device, desc, tail, gen, head, next, last>>

LegacySend == LegacySendEnter \/ LegacySendFill \/ LegacySendKick

E1000Send == card = "e1000" /\ way = "send" /\ LegacySend

E1000eSend == card = "e1000e" /\ way = "send" /\ LegacySend

-------------------------------------------------------------------------------
(* e1000_recv and e1000e_recv *)

\* Mutant: the test of DD is missing.
LegacyRecvEnterBlind == Enter("copy")

LegacyRecvEnter == desc[Front].bit = 1 /\ Enter("copy")

LegacyRecvCopy ==
    /\ call.at = "copy"
    /\ last' = desc[call.slot].frame
    /\ call' = [call EXCEPT !.at = "clear"]
    /\ UNCHANGED <<device, desc, tail, gen, head, limit, next>>

\* Mutant: rx_tail is wider than 16 bits.
LegacyRecvClearWide ==
    /\ call.at = "clear"
    /\ desc' = [desc EXCEPT ![call.slot].bit = 0]
    /\ tail' = tail + 1
    /\ call' = [call EXCEPT !.at = "tail"]
    /\ UNCHANGED <<device, gen, head, limit, next, last>>

\* status = 0 and rx_tail++.
LegacyRecvClear ==
    /\ call.at = "clear"
    /\ desc' = [desc EXCEPT ![call.slot].bit = 0]
    /\ Advance
    /\ call' = [call EXCEPT !.at = "tail"]
    /\ UNCHANGED <<device, gen, head, limit, next, last>>

LegacyRecv == LegacyRecvEnter \/ LegacyRecvCopy \/ LegacyRecvClear

\* e1000 writes RDT and then RDH, which it always sets to rx_head, 0.
E1000RecvTail ==
    /\ call.at = "tail"
    /\ SetLimit(tail)
    /\ call' = [call EXCEPT !.at = "head"]
    /\ UNCHANGED <<device, desc, tail, gen, head, next, last>>

E1000RecvHead ==
    /\ call.at = "head"
    /\ head' = 0
    /\ call' = Idle
    /\ UNCHANGED <<device, desc, tail, gen, limit, next, last>>

E1000Recv ==
    /\ card = "e1000" /\ way = "recv"
    /\ LegacyRecv \/ E1000RecvTail \/ E1000RecvHead

\* Mutant: RDT names the descriptor just emptied, not the one after it.
E1000eRecvTailBehind ==
    /\ call.at = "tail"
    /\ SetLimit(call.slot)
    /\ call' = Idle
    /\ UNCHANGED <<device, desc, tail, gen, head, next, last>>

\* e1000e writes RDT only.
E1000eRecvTail ==
    /\ call.at = "tail"
    /\ SetLimit(tail)
    /\ call' = Idle
    /\ UNCHANGED <<device, desc, tail, gen, head, next, last>>

E1000eRecv ==
    /\ card = "e1000e" /\ way = "recv"
    /\ LegacyRecv \/ E1000eRecvTail

-------------------------------------------------------------------------------
(* vmxnet3_send and vmxnet3_recv.  No register is written.                 *)

Vmxnet3SendEnter ==
    /\ next <= MaxFrames
    /\ desc[Front].bit # gen
    /\ Enter("fill")

\* The generation is toggled at the end of the ring.
Turn == gen' = IF (tail + 1) % RingSize = 0 THEN 1 - gen ELSE gen

\* Mutant: tx_gen is never toggled.
Vmxnet3SendFillSame ==
    /\ call.at = "fill"
    /\ desc' = [desc EXCEPT ![call.slot] = [bit |-> gen, frame |-> next]]
    /\ next' = next + 1
    /\ Advance
    /\ call' = Idle
    /\ UNCHANGED <<device, gen, head, limit, last>>

Vmxnet3SendFill ==
    /\ call.at = "fill"
    /\ desc' = [desc EXCEPT ![call.slot] = [bit |-> gen, frame |-> next]]
    /\ next' = next + 1
    /\ Advance /\ Turn
    /\ call' = Idle
    /\ UNCHANGED <<device, head, limit, last>>

Vmxnet3Send ==
    /\ card = "vmxnet3" /\ way = "send"
    /\ Vmxnet3SendEnter \/ Vmxnet3SendFill

Vmxnet3RecvEnter == desc[Front].bit = gen /\ Enter("copy")

Vmxnet3RecvCopy ==
    /\ call.at = "copy"
    /\ last' = desc[call.slot].frame
    /\ call' = [call EXCEPT !.at = "clear"]
    /\ UNCHANGED <<device, desc, tail, gen, head, limit, next>>

\* "Return buffer to device".
Vmxnet3RecvReturn ==
    /\ call.at = "clear"
    /\ desc' = [desc EXCEPT ![call.slot].bit = 1 - gen]
    /\ Advance /\ Turn
    /\ call' = Idle
    /\ UNCHANGED <<device, head, limit, next, last>>

Vmxnet3Recv ==
    /\ card = "vmxnet3" /\ way = "recv"
    /\ Vmxnet3RecvEnter \/ Vmxnet3RecvCopy \/ Vmxnet3RecvReturn

-------------------------------------------------------------------------------
(* The devices.  A legacy device works from its head to its tail register  *)
(* and sets DD, and looks at nothing else.  vmxnet3 reports in completion  *)
(* rings that the driver sets up and never reads, so of its work only the  *)
(* frames it puts into the receive buffers are visible here; send never    *)
(* tells it that there is anything to transmit.                            *)

NextSlot(s) == (s + 1) % RingSize

LegacyTransmit ==
    /\ Legacy /\ way = "send" /\ head # limit
    /\ last' = desc[head].frame
    /\ desc' = [desc EXCEPT ![head].bit = 1]
    /\ head' = NextSlot(head)
    /\ UNCHANGED <<device, tail, gen, call, limit, next>>

LegacyReceive ==
    /\ Legacy /\ way = "recv" /\ head # limit /\ next <= MaxFrames
    /\ desc' = [desc EXCEPT ![head] = [bit |-> 1, frame |-> next]]
    /\ next' = next + 1
    /\ head' = NextSlot(head)
    /\ UNCHANGED <<device, tail, gen, call, limit, last>>

Vmxnet3Receive ==
    /\ ~Legacy /\ way = "recv" /\ next <= MaxFrames
    /\ desc' = [desc EXCEPT ![head].frame = next]
    /\ next' = next + 1
    /\ head' = NextSlot(head)
    /\ UNCHANGED <<device, tail, gen, call, limit, last>>

-------------------------------------------------------------------------------

Next ==
    \/ E1000Send \/ E1000eSend \/ Vmxnet3Send
    \/ E1000Recv \/ E1000eRecv \/ Vmxnet3Recv
    \/ LegacyTransmit \/ LegacyReceive \/ Vmxnet3Receive

Spec == Init /\ [][Next]_vars

-------------------------------------------------------------------------------
(* Properties *)

\* Type invariant of every ring.
TypeOK ==
    /\ card \in Cards /\ way \in {"send", "recv"} /\ reading \in Readings
    /\ desc \in [Slots -> [bit : 0 .. 1, frame : 0 .. MaxFrames]]
    /\ tail \in 0 .. TailSpan - 1
    /\ gen \in 0 .. 1
    /\ call \in [at : {"idle", "fill", "kick", "copy", "clear", "tail", "head"},
                 slot : Slots]
    /\ head \in Slots /\ limit \in 0 .. RingSize
    /\ next \in 1 .. MaxFrames + 1
    /\ last \in 0 .. MaxFrames

\* Nothing has gone round the ring yet: no more frames were accepted by send,
\* or returned by recv, than there are descriptors.
FirstLap == IF way = "send" THEN next <= RingSize + 1 ELSE last < RingSize

\* Where frames come out in order.  e1000e's receive ring keeps the order as
\* long as the device finds the tail inside the ring; the others lose it
\* after one lap: send overwrites descriptors the device has not reached, and
\* e1000_recv sets the device back to descriptor 0 each time.  A device that
\* keeps a tail beyond the ring goes round without end, from the send that
\* fills the last descriptor on.
Orderly ==
    /\ Legacy /\ limit < RingSize
    /\ FirstLap \/ (card = "e1000e" /\ way = "recv" /\ reading # "raw")

\* Frames leave, and are received, one after the other: none is lost, none
\* comes twice and none overtakes another.
InOrder == [][last' # last /\ Orderly => last' = last + 1]_vars

Done(s) == Legacy /\ way = "send" /\ desc[s].bit = 1

Spent == call = Idle /\ \A s \in Slots : Done(s)

\* A legacy send ring is good for one round, since send takes DD for "busy"
\* and only send could clear it.  When every descriptor has been sent, send
\* refuses for good; and before that a sent descriptor is rewritten only by a
\* send of a later lap that had looked at it before the device was done.
OneRound ==
    [][/\ Spent => Spent'
       /\ \A s \in Slots : Done(s) /\ ~Done(s)' =>
             call = [at |-> "fill", slot |-> s] /\ next > RingSize]_vars

\* recv() has returned a frame and finds no other.
Dry ==
    /\ Legacy /\ way = "recv" /\ call = Idle
    /\ last > 0 /\ desc[Front].bit = 0
    /\ FirstLap \/ reading = "reduce"

\* A legacy receive ring that has been drained once is never filled again at
\* the descriptor recv() waits for: RDT then names that descriptor, the
\* device stops short of it, and only a recv() with a frame would move RDT.
\* (After the first lap this depends on what the device makes of RDT.)
OnceDry == [][Dry => Dry']_vars

\* The generation tests of vmxnet3 never say no, whatever the device does:
\* send always finds its descriptor free, over unsent frames and lap after
\* lap, and recv always finds one received, also before any frame arrived.
GenerationBlind ==
    card = "vmxnet3" /\ call = Idle =>
        (desc[Front].bit = gen) = (way = "recv")
===============================================================================
