--------------------------- MODULE VirtioNetProofs ---------------------------
(***************************************************************************)
(* What becomes of the receive queue of virtio-net, for every queue size,  *)
(* every width of its indexes that is more than two rounds, every set of   *)
(* frames and lengths: it is used for one round, and in that round every   *)
(* frame gets through.                                                     *)
(***************************************************************************)
EXTENDS VirtioNet, RingArithmetic, SequenceTheorems

\* How far everybody is: recv behind the device's announcements, those
\* behind what it has taken, and that within one round.
Counters ==
    /\ own.rxUsed = own.rxAvail + (IF call.at = "store" THEN 1 ELSE 0)
    /\ own.rxUsed <= used.idx
    /\ dev.taken = used.idx + (IF dev.open = NoEntry THEN 0 ELSE 1)
    /\ dev.taken <= QueueSize
    /\ own.txAvail <= own.rxUsed + QueueSize
    /\ call.at = "copy" => own.rxUsed < used.idx /\ call.slot = own.rxUsed
    /\ call.at = "store" => call.slot = own.rxAvail

\* What the device has been offered: the whole queue once, and from the
\* first recv on an index it has passed already.
Offers ==
    /\ avail.ring = [s \in Slots |-> s]
    /\ avail.idx = QueueSize \/ avail.idx <= dev.taken
    /\ ~dev.broken => dev.taken <= dev.seen /\ dev.seen <= QueueSize

\* What the announced entries say is true of the buffers.
Contents ==
    /\ \A s \in Slots : s < used.idx =>
          /\ buffer[s] \in Frames
          /\ used.ring[s] = [id |-> s, len |-> FrameLen[buffer[s]]]
    /\ dev.open # NoEntry =>
          /\ buffer[used.idx] \in Frames
          /\ dev.open = [id |-> used.idx, len |-> FrameLen[buffer[used.idx]]]
    /\ call.at = "store" => call.got = buffer[call.slot]

IInv == TypeOK /\ Counters /\ Offers /\ Contents

-------------------------------------------------------------------------------
(* Arithmetic: nothing of this goes once round the queue, so no remainder   *)
(* and no wrap matters.                                                    *)

LEMMA InRound == \A i \in Slots : i % QueueSize = i
BY SizeAssumption DEF Slots

LEMMA BumpIs ==
    ASSUME NEW i \in Nat, i < 2 * QueueSize
    PROVE  Bump(i) = i + 1 /\ Bump(i) \in Indexes
<1>1. i + 1 \in 0 .. IndexSpan - 1 /\ IndexSpan \in Nat \ {0}
  BY SizeAssumption, SpanAssumption
<1>2. (i + 1) % IndexSpan = i + 1
  BY <1>1
<1> QED
  BY <1>1, <1>2 DEF Bump, Indexes

\* An index the device has passed offers it, by its own reckoning, more
\* entries than the queue has.
LEMMA BehindIsTooFar ==
    ASSUME NEW i \in Nat, NEW j \in Nat, i < j, j <= QueueSize
    PROVE  (i - j) % IndexSpan > QueueSize
<1>1. /\ IndexSpan \in Nat \ {0} /\ QueueSize \in Nat /\ IndexSpan > 2 * QueueSize
      /\ i - j + IndexSpan \in 0 .. IndexSpan - 1
  BY SizeAssumption, SpanAssumption
<1>2. (IndexSpan * (-1) + (i - j + IndexSpan)) % IndexSpan = i - j + IndexSpan
  BY <1>1, RemainderUnique
<1>3. IndexSpan * (-1) + (i - j + IndexSpan) = i - j
  BY <1>1
<1> QED
  BY <1>1, <1>2, <1>3

\* An entry somebody has filled in is not the absent one.
LEMMA EntryIsSome == \A id \in Slots, f \in Frames : [id |-> id, len |-> FrameLen[f]] # NoEntry
BY LengthAssumption DEF NoEntry

LEMMA EntryTyped == \A id \in Slots, f \in Frames : [id |-> id, len |-> FrameLen[f]] \in Entries
BY DEF Entries, Lengths

-------------------------------------------------------------------------------
(* The invariant holds of a probed device, and every step keeps it.        *)

LEMMA InitInv == Init => IInv
<1> SUFFICES ASSUME Init PROVE IInv
  OBVIOUS
<1>1. 0 \in Slots /\ 0 \in Indexes /\ QueueSize \in Indexes /\ QueueSize \in Nat \ {0}
  BY SizeAssumption, SpanAssumption DEF Slots, Indexes
<1>2. TypeOK
  <2>1. NoEntry \in Entries /\ 0 \in Lengths
    BY <1>1 DEF NoEntry, Entries, Lengths
  <2> QED
    BY <1>1, <2>1 DEF Init, TypeOK, Idle, Nothing
<1>3. Counters /\ Offers /\ Contents
  BY <1>1 DEF Init, Counters, Offers, Contents, Idle, Slots
<1> QED
  BY <1>2, <1>3 DEF IInv

\* The types of the indexes, as the arithmetic wants them.
LEMMA Numbers ==
    ASSUME IInv
    PROVE  /\ QueueSize \in Nat \ {0}
           /\ own.rxAvail \in Nat /\ own.rxUsed \in Nat /\ own.txAvail \in Nat
           /\ used.idx \in Nat /\ used.idx <= QueueSize
           /\ dev.taken \in Nat /\ dev.taken <= QueueSize /\ used.idx <= dev.taken
           /\ dev.seen \in Nat /\ avail.idx \in Nat
<1>1. /\ own.rxAvail \in Indexes /\ own.rxUsed \in Indexes
      /\ own.txAvail \in Indexes /\ used.idx \in Indexes
      /\ dev.taken \in Indexes /\ dev.seen \in Indexes /\ avail.idx \in Indexes
  BY DEF IInv, TypeOK
<1>2. \A i \in Indexes : i \in Nat
  BY SpanAssumption DEF Indexes
<1> QED
  BY <1>1, <1>2, SizeAssumption DEF IInv, Counters

LEMMA SendInv == IInv /\ Send => IInv'
<1> SUFFICES ASSUME IInv, Send PROVE IInv'
  OBVIOUS
<1>1. /\ own.txAvail < 2 * QueueSize /\ own.txAvail \in Nat
      /\ own.txAvail < own.rxUsed + QueueSize
  BY Numbers DEF Send, IInv, Counters
<1>2. Bump(own.txAvail) = own.txAvail + 1 /\ Bump(own.txAvail) \in Indexes
  BY <1>1, BumpIs
<1>3. /\ own' = [own EXCEPT !.txAvail = own.txAvail + 1]
      /\ UNCHANGED <<avail, used, buffer, call, given, dev>>
  BY <1>2 DEF Send
<1>4. TypeOK'
  BY <1>2, <1>3 DEF IInv, TypeOK
<1>5. Counters'
  <2>1. /\ own'.rxUsed = own.rxUsed /\ own'.rxAvail = own.rxAvail
        /\ own'.txAvail = own.txAvail + 1
    BY <1>3 DEF IInv, TypeOK
  <2> QED
    BY <1>1, <1>3, <2>1, Numbers DEF IInv, Counters
<1>6. Offers' /\ Contents'
  BY <1>3 DEF IInv, Offers, Contents
<1> QED
  BY <1>4, <1>5, <1>6 DEF IInv

LEMMA RecvEnterInv ==
    ASSUME IInv, NEW room \in CallerSizes, RecvEnter(room)
    PROVE  IInv'
<1>1. own.rxUsed < used.idx /\ own.rxUsed \in Slots
  BY Numbers DEF RecvEnter, IInv, Counters, Slots
<1>2. /\ call' = [Idle EXCEPT !.at = "copy", !.slot = own.rxUsed]
      /\ UNCHANGED <<avail, used, buffer, own, given, dev>>
  BY <1>1, InRound DEF RecvEnter
<1>3. /\ call'.at = "copy" /\ call'.slot = own.rxUsed
      /\ call'.got = NoFrame /\ call'.todo = {}
  BY <1>2 DEF Idle
<1>4. TypeOK'
  BY <1>1, <1>2 DEF IInv, TypeOK, Idle
<1>5. Counters'
  <2>1. own.rxUsed = own.rxAvail
    BY Numbers DEF RecvEnter, IInv, Counters, Idle
  <2> QED
    BY <1>1, <1>2, <1>3, <2>1, Numbers DEF IInv, Counters
<1>6. Offers' /\ Contents'
  BY <1>2, <1>3 DEF IInv, Offers, Contents
<1> QED
  BY <1>4, <1>5, <1>6 DEF IInv

LEMMA RecvCopyInv == IInv /\ RecvCopy => IInv'
<1> SUFFICES ASSUME IInv, RecvCopy PROVE IInv'
  OBVIOUS
<1>1. /\ call.at = "copy" /\ call.slot = own.rxUsed /\ own.rxUsed < used.idx
      /\ own.rxUsed = own.rxAvail /\ own.rxUsed \in Slots
  BY Numbers DEF RecvCopy, IInv, Counters, Slots
<1>2. used.ring[call.slot].id = call.slot /\ buffer[call.slot] \in Frames
  <2>1. call.slot \in Slots /\ call.slot < used.idx
    BY <1>1
  <2>2. used.ring[call.slot] = [id |-> call.slot, len |-> FrameLen[buffer[call.slot]]]
    BY <2>1 DEF IInv, Contents
  <2>3. buffer[call.slot] \in Frames
    BY <2>1 DEF IInv, Contents
  <2> QED
    BY <2>2, <2>3
<1>3. Bump(own.rxUsed) = own.rxUsed + 1 /\ Bump(own.rxUsed) \in Indexes
  BY <1>1, Numbers, BumpIs
<1>4. /\ call' = [call EXCEPT !.at = "store", !.todo = Stores, !.got = buffer[call.slot]]
      /\ own' = [own EXCEPT !.rxUsed = own.rxUsed + 1]
      /\ UNCHANGED <<avail, used, buffer, given, dev>>
  BY <1>2, <1>3 DEF RecvCopy
<1>5. TypeOK'
  BY <1>2, <1>3, <1>4 DEF IInv, TypeOK
<1>6. /\ call'.at = "store" /\ call'.slot = call.slot /\ call'.got = buffer[call.slot]
      /\ own'.rxUsed = own.rxUsed + 1 /\ own'.rxAvail = own.rxAvail
      /\ own'.txAvail = own.txAvail
  BY <1>4 DEF IInv, TypeOK
<1>7. Counters'
  BY <1>1, <1>4, <1>6, Numbers DEF IInv, Counters
<1>8. Offers' /\ Contents'
  BY <1>4, <1>6 DEF IInv, Offers, Contents
<1> QED
  BY <1>5, <1>7, <1>8 DEF IInv

\* What a store does: the entry it writes back is the one that is there
\* already, and the index is the number of frames returned, this one included.
LEMMA RecvStoreEffect ==
    ASSUME IInv, NEW x \in Stores, RecvStore(x)
    PROVE  /\ call.at = "store" /\ call.slot = own.rxAvail /\ own.rxAvail \in Slots
           /\ own.rxUsed = own.rxAvail + 1 /\ own.rxUsed <= used.idx
           /\ avail' = IF x = "ring" THEN avail
                       ELSE [avail EXCEPT !.idx = own.rxAvail + 1]
           /\ IF call.todo = {x}
              THEN /\ own' = [own EXCEPT !.rxAvail = own.rxAvail + 1]
                   /\ given' = Packet(call.got)
                   /\ call' = Idle
              ELSE /\ call' = [call EXCEPT !.todo = call.todo \ {x}]
                   /\ UNCHANGED <<own, given>>
           /\ UNCHANGED <<used, buffer, dev>>
<1>1. /\ call.at = "store" /\ call.slot = own.rxAvail /\ own.rxAvail \in Slots
      /\ own.rxUsed = own.rxAvail + 1 /\ own.rxAvail < used.idx
  BY Numbers DEF RecvStore, IInv, Counters, Slots
<1>2. /\ buffer[call.slot] \in Frames /\ call.got = buffer[call.slot]
      /\ used.ring[call.slot] = [id |-> call.slot, len |-> FrameLen[buffer[call.slot]]]
  BY <1>1 DEF IInv, Contents
<1>3. Bump(own.rxAvail) = own.rxAvail + 1 /\ own.rxAvail % QueueSize = own.rxAvail
  BY <1>1, Numbers, BumpIs, InRound
<1>4. [avail EXCEPT !.ring[own.rxAvail] = call.slot] = avail
  <2>1. /\ avail \in [idx : Indexes, ring : [Slots -> Slots]]
        /\ avail.ring[own.rxAvail] = call.slot
    BY <1>1 DEF IInv, TypeOK, Offers
  <2>2. [avail.ring EXCEPT ![own.rxAvail] = call.slot] = avail.ring
    BY <2>1, <1>1
  <2> QED
    BY <2>1, <2>2
<1> QED
  BY <1>1, <1>2, <1>3, <1>4, Numbers DEF RecvStore, Packet

LEMMA RecvStoreInv ==
    ASSUME IInv, NEW x \in Stores, RecvStore(x)
    PROVE  IInv'
<1>1. /\ call.at = "store" /\ call.slot = own.rxAvail /\ own.rxAvail \in Slots
      /\ own.rxUsed = own.rxAvail + 1 /\ own.rxUsed <= used.idx
      /\ avail' = IF x = "ring" THEN avail
                  ELSE [avail EXCEPT !.idx = own.rxAvail + 1]
      /\ UNCHANGED <<used, buffer, dev>>
  BY RecvStoreEffect
<1>2. own.rxAvail + 1 \in Indexes /\ call.got \in Frames
  <2>1. Bump(own.rxAvail) = own.rxAvail + 1 /\ Bump(own.rxAvail) \in Indexes
    BY <1>1, Numbers, BumpIs
  <2>2. own.rxAvail < used.idx
    BY <1>1, Numbers
  <2> QED
    BY <1>1, <2>1, <2>2 DEF IInv, Contents
<1>3. /\ avail' \in [idx : Indexes, ring : [Slots -> Slots]]
      /\ avail'.ring = avail.ring
      /\ avail'.idx = avail.idx \/ avail'.idx = own.rxAvail + 1
  BY <1>1, <1>2 DEF IInv, TypeOK
<1>4. Offers'
  BY <1>1, <1>3, Numbers DEF IInv, Offers
<1>5. CASE call.todo = {x}
  <2>1. /\ own' = [own EXCEPT !.rxAvail = own.rxAvail + 1]
        /\ given' = Packet(call.got) /\ call' = Idle
    BY <1>5, RecvStoreEffect
  <2>2. TypeOK'
    <3>1. given' \in [frame : Frames \cup {NoFrame}, len : Lengths]
      BY <2>1, <1>2 DEF Packet, Lengths
    <3>2. 0 \in Slots
      BY SizeAssumption DEF Slots
    <3> QED
      BY <1>1, <1>2, <1>3, <2>1, <3>1, <3>2 DEF IInv, TypeOK, Idle
  <2>3. /\ own'.rxUsed = own.rxUsed /\ own'.rxAvail = own.rxAvail + 1
        /\ own'.txAvail = own.txAvail /\ call'.at = "idle"
    BY <2>1 DEF IInv, TypeOK, Idle
  <2>4. Counters' /\ Contents'
    BY <1>1, <2>3, Numbers DEF IInv, Counters, Contents
  <2> QED
    BY <1>4, <2>2, <2>4 DEF IInv
<1>6. CASE call.todo # {x}
  <2>1. call' = [call EXCEPT !.todo = call.todo \ {x}] /\ UNCHANGED <<own, given>>
    BY <1>6, RecvStoreEffect
  <2>2. TypeOK'
    BY <1>1, <1>3, <2>1 DEF IInv, TypeOK
  <2>3. /\ call'.at = call.at /\ call'.slot = call.slot /\ call'.got = call.got
    BY <2>1 DEF IInv, TypeOK
  <2>4. Counters' /\ Contents'
    BY <1>1, <2>1, <2>3 DEF IInv, Counters, Contents
  <2> QED
    BY <1>4, <2>2, <2>4 DEF IInv
<1> QED
  BY <1>5, <1>6

LEMMA DeviceLookInv == IInv /\ DeviceLook => IInv'
<1> SUFFICES ASSUME IInv, DeviceLook PROVE IInv'
  OBVIOUS
<1>1. /\ dev' = [dev EXCEPT !.seen = avail.idx, !.broken =
                     (avail.idx - dev.taken) % IndexSpan > QueueSize]
      /\ UNCHANGED <<avail, used, buffer, own, call, given>>
  BY DEF DeviceLook
<1> DEFINE far == (avail.idx - dev.taken) % IndexSpan > QueueSize
<1>2. /\ dev' \in [taken : Indexes, seen : Indexes, open : Entries, broken : BOOLEAN]
      /\ dev'.taken = dev.taken /\ dev'.open = dev.open /\ dev'.seen = avail.idx
      /\ dev'.broken = far
  <2>1. far \in BOOLEAN
    OBVIOUS
  <2>2. dev' = [dev EXCEPT !.seen = avail.idx, !.broken = far]
    BY <1>1
  <2> HIDE DEF far
  <2> QED
    BY <2>1, <2>2 DEF IInv, TypeOK
<1>3. TypeOK'
  BY <1>1, <1>2 DEF IInv, TypeOK
<1>4. Counters' /\ Contents'
  BY <1>1, <1>2 DEF IInv, Counters, Contents
<1>5. Offers'
  <2>1. avail.idx < dev.taken => far
    BY Numbers, BehindIsTooFar
  <2> HIDE DEF far
  <2> QED
    BY <1>1, <1>2, <2>1, Numbers DEF IInv, Offers
<1> QED
  BY <1>3, <1>4, <1>5 DEF IInv

\* The device fills the buffer whose turn it is, the one after those it
\* has announced.
LEMMA DeviceFillEffect ==
    ASSUME IInv, NEW f \in Frames, DeviceFill(f)
    PROVE  /\ dev.open = NoEntry /\ used.idx = dev.taken
           /\ dev.taken \in Slots /\ dev.taken < dev.seen
           /\ buffer' = [buffer EXCEPT ![dev.taken] = f]
           /\ dev' = [dev EXCEPT !.taken = dev.taken + 1,
                                 !.open = [id |-> dev.taken, len |-> FrameLen[f]]]
           /\ UNCHANGED <<avail, used, own, call, given>>
<1>1. /\ dev.open = NoEntry /\ used.idx = dev.taken
      /\ dev.taken \in Slots /\ dev.taken < dev.seen
  BY Numbers DEF DeviceFill, IInv, Counters, Offers, Slots
<1>2. /\ avail.ring[dev.taken % QueueSize] = dev.taken
      /\ Bump(dev.taken) = dev.taken + 1
  BY <1>1, Numbers, InRound, BumpIs DEF IInv, Offers
<1> QED
  BY <1>1, <1>2 DEF DeviceFill

LEMMA DeviceFillInv ==
    ASSUME IInv, NEW f \in Frames, DeviceFill(f)
    PROVE  IInv'
<1>1. /\ dev.open = NoEntry /\ used.idx = dev.taken
      /\ dev.taken \in Slots /\ dev.taken < dev.seen
      /\ buffer' = [buffer EXCEPT ![dev.taken] = f]
      /\ dev' = [dev EXCEPT !.taken = dev.taken + 1,
                            !.open = [id |-> dev.taken, len |-> FrameLen[f]]]
      /\ UNCHANGED <<avail, used, own, call, given>>
  BY DeviceFillEffect
<1>2. dev.taken + 1 \in Indexes
  BY <1>1, Numbers, SizeAssumption, SpanAssumption DEF Indexes, Slots
<1>3. TypeOK'
  BY <1>1, <1>2, EntryTyped DEF IInv, TypeOK
<1>4. /\ dev'.taken = dev.taken + 1 /\ dev'.seen = dev.seen /\ dev'.broken = dev.broken
      /\ dev'.open = [id |-> dev.taken, len |-> FrameLen[f]] /\ dev'.open # NoEntry
  BY <1>1, EntryIsSome DEF IInv, TypeOK
<1>5. /\ buffer'[dev.taken] = f
      /\ \A s \in Slots : s # dev.taken => buffer'[s] = buffer[s]
  BY <1>1 DEF IInv, TypeOK
<1>6. Counters'
  <2>1. dev.taken + 1 <= QueueSize
    BY <1>1, Numbers DEF Slots
  <2>2. dev'.taken = used'.idx + 1 /\ dev'.taken <= QueueSize
    BY <1>1, <1>4, <2>1
  <2> QED
    BY <1>1, <1>4, <2>2 DEF IInv, Counters
<1>7. Offers'
  BY <1>1, <1>4, Numbers DEF IInv, Offers
<1>8. Contents'
  <2>1. \A s \in Slots : s < used.idx => buffer'[s] = buffer[s]
    BY <1>1, <1>5, Numbers
  <2>2. call.at = "store" => call.slot \in Slots /\ call.slot < used.idx
    BY Numbers DEF IInv, Counters, TypeOK
  <2> QED
    BY <1>1, <1>4, <1>5, <2>1, <2>2 DEF IInv, Contents
<1> QED
  BY <1>3, <1>6, <1>7, <1>8 DEF IInv

\* The entry it posts is the next one, and the one for that buffer.
LEMMA DevicePostEffect ==
    ASSUME IInv, DevicePost
    PROVE  /\ used.idx \in Slots /\ dev.taken = used.idx + 1
           /\ buffer[used.idx] \in Frames
           /\ dev.open = [id |-> used.idx, len |-> FrameLen[buffer[used.idx]]]
           /\ used' = [idx |-> used.idx + 1,
                       ring |-> [used.ring EXCEPT ![used.idx] = dev.open]]
           /\ dev' = [dev EXCEPT !.open = NoEntry]
           /\ UNCHANGED <<avail, buffer, own, call, given>>
<1>1. dev.taken = used.idx + 1 /\ used.idx \in Slots
  BY Numbers DEF DevicePost, IInv, Counters, Slots
<1>2. used.idx % QueueSize = used.idx /\ Bump(used.idx) = used.idx + 1
  BY <1>1, Numbers, InRound, BumpIs
<1> QED
  BY <1>1, <1>2 DEF DevicePost, IInv, Contents

LEMMA DevicePostInv == IInv /\ DevicePost => IInv'
<1> SUFFICES ASSUME IInv, DevicePost PROVE IInv'
  OBVIOUS
<1>1. /\ used.idx \in Slots /\ dev.taken = used.idx + 1
      /\ buffer[used.idx] \in Frames
      /\ dev.open = [id |-> used.idx, len |-> FrameLen[buffer[used.idx]]]
      /\ used' = [idx |-> used.idx + 1,
                  ring |-> [used.ring EXCEPT ![used.idx] = dev.open]]
      /\ dev' = [dev EXCEPT !.open = NoEntry]
      /\ UNCHANGED <<avail, buffer, own, call, given>>
  BY DevicePostEffect
<1>2. TypeOK'
  <2>1. used.idx + 1 \in Indexes /\ NoEntry \in Entries
    BY <1>1, SizeAssumption, SpanAssumption DEF Indexes, Slots, NoEntry, Entries, Lengths
  <2> QED
    BY <1>1, <2>1 DEF IInv, TypeOK
<1>3. /\ dev'.taken = dev.taken /\ dev'.seen = dev.seen /\ dev'.broken = dev.broken
      /\ dev'.open = NoEntry /\ used'.idx = used.idx + 1
      /\ used'.ring[used.idx] = dev.open
      /\ \A s \in Slots : s # used.idx => used'.ring[s] = used.ring[s]
  BY <1>1 DEF IInv, TypeOK
<1>4. Counters' /\ Offers'
  BY <1>1, <1>3, Numbers DEF IInv, Counters, Offers
<1>5. Contents'
  <2>1. \A s \in Slots : s < used.idx + 1 => s = used.idx \/ s < used.idx
    BY Numbers DEF Slots
  <2> QED
    BY <1>1, <1>3, <2>1 DEF IInv, Contents
<1> QED
  BY <1>2, <1>4, <1>5 DEF IInv

LEMMA NextInv == IInv /\ [Next]_vars => IInv'
<1> SUFFICES ASSUME IInv, [Next]_vars PROVE IInv'
  OBVIOUS
<1>1. CASE UNCHANGED vars
  BY <1>1 DEF vars, IInv, TypeOK, Counters, Offers, Contents
<1>2. CASE Recv
  BY <1>2, RecvEnterInv, RecvCopyInv, RecvStoreInv DEF Recv
<1>3. CASE Device
  BY <1>3, DeviceLookInv, DeviceFillInv, DevicePostInv DEF Device
<1> QED
  BY <1>1, <1>2, <1>3, SendInv DEF Next

LEMMA Invariance == Spec => []IInv
<1>1. Init => IInv
  BY InitInv
<1>2. IInv /\ [Next]_vars => IInv'
  BY NextInv
<1> QED
  BY <1>1, <1>2, PTL DEF Spec

\* Every index keeps to 16 bits and no ring entry names a buffer that does
\* not exist, for every queue size.
THEOREM VirtioTypeCorrect == Spec => []TypeOK
<1>1. IInv => TypeOK
  BY DEF IInv
<1> QED
  BY <1>1, Invariance, PTL

\* For every queue size: no buffer reaches the device a second time, so a
\* probed device receives one frame per buffer and then nothing, and send
\* accepts queue_size frames and one more for each frame received.
THEOREM VirtioRunsDry == Spec => []RunsDry
<1>1. IInv => RunsDry
  <2> SUFFICES ASSUME IInv PROVE RunsDry
    OBVIOUS
  <2> QED
    BY Numbers DEF IInv, Counters, RunsDry
<1> QED
  BY <1>1, Invariance, PTL

-------------------------------------------------------------------------------
(* In the one round there is, the receive side implements the frame queue. *)

\* The frames on their way, without remainders: those from the first that
\* recv has not returned to the last that the device has announced.
Stretch == [i \in 1 .. used.idx - own.rxAvail |-> Packet(buffer[own.rxAvail + i - 1])]

QueueIsStretch ==
    /\ Queue = Stretch
    /\ Queue \in Seq(Packets)
    /\ Len(Queue) = used.idx - own.rxAvail

LEMMA FunctionIsSeq ==
    ASSUME NEW S, NEW n \in Nat, NEW f \in [1 .. n -> S]
    PROVE  f \in Seq(S) /\ Len(f) = n
<1>1. f \in Seq(S)
  BY SeqDef
<1>2. DOMAIN f = 1 .. n
  OBVIOUS
<1> QED
  BY <1>1, <1>2, LenProperties

\* What an announced entry stands for.
LEMMA Announced ==
    ASSUME IInv, NEW s \in Slots, s < used.idx
    PROVE  /\ [frame |-> buffer[used.ring[s].id], len |-> used.ring[s].len]
                 = Packet(buffer[s])
           /\ Packet(buffer[s]) \in Packets
<1>1. buffer[s] \in Frames /\ used.ring[s] = [id |-> s, len |-> FrameLen[buffer[s]]]
  BY DEF IInv, Contents
<1> QED
  BY <1>1 DEF Packet, Packets

\* The part of the queue that no call has copied yet.
LEMMA UnreadIs ==
    ASSUME IInv
    PROVE  /\ Unread = used.idx - own.rxUsed /\ Unread \in Nat
           /\ \A i \in 1 .. Unread :
                 /\ [frame |-> buffer[Waiting(i - 1).id], len |-> Waiting(i - 1).len]
                      = Packet(buffer[own.rxUsed + i - 1])
                 /\ Packet(buffer[own.rxUsed + i - 1]) \in Packets
<1>1. own.rxUsed <= used.idx
  BY DEF IInv, Counters
<1>2. Unread = used.idx - own.rxUsed /\ Unread \in Nat
  <2>1. used.idx - own.rxUsed \in 0 .. IndexSpan - 1 /\ IndexSpan \in Nat \ {0}
    BY <1>1, Numbers, SizeAssumption, SpanAssumption
  <2>2. (used.idx - own.rxUsed) % IndexSpan = used.idx - own.rxUsed
    BY <2>1
  <2> QED
    BY <2>1, <2>2 DEF Unread
<1>3. ASSUME NEW i \in 1 .. Unread
      PROVE  /\ [frame |-> buffer[Waiting(i - 1).id], len |-> Waiting(i - 1).len]
                   = Packet(buffer[own.rxUsed + i - 1])
             /\ Packet(buffer[own.rxUsed + i - 1]) \in Packets
  <2> DEFINE s == own.rxUsed + i - 1
  <2>1. s \in Slots /\ s < used.idx /\ own.rxUsed + (i - 1) = s
    BY <1>2, Numbers DEF Slots
  <2>2. Waiting(i - 1) = used.ring[s]
    <3>1. s % QueueSize = s
      BY <2>1, InRound
    <3> QED
      BY <2>1, <3>1 DEF Waiting
  <2> HIDE DEF s
  <2>3. /\ [frame |-> buffer[Waiting(i - 1).id], len |-> Waiting(i - 1).len]
               = Packet(buffer[s])
        /\ Packet(buffer[s]) \in Packets
    BY <2>1, <2>2, Announced
  <2> QED
    BY <2>3 DEF s
<1> QED
  BY <1>2, <1>3

LEMMA QueueIs == IInv => QueueIsStretch
<1> SUFFICES ASSUME IInv PROVE QueueIsStretch
  OBVIOUS
<1> DEFINE rest == [i \in 1 .. Unread |-> Packet(buffer[own.rxUsed + i - 1])]
<1>1. Unread = used.idx - own.rxUsed /\ Unread \in Nat
  BY UnreadIs
<1>2. /\ rest = [i \in 1 .. Unread |-> [frame |-> buffer[Waiting(i - 1).id],
                                       len |-> Waiting(i - 1).len]]
      /\ rest \in Seq(Packets) /\ Len(rest) = Unread
  <2>1. rest \in [1 .. Unread -> Packets]
    BY UnreadIs
  <2>2. rest \in Seq(Packets) /\ Len(rest) = Unread
    <3> HIDE DEF rest
    <3> QED
      BY <1>1, <2>1, FunctionIsSeq
  <2> QED
    BY <2>2, UnreadIs
<1>3. CASE call.at # "store"
  <2>1. own.rxUsed = own.rxAvail
    BY <1>3, Numbers DEF IInv, Counters
  <2>2. Queue = <<>> \o rest
    BY <1>2, <1>3 DEF Queue
  <2>3. <<>> \o rest = rest
    BY <1>2
  <2>4. rest = Stretch
    BY <1>1, <2>1 DEF Stretch
  <2> QED
    BY <1>1, <1>2, <2>1, <2>2, <2>3, <2>4 DEF QueueIsStretch
<1>4. CASE call.at = "store"
  <2> DEFINE first == Packet(buffer[own.rxAvail])
  <2>1. /\ own.rxUsed = own.rxAvail + 1 /\ call.slot = own.rxAvail
        /\ own.rxAvail \in Slots /\ own.rxAvail < used.idx
    BY <1>4, Numbers DEF IInv, Counters, Slots
  <2>2. /\ [frame |-> call.got, len |-> used.ring[call.slot].len] = first
        /\ first \in Packets
    <3>1. call.got = buffer[own.rxAvail] /\ call.got \in Frames
      BY <1>4, <2>1 DEF IInv, Contents
    <3>2. used.ring[own.rxAvail] =
             [id |-> own.rxAvail, len |-> FrameLen[buffer[own.rxAvail]]]
      BY <2>1 DEF IInv, Contents
    <3> QED
      BY <2>1, <3>1, <3>2 DEF Packet, Packets
  <2>3. Queue = <<first>> \o rest
    BY <1>2, <1>4, <2>2 DEF Queue
  <2> DEFINE n == used.idx - own.rxAvail
  <2>4. n = 1 + Unread /\ n \in Nat
    BY <1>1, <2>1, Numbers
  <2> HIDE DEF first, rest, n
  <2>5. /\ <<first>> \o rest \in Seq(Packets) /\ Len(<<first>> \o rest) = n
        /\ \A i \in 1 .. n : (<<first>> \o rest)[i] =
                                 IF i = 1 THEN first ELSE rest[i - 1]
    <3>1. <<first>> \in Seq(Packets) /\ Len(<<first>>) = 1 /\ <<first>>[1] = first
      BY <2>2
    <3>2. /\ <<first>> \o rest \in Seq(Packets)
          /\ Len(<<first>> \o rest) = Len(<<first>>) + Len(rest)
          /\ \A i \in 1 .. Len(<<first>>) + Len(rest) : (<<first>> \o rest)[i] =
                 IF i <= Len(<<first>>) THEN <<first>>[i] ELSE rest[i - Len(<<first>>)]
      BY <1>2, <3>1, ConcatProperties
    <3>3. \A i \in 1 .. n : i <= 1 <=> i = 1
      BY <2>4
    <3> QED
      BY <1>1, <1>2, <2>4, <3>1, <3>2, <3>3
  <2>6. \A i \in 1 .. n : (<<first>> \o rest)[i] = Packet(buffer[own.rxAvail + i - 1])
    <3> SUFFICES ASSUME NEW i \in 1 .. n
                 PROVE  (<<first>> \o rest)[i] = Packet(buffer[own.rxAvail + i - 1])
      OBVIOUS
    <3>1. CASE i = 1
      <4>1. own.rxAvail + i - 1 = own.rxAvail
        BY <3>1, Numbers
      <4> QED
        BY <2>5, <3>1, <4>1 DEF first
    <3>2. CASE i # 1
      <4>1. /\ i - 1 \in 1 .. Unread
            /\ own.rxUsed + (i - 1) - 1 = own.rxAvail + i - 1
        BY <2>1, <2>4, <3>2, <1>1, Numbers
      <4> QED
        BY <2>5, <3>2, <4>1 DEF rest
    <3> QED
      BY <3>1, <3>2
  <2>7. <<first>> \o rest = [i \in 1 .. n |-> Packet(buffer[own.rxAvail + i - 1])]
    <3> DEFINE whole == [i \in 1 .. n |-> Packet(buffer[own.rxAvail + i - 1])]
    <3>1. \A i \in 1 .. n : (<<first>> \o rest)[i] \in Packets
      BY <2>5, ElementOfSeq
    <3>2. whole \in [1 .. n -> Packets]
      BY <2>6, <3>1
    <3>3. whole \in Seq(Packets) /\ Len(whole) = n
      BY <2>4, <3>2, FunctionIsSeq
    <3>4. \A i \in 1 .. n : (<<first>> \o rest)[i] = whole[i]
      BY <2>6
    <3> HIDE DEF whole
    <3>5. <<first>> \o rest = whole
      BY <2>5, <3>3, <3>4, SeqEqual
    <3> QED
      BY <3>5 DEF whole
  <2> QED
    BY <2>3, <2>5, <2>7 DEF QueueIsStretch, Stretch, n
<1> QED
  BY <1>3, <1>4

\* The same in the next state.
LEMMA QueueIsNext == IInv' => QueueIsStretch'
BY QueueIs, PTL

\* Steps that touch neither the announced buffers nor the number of frames
\* returned are invisible.
LEMMA QueueStays ==
    ASSUME IInv, IInv', used'.idx = used.idx, own'.rxAvail = own.rxAvail,
           \A s \in Slots : s < used.idx => buffer'[s] = buffer[s]
    PROVE  Queue' = Queue
<1>1. ASSUME NEW i \in 1 .. used.idx - own.rxAvail
      PROVE  buffer'[own.rxAvail + i - 1] = buffer[own.rxAvail + i - 1]
  <2>1. own.rxAvail + i - 1 \in Slots /\ own.rxAvail + i - 1 < used.idx
    BY Numbers DEF Slots
  <2> QED
    BY <2>1
<1>2. Stretch' = Stretch
  BY <1>1 DEF Stretch, Packet
<1> QED
  BY <1>2, QueueIs, QueueIsNext DEF QueueIsStretch

\* The device's announcement puts a frame at the end of the queue.
LEMMA PostIsPut ==
    ASSUME IInv, IInv', DevicePost
    PROVE  \E p \in Packets : Pipe!Put(p)
<1> DEFINE p == Packet(buffer[used.idx])
           n == used.idx - own.rxAvail
<1>1. /\ used.idx \in Slots /\ buffer[used.idx] \in Frames
      /\ used'.idx = used.idx + 1
      /\ UNCHANGED <<buffer, own, given>>
  BY DevicePostEffect
<1>2. p \in Packets
  BY <1>1 DEF Packets
<1>3. /\ n \in Nat /\ n < QueueSize /\ used'.idx - own'.rxAvail = n + 1
      /\ own.rxAvail + (n + 1) - 1 = used.idx
  BY <1>1, Numbers DEF IInv, Counters, Slots
<1>4. Queue = Stretch /\ Queue \in Seq(Packets) /\ Len(Queue) = n
  BY QueueIs DEF QueueIsStretch
<1>5. Queue' = Stretch' /\ Queue' \in Seq(Packets) /\ Len(Queue') = n + 1
  BY <1>3, QueueIsNext DEF QueueIsStretch
<1>6. \A i \in 1 .. n + 1 : Queue'[i] = IF i = n + 1 THEN p ELSE Queue[i]
  <2>1. Stretch' = [i \in 1 .. n + 1 |-> Packet(buffer[own.rxAvail + i - 1])]
    BY <1>1, <1>3 DEF Stretch, Packet
  <2>2. Stretch = [i \in 1 .. n |-> Packet(buffer[own.rxAvail + i - 1])]
    BY DEF Stretch
  <2>3. \A i \in 1 .. n + 1 : i # n + 1 => i \in 1 .. n
    BY <1>3
  <2> HIDE DEF n
  <2> QED
    BY <1>3, <1>4, <1>5, <2>1, <2>2, <2>3
<1> HIDE DEF p, n
<1>7. Queue' = Append(Queue, p)
  <2>1. /\ Append(Queue, p) \in Seq(Packets) /\ Len(Append(Queue, p)) = n + 1
        /\ \A i \in 1 .. n + 1 :
              Append(Queue, p)[i] = IF i = n + 1 THEN p ELSE Queue[i]
    BY <1>2, <1>3, <1>4, AppendProperties
  <2> QED
    BY <1>5, <1>6, <2>1, SeqEqual
<1> QED
  BY <1>1, <1>2, <1>3, <1>4, <1>7 DEF Pipe!Put

\* The store with which recv returns takes the oldest frame, under its length.
LEMMA ReturnIsTake ==
    ASSUME IInv, IInv', NEW x \in Stores, RecvStore(x), call.todo = {x}
    PROVE  Pipe!Take
<1> DEFINE n == used.idx - own.rxAvail
<1>1. /\ call.at = "store" /\ call.slot = own.rxAvail /\ own.rxAvail \in Slots
      /\ own.rxUsed = own.rxAvail + 1 /\ own.rxUsed <= used.idx
      /\ own' = [own EXCEPT !.rxAvail = own.rxAvail + 1]
      /\ given' = Packet(call.got)
      /\ UNCHANGED <<used, buffer>>
  BY RecvStoreEffect
<1>2. own'.rxAvail = own.rxAvail + 1
  BY <1>1 DEF IInv, TypeOK
<1>3. n \in Nat /\ n > 0 /\ n - 1 \in Nat /\ used'.idx - own'.rxAvail = n - 1
  BY <1>1, <1>2, Numbers
<1>4. Queue = Stretch /\ Queue \in Seq(Packets) /\ Len(Queue) = n
  BY QueueIs DEF QueueIsStretch
<1>5. Queue' = Stretch' /\ Queue' \in Seq(Packets) /\ Len(Queue') = n - 1
  BY <1>3, QueueIsNext DEF QueueIsStretch
<1>6. /\ Queue[1] = given'
      /\ \A i \in 1 .. n - 1 : Queue'[i] = Queue[i + 1]
  <2>1. Stretch' = [i \in 1 .. n - 1 |-> Packet(buffer[(own.rxAvail + 1) + i - 1])]
    BY <1>1, <1>2, <1>3 DEF Stretch, Packet
  <2>2. Stretch = [i \in 1 .. n |-> Packet(buffer[own.rxAvail + i - 1])]
    BY DEF Stretch
  <2>3. /\ own.rxAvail + 1 - 1 = own.rxAvail
        /\ \A i \in 1 .. n - 1 : /\ i + 1 \in 1 .. n
                                /\ (own.rxAvail + 1) + i - 1 = own.rxAvail + (i + 1) - 1
    BY <1>3, Numbers
  <2>4. call.got = buffer[own.rxAvail]
    BY <1>1 DEF IInv, Contents
  <2>5. 1 \in 1 .. n
    BY <1>3
  <2> HIDE DEF n
  <2> QED
    BY <1>1, <1>4, <1>5, <2>1, <2>2, <2>3, <2>4, <2>5
<1> HIDE DEF n
<1>7. Queue # <<>>
  BY <1>3, <1>4, EmptySeq
<1>8. /\ Head(Queue) = Queue[1]
      /\ Tail(Queue) \in Seq(Packets) /\ Len(Tail(Queue)) = n - 1
      /\ \A i \in 1 .. n - 1 : Tail(Queue)[i] = Queue[i + 1]
  BY <1>4, <1>7, HeadTailProperties
<1>9. Queue' = Tail(Queue)
  BY <1>5, <1>6, <1>8, SeqEqual
<1> QED
  BY <1>6, <1>7, <1>8, <1>9 DEF Pipe!Take

\* Every step is a step of the frame queue or leaves it alone.
LEMMA StepRefines ==
    ASSUME IInv, IInv', [Next]_vars
    PROVE  [Pipe!Next]_(Pipe!vars)
<1>1. CASE UNCHANGED vars
  BY <1>1, QueueStays DEF vars, Pipe!vars
<1>2. CASE Send
  <2>1. own'.rxAvail = own.rxAvail /\ UNCHANGED <<used, buffer, given>>
    BY <1>2 DEF Send, IInv, TypeOK
  <2> QED
    BY <2>1, QueueStays DEF Pipe!vars
<1>3. CASE \E room \in CallerSizes : RecvEnter(room)
  BY <1>3, QueueStays DEF RecvEnter, Pipe!vars
<1>4. CASE RecvCopy
  <2>1. own'.rxAvail = own.rxAvail /\ UNCHANGED <<used, buffer, given>>
    BY <1>4 DEF RecvCopy, IInv, TypeOK
  <2> QED
    BY <2>1, QueueStays DEF Pipe!vars
<1>5. ASSUME NEW x \in Stores, RecvStore(x)
      PROVE  [Pipe!Next]_(Pipe!vars)
  <2>1. CASE call.todo = {x}
    BY <1>5, <2>1, ReturnIsTake DEF Pipe!Next
  <2>2. CASE call.todo # {x}
    <3>1. UNCHANGED <<own, given, used, buffer>>
      BY <1>5, <2>2, RecvStoreEffect
    <3> QED
      BY <3>1, QueueStays DEF Pipe!vars
  <2> QED
    BY <2>1, <2>2
<1>6. CASE DeviceLook
  BY <1>6, QueueStays DEF DeviceLook, Pipe!vars
<1>7. ASSUME NEW f \in Frames, DeviceFill(f)
      PROVE  UNCHANGED Pipe!vars
  <2>1. /\ used.idx = dev.taken /\ buffer' = [buffer EXCEPT ![dev.taken] = f]
        /\ UNCHANGED <<used, own, given>>
    BY <1>7, DeviceFillEffect
  <2>2. \A s \in Slots : s < used.idx => buffer'[s] = buffer[s]
    BY <2>1, Numbers DEF IInv, TypeOK, Slots
  <2> QED
    BY <2>1, <2>2, QueueStays DEF Pipe!vars
<1>8. CASE DevicePost
  BY <1>8, PostIsPut DEF Pipe!Next
<1> QED
  BY <1>1, <1>2, <1>3, <1>4, <1>5, <1>6, <1>7, <1>8 DEF Next, Recv, Device

LEMMA InitRefines == Init => Pipe!Init
<1> SUFFICES ASSUME Init PROVE Pipe!Init
  OBVIOUS
<1>1. Queue \in Seq(Packets) /\ Len(Queue) = used.idx - own.rxAvail
  BY InitInv, QueueIs DEF QueueIsStretch
<1>2. Len(Queue) = 0
  BY <1>1 DEF Init
<1>3. Queue = <<>>
  BY <1>1, <1>2, EmptySeq
<1> QED
  BY <1>3 DEF Pipe!Init, Init

\* As far as frames get, they get through: for every queue size the receive
\* side implements the bounded frame queue, although recv offers the buffer
\* again before it returns and reads the entry again after it has passed it.
THEOREM VirtioImplementsPipe == Spec => ImplementsPipe
<1>1. Init => Pipe!Init
  BY InitRefines
<1>2. IInv /\ IInv' /\ [Next]_vars => [Pipe!Next]_(Pipe!vars)
  BY StepRefines
<1> QED
  BY <1>1, <1>2, Invariance, PTL DEF Spec, ImplementsPipe, Pipe!Spec
===============================================================================
