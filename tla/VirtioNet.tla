------------------------------ MODULE VirtioNet ------------------------------
(***************************************************************************)
(* The data path of the virtio-net driver: virtio_net_send() and           *)
(* virtio_net_recv() against the device side of the two split virtqueues.  *)
(*                                                                         *)
(* An index of a virtqueue is a uint16_t that only counts up; an entry of  *)
(* a ring is addressed by its remainder.  The driver keeps three of them   *)
(* of its own, and one of them starts behind what probe has published:     *)
(* rx_avail_idx is 0 while avail->idx already says queue_size.             *)
(*                                                                         *)
(* The device is taken to have found the receive queue.  It never finds    *)
(* the transmit queue: probe selects, sizes and readies queue 0 only, and  *)
(* send notifies queue 0.  Nothing consumes what send queues, so of the    *)
(* transmit queue only the index is modelled.                              *)
(***************************************************************************)
EXTENDS Integers, Sequences

CONSTANTS
    QueueSize,      \* priv->queue_size, as probe leaves it
    IndexSpan,      \* number of values of a uint16_t index
    Frames,         \* frames that arrive
    NoFrame,        \* an empty buffer
    FrameLen,       \* length of each frame
    CallerSizes     \* sizes of the buffers the host passes to recv()

ASSUME SizeAssumption == QueueSize \in Nat \ {0}
ASSUME SpanAssumption ==
    /\ IndexSpan \in Nat /\ IndexSpan > 2 * QueueSize
    /\ IndexSpan % QueueSize = 0
ASSUME FrameAssumption == NoFrame \notin Frames
ASSUME LengthAssumption ==
    /\ FrameLen \in [Frames -> Nat \ {0}]
    /\ CallerSizes \subseteq Nat

VARIABLES
    avail,      \* the receive queue's available ring: idx and ring
    used,       \* its used ring: idx and ring
    buffer,     \* what is in each receive buffer
    own,        \* priv: rx_avail_idx, rx_used_idx and tx_avail_idx
    call,       \* what the host is doing inside virtio_net_recv
    given,      \* what the last successful recv() returned
    dev         \* the device's cursor, the index it last saw, its open entry

vars == <<avail, used, buffer, own, call, given, dev>>

Slots == 0 .. QueueSize - 1

Stores == {"ring", "idx"}

Bump(i) == (i + 1) % IndexSpan

Packet(f) == [frame |-> f, len |-> FrameLen[f]]

Packets == {Packet(f) : f \in Frames}

Nothing == [frame |-> NoFrame, len |-> 0]

NoEntry == [id |-> 0, len |-> 0]

Idle == [at |-> "idle", slot |-> 0, got |-> NoFrame, todo |-> {}]

\* Every buffer is offered, in order; the driver's own indexes are 0.
Init ==
    /\ avail = [idx |-> QueueSize, ring |-> [s \in Slots |-> s]]
    /\ used = [idx |-> 0, ring |-> [s \in Slots |-> NoEntry]]
    /\ buffer = [s \in Slots |-> NoFrame]
    /\ own = [rxAvail |-> 0, rxUsed |-> 0, txAvail |-> 0]
    /\ call = Idle
    /\ given = Nothing
    /\ dev = [taken |-> 0, seen |-> 0, open |-> NoEntry, broken |-> FALSE]

-------------------------------------------------------------------------------
(* virtio_net_send.  The one value it shares with recv is rx_used_idx,      *)
(* which it reads once; a refused call changes nothing.                    *)

\* The difference is computed in int from two uint16_t: no wrap.
Send ==
    /\ own.txAvail - own.rxUsed < QueueSize
    /\ own' = [own EXCEPT !.txAvail = Bump(@)]
    /\ UNCHANGED <<avail, used, buffer, call, given, dev>>

-------------------------------------------------------------------------------
(* virtio_net_recv, one call at a time (the driver takes no lock).         *)

\* Mutant: any entry counts as used.
RecvEnterUnchecked(room) ==
    LET s == own.rxUsed % QueueSize IN
    /\ call = Idle /\ used.ring[s].len <= room
    /\ call' = [Idle EXCEPT !.at = "copy", !.slot = s]
    /\ UNCHANGED <<avail, used, buffer, own, given, dev>>

\* The comparison with used->idx and the bounds check.  A call that finds
\* nothing, or a frame longer than its buffer, changes nothing.
RecvEnter(room) ==
    LET s == own.rxUsed % QueueSize IN
    /\ call = Idle
    /\ own.rxUsed # used.idx
    /\ used.ring[s].len <= room
    /\ call' = [Idle EXCEPT !.at = "copy", !.slot = s]
    /\ UNCHANGED <<avail, used, buffer, own, given, dev>>

\* memcpy and rx_used_idx++.
RecvCopy ==
    /\ call.at = "copy"
    /\ call' = [call EXCEPT !.at = "store", !.todo = Stores,
                            !.got = buffer[used.ring[call.slot].id]]
    /\ own' = [own EXCEPT !.rxUsed = Bump(@)]
    /\ UNCHANGED <<avail, used, buffer, given, dev>>

\* Mutants: rx_avail_idx goes on from what probe published; the entry made
\* available is the one after the one that was read.
RecvStoreAs(x, idx, id) ==
    /\ call.at = "store" /\ x \in call.todo
    /\ avail' = IF x = "ring"
                THEN [avail EXCEPT !.ring[own.rxAvail % QueueSize] = id]
                ELSE [avail EXCEPT !.idx = idx]
    /\ IF call.todo = {x}
       THEN /\ own' = [own EXCEPT !.rxAvail = Bump(@)]
            /\ given' = [frame |-> call.got, len |-> used.ring[call.slot].len]
            /\ call' = Idle
       ELSE /\ call' = [call EXCEPT !.todo = @ \ {x}]
            /\ UNCHANGED <<own, given>>
    /\ UNCHANGED <<used, buffer, dev>>

RecvStoreAhead(x) ==
    RecvStoreAs(x, (own.rxAvail + QueueSize + 1) % IndexSpan,
                used.ring[call.slot].id)

RecvStoreNext(x) ==
    RecvStoreAs(x, Bump(own.rxAvail), used.ring[call.slot].id + 1)

\* The two stores that return the buffer, in either order: no barrier
\* stands between them.  The id, and at the return the length, are read
\* from the used ring again.
RecvStore(x) ==
    /\ call.at = "store" /\ x \in call.todo
    /\ avail' = IF x = "ring"
                THEN [avail EXCEPT !.ring[own.rxAvail % QueueSize] =
                                       used.ring[call.slot].id]
                ELSE [avail EXCEPT !.idx = Bump(own.rxAvail)]
    /\ IF call.todo = {x}
       THEN /\ own' = [own EXCEPT !.rxAvail = Bump(@)]
            /\ given' = [frame |-> call.got, len |-> used.ring[call.slot].len]
            /\ call' = Idle
       ELSE /\ call' = [call EXCEPT !.todo = @ \ {x}]
            /\ UNCHANGED <<own, given>>
    /\ UNCHANGED <<used, buffer, dev>>

Recv ==
    \/ \E room \in CallerSizes : RecvEnter(room)
    \/ RecvCopy
    \/ \E x \in Stores : RecvStore(x)

-------------------------------------------------------------------------------
(* The device.  It looks at avail->idx when it likes (the notify of a send *)
(* is one occasion), takes the entries up to the index it saw, and stops   *)
(* for good at an index that would offer more entries than the queue has.  *)

DeviceLook ==
    /\ ~dev.broken
    /\ dev' = [dev EXCEPT
           !.seen = avail.idx,
           !.broken = (avail.idx - dev.taken) % IndexSpan > QueueSize]
    /\ UNCHANGED <<avail, used, buffer, own, call, given>>

DeviceFill(f) ==
    LET id == avail.ring[dev.taken % QueueSize] IN
    /\ ~dev.broken /\ dev.open = NoEntry /\ dev.taken # dev.seen
    /\ buffer' = [buffer EXCEPT ![id] = f]
    /\ dev' = [dev EXCEPT !.taken = Bump(@),
                          !.open = [id |-> id, len |-> FrameLen[f]]]
    /\ UNCHANGED <<avail, used, own, call, given>>

\* The entry is in place before the index that announces it.
DevicePost ==
    /\ dev.open # NoEntry
    /\ used' = [idx |-> Bump(used.idx),
                ring |-> [used.ring EXCEPT ![used.idx % QueueSize] = dev.open]]
    /\ dev' = [dev EXCEPT !.open = NoEntry]
    /\ UNCHANGED <<avail, buffer, own, call, given>>

Device == DeviceLook \/ (\E f \in Frames : DeviceFill(f)) \/ DevicePost

-------------------------------------------------------------------------------

Next == Send \/ Recv \/ Device

Spec == Init /\ [][Next]_vars

-------------------------------------------------------------------------------
(* Properties *)

Indexes == 0 .. IndexSpan - 1

Lengths == {0} \cup {FrameLen[f] : f \in Frames}

Entries == [id : Slots, len : Lengths]

\* Type invariant: every index keeps to 16 bits, and no ring entry names a
\* buffer that does not exist.
TypeOK ==
    /\ avail \in [idx : Indexes, ring : [Slots -> Slots]]
    /\ used \in [idx : Indexes, ring : [Slots -> Entries]]
    /\ buffer \in [Slots -> Frames \cup {NoFrame}]
    /\ own \in [rxAvail : Indexes, rxUsed : Indexes, txAvail : Indexes]
    /\ call \in [at : {"idle", "copy", "store"}, slot : Slots,
                 got : Frames \cup {NoFrame}, todo : SUBSET Stores]
    /\ given \in [frame : Frames \cup {NoFrame}, len : Lengths]
    /\ dev \in [taken : Indexes, seen : Indexes, open : Entries,
                broken : BOOLEAN]

\* The entry i places behind the index the driver has used up to.
Waiting(i) == used.ring[(own.rxUsed + i) % QueueSize]

Unread == (used.idx - own.rxUsed) % IndexSpan

\* The frames the device has announced and no recv() has returned, oldest
\* first; the one a call has copied is among them until the call returns.
Queue ==
    (IF call.at = "store"
     THEN <<[frame |-> call.got, len |-> used.ring[call.slot].len]>>
     ELSE <<>>)
    \o [i \in 1 .. Unread |-> [frame |-> buffer[Waiting(i - 1).id],
                               len |-> Waiting(i - 1).len]]

Pipe == INSTANCE FrameQueue
            WITH Depth <- QueueSize, Frames <- Packets, NoFrame <- Nothing,
                 queue <- Queue, out <- given

\* As far as frames get, they get through: each one the device announces is
\* returned by recv() once, whole, under its length and in order, although
\* the driver reads the entry again after it has moved rx_used_idx and
\* offers the buffer again before it returns.
ImplementsPipe == Pipe!Spec

\* A probed device runs dry.  Because the first recv() publishes an index
\* behind the one probe published, no buffer is ever given to the device a
\* second time: it receives at most one frame per buffer, and send(), which
\* measures its own ring against the receive index, accepts queue_size
\* frames and one more for each frame received.
RunsDry ==
    /\ dev.taken <= QueueSize
    /\ used.idx <= dev.taken
    /\ own.txAvail <= own.rxUsed + QueueSize
    /\ own.txAvail <= 2 * QueueSize
===============================================================================
