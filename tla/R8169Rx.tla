------------------------------- MODULE R8169Rx -------------------------------
(***************************************************************************)
(* The receive side of the r8169 driver: r8169_recv() called by the host's *)
(* polling loop (docs/OS_INTEGRATION.md, "Polling Fallback") against the   *)
(* receive engine of the controller.                                       *)
(*                                                                         *)
(* Descriptor i owns buffer i for good, so addr is not modelled; a frame   *)
(* is a model value with a length.  recv() that finds no frame, or a frame *)
(* longer than the caller's buffer or than 9600, changes nothing.          *)
(***************************************************************************)
EXTENDS Integers, Sequences

CONSTANTS
    RingSize,        \* R8169_RX_DESC_COUNT
    TailSpan,        \* number of values of the uint16_t rx_tail
    Frames,          \* frames that arrive
    NoFrame,         \* an empty buffer
    FrameLen,        \* length of each frame
    BufferSize,      \* R8169_RX_BUFFER_SIZE
    MaxLen,          \* 9600, the longest frame recv() copies
    CallerSizes,     \* sizes of the buffers callers pass to recv()
    Readers,         \* threads that may call r8169_recv
    Serialized,      \* TRUE: the host lets one thread at a time into recv
    StoresInOrder    \* TRUE: stores become visible in program order

ASSUME RingAssumption == RingSize \in Nat \ {0}
ASSUME SpanAssumption == TailSpan \in Nat \ {0} /\ TailSpan % RingSize = 0
ASSUME FrameAssumption == NoFrame \notin Frames
ASSUME LengthAssumption ==
    /\ BufferSize \in Nat /\ MaxLen \in Nat
    /\ FrameLen \in [Frames -> 1 .. BufferSize]
    /\ CallerSizes \subseteq 1 .. MaxLen
ASSUME FlagAssumption == Serialized \in BOOLEAN /\ StoresInOrder \in BOOLEAN

VARIABLES
    desc,       \* the receive ring: OWN, len, and the frame in the buffer
    tail,       \* priv->rx_tail
    call,       \* what each thread is doing inside r8169_recv
    cursor,     \* the descriptor the controller fills next
    given       \* what the last successful recv() returned

vars == <<desc, tail, call, cursor, given>>

Slots == 0 .. RingSize - 1

Stores == {"len", "own"}

\* What a recv() hands to its caller: the bytes copied and the return value.
Packet(f) == [frame |-> f, len |-> FrameLen[f]]

Packets == {Packet(f) : f \in Frames}

Nothing == [frame |-> NoFrame, len |-> 0]

AnyPacket == [frame : Frames \cup {NoFrame}, len : 0 .. BufferSize]

Idle == [at |-> "idle", slot |-> 0, room |-> 0, got |-> Nothing, todo |-> {}]

\* The state r8169_probe leaves behind: every descriptor belongs to the
\* controller and offers a whole buffer.
Init ==
    /\ desc = [s \in Slots |->
                 [own |-> TRUE, len |-> BufferSize, frame |-> NoFrame]]
    /\ tail = 0
    /\ call = [t \in Readers |-> Idle]
    /\ cursor = 0
    /\ given = Nothing

-------------------------------------------------------------------------------
(* r8169_recv *)

\* Mutant: the frame must be shorter than the caller's buffer.
RecvEnterStrict(t, room) ==
    LET s == tail % RingSize IN
    /\ call[t] = Idle
    /\ Serialized => \A u \in Readers : call[u] = Idle
    /\ ~desc[s].own
    /\ desc[s].len < room
    /\ call' = [call EXCEPT ![t] =
           [at |-> "copy", slot |-> s, room |-> room, got |-> Nothing,
            todo |-> Stores]]
    /\ UNCHANGED <<desc, tail, cursor, given>>

\* Entry, the argument checks, the test of OWN and the bounds check.
RecvEnter(t, room) ==
    LET s == tail % RingSize IN
    /\ call[t] = Idle
    /\ Serialized => \A u \in Readers : call[u] = Idle
    /\ ~desc[s].own
    /\ desc[s].len <= room /\ desc[s].len <= MaxLen
    /\ call' = [call EXCEPT ![t] =
           [at |-> "copy", slot |-> s, room |-> room, got |-> Nothing,
            todo |-> Stores]]
    /\ UNCHANGED <<desc, tail, cursor, given>>

\* Mutant: pkt_len is read after the descriptor has got its length back.
RecvCopyLate(t) ==
    LET c == call[t] IN
    /\ c.at = "copy"
    /\ call' = [call EXCEPT ![t].at = "store",
                            ![t].got = [frame |-> desc[c.slot].frame,
                                        len |-> BufferSize]]
    /\ UNCHANGED <<desc, tail, cursor, given>>

\* memcpy and the read of pkt_len.
RecvCopy(t) ==
    LET c == call[t] IN
    /\ c.at = "copy"
    /\ call' = [call EXCEPT ![t].at = "store",
                            ![t].got = [frame |-> desc[c.slot].frame,
                                        len |-> desc[c.slot].len]]
    /\ UNCHANGED <<desc, tail, cursor, given>>

\* Mutants: rx_tail is not reduced to 16 bits, or does not move; the buffer
\* comes back with the length of the frame that was in it.
RecvStoreAs(t, x, next, len) ==
    LET c == call[t] IN
    /\ c.at = "store" /\ x \in c.todo
    /\ x = "own" => "len" \notin c.todo
    /\ desc' = [desc EXCEPT ![c.slot] =
           IF x = "own" THEN [@ EXCEPT !.own = TRUE] ELSE [@ EXCEPT !.len = len]]
    /\ IF c.todo = {x}
       THEN tail' = next /\ given' = c.got /\ call' = [call EXCEPT ![t] = Idle]
       ELSE call' = [call EXCEPT ![t].todo = @ \ {x}] /\ UNCHANGED <<tail, given>>
    /\ UNCHANGED cursor

RecvStoreUnwrapped(t, x) == RecvStoreAs(t, x, tail + 1, BufferSize)

RecvStoreStays(t, x) == RecvStoreAs(t, x, tail, BufferSize)

RecvStoreShort(t, x) ==
    RecvStoreAs(t, x, (tail + 1) % TailSpan, call[t].got.len)

\* One of the two stores that return the buffer becomes visible; rx_tail++
\* and the return are private to the driver and happen with the last one.
RecvStore(t, x) ==
    LET c == call[t] IN
    /\ c.at = "store" /\ x \in c.todo
    /\ StoresInOrder /\ x = "own" => "len" \notin c.todo
    /\ desc' = [desc EXCEPT ![c.slot] =
           IF x = "own" THEN [@ EXCEPT !.own = TRUE]
                        ELSE [@ EXCEPT !.len = BufferSize]]
    /\ IF c.todo = {x}
       THEN /\ tail' = (tail + 1) % TailSpan
            /\ given' = c.got
            /\ call' = [call EXCEPT ![t] = Idle]
       ELSE /\ call' = [call EXCEPT ![t].todo = @ \ {x}]
            /\ UNCHANGED <<tail, given>>
    /\ UNCHANGED cursor

-------------------------------------------------------------------------------
(* The controller's receive engine, as the driver relies on it: a frame    *)
(* goes into the buffer of the next descriptor it owns, the descriptor     *)
(* gets the length and loses OWN; with no descriptor to use the frame is   *)
(* dropped before it enters the ring, which is a stuttering step.          *)

\* That it goes back to descriptor 0 at the end is assumed: the driver defines
\* R8169_RX_EOR and sets it in no descriptor.
NextSlot(s) == (s + 1) % RingSize

EngineReceive(f) ==
    /\ desc[cursor].own
    /\ desc' = [desc EXCEPT ![cursor] =
           [own |-> FALSE, len |-> FrameLen[f], frame |-> f]]
    /\ cursor' = NextSlot(cursor)
    /\ UNCHANGED <<tail, call, given>>

-------------------------------------------------------------------------------

Recv(t) ==
    \/ \E room \in CallerSizes : RecvEnter(t, room)
    \/ RecvCopy(t)
    \/ \E x \in Stores : RecvStore(t, x)

Next ==
    \/ \E t \in Readers : Recv(t)
    \/ \E f \in Frames : EngineReceive(f)

Spec == Init /\ [][Next]_vars

\* The host keeps polling and a thread inside recv is scheduled until it
\* returns; no frame is obliged to arrive.
LiveSpec == Spec /\ WF_vars(\E t \in Readers : Recv(t))

-------------------------------------------------------------------------------
(* Properties *)

\* Type invariant of the receive side.
TypeOK ==
    /\ desc \in [Slots -> [own : BOOLEAN, len : 0 .. BufferSize,
                           frame : Frames \cup {NoFrame}]]
    /\ tail \in 0 .. TailSpan - 1
    /\ call \in [Readers ->
          [at : {"idle", "copy", "store"}, slot : Slots,
           room : CallerSizes \cup {0}, got : AnyPacket, todo : SUBSET Stores]]
    /\ cursor \in Slots
    /\ given \in AnyPacket

\* The descriptor recv() looks at next, and the one i places after it.
Front == tail % RingSize

Ahead(i) == desc[(Front + i) % RingSize]

\* Exactly the n descriptors from rx_tail on hold frames nobody has read.
Holds(n) ==
    /\ \A i \in Slots : ~Ahead(i).own <=> i < n
    /\ cursor = (Front + n) % RingSize

\* Unread frames are one unbroken run from rx_tail to the controller's
\* cursor, also when the ring is full and when the uint16_t tail wraps:
\* recv() never waits at an empty descriptor while a frame sits in a later
\* one, and the controller never fills one that is still being read.
Contiguous == \E n \in 0 .. RingSize : Holds(n)

Unread == CHOOSE n \in 0 .. RingSize : Holds(n)

\* The controller is always offered a whole buffer, and every other
\* descriptor holds a frame under its own length, except for the moment in
\* which recv() has put the length back and not yet OWN.
WholeFrames ==
    \A s \in Slots :
       IF desc[s].own
       THEN desc[s].len = BufferSize
       ELSE /\ desc[s].frame \in Frames
            /\ \/ desc[s].len = FrameLen[desc[s].frame]
               \/ \E t \in Readers :
                     call[t].at = "store" /\ call[t].slot = s
                     /\ "len" \notin call[t].todo

\* At most one thread is inside recv(), the descriptor it reads is the one at
\* rx_tail and stays its own until the copy is made, and what it is about to
\* return is that frame with its length, which fits the caller's buffer.
OneReader ==
    /\ \A t, u \in Readers : call[t] # Idle /\ call[u] # Idle => t = u
    /\ \A t \in Readers :
          /\ call[t].at = "idle" => call[t] = Idle
          /\ call[t].at # "idle" =>
                /\ call[t].slot = Front
                /\ ~desc[Front].own
                /\ "own" \in call[t].todo
          /\ call[t].at = "copy" =>
                /\ call[t].todo = Stores
                /\ desc[Front].len <= call[t].room
          /\ call[t].at = "store" =>
                /\ call[t].got = Packet(desc[Front].frame)
                /\ call[t].got.len <= call[t].room
                /\ "len" \notin call[t].todo => desc[Front].len = BufferSize

\* The unread frames, oldest first.
Queue == [i \in 1 .. Unread |-> Packet(Ahead(i - 1).frame)]

Pipe == INSTANCE FrameQueue
            WITH Depth <- RingSize, Frames <- Packets, NoFrame <- Nothing,
                 queue <- Queue, out <- given

\* Frames come out of recv() once each, whole, with their length and in the
\* order they arrived.
ImplementsPipe == Pipe!Spec

\* While the host polls with buffers that hold any frame, every frame that
\* reached the ring is delivered.
Drains == Pipe!Moves
===============================================================================
