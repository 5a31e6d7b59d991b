---------------------------- MODULE R8169RxProofs ----------------------------
(***************************************************************************)
(* The receive side is correct for every ring size, every set of frames,   *)
(* lengths, threads and caller buffers and every width of rx_tail that the *)
(* ring size divides, provided that the host serialises calls of recv      *)
(* (Serialized) and stores become visible in program order                 *)
(* (StoresInOrder).                                                        *)
(***************************************************************************)
EXTENDS R8169Rx, RingArithmetic

Inv == TypeOK /\ Contiguous /\ WholeFrames /\ OneReader

\* The place of slot (c + i) on the ring, without a remainder.
LEMMA AheadSlot ==
    ASSUME NEW c \in Slots, NEW i \in 0 .. RingSize
    PROVE  /\ (c + i) % RingSize = IF c + i < RingSize
                                   THEN c + i ELSE c + i - RingSize
           /\ (c + i) % RingSize \in Slots
<1>1. RingSize \in Nat \ {0} /\ c \in 0 .. RingSize - 1
  BY RingAssumption DEF Slots
<1>2. (c + i) % RingSize = IF c + i < RingSize
                           THEN c + i ELSE c + i - RingSize
  BY <1>1, SlotAhead
<1> QED
  BY <1>1, <1>2 DEF Slots

\* rx_tail always names a slot, and a frame's packet is a packet.
LEMMA FrontSlot == TypeOK => Front \in Slots
BY RingAssumption, QuotientRemainder DEF TypeOK, Front, Slots

LEMMA PacketTyped == \A f \in Frames : Packet(f) \in AnyPacket
BY LengthAssumption DEF Packet, AnyPacket

\* What recv() reads at rx_tail while it is at work there.
LEMMA FrontFrame ==
    ASSUME Inv, NEW t \in Readers, call[t].at # "idle"
    PROVE  desc[Front].frame \in Frames
BY FrontSlot DEF Inv, WholeFrames, OneReader

\* The state r8169_probe leaves behind: every descriptor is the controller's.
LEMMA InitInv == Init => Inv /\ Holds(0)
<1> SUFFICES ASSUME Init PROVE Inv /\ Holds(0)
  OBVIOUS
<1>1. TypeOK
  <2>1. 0 \in Slots /\ 0 \in 0 .. TailSpan - 1
    BY RingAssumption, SpanAssumption DEF Slots
  <2>2. Nothing \in AnyPacket
    BY LengthAssumption DEF Nothing, AnyPacket
  <2>3. BufferSize \in 0 .. BufferSize
    BY LengthAssumption
  <2> QED
    BY <2>1, <2>2, <2>3 DEF Init, TypeOK, Idle
<1>2. Front = 0 /\ 0 \in Slots /\ (0 + 0) % RingSize = 0
  BY RingAssumption, SlotRound DEF Init, Front, Slots
<1>3. Holds(0)
  <2>1. ASSUME NEW i \in Slots PROVE Ahead(i).own /\ ~(i < 0)
    <3>1. (Front + i) % RingSize \in Slots
      BY <1>2, AheadSlot, RingAssumption DEF Slots
    <3> QED
      BY <3>1, RingAssumption DEF Ahead, Init, Slots
  <2> QED
    BY <2>1, <1>2 DEF Holds, Init
<1>4. Contiguous
  BY <1>3, RingAssumption DEF Contiguous
<1>5. WholeFrames
  BY DEF Init, WholeFrames
<1>6. OneReader
  BY DEF Init, OneReader, Idle
<1> QED
  BY <1>1, <1>3, <1>4, <1>5, <1>6 DEF Inv

\* A step that changes neither the ring nor its two ends keeps the run.
LEMMA RunStable ==
    ASSUME Contiguous, UNCHANGED <<desc, tail, cursor>>
    PROVE  Contiguous' /\ Front' = Front
BY DEF Contiguous, Holds, Ahead, Front

\* A thread enters recv and finds a frame that fits.
LEMMA RecvEnterInv ==
    ASSUME Serialized, Inv, NEW t \in Readers, NEW room \in CallerSizes,
           RecvEnter(t, room)
    PROVE  Inv'
<1> DEFINE new == [at |-> "copy", slot |-> Front, room |-> room,
                   got |-> Nothing, todo |-> Stores]
<1>1. /\ Front \in Slots /\ ~desc[Front].own /\ desc[Front].len <= room
      /\ \A u \in Readers : call[u] = Idle
      /\ call' = [call EXCEPT ![t] = new]
      /\ UNCHANGED <<desc, tail, cursor, given>>
  BY FrontSlot DEF RecvEnter, Inv, Front
<1>2. Contiguous' /\ Front' = Front
  BY <1>1, RunStable DEF Inv
<1>3. TypeOK'
  <2>1. Nothing \in AnyPacket
    BY LengthAssumption DEF Nothing, AnyPacket
  <2>2. new \in [at : {"idle", "copy", "store"}, slot : Slots,
                 room : CallerSizes \cup {0}, got : AnyPacket,
                 todo : SUBSET Stores]
    BY <1>1, <2>1
  <2> HIDE DEF new
  <2> QED
    BY <1>1, <2>2 DEF TypeOK, Inv
<1>4. /\ call'[t] = new
      /\ \A u \in Readers : u # t => call'[u] = Idle
  BY <1>1 DEF Inv, TypeOK
<1>5. WholeFrames'
  <2>1. \A u \in Readers : call[u].at # "store"
    BY <1>1 DEF Idle
  <2> QED
    BY <1>1, <2>1 DEF Inv, WholeFrames
<1>6. OneReader'
  <2>1. Idle.at = "idle"
    BY DEF Idle
  <2> QED
    BY <1>1, <1>2, <1>4, <2>1 DEF OneReader, Stores
<1> QED
  BY <1>2, <1>3, <1>5, <1>6 DEF Inv

\* The copy: nobody has touched the descriptor since it was checked.
LEMMA RecvCopyInv ==
    ASSUME Inv, NEW t \in Readers, RecvCopy(t)
    PROVE  Inv'
<1> DEFINE p == [frame |-> desc[Front].frame, len |-> desc[Front].len]
<1>1. /\ call[t].at = "copy" /\ call[t].slot = Front /\ ~desc[Front].own
      /\ call[t].todo = Stores /\ desc[Front].len <= call[t].room
      /\ Front \in Slots /\ desc[Front].frame \in Frames
      /\ \A u \in Readers : u # t => call[u] = Idle
  <2>1. call[t].at = "copy" /\ call[t] # Idle
    BY DEF RecvCopy, Idle
  <2> QED
    BY <2>1, FrontSlot, FrontFrame DEF Inv, OneReader
<1>2. /\ call' = [call EXCEPT ![t].at = "store", ![t].got = p]
      /\ UNCHANGED <<desc, tail, cursor, given>>
  BY <1>1 DEF RecvCopy
<1>3. desc[Front].len = FrameLen[desc[Front].frame]
  BY <1>1 DEF Inv, WholeFrames, Idle
<1>4. p = Packet(desc[Front].frame) /\ p \in AnyPacket
  BY <1>1, <1>3, PacketTyped DEF Packet
<1>5. /\ call'[t] = [call[t] EXCEPT !.at = "store", !.got = p]
      /\ \A u \in Readers : u # t => call'[u] = Idle
  BY <1>1, <1>2 DEF Inv, TypeOK
<1> HIDE DEF p
<1>6. TypeOK'
  <2> DEFINE Call == [at : {"idle", "copy", "store"}, slot : Slots,
                      room : CallerSizes \cup {0}, got : AnyPacket,
                      todo : SUBSET Stores]
  <2>1. call[t] \in Call
    BY DEF Inv, TypeOK
  <2>2. [call[t] EXCEPT !.at = "store", !.got = p] \in Call
    BY <2>1, <1>4
  <2>3. call \in [Readers -> Call]
    BY DEF Inv, TypeOK
  <2> HIDE DEF Call
  <2>4. call' \in [Readers -> Call]
    BY <1>2, <2>2, <2>3
  <2> QED
    BY <1>2, <2>4 DEF Inv, TypeOK, Call
<1>7. Contiguous' /\ Front' = Front
  BY <1>2, RunStable DEF Inv
<1>8. WholeFrames'
  <2>1. \A u \in Readers : call[u].at # "store"
    BY <1>1 DEF Idle
  <2> QED
    BY <1>2, <2>1 DEF Inv, WholeFrames
<1>9. OneReader'
  <2>1. Idle.at = "idle"
    BY DEF Idle
  <2>2. /\ call'[t].at = "store" /\ call'[t].slot = Front
        /\ call'[t].todo = Stores /\ call'[t].got = p
        /\ call'[t].room = call[t].room
    BY <1>1, <1>5 DEF Inv, TypeOK
  <2>3. p.len <= call[t].room
    BY <1>1 DEF p
  <2> QED
    BY <1>1, <1>2, <1>4, <1>5, <1>7, <2>1, <2>2, <2>3 DEF OneReader, Stores
<1> QED
  BY <1>6, <1>7, <1>8, <1>9 DEF Inv

\* The store of len: the descriptor at rx_tail, still the driver's, offers its
\* whole buffer again.
LEMMA StoreLenInv ==
    ASSUME Inv, NEW t \in Readers, StoresInOrder, RecvStore(t, "len")
    PROVE  /\ Inv'
           /\ UNCHANGED <<tail, cursor, given>>
           /\ Front \in Slots
           /\ desc' = [desc EXCEPT ![Front] = [@ EXCEPT !.len = BufferSize]]
<1>1. /\ call[t].at = "store" /\ call[t].slot = Front /\ ~desc[Front].own
      /\ "len" \in call[t].todo /\ "own" \in call[t].todo
      /\ call[t].got = Packet(desc[Front].frame)
      /\ call[t].got.len <= call[t].room
      /\ Front \in Slots /\ desc[Front].frame \in Frames
      /\ \A u \in Readers : u # t => call[u] = Idle
  <2>1. call[t].at = "store" /\ "len" \in call[t].todo /\ call[t] # Idle
    BY DEF RecvStore, Idle
  <2> QED
    BY <2>1, FrontSlot, FrontFrame DEF Inv, OneReader
<1>2. /\ desc' = [desc EXCEPT ![Front] = [@ EXCEPT !.len = BufferSize]]
      /\ call' = [call EXCEPT ![t].todo = @ \ {"len"}]
      /\ UNCHANGED <<tail, cursor, given>>
  BY <1>1 DEF RecvStore
<1>3. /\ Front' = Front
      /\ \A s \in Slots : s # Front => desc'[s] = desc[s]
      /\ desc'[Front].own = desc[Front].own
      /\ desc'[Front].frame = desc[Front].frame
  BY <1>1, <1>2 DEF Inv, TypeOK, Front
<1>4. /\ call'[t] = [call[t] EXCEPT !.todo = @ \ {"len"}]
      /\ \A u \in Readers : u # t => call'[u] = Idle
  BY <1>1, <1>2 DEF Inv, TypeOK
<1>5. TypeOK'
  <2> DEFINE Call == [at : {"idle", "copy", "store"}, slot : Slots,
                      room : CallerSizes \cup {0}, got : AnyPacket,
                      todo : SUBSET Stores]
             Desc == [own : BOOLEAN, len : 0 .. BufferSize,
                      frame : Frames \cup {NoFrame}]
  <2>1. call[t] \in Call /\ desc[Front] \in Desc
    BY <1>1 DEF Inv, TypeOK
  <2>2. [call[t] EXCEPT !.todo = @ \ {"len"}] \in Call
    BY <2>1
  <2>3. [desc[Front] EXCEPT !.len = BufferSize] \in Desc
    BY <2>1, LengthAssumption
  <2>4. call \in [Readers -> Call] /\ desc \in [Slots -> Desc]
    BY DEF Inv, TypeOK
  <2> HIDE DEF Call, Desc
  <2>5. call' \in [Readers -> Call] /\ desc' \in [Slots -> Desc]
    BY <1>2, <2>2, <2>3, <2>4
  <2> QED
    BY <1>2, <2>5 DEF Inv, TypeOK, Call, Desc
<1>6. Contiguous'
  <2>1. PICK n \in 0 .. RingSize : Holds(n)
    BY DEF Inv, Contiguous
  <2>2. ASSUME NEW i \in Slots PROVE Ahead(i)'.own = Ahead(i).own
    <3>1. (Front + i) % RingSize \in Slots
      BY <1>1, AheadSlot, RingAssumption DEF Slots
    <3> QED
      BY <3>1, <1>3 DEF Ahead
  <2> QED
    BY <2>1, <2>2, <1>2, <1>3 DEF Contiguous, Holds
<1>7. WholeFrames'
  <2>1. ASSUME NEW s \in Slots, s # Front, ~desc[s].own
        PROVE  desc[s].len = FrameLen[desc[s].frame]
    <3>1. \A u \in Readers : call[u].at = "store" => call[u].slot # s
      BY <2>1 DEF Inv, OneReader
    <3> QED
      BY <3>1, <2>1 DEF Inv, WholeFrames
  <2>2. /\ call'[t].at = "store" /\ call'[t].slot = Front
        /\ "len" \notin call'[t].todo
    BY <1>1, <1>4 DEF Inv, TypeOK
  <2>3. ASSUME NEW s \in Slots
        PROVE  IF desc'[s].own
               THEN desc'[s].len = BufferSize
               ELSE /\ desc'[s].frame \in Frames
                    /\ \/ desc'[s].len = FrameLen[desc'[s].frame]
                       \/ \E u \in Readers :
                             call'[u].at = "store" /\ call'[u].slot = s
                             /\ "len" \notin call'[u].todo
    <3>1. CASE s = Front
      BY <3>1, <2>2, <1>1, <1>3
    <3>2. CASE s # Front
      BY <3>2, <2>1, <1>3 DEF Inv, WholeFrames
    <3> QED
      BY <3>1, <3>2
  <2> QED
    BY <2>3 DEF WholeFrames
<1>8. OneReader'
  <2>1. Idle.at = "idle"
    BY DEF Idle
  <2>2. /\ call'[t].at = "store" /\ call'[t].slot = Front
        /\ "own" \in call'[t].todo /\ call'[t].got = call[t].got
        /\ call'[t].room = call[t].room
    BY <1>1, <1>4 DEF Inv, TypeOK
  <2>3. desc'[Front].len = BufferSize
    BY <1>1, <1>2 DEF Inv, TypeOK
  <2> QED
    BY <1>1, <1>3, <1>4, <2>1, <2>2, <2>3 DEF OneReader
<1> QED
  BY <1>1, <1>2, <1>5, <1>6, <1>7, <1>8 DEF Inv

\* What the store of OWN and the return do.
LEMMA StoreOwnEffect ==
    ASSUME Inv, NEW t \in Readers, StoresInOrder, RecvStore(t, "own")
    PROVE  /\ call[t].at = "store" /\ "len" \notin call[t].todo
           /\ Front \in Slots /\ ~desc[Front].own
           /\ desc[Front].frame \in Frames
           /\ desc[Front].len = BufferSize
           /\ desc' = [desc EXCEPT ![Front] = [@ EXCEPT !.own = TRUE]]
           /\ desc'[Front].own /\ desc'[Front].len = BufferSize
           /\ \A s \in Slots : s # Front => desc'[s] = desc[s]
           /\ tail' = (tail + 1) % TailSpan
           /\ tail' \in 0 .. TailSpan - 1
           /\ Front' = (Front + 1) % RingSize /\ Front' \in Slots
           /\ given' = Packet(desc[Front].frame)
           /\ call' = [call EXCEPT ![t] = Idle]
           /\ \A u \in Readers : call'[u] = Idle
           /\ UNCHANGED cursor
<1>1. /\ call[t].at = "store" /\ call[t].slot = Front /\ ~desc[Front].own
      /\ call[t].todo = {"own"} /\ desc[Front].len = BufferSize
      /\ call[t].got = Packet(desc[Front].frame)
      /\ Front \in Slots /\ desc[Front].frame \in Frames
      /\ \A u \in Readers : u # t => call[u] = Idle
  <2>1. call[t].at = "store" /\ call[t] # Idle /\ "own" \in call[t].todo
        /\ "len" \notin call[t].todo /\ call[t].todo \subseteq Stores
    BY DEF RecvStore, Idle, Inv, TypeOK
  <2> QED
    BY <2>1, FrontSlot, FrontFrame DEF Inv, OneReader, Stores
<1>2. /\ desc' = [desc EXCEPT ![Front] = [@ EXCEPT !.own = TRUE]]
      /\ tail' = (tail + 1) % TailSpan
      /\ given' = Packet(desc[Front].frame)
      /\ call' = [call EXCEPT ![t] = Idle]
      /\ UNCHANGED cursor
  BY <1>1 DEF RecvStore
<1>3. /\ desc'[Front].own /\ desc'[Front].len = BufferSize
      /\ \A s \in Slots : s # Front => desc'[s] = desc[s]
  BY <1>1, <1>2 DEF Inv, TypeOK
<1>4. \A u \in Readers : call'[u] = Idle
  BY <1>1, <1>2 DEF Inv, TypeOK
<1>5. tail' \in 0 .. TailSpan - 1 /\ Front' = (Front + 1) % RingSize
  BY <1>2, RingAssumption, SpanAssumption, WrappedCounter
  DEF Inv, TypeOK, Front
<1>6. Front' \in Slots
  <2>1. 1 \in 0 .. RingSize
    BY RingAssumption
  <2> QED
    BY <2>1, <1>1, <1>5, AheadSlot
<1> QED
  BY <1>1, <1>2, <1>3, <1>4, <1>5, <1>6

\* The run of unread frames loses its first element.
LEMMA StoreOwnHolds ==
    ASSUME Inv, NEW t \in Readers, StoresInOrder, RecvStore(t, "own"),
           NEW n \in 0 .. RingSize, Holds(n)
    PROVE  /\ n > 0
           /\ Holds(n - 1)'
           /\ Ahead(0) = desc[Front]
           /\ \A i \in Slots : i + 1 < RingSize => Ahead(i)' = Ahead(i + 1)
<1>1. /\ ~desc[Front].own /\ desc'[Front].own
      /\ Front \in Slots /\ Front' \in Slots
      /\ \A s \in Slots : s # Front => desc'[s] = desc[s]
      /\ Front' = (Front + 1) % RingSize
      /\ UNCHANGED cursor
  BY StoreOwnEffect
<1>2. 0 \in Slots /\ Ahead(0) = desc[Front]
  <2>1. (Front + 0) % RingSize = Front
    BY <1>1, SlotRound, RingAssumption DEF Slots
  <2>2. 0 \in Slots
    BY RingAssumption DEF Slots
  <2> QED
    BY <2>1, <2>2 DEF Ahead
<1>3. n > 0
  BY <1>1, <1>2 DEF Holds
<1>4. \A i \in Slots : (Front' + i) % RingSize = (Front + (i + 1)) % RingSize
  <2> SUFFICES ASSUME NEW i \in Slots
               PROVE  (Front' + i) % RingSize = (Front + (i + 1)) % RingSize
    OBVIOUS
  <2>1. i \in 0 .. RingSize /\ i + 1 \in 0 .. RingSize /\ 1 \in 0 .. RingSize
    BY RingAssumption DEF Slots
  <2>2. (Front' + i) % RingSize = IF Front' + i < RingSize
                                  THEN Front' + i ELSE Front' + i - RingSize
    BY <1>1, <2>1, AheadSlot
  <2>3. (Front + 1) % RingSize = IF Front + 1 < RingSize
                                 THEN Front + 1 ELSE Front + 1 - RingSize
    BY <1>1, <2>1, AheadSlot
  <2>4. (Front + (i + 1)) % RingSize = IF Front + (i + 1) < RingSize
                                       THEN Front + (i + 1)
                                       ELSE Front + (i + 1) - RingSize
    BY <1>1, <2>1, AheadSlot
  <2>5. Front \in 0 .. RingSize - 1 /\ Front' = (Front + 1) % RingSize
    BY <1>1 DEF Slots
  <2> HIDE DEF Front
  <2> QED
    BY <2>1, <2>2, <2>3, <2>4, <2>5, RingAssumption
<1>5. \A i \in Slots : i + 1 < RingSize => Ahead(i)' = Ahead(i + 1)
  <2> SUFFICES ASSUME NEW i \in Slots, i + 1 < RingSize
               PROVE  Ahead(i)' = Ahead(i + 1)
    OBVIOUS
  <2>1. i + 1 \in Slots /\ 0 \in Slots /\ i + 1 # 0 /\ i + 1 \in 0 .. RingSize
    BY RingAssumption DEF Slots
  <2>2. /\ (Front + (i + 1)) % RingSize # (Front + 0) % RingSize
        /\ (Front + 0) % RingSize = Front
    BY <2>1, <1>1, SlotInjective, SlotRound, RingAssumption DEF Slots
  <2>3. (Front + (i + 1)) % RingSize \in Slots
    BY <2>1, <1>1, AheadSlot
  <2> QED
    BY <2>2, <2>3, <1>1, <1>4 DEF Ahead
<1>6. ASSUME NEW i \in Slots PROVE ~Ahead(i)'.own <=> i < n - 1
  <2>1. CASE i + 1 = RingSize
    <3>1. (Front' + i) % RingSize = Front
      BY <2>1, <1>1, <1>4, SlotRound, RingAssumption DEF Slots
    <3> QED
      BY <3>1, <2>1, <1>1, RingAssumption DEF Ahead, Slots
  <2>2. CASE i + 1 < RingSize
    <3>1. i + 1 \in Slots /\ Ahead(i)' = Ahead(i + 1)
      BY <2>2, <1>5, RingAssumption DEF Slots
    <3>2. ~Ahead(i + 1).own <=> i + 1 < n
      BY <3>1 DEF Holds
    <3> QED
      BY <3>1, <3>2, RingAssumption DEF Slots
  <2> QED
    BY <2>1, <2>2, RingAssumption DEF Slots
<1>7. cursor' = (Front' + (n - 1)) % RingSize
  <2>1. n - 1 \in Slots
    BY <1>3, RingAssumption DEF Slots
  <2>2. (Front' + (n - 1)) % RingSize = (Front + n) % RingSize
    BY <2>1, <1>4
  <2> QED
    BY <2>2, <1>1 DEF Holds
<1> QED
  BY <1>1, <1>2, <1>3, <1>5, <1>6, <1>7 DEF Holds

\* The store of OWN and the return.
LEMMA StoreOwnInv ==
    ASSUME Inv, NEW t \in Readers, StoresInOrder, RecvStore(t, "own")
    PROVE  Inv'
<1>1. /\ Front \in Slots /\ desc[Front].frame \in Frames
      /\ desc' = [desc EXCEPT ![Front] = [@ EXCEPT !.own = TRUE]]
      /\ desc'[Front].own /\ desc'[Front].len = BufferSize
      /\ \A s \in Slots : s # Front => desc'[s] = desc[s]
      /\ tail' \in 0 .. TailSpan - 1
      /\ given' = Packet(desc[Front].frame)
      /\ call' = [call EXCEPT ![t] = Idle]
      /\ \A u \in Readers : call'[u] = Idle
      /\ UNCHANGED cursor
  BY StoreOwnEffect
<1>2. TypeOK'
  <2> DEFINE Call == [at : {"idle", "copy", "store"}, slot : Slots,
                      room : CallerSizes \cup {0}, got : AnyPacket,
                      todo : SUBSET Stores]
             Desc == [own : BOOLEAN, len : 0 .. BufferSize,
                      frame : Frames \cup {NoFrame}]
  <2>1. Idle \in Call
    BY RingAssumption, LengthAssumption
    DEF Idle, Nothing, AnyPacket, Slots
  <2>2. desc[Front] \in Desc
    BY <1>1 DEF Inv, TypeOK
  <2>3. [desc[Front] EXCEPT !.own = TRUE] \in Desc
    BY <2>2
  <2>4. call \in [Readers -> Call] /\ desc \in [Slots -> Desc]
    BY DEF Inv, TypeOK
  <2>5. given' \in AnyPacket
    BY <1>1, PacketTyped
  <2> HIDE DEF Call, Desc
  <2>6. call' \in [Readers -> Call] /\ desc' \in [Slots -> Desc]
    BY <1>1, <2>1, <2>3, <2>4
  <2> QED
    BY <1>1, <2>5, <2>6 DEF Inv, TypeOK, Call, Desc
<1>3. Contiguous'
  <2>1. PICK n \in 0 .. RingSize : Holds(n)
    BY DEF Inv, Contiguous
  <2>2. n > 0 /\ Holds(n - 1)'
    BY <2>1, StoreOwnHolds
  <2> QED
    BY <2>1, <2>2, RingAssumption DEF Contiguous
<1>4. WholeFrames'
  <2>1. ASSUME NEW s \in Slots, s # Front
        PROVE  IF desc'[s].own
               THEN desc'[s].len = BufferSize
               ELSE /\ desc'[s].frame \in Frames
                    /\ desc'[s].len = FrameLen[desc'[s].frame]
    <3>1. \A u \in Readers : call[u].at = "store" => call[u].slot # s
      BY <2>1 DEF Inv, OneReader
    <3> QED
      BY <3>1, <2>1, <1>1 DEF Inv, WholeFrames
  <2> QED
    BY <2>1, <1>1 DEF WholeFrames
<1>5. OneReader'
  <2>1. Idle.at = "idle"
    BY DEF Idle
  <2> QED
    BY <1>1, <2>1 DEF OneReader
<1> QED
  BY <1>2, <1>3, <1>4, <1>5 DEF Inv

\* The controller fills a descriptor: the run of unread frames gets a new last
\* element, and the ring was not full of them.
LEMMA ReceiveHolds ==
    ASSUME Inv, NEW f \in Frames, EngineReceive(f),
           NEW n \in 0 .. RingSize, Holds(n)
    PROVE  /\ n < RingSize
           /\ Holds(n + 1)'
           /\ \A i \in Slots : i # n => Ahead(i)' = Ahead(i)
           /\ Ahead(n)'.frame = f
<1>1. /\ cursor \in Slots /\ Front \in Slots /\ Front' = Front
      /\ desc[cursor].own /\ ~desc'[cursor].own /\ desc'[cursor].frame = f
      /\ \A s \in Slots : s # cursor => desc'[s] = desc[s]
      /\ cursor' = (cursor + 1) % RingSize
      /\ cursor = (Front + n) % RingSize
  BY FrontSlot DEF EngineReceive, Inv, TypeOK, NextSlot, Front, Holds
<1>2. n < RingSize
  <2>1. SUFFICES ASSUME n = RingSize PROVE FALSE
    BY RingAssumption
  <2>2. (Front + 0) % RingSize = cursor
    BY <2>1, <1>1, SlotRound, RingAssumption DEF Slots
  <2>3. 0 \in Slots /\ ~Ahead(0).own
    BY <2>1, RingAssumption DEF Holds, Slots
  <2> QED
    BY <2>2, <2>3, <1>1 DEF Ahead
<1>3. n \in Slots
  BY <1>2, RingAssumption DEF Slots
<1>4. \A i \in Slots : i # n => Ahead(i)' = Ahead(i)
  <2> SUFFICES ASSUME NEW i \in Slots, i # n PROVE Ahead(i)' = Ahead(i)
    OBVIOUS
  <2>1. (Front + i) % RingSize # cursor
    BY <1>1, <1>3, SlotInjective, RingAssumption DEF Slots
  <2>2. (Front + i) % RingSize \in Slots
    <3>1. i \in 0 .. RingSize
      BY RingAssumption DEF Slots
    <3> QED
      BY <3>1, <1>1, AheadSlot
  <2> QED
    BY <2>1, <2>2, <1>1 DEF Ahead
<1>5. ~Ahead(n)'.own /\ Ahead(n)'.frame = f
  BY <1>1 DEF Ahead
<1>6. \A i \in Slots : ~Ahead(i)'.own <=> i < n + 1
  BY <1>2, <1>4, <1>5, RingAssumption DEF Holds, Slots
<1>7. cursor' = (Front' + (n + 1)) % RingSize
  <2> DEFINE a == Front + n
  <2>1. a \in Nat
    BY <1>1, RingAssumption DEF Slots
  <2>2. (a + 1) % RingSize = ((a % RingSize) + 1) % RingSize
    BY <2>1, SlotSuccessor, RingAssumption
  <2>3. a + 1 = Front + (n + 1)
    BY <1>1, RingAssumption DEF Slots
  <2> QED
    BY <2>2, <2>3, <1>1
<1> QED
  BY <1>2, <1>4, <1>5, <1>6, <1>7 DEF Holds

\* A frame arrives.
LEMMA EngineReceiveInv ==
    ASSUME Inv, NEW f \in Frames, EngineReceive(f)
    PROVE  Inv'
<1> DEFINE new == [own |-> FALSE, len |-> FrameLen[f], frame |-> f]
<1>1. /\ desc[cursor].own /\ cursor \in Slots /\ Front' = Front
      /\ desc' = [desc EXCEPT ![cursor] = new]
      /\ UNCHANGED <<tail, call, given>>
  BY DEF EngineReceive, Inv, TypeOK, Front
<1>2. desc'[cursor] = new /\ \A s \in Slots : s # cursor => desc'[s] = desc[s]
  BY <1>1 DEF Inv, TypeOK
<1>3. TypeOK'
  <2>1. new \in [own : BOOLEAN, len : 0 .. BufferSize,
                 frame : Frames \cup {NoFrame}]
    BY LengthAssumption
  <2>2. cursor' \in Slots
    BY RingAssumption, QuotientRemainder
    DEF EngineReceive, NextSlot, Inv, TypeOK, Slots
  <2> HIDE DEF new
  <2> QED
    BY <1>1, <2>1, <2>2 DEF Inv, TypeOK
<1>4. Contiguous'
  <2>1. PICK n \in 0 .. RingSize : Holds(n)
    BY DEF Inv, Contiguous
  <2>2. n < RingSize /\ Holds(n + 1)'
    BY <2>1, ReceiveHolds
  <2> QED
    BY <2>2, RingAssumption DEF Contiguous
<1>5. WholeFrames'
  BY <1>1, <1>2 DEF Inv, WholeFrames
<1>6. OneReader'
  <2>1. \A t \in Readers : call[t].at # "idle" => Front # cursor
    BY <1>1 DEF Inv, OneReader
  <2>2. Front \in Slots
    BY FrontSlot DEF Inv
  <2>3. \A t \in Readers : call[t].at # "idle" => desc'[Front] = desc[Front]
    BY <2>1, <2>2, <1>2
  <2> QED
    BY <1>1, <2>3 DEF Inv, OneReader
<1> QED
  BY <1>3, <1>4, <1>5, <1>6 DEF Inv

\* Every step keeps the invariant.
LEMMA NextInv ==
    ASSUME Serialized, StoresInOrder, Inv, [Next]_vars
    PROVE  Inv'
<1>1. CASE UNCHANGED vars
  BY <1>1 DEF vars, Inv, TypeOK, Contiguous, Holds, Ahead, Front, WholeFrames,
              OneReader
<1>2. ASSUME NEW t \in Readers, Recv(t) PROVE Inv'
  BY <1>2, RecvEnterInv, RecvCopyInv, StoreLenInv, StoreOwnInv
  DEF Recv, Stores
<1>3. ASSUME NEW f \in Frames, EngineReceive(f) PROVE Inv'
  BY <1>3, EngineReceiveInv
<1> QED
  BY <1>1, <1>2, <1>3 DEF Next

\* With serialised callers and ordered stores, for every ring size: unread
\* frames are one run from rx_tail to the controller's cursor, each under its
\* own length, and recv returns the frame it checked.
THEOREM RxSafe ==
    ASSUME Serialized, StoresInOrder
    PROVE  Spec => [](TypeOK /\ Contiguous /\ WholeFrames /\ OneReader)
<1>1. Init => Inv
  BY InitInv
<1>2. Inv /\ [Next]_vars => Inv'
  BY NextInv
<1> QED
  BY <1>1, <1>2, PTL DEF Spec, Inv

\* The types, for every ring size: rx_tail keeps to 16 bits and every call
\* names a slot of the ring.
THEOREM RxTypeCorrect ==
    ASSUME Serialized, StoresInOrder
    PROVE  Spec => []TypeOK
BY RxSafe, PTL

\* The controller is always offered a whole buffer and each unread frame is
\* under its own length, for every ring size and set of lengths.
THEOREM RxWholeFrames ==
    ASSUME Serialized, StoresInOrder
    PROVE  Spec => []WholeFrames
BY RxSafe, PTL

-------------------------------------------------------------------------------
(* The receive side implements the frame queue. *)

\* The number of unread frames is determined by the ring.
LEMMA UnreadIs ==
    ASSUME NEW n \in 0 .. RingSize, Holds(n)
    PROVE  Unread = n
<1>1. ASSUME NEW m \in 0 .. RingSize, Holds(m), NEW k \in 0 .. RingSize,
             Holds(k), m < k
      PROVE  FALSE
  <2>1. m \in Slots
    BY <1>1, RingAssumption DEF Slots
  <2>2. Ahead(m).own /\ ~Ahead(m).own
    BY <2>1, <1>1, RingAssumption DEF Holds
  <2> QED
    BY <2>2
<1>2. \A m \in 0 .. RingSize : Holds(m) => m = n
  <2> SUFFICES ASSUME NEW m \in 0 .. RingSize, Holds(m), m # n PROVE FALSE
    OBVIOUS
  <2>1. m < n \/ n < m
    BY RingAssumption
  <2> QED
    BY <2>1, <1>1
<1>3. Unread \in 0 .. RingSize /\ Holds(Unread)
  BY DEF Unread
<1> QED
  BY <1>2, <1>3

\* The queue the ring stands for, without the CHOOSE.
RingIsQueue ==
    \A n \in 0 .. RingSize :
        Holds(n) => /\ Queue = [i \in 1 .. n |-> Packet(Ahead(i - 1).frame)]
                    /\ Queue \in Seq(Packets)
                    /\ Len(Queue) = n

LEMMA QueueIs == Inv => RingIsQueue
<1> SUFFICES ASSUME Inv, NEW n \in 0 .. RingSize, Holds(n)
             PROVE  /\ Queue = [i \in 1 .. n |-> Packet(Ahead(i - 1).frame)]
                    /\ Queue \in Seq(Packets)
                    /\ Len(Queue) = n
  BY DEF RingIsQueue
<1>1. Queue = [i \in 1 .. n |-> Packet(Ahead(i - 1).frame)]
  BY UnreadIs DEF Queue
<1>2. ASSUME NEW i \in 1 .. n PROVE Packet(Ahead(i - 1).frame) \in Packets
  <2>1. /\ i - 1 \in Slots /\ i - 1 < n /\ i - 1 \in 0 .. RingSize
    BY RingAssumption DEF Slots
  <2>2. ~Ahead(i - 1).own
    BY <2>1 DEF Holds
  <2>3. (Front + (i - 1)) % RingSize \in Slots
    BY <2>1, AheadSlot, FrontSlot DEF Inv
  <2> QED
    BY <2>2, <2>3 DEF Ahead, Inv, WholeFrames, Packets
<1>3. n \in Nat
  BY RingAssumption
<1> QED
  BY <1>1, <1>2, <1>3

\* The same in the next state.
LEMMA QueueIsNext == Inv' => RingIsQueue'
BY QueueIs, PTL

\* A step that leaves the ring and both its ends alone leaves the queue alone.
LEMMA QueueStable ==
    ASSUME UNCHANGED <<desc, tail, cursor>>
    PROVE  Queue' = Queue
BY DEF Queue, Unread, Holds, Ahead, Front

\* Putting the length back is invisible.
LEMMA StoreLenQueue ==
    ASSUME Inv, Inv', NEW t \in Readers, StoresInOrder, RecvStore(t, "len")
    PROVE  Queue' = Queue /\ given' = given
<1>1. PICK n \in 0 .. RingSize : Holds(n)
  BY DEF Inv, Contiguous
<1>2. /\ Front \in Slots /\ Front' = Front
      /\ desc' = [desc EXCEPT ![Front] = [@ EXCEPT !.len = BufferSize]]
      /\ UNCHANGED <<cursor, given>>
  BY StoreLenInv DEF Front
<1>3. ASSUME NEW i \in Slots
      PROVE  /\ Ahead(i)'.own = Ahead(i).own
             /\ Ahead(i)'.frame = Ahead(i).frame
  <2>1. i \in 0 .. RingSize
    BY RingAssumption DEF Slots
  <2>2. (Front + i) % RingSize \in Slots
    BY <2>1, <1>2, AheadSlot
  <2> QED
    BY <2>2, <1>2 DEF Ahead, Inv, TypeOK
<1>4. Holds(n)'
  BY <1>1, <1>2, <1>3 DEF Holds
<1>5. \A i \in 1 .. n : i - 1 \in Slots
  BY RingAssumption DEF Slots
<1>6. /\ Queue = [i \in 1 .. n |-> Packet(Ahead(i - 1).frame)]
      /\ Queue' = [i \in 1 .. n |-> Packet(Ahead(i - 1)'.frame)]
  BY <1>1, <1>4, QueueIs, QueueIsNext DEF RingIsQueue, Packet
<1> QED
  BY <1>2, <1>3, <1>5, <1>6

\* The return of recv hands out the oldest frame.
LEMMA StoreOwnQueue ==
    ASSUME Inv, Inv', NEW t \in Readers, StoresInOrder, RecvStore(t, "own")
    PROVE  Pipe!Take
<1>1. PICK n \in 0 .. RingSize : Holds(n)
  BY DEF Inv, Contiguous
<1>2. /\ n > 0
      /\ Holds(n - 1)'
      /\ Ahead(0) = desc[Front]
      /\ \A i \in Slots : i + 1 < RingSize => Ahead(i)' = Ahead(i + 1)
      /\ given' = Packet(desc[Front].frame)
  BY <1>1, StoreOwnHolds, StoreOwnEffect
<1>3. n - 1 \in 0 .. RingSize /\ n \in Nat
  BY <1>2, RingAssumption
<1>4. /\ Queue = [i \in 1 .. n |-> Packet(Ahead(i - 1).frame)]
      /\ Queue \in Seq(Packets) /\ Len(Queue) = n
  BY <1>1, QueueIs DEF RingIsQueue
<1>5. Queue' = [i \in 1 .. n - 1 |-> Packet(Ahead(i - 1)'.frame)]
  BY <1>2, <1>3, QueueIsNext DEF RingIsQueue, Packet
<1>6. Head(Queue) = given'
  BY <1>2, <1>3, <1>4
<1>7. Queue' = Tail(Queue)
  <2>1. ASSUME NEW i \in 1 .. n - 1
        PROVE  Packet(Ahead(i - 1)'.frame) = Queue[i + 1]
    <3>1. /\ i - 1 \in Slots /\ (i - 1) + 1 < RingSize
          /\ i + 1 \in 1 .. n /\ (i - 1) + 1 = (i + 1) - 1
      BY RingAssumption DEF Slots
    <3> QED
      BY <3>1, <1>2, <1>4
  <2>2. Tail(Queue) = [i \in 1 .. n - 1 |-> Queue[i + 1]]
    BY <1>2, <1>3, <1>4
  <2> QED
    BY <2>1, <2>2, <1>5
<1>8. Queue # <<>>
  <2>1. Len(<<>>) = 0
    OBVIOUS
  <2>2. Len(Queue) # 0
    BY <1>2, <1>3, <1>4
  <2> QED
    BY <2>1, <2>2
<1> QED
  BY <1>6, <1>7, <1>8 DEF Pipe!Take

\* An arriving frame goes to the end of the queue, which has room.
LEMMA ReceiveQueue ==
    ASSUME Inv, Inv', NEW f \in Frames, EngineReceive(f)
    PROVE  \E p \in Packets : Pipe!Put(p)
<1> DEFINE p == Packet(f)
<1>1. PICK n \in 0 .. RingSize : Holds(n)
  BY DEF Inv, Contiguous
<1>2. p \in Packets /\ given' = given
  BY DEF Packets, EngineReceive
<1>3. /\ n < RingSize
      /\ Holds(n + 1)'
      /\ \A i \in Slots : i # n => Ahead(i)' = Ahead(i)
      /\ Ahead(n)'.frame = f
  BY <1>1, ReceiveHolds
<1>4. n + 1 \in 0 .. RingSize /\ n \in Nat
  BY <1>3, RingAssumption
<1>5. /\ Queue = [i \in 1 .. n |-> Packet(Ahead(i - 1).frame)]
      /\ Queue \in Seq(Packets) /\ Len(Queue) = n
  BY <1>1, QueueIs DEF RingIsQueue
<1>6. Queue' = [i \in 1 .. n + 1 |-> Packet(Ahead(i - 1)'.frame)]
  BY <1>3, <1>4, QueueIsNext DEF RingIsQueue, Packet
<1>7. Queue' = Append(Queue, p)
  <2>1. ASSUME NEW i \in 1 .. n
        PROVE  Packet(Ahead(i - 1)'.frame) = Queue[i]
    <3>1. i - 1 \in Slots /\ i - 1 # n
      BY <1>3, RingAssumption DEF Slots
    <3> QED
      BY <3>1, <1>3, <1>5
  <2>2. Packet(Ahead((n + 1) - 1)'.frame) = p
    <3>1. (n + 1) - 1 = n
      BY <1>4
    <3> QED
      BY <3>1, <1>3
  <2> HIDE DEF p
  <2>3. Append(Queue, p) =
           [i \in 1 .. n + 1 |-> IF i = n + 1 THEN p ELSE Queue[i]]
    BY <1>2, <1>4, <1>5
  <2> QED
    BY <2>1, <2>2, <2>3, <1>4, <1>6
<1> QED
  BY <1>2, <1>3, <1>5, <1>7 DEF Pipe!Put

\* Every step of the receive side is a step of the queue or leaves it alone.
LEMMA StepRefines ==
    ASSUME Serialized, StoresInOrder, Inv, Inv', [Next]_vars
    PROVE  [Pipe!Next]_(Pipe!vars)
<1>1. CASE UNCHANGED vars
  BY <1>1, QueueStable DEF vars, Pipe!vars
<1>2. ASSUME NEW t \in Readers, Recv(t)
      PROVE  [Pipe!Next]_(Pipe!vars)
  <2>1. ASSUME NEW room \in CallerSizes, RecvEnter(t, room)
        PROVE  UNCHANGED Pipe!vars
    BY <2>1, QueueStable DEF RecvEnter, Pipe!vars
  <2>2. CASE RecvCopy(t)
    BY <2>2, QueueStable DEF RecvCopy, Pipe!vars
  <2>3. CASE RecvStore(t, "len")
    BY <2>3, StoreLenQueue DEF Pipe!vars
  <2>4. CASE RecvStore(t, "own")
    BY <2>4, StoreOwnQueue DEF Pipe!Next
  <2> QED
    BY <1>2, <2>1, <2>2, <2>3, <2>4 DEF Recv, Stores
<1>3. ASSUME NEW f \in Frames, EngineReceive(f)
      PROVE  [Pipe!Next]_(Pipe!vars)
  BY <1>3, ReceiveQueue DEF Pipe!Next
<1> QED
  BY <1>1, <1>2, <1>3 DEF Next

\* A ring that is all the controller's is an empty queue.
LEMMA InitRefines == Init => Pipe!Init
<1> SUFFICES ASSUME Init PROVE Pipe!Init
  OBVIOUS
<1>1. Inv /\ Holds(0) /\ 0 \in 0 .. RingSize
  BY InitInv, RingAssumption
<1>2. Queue = [i \in 1 .. 0 |-> Packet(Ahead(i - 1).frame)]
  BY <1>1, QueueIs DEF RingIsQueue
<1>3. Queue = <<>>
  BY <1>2
<1> QED
  BY <1>3 DEF Pipe!Init, Init

\* With serialised callers and ordered stores, for every ring size: what the
\* controller put into the ring comes out of recv once, whole, with its
\* length and in order.
THEOREM RxImplementsPipe ==
    ASSUME Serialized, StoresInOrder
    PROVE  Spec => ImplementsPipe
<1>1. Init => Pipe!Init
  BY InitRefines
<1>2. Inv /\ Inv' /\ [Next]_vars => [Pipe!Next]_(Pipe!vars)
  BY StepRefines
<1>3. Spec => []Inv
  BY RxSafe DEF Inv
<1> QED
  BY <1>1, <1>2, <1>3, PTL DEF Spec, ImplementsPipe, Pipe!Spec
===============================================================================
