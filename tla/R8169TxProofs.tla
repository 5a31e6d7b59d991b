---------------------------- MODULE R8169TxProofs ----------------------------
(***************************************************************************)
(* The transmit side is correct for every ring size, every set of frames   *)
(* and threads and every width of tx_tail that the ring size divides,      *)
(* provided that the host serialises calls of send (Serialized) and stores *)
(* become visible in program order (StoresInOrder).                        *)
(***************************************************************************)
EXTENDS R8169Tx, RingArithmetic

Inv == TypeOK /\ Contiguous /\ NoOverwrite /\ OneWriter

\* The place of slot (c + i) on the ring, without a remainder.
LEMMA AheadSlot ==
    ASSUME NEW c \in Slots, NEW i \in 0 .. RingSize
    PROVE  /\ (c + i) % RingSize = IF c + i < RingSize
                                   THEN c + i ELSE c + i - RingSize
           /\ (c + i) % RingSize \in Slots
<1>1. RingSize \in Nat \ {0} /\ c \in 0 .. RingSize - 1
  BY RingAssumption DEF Slots
<1>2. (c + i) % RingSize = IF c + i < RingSize
                           THEN c + i ELSE c + i - RingSize
  BY <1>1, SlotAhead
<1> QED
  BY <1>1, <1>2 DEF Slots

\* The initial state: an empty ring.
LEMMA InitInv == Init => Inv
<1> SUFFICES ASSUME Init PROVE Inv
  OBVIOUS
<1>1. TypeOK
  <2>1. 0 \in Slots /\ 0 \in 0 .. TailSpan - 1
    BY RingAssumption, SpanAssumption DEF Slots
  <2>2. Idle \in Calls
    BY <2>1 DEF Idle, Calls
  <2> QED
    BY <2>1, <2>2 DEF Init, TypeOK
<1>2. Holds(0)
  <2>1. ASSUME NEW i \in Slots PROVE ~Ahead(i).own
    <3>1. (cursor + i) % RingSize \in Slots
      BY RingAssumption, AheadSlot DEF Init, Slots
    <3> QED
      BY <3>1 DEF Ahead, Init
  <2>2. \A i \in Slots : ~(i < 0)
    BY RingAssumption DEF Slots
  <2> QED
    BY <2>1, <2>2 DEF Holds, Init
<1>3. Contiguous
  BY <1>2, RingAssumption DEF Contiguous
<1>4. NoOverwrite
  BY DEF Init, NoOverwrite
<1>5. OneWriter
  BY DEF Init, OneWriter, Idle
<1> QED
  BY <1>1, <1>3, <1>4, <1>5 DEF Inv

\* A thread enters send.
LEMMA SendEnterInv ==
    ASSUME Serialized, Inv, NEW t \in Senders, NEW f \in Frames, SendEnter(t, f)
    PROVE  Inv'
<1> USE DEF Inv
<1> DEFINE s == tail % RingSize
           new == [at |-> "store", slot |-> s, frame |-> f, todo |-> Stores]
<1>1. s \in Slots /\ ~desc[s].own
  BY RingAssumption, QuotientRemainder DEF SendEnter, TypeOK, Slots
<1>2. call' = [call EXCEPT ![t] = new]
  BY DEF SendEnter
<1>3. new \in Calls
  BY <1>1 DEF Calls
<1>4. TypeOK'
  BY <1>2, <1>3 DEF TypeOK, SendEnter
<1>5. Contiguous'
  BY DEF SendEnter, Contiguous, Holds, Ahead
<1>6. NoOverwrite'
  BY DEF SendEnter, NoOverwrite
<1>7. OneWriter'
  <2>1. \A u \in Senders : u # t => call'[u] = Idle
    BY <1>2 DEF SendEnter, TypeOK
  <2>2. call'[t] = new
    BY <1>2 DEF TypeOK
  <2>3. UNCHANGED <<desc, tail>>
    BY DEF SendEnter
  <2> HIDE DEF Inv
  <2> QED
    BY <1>1, <2>1, <2>2, <2>3 DEF OneWriter, Idle, Stores
<1> QED
  BY <1>4, <1>5, <1>6, <1>7

\* The store of the frame: the descriptor at tx_tail is not the controller's
\* yet, so nothing it relies on changes.
LEMMA StoreFrameInv ==
    ASSUME Inv, NEW t \in Senders, StoresInOrder, SendStore(t, "frame")
    PROVE  Inv'
<1> USE DEF Inv
<1> DEFINE c == call[t]
           s == c.slot
<1>1. /\ c \in Calls /\ c.at = "store" /\ "frame" \in c.todo
      /\ s = tail % RingSize /\ s \in Slots /\ c.frame \in Frames
      /\ "own" \in c.todo /\ ~desc[s].own
  BY DEF SendStore, OneWriter, TypeOK, Calls
<1>2. /\ desc' = [desc EXCEPT ![s] = [@ EXCEPT !.frame = c.frame]]
      /\ call' = [call EXCEPT ![t].todo = @ \ {"frame"}]
      /\ UNCHANGED <<tail, kicked, cursor, fetched, wire>>
  BY <1>1 DEF SendStore
<1>3. /\ \A r \in Slots : desc'[r].own = desc[r].own
      /\ \A r \in Slots : r # s => desc'[r] = desc[r]
      /\ desc'[s].frame = c.frame
  BY <1>1, <1>2 DEF TypeOK
<1>4. TypeOK'
  <2>1. call' \in [Senders -> Calls]
    BY <1>1, <1>2 DEF TypeOK, Calls
  <2>2. desc' \in [Slots -> [own : BOOLEAN, frame : Frames \cup {NoFrame}]]
    BY <1>1, <1>2 DEF TypeOK
  <2> QED
    BY <2>1, <2>2, <1>2 DEF TypeOK
<1>5. Contiguous'
  <2>1. PICK n \in 0 .. RingSize : Holds(n)
    BY DEF Contiguous
  <2>2. \A i \in Slots : (cursor + i) % RingSize \in Slots
    BY RingAssumption, AheadSlot DEF TypeOK, Slots
  <2>3. \A i \in Slots : Ahead(i)'.own = Ahead(i).own
    BY <2>2, <1>2, <1>3 DEF Ahead
  <2> QED
    BY <2>1, <2>3, <1>2 DEF Contiguous, Holds
<1>6. NoOverwrite'
  <2>1. \A r \in Slots : desc'[r].own => desc'[r] = desc[r]
    BY <1>1, <1>3
  <2>2. cursor \in Slots /\ (fetched # NoFrame => desc[cursor].own)
    BY DEF NoOverwrite, TypeOK
  <2>3. fetched # NoFrame => desc'[cursor] = desc[cursor]
    BY <2>1, <2>2, <1>3
  <2> QED
    BY <2>1, <2>3, <1>2, <1>3 DEF NoOverwrite
<1>7. OneWriter'
  <2>1. \A u \in Senders : u # t => call'[u] = Idle
    BY <1>1, <1>2 DEF OneWriter, TypeOK, Idle
  <2>2. call'[t] = [c EXCEPT !.todo = c.todo \ {"frame"}]
    BY <1>2 DEF TypeOK
  <2>3. /\ call'[t].at = "store" /\ call'[t].slot = s
        /\ call'[t].frame = c.frame /\ "own" \in call'[t].todo
    BY <2>2, <1>1 DEF Calls
  <2>4. ~desc'[s].own /\ desc'[s].frame = c.frame /\ tail' = tail
    BY <1>1, <1>2, <1>3
  <2>5. \A u, w \in Senders : call'[u] # Idle /\ call'[w] # Idle => u = w
    BY <2>1
  <2>6. ASSUME NEW u \in Senders, call'[u] # Idle PROVE u = t
    BY <2>1, <2>6
  <2>7. Idle.at = "idle"
    BY DEF Idle
  <2> HIDE DEF Inv, c, s
  <2> QED
    BY <2>3, <2>4, <2>5, <2>6, <2>7, <1>1 DEF OneWriter
<1> QED
  BY <1>4, <1>5, <1>6, <1>7

\* What the store of OWN does to the descriptor at tx_tail.
LEMMA StoreOwnEffect ==
    ASSUME Inv, NEW t \in Senders, StoresInOrder, SendStore(t, "own")
    PROVE  LET c == call[t]
               s == c.slot
           IN  /\ c \in Calls /\ c.at = "store" /\ c.todo = {"own"}
               /\ s = tail % RingSize /\ s \in Slots /\ c.frame \in Frames
               /\ ~desc[s].own /\ desc[s].frame = c.frame
               /\ desc' = [desc EXCEPT ![s] = [@ EXCEPT !.own = TRUE]]
               /\ desc'[s] = [own |-> TRUE, frame |-> c.frame]
               /\ \A r \in Slots : r # s => desc'[r] = desc[r]
               /\ tail' \in 0 .. TailSpan - 1
               /\ tail' % RingSize = (s + 1) % RingSize
               /\ call' = [call EXCEPT ![t].at = "kick", ![t].todo = {}]
               /\ UNCHANGED <<kicked, cursor, fetched, wire>>
<1> USE DEF Inv
<1> DEFINE c == call[t]
           s == c.slot
<1>1. /\ c \in Calls /\ c.at = "store" /\ c.todo = {"own"}
      /\ s = tail % RingSize /\ s \in Slots /\ c.frame \in Frames
      /\ ~desc[s].own /\ desc[s].frame = c.frame
  BY DEF SendStore, OneWriter, TypeOK, Calls, Stores
<1>2. /\ desc' = [desc EXCEPT ![s] = [@ EXCEPT !.own = TRUE]]
      /\ tail' = (tail + 1) % TailSpan
      /\ call' = [call EXCEPT ![t].at = "kick", ![t].todo = {}]
      /\ UNCHANGED <<kicked, cursor, fetched, wire>>
  BY <1>1 DEF SendStore
<1>3. /\ desc'[s] = [own |-> TRUE, frame |-> c.frame]
      /\ \A r \in Slots : r # s => desc'[r] = desc[r]
  BY <1>1, <1>2 DEF TypeOK
<1>4. /\ tail' \in 0 .. TailSpan - 1
      /\ tail' % RingSize = (s + 1) % RingSize
  BY <1>1, <1>2, RingAssumption, SpanAssumption, WrappedCounter DEF TypeOK
<1> QED
  BY <1>1, <1>2, <1>3, <1>4

\* One more descriptor is the controller's, the one behind those it has.
LEMMA StoreOwnHolds ==
    ASSUME Inv, NEW t \in Senders, StoresInOrder, SendStore(t, "own"),
           NEW n \in 0 .. RingSize, Holds(n)
    PROVE  /\ n < RingSize
           /\ Holds(n + 1)'
           /\ \A i \in Slots : i # n => Ahead(i)' = Ahead(i)
           /\ Ahead(n)' = [own |-> TRUE, frame |-> call[t].frame]
<1> DEFINE s == call[t].slot
<1>0. /\ ~desc[s].own /\ s = tail % RingSize /\ s \in Slots
      /\ desc'[s] = [own |-> TRUE, frame |-> call[t].frame]
      /\ \A r \in Slots : r # s => desc'[r] = desc[r]
      /\ tail' % RingSize = (s + 1) % RingSize
      /\ UNCHANGED <<kicked, cursor, fetched, wire>>
  BY StoreOwnEffect
<1> HIDE DEF s
<1> USE DEF Inv
<1>2. \A i \in 0 .. RingSize :
         /\ (cursor + i) % RingSize = IF cursor + i < RingSize
                                      THEN cursor + i
                                      ELSE cursor + i - RingSize
         /\ (cursor + i) % RingSize \in Slots
  BY AheadSlot DEF TypeOK
<1>3. s = (cursor + n) % RingSize
  BY <1>0 DEF Holds
<1>4. n < RingSize
  <2>1. SUFFICES ASSUME n = RingSize PROVE FALSE
    BY RingAssumption
  <2>2. (cursor + 0) % RingSize = s
    BY <2>1, <1>3, SlotRound, RingAssumption DEF TypeOK, Slots
  <2>3. 0 \in Slots /\ Ahead(0).own
    BY <2>1, RingAssumption DEF Holds, Slots
  <2> QED
    BY <2>2, <2>3, <1>0 DEF Ahead
<1>5. \A i \in Slots : i # n => Ahead(i)' = Ahead(i)
  <2> SUFFICES ASSUME NEW i \in Slots, i # n PROVE Ahead(i)' = Ahead(i)
    OBVIOUS
  <2>1. i \in 0 .. RingSize /\ n \in Slots
    BY <1>4, RingAssumption DEF Slots
  <2>2. (cursor + i) % RingSize # s
    BY <2>1, <1>3, SlotInjective, RingAssumption DEF TypeOK, Slots
  <2> QED
    BY <2>1, <2>2, <1>2, <1>0 DEF Ahead
<1>7. Ahead(n)' = [own |-> TRUE, frame |-> call[t].frame]
  BY <1>3, <1>0 DEF Ahead
<1>8. \A i \in Slots : Ahead(i)'.own <=> i < n + 1
  BY <1>4, <1>5, <1>7, RingAssumption DEF Holds, Slots
<1>6. tail' % RingSize = (cursor' + (n + 1)) % RingSize
  <2> DEFINE a == cursor + n
  <2>a. a \in Nat
    BY RingAssumption DEF TypeOK, Slots
  <2>1. (s + 1) % RingSize = (a + 1) % RingSize
    BY <2>a, <1>3, SlotSuccessor, RingAssumption
  <2> QED
    BY <2>1, <1>0, RingAssumption DEF TypeOK, Slots
<1> QED
  BY <1>4, <1>5, <1>6, <1>7, <1>8 DEF Holds

\* The store of OWN: one more descriptor is the controller's, the one behind
\* those it already has, and tx_tail moves past it.
LEMMA StoreOwnInv ==
    ASSUME Inv, NEW t \in Senders, StoresInOrder, SendStore(t, "own")
    PROVE  Inv'
<1> DEFINE c == call[t]
           s == c.slot
<1>1. /\ c \in Calls /\ c.at = "store" /\ c.todo = {"own"}
      /\ s \in Slots /\ c.frame \in Frames
      /\ ~desc[s].own /\ desc[s].frame = c.frame
  BY StoreOwnEffect
<1>2. /\ desc' = [desc EXCEPT ![s] = [@ EXCEPT !.own = TRUE]]
      /\ call' = [call EXCEPT ![t].at = "kick", ![t].todo = {}]
      /\ UNCHANGED <<kicked, cursor, fetched, wire>>
  BY StoreOwnEffect
<1>3. /\ desc'[s] = [own |-> TRUE, frame |-> c.frame]
      /\ \A r \in Slots : r # s => desc'[r] = desc[r]
  BY StoreOwnEffect
<1>4. tail' \in 0 .. TailSpan - 1
  BY StoreOwnEffect
<1> USE DEF Inv
<1>5. TypeOK'
  <2>1. call' \in [Senders -> Calls]
    BY <1>1, <1>2 DEF TypeOK, Calls
  <2>2. desc' \in [Slots -> [own : BOOLEAN, frame : Frames \cup {NoFrame}]]
    BY <1>1, <1>2 DEF TypeOK
  <2> QED
    BY <2>1, <2>2, <1>2, <1>4 DEF TypeOK
<1>6. Contiguous'
  <2>1. PICK n \in 0 .. RingSize : Holds(n)
    BY DEF Contiguous
  <2>2. n < RingSize /\ Holds(n + 1)'
    BY <2>1, StoreOwnHolds
  <2> QED
    BY <2>2, RingAssumption DEF Contiguous
<1>7. NoOverwrite'
  <2>1. \A r \in Slots : desc'[r].own => desc'[r].frame # NoFrame
    BY <1>1, <1>3, FrameAssumption DEF NoOverwrite
  <2>2. fetched # NoFrame => desc'[cursor] = desc[cursor]
    BY <1>1, <1>3 DEF NoOverwrite, TypeOK
  <2> QED
    BY <2>1, <2>2, <1>2 DEF NoOverwrite
<1>8. OneWriter'
  <2>1. \A u \in Senders : u # t => call'[u] = Idle
    <3>1. c # Idle
      BY <1>1 DEF Idle
    <3> QED
      BY <3>1, <1>2 DEF OneWriter, TypeOK
  <2>2. call'[t].at = "kick"
    BY <1>1, <1>2 DEF TypeOK, Calls
  <2>3. Idle.at = "idle"
    BY DEF Idle
  <2> HIDE DEF Inv
  <2> QED
    BY <2>1, <2>2, <2>3 DEF OneWriter
<1> QED
  BY <1>5, <1>6, <1>7, <1>8

\* The doorbell.
LEMMA SendKickInv ==
    ASSUME Inv, NEW t \in Senders, SendKick(t)
    PROVE  Inv'
<1> USE DEF Inv
<1>1. Idle \in Calls
  BY RingAssumption DEF Idle, Calls, Slots
<1>2. TypeOK'
  BY <1>1 DEF SendKick, TypeOK
<1>3. Contiguous'
  BY DEF SendKick, Contiguous, Holds, Ahead
<1>4. NoOverwrite'
  BY DEF SendKick, NoOverwrite
<1>5. OneWriter'
  <2>1. call' = [call EXCEPT ![t] = Idle] /\ UNCHANGED <<desc, tail>>
    BY DEF SendKick
  <2>2. \A u \in Senders : call'[u] = IF u = t THEN Idle ELSE call[u]
    BY <2>1 DEF TypeOK
  <2> HIDE DEF Inv
  <2>3. OneWriter
    BY DEF Inv
  <2>4. Idle.at = "idle"
    BY DEF Idle
  <2> QED
    BY <2>1, <2>2, <2>3, <2>4 DEF OneWriter
<1> QED
  BY <1>2, <1>3, <1>4, <1>5

\* The controller reads the descriptor under its cursor.
LEMMA EngineFetchInv == Inv /\ EngineFetch => Inv'
<1> SUFFICES ASSUME Inv, EngineFetch PROVE Inv'
  OBVIOUS
<1> USE DEF Inv
<1>1. TypeOK'
  BY DEF EngineFetch, TypeOK
<1>2. Contiguous'
  BY DEF EngineFetch, Contiguous, Holds, Ahead
<1>3. NoOverwrite'
  BY DEF EngineFetch, NoOverwrite, TypeOK
<1>4. OneWriter'
  BY DEF EngineFetch, OneWriter
<1> QED
  BY <1>1, <1>2, <1>3, <1>4

\* What the completion of a frame does to the descriptor under the cursor.
LEMMA CompleteEffect ==
    ASSUME Inv, EngineComplete
    PROVE  /\ desc[cursor] = [own |-> TRUE, frame |-> fetched]
           /\ cursor \in Slots /\ cursor' \in Slots
           /\ desc' = [desc EXCEPT ![cursor].own = FALSE]
           /\ ~desc'[cursor].own
           /\ \A r \in Slots : r # cursor => desc'[r] = desc[r]
           /\ cursor' = (cursor + 1) % RingSize
           /\ fetched' = NoFrame /\ wire' = fetched
           /\ UNCHANGED <<tail, call, kicked>>
<1> USE DEF Inv
<1>1. /\ desc[cursor] = [own |-> TRUE, frame |-> fetched] /\ cursor \in Slots
      /\ desc' = [desc EXCEPT ![cursor].own = FALSE]
      /\ cursor' = (cursor + 1) % RingSize
      /\ fetched' = NoFrame /\ wire' = fetched
      /\ UNCHANGED <<tail, call, kicked>>
  BY DEF EngineComplete, NoOverwrite, TypeOK, NextSlot
<1>2. /\ ~desc'[cursor].own
      /\ \A r \in Slots : r # cursor => desc'[r] = desc[r]
  BY <1>1 DEF TypeOK
<1>3. cursor' \in Slots
  <2>1. 1 \in 0 .. RingSize
    BY RingAssumption
  <2> QED
    BY <2>1, <1>1, AheadSlot
<1> QED
  BY <1>1, <1>2, <1>3

\* The controller's run of descriptors loses its first element.
LEMMA CompleteHolds ==
    ASSUME Inv, EngineComplete, NEW n \in 0 .. RingSize, Holds(n)
    PROVE  /\ n > 0
           /\ Holds(n - 1)'
           /\ Ahead(0).frame = fetched
           /\ \A i \in Slots : i + 1 < RingSize => Ahead(i)' = Ahead(i + 1)
<1> USE DEF Inv
<1>1. /\ desc[cursor] = [own |-> TRUE, frame |-> fetched]
      /\ cursor \in Slots /\ cursor' \in Slots
      /\ ~desc'[cursor].own
      /\ \A r \in Slots : r # cursor => desc'[r] = desc[r]
      /\ cursor' = (cursor + 1) % RingSize
      /\ UNCHANGED tail
  BY CompleteEffect
<1>2. 0 \in Slots /\ Ahead(0) = desc[cursor]
  <2>1. (cursor + 0) % RingSize = cursor
    BY <1>1, SlotRound, RingAssumption DEF Slots
  <2>2. 0 \in Slots
    BY RingAssumption DEF Slots
  <2> QED
    BY <2>1, <2>2 DEF Ahead
<1>3. n > 0
  BY <1>1, <1>2 DEF Holds
<1>4. \A i \in Slots : (cursor' + i) % RingSize = (cursor + (i + 1)) % RingSize
  <2> SUFFICES ASSUME NEW i \in Slots
               PROVE  (cursor' + i) % RingSize = (cursor + (i + 1)) % RingSize
    OBVIOUS
  <2>1. i \in 0 .. RingSize /\ i + 1 \in 0 .. RingSize /\ 1 \in 0 .. RingSize
    BY RingAssumption DEF Slots
  <2>2. (cursor' + i) % RingSize = IF cursor' + i < RingSize
                                   THEN cursor' + i
                                   ELSE cursor' + i - RingSize
    BY <1>1, <2>1, AheadSlot
  <2>3. (cursor + 1) % RingSize = IF cursor + 1 < RingSize
                                  THEN cursor + 1
                                  ELSE cursor + 1 - RingSize
    BY <1>1, <2>1, AheadSlot
  <2>4. (cursor + (i + 1)) % RingSize = IF cursor + (i + 1) < RingSize
                                        THEN cursor + (i + 1)
                                        ELSE cursor + (i + 1) - RingSize
    BY <1>1, <2>1, AheadSlot
  <2> QED
    BY <2>1, <2>2, <2>3, <2>4, <1>1, RingAssumption DEF Slots
<1>5. \A i \in Slots : i + 1 < RingSize => Ahead(i)' = Ahead(i + 1)
  <2> SUFFICES ASSUME NEW i \in Slots, i + 1 < RingSize
               PROVE  Ahead(i)' = Ahead(i + 1)
    OBVIOUS
  <2>1. i + 1 \in Slots /\ 0 \in Slots /\ i + 1 # 0
    BY RingAssumption DEF Slots
  <2>2. /\ (cursor + (i + 1)) % RingSize # (cursor + 0) % RingSize
        /\ (cursor + 0) % RingSize = cursor
    BY <2>1, <1>1, SlotInjective, SlotRound, RingAssumption DEF Slots
  <2>3. (cursor + (i + 1)) % RingSize \in Slots
    <3>1. i + 1 \in 0 .. RingSize
      BY <2>1, RingAssumption DEF Slots
    <3> QED
      BY <3>1, <1>1, AheadSlot
  <2> QED
    BY <2>2, <2>3, <1>1, <1>4 DEF Ahead
<1>6. ASSUME NEW i \in Slots PROVE Ahead(i)'.own <=> i < n - 1
  <2>1. CASE i + 1 = RingSize
    <3>1. (cursor' + i) % RingSize = cursor
      BY <2>1, <1>1, <1>4, SlotRound, RingAssumption DEF Slots
    <3> QED
      BY <3>1, <2>1, <1>1, RingAssumption DEF Ahead, Slots
  <2>2. CASE i + 1 < RingSize
    <3>1. i + 1 \in Slots /\ Ahead(i)' = Ahead(i + 1)
      BY <2>2, <1>5, RingAssumption DEF Slots
    <3>2. Ahead(i + 1).own <=> i + 1 < n
      BY <3>1 DEF Holds
    <3> QED
      BY <3>1, <3>2, RingAssumption DEF Slots
  <2> QED
    BY <2>1, <2>2, RingAssumption DEF Slots
<1>7. tail' % RingSize = (cursor' + (n - 1)) % RingSize
  <2>1. n - 1 \in Slots
    BY <1>3, RingAssumption DEF Slots
  <2>2. (cursor' + (n - 1)) % RingSize = (cursor + n) % RingSize
    BY <2>1, <1>4
  <2> QED
    BY <2>2, <1>1 DEF Holds
<1> QED
  BY <1>1, <1>2, <1>3, <1>5, <1>6, <1>7 DEF Holds

\* The controller is done with a frame.
LEMMA EngineCompleteInv == Inv /\ EngineComplete => Inv'
<1> SUFFICES ASSUME Inv, EngineComplete PROVE Inv'
  OBVIOUS
<1>1. /\ cursor \in Slots /\ cursor' \in Slots /\ desc[cursor].own
      /\ desc' = [desc EXCEPT ![cursor].own = FALSE]
      /\ ~desc'[cursor].own
      /\ \A r \in Slots : r # cursor => desc'[r] = desc[r]
      /\ fetched' = NoFrame /\ wire' = fetched
      /\ UNCHANGED <<tail, call, kicked>>
  BY CompleteEffect
<1> USE DEF Inv
<1>2. TypeOK'
  BY <1>1 DEF TypeOK
<1>3. Contiguous'
  <2>1. PICK n \in 0 .. RingSize : Holds(n)
    BY DEF Contiguous
  <2>2. n > 0 /\ Holds(n - 1)'
    BY <2>1, CompleteHolds
  <2> QED
    BY <2>1, <2>2, RingAssumption DEF Contiguous
<1>4. NoOverwrite'
  BY <1>1 DEF NoOverwrite, TypeOK
<1>5. OneWriter'
  <2>1. \A t \in Senders : call[t].at = "store" => call[t].slot # cursor
    BY <1>1 DEF OneWriter
  <2>2. \A t \in Senders : call[t].slot \in Slots
    BY DEF TypeOK, Calls
  <2> QED
    BY <2>1, <2>2, <1>1 DEF OneWriter
<1> QED
  BY <1>2, <1>3, <1>4, <1>5

\* The controller finds nothing to send.
LEMMA EnginePauseInv == Inv /\ EnginePause => Inv'
<1> SUFFICES ASSUME Inv, EnginePause PROVE Inv'
  OBVIOUS
<1> QED
  BY DEF Inv, EnginePause, TypeOK, Contiguous, Holds, Ahead, NoOverwrite,
         OneWriter

\* Every step keeps the invariant.
LEMMA NextInv ==
    ASSUME Serialized, StoresInOrder, Inv, [Next]_vars
    PROVE  Inv'
<1>1. CASE UNCHANGED vars
  BY <1>1 DEF vars, Inv, TypeOK, Contiguous, Holds, Ahead, NoOverwrite,
              OneWriter
<1>2. ASSUME NEW t \in Senders, NEW f \in Frames, SendEnter(t, f)
      PROVE  Inv'
  BY <1>2, SendEnterInv
<1>3. ASSUME NEW t \in Senders, SendStep(t) PROVE Inv'
  BY <1>3, StoreFrameInv, StoreOwnInv, SendKickInv DEF SendStep, Stores
<1>4. CASE Engine
  BY <1>4, EngineFetchInv, EngineCompleteInv, EnginePauseInv DEF Engine
<1> QED
  BY <1>1, <1>2, <1>3, <1>4 DEF Next

\* With serialised callers and ordered stores the ring never loses its
\* order: the controller's descriptors are one run that ends at tx_tail, and
\* none is rewritten while the controller reads it.
THEOREM TxSafe ==
    ASSUME Serialized, StoresInOrder
    PROVE  Spec => [](TypeOK /\ Contiguous /\ NoOverwrite /\ OneWriter)
<1>1. Init => Inv
  BY InitInv
<1>2. Inv /\ [Next]_vars => Inv'
  BY NextInv
<1> QED
  BY <1>1, <1>2, PTL DEF Spec, Inv

\* The types, for every ring size: tx_tail keeps to 16 bits and every call
\* names a slot of the ring.
THEOREM TxTypeCorrect ==
    ASSUME Serialized, StoresInOrder
    PROVE  Spec => []TypeOK
BY TxSafe, PTL

\* No descriptor is stranded behind a gap where the controller would never
\* reach it, for every ring size and also when tx_tail wraps.
THEOREM TxContiguous ==
    ASSUME Serialized, StoresInOrder
    PROVE  Spec => []Contiguous
BY TxSafe, PTL

-------------------------------------------------------------------------------
(* The transmit side implements the frame queue. *)

\* The number of frames in flight is determined by the ring.
LEMMA InFlightIs ==
    ASSUME NEW n \in 0 .. RingSize, Holds(n)
    PROVE  InFlight = n
<1>1. ASSUME NEW m \in 0 .. RingSize, Holds(m), NEW k \in 0 .. RingSize,
             Holds(k), m < k
      PROVE  FALSE
  <2>1. m \in Slots
    BY <1>1, RingAssumption DEF Slots
  <2>2. Ahead(m).own /\ ~Ahead(m).own
    BY <2>1, <1>1, RingAssumption DEF Holds
  <2> QED
    BY <2>2
<1>2. \A m \in 0 .. RingSize : Holds(m) => m = n
  <2> SUFFICES ASSUME NEW m \in 0 .. RingSize, Holds(m), m # n PROVE FALSE
    OBVIOUS
  <2>1. m < n \/ n < m
    BY RingAssumption
  <2> QED
    BY <2>1, <1>1
<1>3. InFlight \in 0 .. RingSize /\ Holds(InFlight)
  BY DEF InFlight
<1> QED
  BY <1>2, <1>3

\* The queue the ring stands for, without the CHOOSE.
RingIsQueue ==
    \A n \in 0 .. RingSize :
        Holds(n) => /\ Queue = [i \in 1 .. n |-> Ahead(i - 1).frame]
                    /\ Queue \in Seq(Frames)
                    /\ Len(Queue) = n

LEMMA QueueIs == Inv => RingIsQueue
<1> SUFFICES ASSUME Inv, NEW n \in 0 .. RingSize, Holds(n)
             PROVE  /\ Queue = [i \in 1 .. n |-> Ahead(i - 1).frame]
                    /\ Queue \in Seq(Frames)
                    /\ Len(Queue) = n
  BY DEF RingIsQueue
<1>1. Queue = [i \in 1 .. n |-> Ahead(i - 1).frame]
  BY InFlightIs DEF Queue
<1>2. ASSUME NEW i \in 1 .. n PROVE Ahead(i - 1).frame \in Frames
  <2>1. i - 1 \in Slots /\ i - 1 < n
    BY RingAssumption DEF Slots
  <2>2. Ahead(i - 1).own
    BY <2>1 DEF Holds
  <2>3. (cursor + (i - 1)) % RingSize \in Slots
    BY <2>1, AheadSlot, RingAssumption DEF Inv, TypeOK, Slots
  <2> QED
    BY <2>2, <2>3 DEF Ahead, Inv, TypeOK, NoOverwrite
<1>3. n \in Nat
  BY RingAssumption
<1> QED
  BY <1>1, <1>2, <1>3

\* The same in the next state.
LEMMA QueueIsNext == Inv' => RingIsQueue'
BY QueueIs, PTL

\* A step that leaves the ring and its cursor alone leaves the queue alone.
LEMMA QueueStable ==
    ASSUME UNCHANGED <<desc, tail, cursor>>
    PROVE  Queue' = Queue
BY DEF Queue, InFlight, Holds, Ahead

\* Filling in a descriptor the controller does not own is invisible.
LEMMA StoreFrameQueue ==
    ASSUME Inv, Inv', NEW t \in Senders, StoresInOrder, SendStore(t, "frame")
    PROVE  Queue' = Queue /\ wire' = wire
<1> DEFINE s == call[t].slot
<1>1. PICK n \in 0 .. RingSize : Holds(n)
  BY DEF Inv, Contiguous
<1>2. /\ s \in Slots /\ ~desc[s].own
      /\ desc' = [desc EXCEPT ![s] = [@ EXCEPT !.frame = call[t].frame]]
      /\ UNCHANGED <<tail, cursor, wire>>
  BY DEF SendStore, OneWriter, Inv, TypeOK, Calls
<1>3. ASSUME NEW i \in Slots
      PROVE  /\ Ahead(i)'.own = Ahead(i).own
             /\ Ahead(i).own => Ahead(i)' = Ahead(i)
  <2>1. (cursor + i) % RingSize \in Slots
    BY AheadSlot, RingAssumption DEF Inv, TypeOK, Slots
  <2> QED
    BY <2>1, <1>2 DEF Ahead, Inv, TypeOK
<1>4. Holds(n)'
  BY <1>1, <1>2, <1>3 DEF Holds
<1>5. \A i \in 1 .. n : Ahead(i - 1)'.frame = Ahead(i - 1).frame
  <2> SUFFICES ASSUME NEW i \in 1 .. n
               PROVE  Ahead(i - 1)'.frame = Ahead(i - 1).frame
    OBVIOUS
  <2>1. i - 1 \in Slots /\ i - 1 < n
    BY RingAssumption DEF Slots
  <2> QED
    BY <2>1, <1>1, <1>3 DEF Holds
<1>6. /\ Queue = [i \in 1 .. n |-> Ahead(i - 1).frame]
      /\ Queue' = [i \in 1 .. n |-> Ahead(i - 1)'.frame]
  BY <1>1, <1>4, QueueIs, QueueIsNext DEF RingIsQueue
<1> QED
  BY <1>2, <1>5, <1>6

\* The store of OWN puts the frame at the end of the queue, which has room.
LEMMA StoreOwnQueue ==
    ASSUME Inv, Inv', NEW t \in Senders, StoresInOrder, SendStore(t, "own")
    PROVE  \E f \in Frames : Pipe!Put(f)
<1> DEFINE f == call[t].frame
<1>1. PICK n \in 0 .. RingSize : Holds(n)
  BY DEF Inv, Contiguous
<1>2. f \in Frames /\ wire' = wire
  BY StoreOwnEffect
<1>3. /\ n < RingSize
      /\ Holds(n + 1)'
      /\ \A i \in Slots : i # n => Ahead(i)' = Ahead(i)
      /\ Ahead(n)' = [own |-> TRUE, frame |-> f]
  BY <1>1, StoreOwnHolds
<1> HIDE DEF f
<1>4. n + 1 \in 0 .. RingSize /\ n \in Nat
  BY <1>3, RingAssumption
<1>5. /\ Queue = [i \in 1 .. n |-> Ahead(i - 1).frame]
      /\ Queue \in Seq(Frames) /\ Len(Queue) = n
  BY <1>1, QueueIs DEF RingIsQueue
<1>6. Queue' = [i \in 1 .. n + 1 |-> Ahead(i - 1)'.frame]
  BY <1>3, <1>4, QueueIsNext DEF RingIsQueue
<1>7. Queue' = Append(Queue, f)
  <2>1. ASSUME NEW i \in 1 .. n
        PROVE  Ahead(i - 1)'.frame = Queue[i]
    <3>1. i - 1 \in Slots /\ i - 1 # n
      BY <1>3, RingAssumption DEF Slots
    <3> QED
      BY <3>1, <1>3, <1>5
  <2>2. Ahead((n + 1) - 1)'.frame = f
    <3>1. (n + 1) - 1 = n
      BY <1>4
    <3> QED
      BY <3>1, <1>3
  <2>3. Append(Queue, f) = [i \in 1 .. n + 1 |-> IF i = n + 1 THEN f ELSE Queue[i]]
    BY <1>2, <1>4, <1>5
  <2> QED
    BY <2>1, <2>2, <2>3, <1>4, <1>6
<1> QED
  BY <1>2, <1>3, <1>5, <1>7 DEF Pipe!Put

\* The completion of a frame takes the oldest one out of the queue.
LEMMA CompleteQueue ==
    ASSUME Inv, Inv', EngineComplete
    PROVE  Pipe!Take
<1>1. PICK n \in 0 .. RingSize : Holds(n)
  BY DEF Inv, Contiguous
<1>2. /\ n > 0
      /\ Holds(n - 1)'
      /\ Ahead(0).frame = fetched
      /\ \A i \in Slots : i + 1 < RingSize => Ahead(i)' = Ahead(i + 1)
      /\ wire' = fetched
  BY <1>1, CompleteHolds, CompleteEffect
<1>3. n - 1 \in 0 .. RingSize /\ n \in Nat
  BY <1>2, RingAssumption
<1>4. /\ Queue = [i \in 1 .. n |-> Ahead(i - 1).frame]
      /\ Queue \in Seq(Frames) /\ Len(Queue) = n
  BY <1>1, QueueIs DEF RingIsQueue
<1>5. Queue' = [i \in 1 .. n - 1 |-> Ahead(i - 1)'.frame]
  BY <1>2, <1>3, QueueIsNext DEF RingIsQueue
<1>6. Head(Queue) = fetched
  BY <1>2, <1>3, <1>4
<1>7. Queue' = Tail(Queue)
  <2>1. ASSUME NEW i \in 1 .. n - 1
        PROVE  Ahead(i - 1)'.frame = Queue[i + 1]
    <3>1. /\ i - 1 \in Slots /\ (i - 1) + 1 < RingSize
          /\ i + 1 \in 1 .. n /\ (i - 1) + 1 = (i + 1) - 1
      BY RingAssumption DEF Slots
    <3> QED
      BY <3>1, <1>2, <1>4
  <2>2. Tail(Queue) = [i \in 1 .. n - 1 |-> Queue[i + 1]]
    BY <1>2, <1>3, <1>4
  <2> QED
    BY <2>1, <2>2, <1>5
<1>8. Queue # <<>>
  <2>1. Len(<<>>) = 0
    OBVIOUS
  <2>2. Len(Queue) # 0
    BY <1>2, <1>3, <1>4
  <2> QED
    BY <2>1, <2>2
<1> QED
  BY <1>2, <1>6, <1>7, <1>8 DEF Pipe!Take

\* Every step of the transmit side is a step of the queue or leaves it alone.
LEMMA StepRefines ==
    ASSUME Serialized, StoresInOrder, Inv, Inv', [Next]_vars
    PROVE  [Pipe!Next]_(Pipe!vars)
<1>1. CASE UNCHANGED vars
  BY <1>1, QueueStable DEF vars, Pipe!vars
<1>2. ASSUME NEW t \in Senders, NEW f \in Frames, SendEnter(t, f)
      PROVE  UNCHANGED Pipe!vars
  BY <1>2, QueueStable DEF SendEnter, Pipe!vars
<1>3. ASSUME NEW t \in Senders, SendStep(t)
      PROVE  [Pipe!Next]_(Pipe!vars)
  <2>1. CASE SendStore(t, "frame")
    BY <2>1, StoreFrameQueue DEF Pipe!vars
  <2>2. CASE SendStore(t, "own")
    BY <2>2, StoreOwnQueue DEF Pipe!Next
  <2>3. CASE SendKick(t)
    BY <2>3, QueueStable DEF SendKick, Pipe!vars
  <2> QED
    BY <1>3, <2>1, <2>2, <2>3 DEF SendStep, Stores
<1>4. CASE Engine
  <2>1. CASE EngineFetch
    BY <2>1, QueueStable DEF EngineFetch, Pipe!vars
  <2>2. CASE EngineComplete
    BY <2>2, CompleteQueue DEF Pipe!Next
  <2>3. CASE EnginePause
    BY <2>3, QueueStable DEF EnginePause, Pipe!vars
  <2> QED
    BY <1>4, <2>1, <2>2, <2>3 DEF Engine
<1> QED
  BY <1>1, <1>2, <1>3, <1>4 DEF Next

\* An empty ring is an empty queue.
LEMMA InitRefines == Init => Pipe!Init
<1> SUFFICES ASSUME Init PROVE Pipe!Init
  OBVIOUS
<1>1. Inv
  BY InitInv
<1>2. Holds(0) /\ 0 \in 0 .. RingSize
  <2>1. PICK n \in 0 .. RingSize : Holds(n)
    BY <1>1 DEF Inv, Contiguous
  <2>2. 0 \in Slots /\ (cursor + 0) % RingSize = 0
    BY SlotRound, RingAssumption DEF Init, Slots
  <2>3. ~Ahead(0).own
    BY <2>2 DEF Ahead, Init
  <2>4. n = 0
    BY <2>1, <2>2, <2>3, RingAssumption DEF Holds
  <2> QED
    BY <2>1, <2>4
<1>3. Queue = [i \in 1 .. 0 |-> Ahead(i - 1).frame]
  BY <1>1, <1>2, QueueIs DEF RingIsQueue
<1>4. Queue = <<>>
  BY <1>3
<1> QED
  BY <1>4 DEF Pipe!Init, Init

\* With serialised callers and ordered stores, for every ring size: what send
\* accepted goes onto the wire once, unchanged and in order, and send refuses
\* a frame only when the whole ring is in flight.
THEOREM TxImplementsPipe ==
    ASSUME Serialized, StoresInOrder
    PROVE  Spec => ImplementsPipe
<1>1. Init => Pipe!Init
  BY InitRefines
<1>2. Inv /\ Inv' /\ [Next]_vars => [Pipe!Next]_(Pipe!vars)
  BY StepRefines
<1>3. Spec => []Inv
  BY TxSafe DEF Inv
<1> QED
  BY <1>1, <1>2, <1>3, PTL DEF Spec, ImplementsPipe, Pipe!Spec
===============================================================================
