------------------------- MODULE DescriptorRingsProofs -------------------------
(***************************************************************************)
(* The send and receive rings of e1000, e1000e and vmxnet3, for every ring *)
(* size, every wrap of the 16-bit position and every number of frames.     *)
(***************************************************************************)
EXTENDS DescriptorRings, RingArithmetic

LegacySending == Legacy /\ way = "send"

LegacyReceiving == Legacy /\ way = "recv"

\* Each ring has its stages, and a call works on the descriptor at the front.
Stages ==
    /\ way = "send" => call.at \in {"idle", "fill", "kick"}
    /\ way = "recv" => call.at \in {"idle", "copy", "clear", "tail", "head"}
    /\ ~Legacy => call.at \notin {"kick", "tail", "head"}
    /\ card = "e1000e" => call.at # "head"
    /\ call.at = "fill" => next <= MaxFrames
    /\ call.at \in {"fill", "copy", "clear"} => call.slot = Front
    /\ LegacyReceiving /\ call.at = "copy" => desc[Front].bit = 1
    /\ LegacyReceiving /\ call.at \in {"clear", "tail", "head"} => last > 0

\* vmxnet3: the generations behind the front and those from it on differ.
Generations ==
    ~Legacy =>
        \A s \in Slots : (desc[s].bit = gen) = ((way = "recv") = (s >= Front))

\* A legacy send ring up to the frame that fills its last descriptor.
SendLap ==
    LegacySending /\ next <= RingSize + 1 =>
        /\ Front = (next - 1) % RingSize
        /\ \A s \in Slots : s < next - 1 => desc[s].frame = s + 1
        /\ next <= RingSize =>
              /\ tail = next - 1
              /\ limit = next - 1 - (IF call.at = "kick" THEN 1 ELSE 0)
              /\ head <= limit /\ last = head
              /\ \A s \in Slots : desc[s].bit = 1 <=> s < head
        /\ next = RingSize + 1 =>
              /\ limit \in {0, RingSize - 1, RingSize}
              /\ call.at = "kick" => limit = RingSize - 1
              /\ limit < RingSize =>
                    last = head \/ (limit = 0 /\ head = 0 /\ last = RingSize)

-------------------------------------------------------------------------------
(* The legacy receive rings. *)

\* The frame at the front has been copied and is still marked as received.
Copied == IF call.at = "clear" THEN 1 ELSE 0

\* The slot i places after those that recv() has copied.
Ahead(i) == (Front + Copied + i) % RingSize

\* Frames received and not copied, as long as the order holds.
Waiting == next - 1 - last

\* They fill the slots up to the head, and the limit is ahead of them.
Window ==
    /\ Waiting \in 0 .. RingSize - Copied
    /\ head = Ahead(Waiting)
    /\ \E x \in Waiting .. RingSize - Copied : limit = Ahead(x)
    /\ \A i \in 0 .. Waiting - 1 :
          desc[Ahead(i)].bit = 1 /\ desc[Ahead(i)].frame = last + 1 + i
    /\ \A i \in Waiting .. RingSize - Copied - 1 : desc[Ahead(i)].bit = 0

\* e1000_recv has set the head register back to 0 at least once.
Reset == last >= 2 \/ (last = 1 /\ call.at \in {"idle", "copy"})

\* From then on the device refills the slots that recv() has emptied, and the
\* frames up to some h are all that is left ahead.
Refill ==
    /\ \E h \in last .. RingSize :
          /\ next > h
          /\ \A s \in Slots : s >= last =>
                (desc[s].bit = 1 <=> s < h) /\ (s < h => desc[s].frame = s + 1)
          /\ \A s \in Slots : s < tail /\ desc[s].bit = 1 => desc[s].frame > h
    /\ head <= limit
    /\ limit = IF call.at = "tail" THEN tail - 1 ELSE tail

InWindow ==
    \/ card = "e1000e" /\ (reading # "raw" \/ last < RingSize)
    \/ card = "e1000" /\ last < RingSize /\ ~Reset

RecvLap ==
    LegacyReceiving =>
        /\ last < RingSize => tail = last - Copied
        /\ InWindow => Window
        /\ card = "e1000" /\ last < RingSize /\ Reset => Refill
        /\ last >= RingSize =>
              /\ next > RingSize
              /\ \A s \in Slots : desc[s].bit = 1 => desc[s].frame >= RingSize

\* Once a recv() is over the device may go as far as the front, no further.
LimitAtFront ==
    /\ LegacyReceiving /\ last > 0 /\ call.at \in {"idle", "copy", "head"}
    /\ reading = "reduce" \/ last < RingSize
    => limit = Front

IInv == TypeOK /\ Stages /\ Generations /\ SendLap /\ RecvLap /\ LimitAtFront

-------------------------------------------------------------------------------
(* Facts the steps share. *)

LEMMA Numbers ==
    ASSUME TypeOK
    PROVE  /\ RingSize \in Nat \ {0, 1} /\ TailSpan \in Nat \ {0}
           /\ TailSpan % RingSize = 0 /\ RingSize <= TailSpan /\ MaxFrames \in Nat
           /\ tail \in Nat /\ tail \in 0 .. TailSpan - 1
           /\ head \in Nat /\ head \in Slots /\ head < RingSize
           /\ limit \in Nat /\ limit <= RingSize
           /\ next \in Nat /\ next \in 1 .. MaxFrames + 1 /\ last \in Nat
           /\ Front \in Nat /\ Front \in Slots /\ Front < RingSize
           /\ \A s \in Slots : s \in Nat /\ s < RingSize
           /\ 0 \in Slots
<1>1. RingSize \in Nat \ {0, 1} /\ TailSpan \in Nat \ {0} /\ MaxFrames \in Nat
  BY RingAssumption, SpanAssumption, BoundAssumption
<1>2. RingSize <= TailSpan
  <2>1. TailSpan < RingSize => TailSpan % RingSize = TailSpan
    BY <1>1
  <2> QED
    BY <1>1, <2>1, SpanAssumption
<1>3. tail \in Nat /\ tail \in 0 .. TailSpan - 1
  BY <1>1 DEF TypeOK
<1>4. Front \in 0 .. RingSize - 1
  BY <1>1, <1>3, QuotientRemainder DEF Front
<1> QED
  BY <1>1, <1>2, <1>3, <1>4, SpanAssumption DEF TypeOK, Slots

LEMMA NextInRing ==
    ASSUME NEW s \in Slots
    PROVE  /\ (s + 1) % RingSize \in Slots
           /\ (s + 1) % RingSize = IF s + 1 < RingSize THEN s + 1 ELSE 0
<1>1. RingSize \in Nat \ {0} /\ s \in 0 .. RingSize - 1 /\ 1 \in 0 .. RingSize
  BY RingAssumption DEF Slots
<1>2. (s + 1) % RingSize = IF s + 1 < RingSize THEN s + 1 ELSE s + 1 - RingSize
  BY <1>1, SlotAhead
<1> QED
  BY <1>1, <1>2 DEF Slots

\* One step of the 16-bit position is one step of the front, and what it
\* writes is a number below the ring as long as it has not gone round.
LEMMA AdvanceFront ==
    ASSUME TypeOK, Advance
    PROVE  /\ tail' \in 0 .. TailSpan - 1
           /\ Front' = (Front + 1) % RingSize
           /\ Front' = IF Front + 1 < RingSize THEN Front + 1 ELSE 0
           /\ Front' \in Slots
           /\ (tail + 1) % RingSize = Front'
           /\ tail + 1 < RingSize => tail' = tail + 1
<1>1. /\ RingSize \in Nat \ {0} /\ TailSpan \in Nat \ {0} /\ TailSpan % RingSize = 0
      /\ tail \in 0 .. TailSpan - 1 /\ tail \in Nat /\ RingSize <= TailSpan
  BY Numbers
<1>2. /\ (tail + 1) % TailSpan \in 0 .. TailSpan - 1
      /\ ((tail + 1) % TailSpan) % RingSize = ((tail % RingSize) + 1) % RingSize
  BY <1>1, WrappedCounter, Zenon
<1>3. (tail + 1) % RingSize = ((tail % RingSize) + 1) % RingSize
  BY <1>1, SlotSuccessor, Zenon
<1>4. tail' = (tail + 1) % TailSpan
  BY DEF Advance
<1>5. Front' = (Front + 1) % RingSize /\ (tail + 1) % RingSize = Front'
  BY <1>2, <1>3, <1>4 DEF Front
<1>6. tail + 1 < RingSize => tail' = tail + 1
  BY <1>1, <1>4
<1> QED
  BY <1>2, <1>4, <1>5, <1>6, Numbers, NextInRing

\* The slots ahead, without the remainder.
LEMMA AheadValue ==
    ASSUME NEW c \in Slots, NEW i \in 0 .. RingSize
    PROVE  /\ (c + i) % RingSize = IF c + i < RingSize THEN c + i ELSE c + i - RingSize
           /\ (c + i) % RingSize \in Slots
<1>1. RingSize \in Nat \ {0} /\ c \in 0 .. RingSize - 1
  BY RingAssumption DEF Slots
<1>2. (c + i) % RingSize = IF c + i < RingSize THEN c + i ELSE c + i - RingSize
  BY <1>1, SlotAhead
<1> QED
  BY <1>1, <1>2 DEF Slots

\* What each of the cards and ways leaves to prove.
LEMMA OnlySending ==
    ASSUME way = "send", UNCHANGED device
    PROVE  RecvLap' /\ LimitAtFront'
BY DEF device, RecvLap, LimitAtFront, LegacyReceiving

LEMMA OnlyReceiving ==
    ASSUME way = "recv", UNCHANGED device
    PROVE  SendLap'
BY DEF device, SendLap, LegacySending

LEMMA OnlyLegacy ==
    ASSUME Legacy, UNCHANGED device
    PROVE  Generations'
BY DEF device, Generations, Legacy

LEMMA OnlyVmxnet3 ==
    ASSUME ~Legacy, UNCHANGED device
    PROVE  SendLap' /\ RecvLap' /\ LimitAtFront'
BY DEF device, SendLap, RecvLap, LimitAtFront, LegacySending, LegacyReceiving, Legacy

-------------------------------------------------------------------------------

LEMMA InitInv == Init => IInv
<1> SUFFICES ASSUME Init PROVE IInv
  OBVIOUS
<1>1. RingSize \in Nat /\ RingSize > 1 /\ TailSpan \in Nat \ {0} /\ MaxFrames \in Nat
  BY RingAssumption, SpanAssumption, BoundAssumption
<1>2. /\ tail = 0 /\ head = 0 /\ next = 1 /\ last = 0 /\ gen = 1 /\ call = Idle
      /\ call.at = "idle"
      /\ limit = (IF way = "recv" THEN RingSize - 1 ELSE 0)
      /\ \A s \in Slots : /\ desc[s].bit = IF ~Legacy /\ way = "recv" THEN 1 ELSE 0
                          /\ desc[s].frame = 0
  BY DEF Init, Idle
<1>3. Front = 0 /\ 0 \in Slots
  BY <1>1, <1>2 DEF Front, Slots
<1>4. TypeOK
  <2>1. desc \in [Slots -> [bit : 0 .. 1, frame : 0 .. MaxFrames]]
    BY <1>1 DEF Init
  <2>2. call \in [at : {"idle", "fill", "kick", "copy", "clear", "tail", "head"},
                  slot : Slots]
    BY <1>2, <1>3 DEF Idle
  <2>3. tail \in 0 .. TailSpan - 1 /\ gen \in 0 .. 1 /\ head \in Slots
    BY <1>1, <1>2, <1>3
  <2>4. limit \in 0 .. RingSize /\ next \in 1 .. MaxFrames + 1 /\ last \in 0 .. MaxFrames
    BY <1>1, <1>2
  <2> QED
    BY <2>1, <2>2, <2>3, <2>4 DEF Init, TypeOK
<1>5. Stages
  BY <1>2 DEF Init, Stages
<1>6. Generations
  BY <1>1, <1>2, <1>3 DEF Init, Generations, Slots
<1>7. SendLap
  <2> SUFFICES ASSUME LegacySending PROVE SendLap
    BY DEF SendLap
  <2>1. limit = 0 /\ \A s \in Slots : desc[s].bit = 0 /\ ~(s < 0)
    BY <1>1, <1>2 DEF LegacySending, Slots
  <2> QED
    BY <1>1, <1>2, <1>3, <2>1 DEF SendLap
<1>8. RecvLap
  <2> SUFFICES ASSUME LegacyReceiving PROVE RecvLap
    BY DEF RecvLap
  <2>1. Copied = 0 /\ Waiting = 0 /\ limit = RingSize - 1 /\ \A s \in Slots : desc[s].bit = 0
    BY <1>1, <1>2 DEF Copied, Waiting, LegacyReceiving
  <2>2. \A i \in 0 .. RingSize : /\ Ahead(i) = IF i < RingSize THEN i ELSE i - RingSize
                                 /\ Ahead(i) \in Slots
    BY <1>1, <1>3, <2>1, AheadValue DEF Ahead
  <2>3. Window
    <3>1. head = Ahead(Waiting)
      BY <1>1, <1>2, <2>1, <2>2
    <3>2. RingSize - 1 \in 0 .. RingSize /\ limit = Ahead(RingSize - 1)
      BY <1>1, <2>1, <2>2
    <3>3. \A i \in 0 .. RingSize - 1 : desc[Ahead(i)].bit = 0
      BY <1>1, <2>1, <2>2
    <3> QED
      BY <1>1, <2>1, <3>1, <3>2, <3>3 DEF Window
  <2>4. ~Reset
    BY <1>2 DEF Reset
  <2> QED
    BY <1>1, <1>2, <2>1, <2>3, <2>4 DEF RecvLap
<1>9. LimitAtFront
  BY <1>2 DEF LimitAtFront
<1> QED
  BY <1>4, <1>5, <1>6, <1>7, <1>8, <1>9 DEF IInv

\* A call that begins: the front descriptor has passed its test.
LEMMA EnterInv ==
    ASSUME IInv, NEW at \in {"fill", "copy"}, Enter(at),
           way = IF at = "fill" THEN "send" ELSE "recv",
           at = "fill" => next <= MaxFrames,
           Legacy /\ at = "copy" => desc[Front].bit = 1
    PROVE  IInv'
<1>1. /\ call = Idle /\ call' = [at |-> at, slot |-> Front]
      /\ UNCHANGED <<card, way, reading, desc, tail, gen, head, limit, next, last>>
  BY DEF Enter, device
<1>2. call.at = "idle" /\ call'.at = at /\ call'.slot = Front /\ Front \in Slots
  BY <1>1, Numbers DEF Idle, IInv
<1>3. TypeOK'
  BY <1>1, <1>2 DEF IInv, TypeOK
<1>4. Front' = Front /\ (Legacy' <=> Legacy)
  BY <1>1 DEF Front, Legacy
<1>5. Stages'
  BY <1>1, <1>2, <1>4 DEF IInv, Stages, LegacyReceiving, Legacy
<1>6. Generations'
  BY <1>1, <1>4 DEF IInv, Generations
<1>7. SendLap'
  BY <1>1, <1>2, <1>4 DEF IInv, SendLap, LegacySending
<1>8. ASSUME at = "copy" PROVE RecvLap'
  <2>1. /\ Copied' = Copied /\ Waiting' = Waiting /\ (Reset' <=> Reset)
        /\ \A i : Ahead(i)' = Ahead(i)
    BY <1>1, <1>2, <1>4, <1>8 DEF Copied, Waiting, Reset, Ahead
  <2>2. Window => Window'
    BY <1>1, <2>1 DEF Window
  <2>3. Refill => Refill'
    BY <1>1, <1>2 DEF Refill
  <2> QED
    BY <1>1, <1>4, <2>1, <2>2, <2>3 DEF IInv, RecvLap, LegacyReceiving, InWindow
<1>9. LimitAtFront'
  BY <1>1, <1>2, <1>4 DEF IInv, LimitAtFront, LegacyReceiving
<1>10. at = "fill" => RecvLap'
  BY <1>1, OnlySending DEF device
<1> QED
  BY <1>3, <1>5, <1>6, <1>7, <1>8, <1>9, <1>10 DEF IInv

-------------------------------------------------------------------------------
(* vmxnet3. *)

\* A descriptor handed over at the front, after which the front moves on.
LEMMA GenerationStep ==
    ASSUME IInv, ~Legacy, UNCHANGED device, Advance, Turn,
           NEW d \in [bit : 0 .. 1, frame : 0 .. MaxFrames],
           desc' = [desc EXCEPT ![Front] = d],
           (d.bit = gen) = (way = "send")
    PROVE  /\ Generations' /\ gen' \in 0 .. 1
           /\ desc' \in [Slots -> [bit : 0 .. 1, frame : 0 .. MaxFrames]]
<1>1. /\ Front \in Slots /\ Front \in Nat /\ RingSize \in Nat
      /\ \A s \in Slots : s \in Nat /\ s < RingSize
      /\ desc \in [Slots -> [bit : 0 .. 1, frame : 0 .. MaxFrames]]
      /\ gen \in 0 .. 1 /\ way \in {"send", "recv"}
  BY Numbers DEF IInv, TypeOK
<1>2. /\ Front' = IF Front + 1 < RingSize THEN Front + 1 ELSE 0
      /\ (tail + 1) % RingSize = Front'
  BY AdvanceFront DEF IInv
<1>3. gen' = IF Front' = 0 THEN 1 - gen ELSE gen
  BY <1>2 DEF Turn
<1>4. \A s \in Slots : (desc[s].bit = gen) = ((way = "recv") = (s >= Front))
  BY DEF IInv, Generations
<1>5. ASSUME NEW s \in Slots
      PROVE  (desc'[s].bit = gen') = ((way = "recv") = (s >= Front'))
  <2>1. desc'[s] = IF s = Front THEN d ELSE desc[s]
    BY <1>1
  <2>2. desc'[s].bit \in 0 .. 1 /\ gen \in 0 .. 1
    BY <1>1, <2>1
  <2>3. (desc'[s].bit = gen) = ((way = "recv") = (s >= Front /\ s # Front))
    <3>1. CASE s = Front
      BY <1>1, <2>1, <3>1
    <3>2. CASE s # Front
      BY <1>4, <2>1, <3>2
    <3> QED
      BY <3>1, <3>2
  <2>4. CASE Front + 1 < RingSize
    <3>1. Front' = Front + 1 /\ gen' = gen
      BY <1>1, <1>2, <1>3, <2>4
    <3>2. (s >= Front /\ s # Front) <=> s >= Front + 1
      BY <1>1
    <3> QED
      BY <2>3, <3>1, <3>2
  <2>5. CASE ~(Front + 1 < RingSize)
    <3>1. Front' = 0 /\ gen' = 1 - gen
      BY <1>2, <1>3, <2>5
    <3>2. ~(s >= Front /\ s # Front) /\ s >= 0
      BY <1>1, <2>5
    <3>3. (desc'[s].bit = gen') <=> ~(desc'[s].bit = gen)
      BY <2>2, <3>1
    <3> QED
      BY <1>1, <2>3, <3>1, <3>2, <3>3
  <2> QED
    BY <2>4, <2>5
<1> QED
  BY <1>1, <1>3, <1>5 DEF Generations, device

LEMMA Vmxnet3SendInv == IInv /\ Vmxnet3Send => IInv'
<1> SUFFICES ASSUME IInv, Vmxnet3Send PROVE IInv'
  OBVIOUS
<1>1. card = "vmxnet3" /\ way = "send" /\ ~Legacy
  BY DEF Vmxnet3Send, Legacy
<1>2. CASE Vmxnet3SendEnter
  BY <1>1, <1>2, EnterInv DEF Vmxnet3SendEnter
<1>3. CASE Vmxnet3SendFill
  <2> DEFINE d == [bit |-> gen, frame |-> next]
  <2>1. /\ call.at = "fill" /\ call.slot = Front /\ next <= MaxFrames
        /\ desc' = [desc EXCEPT ![Front] = d]
        /\ next' = next + 1 /\ call' = Idle
        /\ Advance /\ Turn
        /\ UNCHANGED <<card, way, reading, head, limit, last>>
    BY <1>3 DEF Vmxnet3SendFill, device, IInv, Stages
  <2>2. d \in [bit : 0 .. 1, frame : 0 .. MaxFrames] /\ d.bit = gen
    BY <2>1, Numbers DEF IInv, TypeOK
  <2> HIDE DEF d
  <2>3. /\ Generations' /\ gen' \in 0 .. 1
        /\ desc' \in [Slots -> [bit : 0 .. 1, frame : 0 .. MaxFrames]]
    BY <1>1, <2>1, <2>2, GenerationStep DEF device
  <2>4. tail' \in 0 .. TailSpan - 1 /\ next' \in 1 .. MaxFrames + 1 /\ 0 \in Slots
    BY <2>1, AdvanceFront, Numbers DEF IInv
  <2>5. TypeOK'
    BY <2>1, <2>3, <2>4 DEF IInv, TypeOK, Idle
  <2>6. Stages'
    BY <1>1, <2>1 DEF Stages, Idle, LegacyReceiving, Legacy
  <2> QED
    BY <1>1, <2>1, <2>3, <2>5, <2>6, OnlyVmxnet3 DEF IInv, device
<1> QED
  BY <1>2, <1>3 DEF Vmxnet3Send

LEMMA Vmxnet3RecvInv == IInv /\ Vmxnet3Recv => IInv'
<1> SUFFICES ASSUME IInv, Vmxnet3Recv PROVE IInv'
  OBVIOUS
<1>1. card = "vmxnet3" /\ way = "recv" /\ ~Legacy
  BY DEF Vmxnet3Recv, Legacy
<1>2. CASE Vmxnet3RecvEnter
  BY <1>1, <1>2, EnterInv DEF Vmxnet3RecvEnter
<1>3. CASE Vmxnet3RecvCopy
  <2>1. /\ call.at = "copy" /\ call.slot = Front /\ Front \in Slots
        /\ last' = desc[call.slot].frame
        /\ call' = [call EXCEPT !.at = "clear"]
        /\ UNCHANGED <<card, way, reading, desc, tail, gen, head, limit, next>>
    BY <1>3, Numbers DEF Vmxnet3RecvCopy, device, IInv, Stages
  <2>2. TypeOK'
    BY <2>1 DEF IInv, TypeOK
  <2>3. call'.at = "clear" /\ call'.slot = call.slot
    BY <2>1 DEF IInv, TypeOK
  <2>4. Stages'
    BY <1>1, <2>1, <2>3 DEF Stages, LegacyReceiving, Legacy, Front
  <2>5. Generations'
    BY <2>1 DEF IInv, Generations, Front, Legacy
  <2> QED
    BY <1>1, <2>1, <2>2, <2>4, <2>5, OnlyVmxnet3 DEF IInv, device
<1>4. CASE Vmxnet3RecvReturn
  <2> DEFINE d == [desc[Front] EXCEPT !.bit = 1 - gen]
  <2>1. /\ call.at = "clear" /\ call.slot = Front /\ Front \in Slots
        /\ desc' = [desc EXCEPT ![Front] = d]
        /\ call' = Idle
        /\ Advance /\ Turn
        /\ UNCHANGED <<card, way, reading, head, limit, next, last>>
    BY <1>4, Numbers DEF Vmxnet3RecvReturn, device, IInv, Stages
  <2>2. d \in [bit : 0 .. 1, frame : 0 .. MaxFrames] /\ d.bit # gen
    <3>1. desc[Front] \in [bit : 0 .. 1, frame : 0 .. MaxFrames] /\ gen \in 0 .. 1
      BY <2>1 DEF IInv, TypeOK
    <3> QED
      BY <3>1
  <2> HIDE DEF d
  <2>3. /\ Generations' /\ gen' \in 0 .. 1
        /\ desc' \in [Slots -> [bit : 0 .. 1, frame : 0 .. MaxFrames]]
    BY <1>1, <2>1, <2>2, GenerationStep DEF device
  <2>4. tail' \in 0 .. TailSpan - 1 /\ 0 \in Slots
    BY <2>1, AdvanceFront, Numbers DEF IInv
  <2>5. TypeOK'
    BY <2>1, <2>3, <2>4 DEF IInv, TypeOK, Idle
  <2>6. Stages'
    BY <1>1, <2>1 DEF Stages, Idle, LegacyReceiving, Legacy
  <2> QED
    BY <1>1, <2>1, <2>3, <2>5, <2>6, OnlyVmxnet3 DEF IInv, device
<1> QED
  BY <1>2, <1>3, <1>4 DEF Vmxnet3Recv

LEMMA Vmxnet3ReceiveInv == IInv /\ Vmxnet3Receive => IInv'
<1> SUFFICES ASSUME IInv, Vmxnet3Receive PROVE IInv'
  OBVIOUS
<1>1. /\ ~Legacy /\ way = "recv" /\ next <= MaxFrames
      /\ desc' = [desc EXCEPT ![head].frame = next]
      /\ next' = next + 1 /\ head' = (head + 1) % RingSize
      /\ UNCHANGED <<card, way, reading, tail, gen, call, limit, last>>
  BY DEF Vmxnet3Receive, device, NextSlot
<1>2. head' \in Slots /\ next \in 0 .. MaxFrames /\ next' \in 1 .. MaxFrames + 1
  BY <1>1, Numbers, NextInRing DEF IInv
<1>3. /\ desc' \in [Slots -> [bit : 0 .. 1, frame : 0 .. MaxFrames]]
      /\ \A s \in Slots : desc'[s].bit = desc[s].bit
  BY <1>1, <1>2 DEF IInv, TypeOK
<1>4. TypeOK'
  BY <1>1, <1>2, <1>3 DEF IInv, TypeOK
<1>5. Stages'
  BY <1>1 DEF IInv, Stages, LegacyReceiving, Legacy, Front
<1>6. Generations'
  BY <1>1, <1>3 DEF IInv, Generations, Front, Legacy
<1> QED
  BY <1>1, <1>4, <1>5, <1>6, OnlyVmxnet3 DEF IInv, device

-------------------------------------------------------------------------------
(* The legacy send rings. *)

\* What the device makes of the position the driver writes.
LEMMA LimitWritten ==
    ASSUME TypeOK, SetLimit(tail)
    PROVE  /\ limit' \in 0 .. RingSize
           /\ tail < RingSize => limit' = tail /\ limit' = Front
           /\ reading = "reduce" => limit' = Front
           /\ limit' = Front \/ (reading = "ignore" /\ limit' = limit)
                             \/ (reading = "raw" /\ limit' = RingSize)
<1>1. /\ RingSize \in Nat /\ tail \in Nat /\ limit \in 0 .. RingSize
      /\ Front \in 0 .. RingSize - 1
  BY Numbers DEF TypeOK, Slots
<1>2. tail < RingSize => Front = tail
  BY <1>1 DEF Front
<1>3. limit' = IF tail < RingSize \/ reading = "reduce" THEN Front
               ELSE IF reading = "ignore" THEN limit ELSE RingSize
  BY DEF SetLimit, Front
<1>4. reading \in {"reduce", "ignore", "raw"}
  BY DEF TypeOK, Readings
<1> QED
  BY <1>1, <1>2, <1>3, <1>4

LEMMA LegacySendFillInv ==
    ASSUME IInv, Legacy, way = "send", LegacySendFill
    PROVE  IInv'
<1> DEFINE d == [bit |-> 0, frame |-> next]
<1>1. /\ call.at = "fill" /\ call.slot = Front /\ next <= MaxFrames
      /\ desc' = [desc EXCEPT ![Front] = d]
      /\ next' = next + 1 /\ call' = [call EXCEPT !.at = "kick"]
      /\ Advance
      /\ UNCHANGED <<card, way, reading, gen, head, limit, last>>
  BY DEF LegacySendFill, device, IInv, Stages
<1>2. d \in [bit : 0 .. 1, frame : 0 .. MaxFrames] /\ d.bit = 0 /\ d.frame = next
  BY <1>1, Numbers DEF IInv
<1> HIDE DEF d
<1>3. /\ Front \in Slots /\ \A s \in Slots : desc'[s] = IF s = Front THEN d ELSE desc[s]
      /\ desc' \in [Slots -> [bit : 0 .. 1, frame : 0 .. MaxFrames]]
      /\ call'.at = "kick" /\ call'.slot = call.slot
  BY <1>1, <1>2, Numbers DEF IInv, TypeOK
<1>4. /\ tail' \in 0 .. TailSpan - 1 /\ next' \in 1 .. MaxFrames + 1
      /\ Front' = (Front + 1) % RingSize
      /\ tail + 1 < RingSize => tail' = tail + 1
  BY <1>1, AdvanceFront, Numbers DEF IInv
<1>5. TypeOK'
  BY <1>1, <1>3, <1>4 DEF IInv, TypeOK
<1>6. Stages'
  BY <1>1, <1>3 DEF IInv, Stages, LegacyReceiving, Legacy
<1>7. SendLap'
  <2> SUFFICES ASSUME next + 1 <= RingSize + 1 PROVE SendLap'
    BY <1>1 DEF SendLap
  <2>1. /\ RingSize \in Nat \ {0, 1} /\ next \in Nat /\ head \in Nat /\ limit \in Nat
        /\ next <= RingSize /\ \A s \in Slots : s \in Nat /\ s < RingSize
        /\ next # 0 /\ Front \in Nat
    BY Numbers DEF IInv
  <2>2. /\ Front = (next - 1) % RingSize /\ tail = next - 1
        /\ \A s \in Slots : s < next - 1 => desc[s].frame = s + 1
        /\ limit = next - 1 /\ head <= limit /\ last = head
        /\ \A s \in Slots : desc[s].bit = 1 <=> s < head
    <3>1. LegacySending /\ next <= RingSize + 1
      BY <2>1 DEF LegacySending
    <3>2. limit = next - 1 - 0
      BY <1>1, <2>1, <3>1 DEF IInv, SendLap
    <3> QED
      BY <2>1, <3>1, <3>2 DEF IInv, SendLap
  <2>3. Front = next - 1 /\ Front' = next % RingSize /\ next' - 1 = next
    <3>1. Front = next - 1
      BY <2>1, <2>2
    <3>2. Front + 1 = next
      BY <2>1, <3>1
    <3> QED
      BY <1>1, <1>4, <2>1, <3>1, <3>2
  <2>4. ASSUME NEW s \in Slots, s < next PROVE desc'[s].frame = s + 1
    <3>1. CASE s = Front
      BY <1>2, <1>3, <2>1, <2>3, <3>1
    <3>2. CASE s # Front
      <4>1. s < next - 1
        BY <2>1, <2>3, <2>4, <3>2
      <4> QED
        BY <1>3, <2>2, <3>2, <4>1
    <3> QED
      BY <3>1, <3>2
  <2>5. ASSUME NEW s \in Slots PROVE desc'[s].bit = 1 <=> s < head
    <3>1. CASE s = Front
      <4>1. ~(s < head)
        BY <2>1, <2>2, <2>3, <3>1
      <4> QED
        BY <1>2, <1>3, <3>1, <4>1
    <3>2. CASE s # Front
      BY <1>3, <2>2, <3>2
    <3> QED
      BY <3>1, <3>2
  <2>6. next' <= RingSize => tail' = next' - 1
    BY <1>1, <1>4, <2>1, <2>2
  <2>7. limit = next' - 1 - 1
    BY <1>1, <2>1, <2>2
  <2>8. next' = RingSize + 1 => limit = RingSize - 1
    BY <2>1, <2>3, <2>2
  <2> QED
    BY <1>1, <1>3, <2>2, <2>3, <2>4, <2>5, <2>6, <2>7, <2>8 DEF SendLap
<1> QED
  BY <1>1, <1>5, <1>6, <1>7, OnlySending, OnlyLegacy DEF IInv, device

LEMMA LegacySendKickInv ==
    ASSUME IInv, Legacy, way = "send", LegacySendKick
    PROVE  IInv'
<1>1. /\ call.at = "kick" /\ SetLimit(tail) /\ call' = Idle
      /\ UNCHANGED <<card, way, reading, desc, tail, gen, head, next, last>>
  BY DEF LegacySendKick, device
<1>2. /\ limit' \in 0 .. RingSize
      /\ tail < RingSize => limit' = tail /\ limit' = Front
      /\ limit' = Front \/ limit' = limit \/ limit' = RingSize
  BY <1>1, LimitWritten DEF IInv
<1>3. call'.at = "idle" /\ 0 \in Slots
  BY <1>1, Numbers DEF Idle, IInv
<1>4. TypeOK'
  BY <1>1, <1>2, <1>3 DEF IInv, TypeOK, Idle
<1>5. Stages'
  BY <1>1, <1>3 DEF IInv, Stages, LegacyReceiving, Legacy
<1>6. SendLap'
  <2> SUFFICES ASSUME next <= RingSize + 1 PROVE SendLap'
    BY <1>1 DEF SendLap
  <2>1. /\ RingSize \in Nat \ {0, 1} /\ next \in Nat /\ head \in Nat /\ limit \in Nat
        /\ next # 0
    BY Numbers DEF IInv
  <2>2. /\ Front = (next - 1) % RingSize
        /\ \A s \in Slots : s < next - 1 => desc[s].frame = s + 1
    BY DEF IInv, SendLap, LegacySending
  <2>3. Front' = Front
    BY <1>1 DEF Front
  <2>4. CASE next <= RingSize
    <3>1. /\ tail = next - 1 /\ limit = next - 1 - 1 /\ head <= limit /\ last = head
          /\ \A s \in Slots : desc[s].bit = 1 <=> s < head
      BY <1>1, <2>4 DEF IInv, SendLap, LegacySending
    <3>2. limit' = next - 1 - 0 /\ head <= limit'
      BY <1>2, <2>1, <2>4, <3>1
    <3>3. next # RingSize + 1
      BY <2>1, <2>4
    <3> QED
      BY <1>1, <1>3, <2>2, <2>3, <3>1, <3>2, <3>3 DEF SendLap
  <2>5. CASE next = RingSize + 1
    <3>1. limit = RingSize - 1 /\ last = head
      BY <1>1, <2>1, <2>5 DEF IInv, SendLap, LegacySending
    <3>2. Front = 0
      BY <2>1, <2>2, <2>5
    <3>3. limit' \in {0, RingSize - 1, RingSize} /\ ~(next <= RingSize)
      BY <1>2, <2>1, <2>5, <3>1, <3>2
    <3> QED
      BY <1>1, <1>3, <2>2, <2>3, <3>1, <3>3 DEF SendLap
  <2> QED
    BY <2>1, <2>4, <2>5
<1> QED
  BY <1>1, <1>4, <1>5, <1>6, OnlySending, OnlyLegacy DEF IInv, device

\* The frame that leaves is the next one, as long as the order holds.
LEMMA TransmitInOrder ==
    ASSUME IInv, LegacyTransmit, next <= RingSize + 1, limit < RingSize
    PROVE  last = head /\ last' = last + 1 /\ head < next - 1
<1>1. Legacy /\ way = "send" /\ head # limit /\ last' = desc[head].frame
  BY DEF LegacyTransmit
<1>2. /\ RingSize \in Nat \ {0, 1} /\ next \in Nat /\ head \in Nat /\ limit \in Nat
      /\ head \in Slots /\ next # 0 /\ head < RingSize
  BY Numbers DEF IInv
<1>3. last = head /\ head < next - 1
  <2>1. CASE next <= RingSize
    <3>1. head <= limit /\ last = head /\ limit <= next - 1
      BY <1>1, <1>2, <2>1 DEF IInv, SendLap, LegacySending
    <3> QED
      BY <1>1, <1>2, <3>1
  <2>2. CASE next = RingSize + 1
    <3>1. last = head \/ (limit = 0 /\ head = 0 /\ last = RingSize)
      BY <1>1, <1>2, <2>2 DEF IInv, SendLap, LegacySending
    <3> QED
      BY <1>1, <1>2, <2>2, <3>1
  <2> QED
    BY <1>2, <2>1, <2>2
<1>4. desc[head].frame = head + 1
  BY <1>1, <1>2, <1>3 DEF IInv, SendLap, LegacySending
<1> QED
  BY <1>1, <1>3, <1>4

LEMMA LegacyTransmitInv == IInv /\ LegacyTransmit => IInv'
<1> SUFFICES ASSUME IInv, LegacyTransmit PROVE IInv'
  OBVIOUS
<1>1. /\ Legacy /\ way = "send" /\ head # limit
      /\ last' = desc[head].frame
      /\ desc' = [desc EXCEPT ![head].bit = 1]
      /\ head' = (head + 1) % RingSize
      /\ UNCHANGED <<card, way, reading, tail, gen, call, limit, next>>
  BY DEF LegacyTransmit, device, NextSlot
<1>2. /\ RingSize \in Nat \ {0, 1} /\ next \in Nat /\ head \in Nat /\ limit \in Nat
      /\ head \in Slots /\ next # 0 /\ head < RingSize
      /\ \A s \in Slots : s \in Nat /\ s < RingSize
  BY Numbers DEF IInv
<1>3. head' \in Slots /\ head' = IF head + 1 < RingSize THEN head + 1 ELSE 0
  BY <1>1, <1>2, NextInRing
<1>4. /\ desc' \in [Slots -> [bit : 0 .. 1, frame : 0 .. MaxFrames]]
      /\ \A s \in Slots : desc'[s].frame = desc[s].frame
      /\ \A s \in Slots : desc'[s].bit = IF s = head THEN 1 ELSE desc[s].bit
      /\ last' \in 0 .. MaxFrames
  BY <1>1, <1>2 DEF IInv, TypeOK
<1>5. TypeOK'
  BY <1>1, <1>3, <1>4 DEF IInv, TypeOK
<1>6. Stages'
  BY <1>1 DEF IInv, Stages, LegacyReceiving, Legacy, Front
<1>7. SendLap'
  <2> SUFFICES ASSUME next <= RingSize + 1 PROVE SendLap'
    BY <1>1 DEF SendLap
  <2>1. /\ Front' = (next - 1) % RingSize
        /\ \A s \in Slots : s < next - 1 => desc'[s].frame = s + 1
    BY <1>1, <1>4 DEF IInv, SendLap, LegacySending, Front
  <2>2. CASE next <= RingSize
    <3>1. /\ tail = next - 1
          /\ limit = next - 1 - (IF call.at = "kick" THEN 1 ELSE 0)
          /\ head <= limit /\ limit < RingSize
          /\ \A s \in Slots : desc[s].bit = 1 <=> s < head
      BY <1>1, <1>2, <2>2 DEF IInv, SendLap, LegacySending
    <3>2. last = head /\ last' = last + 1 /\ head < next - 1
      BY <3>1, TransmitInOrder
    <3>3. head' = head + 1 /\ head' <= limit /\ last' = head'
      BY <1>1, <1>2, <1>3, <2>2, <3>1, <3>2
    <3>4. \A s \in Slots : desc'[s].bit = 1 <=> s < head'
      BY <1>2, <1>4, <3>1, <3>3
    <3>5. next # RingSize + 1
      BY <1>2, <2>2
    <3> QED
      BY <1>1, <2>1, <3>1, <3>3, <3>4, <3>5 DEF SendLap
  <2>3. CASE next = RingSize + 1
    <3>1. /\ limit \in {0, RingSize - 1, RingSize}
          /\ call.at = "kick" => limit = RingSize - 1
      BY <1>1, <1>2, <2>3 DEF IInv, SendLap, LegacySending
    <3>2. ASSUME limit < RingSize
          PROVE  last' = head' \/ (limit = 0 /\ head' = 0 /\ last' = RingSize)
      <4>1. last = head /\ last' = last + 1
        BY <3>2, TransmitInOrder
      <4> QED
        BY <1>1, <1>2, <1>3, <3>1, <3>2, <4>1
    <3>3. ~(next <= RingSize)
      BY <1>2, <2>3
    <3> QED
      BY <1>1, <2>1, <3>1, <3>2, <3>3 DEF SendLap
  <2> QED
    BY <1>2, <2>2, <2>3
<1> QED
  BY <1>1, <1>5, <1>6, <1>7, OnlySending, OnlyLegacy DEF IInv, device

-------------------------------------------------------------------------------
(* The legacy receive rings. *)

\* The slots ahead in a state with the front f, c of them copied.
LEMMA AheadSlots ==
    ASSUME IInv
    PROVE  /\ Copied \in {0, 1} /\ Waiting \in Int
           /\ \A i \in 0 .. RingSize - Copied :
                 /\ Ahead(i) = IF Front + Copied + i < RingSize THEN Front + Copied + i
                               ELSE Front + Copied + i - RingSize
                 /\ Ahead(i) \in Slots
           /\ \A i, j \in 0 .. RingSize - 1 - Copied : Ahead(i) = Ahead(j) => i = j
<1>1. Copied \in {0, 1} /\ Waiting \in Int
  BY Numbers DEF Copied, Waiting, IInv
<1>2. Front \in Slots /\ Front \in Nat /\ Front < RingSize /\ RingSize \in Nat
  BY Numbers DEF IInv
<1>3. ASSUME NEW i \in 0 .. RingSize - Copied
      PROVE  /\ Ahead(i) = IF Front + Copied + i < RingSize THEN Front + Copied + i
                           ELSE Front + Copied + i - RingSize
             /\ Ahead(i) \in Slots
  <2>1. Copied + i \in 0 .. RingSize /\ Front + (Copied + i) = Front + Copied + i
    BY <1>1, <1>2
  <2>2. Ahead(i) = (Front + (Copied + i)) % RingSize
    BY <2>1 DEF Ahead
  <2>3. /\ (Front + (Copied + i)) % RingSize =
              IF Front + (Copied + i) < RingSize THEN Front + (Copied + i)
              ELSE Front + (Copied + i) - RingSize
        /\ (Front + (Copied + i)) % RingSize \in Slots
    BY <1>2, <2>1, AheadValue
  <2>4. i \in Nat
    BY <1>1, <1>2
  <2> HIDE DEF Copied
  <2> QED
    BY <1>1, <1>2, <2>1, <2>2, <2>3, <2>4
<1>4. ASSUME NEW i \in 0 .. RingSize - 1 - Copied, NEW j \in 0 .. RingSize - 1 - Copied,
             Ahead(i) = Ahead(j)
      PROVE  i = j
  <2>1. i \in 0 .. RingSize - Copied /\ j \in 0 .. RingSize - Copied
    BY <1>1, <1>2
  <2> QED
    BY <1>1, <1>2, <1>3, <1>4, <2>1
<1> QED
  BY <1>1, <1>3, <1>4

\* Every slot is the front or ahead of it.
LEMMA AheadCovers ==
    ASSUME IInv, Copied = 0, NEW s \in Slots
    PROVE  \E i \in 0 .. RingSize - 1 : s = Ahead(i)
<1> DEFINE j == IF s >= Front THEN s - Front ELSE s - Front + RingSize
<1>1. /\ Front \in Nat /\ Front < RingSize /\ RingSize \in Nat /\ s \in Nat /\ s < RingSize
  BY Numbers DEF IInv
<1>2. /\ j \in 0 .. RingSize - 1 /\ j \in 0 .. RingSize - Copied
      /\ s = IF Front + Copied + j < RingSize THEN Front + Copied + j
             ELSE Front + Copied + j - RingSize
  BY <1>1
<1> HIDE DEF j
<1>3. s = Ahead(j)
  BY <1>2, AheadSlots
<1> QED
  BY <1>2, <1>3

\* The frame that recv() copies is the next one, as long as the order holds.
LEMMA CopyInOrder ==
    ASSUME IInv, LegacyReceiving, call.at = "copy", InWindow \/ last < RingSize
    PROVE  /\ desc[Front].frame = last + 1
           /\ InWindow => Waiting >= 1
<1>1. /\ RingSize \in Nat \ {0, 1} /\ last \in Nat /\ Front \in Slots /\ Copied = 0
      /\ tail \in Nat /\ desc[Front].bit = 1 /\ card \in {"e1000", "e1000e"}
  BY Numbers DEF IInv, Copied, Stages, LegacyReceiving, Legacy
<1>2. CASE InWindow
  <2>1. Window
    BY <1>2 DEF IInv, RecvLap
  <2>2. Ahead(0) = Front /\ Waiting \in 0 .. RingSize
    <3>1. 0 \in 0 .. RingSize - Copied /\ Front + Copied + 0 = Front /\ Front < RingSize
      BY <1>1, Numbers DEF IInv
    <3> QED
      BY <1>1, <2>1, <3>1, AheadSlots DEF Window
  <2>3. Waiting # 0
    <3>1. SUFFICES ASSUME Waiting = 0 PROVE FALSE
      OBVIOUS
    <3>2. 0 \in Waiting .. RingSize - Copied - 1
      BY <1>1, <3>1
    <3>3. desc[Ahead(0)].bit = 0
      BY <2>1, <3>2 DEF Window
    <3> QED
      BY <1>1, <2>2, <3>3
  <2>4. desc[Ahead(0)].frame = last + 1 + 0
    <3>1. 0 \in 0 .. Waiting - 1
      BY <2>2, <2>3
    <3> QED
      BY <2>1, <3>1 DEF Window
  <2> QED
    BY <1>1, <2>2, <2>3, <2>4
<1>3. CASE ~InWindow /\ last < RingSize
  <2>1. card = "e1000" /\ Reset /\ Refill /\ tail = last
    BY <1>1, <1>3 DEF IInv, RecvLap, InWindow
  <2>2. Front = last /\ last \in Slots
    BY <1>1, <1>3, <2>1 DEF Front
  <2>3. PICK h \in last .. RingSize :
            \A s \in Slots : s >= last =>
                (desc[s].bit = 1 <=> s < h) /\ (s < h => desc[s].frame = s + 1)
    BY <2>1 DEF Refill
  <2> QED
    BY <1>1, <1>3, <2>2, <2>3
<1> QED
  BY <1>2, <1>3

LEMMA LegacyRecvCopyInv ==
    ASSUME IInv, LegacyReceiving, LegacyRecvCopy
    PROVE  IInv'
<1>1. /\ call.at = "copy" /\ call.slot = Front
      /\ last' = desc[Front].frame
      /\ call' = [call EXCEPT !.at = "clear"]
      /\ UNCHANGED <<card, way, reading, desc, tail, gen, head, limit, next>>
  BY DEF LegacyRecvCopy, device, IInv, Stages
<1>2. /\ RingSize \in Nat \ {0, 1} /\ last \in Nat /\ Front \in Slots /\ Copied = 0
      /\ tail \in Nat /\ next \in Nat /\ desc[Front].bit = 1
      /\ card \in {"e1000", "e1000e"} /\ way = "recv" /\ Legacy
      /\ desc[Front] \in [bit : 0 .. 1, frame : 0 .. MaxFrames]
      /\ \A s \in Slots : s \in Nat /\ s < RingSize
  BY <1>1, Numbers DEF IInv, Copied, Stages, LegacyReceiving, Legacy, TypeOK
<1>3. /\ call'.at = "clear" /\ call'.slot = call.slot /\ Front' = Front
      /\ Copied' = 1 /\ (Legacy' <=> Legacy) /\ last' \in 0 .. MaxFrames
  BY <1>1, <1>2 DEF IInv, TypeOK, Copied, Front, Legacy
<1>4. /\ InWindow \/ last < RingSize => last' = last + 1
      /\ last >= RingSize => last' >= RingSize
  BY <1>1, <1>2, CopyInOrder DEF IInv, RecvLap
<1>5. /\ last' \in Nat /\ last' > 0
      /\ last' < RingSize => last < RingSize /\ last' = last + 1
  BY <1>2, <1>3, <1>4, Numbers DEF IInv
<1>6. TypeOK'
  BY <1>1, <1>2, <1>3 DEF IInv, TypeOK
<1>7. Stages'
  BY <1>1, <1>2, <1>3, <1>5 DEF Stages, LegacyReceiving
<1>8. ASSUME InWindow PROVE Window'
  <2>1. Window /\ Waiting >= 1 /\ last' = last + 1
    BY <1>1, <1>4, <1>8, CopyInOrder DEF IInv, RecvLap
  <2>2. Waiting' = Waiting - 1 /\ Waiting \in 1 .. RingSize
    BY <1>1, <1>2, <2>1 DEF Window, Waiting
  <2>3. ASSUME NEW i \in Int PROVE Ahead(i)' = Ahead(i + 1)
    <3>1. Front \in Nat /\ Front + 1 + i = Front + 0 + (i + 1)
      BY Numbers DEF IInv
    <3> QED
      BY <1>2, <1>3, <3>1 DEF Ahead
  <2>4. Waiting' \in 0 .. RingSize - 1 /\ head = Ahead(Waiting)
    BY <1>2, <2>1, <2>2 DEF Window
  <2>5. \E x \in Waiting' .. RingSize - 1 : limit = Ahead(x)'
    <3>1. PICK x \in Waiting .. RingSize - 0 : limit = Ahead(x)
      BY <1>2, <2>1 DEF Window
    <3>2. x - 1 \in Waiting' .. RingSize - 1 /\ x - 1 + 1 = x
      BY <1>2, <2>2
    <3> QED
      BY <2>3, <3>1, <3>2
  <2>6. ASSUME NEW i \in 0 .. Waiting' - 1
        PROVE  desc[Ahead(i)'].bit = 1 /\ desc[Ahead(i)'].frame = last' + 1 + i
    <3>1. i + 1 \in 0 .. Waiting - 1 /\ last + 1 + (i + 1) = last' + 1 + i
      BY <1>2, <2>1, <2>2
    <3> QED
      BY <2>1, <2>3, <3>1 DEF Window
  <2>7. ASSUME NEW i \in Waiting' .. RingSize - 1 - 1 PROVE desc[Ahead(i)'].bit = 0
    <3>1. i + 1 \in Waiting .. RingSize - Copied - 1
      BY <1>2, <2>2
    <3> QED
      BY <2>1, <2>3, <3>1 DEF Window
  <2>8. head = Ahead(Waiting)'
    <3>1. Front \in Nat /\ Front + 1 + Waiting' = Front + 0 + Waiting
      BY <2>2, Numbers DEF IInv
    <3> QED
      BY <1>2, <1>3, <2>4, <3>1 DEF Ahead
  <2> QED
    BY <1>1, <1>3, <2>4, <2>5, <2>6, <2>7, <2>8 DEF Window
<1>9. ASSUME card = "e1000", last < RingSize, Reset PROVE Refill'
  <2>1. Refill /\ tail = last - 0
    BY <1>2, <1>9 DEF IInv, RecvLap
  <2>2. last' = last + 1 /\ Front = last
    BY <1>2, <1>4, <1>9, <2>1 DEF Front
  <2>3. PICK h \in last .. RingSize :
          /\ next > h
          /\ \A s \in Slots : s >= last =>
                (desc[s].bit = 1 <=> s < h) /\ (s < h => desc[s].frame = s + 1)
          /\ \A s \in Slots : s < tail /\ desc[s].bit = 1 => desc[s].frame > h
    BY <2>1 DEF Refill
  <2>4. h \in last' .. RingSize
    BY <1>2, <2>2, <2>3
  <2>5. \A s \in Slots : s >= last' => s >= last
    BY <1>2, <2>2
  <2>6. head <= limit /\ limit = tail
    BY <1>1, <2>1 DEF Refill
  <2> QED
    BY <1>1, <1>3, <2>3, <2>4, <2>5, <2>6 DEF Refill
<1>10. ASSUME last' >= RingSize
       PROVE  /\ next > RingSize
              /\ \A s \in Slots : desc[s].bit = 1 => desc[s].frame >= RingSize
  <2>1. CASE last >= RingSize
    BY <2>1 DEF IInv, RecvLap
  <2>2. CASE last < RingSize /\ InWindow
    <3>1. Window /\ Waiting >= 1 /\ last + 1 = RingSize
      BY <1>1, <1>2, <1>4, <1>5, <1>10, <2>2, CopyInOrder DEF IInv, RecvLap
    <3>2. next > RingSize /\ Waiting \in Nat
      BY <1>2, <3>1 DEF Waiting
    <3>3. ASSUME NEW s \in Slots, desc[s].bit = 1 PROVE desc[s].frame >= RingSize
      <4>1. PICK i \in 0 .. RingSize - 1 : s = Ahead(i)
        BY <1>2, AheadCovers
      <4>2. i < Waiting
        <5>1. SUFFICES ASSUME ~(i < Waiting) PROVE FALSE
          OBVIOUS
        <5>2. i \in Waiting .. RingSize - Copied - 1
          BY <1>2, <3>2, <5>1
        <5>3. desc[Ahead(i)].bit = 0
          BY <3>1, <5>2 DEF Window
        <5> QED
          BY <3>3, <4>1, <5>3
      <4>3. i \in 0 .. Waiting - 1
        BY <3>2, <4>2
      <4>4. desc[Ahead(i)].frame = last + 1 + i
        BY <3>1, <4>3 DEF Window
      <4> QED
        BY <1>2, <3>1, <4>1, <4>4
    <3> QED
      BY <3>2, <3>3
  <2>3. CASE last < RingSize /\ ~InWindow
    <3>1. card = "e1000" /\ Refill /\ tail = last - 0
      BY <1>2, <2>3 DEF IInv, RecvLap, InWindow
    <3>2. last + 1 = RingSize /\ Front = last /\ tail = last
      BY <1>2, <1>4, <1>5, <1>10, <2>3, <3>1 DEF Front
    <3>3. PICK h \in last .. RingSize :
            /\ next > h
            /\ \A s \in Slots : s >= last =>
                  (desc[s].bit = 1 <=> s < h) /\ (s < h => desc[s].frame = s + 1)
            /\ \A s \in Slots : s < tail /\ desc[s].bit = 1 => desc[s].frame > h
      BY <3>1 DEF Refill
    <3>4. h = RingSize
      BY <1>2, <3>2, <3>3
    <3>5. ASSUME NEW s \in Slots, desc[s].bit = 1 PROVE desc[s].frame >= RingSize
      <4>1. desc[s].frame \in Nat
        BY Numbers DEF IInv, TypeOK
      <4>2. CASE s < last
        BY <1>2, <3>2, <3>3, <3>4, <3>5, <4>1, <4>2
      <4>3. CASE s >= last
        <5>1. s + 1 = RingSize /\ s < h
          BY <1>2, <3>2, <3>4, <4>3
        <5>2. desc[s].frame = s + 1
          BY <3>3, <4>3, <5>1
        <5> QED
          BY <1>2, <5>1, <5>2
      <4> QED
        BY <1>2, <4>2, <4>3
    <3> QED
      BY <3>3, <3>4, <3>5
  <2> QED
    BY <1>2, <2>1, <2>2, <2>3
<1>11. RecvLap'
  <2>1. ASSUME last' < RingSize PROVE tail = last' - 1
    <3>1. tail = last - 0
      BY <1>2, <1>5, <2>1 DEF IInv, RecvLap
    <3> QED
      BY <1>2, <1>5, <2>1, <3>1
  <2>2. InWindow' => InWindow
    BY <1>1, <1>2, <1>3, <1>5 DEF InWindow, Reset
  <2>3. card = "e1000" /\ last' < RingSize /\ Reset' => last < RingSize /\ Reset
    BY <1>1, <1>2, <1>3, <1>5 DEF Reset
  <2> QED
    BY <1>1, <1>3, <1>8, <1>9, <1>10, <2>1, <2>2, <2>3 DEF RecvLap
<1>12. LimitAtFront'
  BY <1>3 DEF LimitAtFront
<1> QED
  BY <1>1, <1>2, <1>6, <1>7, <1>11, <1>12, OnlyReceiving, OnlyLegacy DEF IInv, device

LEMMA LegacyRecvClearInv ==
    ASSUME IInv, LegacyReceiving, LegacyRecvClear
    PROVE  IInv'
<1>1. /\ call.at = "clear" /\ call.slot = Front
      /\ desc' = [desc EXCEPT ![Front].bit = 0]
      /\ call' = [call EXCEPT !.at = "tail"]
      /\ Advance
      /\ UNCHANGED <<card, way, reading, gen, head, limit, next, last>>
  BY DEF LegacyRecvClear, device, IInv, Stages
<1>2. /\ RingSize \in Nat \ {0, 1} /\ last \in Nat /\ Front \in Slots /\ Copied = 1
      /\ tail \in Nat /\ next \in Nat /\ last > 0 /\ Front \in Nat /\ Front < RingSize
      /\ card \in {"e1000", "e1000e"} /\ way = "recv" /\ Legacy
      /\ \A s \in Slots : s \in Nat /\ s < RingSize
  BY <1>1, Numbers DEF IInv, Copied, Stages, LegacyReceiving, Legacy
<1>3. /\ desc' \in [Slots -> [bit : 0 .. 1, frame : 0 .. MaxFrames]]
      /\ \A s \in Slots : s # Front => desc'[s] = desc[s]
      /\ desc'[Front].bit = 0
      /\ call'.at = "tail" /\ call'.slot = call.slot /\ Copied' = 0
  BY <1>1, <1>2 DEF IInv, TypeOK, Copied
<1>4. /\ tail' \in 0 .. TailSpan - 1 /\ Front' \in Slots
      /\ Front' = IF Front + 1 < RingSize THEN Front + 1 ELSE 0
      /\ tail + 1 < RingSize => tail' = tail + 1
  BY <1>1, AdvanceFront DEF IInv
<1>5. TypeOK'
  BY <1>1, <1>3, <1>4 DEF IInv, TypeOK
<1>6. Stages'
  BY <1>1, <1>2, <1>3 DEF Stages, LegacyReceiving, Legacy
<1>7. ASSUME last < RingSize PROVE tail = last - 1 /\ tail' = last
  <2>1. tail = last - 1
    BY <1>2, <1>7 DEF IInv, RecvLap
  <2> QED
    BY <1>2, <1>4, <1>7, <2>1
<1>8. ASSUME InWindow PROVE Window'
  <2>1. Window
    BY <1>8 DEF IInv, RecvLap
  <2>2. Waiting' = Waiting /\ Waiting \in 0 .. RingSize - 1
    BY <1>1, <1>2, <2>1 DEF Waiting, Window
  <2>3. ASSUME NEW i \in 0 .. RingSize - 1 PROVE Ahead(i)' = Ahead(i)
    <3>1. Ahead(i) = IF Front + 1 + i < RingSize THEN Front + 1 + i
                     ELSE Front + 1 + i - RingSize
      BY <1>2, AheadSlots
    <3>2. i \in 0 .. RingSize
      BY <1>2
    <3>3. (Front' + i) % RingSize = IF Front' + i < RingSize THEN Front' + i
                                    ELSE Front' + i - RingSize
      BY <1>4, <3>2, AheadValue
    <3>4. Ahead(i)' = (Front' + i) % RingSize
      BY <1>2, <1>3, <1>4 DEF Ahead
    <3> QED
      BY <1>2, <1>4, <3>1, <3>3, <3>4
  <2>4. /\ \A i \in 0 .. RingSize - 2 : Ahead(i) \in Slots /\ Ahead(i) # Front
        /\ Ahead(RingSize - 1) = Front
    BY <1>2, AheadSlots
  <2>5. head = Ahead(Waiting)'
    <3>1. head = Ahead(Waiting)
      BY <2>1 DEF Window
    <3>2. Ahead(Waiting)' = (Front' + Copied' + Waiting) % RingSize
      BY <2>2 DEF Ahead
    <3>3. \A i \in 0 .. RingSize - 1 : Ahead(i) = (Front' + Copied' + i) % RingSize
      BY <2>3 DEF Ahead
    <3> QED
      BY <2>2, <3>1, <3>2, <3>3
  <2>6. \E x \in Waiting .. RingSize : limit = Ahead(x)'
    <3>1. PICK x \in Waiting .. RingSize - 1 : limit = Ahead(x)
      BY <1>2, <2>1 DEF Window
    <3>2. x \in 0 .. RingSize - 1 /\ x \in Waiting .. RingSize
      BY <1>2, <2>2
    <3> QED
      BY <2>3, <3>1, <3>2
  <2>7. ASSUME NEW i \in 0 .. Waiting - 1
        PROVE  desc'[Ahead(i)'].bit = 1 /\ desc'[Ahead(i)'].frame = last + 1 + i
    <3>1. i \in 0 .. RingSize - 2 /\ i \in 0 .. RingSize - 1
      BY <1>2, <2>2
    <3> QED
      BY <1>3, <2>1, <2>3, <2>4, <3>1 DEF Window
  <2>8. ASSUME NEW i \in Waiting .. RingSize - 1
        PROVE  desc'[Ahead(i)'].bit = 0
    <3>1. i \in 0 .. RingSize - 1
      BY <2>2
    <3>2. CASE i = RingSize - 1
      BY <1>3, <2>3, <2>4, <3>1, <3>2
    <3>3. CASE i # RingSize - 1
      <4>1. i \in 0 .. RingSize - 2 /\ i \in Waiting .. RingSize - Copied - 1
        BY <1>2, <2>2, <3>1, <3>3
      <4> QED
        BY <1>3, <2>1, <2>3, <2>4, <3>1, <4>1 DEF Window
    <3> QED
      BY <3>2, <3>3
  <2> QED
    BY <1>1, <1>2, <1>3, <2>2, <2>5, <2>6, <2>7, <2>8 DEF Window
<1>9. ASSUME Refill, last < RingSize PROVE Refill'
  <2>1. Front = tail /\ tail = last - 1 /\ tail' = last
    BY <1>2, <1>7, <1>9 DEF Front
  <2>2. PICK h \in last .. RingSize :
          /\ next > h
          /\ \A s \in Slots : s >= last =>
                (desc[s].bit = 1 <=> s < h) /\ (s < h => desc[s].frame = s + 1)
          /\ \A s \in Slots : s < tail /\ desc[s].bit = 1 => desc[s].frame > h
    BY <1>9 DEF Refill
  <2>3. \A s \in Slots : s >= last => s # Front
    BY <1>2, <2>1
  <2>4. \A s \in Slots : s < tail' /\ desc'[s].bit = 1 => s # Front /\ s < tail
    BY <1>2, <1>3, <2>1
  <2>5. head <= limit /\ limit = tail' - 1
    BY <1>1, <1>2, <1>9, <2>1 DEF Refill
  <2> QED
    BY <1>1, <1>3, <2>2, <2>3, <2>4, <2>5 DEF Refill
<1>10. \A s \in Slots : desc'[s].bit = 1 => desc'[s] = desc[s]
  BY <1>2, <1>3
<1>11. RecvLap'
  <2>1. (InWindow' <=> InWindow) /\ (Reset' <=> Reset)
    BY <1>1, <1>3 DEF InWindow, Reset
  <2>2. last < RingSize => tail' = last - 0
    BY <1>2, <1>7
  <2> QED
    BY <1>1, <1>3, <1>8, <1>9, <1>10, <2>1, <2>2 DEF IInv, RecvLap
<1>12. LimitAtFront'
  BY <1>3 DEF LimitAtFront
<1> QED
  BY <1>1, <1>2, <1>5, <1>6, <1>11, <1>12, OnlyReceiving, OnlyLegacy DEF IInv, device

\* The write of the tail register, which both cards do first.
LEMMA LegacyRecvTailInv ==
    ASSUME IInv, LegacyReceiving, call.at = "tail", SetLimit(tail),
           NEW at \in {"idle", "head"}, call'.at = at,
           card = "e1000e" <=> at = "idle",
           call' \in [at : {"idle", "fill", "kick", "copy", "clear", "tail", "head"},
                      slot : Slots],
           UNCHANGED <<card, way, reading, desc, tail, gen, head, next, last>>
    PROVE  IInv'
<1>1. /\ RingSize \in Nat \ {0, 1} /\ last \in Nat /\ Front \in Slots /\ Copied = 0
      /\ tail \in Nat /\ next \in Nat /\ last > 0 /\ Front \in Nat /\ Front < RingSize
      /\ head \in Nat /\ limit \in Nat
      /\ card \in {"e1000", "e1000e"} /\ way = "recv" /\ Legacy
  BY Numbers DEF IInv, Copied, Stages, LegacyReceiving, Legacy
<1>2. /\ limit' \in 0 .. RingSize
      /\ tail < RingSize => limit' = tail /\ limit' = Front
      /\ reading = "reduce" => limit' = Front
      /\ limit' = Front \/ (reading = "ignore" /\ limit' = limit)
                        \/ (reading = "raw" /\ limit' = RingSize)
  BY LimitWritten DEF IInv
<1>3. Front' = Front /\ Copied' = 0 /\ Waiting' = Waiting /\ \A i : Ahead(i)' = Ahead(i)
  BY <1>1 DEF Front, Copied, Waiting, Ahead
<1>4. TypeOK'
  BY <1>2 DEF IInv, TypeOK
<1>5. Stages'
  BY <1>1 DEF Stages, LegacyReceiving, Legacy
<1>6. last < RingSize => tail = last /\ limit' = tail /\ limit' = Front
  BY <1>1, <1>2 DEF IInv, RecvLap
<1>7. ASSUME InWindow PROVE Window'
  <2>1. Window
    BY <1>7 DEF IInv, RecvLap
  <2>2. limit' = Front \/ limit' = limit
    BY <1>1, <1>2, <1>6, <1>7 DEF InWindow
  <2>3. RingSize \in Waiting .. RingSize - 0 /\ Ahead(RingSize) = Front
    <3>1. RingSize \in 0 .. RingSize - Copied /\ Waiting \in 0 .. RingSize
      BY <1>1, <2>1 DEF Window
    <3> QED
      BY <1>1, <3>1, AheadSlots
  <2>4. \E x \in Waiting .. RingSize - 0 : limit' = Ahead(x)
    BY <1>1, <2>1, <2>2, <2>3 DEF Window
  <2> QED
    BY <1>1, <1>3, <2>1, <2>4 DEF Window
<1>8. ASSUME Refill, last < RingSize PROVE Refill'
  <2>1. head <= limit'
    BY <1>1, <1>6, <1>8 DEF Refill
  <2> QED
    BY <1>6, <1>8, <2>1 DEF Refill
<1>9. RecvLap'
  <2>1. (InWindow' => InWindow) /\ (card = "e1000" => (Reset' <=> Reset))
    BY <1>1 DEF InWindow, Reset
  <2> QED
    BY <1>1, <1>3, <1>7, <1>8, <2>1 DEF IInv, RecvLap, LegacyReceiving, Legacy
<1>10. LimitAtFront'
  BY <1>2, <1>3, <1>6 DEF LimitAtFront
<1> QED
  BY <1>1, <1>4, <1>5, <1>9, <1>10, OnlyReceiving, OnlyLegacy DEF IInv, device

LEMMA E1000RecvTailInv ==
    ASSUME IInv, LegacyReceiving, card = "e1000", E1000RecvTail
    PROVE  IInv'
<1>1. /\ call.at = "tail" /\ SetLimit(tail)
      /\ call' = [call EXCEPT !.at = "head"]
      /\ UNCHANGED <<card, way, reading, desc, tail, gen, head, next, last>>
  BY DEF E1000RecvTail, device
<1>2. /\ call'.at = "head"
      /\ call' \in [at : {"idle", "fill", "kick", "copy", "clear", "tail", "head"},
                    slot : Slots]
  BY <1>1 DEF IInv, TypeOK
<1> QED
  BY <1>1, <1>2, LegacyRecvTailInv

LEMMA E1000eRecvTailInv ==
    ASSUME IInv, LegacyReceiving, card = "e1000e", E1000eRecvTail
    PROVE  IInv'
<1>1. /\ call.at = "tail" /\ SetLimit(tail)
      /\ call' = Idle
      /\ UNCHANGED <<card, way, reading, desc, tail, gen, head, next, last>>
  BY DEF E1000eRecvTail, device
<1>2. /\ call'.at = "idle"
      /\ call' \in [at : {"idle", "fill", "kick", "copy", "clear", "tail", "head"},
                    slot : Slots]
  BY <1>1, Numbers DEF IInv, Idle
<1> QED
  BY <1>1, <1>2, LegacyRecvTailInv

LEMMA E1000RecvHeadInv ==
    ASSUME IInv, LegacyReceiving, card = "e1000", E1000RecvHead
    PROVE  IInv'
<1>1. /\ call.at = "head" /\ head' = 0 /\ call' = Idle
      /\ UNCHANGED <<card, way, reading, desc, tail, gen, limit, next, last>>
  BY DEF E1000RecvHead, device
<1>2. /\ RingSize \in Nat \ {0, 1} /\ last \in Nat /\ Front \in Slots /\ Copied = 0
      /\ tail \in Nat /\ next \in Nat /\ last > 0 /\ limit \in Nat /\ 0 \in Slots
      /\ way = "recv" /\ Legacy
      /\ \A s \in Slots : s \in Nat /\ s < RingSize
      /\ call'.at = "idle"
  BY <1>1, Numbers DEF IInv, Copied, Stages, LegacyReceiving, Legacy, Idle
<1>3. Front' = Front /\ Copied' = 0
  BY <1>1, <1>2 DEF Front, Copied
<1>4. TypeOK'
  BY <1>1, <1>2 DEF IInv, TypeOK, Idle
<1>5. Stages'
  BY <1>1, <1>2 DEF Stages, LegacyReceiving, Legacy
<1>6. ASSUME last < RingSize PROVE tail = last /\ limit = Front /\ Front = tail
  <2>1. tail = last - 0
    BY <1>2, <1>6 DEF IInv, RecvLap
  <2>2. limit = Front
    BY <1>1, <1>2, <1>6 DEF IInv, LimitAtFront
  <2> QED
    BY <1>2, <1>6, <2>1, <2>2 DEF Front
<1>7. ASSUME last < RingSize, last >= 2 PROVE Refill'
  <2>1. Refill
    BY <1>7 DEF IInv, RecvLap, Reset
  <2> QED
    BY <1>1, <1>2, <2>1 DEF Refill
<1>8. ASSUME last < RingSize, last = 1 PROVE Refill'
  <2>1. Window /\ tail = 1 /\ limit = 1 /\ Front = 1
    BY <1>1, <1>2, <1>6, <1>8 DEF IInv, RecvLap, InWindow, Reset
  <2>2. Waiting \in 0 .. RingSize /\ Waiting = next - 2
    BY <1>2, <1>8, <2>1 DEF Window, Waiting
  <2> DEFINE h == IF Waiting < RingSize THEN 1 + Waiting ELSE RingSize
  <2>3. h \in 1 .. RingSize /\ next > h
    BY <1>2, <2>2
  <2>4. ASSUME NEW s \in Slots, s >= 1
        PROVE  (desc[s].bit = 1 <=> s < h) /\ (s < h => desc[s].frame = s + 1)
    <3>1. s - 1 \in 0 .. RingSize - 2 /\ s = Ahead(s - 1)
      <4>1. s - 1 \in 0 .. RingSize - 2 /\ s - 1 \in 0 .. RingSize - Copied
        BY <1>2, <2>4
      <4> QED
        BY <1>2, <2>1, <4>1, AheadSlots
    <3>2. CASE s - 1 < Waiting
      <4>1. s - 1 \in 0 .. Waiting - 1 /\ s < h /\ last + 1 + (s - 1) = s + 1
        BY <1>2, <1>8, <2>2, <3>1, <3>2
      <4> QED
        BY <2>1, <3>1, <4>1 DEF Window
    <3>3. CASE ~(s - 1 < Waiting)
      <4>1. s - 1 \in Waiting .. RingSize - Copied - 1 /\ ~(s < h)
        BY <1>2, <2>2, <3>1, <3>3
      <4>2. desc[s].bit = 0
        BY <2>1, <3>1, <4>1 DEF Window
      <4> QED
        BY <4>1, <4>2
    <3> QED
      BY <3>2, <3>3
  <2>5. ASSUME NEW s \in Slots, s < 1, desc[s].bit = 1 PROVE desc[s].frame > h
    <3>1. s = 0 /\ RingSize - 1 \in 0 .. RingSize - Copied /\ 0 = Ahead(RingSize - 1)
      <4>1. s = 0 /\ RingSize - 1 \in 0 .. RingSize - Copied
        BY <1>2, <2>5
      <4> QED
        BY <1>2, <2>1, <4>1, AheadSlots
    <3>2. Waiting = RingSize
      <4>1. SUFFICES ASSUME Waiting # RingSize PROVE FALSE
        OBVIOUS
      <4>2. RingSize - 1 \in Waiting .. RingSize - Copied - 1
        BY <1>2, <2>2, <4>1
      <4>3. desc[Ahead(RingSize - 1)].bit = 0
        BY <2>1, <4>2 DEF Window
      <4> QED
        BY <2>5, <3>1, <4>3
    <3>3. desc[Ahead(RingSize - 1)].frame = last + 1 + (RingSize - 1)
      <4>1. RingSize - 1 \in 0 .. Waiting - 1
        BY <1>2, <3>2
      <4> QED
        BY <2>1, <4>1 DEF Window
    <3> QED
      BY <1>2, <1>8, <3>1, <3>2, <3>3
  <2> HIDE DEF h
  <2> QED
    BY <1>1, <1>2, <1>8, <2>1, <2>3, <2>4, <2>5 DEF Refill
<1>9. RecvLap'
  <2>1. ~InWindow'
    BY <1>1, <1>2 DEF InWindow, Reset
  <2>2. last = 1 \/ last >= 2
    BY <1>2
  <2> QED
    BY <1>1, <1>2, <1>3, <1>7, <1>8, <2>1, <2>2 DEF IInv, RecvLap
<1>10. LimitAtFront'
  BY <1>1, <1>2, <1>3 DEF IInv, LimitAtFront
<1> QED
  BY <1>1, <1>2, <1>4, <1>5, <1>9, <1>10, OnlyReceiving, OnlyLegacy DEF IInv, device

\* The device fills the slot at its head with the next frame.
LEMMA LegacyReceiveInv == IInv /\ LegacyReceive => IInv'
<1> SUFFICES ASSUME IInv, LegacyReceive PROVE IInv'
  OBVIOUS
<1>1. /\ Legacy /\ way = "recv" /\ head # limit /\ next <= MaxFrames
      /\ desc' = [desc EXCEPT ![head] = [bit |-> 1, frame |-> next]]
      /\ next' = next + 1
      /\ head' = (head + 1) % RingSize
      /\ UNCHANGED <<card, way, reading, tail, gen, call, limit, last>>
  BY DEF LegacyReceive, device, NextSlot
<1>2. /\ RingSize \in Nat \ {0, 1} /\ last \in Nat /\ Front \in Slots /\ head \in Slots
      /\ tail \in Nat /\ next \in Nat /\ limit \in Nat /\ head \in Nat
      /\ next \in 0 .. MaxFrames /\ next + 1 \in 1 .. MaxFrames + 1
      /\ Front \in Nat /\ head < RingSize
      /\ LegacyReceiving
      /\ \A s \in Slots : s \in Nat /\ s < RingSize
  BY <1>1, Numbers DEF IInv, LegacyReceiving
<1>3. /\ head' \in Slots /\ head' = IF head + 1 < RingSize THEN head + 1 ELSE 0
  BY <1>1, <1>2, NextInRing
<1>4. /\ desc' \in [Slots -> [bit : 0 .. 1, frame : 0 .. MaxFrames]]
      /\ \A s \in Slots : s # head => desc'[s] = desc[s]
      /\ desc'[head].bit = 1 /\ desc'[head].frame = next
  BY <1>1, <1>2 DEF IInv, TypeOK
<1>5. TypeOK'
  BY <1>1, <1>2, <1>3, <1>4 DEF IInv, TypeOK
<1>6. /\ Front' = Front /\ Copied' = Copied /\ \A i : Ahead(i)' = Ahead(i)
      /\ (InWindow' <=> InWindow) /\ (Reset' <=> Reset) /\ Waiting' = Waiting + 1
  BY <1>1, <1>2 DEF Front, Copied, Ahead, InWindow, Reset, Waiting
<1>7. Stages'
  <2>1. desc[Front].bit = 1 => desc'[Front].bit = 1
    BY <1>2, <1>4
  <2> QED
    BY <1>1, <1>6, <2>1 DEF IInv, Stages, LegacyReceiving, Legacy
<1>8. ASSUME InWindow PROVE Window'
  <2>1. Window /\ Copied \in {0, 1}
    BY <1>2, <1>8 DEF IInv, RecvLap, Copied
  <2>2. PICK x \in Waiting .. RingSize - Copied : limit = Ahead(x)
    BY <2>1 DEF Window
  <2>3. /\ Waiting \in 0 .. RingSize - Copied - 1 /\ Waiting + 1 \in 0 .. RingSize - Copied
        /\ x \in Waiting + 1 .. RingSize - Copied
    BY <1>1, <1>2, <2>1, <2>2 DEF Window
  <2>4. head = Ahead(Waiting)
    BY <2>1 DEF Window
  <2>5. head' = Ahead(Waiting + 1)
    <3>1. Front + Copied + Waiting \in Nat
      BY <1>2, <2>1, <2>3
    <3>2. Front + Copied + (Waiting + 1) = (Front + Copied + Waiting) + 1
      BY <1>2, <2>1, <2>3
    <3>3. ((Front + Copied + Waiting) + 1) % RingSize
              = (((Front + Copied + Waiting) % RingSize) + 1) % RingSize
      BY <1>2, <3>1, SlotSuccessor
    <3> QED
      BY <1>1, <2>4, <3>2, <3>3 DEF Ahead
  <2>6. \A i \in 0 .. RingSize - 1 - Copied : /\ Ahead(i) \in Slots
                                              /\ i # Waiting => Ahead(i) # head
    <3> SUFFICES ASSUME NEW i \in 0 .. RingSize - 1 - Copied
                 PROVE  Ahead(i) \in Slots /\ (i # Waiting => Ahead(i) # head)
      OBVIOUS
    <3>1. /\ i \in 0 .. RingSize - Copied /\ i \in 0 .. RingSize - 1 - Copied
          /\ Waiting \in 0 .. RingSize - 1 - Copied
      BY <1>2, <2>1, <2>3
    <3> QED
      BY <2>4, <3>1, AheadSlots
  <2>7. ASSUME NEW i \in 0 .. Waiting
        PROVE  desc'[Ahead(i)].bit = 1 /\ desc'[Ahead(i)].frame = last + 1 + i
    <3>1. CASE i = Waiting
      <4>1. next = last + 1 + Waiting
        BY <1>2 DEF Waiting
      <4> QED
        BY <1>4, <2>4, <3>1, <4>1
    <3>2. CASE i # Waiting
      <4>1. i \in 0 .. Waiting - 1 /\ i \in 0 .. RingSize - 1 - Copied
        BY <1>2, <2>1, <2>3, <3>2
      <4> QED
        BY <1>4, <2>1, <2>6, <3>2, <4>1 DEF Window
    <3> QED
      BY <3>1, <3>2
  <2>8. ASSUME NEW i \in Waiting + 1 .. RingSize - Copied - 1
        PROVE  desc'[Ahead(i)].bit = 0
    <3>1. /\ i \in Waiting .. RingSize - Copied - 1 /\ i \in 0 .. RingSize - 1 - Copied
          /\ i # Waiting
      BY <1>2, <2>1, <2>3
    <3> QED
      BY <1>4, <2>1, <2>6, <3>1 DEF Window
  <2>9. Waiting + 1 - 1 = Waiting
    BY <2>3
  <2>10. head' = Ahead(Waiting)'
    <3>1. Ahead(Waiting)' = (Front + Copied + (Waiting + 1)) % RingSize
      BY <1>6 DEF Ahead
    <3> QED
      BY <2>5, <3>1 DEF Ahead
  <2> QED
    BY <1>1, <1>6, <2>2, <2>3, <2>7, <2>8, <2>9, <2>10 DEF Window
<1>9. ASSUME Refill, last < RingSize PROVE Refill'
  <2>1. tail = last - Copied /\ Copied \in {0, 1}
    BY <1>2, <1>9 DEF IInv, RecvLap, Copied
  <2>2. PICK h \in last .. RingSize :
          /\ next > h
          /\ \A s \in Slots : s >= last =>
                (desc[s].bit = 1 <=> s < h) /\ (s < h => desc[s].frame = s + 1)
          /\ \A s \in Slots : s < tail /\ desc[s].bit = 1 => desc[s].frame > h
    BY <1>9 DEF Refill
  <2>3. head < limit /\ limit <= tail /\ limit = IF call.at = "tail" THEN tail - 1 ELSE tail
    BY <1>1, <1>2, <1>9 DEF Refill
  <2>4. head' <= limit /\ head < last
    BY <1>2, <1>3, <1>9, <2>1, <2>3
  <2>5. next + 1 > h
    BY <1>2, <2>2
  <2>6. \A s \in Slots : s >= last => desc'[s] = desc[s]
    BY <1>2, <1>4, <2>4
  <2>7. ASSUME NEW s \in Slots, s < tail, desc'[s].bit = 1 PROVE desc'[s].frame > h
    <3>1. CASE s = head
      BY <1>4, <2>2, <3>1
    <3>2. CASE s # head
      BY <1>4, <2>2, <2>7, <3>2
    <3> QED
      BY <3>1, <3>2
  <2> QED
    BY <1>1, <2>2, <2>3, <2>4, <2>5, <2>6, <2>7 DEF Refill
<1>10. ASSUME last >= RingSize
       PROVE  /\ next + 1 > RingSize
              /\ \A s \in Slots : desc'[s].bit = 1 => desc'[s].frame >= RingSize
  <2>1. /\ next > RingSize
        /\ \A s \in Slots : desc[s].bit = 1 => desc[s].frame >= RingSize
    BY <1>2, <1>10 DEF IInv, RecvLap
  <2>2. next + 1 > RingSize /\ next >= RingSize
    BY <1>2, <2>1
  <2> QED
    BY <1>4, <2>1, <2>2
<1>11. RecvLap'
  BY <1>1, <1>2, <1>6, <1>8, <1>9, <1>10 DEF IInv, RecvLap
<1>12. LimitAtFront'
  BY <1>1, <1>2, <1>6 DEF IInv, LimitAtFront
<1> QED
  BY <1>1, <1>5, <1>7, <1>11, <1>12, OnlyReceiving, OnlyLegacy DEF IInv, device

-------------------------------------------------------------------------------

LEMMA LegacySendInv == IInv /\ (E1000Send \/ E1000eSend) => IInv'
<1> SUFFICES ASSUME IInv, E1000Send \/ E1000eSend PROVE IInv'
  OBVIOUS
<1>1. Legacy /\ way = "send" /\ LegacySend
  BY DEF E1000Send, E1000eSend, Legacy
<1>2. CASE LegacySendEnter
  BY <1>1, <1>2, EnterInv DEF LegacySendEnter
<1> QED
  BY <1>1, <1>2, LegacySendFillInv, LegacySendKickInv DEF LegacySend

LEMMA LegacyRecvInv == IInv /\ (E1000Recv \/ E1000eRecv) => IInv'
<1> SUFFICES ASSUME IInv, E1000Recv \/ E1000eRecv PROVE IInv'
  OBVIOUS
<1>1. Legacy /\ way = "recv" /\ LegacyReceiving
  BY DEF E1000Recv, E1000eRecv, Legacy, LegacyReceiving
<1>2. CASE LegacyRecvEnter
  BY <1>1, <1>2, EnterInv DEF LegacyRecvEnter
<1>3. CASE LegacyRecv
  BY <1>1, <1>2, <1>3, LegacyRecvCopyInv, LegacyRecvClearInv DEF LegacyRecv
<1> QED
  BY <1>1, <1>3, E1000RecvTailInv, E1000RecvHeadInv, E1000eRecvTailInv
     DEF E1000Recv, E1000eRecv

LEMMA NextInv == IInv /\ [Next]_vars => IInv'
<1> SUFFICES ASSUME IInv, [Next]_vars PROVE IInv'
  OBVIOUS
<1>1. CASE UNCHANGED vars
  BY <1>1
     DEF vars, IInv, TypeOK, Stages, Generations, SendLap, RecvLap, LimitAtFront,
         Legacy, LegacySending, LegacyReceiving, Front, Copied, Ahead, Waiting,
         Window, Reset, Refill, InWindow
<1> QED
  BY <1>1, LegacySendInv, LegacyRecvInv, Vmxnet3SendInv, Vmxnet3RecvInv,
     LegacyTransmitInv, LegacyReceiveInv, Vmxnet3ReceiveInv DEF Next

LEMMA Invariance == Spec => []IInv
<1>1. Init => IInv
  BY InitInv
<1>2. IInv /\ [Next]_vars => IInv'
  BY NextInv
<1> QED
  BY <1>1, <1>2, PTL DEF Spec

\* The types of every ring: positions keep to 16 bits and descriptors to the
\* ring, for every ring size and every device's view of the tail register.
THEOREM RingsTypeCorrect == Spec => []TypeOK
<1>1. IInv => TypeOK
  BY DEF IInv
<1> QED
  BY <1>1, Invariance, PTL

\* For every ring size: vmxnet3_send always finds its descriptor free and
\* vmxnet3_recv always finds one received.
THEOREM RingsGenerationBlind == Spec => []GenerationBlind
<1>1. ASSUME IInv PROVE GenerationBlind
  <2> SUFFICES ASSUME card = "vmxnet3" PROVE (desc[Front].bit = gen) = (way = "recv")
    BY DEF GenerationBlind
  <2>1. ~Legacy /\ Front \in Slots /\ Front >= Front
    BY <1>1, Numbers DEF IInv, Legacy
  <2>2. (desc[Front].bit = gen) = ((way = "recv") = (Front >= Front))
    BY <1>1, <2>1 DEF IInv, Generations
  <2> QED
    BY <2>1, <2>2
<1> QED
  BY <1>1, Invariance, PTL

-------------------------------------------------------------------------------
(* What a step may not do. *)

\* The steps that bring a frame out, by card and direction.
LEMMA StepsOut ==
    ASSUME [Next]_vars, last' # last
    PROVE  \/ LegacyTransmit
           \/ LegacyReceiving /\ LegacyRecvCopy
           \/ ~Legacy
<1>1. Next
  BY DEF vars
<1>2. E1000Send \/ E1000eSend => last' = last
  BY DEF E1000Send, E1000eSend, LegacySend, LegacySendEnter, LegacySendFill,
         LegacySendKick, Enter
<1>3. ASSUME E1000Recv \/ E1000eRecv PROVE LegacyReceiving /\ LegacyRecvCopy
  <2>1. LegacyReceiving
    BY <1>3 DEF E1000Recv, E1000eRecv, LegacyReceiving, Legacy
  <2>2. LegacyRecvEnter \/ LegacyRecvClear \/ E1000RecvTail \/ E1000RecvHead
            \/ E1000eRecvTail => last' = last
    BY DEF LegacyRecvEnter, LegacyRecvClear, E1000RecvTail, E1000RecvHead,
           E1000eRecvTail, Enter
  <2> QED
    BY <1>3, <2>1, <2>2 DEF E1000Recv, E1000eRecv, LegacyRecv
<1>4. LegacyReceive => last' = last
  BY DEF LegacyReceive
<1>5. Vmxnet3Send \/ Vmxnet3Recv \/ Vmxnet3Receive => ~Legacy
  BY DEF Vmxnet3Send, Vmxnet3Recv, Vmxnet3Receive, Legacy
<1> QED
  BY <1>1, <1>2, <1>3, <1>4, <1>5 DEF Next

\* For every ring size: while a legacy ring keeps its order, the frame that
\* goes out, or that recv() hands up, is the one after the last.
THEOREM RingsInOrder == Spec => InOrder
<1> DEFINE Step == last' # last /\ Orderly => last' = last + 1
<1>1. ASSUME IInv, [Next]_vars PROVE [Step]_vars
  <2> SUFFICES ASSUME last' # last, Orderly PROVE last' = last + 1
    BY DEF Step
  <2>1. Legacy /\ limit < RingSize
    BY DEF Orderly
  <2>2. CASE LegacyTransmit
    <3>1. way = "send"
      BY <2>2 DEF LegacyTransmit
    <3>2. next <= RingSize + 1
      BY <3>1 DEF Orderly, FirstLap
    <3> QED
      BY <1>1, <2>1, <2>2, <3>2, TransmitInOrder
  <2>3. CASE LegacyReceiving /\ LegacyRecvCopy
    <3>1. call.at = "copy" /\ call.slot = Front /\ last' = desc[call.slot].frame
      BY <1>1, <2>3 DEF LegacyRecvCopy, IInv, Stages
    <3>2. InWindow \/ last < RingSize
      BY <2>3 DEF LegacyReceiving, Orderly, FirstLap, InWindow
    <3>3. desc[Front].frame = last + 1
      BY <1>1, <2>3, <3>1, <3>2, CopyInOrder
    <3> QED
      BY <3>1, <3>3
  <2> QED
    BY <1>1, <2>1, <2>2, <2>3, StepsOut
<1>2. Spec => [][Step]_vars
  BY <1>1, Invariance, PTL DEF Spec
<1> QED
  BY <1>2 DEF InOrder

\* Only the fill of a send() clears the bit of a sent descriptor, and only
\* once the ring has been filled for the first time.
LEMMA SentStays ==
    ASSUME IInv, [Next]_vars, LegacySending, NEW s \in Slots, desc[s].bit = 1
    PROVE  \/ LegacySending' /\ desc'[s].bit = 1
           \/ call = [at |-> "fill", slot |-> s] /\ next > RingSize
<1>1. /\ UNCHANGED <<card, way, reading>> => LegacySending'
      /\ s \in Nat /\ desc \in [Slots -> [bit : 0 .. 1, frame : 0 .. MaxFrames]]
      /\ next \in Nat /\ RingSize \in Nat /\ head \in Nat /\ head \in Slots
  BY Numbers DEF LegacySending, Legacy, IInv, TypeOK
<1>2. CASE UNCHANGED vars
  BY <1>1, <1>2 DEF vars
<1>3. CASE LegacySendEnter \/ LegacySendKick
  BY <1>1, <1>3 DEF LegacySendEnter, LegacySendKick, Enter, device
<1>4. CASE LegacySendFill
  <2>1. /\ desc' = [desc EXCEPT ![call.slot] = [bit |-> 0, frame |-> next]]
        /\ call.at = "fill" /\ call.slot = Front /\ call.slot \in Slots
        /\ UNCHANGED <<card, way, reading>>
    BY <1>4 DEF LegacySendFill, device, IInv, Stages, TypeOK
  <2>2. CASE s # call.slot
    BY <1>1, <2>1, <2>2
  <2>3. CASE s = call.slot
    <3>1. call = [at |-> "fill", slot |-> s]
      BY <2>1, <2>3 DEF IInv, TypeOK
    <3>2. ASSUME next <= RingSize PROVE FALSE
      <4>1. /\ Front = (next - 1) % RingSize /\ s < head
            /\ head <= limit /\ limit = next - 1 - 0
        BY <1>1, <2>1, <3>2 DEF IInv, SendLap
      <4>2. next # 0
        BY Numbers DEF IInv
      <4> QED
        BY <1>1, <2>1, <2>3, <3>2, <4>1, <4>2
    <3> QED
      BY <1>1, <3>1, <3>2
  <2> QED
    BY <2>2, <2>3
<1>5. CASE LegacyTransmit
  BY <1>1, <1>5 DEF LegacyTransmit, device
<1>6. ~(Vmxnet3Send \/ Vmxnet3Recv \/ Vmxnet3Receive \/ E1000Recv \/ E1000eRecv
            \/ LegacyReceive)
  BY DEF Vmxnet3Send, Vmxnet3Recv, Vmxnet3Receive, E1000Recv, E1000eRecv,
         LegacyReceive, LegacySending, Legacy
<1> QED
  BY <1>2, <1>3, <1>4, <1>5, <1>6 DEF Next, E1000Send, E1000eSend, LegacySend

\* For every ring size: a legacy send ring whose descriptors have all been
\* sent refuses for good, and before that a sent descriptor is rewritten only
\* by a send of a later lap that had tested it before the device was done.
THEOREM RingsOneRound == Spec => OneRound
<1> DEFINE Step ==
      /\ Spent => Spent'
      /\ \A s \in Slots : Done(s) /\ ~Done(s)' =>
            call = [at |-> "fill", slot |-> s] /\ next > RingSize
<1>1. ASSUME IInv, [Next]_vars PROVE [Step]_vars
  <2>1. ASSUME NEW s \in Slots, Done(s)
        PROVE  Done(s)' \/ (call = [at |-> "fill", slot |-> s] /\ next > RingSize)
    <3>1. LegacySending /\ desc[s].bit = 1
      BY <2>1 DEF Done, LegacySending
    <3>2. LegacySending' /\ desc'[s].bit = 1 => Done(s)'
      BY DEF Done, LegacySending
    <3> QED
      BY <1>1, <3>1, <3>2, SentStays
  <2>2. ASSUME Spent PROVE Spent'
    <3>1. call = Idle /\ call.at = "idle" /\ \A s \in Slots : Done(s)
      BY <2>2 DEF Spent, Idle
    <3>2. \A s \in Slots : Done(s)'
      BY <2>1, <3>1
    <3>3. LegacySending /\ desc[Front].bit = 1
      BY <1>1, <3>1, Numbers DEF IInv, Done, LegacySending
    <3>4. ~LegacySend
      BY <3>1, <3>3 DEF LegacySend, LegacySendEnter, LegacySendFill, LegacySendKick
    <3>5. call' = call
      <4>1. LegacyTransmit \/ UNCHANGED vars
        BY <1>1, <3>3, <3>4
           DEF Next, E1000Send, E1000eSend, Vmxnet3Send, Vmxnet3Recv, Vmxnet3Receive,
               E1000Recv, E1000eRecv, LegacyReceive, LegacySending, Legacy
      <4> QED
        BY <4>1 DEF LegacyTransmit, vars
    <3> QED
      BY <3>1, <3>2, <3>5 DEF Spent, Idle
  <2> QED
    BY <2>1, <2>2 DEF Step
<1>2. Spec => [][Step]_vars
  BY <1>1, Invariance, PTL DEF Spec
<1> QED
  BY <1>2 DEF OneRound

\* For every ring size: once recv() has drained the ring the descriptor it
\* waits for stays empty, since RDT names it and the device stops short of it.
THEOREM RingsOnceDry == Spec => OnceDry
<1> DEFINE Step == Dry => Dry'
<1>1. ASSUME IInv, [Next]_vars PROVE [Step]_vars
  <2> SUFFICES ASSUME Dry PROVE Dry'
    BY DEF Step
  <2>1. /\ Legacy /\ way = "recv" /\ call = Idle /\ call.at = "idle"
        /\ last > 0 /\ desc[Front].bit = 0
        /\ FirstLap \/ reading = "reduce"
    BY DEF Dry, Idle
  <2>2. limit = Front
    BY <1>1, <2>1 DEF IInv, LimitAtFront, LegacyReceiving, FirstLap
  <2>3. LegacyReceive \/ UNCHANGED vars
    <3>1. ~(LegacyRecv \/ E1000RecvTail \/ E1000RecvHead \/ E1000eRecvTail)
      BY <2>1 DEF LegacyRecv, LegacyRecvEnter, LegacyRecvCopy, LegacyRecvClear,
                  E1000RecvTail, E1000RecvHead, E1000eRecvTail
    <3> QED
      BY <1>1, <2>1, <3>1
         DEF Next, E1000Send, E1000eSend, Vmxnet3Send, Vmxnet3Recv, Vmxnet3Receive,
             E1000Recv, E1000eRecv, LegacyTransmit, Legacy
  <2>4. CASE UNCHANGED vars
    BY <2>4 DEF vars, Dry, Legacy, Front, FirstLap
  <2>5. CASE LegacyReceive
    <3>1. /\ head # Front
          /\ desc' = [desc EXCEPT ![head] = [bit |-> 1, frame |-> next]]
          /\ UNCHANGED <<card, way, reading, tail, call, last>>
      BY <2>2, <2>5 DEF LegacyReceive, device
    <3>2. desc'[Front] = desc[Front]
      BY <1>1, <3>1, Numbers DEF IInv, TypeOK
    <3>3. (FirstLap \/ reading = "reduce")'
      BY <2>1, <3>1 DEF FirstLap
    <3> QED
      BY <2>1, <3>1, <3>2, <3>3 DEF Dry, Legacy, Front, Idle
  <2> QED
    BY <2>3, <2>4, <2>5
<1>2. Spec => [][Step]_vars
  BY <1>1, Invariance, PTL DEF Spec
<1> QED
  BY <1>2 DEF OnceDry
===============================================================================
