------------------------------ MODULE AhciProofs ------------------------------
(***************************************************************************)
(* The command path of the ahci driver, for every byte width, table size,  *)
(* number of polls and set of requests.                                    *)
(***************************************************************************)
EXTENDS Ahci, RingArithmetic

\* The records have their fields.
Shapes ==
    /\ slot = [fis |-> slot.fis, prd |-> slot.prd]
    /\ port = [at |-> port.at, fis |-> port.fis, prd |-> port.prd]
    /\ call = [at |-> call.at, req |-> call.req, timeout |-> call.timeout]
    /\ call.req \in [op : Ops, lba : Nat, sectors : Nat]

\* What a call has written so far, whatever the port did meanwhile.
Written ==
    /\ call.at # "idle" =>
          Accepts(call.req) /\ calls > 0 /\ slot.fis = Fis(calls, call.req)
    /\ call.at \in {"issue", "poll"} /\ call.req.op # "flush" =>
          slot.prd = PrdTable(calls, call.req.sectors)

\* The port works on a command that was issued, until it clears CI.
Busy ==
    /\ port.at # "idle" => ci /\ port.fis.n # 0
    /\ ci => slot.fis.n # 0

\* CI clear under a poll means that the call's command is through, as long as
\* no earlier call has left its command behind.
ClearMeansDone == ~exhausted /\ call.at = "poll" /\ ~ci => calls \in done

IInv ==
    /\ TypeOK /\ Shapes /\ Written /\ Busy /\ ClearMeansDone
    /\ SlotUndisturbed /\ ReturnsAfterCompletion

-------------------------------------------------------------------------------
(* Digits. *)

LEMMA QuotientUnique ==
    ASSUME NEW N \in Nat \ {0}, NEW q \in Nat, NEW r \in 0 .. N - 1
    PROVE  (N * q + r) \div N = q
OBVIOUS

\* A quotient of a quotient is one quotient.
LEMMA QuotientTwice ==
    ASSUME NEW x \in Nat, NEW w \in Nat \ {0}, NEW b \in Nat \ {0}
    PROVE  (x \div w) \div b = x \div (w * b)
<1> DEFINE q == x \div w
           r == x % w
           s == q \div b
           t == q % b
<1>1. q \in Nat /\ r \in 0 .. w - 1 /\ x = w * q + r
  BY QuotientRemainder
<1>2. s \in Nat /\ t \in 0 .. b - 1 /\ q = b * s + t
  BY <1>1, QuotientRemainder
<1> HIDE DEF q, r, s, t
<1>3. w * b \in Nat \ {0}
  OBVIOUS
<1>4. w * t + r \in 0 .. w * b - 1
  <2>1. w * t >= 0 /\ w * (b - 1 - t) >= 0 /\ w * t \in Int
    BY <1>2
  <2>2. w * (b - 1 - t) = w * b - w - w * t
    BY <1>2
  <2> QED
    BY <1>1, <1>3, <2>1, <2>2
<1>5. x = (w * b) * s + (w * t + r)
  <2>1. w * (b * s + t) = (w * b) * s + w * t
    BY <1>2
  <2> QED
    BY <1>1, <1>2, <1>3, <2>1
<1>6. x \div (w * b) = s
  <2> DEFINE n == w * b
             m == w * t + r
  <2>1. n \in Nat \ {0} /\ m \in 0 .. n - 1 /\ x = n * s + m
    BY <1>3, <1>4, <1>5
  <2> HIDE DEF n, m
  <2>2. x \div n = s
    BY <1>2, <2>1, QuotientUnique
  <2> QED
    BY <2>2 DEF n
<1> QED
  BY <1>3, <1>6 DEF s, q

\* The digit of weight w, as the difference of two numbers rounded down.
LEMMA DigitAt ==
    ASSUME NEW x \in Nat, NEW w \in Nat \ {0}, NEW b \in Nat \ {0}
    PROVE  /\ (x \div w) % b \in 0 .. b - 1
           /\ ((x \div w) % b) * w = w * (x \div w) - (w * b) * (x \div (w * b))
<1>0. (x \div w) \div b = x \div (w * b)
  BY QuotientTwice
<1> DEFINE q == x \div w
           t == q % b
           s == q \div b
<1>1. q \in Nat
  BY QuotientRemainder
<1>2. s \in Nat /\ t \in 0 .. b - 1 /\ q = b * s + t
  BY <1>1, QuotientRemainder
<1>3. s = x \div (w * b)
  BY <1>0
<1> HIDE DEF q, t, s
<1>4. t * w = w * q - (w * b) * s
  <2>1. w * (b * s + t) = (w * b) * s + t * w
    BY <1>2
  <2> QED
    BY <1>2, <2>1
<1> QED
  BY <1>2, <1>3, <1>4 DEF t, q

\* The weights of the bytes, each the one before times a byte.
LEMMA Weights ==
    /\ Byte \in Nat \ {0, 1}
    /\ \A i \in 1 .. 6 : Weight[i] \in Nat \ {0}
    /\ Weight[1] = 1 /\ LbaLimit = Weight[6] * Byte /\ LbaLimit \in Nat \ {0}
    /\ \A i \in 1 .. 5 : Weight[i + 1] = Weight[i] * Byte
<1> DEFINE b2 == Byte * Byte
           b3 == b2 * Byte
           b4 == b2 * b2
           b5 == b4 * Byte
<1>1. Byte \in Nat \ {0, 1}
  BY SizeAssumption
<1>2. Weight = <<1, Byte, b2, b3, b4, b5>>
  BY DEF Weight
<1>3. b2 \in Nat \ {0}
  BY <1>1
<1> HIDE DEF b2
<1>4. b3 \in Nat \ {0} /\ b4 \in Nat \ {0} /\ b4 = b3 * Byte
  <2>1. b2 * b2 = (b2 * Byte) * Byte
    BY <1>1, <1>3 DEF b2
  <2> QED
    BY <1>1, <1>3, <2>1
<1> HIDE DEF b3, b4
<1>5. b5 \in Nat \ {0} /\ b5 * Byte \in Nat \ {0}
  <2>1. b5 \in Nat \ {0}
    BY <1>1, <1>4
  <2> HIDE DEF b5
  <2> QED
    BY <1>1, <2>1
<1>6. /\ Weight[1] = 1 /\ Weight[2] = Byte /\ Weight[3] = b2 /\ Weight[4] = b3
      /\ Weight[5] = b4 /\ Weight[6] = b5
  BY <1>2
<1>7. b2 = Byte * Byte /\ b3 = b2 * Byte /\ b5 = b4 * Byte
  BY DEF b2, b3, b5
<1> HIDE DEF b5
<1>8. \A i \in 1 .. 6 : Weight[i] \in Nat \ {0}
  BY <1>1, <1>3, <1>4, <1>5, <1>6
<1>9. \A i \in 1 .. 5 : Weight[i + 1] = Weight[i] * Byte
  BY <1>1, <1>4, <1>6, <1>7
<1> QED
  BY <1>1, <1>5, <1>6, <1>8, <1>9 DEF LbaLimit

\* The six bytes are bytes, and decode to the LBA if it has 48 bits.
LEMMA LbaDecodes ==
    ASSUME NEW lba \in Nat
    PROVE  /\ LbaBytes(lba) \in [1 .. 6 -> 0 .. Byte - 1]
           /\ lba < LbaLimit => DecodedLba(LbaBytes(lba)) = lba
<1> DEFINE Below(w) == w * (lba \div w)
           D(i) == LbaBytes(lba)[i] * Weight[i]
<1>1. ASSUME NEW i \in 1 .. 6
      PROVE  /\ LbaBytes(lba)[i] \in 0 .. Byte - 1
             /\ D(i) = Below(Weight[i]) - Below(Weight[i] * Byte)
             /\ Below(Weight[i]) \in Int /\ Below(Weight[i] * Byte) \in Int
  <2>1. Weight[i] \in Nat \ {0} /\ Byte \in Nat \ {0} /\ Weight[i] * Byte \in Nat \ {0}
    <3>1. Weight[i] \in Nat \ {0} /\ Byte \in Nat \ {0}
      BY Weights
    <3> QED
      BY <3>1
  <2>2. /\ (lba \div Weight[i]) % Byte \in 0 .. Byte - 1
        /\ ((lba \div Weight[i]) % Byte) * Weight[i]
              = Weight[i] * (lba \div Weight[i])
                - (Weight[i] * Byte) * (lba \div (Weight[i] * Byte))
    BY <2>1, DigitAt
  <2>3. LbaBytes(lba)[i] = (lba \div Weight[i]) % Byte
    BY DEF LbaBytes
  <2>4. \A w \in Nat \ {0} : w * (lba \div w) \in Int
    BY QuotientRemainder
  <2> QED
    BY <2>1, <2>2, <2>3, <2>4
<1>2. LbaBytes(lba) \in [1 .. 6 -> 0 .. Byte - 1]
  BY <1>1 DEF LbaBytes
<1>3. ASSUME lba < LbaLimit PROVE DecodedLba(LbaBytes(lba)) = lba
  <2>1. Below(1) = lba
    OBVIOUS
  <2>2. Below(LbaLimit) = 0
    <3> DEFINE n == LbaLimit
    <3>1. n \in Nat \ {0} /\ lba \in 0 .. n - 1
      <4>1. LbaLimit \in Nat \ {0}
        BY Weights
      <4> QED
        BY <1>3, <4>1
    <3> HIDE DEF n
    <3>2. (n * 0 + lba) \div n = 0
      BY <3>1, QuotientUnique
    <3>3. n * 0 + lba = lba
      BY <3>1
    <3>4. n * (lba \div n) = 0
      BY <3>1, <3>2, <3>3
    <3> QED
      BY <3>4 DEF n
  <2>3. DecodedLba(LbaBytes(lba)) = D(1) + D(2) + D(3) + D(4) + D(5) + D(6)
    BY DEF DecodedLba
  <2>4. /\ Weight[1] = 1 /\ Weight[2] = Weight[1] * Byte /\ Weight[3] = Weight[2] * Byte
        /\ Weight[4] = Weight[3] * Byte /\ Weight[5] = Weight[4] * Byte
        /\ Weight[6] = Weight[5] * Byte /\ LbaLimit = Weight[6] * Byte
    BY Weights
  <2> HIDE DEF Below, D
  <2> QED
    BY <1>1, <2>1, <2>2, <2>3, <2>4
<1> QED
  BY <1>2, <1>3

\* Two bytes are enough for the count.
LEMMA CountDecodes ==
    ASSUME NEW n \in Nat
    PROVE  /\ CountBytes(n) \in (0 .. Byte - 1) \X (0 .. Byte - 1)
           /\ n <= SectorLimit => DecodedCount(CountBytes(n)) = n
<1> DEFINE q == n \div Byte
<1>1. Byte \in Nat \ {0} /\ SectorLimit \in Nat /\ SectorLimit < Byte * Byte
  BY SizeAssumption
<1>2. q \in Nat /\ n = Byte * q + (n % Byte) /\ n % Byte \in 0 .. Byte - 1
  BY <1>1, QuotientRemainder
<1> HIDE DEF q
<1>3. q % Byte \in 0 .. Byte - 1
  BY <1>1, <1>2, QuotientRemainder
<1>4. CountBytes(n) = <<n % Byte, q % Byte>>
  BY DEF CountBytes, q
<1>5. ASSUME n <= SectorLimit PROVE DecodedCount(CountBytes(n)) = n
  <2>1. q < Byte
    <3>1. SUFFICES ASSUME q >= Byte PROVE FALSE
      BY <1>1, <1>2
    <3>2. Byte * q >= Byte * Byte
      BY <1>1, <1>2, <3>1
    <3> QED
      BY <1>1, <1>2, <1>5, <3>2
  <2>2. q % Byte = q
    BY <1>1, <1>2, <2>1
  <2> QED
    BY <1>1, <1>2, <1>4, <2>2 DEF DecodedCount
<1> QED
  BY <1>2, <1>3, <1>4, <1>5

-------------------------------------------------------------------------------
(* What WriteFis and WritePrd put into the slot. *)

LEMMA FisTyped ==
    ASSUME NEW n \in 0 .. MaxCalls, NEW req \in [op : Ops, lba : Nat, sectors : Nat]
    PROVE  Fis(n, req) \in FisType
<1> DEFINE l == IF req.op = "flush" THEN 0 ELSE req.lba
           c == IF req.op = "flush" THEN 0 ELSE req.sectors
<1>1. l \in Nat /\ c \in Nat /\ req.op \in Ops
  OBVIOUS
<1> HIDE DEF l, c
<1>2. LbaBytes(l) \in [1 .. 6 -> 0 .. Byte - 1]
  BY <1>1, LbaDecodes, Zenon
<1>3. CountBytes(c) \in (0 .. Byte - 1) \X (0 .. Byte - 1)
  BY <1>1, CountDecodes, Zenon
<1>4. Fis(n, req) = [n |-> n, op |-> req.op, lba |-> LbaBytes(l), count |-> CountBytes(c)]
  BY DEF Fis, l, c
<1> QED
  BY <1>1, <1>2, <1>3, <1>4 DEF FisType

LEMMA NoFisTyped == NoFis \in FisType
<1>1. /\ LbaBytes(0) \in [1 .. 6 -> 0 .. Byte - 1]
      /\ CountBytes(0) \in (0 .. Byte - 1) \X (0 .. Byte - 1)
  <2>1. 0 \in Nat
    OBVIOUS
  <2> QED
    BY <2>1, LbaDecodes, CountDecodes
<1> QED
  BY <1>1, BoundAssumption DEF NoFis, FisType, Ops

\* The table of a command that the driver accepts: no more entries than there
\* is room for, the first at the buffer, the others behind its end.
LEMMA PrdFits ==
    ASSUME NEW n \in 0 .. MaxCalls, NEW sectors \in 0 .. SectorLimit
    PROVE  /\ IsPrd(PrdTable(n, sectors)) /\ PrdTable(n, sectors).n = n
           /\ sectors > 0 =>
                LET prd == PrdTable(n, sectors) IN
                /\ 0 \in DOMAIN prd.base /\ prd.base[0] = 0
                /\ \A i \in DOMAIN prd.base :
                      /\ i > 0 => prd.base[i] = sectors * SectorSize
                      /\ prd.last[i] <=> i + 1 \notin DOMAIN prd.base
<1> DEFINE bytes == sectors * SectorSize
           most == SectorLimit * SectorSize
           len == PrdLength(sectors)
           square == PrdCount * PrdCount
           entries == 0 .. Min2(len, PrdCount) - 1
           prd == PrdTable(n, sectors)
<1>1. /\ SectorSize \in Nat \ {0} /\ PrdCount \in Nat \ {0} /\ SectorLimit \in Nat
      /\ SectorLimit <= square /\ MaxChunk \in Nat /\ most <= MaxChunk /\ sectors \in Nat
      /\ sectors <= SectorLimit
  BY SizeAssumption
<1>2. bytes \in Nat /\ most \in Nat /\ bytes <= most /\ square \in Nat
  <2>1. most = bytes + (SectorLimit - sectors) * SectorSize
    BY <1>1
  <2>2. (SectorLimit - sectors) * SectorSize \in Nat
    BY <1>1
  <2>3. bytes \in Nat /\ most \in Nat /\ square \in Nat
    BY <1>1
  <2> QED
    BY <2>1, <2>2, <2>3
<1>3. len \in Nat /\ len <= PrdCount /\ (sectors > 0 => len > 0)
  <2> DEFINE up == sectors + PrdCount - 1
             rest == up % PrdCount
  <2>1. up \in Nat /\ len = up \div PrdCount
    BY <1>1 DEF PrdLength
  <2>2. up = sectors + PrdCount - 1
    OBVIOUS
  <2> HIDE DEF up, len
  <2>3. len \in Nat /\ up = PrdCount * len + rest /\ rest \in 0 .. PrdCount - 1
    BY <1>1, <2>1, QuotientRemainder
  <2> HIDE DEF rest
  <2>4. ASSUME len > PrdCount PROVE FALSE
    <3>1. PrdCount * len = square + PrdCount * (len - PrdCount)
      BY <1>1, <2>3
    <3>2. PrdCount * (len - PrdCount) >= PrdCount
      BY <1>1, <2>3, <2>4
    <3> HIDE DEF square
    <3>3. PrdCount * len \in Nat /\ PrdCount * (len - PrdCount) \in Int
      BY <1>1, <2>3
    <3> QED
      BY <1>1, <1>2, <2>2, <2>3, <3>1, <3>2, <3>3
  <2>5. ASSUME sectors > 0, len = 0 PROVE FALSE
    <3>1. PrdCount * len = 0
      BY <1>1, <2>5
    <3> QED
      BY <1>1, <2>2, <2>3, <2>5, <3>1
  <2> QED
    BY <1>1, <2>3, <2>4, <2>5
<1>4. entries = 0 .. len - 1
  BY <1>1, <1>3 DEF Min2
<1>5. prd = [n |-> n, base |-> [i \in entries |-> Min2(i * MaxChunk, bytes)],
             last |-> [i \in entries |-> i = len - 1]]
  BY DEF PrdTable
<1> HIDE DEF bytes, most, len, square, entries, prd
<1>6. /\ prd.n = n /\ DOMAIN prd.base = 0 .. len - 1
      /\ \A i \in 0 .. len - 1 : /\ prd.base[i] = Min2(i * MaxChunk, bytes)
                                 /\ prd.last[i] <=> i = len - 1
  BY <1>4, <1>5
<1>7. ASSUME NEW i \in 0 .. len - 1
      PROVE  Min2(i * MaxChunk, bytes) = IF i = 0 THEN 0 ELSE bytes
  <2>1. CASE i = 0
    <3>1. i * MaxChunk = 0
      BY <1>1, <2>1
    <3> QED
      BY <1>2, <2>1, <3>1 DEF Min2
  <2>2. CASE i # 0
    <3>1. i * MaxChunk = MaxChunk + (i - 1) * MaxChunk
      BY <1>1, <1>3, <2>2
    <3>2. (i - 1) * MaxChunk \in Nat
      BY <1>1, <1>3, <2>2
    <3>3. i * MaxChunk \in Nat /\ bytes <= i * MaxChunk
      BY <1>1, <1>2, <3>1, <3>2
    <3> QED
      BY <1>2, <2>2, <3>3 DEF Min2
  <2> QED
    BY <2>1, <2>2
<1>8. IsPrd(prd)
  <2>1. \A i \in DOMAIN prd.base : prd.base[i] \in 0 .. most
    BY <1>2, <1>6, <1>7
  <2>2. DOMAIN prd.base \subseteq 0 .. PrdCount - 1
    BY <1>1, <1>3, <1>6
  <2> QED
    BY <1>6, <2>1, <2>2 DEF IsPrd, most
<1>9. ASSUME sectors > 0
      PROVE  /\ 0 \in DOMAIN prd.base /\ prd.base[0] = 0
             /\ \A i \in DOMAIN prd.base : /\ i > 0 => prd.base[i] = bytes
                                           /\ prd.last[i] <=> i + 1 \notin DOMAIN prd.base
  <2>1. 0 \in 0 .. len - 1
    BY <1>3, <1>9
  <2>2. \A i \in 0 .. len - 1 : i = len - 1 <=> i + 1 \notin 0 .. len - 1
    BY <1>3
  <2> QED
    BY <1>6, <1>7, <2>1, <2>2
<1> QED
  BY <1>6, <1>8, <1>9 DEF prd, bytes

\* Requests that need one entry share one table.
LEMMA OneEntry ==
    ASSUME NEW n, NEW sectors \in 1 .. PrdCount
    PROVE  PrdTable(n, sectors) = PrdTable(n, 1)
<1>1. PrdCount \in Nat \ {0} /\ SectorSize \in Nat \ {0} /\ MaxChunk \in Nat
  BY SizeAssumption
<1>2. ASSUME NEW s \in 1 .. PrdCount
      PROVE  PrdTable(n, s) = [n |-> n, base |-> [i \in 0 .. 0 |-> 0],
                               last |-> [i \in 0 .. 0 |-> TRUE]]
  <2>1. PrdLength(s) = 1
    <3>1. s - 1 \in 0 .. PrdCount - 1 /\ s + PrdCount - 1 = PrdCount * 1 + (s - 1)
      BY <1>1, <1>2
    <3>2. (PrdCount * 1 + (s - 1)) \div PrdCount = 1
      BY <1>1, <3>1, QuotientUnique
    <3> QED
      BY <3>1, <3>2 DEF PrdLength
  <2>2. 0 .. Min2(PrdLength(s), PrdCount) - 1 = 0 .. 0
    BY <1>1, <2>1 DEF Min2
  <2>3. \A i \in 0 .. 0 : Min2(i * MaxChunk, s * SectorSize) = 0
    <3>1. s * SectorSize \in Nat /\ 0 * MaxChunk = 0
      BY <1>1, <1>2
    <3> QED
      BY <3>1 DEF Min2
  <2>4. \A i \in 0 .. 0 : (i = PrdLength(s) - 1) = TRUE
    BY <2>1
  <2> QED
    BY <2>2, <2>3, <2>4 DEF PrdTable
<1>3. 1 \in 1 .. PrdCount
  BY <1>1
<1> QED
  BY <1>2, <1>3

\* An accepted transfer has between one sector and the limit.
LEMMA AcceptedSectors ==
    ASSUME NEW req \in [op : Ops, lba : Nat, sectors : Nat], Accepts(req), req.op # "flush"
    PROVE  req.sectors \in 0 .. SectorLimit /\ req.sectors > 0
BY SizeAssumption DEF Accepts

LEMMA NoPrdTyped == IsPrd(NoPrd)
<1>1. 0 \in 0 .. MaxCalls /\ 0 \in 0 .. SectorLimit
  BY BoundAssumption, SizeAssumption
<1> QED
  BY <1>1, PrdFits DEF NoPrd

-------------------------------------------------------------------------------
(* The steps. *)

LEMMA InitInv == Init => IInv
<1> SUFFICES ASSUME Init PROVE IInv
  OBVIOUS
<1>1. /\ useInterrupts \in BOOLEAN /\ slot = [fis |-> NoFis, prd |-> NoPrd]
      /\ ci = FALSE /\ calls = 0 /\ call = Idle /\ call.at = "idle" /\ call.timeout = 0
      /\ port = Resting /\ port.at = "idle" /\ done = {}
      /\ portIs = FALSE /\ lineIs = FALSE /\ irq = [at |-> "off", is |-> FALSE]
      /\ result = [n |-> 0, ok |-> FALSE, done |-> FALSE] /\ exhausted = FALSE
  BY DEF Init, Idle, Resting
<1>2. MaxCalls \in Nat /\ Retries \in Nat
  BY BoundAssumption, TimerAssumption
<1>3. NoFis \in FisType /\ IsPrd(NoPrd)
  BY NoFisTyped, NoPrdTyped
<1>4. TypeOK
  <2>1. slot.fis = NoFis /\ slot.prd = NoPrd /\ port.fis = NoFis /\ port.prd = NoPrd
    BY <1>1 DEF Resting
  <2>2. {useInterrupts, ci, portIs, lineIs, exhausted} \subseteq BOOLEAN
    BY <1>1
  <2>3. irq \in [at : {"off", "port", "global"}, is : BOOLEAN]
    BY <1>1
  <2>4. result \in [n : 0 .. MaxCalls, ok : BOOLEAN, done : BOOLEAN]
    BY <1>1, <1>2
  <2>5. calls \in 0 .. MaxCalls /\ done \subseteq 1 .. MaxCalls /\ call.timeout \in 0 .. Retries
    BY <1>1, <1>2
  <2> QED
    BY <1>1, <1>3, <2>1, <2>2, <2>3, <2>4, <2>5 DEF TypeOK
<1>5. Shapes
  BY <1>1 DEF Shapes, Resting, Idle, Ops
<1> QED
  BY <1>1, <1>4, <1>5
     DEF IInv, Written, Busy, ClearMeansDone, SlotUndisturbed, ReturnsAfterCompletion

LEMMA WriteFisInv ==
    ASSUME IInv, NEW req \in Requests, WriteFis(req)
    PROVE  IInv'
<1>1. /\ call.at = "idle" /\ calls < MaxCalls /\ Accepts(req)
      /\ calls' = calls + 1
      /\ slot' = [fis |-> Fis(calls + 1, req), prd |-> slot.prd]
      /\ call' = [at |-> "prd", req |-> req, timeout |-> 0]
      /\ UNCHANGED <<useInterrupts, ci, port, done, portIs, lineIs, irq, result, exhausted>>
  BY DEF WriteFis, IInv, Shapes
<1>2. /\ calls \in Nat /\ MaxCalls \in Nat /\ Retries \in Nat
      /\ calls + 1 \in 0 .. MaxCalls /\ calls + 1 > 0
      /\ req \in [op : Ops, lba : Nat, sectors : Nat]
  BY <1>1, BoundAssumption, TimerAssumption, RequestAssumption DEF IInv, TypeOK
<1>3. Fis(calls + 1, req) \in FisType /\ Fis(calls + 1, req).n = calls + 1
  <2>1. Fis(calls + 1, req).n = calls + 1
    BY DEF Fis
  <2> QED
    BY <1>2, <2>1, FisTyped
<1>4. /\ slot'.fis = Fis(calls + 1, req) /\ slot'.prd = slot.prd
      /\ call'.at = "prd" /\ call'.timeout = 0 /\ call'.req = req
  BY <1>1
<1>5. TypeOK'
  <2>1. IsPrd(slot.prd)' /\ IsPrd(port.prd)'
    BY <1>1, <1>4 DEF IInv, TypeOK, IsPrd
  <2> QED
    BY <1>1, <1>2, <1>3, <1>4, <2>1 DEF IInv, TypeOK
<1>6. Shapes'
  BY <1>1, <1>2, <1>4 DEF IInv, Shapes
<1>7. Written'
  BY <1>1, <1>2, <1>4 DEF Written
<1>8. Busy'
  BY <1>1, <1>2, <1>3, <1>4 DEF IInv, Busy
<1>9. (ClearMeansDone /\ SlotUndisturbed /\ ReturnsAfterCompletion)'
  BY <1>1, <1>4 DEF IInv, ClearMeansDone, SlotUndisturbed, ReturnsAfterCompletion
<1> QED
  BY <1>5, <1>6, <1>7, <1>8, <1>9 DEF IInv

LEMMA WritePrdInv == IInv /\ WritePrd => IInv'
<1> SUFFICES ASSUME IInv, WritePrd PROVE IInv'
  OBVIOUS
<1> DEFINE prd == IF call.req.op = "flush" THEN slot.prd ELSE PrdTable(calls, call.req.sectors)
<1>1. /\ call.at = "prd" /\ slot' = [fis |-> slot.fis, prd |-> prd]
      /\ call' = [at |-> "issue", req |-> call.req, timeout |-> call.timeout]
      /\ UNCHANGED <<useInterrupts, ci, calls, port, done, portIs, lineIs, irq,
                     result, exhausted>>
  BY DEF WritePrd, IInv, Shapes
<1>2. IsPrd(prd)
  <2>1. ASSUME call.req.op # "flush" PROVE IsPrd(PrdTable(calls, call.req.sectors))
    <3>1. call.req.sectors \in 0 .. SectorLimit /\ calls \in 0 .. MaxCalls
      BY <1>1, <2>1, AcceptedSectors DEF IInv, Shapes, Written, TypeOK
    <3> QED
      BY <3>1, PrdFits
  <2> QED
    BY <2>1 DEF IInv, TypeOK
<1>3. /\ slot'.fis = slot.fis /\ slot'.prd = prd
      /\ call'.at = "issue" /\ call'.timeout = call.timeout /\ call'.req = call.req
  BY <1>1
<1>4. TypeOK'
  <2>1. IsPrd(slot.prd)' /\ IsPrd(port.prd)'
    BY <1>1, <1>2, <1>3 DEF IInv, TypeOK, IsPrd
  <2> QED
    BY <1>1, <1>3, <2>1 DEF IInv, TypeOK
<1>5. Shapes'
  BY <1>1, <1>3 DEF IInv, Shapes
<1>6. Written'
  BY <1>1, <1>3 DEF IInv, Written
<1>7. Busy'
  BY <1>1, <1>3 DEF IInv, Busy
<1>8. (ClearMeansDone /\ SlotUndisturbed /\ ReturnsAfterCompletion)'
  BY <1>1, <1>3 DEF IInv, ClearMeansDone, SlotUndisturbed, ReturnsAfterCompletion
<1> QED
  BY <1>4, <1>5, <1>6, <1>7, <1>8 DEF IInv

LEMMA IssueInv == IInv /\ Issue => IInv'
<1> SUFFICES ASSUME IInv, Issue PROVE IInv'
  OBVIOUS
<1>1. /\ call.at = "issue" /\ ci' = TRUE
      /\ call' = [at |-> "poll", req |-> call.req, timeout |-> Retries]
      /\ UNCHANGED <<useInterrupts, slot, calls, port, done, portIs, lineIs, irq,
                     result, exhausted>>
  BY DEF Issue, IInv, Shapes
<1>2. /\ call'.at = "poll" /\ call'.req = call.req /\ call'.timeout \in 0 .. Retries
      /\ slot.fis.n = calls /\ calls > 0 /\ calls \in Nat
  BY <1>1, TimerAssumption DEF IInv, Written, Fis, TypeOK
<1>3. TypeOK'
  BY <1>1, <1>2 DEF IInv, TypeOK, IsPrd
<1>4. Shapes' /\ Written' /\ Busy'
  BY <1>1, <1>2 DEF IInv, Shapes, Written, Busy
<1>5. (ClearMeansDone /\ SlotUndisturbed /\ ReturnsAfterCompletion)'
  BY <1>1, <1>2 DEF IInv, ClearMeansDone, SlotUndisturbed, ReturnsAfterCompletion
<1> QED
  BY <1>3, <1>4, <1>5 DEF IInv

\* A call that returns: it either found CI clear or has run out of polls.
LEMMA ReturnInv ==
    ASSUME IInv, call.at = "poll", NEW t, Return(t),
           exhausted' \in BOOLEAN, ~exhausted' => ~exhausted /\ ~ci,
           UNCHANGED <<useInterrupts, slot, ci, calls, port, done, portIs, lineIs, irq>>
    PROVE  IInv'
<1>1. /\ result' = [n |-> calls, ok |-> t # 0, done |-> calls \in done]
      /\ call' = Idle
  BY DEF Return
<1>2. /\ result'.n = calls /\ result'.done = (calls \in done)
      /\ call'.at = "idle" /\ call'.timeout = 0 /\ Retries \in Nat
  BY <1>1, TimerAssumption DEF Idle
<1>3. TypeOK'
  BY <1>1, <1>2 DEF IInv, TypeOK, IsPrd
<1>4. Shapes'
  BY <1>1 DEF IInv, Shapes, Idle, Ops
<1>5. Written' /\ Busy' /\ ClearMeansDone'
  BY <1>2 DEF IInv, Written, Busy, ClearMeansDone
<1>6. ASSUME ~exhausted' PROVE ~exhausted /\ ~ci
  BY <1>6 DEF IInv, TypeOK
<1>7. SlotUndisturbed'
  BY <1>2, <1>6 DEF IInv, Busy, SlotUndisturbed
<1>8. ReturnsAfterCompletion'
  BY <1>2, <1>6 DEF IInv, ClearMeansDone, ReturnsAfterCompletion
<1> QED
  BY <1>3, <1>4, <1>5, <1>7, <1>8 DEF IInv

LEMMA PollBusyInv == IInv /\ PollBusy => IInv'
<1> SUFFICES ASSUME IInv, PollBusy PROVE IInv'
  OBVIOUS
<1>1. /\ call.at = "poll" /\ call.timeout # 0 /\ ci
      /\ call' = [at |-> "poll", req |-> call.req, timeout |-> call.timeout - 1]
      /\ UNCHANGED <<useInterrupts, slot, ci, calls, port, done, portIs, lineIs, irq,
                     result, exhausted>>
  BY DEF PollBusy, IInv, Shapes
<1>2. /\ call'.at = "poll" /\ call'.req = call.req /\ call'.timeout \in 0 .. Retries
  BY <1>1, TimerAssumption DEF IInv, TypeOK
<1>3. TypeOK'
  BY <1>1, <1>2 DEF IInv, TypeOK, IsPrd
<1>4. Shapes' /\ Written' /\ Busy'
  BY <1>1, <1>2 DEF IInv, Shapes, Written, Busy
<1>5. (ClearMeansDone /\ SlotUndisturbed /\ ReturnsAfterCompletion)'
  BY <1>1, <1>2 DEF IInv, ClearMeansDone, SlotUndisturbed, ReturnsAfterCompletion
<1> QED
  BY <1>3, <1>4, <1>5 DEF IInv

LEMMA CallStepInv == IInv /\ CallStep => IInv'
<1> SUFFICES ASSUME IInv, CallStep PROVE IInv'
  OBVIOUS
<1>1. CASE PollClear
  BY <1>1, ReturnInv DEF PollClear, IInv, TypeOK
<1>2. CASE PollOut
  BY <1>2, ReturnInv DEF PollOut
<1> QED
  BY <1>1, <1>2, WritePrdInv, IssueInv, PollBusyInv DEF CallStep

\* The handler touches nothing that the calls and the port go by.
LEMMA IrqInv == IInv /\ Irq => IInv'
<1> SUFFICES ASSUME IInv, Irq PROVE IInv'
  OBVIOUS
<1>1. UNCHANGED <<useInterrupts, slot, ci, calls, call, port, done, result, exhausted>>
  BY DEF Irq, IrqEnter, IrqPort, IrqGlobal
<1>2. /\ irq' \in [at : {"off", "port", "global"}, is : BOOLEAN]
      /\ {portIs', lineIs'} \subseteq BOOLEAN
  <2>1. /\ irq \in [at : {"off", "port", "global"}, is : BOOLEAN]
        /\ portIs \in BOOLEAN /\ lineIs \in BOOLEAN
    BY DEF IInv, TypeOK
  <2>2. CASE IrqEnter
    BY <2>1, <2>2 DEF IrqEnter
  <2>3. CASE IrqPort
    BY <2>1, <2>3 DEF IrqPort
  <2>4. CASE IrqGlobal
    BY <2>1, <2>4 DEF IrqGlobal
  <2> QED
    BY <2>2, <2>3, <2>4 DEF Irq
<1>3. TypeOK'
  BY <1>1, <1>2 DEF IInv, TypeOK, IsPrd
<1>4. (Shapes /\ Written /\ Busy)'
  BY <1>1 DEF IInv, Shapes, Written, Busy
<1>5. (ClearMeansDone /\ SlotUndisturbed /\ ReturnsAfterCompletion)'
  BY <1>1 DEF IInv, ClearMeansDone, SlotUndisturbed, ReturnsAfterCompletion
<1> QED
  BY <1>3, <1>4, <1>5 DEF IInv

-------------------------------------------------------------------------------
(* The port. *)

LEMMA PortFetchInv == IInv /\ PortFetch => IInv'
<1> SUFFICES ASSUME IInv, PortFetch PROVE IInv'
  OBVIOUS
<1>1. /\ ci /\ port.at = "idle"
      /\ port' = [at |-> "command", fis |-> slot.fis, prd |-> NoPrd]
      /\ UNCHANGED <<useInterrupts, slot, ci, calls, call, done, portIs, lineIs, irq,
                     result, exhausted>>
  BY DEF PortFetch
<1>2. port'.at = "command" /\ port'.fis = slot.fis /\ port'.prd = NoPrd
  BY <1>1
<1>3. TypeOK'
  <2>1. IsPrd(slot.prd)' /\ IsPrd(port.prd)'
    BY <1>1, <1>2, NoPrdTyped DEF IInv, TypeOK, IsPrd
  <2> QED
    BY <1>1, <1>2, <2>1 DEF IInv, TypeOK
<1>4. (Shapes /\ Written /\ Busy)'
  BY <1>1, <1>2 DEF IInv, Shapes, Written, Busy
<1>5. (ClearMeansDone /\ SlotUndisturbed /\ ReturnsAfterCompletion)'
  BY <1>1, <1>2 DEF IInv, ClearMeansDone, SlotUndisturbed, ReturnsAfterCompletion
<1> QED
  BY <1>3, <1>4, <1>5 DEF IInv

\* The table the port reads is that of its command: the call that polls has
\* written both.
LEMMA PortDataInv == IInv /\ PortData => IInv'
<1> SUFFICES ASSUME IInv, PortData PROVE IInv'
  OBVIOUS
<1>1. /\ port.at = "command" /\ port.fis.op # "flush"
      /\ port' = [at |-> "data", fis |-> port.fis, prd |-> slot.prd]
      /\ UNCHANGED <<useInterrupts, slot, ci, calls, call, done, portIs, lineIs, irq,
                     result, exhausted>>
  BY DEF PortData, IInv, Shapes
<1>2. port'.at = "data" /\ port'.fis = port.fis /\ port'.prd = slot.prd
  BY <1>1
<1>3. TypeOK'
  <2>1. IsPrd(slot.prd)' /\ IsPrd(port.prd)'
    BY <1>1, <1>2 DEF IInv, TypeOK, IsPrd
  <2> QED
    BY <1>1, <1>2, <2>1 DEF IInv, TypeOK
<1>4. (Shapes /\ Written /\ Busy)'
  BY <1>1, <1>2 DEF IInv, Shapes, Written, Busy
<1>5. SlotUndisturbed'
  <2> SUFFICES ASSUME ~exhausted PROVE SlotUndisturbed'
    BY <1>1 DEF SlotUndisturbed
  <2>1. call.at = "poll" /\ slot.fis.n = calls /\ port.fis = slot.fis
    BY <1>1 DEF IInv, SlotUndisturbed
  <2>2. slot.fis = Fis(calls, call.req) /\ Accepts(call.req) /\ slot.fis.op = call.req.op
    BY <2>1 DEF IInv, Written, Fis
  <2>3. slot.prd = PrdTable(calls, call.req.sectors)
    BY <1>1, <2>1, <2>2 DEF IInv, Written
  <2>4. slot.prd.n = calls
    BY <2>3 DEF PrdTable
  <2> QED
    BY <1>1, <1>2, <2>1, <2>4 DEF SlotUndisturbed
<1>6. (ClearMeansDone /\ ReturnsAfterCompletion)'
  BY <1>1 DEF IInv, ClearMeansDone, ReturnsAfterCompletion
<1> QED
  BY <1>3, <1>4, <1>5, <1>6 DEF IInv

LEMMA PortDoneInv == IInv /\ PortDone => IInv'
<1> SUFFICES ASSUME IInv, PortDone PROVE IInv'
  OBVIOUS
<1>1. /\ port.at \in {"data", "command"} /\ port.at # "idle"
      /\ ci' = FALSE /\ done' = done \cup {port.fis.n} /\ port' = Resting
      /\ portIs' = (portIs \/ useInterrupts) /\ lineIs' = (lineIs \/ useInterrupts)
      /\ UNCHANGED <<useInterrupts, slot, calls, call, irq, result, exhausted>>
  BY DEF PortDone
<1>2. port'.at = "idle" /\ port'.fis = NoFis /\ port'.prd = NoPrd
  BY <1>1 DEF Resting
<1>3. port.fis.n \in 1 .. MaxCalls
  <2>1. port.fis.n \in 0 .. MaxCalls /\ port.fis.n # 0
    BY <1>1 DEF IInv, TypeOK, Busy, FisType
  <2> QED
    BY <2>1, BoundAssumption
<1>4. TypeOK'
  <2>1. IsPrd(slot.prd)' /\ IsPrd(port.prd)'
    BY <1>1, <1>2, NoPrdTyped DEF IInv, TypeOK, IsPrd
  <2>2. {portIs', lineIs'} \subseteq BOOLEAN
    BY <1>1 DEF IInv, TypeOK
  <2> QED
    BY <1>1, <1>2, <1>3, <2>1, <2>2, NoFisTyped DEF IInv, TypeOK
<1>5. (Shapes /\ Written /\ Busy)'
  BY <1>1, <1>2 DEF IInv, Shapes, Written, Busy, Resting
<1>6. ClearMeansDone'
  BY <1>1 DEF IInv, ClearMeansDone, SlotUndisturbed
<1>7. (SlotUndisturbed /\ ReturnsAfterCompletion)'
  BY <1>1, <1>2 DEF IInv, SlotUndisturbed, ReturnsAfterCompletion
<1> QED
  BY <1>4, <1>5, <1>6, <1>7 DEF IInv

LEMMA NextInv == IInv /\ [Next]_vars => IInv'
<1> SUFFICES ASSUME IInv, [Next]_vars PROVE IInv'
  OBVIOUS
<1>1. CASE UNCHANGED vars
  BY <1>1 DEF vars, IInv, TypeOK, IsPrd, Shapes, Written, Busy, ClearMeansDone,
              SlotUndisturbed, ReturnsAfterCompletion
<1> QED
  BY <1>1, WriteFisInv, CallStepInv, IrqInv, PortFetchInv, PortDataInv, PortDoneInv
     DEF Next, Port

LEMMA Invariance == Spec => []IInv
<1>1. Init => IInv
  BY InitInv
<1>2. IInv /\ [Next]_vars => IInv'
  BY NextInv
<1> QED
  BY <1>1, <1>2, PTL DEF Spec

-------------------------------------------------------------------------------

\* The types of the command path: the bytes of a FIS are bytes and the table
\* stays inside its memory, for every byte width, table size and request.
THEOREM AhciTypeCorrect == Spec => []TypeOK
<1>1. IInv => TypeOK
  BY DEF IInv
<1> QED
  BY <1>1, Invariance, PTL

\* For every number of polls: as long as no call has run out of them, a call
\* returns only after the port has completed that very call's command.
THEOREM AhciReturnsAfterCompletion == Spec => []ReturnsAfterCompletion
<1>1. IInv => ReturnsAfterCompletion
  BY DEF IInv
<1> QED
  BY <1>1, Invariance, PTL

\* As long as no call has run out of polls, the driver never rebuilds slot 0
\* under a running command, and the port has the FIS and the table of one call.
THEOREM AhciSlotUndisturbed == Spec => []SlotUndisturbed
<1>1. IInv => SlotUndisturbed
  BY DEF IInv
<1> QED
  BY <1>1, Invariance, PTL

\* For every byte width, sector limit and table size, also when earlier calls
\* have run out of polls: the FIS decodes to the LBA and the sector count the
\* caller asked for.  Of the table it is shown where the buffer starts and which
\* entry is flagged, and that the length is not in it: all requests of up to
\* PrdCount sectors have the same table.
THEOREM AhciRequestInFis == Spec => []RequestInFis
<1>1. ASSUME IInv PROVE RequestInFis
  <2> SUFFICES ASSUME call.at \in {"issue", "poll"}, call.req.op # "flush"
               PROVE  RequestInFis
    BY DEF RequestInFis
  <2> DEFINE req == call.req
  <2>1. /\ req \in [op : Ops, lba : Nat, sectors : Nat] /\ Accepts(req)
        /\ slot.fis = Fis(calls, req) /\ slot.prd = PrdTable(calls, req.sectors)
        /\ calls \in 0 .. MaxCalls
    BY <1>1 DEF IInv, Shapes, Written, TypeOK
  <2>2. /\ slot.fis.n = calls /\ slot.fis.op = req.op
        /\ slot.fis.lba = LbaBytes(req.lba) /\ slot.fis.count = CountBytes(req.sectors)
    BY <2>1 DEF Fis
  <2>3. /\ req.lba \in Nat /\ req.sectors \in Nat
        /\ req.sectors \in 0 .. SectorLimit /\ req.sectors > 0
    BY <2>1, AcceptedSectors
  <2>4. req.lba < LbaLimit => DecodedLba(slot.fis.lba) = req.lba
    BY <2>2, <2>3, LbaDecodes
  <2>5. DecodedCount(slot.fis.count) = req.sectors
    <3>1. req.sectors <= SectorLimit
      BY <2>3, SizeAssumption
    <3> QED
      BY <2>2, <2>3, <3>1, CountDecodes
  <2>6. /\ slot.prd.n = calls
        /\ 0 \in DOMAIN slot.prd.base /\ slot.prd.base[0] = 0
        /\ \A i \in DOMAIN slot.prd.base :
              /\ i > 0 => slot.prd.base[i] = req.sectors * SectorSize
              /\ slot.prd.last[i] <=> i + 1 \notin DOMAIN slot.prd.base
    BY <2>1, <2>3, PrdFits
  <2>7. req.sectors <= PrdCount => slot.prd = PrdTable(calls, 1)
    <3>1. PrdCount \in Nat
      BY SizeAssumption
    <3>2. req.sectors <= PrdCount => req.sectors \in 1 .. PrdCount
      BY <2>3, <3>1
    <3> QED
      BY <2>1, <3>2, OneEntry
  <2> QED
    BY <2>2, <2>4, <2>5, <2>6, <2>7 DEF RequestInFis
<1> QED
  BY <1>1, Invariance, PTL
===============================================================================
