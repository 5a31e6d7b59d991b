--------------------------------- MODULE Ahci ---------------------------------
(***************************************************************************)
(* The command path of the ahci driver: ahci_read, ahci_write and          *)
(* ahci_flush (one caller at a time), its interrupt handler, and the port, *)
(* which share the memory of command slot 0 and the port's CI register.    *)
(*                                                                         *)
(* The driver uses the first implemented port and slot 0 only, so CI is a  *)
(* bit.  Byte and word sizes are parameters.  Calls the driver refuses (no *)
(* device, no buffer, sectors or LBA out of range) are stuttering steps.   *)
(*                                                                         *)
(* One idealisation: the port finds the FIS and the table.  In the code it *)
(* is never told of them: the FIS is written into the port's receive area, *)
(* and the table's address is stored in no header and no register.         *)
(***************************************************************************)
EXTENDS Integers

CONSTANTS
    Byte,           \* number of values of a byte, 256
    SectorLimit,    \* 256, the most sectors one command may move
    PrdCount,       \* AHCI_PRD_COUNT
    SectorSize,     \* AHCI_SECTOR_SIZE
    MaxChunk,       \* 0x200000, the most one PRD entry describes
    Retries,        \* the 10000 polls of a call
    WordSpan,       \* number of values of the uint32_t timeout
    Requests,       \* what callers ask for
    MaxCalls        \* bound: calls made in a behaviour

\* Shifting an LBA right by i bytes divides it by Weight[i + 1].
Weight ==
    LET b2 == Byte * Byte
    IN  <<1, Byte, b2, b2 * Byte, b2 * b2, b2 * b2 * Byte>>

LbaLimit == Weight[6] * Byte

Ops == {"read", "write", "flush"}

Min2(a, b) == IF a <= b THEN a ELSE b

ASSUME SizeAssumption ==
    /\ Byte \in Nat \ {0, 1} /\ SectorLimit \in 1 .. Byte * Byte - 1
    /\ PrdCount \in Nat \ {0} /\ SectorLimit <= PrdCount * PrdCount
    /\ SectorSize \in Nat \ {0}
    /\ MaxChunk \in Nat /\ SectorLimit * SectorSize <= MaxChunk
ASSUME TimerAssumption ==
    WordSpan \in Nat /\ Retries \in 1 .. WordSpan - 2
ASSUME RequestAssumption ==
    Requests \subseteq [op : Ops, lba : Nat, sectors : Nat]
ASSUME BoundAssumption == MaxCalls \in Nat

VARIABLES
    useInterrupts,  \* priv->use_interrupts: did irq_request succeed
    slot,           \* the FIS and the PRD table of command slot 0
    ci,             \* the slot's bit of the CI register
    calls,          \* calls made so far; also the number of the latest
    call,           \* the call in progress and its timeout counter
    port,           \* what the port is working on
    done,           \* calls whose command the port has completed
    portIs,         \* Px_IS has an enabled cause
    lineIs,         \* the port's bit of the global IS register
    irq,            \* the interrupt handler
    result,         \* the last return, and whether its command was done then
    exhausted       \* some call has used up its polls

vars == <<useInterrupts, slot, ci, calls, call, port, done, portIs, lineIs,
          irq, result, exhausted>>

-------------------------------------------------------------------------------
(* How a request is written down. *)

\* Mutant: the bytes are not cut to eight bits.
LbaBytesWide(lba) == [i \in 1 .. 6 |-> lba \div Weight[i]]

\* lba_low .. lba_high_exp, from the lowest byte up.
LbaBytes(lba) == [i \in 1 .. 6 |-> (lba \div Weight[i]) % Byte]

\* Mutant: the count has one byte.
CountBytesLow(sectors) == <<sectors % Byte, 0>>

CountBytes(sectors) == <<sectors % Byte, (sectors \div Byte) % Byte>>

\* The command FIS, with the number of the call it belongs to.
Fis(n, req) ==
    [n |-> n, op |-> req.op,
     lba |-> LbaBytes(IF req.op = "flush" THEN 0 ELSE req.lba),
     count |-> CountBytes(IF req.op = "flush" THEN 0 ELSE req.sectors)]

PrdLength(sectors) == (sectors + PrdCount - 1) \div PrdCount

\* The entries the driver fills for one buffer: the first takes the largest
\* chunk it can, the next starts where that one ends; the last is flagged.  An
\* entry has no field for its length: the chunk size moves the next base and is
\* stored nowhere.
PrdTable(n, sectors) ==
    LET bytes == sectors * SectorSize
        entries == 0 .. Min2(PrdLength(sectors), PrdCount) - 1
    IN  [n |-> n,
         base |-> [i \in entries |-> Min2(i * MaxChunk, bytes)],
         last |-> [i \in entries |-> i = PrdLength(sectors) - 1]]

NoFis == [n |-> 0, op |-> "flush", lba |-> LbaBytes(0), count |-> CountBytes(0)]

NoPrd == PrdTable(0, 0)

\* What the reader of a FIS makes of it.
DecodedLba(b) ==
    b[1] * Weight[1] + b[2] * Weight[2] + b[3] * Weight[3] + b[4] * Weight[4]
         + b[5] * Weight[5] + b[6] * Weight[6]

DecodedCount(c) == c[1] + c[2] * Byte

\* The argument checks: LBA 2^48 passes.
Accepts(req) ==
    \/ req.op = "flush"
    \/ req.sectors # 0 /\ req.sectors <= SectorLimit /\ req.lba <= LbaLimit

-------------------------------------------------------------------------------

Idle == [at |-> "idle", req |-> [op |-> "flush", lba |-> 0, sectors |-> 0],
         timeout |-> 0]

Resting == [at |-> "idle", fis |-> NoFis, prd |-> NoPrd]

\* ahci_probe: cleared slot memory, the port running, and interrupts enabled
\* only if the platform grants a handler.
Init ==
    /\ useInterrupts \in BOOLEAN
    /\ slot = [fis |-> NoFis, prd |-> NoPrd]
    /\ ci = FALSE
    /\ calls = 0
    /\ call = Idle
    /\ port = Resting
    /\ done = {}
    /\ portIs = FALSE /\ lineIs = FALSE
    /\ irq = [at |-> "off", is |-> FALSE]
    /\ result = [n |-> 0, ok |-> FALSE, done |-> FALSE]
    /\ exhausted = FALSE

(* ahci_read, ahci_write, ahci_flush *)

\* Mutant: the table of the previous command is used again.
WriteFisOnly(req) ==
    /\ call.at = "idle" /\ calls < MaxCalls
    /\ Accepts(req)
    /\ calls' = calls + 1
    /\ slot' = [slot EXCEPT !.fis = Fis(calls + 1, req)]
    /\ call' = [at |-> "issue", req |-> req, timeout |-> 0]
    /\ UNCHANGED <<useInterrupts, ci, port, done, portIs, lineIs, irq, result, exhausted>>

\* The FIS and the command header.
WriteFis(req) ==
    /\ call.at = "idle" /\ calls < MaxCalls
    /\ Accepts(req)
    /\ calls' = calls + 1
    /\ slot' = [slot EXCEPT !.fis = Fis(calls + 1, req)]
    /\ call' = [at |-> "prd", req |-> req, timeout |-> 0]
    /\ UNCHANGED <<useInterrupts, ci, port, done, portIs, lineIs, irq, result, exhausted>>

\* The PRD table; ahci_flush leaves it as it is.
WritePrd ==
    /\ call.at = "prd"
    /\ slot' = IF call.req.op = "flush" THEN slot
               ELSE [slot EXCEPT !.prd = PrdTable(calls, call.req.sectors)]
    /\ call' = [call EXCEPT !.at = "issue"]
    /\ UNCHANGED <<useInterrupts, ci, calls, port, done, portIs, lineIs, irq,
                   result, exhausted>>

\* The write to CI; a bit that is set stays set.
Issue ==
    /\ call.at = "issue"
    /\ ci' = TRUE
    /\ call' = [call EXCEPT !.at = "poll", !.timeout = Retries]
    /\ UNCHANGED <<useInterrupts, slot, calls, port, done, portIs, lineIs, irq,
                   result, exhausted>>

\* The test after the loop looks at what "timeout--" has left behind.
Return(timeout) ==
    /\ result' = [n |-> calls, ok |-> timeout # 0, done |-> calls \in done]
    /\ call' = Idle

\* Mutant: one poll is enough, whatever it finds.
PollOnce ==
    /\ call.at = "poll" /\ call.timeout # 0
    /\ Return(call.timeout - 1)
    /\ UNCHANGED <<useInterrupts, slot, ci, calls, port, done, portIs, lineIs,
                   irq, exhausted>>

\* A poll that finds CI clear leaves the loop.
PollClear ==
    /\ call.at = "poll" /\ call.timeout # 0 /\ ~ci
    /\ Return(call.timeout - 1)
    /\ UNCHANGED <<useInterrupts, slot, ci, calls, port, done, portIs, lineIs,
                   irq, exhausted>>

\* Mutant: polls are not counted.
PollBusyForever ==
    /\ call.at = "poll" /\ call.timeout # 0 /\ ci
    /\ UNCHANGED vars

\* A poll that finds it set sleeps and goes round.
PollBusy ==
    /\ call.at = "poll" /\ call.timeout # 0 /\ ci
    /\ call' = [call EXCEPT !.timeout = @ - 1]
    /\ UNCHANGED <<useInterrupts, slot, ci, calls, port, done, portIs, lineIs,
                   irq, result, exhausted>>

\* With no polls left the loop ends, after one more decrement.
PollOut ==
    /\ call.at = "poll" /\ call.timeout = 0
    /\ Return((call.timeout - 1) % WordSpan)
    /\ exhausted' = TRUE
    /\ UNCHANGED <<useInterrupts, slot, ci, calls, port, done, portIs, lineIs, irq>>

CallStep == WritePrd \/ Issue \/ PollClear \/ PollBusy \/ PollOut

-------------------------------------------------------------------------------
(* ahci_irq_handler *)

IrqEnter ==
    /\ useInterrupts /\ irq.at = "off" /\ lineIs
    /\ irq' = [at |-> "port", is |-> lineIs]
    /\ UNCHANGED <<useInterrupts, slot, ci, calls, call, port, done, portIs,
                   lineIs, result, exhausted>>

\* Mutant: Px_IS is read and not written back.
IrqPortRead ==
    /\ irq.at = "port"
    /\ irq' = [irq EXCEPT !.at = "global"]
    /\ UNCHANGED <<useInterrupts, slot, ci, calls, call, port, done, portIs, lineIs,
                   result, exhausted>>

\* Px_IS is read and written back.
IrqPort ==
    /\ irq.at = "port"
    /\ portIs' = FALSE
    /\ irq' = [irq EXCEPT !.at = "global"]
    /\ UNCHANGED <<useInterrupts, slot, ci, calls, call, port, done, lineIs,
                   result, exhausted>>

\* The IS value read on entry is written back; the controller keeps the bit
\* of a port that still has a cause.
IrqGlobal ==
    /\ irq.at = "global"
    /\ lineIs' = IF irq.is THEN portIs ELSE lineIs
    /\ irq' = [at |-> "off", is |-> FALSE]
    /\ UNCHANGED <<useInterrupts, slot, ci, calls, call, port, done, portIs,
                   result, exhausted>>

Irq == IrqEnter \/ IrqPort \/ IrqGlobal

-------------------------------------------------------------------------------
(* The port: once CI is set it reads the FIS, then the PRD table if data   *)
(* moves, and clears CI when it is through; or it stops and never does.    *)
(* That it finds the FIS and the table in the slot is the idealisation the *)
(* header names.                                                           *)

PortFetch ==
    /\ ci /\ port.at = "idle"
    /\ port' = [at |-> "command", fis |-> slot.fis, prd |-> NoPrd]
    /\ UNCHANGED <<useInterrupts, slot, ci, calls, call, done, portIs, lineIs,
                   irq, result, exhausted>>

PortData ==
    /\ port.at = "command" /\ port.fis.op # "flush"
    /\ port' = [port EXCEPT !.at = "data", !.prd = slot.prd]
    /\ UNCHANGED <<useInterrupts, slot, ci, calls, call, done, portIs, lineIs,
                   irq, result, exhausted>>

PortDone ==
    /\ \/ port.at = "data"
       \/ port.at = "command" /\ port.fis.op = "flush"
    /\ ci' = FALSE
    /\ done' = done \cup {port.fis.n}
    /\ port' = Resting
    /\ portIs' = (portIs \/ useInterrupts)
    /\ lineIs' = (lineIs \/ useInterrupts)
    /\ UNCHANGED <<useInterrupts, slot, calls, call, irq, result, exhausted>>

Port == PortFetch \/ PortData \/ PortDone

-------------------------------------------------------------------------------

Next == (\E req \in Requests : WriteFis(req)) \/ CallStep \/ Irq \/ Port

Spec == Init /\ [][Next]_vars

\* The caller and the handler are scheduled; the port may never answer.
LiveSpec == Spec /\ WF_vars(CallStep) /\ WF_vars(Irq)

-------------------------------------------------------------------------------
(* Properties *)

FisType ==
    [n : 0 .. MaxCalls, op : Ops, lba : [1 .. 6 -> 0 .. Byte - 1],
     count : (0 .. Byte - 1) \X (0 .. Byte - 1)]

IsPrd(p) ==
    /\ p.n \in 0 .. MaxCalls
    /\ \A i \in DOMAIN p.base : p.base[i] \in 0 .. SectorLimit * SectorSize
    /\ DOMAIN p.base \subseteq 0 .. PrdCount - 1

\* Type invariant of the ahci command path.
TypeOK ==
    /\ {useInterrupts, ci, portIs, lineIs, exhausted} \subseteq BOOLEAN
    /\ calls \in 0 .. MaxCalls /\ done \subseteq 1 .. MaxCalls
    /\ slot.fis \in FisType /\ IsPrd(slot.prd)
    /\ call.at \in {"idle", "prd", "issue", "poll"} /\ call.timeout \in 0 .. Retries
    /\ port.at \in {"idle", "command", "data"} /\ port.fis \in FisType /\ IsPrd(port.prd)
    /\ irq \in [at : {"off", "port", "global"}, is : BOOLEAN]
    /\ result \in [n : 0 .. MaxCalls, ok : BOOLEAN, done : BOOLEAN]

\* As long as no call has run out of polls, a call returns, with either
\* value, only after the port has completed that very call's command.
ReturnsAfterCompletion == ~exhausted /\ result.n # 0 => result.done

\* As long as no call has run out of polls, the port works with the FIS and
\* the PRD table of one and the same call, the one that is polling: the
\* driver never rebuilds slot 0 under a running command.
SlotUndisturbed ==
    ~exhausted =>
        /\ ci \/ port.at # "idle" => call.at = "poll" /\ slot.fis.n = calls
        /\ port.at # "idle" => port.fis = slot.fis
        /\ port.at = "data" => port.prd = slot.prd /\ port.prd.n = port.fis.n

\* Of what the caller asked for, the FIS holds everything but the buffer: its
\* bytes decode to the LBA and to the sector count (256 sectors included).  The
\* LBA one past the 48-bit range, which the driver accepts, is left out here.
\* The PRD table holds where the buffer starts and which entry is the last.  It
\* does not hold how long the buffer is: up to PrdCount sectors it is the table
\* of one sector, and any further entries start where the buffer ends.
RequestInFis ==
    call.at \in {"issue", "poll"} /\ call.req.op # "flush" =>
        /\ slot.fis.n = calls /\ slot.fis.op = call.req.op
        /\ call.req.lba < LbaLimit => DecodedLba(slot.fis.lba) = call.req.lba
        /\ DecodedCount(slot.fis.count) = call.req.sectors
        /\ call.req.sectors <= PrdCount => slot.prd = PrdTable(calls, 1)
        /\ LET base == slot.prd.base IN
           /\ slot.prd.n = calls /\ 0 \in DOMAIN base /\ base[0] = 0
           /\ \A i \in DOMAIN base :
                 /\ i > 0 => base[i] = call.req.sectors * SectorSize
                 /\ slot.prd.last[i] <=> i + 1 \notin DOMAIN base

\* Every call returns, whether or not the port ever completes its command.
CallReturns == call.at # "idle" ~> call.at = "idle"

\* Every cause the port raises is acknowledged, also one that comes up while
\* the handler is between its two acknowledgements.
CauseAcknowledged == portIs ~> ~portIs

\* A call that reports success has waited for its command.
SuccessMeansDone == result.ok => result.done
===============================================================================
