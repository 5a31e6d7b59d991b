--------------------------------- MODULE Nvme ---------------------------------
(***************************************************************************)
(* The command path of the nvme driver: nvme_read, nvme_write and          *)
(* nvme_flush (one caller at a time), its interrupt handler, and the       *)
(* controller, which share the submission and completion queues.  The      *)
(* driver takes no lock and nothing keeps the handler on the caller's      *)
(* processor: the two interleave at every access to cq_head.               *)
(*                                                                         *)
(* The n-th command written to the submission queue is called n; what it   *)
(* transfers plays no part in how its completion is found.  A status word  *)
(* is 2 * code + phase, as the controller writes it.  Calls the driver     *)
(* refuses (no device, no buffer, sector count or LBA out of range) return *)
(* -1 and change nothing, so they are stuttering steps.                    *)
(***************************************************************************)
EXTENDS Integers, FiniteSets

CONSTANTS
    QueueSize,      \* NVME_QUEUE_SIZE
    TailSpan,       \* number of values of the uint16_t sq_tail
    Retries,        \* the 10000 polls of a call
    Failing,        \* the commands that fail, if they are completed
    MaxCommands     \* bound: commands issued in a behaviour

ASSUME QueueAssumption == QueueSize \in Nat \ {0, 1}
ASSUME SpanAssumption == TailSpan \in Nat \ {0} /\ TailSpan % QueueSize = 0
ASSUME RetryAssumption == Retries \in Nat \ {0}
ASSUME BoundAssumption == MaxCommands \in Nat

VARIABLES
    useInterrupts,  \* priv->use_interrupts: did irq_request succeed
    sq,             \* submission queue: the command in each slot
    sqTail,         \* priv->sq_tail
    cq,             \* completion queue: status word and command of each slot
    cqHead,         \* priv->cq_head
    issued,         \* commands issued so far; also the latest command
    call,           \* the read, write or flush in progress
    irq,            \* the interrupt handler
    irqPending,     \* the controller has raised an interrupt nobody has taken
    ctrl,           \* the controller's queue pointers
    executing,      \* commands the controller has fetched and not completed
    outcome,        \* what the controller reported for each command
    result,         \* the last return: the command, the value, the outcome then
    abandoned,      \* commands whose call gave up before it saw a completion
    level           \* history: nothing was left over when the last call began

driverVars == <<sq, sqTail, cqHead, issued, call, result, abandoned, level>>
ctrlVars == <<cq, ctrl, executing, outcome>>
vars == <<useInterrupts, driverVars, ctrlVars, irq, irqPending>>

Slots == 0 .. QueueSize - 1

Commands == 1 .. MaxCommands

Outcomes == {"none", "ok", "failed"}

Returns == {"none", "ok", "error", "timeout"}

\* Status words: code 0 is success, and the phase bit tells laps apart.
StatusWord(code, phase) == 2 * code + phase

NextSlot(s) == (s + 1) % QueueSize

\* A call and the handler keep the cq_head they have read, and the value for
\* the doorbell.
Idle == [at |-> "idle", head |-> 0, bell |-> 0, budget |-> 0]

IrqOff == [at |-> "off", head |-> 0, bell |-> 0]

\* nvme_probe: zeroed queues, the controller enabled, and an interrupt
\* handler only if the platform grants one.
Init ==
    /\ useInterrupts \in BOOLEAN
    /\ sq = [s \in Slots |-> 0]
    /\ sqTail = 0
    /\ cq = [s \in Slots |-> [status |-> 0, cmd |-> 0]]
    /\ cqHead = 0
    /\ issued = 0
    /\ call = Idle
    /\ irq = IrqOff
    /\ irqPending = FALSE
    /\ ctrl = [sqHead |-> 0, sqTail |-> 0, cqHead |-> 0, cqTail |-> 0, phase |-> 1]
    /\ executing = {}
    /\ outcome = [c \in Commands |-> "none"]
    /\ result = [cmd |-> 0, ret |-> "none", was |-> "none"]
    /\ abandoned = {}
    /\ level = TRUE

-------------------------------------------------------------------------------
(* nvme_read, nvme_write, nvme_flush *)

\* Every earlier command has been answered and its entry passed, and no
\* handler is about to act on an older head.
Level ==
    /\ \A c \in 1 .. issued : outcome[c] # "none"
    /\ cqHead = ctrl.cqTail
    /\ irq.at \in {"test", "take"} => irq.head = cqHead

\* The command is built in the slot under sq_tail, which then moves on.
Submit ==
    /\ call.at = "idle" /\ issued < MaxCommands
    /\ issued' = issued + 1
    /\ sq' = [sq EXCEPT ![sqTail % QueueSize] = issued + 1]
    /\ sqTail' = (sqTail + 1) % TailSpan
    /\ call' = [call EXCEPT !.at = "ring"]
    /\ level' = Level
    /\ UNCHANGED <<useInterrupts, cqHead, result, abandoned, ctrlVars, irq, irqPending>>

\* The submission doorbell gets the 16-bit tail itself, not the slot.  A
\* value the queue does not have is either ignored or reduced.
RingSubmission ==
    /\ call.at = "ring"
    /\ \/ ctrl' = [ctrl EXCEPT !.sqTail = sqTail % QueueSize]
       \/ sqTail >= QueueSize /\ UNCHANGED ctrl
    /\ call' = [call EXCEPT !.at = "poll", !.budget = Retries]
    /\ UNCHANGED <<useInterrupts, sq, sqTail, cqHead, issued, result, abandoned, level,
                   cq, executing, outcome, irq, irqPending>>

Return(ret) ==
    /\ result' = [cmd |-> issued, ret |-> ret, was |-> outcome[issued]]
    /\ call' = Idle
    /\ abandoned' = IF ret = "timeout" THEN abandoned \cup {issued} ELSE abandoned

\* A poll reads cq_head,
PollRead ==
    /\ call.at = "poll"
    /\ call' = [call EXCEPT !.at = "test", !.head = cqHead]
    /\ UNCHANGED <<useInterrupts, sq, sqTail, cqHead, issued, result, abandoned, level,
                   ctrlVars, irq, irqPending>>

\* Mutant: the poll budget is never used up.
PollMissForever ==
    /\ call.at = "test"
    /\ cq[call.head].status = 0
    /\ call' = [call EXCEPT !.at = "poll"]
    /\ UNCHANGED <<useInterrupts, sq, sqTail, cqHead, issued, result, abandoned, level,
                   ctrlVars, irq, irqPending>>

\* and finds no status in that entry; the last poll gives up.
PollMiss ==
    /\ call.at = "test"
    /\ cq[call.head].status = 0
    /\ IF call.budget = 1
       THEN Return("timeout")
       ELSE /\ call' = [call EXCEPT !.at = "poll", !.budget = @ - 1]
            /\ UNCHANGED <<result, abandoned>>
    /\ UNCHANGED <<useInterrupts, sq, sqTail, cqHead, issued, level, ctrlVars, irq,
                   irqPending>>

\* Mutant: an entry is taken without looking for a status.
PollHitBlind ==
    /\ call.at = "test"
    /\ call' = [call EXCEPT !.at = "take"]
    /\ UNCHANGED <<useInterrupts, sq, sqTail, cqHead, issued, result, abandoned, level,
                   ctrlVars, irq, irqPending>>

\* A poll that finds one
PollHit ==
    /\ call.at = "test"
    /\ cq[call.head].status # 0
    /\ call' = [call EXCEPT !.at = "take"]
    /\ UNCHANGED <<useInterrupts, sq, sqTail, cqHead, issued, result, abandoned, level,
                   ctrlVars, irq, irqPending>>

\* Mutants: cq_head is not reduced modulo the queue size; cq_head stays.
PollTakeTo(head) ==
    /\ call.at = "take"
    /\ cqHead' = head
    /\ call' = [call EXCEPT !.at = "load"]
    /\ UNCHANGED <<useInterrupts, sq, sqTail, issued, result, abandoned, level,
                   ctrlVars, irq, irqPending>>

PollTakeUnwrapped == PollTakeTo(call.head + 1)

PollTakeStays == PollTakeTo(call.head)

\* sets cq_head to the entry after the one it looked at, wherever the handler
\* has moved it meanwhile,
PollTake ==
    /\ call.at = "take"
    /\ cqHead' = NextSlot(call.head)
    /\ call' = [call EXCEPT !.at = "load"]
    /\ UNCHANGED <<useInterrupts, sq, sqTail, issued, result, abandoned, level,
                   ctrlVars, irq, irqPending>>

\* prepares the doorbell value, for which a build may keep what it has just
\* stored or read cq_head again,
PollLoad ==
    /\ call.at = "load"
    /\ \E value \in {NextSlot(call.head), cqHead} :
          call' = [call EXCEPT !.at = "release", !.bell = value]
    /\ UNCHANGED <<useInterrupts, sq, sqTail, cqHead, issued, result, abandoned, level,
                   ctrlVars, irq, irqPending>>

\* gives the entry back to the controller,
PollRelease ==
    /\ call.at = "release"
    /\ ctrl' = [ctrl EXCEPT !.cqHead = call.bell]
    /\ call' = [call EXCEPT !.at = "judge", !.bell = 0]
    /\ UNCHANGED <<useInterrupts, sq, sqTail, cqHead, issued, result, abandoned, level,
                   cq, executing, outcome, irq, irqPending>>

\* Mutant: the phase bit is taken for a part of the status code.
PollJudgePhase ==
    /\ call.at = "judge"
    /\ Return(IF cq[call.head].status # 0 THEN "error" ELSE "ok")
    /\ UNCHANGED <<useInterrupts, sq, sqTail, cqHead, issued, level, ctrlVars, irq,
                   irqPending>>

\* and then reads the entry once more to see whether it was an error.
PollJudge ==
    /\ call.at = "judge"
    /\ Return(IF cq[call.head].status \div 2 # 0 THEN "error" ELSE "ok")
    /\ UNCHANGED <<useInterrupts, sq, sqTail, cqHead, issued, level, ctrlVars, irq,
                   irqPending>>

CallStep == RingSubmission \/ PollRead \/ PollMiss \/ PollHit \/ PollTake \/ PollLoad
            \/ PollRelease \/ PollJudge

Call == Submit \/ CallStep

-------------------------------------------------------------------------------
(* nvme_irq_handler.  It does not interrupt itself. *)

\* Reads cq_head,
IrqEnter ==
    /\ useInterrupts /\ irqPending /\ irq.at = "off"
    /\ irqPending' = FALSE
    /\ irq' = [irq EXCEPT !.at = "test", !.head = cqHead]
    /\ UNCHANGED <<useInterrupts, driverVars, ctrlVars>>

\* and with no status in that entry returns.
IrqTest ==
    /\ irq.at = "test"
    /\ irq' = IF cq[irq.head].status # 0 THEN [irq EXCEPT !.at = "take"] ELSE IrqOff
    /\ UNCHANGED <<useInterrupts, driverVars, ctrlVars, irqPending>>

\* Otherwise it sets cq_head in its turn,
IrqTake ==
    /\ irq.at = "take"
    /\ cqHead' = NextSlot(irq.head)
    /\ irq' = [irq EXCEPT !.at = "load"]
    /\ UNCHANGED <<useInterrupts, sq, sqTail, issued, call, result, abandoned, level,
                   ctrlVars, irqPending>>

\* and rings the doorbell, with the value it stored or read again.
IrqLoad ==
    /\ irq.at = "load"
    /\ \E value \in {NextSlot(irq.head), cqHead} :
          irq' = [irq EXCEPT !.at = "release", !.bell = value]
    /\ UNCHANGED <<useInterrupts, driverVars, ctrlVars, irqPending>>

IrqRelease ==
    /\ irq.at = "release"
    /\ ctrl' = [ctrl EXCEPT !.cqHead = irq.bell]
    /\ irq' = IrqOff
    /\ UNCHANGED <<useInterrupts, driverVars, cq, executing, outcome, irqPending>>

Irq == IrqEnter \/ IrqTest \/ IrqTake \/ IrqLoad \/ IrqRelease

-------------------------------------------------------------------------------
(* The controller: it fetches commands up to the tail it was told,         *)
(* completes them in any order and any time later, and posts completions   *)
(* with the phase of its lap as long as the queue has room.                *)

Fetch ==
    /\ ctrl.sqHead # ctrl.sqTail
    /\ executing' = executing \cup ({sq[ctrl.sqHead]} \ {0})
    /\ ctrl' = [ctrl EXCEPT !.sqHead = NextSlot(@)]
    /\ UNCHANGED <<useInterrupts, driverVars, cq, outcome, irq, irqPending>>

Complete(c, code) ==
    /\ c \in executing
    /\ NextSlot(ctrl.cqTail) # ctrl.cqHead
    /\ executing' = executing \ {c}
    /\ outcome' = [outcome EXCEPT ![c] = IF code = 0 THEN "ok" ELSE "failed"]
    /\ cq' = [cq EXCEPT ![ctrl.cqTail] =
                 [status |-> StatusWord(code, ctrl.phase), cmd |-> c]]
    /\ ctrl' = [ctrl EXCEPT
                   !.cqTail = NextSlot(@),
                   !.phase = IF NextSlot(ctrl.cqTail) = 0 THEN 1 - @ ELSE @]
    /\ irqPending' = useInterrupts
    /\ UNCHANGED <<useInterrupts, driverVars, irq>>

-------------------------------------------------------------------------------

Next ==
    \/ Call
    \/ Irq
    \/ Fetch
    \/ \E c \in Commands : Complete(c, IF c \in Failing THEN 1 ELSE 0)

Spec == Init /\ [][Next]_vars

\* The caller and the handler are scheduled; nothing is assumed of the
\* controller, which may never answer.
LiveSpec ==
    /\ Spec
    /\ WF_vars(CallStep)
    /\ WF_vars(Irq)

-------------------------------------------------------------------------------
(* Properties *)

\* Type invariant of the nvme command path.
TypeOK ==
    /\ useInterrupts \in BOOLEAN /\ irqPending \in BOOLEAN
    /\ sq \in [Slots -> 0 .. MaxCommands]
    /\ sqTail \in 0 .. TailSpan - 1
    /\ cq \in [Slots -> [status : 0 .. 3, cmd : 0 .. MaxCommands]]
    /\ cqHead \in Slots
    /\ issued \in 0 .. MaxCommands
    /\ call \in [at : {"idle", "ring", "poll", "test", "take", "load", "release", "judge"},
                 head : Slots, bell : Slots, budget : 0 .. Retries]
    /\ irq \in [at : {"off", "test", "take", "load", "release"},
                head : Slots, bell : Slots]
    /\ ctrl \in [sqHead : Slots, sqTail : Slots, cqHead : Slots, cqTail : Slots,
                 phase : {0, 1}]
    /\ executing \in SUBSET Commands
    /\ outcome \in [Commands -> Outcomes]
    /\ result \in [cmd : 0 .. MaxCommands, ret : Returns, was : Outcomes]
    /\ abandoned \in SUBSET Commands /\ level \in BOOLEAN

\* Every doorbell value so far was a slot number, so both queues are in
\* their first lap.
FirstLap == issued < QueueSize

\* A call that has not yet moved cq_head.
Waiting == call.at \in {"ring", "poll", "test", "take"}

\* In the first lap, a call that began with nothing left over returns exactly
\* what the controller reported for its own command, or a timeout, however its
\* steps and the handler's overlap.  What spoils the answers of other calls is
\* an entry left over by a call that gave up, or a handler that was overtaken
\* and whose late write sets cq_head back to an older entry; once cq_head has
\* caught up, answers are right again.
OwnCompletion ==
    FirstLap /\ level /\ result.cmd = issued =>
        /\ result.ret = "ok" => result.was = "ok"
        /\ result.ret = "error" => result.was = "failed"

\* In the first lap neither cq_head nor the head the controller is told passes
\* the completions the controller has posted, although caller and handler read
\* and write cq_head without a lock: a late write moves it back, never ahead.
\* Without a handler the controller's head does not pass the driver's either.
HeadBehindTail ==
    FirstLap =>
        /\ cqHead <= ctrl.cqTail /\ ctrl.cqHead <= ctrl.cqTail
        /\ \A s \in Slots : cq[s].status # 0 <=> s < ctrl.cqTail
        /\ ~useInterrupts => ctrl.cqHead <= cqHead

\* In the first lap without interrupts, each command is answered by one
\* completion entry or its call gave up: a call that times out puts the
\* driver one entry behind for good, and never more than one.
OneEntryPerCall ==
    FirstLap /\ ~useInterrupts =>
        issued - cqHead = Cardinality(abandoned) + (IF Waiting THEN 1 ELSE 0)

\* Every call returns, whether or not the controller ever answers and
\* whatever the handler takes away.
CallReturns == call.at # "idle" ~> call.at = "idle"

\* A call that reports a timeout was not answered by the controller: whatever
\* else consumes completions, the caller whose command completed learns it.
TimeoutMeansSilence == result.ret = "timeout" => result.was = "none"
===============================================================================
