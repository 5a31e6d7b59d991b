------------------------------ MODULE NvmeProofs ------------------------------
(***************************************************************************)
(* The command path of nvme in its first lap, for every queue size, number *)
(* of polls, number of commands and set of commands that fail, without     *)
(* interrupts and with a handler that overlaps the calls at every access   *)
(* to cq_head.  (What happens after the first lap, when the doorbell       *)
(* values are no longer slot numbers, is not claimed; the types hold       *)
(* throughout.)                                                            *)
(***************************************************************************)
EXTENDS Nvme, FiniteSetTheorems, TLAPS

\* The call in progress works for the latest command, which nobody has given
\* up, and the handler runs only if it was granted.
Calls ==
    /\ abandoned \subseteq 1 .. issued
    /\ call.at # "idle" => issued \in Commands \ abandoned /\ result.cmd < issued
    /\ result.cmd <= issued
    /\ call.at \in {"poll", "test"} => call.budget # 0
    /\ irq.at # "off" => useInterrupts

\* The submission queue holds the commands in order, and the controller has
\* been told of all but one that is being handed over.
Submission ==
    /\ sqTail = issued
    /\ \A s \in Slots : sq[s] = IF s < issued THEN s + 1 ELSE 0
    /\ ctrl.sqTail = issued - (IF call.at = "ring" THEN 1 ELSE 0)
    /\ ctrl.sqHead <= ctrl.sqTail
    /\ executing \subseteq 1 .. ctrl.sqHead

Answered == {c \in Commands : outcome[c] # "none"}

\* Each command the controller has answered has one entry, and the entries
\* before its tail, no others, have a status.
Completions ==
    /\ ctrl.phase = 1
    /\ Answered \subseteq (1 .. ctrl.sqHead) \ executing
    /\ Cardinality(Answered) = ctrl.cqTail
    /\ \A s \in Slots : cq[s].status # 0 <=> s < ctrl.cqTail
    /\ \A s \in Slots : s < ctrl.cqTail =>
          cq[s].status = IF outcome[cq[s].cmd] = "ok" THEN 1 ELSE 3
    /\ \A s \in Slots : s < ctrl.cqTail => cq[s].cmd \in Answered

\* Every head anybody has found a status at is that of an entry with one, and
\* no value anybody puts into cq_head or the doorbell is behind the last.
Heads ==
    /\ cqHead <= ctrl.cqTail /\ ctrl.cqHead <= ctrl.cqTail
    /\ call.at \in {"take", "load", "release", "judge"} => call.head < ctrl.cqTail
    /\ call.at = "release" => call.bell <= ctrl.cqTail
    /\ irq.at \in {"take", "load", "release"} => irq.head < ctrl.cqTail
    /\ irq.at = "release" => irq.bell <= ctrl.cqTail

\* Without a handler, only the call moves the head.
Polled ==
    ~useInterrupts =>
        /\ ctrl.cqHead <= cqHead
        /\ call.at \in {"test", "take"} => call.head = cqHead
        /\ call.at = "load" => NextSlot(call.head) = cqHead
        /\ call.at = "release" => call.bell = cqHead
        /\ issued - cqHead = Cardinality(abandoned) + (IF Waiting THEN 1 ELSE 0)

\* The call began level: only its own command is open, and whoever has read a
\* head since, or had read one then, has that of its entry or the one after.
InStep ==
    level /\ call.at # "idle" =>
        /\ \A c \in 1 .. issued - 1 : c \in Answered
        /\ issued - 1 <= cqHead /\ issued - 1 <= ctrl.cqTail
        /\ issued - 1 < ctrl.cqTail => cq[issued - 1].cmd = issued
        /\ call.at \in {"test", "take", "load", "release", "judge"} => issued - 1 <= call.head
        /\ irq.at \in {"test", "take"} => issued - 1 <= irq.head

\* What the last call returned, if it began level.
Answer ==
    level /\ result.cmd = issued =>
        /\ result.ret = "ok" => result.was = "ok"
        /\ result.ret = "error" => result.was = "failed"

Lap == Submission /\ Completions /\ Heads /\ Polled /\ InStep /\ Answer

IInv == TypeOK /\ Calls /\ (FirstLap => Lap)

-------------------------------------------------------------------------------
(* Facts the steps share. *)

LEMMA SpanCoversLap == TailSpan \in Nat \ {0} /\ QueueSize \in Nat \ {0, 1} /\ QueueSize <= TailSpan
<1>1. TailSpan \in Nat \ {0} /\ QueueSize \in Nat \ {0, 1} /\ TailSpan % QueueSize = 0
  BY SpanAssumption, QueueAssumption
<1>2. TailSpan < QueueSize => TailSpan % QueueSize = TailSpan
  BY <1>1
<1> QED
  BY <1>1, <1>2

LEMMA SlotFacts ==
    /\ 0 \in Slots
    /\ \A s \in Slots : (s + 1) % QueueSize \in Slots
    /\ \A s \in Slots : s + 1 < QueueSize => (s + 1) % QueueSize = s + 1
    /\ \A s \in Slots : s % QueueSize = s
BY QueueAssumption DEF Slots

\* Sets of commands are finite, and one more element counts one more.
LEMMA CommandSets ==
    ASSUME NEW n \in Nat, NEW S \in SUBSET (1 .. n)
    PROVE  /\ Cardinality(S) \in Nat /\ Cardinality(S) <= n
           /\ \A c \in 1 .. n : c \notin S => Cardinality(S \cup {c}) = Cardinality(S) + 1
<1>1. IsFiniteSet(1 .. n) /\ Cardinality(1 .. n) = n
  BY FS_Interval
<1>2. IsFiniteSet(S) /\ Cardinality(S) <= n
  BY <1>1, FS_Subset
<1>3. Cardinality(S) \in Nat
  BY <1>2, FS_CardinalityType
<1>4. \A c \in 1 .. n : c \notin S => Cardinality(S \cup {c}) = Cardinality(S) + 1
  BY <1>2, FS_AddElement
<1> QED
  BY <1>2, <1>3, <1>4

\* The types of the numbers, as the arithmetic wants them.
LEMMA Numbers ==
    ASSUME IInv
    PROVE  /\ QueueSize \in Nat \ {0, 1} /\ MaxCommands \in Nat
           /\ issued \in Nat /\ issued <= MaxCommands /\ sqTail \in Nat
           /\ cqHead \in Nat /\ cqHead < QueueSize /\ cqHead \in Slots
           /\ call.head \in Nat /\ call.head \in Slots
           /\ irq.head \in Nat /\ irq.head \in Slots
           /\ call.bell \in Nat /\ call.bell \in Slots
           /\ irq.bell \in Nat /\ irq.bell \in Slots
           /\ ctrl.sqHead \in Nat /\ ctrl.sqHead \in Slots
           /\ ctrl.sqTail \in Nat /\ ctrl.sqTail \in Slots
           /\ ctrl.cqHead \in Nat /\ ctrl.cqHead \in Slots
           /\ ctrl.cqTail \in Nat /\ ctrl.cqTail \in Slots
           /\ Cardinality(abandoned) \in Nat
<1>1. \A s \in Slots : s \in Nat /\ s < QueueSize
  BY QueueAssumption DEF Slots
<1>2. Cardinality(abandoned) \in Nat
  <2>1. issued \in Nat /\ abandoned \in SUBSET (1 .. issued)
    BY BoundAssumption DEF IInv, TypeOK, Calls
  <2> QED
    BY <2>1, CommandSets
<1> QED
  BY <1>1, <1>2, QueueAssumption, SpanAssumption, BoundAssumption DEF IInv, TypeOK

\* In the first lap nothing has reached the end of a queue.
LEMMA LapBounds ==
    ASSUME IInv, FirstLap
    PROVE  /\ Lap
           /\ ctrl.cqTail <= ctrl.sqHead /\ ctrl.sqHead <= issued /\ issued < QueueSize
           /\ issued \in Slots /\ issued \in Nat /\ ctrl.cqTail \in Nat
<1>1. Lap
  BY DEF IInv
<1>2. ctrl.cqTail <= ctrl.sqHead
  <2>1. Answered \in SUBSET (1 .. ctrl.sqHead)
    BY <1>1 DEF Lap, Completions
  <2>2. Cardinality(Answered) <= ctrl.sqHead
    BY <2>1, Numbers, CommandSets
  <2> QED
    BY <1>1, <2>2 DEF Lap, Completions
<1>3. ctrl.sqHead <= issued
  BY <1>1, Numbers DEF Lap, Submission
<1> QED
  BY <1>1, <1>2, <1>3, Numbers DEF FirstLap, Slots

\* The slot after one with an entry is the next number: nothing wraps yet.
LEMMA NextInLap ==
    ASSUME IInv, FirstLap, NEW s \in Slots, s < ctrl.cqTail
    PROVE  NextSlot(s) = s + 1
<1>1. s + 1 < QueueSize
  BY LapBounds, Numbers DEF Slots
<1> QED
  BY <1>1, SlotFacts DEF NextSlot

\* A step of the call or the handler that touches neither queue.
LEMMA QueuesStay ==
    ASSUME Lap, (call.at = "ring") <=> (call'.at = "ring"),
           UNCHANGED <<issued, sq, sqTail, cq, executing, outcome>>,
           ctrl'.sqHead = ctrl.sqHead, ctrl'.sqTail = ctrl.sqTail,
           ctrl'.cqTail = ctrl.cqTail, ctrl'.phase = ctrl.phase
    PROVE  Submission' /\ Completions'
BY DEF Lap, Submission, Completions, Answered

-------------------------------------------------------------------------------
(* The initial state. *)

LEMMA InitInv == Init => IInv
<1> SUFFICES ASSUME Init PROVE IInv
  OBVIOUS
<1>1. /\ 0 \in Slots /\ 0 \in 0 .. TailSpan - 1 /\ 0 \in 0 .. MaxCommands
      /\ 0 \in 0 .. Retries
  BY SlotFacts, SpanCoversLap, BoundAssumption, RetryAssumption
<1>2. TypeOK
  <2>1. call \in [at : {"idle", "ring", "poll", "test", "take", "load", "release", "judge"},
                 head : Slots, bell : Slots, budget : 0 .. Retries]
    BY <1>1 DEF Init, Idle
  <2>2. /\ irq \in [at : {"off", "test", "take", "load", "release"},
                    head : Slots, bell : Slots]
        /\ ctrl \in [sqHead : Slots, sqTail : Slots, cqHead : Slots, cqTail : Slots,
                     phase : {0, 1}]
    BY <1>1 DEF Init, IrqOff
  <2>3. /\ cq \in [Slots -> [status : 0 .. 3, cmd : 0 .. MaxCommands]]
        /\ sq \in [Slots -> 0 .. MaxCommands]
    BY <1>1 DEF Init
  <2>4. /\ outcome \in [Commands -> Outcomes]
        /\ result \in [cmd : 0 .. MaxCommands, ret : Returns, was : Outcomes]
    BY <1>1 DEF Init, Outcomes, Returns
  <2> QED
    BY <1>1, <2>1, <2>2, <2>3, <2>4 DEF Init, TypeOK
<1>3. Calls
  BY DEF Init, Calls, Idle, IrqOff
<1>4. Answered = {} /\ Cardinality({}) = 0
  BY FS_EmptySet DEF Init, Answered
<1>5. Submission
  <2>1. \A s \in Slots : sq[s] = 0 /\ ~(s < 0)
    BY QueueAssumption DEF Init, Slots
  <2>2. \A s \in Slots : sq[s] = IF s < issued THEN s + 1 ELSE 0
    BY <2>1 DEF Init
  <2>3. /\ sqTail = 0 /\ issued = 0 /\ ctrl.sqHead = 0 /\ ctrl.sqTail = 0
        /\ call.at # "ring" /\ executing = {}
    BY DEF Init, Idle
  <2>4. /\ ctrl.sqTail = issued - (IF call.at = "ring" THEN 1 ELSE 0)
        /\ ctrl.sqHead <= ctrl.sqTail
    <3>1. (IF call.at = "ring" THEN 1 ELSE 0) = 0
      BY <2>3
    <3>2. issued - 0 = 0 /\ ctrl.sqHead <= ctrl.sqTail
      BY <2>3
    <3> QED
      BY <2>3, <3>1, <3>2
  <2>5. executing \subseteq 1 .. ctrl.sqHead
    BY <2>3
  <2> QED
    BY <2>2, <2>3, <2>4, <2>5 DEF Submission
<1>6. Completions
  BY <1>1, <1>4, QueueAssumption DEF Init, Completions, Slots
<1>7. Heads /\ Polled /\ InStep /\ Answer
  BY <1>1, <1>4, QueueAssumption
     DEF Init, Heads, Polled, InStep, Answer, Idle, IrqOff, Waiting, Slots
<1> QED
  BY <1>2, <1>3, <1>5, <1>6, <1>7 DEF IInv, Lap

-------------------------------------------------------------------------------
(* The call. *)

LEMMA SubmitInv == IInv /\ Submit => IInv'
<1> SUFFICES ASSUME IInv, Submit PROVE IInv'
  OBVIOUS
<1>1. /\ call.at = "idle" /\ issued < MaxCommands
      /\ issued' = issued + 1
      /\ sq' = [sq EXCEPT ![sqTail % QueueSize] = issued + 1]
      /\ sqTail' = (sqTail + 1) % TailSpan
      /\ call' = [call EXCEPT !.at = "ring"]
      /\ level' = Level
      /\ UNCHANGED <<useInterrupts, cqHead, result, abandoned, cq, ctrl, executing,
                     outcome, irq, irqPending>>
  BY DEF Submit, ctrlVars
<1>2. issued + 1 \in Commands /\ issued + 1 \in 0 .. MaxCommands
  BY <1>1, Numbers DEF Commands
<1>3. call'.at = "ring" /\ call'.head = call.head /\ call'.budget = call.budget
  BY <1>1 DEF IInv, TypeOK
<1>4. TypeOK'
  <2>1. sqTail % QueueSize \in Slots /\ (sqTail + 1) % TailSpan \in 0 .. TailSpan - 1
    BY Numbers, SpanCoversLap DEF Slots
  <2> QED
    BY <1>1, <1>2, <2>1 DEF IInv, TypeOK, Level
<1>5. Calls'
  <2>1. abandoned \subseteq 1 .. issued
    BY DEF IInv, Calls
  <2>2. 1 .. issued \subseteq 1 .. issued + 1 /\ issued + 1 \notin 1 .. issued
    BY Numbers
  <2> QED
    BY <1>1, <1>2, <1>3, <2>1, <2>2, Numbers DEF IInv, Calls, TypeOK
<1>6. ASSUME FirstLap' PROVE Lap'
  <2>1. FirstLap /\ issued + 1 < QueueSize
    BY <1>1, <1>6, Numbers DEF FirstLap
  <2>2. Lap /\ issued \in Slots
    BY <2>1, LapBounds
  <2>3. sqTail = issued /\ sqTail % QueueSize = issued /\ sqTail' = issued + 1
    <3>1. sqTail = issued
      BY <2>2 DEF Lap, Submission
    <3>2. issued + 1 \in 0 .. TailSpan - 1
      BY <2>1, Numbers, SpanCoversLap
    <3>3. (issued + 1) % TailSpan = issued + 1
      BY <3>2, SpanCoversLap
    <3> QED
      BY <1>1, <2>2, <3>1, <3>3, SlotFacts
  <2>4. Submission'
    <3>1. \A s \in Slots : sq'[s] = IF s < issued + 1 THEN s + 1 ELSE 0
      <4>1. \A s \in Slots : sq'[s] = IF s = issued THEN issued + 1 ELSE sq[s]
        BY <1>1, <2>2, <2>3 DEF IInv, TypeOK
      <4>2. \A s \in Slots : sq[s] = IF s < issued THEN s + 1 ELSE 0
        BY <2>2 DEF Lap, Submission
      <4>3. \A s \in Slots : s \in Nat /\ (s < issued + 1 <=> s < issued \/ s = issued)
        BY Numbers DEF Slots
      <4> QED
        BY <4>1, <4>2, <4>3
    <3>2. ctrl.sqTail = issued
      BY <1>1, <2>2, Numbers DEF Lap, Submission
    <3> QED
      BY <1>1, <1>3, <2>2, <2>3, <3>1, <3>2, Numbers DEF Lap, Submission
  <2>5. Completions'
    BY <1>1, <2>2 DEF Lap, Completions, Answered
  <2>6. Heads'
    BY <1>1, <1>3, <2>2 DEF Lap, Heads
  <2>7. Polled'
    BY <1>1, <1>3, <2>2, Numbers DEF Lap, Polled, Waiting
  <2>8. InStep'
    <3> SUFFICES ASSUME Level PROVE InStep'
      BY <1>1 DEF InStep
    <3>1. \A c \in 1 .. issued : c \in Answered
      BY Numbers DEF Level, Answered, Commands
    <3>2. ctrl.cqTail = issued /\ cqHead = issued
      <4>1. Answered \subseteq 1 .. ctrl.sqHead /\ ctrl.sqHead <= issued
        BY <2>1, LapBounds DEF Lap, Completions
      <4>2. Answered = 1 .. issued
        <5>1. 1 .. ctrl.sqHead \subseteq 1 .. issued
          BY <4>1, Numbers
        <5> QED
          BY <3>1, <4>1, <5>1
      <4>3. Cardinality(Answered) = issued
        BY <4>2, FS_Interval, Numbers
      <4> QED
        BY <2>2, <4>3 DEF Lap, Completions, Level
    <3>3. irq.at \in {"test", "take"} => irq.head = issued
      BY <3>2 DEF Level
    <3> QED
      BY <1>1, <1>3, <3>1, <3>2, <3>3, Numbers DEF InStep, Answered
  <2>9. Answer'
    <3>1. result'.cmd < issued'
      BY <1>1, Numbers DEF IInv, Calls, TypeOK
    <3> QED
      BY <1>1, <3>1, Numbers DEF Answer
  <2> QED
    BY <2>4, <2>5, <2>6, <2>7, <2>8, <2>9 DEF Lap
<1> QED
  BY <1>4, <1>5, <1>6 DEF IInv

LEMMA RingSubmissionInv == IInv /\ RingSubmission => IInv'
<1> SUFFICES ASSUME IInv, RingSubmission PROVE IInv'
  OBVIOUS
<1>1. /\ call.at = "ring"
      /\ \/ ctrl' = [ctrl EXCEPT !.sqTail = sqTail % QueueSize]
         \/ sqTail >= QueueSize /\ UNCHANGED ctrl
      /\ call' = [call EXCEPT !.at = "poll", !.budget = Retries]
      /\ UNCHANGED <<useInterrupts, sq, sqTail, cqHead, issued, result, abandoned, level,
                     cq, executing, outcome, irq, irqPending>>
  BY DEF RingSubmission
<1>2. call'.at = "poll" /\ call'.head = call.head /\ call'.budget = Retries
  BY <1>1 DEF IInv, TypeOK
<1>3. /\ sqTail % QueueSize \in Slots /\ Retries \in 0 .. Retries /\ Retries # 0
  BY Numbers, RetryAssumption DEF Slots
<1>4. TypeOK'
  BY <1>1, <1>3 DEF IInv, TypeOK
<1>5. Calls'
  BY <1>1, <1>2, <1>3 DEF IInv, Calls
<1>6. ASSUME FirstLap' PROVE Lap'
  <2>1. FirstLap
    BY <1>1, <1>6 DEF FirstLap
  <2>2. Lap /\ issued \in Slots /\ issued < QueueSize
    BY <2>1, LapBounds
  <2>3. sqTail = issued /\ sqTail % QueueSize = issued
    BY <2>2, SlotFacts DEF Lap, Submission
  <2>4. /\ ctrl'.sqTail = issued /\ ctrl'.sqHead = ctrl.sqHead
        /\ ctrl'.cqHead = ctrl.cqHead /\ ctrl'.cqTail = ctrl.cqTail
        /\ ctrl'.phase = ctrl.phase
    BY <1>1, <2>2, <2>3, Numbers DEF IInv, TypeOK
  <2>5. Submission'
    BY <1>1, <1>2, <2>2, <2>4, Numbers DEF Lap, Submission
  <2>6. Completions'
    BY <1>1, <2>2, <2>4 DEF Lap, Completions, Answered
  <2>7. Heads'
    BY <1>1, <1>2, <2>2, <2>4 DEF Lap, Heads
  <2>8. Polled'
    BY <1>1, <1>2, <2>2, <2>4 DEF Lap, Polled, Waiting
  <2>9. InStep' /\ Answer'
    BY <1>1, <1>2, <2>2, <2>4 DEF Lap, InStep, Answer, Answered
  <2> QED
    BY <2>5, <2>6, <2>7, <2>8, <2>9 DEF Lap
<1> QED
  BY <1>4, <1>5, <1>6 DEF IInv

\* What a return leaves behind, whichever it is.
LEMMA ReturnTyped ==
    ASSUME IInv, NEW ret \in Returns, Return(ret), call.at # "idle"
    PROVE  /\ result' \in [cmd : 0 .. MaxCommands, ret : Returns, was : Outcomes]
           /\ result'.cmd = issued /\ result'.ret = ret /\ result'.was = outcome[issued]
           /\ call' = Idle /\ call'.at = "idle"
           /\ abandoned' = IF ret = "timeout" THEN abandoned \cup {issued} ELSE abandoned
           /\ issued \in Commands \ abandoned
<1>1. issued \in Commands \ abandoned
  BY DEF IInv, Calls
<1>2. outcome[issued] \in Outcomes /\ issued \in 0 .. MaxCommands
  BY <1>1 DEF IInv, TypeOK
<1> QED
  BY <1>1, <1>2 DEF Return, Idle

LEMMA PollReadInv == IInv /\ PollRead => IInv'
<1> SUFFICES ASSUME IInv, PollRead PROVE IInv'
  OBVIOUS
<1>1. /\ call.at = "poll"
      /\ call' = [call EXCEPT !.at = "test", !.head = cqHead]
      /\ UNCHANGED <<useInterrupts, sq, sqTail, cqHead, issued, result, abandoned, level,
                     cq, ctrl, executing, outcome, irq, irqPending>>
  BY DEF PollRead, ctrlVars
<1>2. call'.at = "test" /\ call'.head = cqHead /\ call'.budget = call.budget
  BY <1>1 DEF IInv, TypeOK
<1>3. TypeOK'
  BY <1>1, Numbers DEF IInv, TypeOK
<1>4. Calls'
  BY <1>1, <1>2 DEF IInv, Calls
<1>5. ASSUME FirstLap' PROVE Lap'
  <2>1. Lap
    BY <1>1, <1>5 DEF FirstLap, IInv
  <2>2. Submission' /\ Completions'
    BY <1>1, <1>2, <2>1, QueuesStay
  <2>3. Heads' /\ Polled'
    BY <1>1, <1>2, <2>1 DEF Lap, Heads, Polled, Waiting
  <2>4. InStep' /\ Answer'
    BY <1>1, <1>2, <2>1 DEF Lap, InStep, Answer, Answered
  <2> QED
    BY <2>2, <2>3, <2>4 DEF Lap
<1> QED
  BY <1>3, <1>4, <1>5 DEF IInv

LEMMA PollMissInv == IInv /\ PollMiss => IInv'
<1> SUFFICES ASSUME IInv, PollMiss PROVE IInv'
  OBVIOUS
<1>1. /\ call.at = "test"
      /\ UNCHANGED <<useInterrupts, sq, sqTail, cqHead, issued, level, cq, ctrl, executing,
                     outcome, irq, irqPending>>
  BY DEF PollMiss, ctrlVars
<1>2. CASE call.budget = 1
  <2>1. /\ result' \in [cmd : 0 .. MaxCommands, ret : Returns, was : Outcomes]
        /\ result'.cmd = issued /\ result'.ret = "timeout"
        /\ call' = Idle /\ call'.at = "idle"
        /\ abandoned' = abandoned \cup {issued}
        /\ issued \in Commands \ abandoned
    <3>1. Return("timeout") /\ "timeout" \in Returns
      BY <1>2 DEF PollMiss, Returns
    <3> QED
      BY <1>1, <3>1, ReturnTyped
  <2>2. TypeOK'
    BY <1>1, <2>1, SlotFacts, RetryAssumption DEF IInv, TypeOK, Idle
  <2>3. issued \in 1 .. issued
    BY <2>1, Numbers DEF Commands
  <2>4. Calls'
    <3>1. issued <= issued
      BY Numbers
    <3> QED
      BY <1>1, <2>1, <2>3, <3>1 DEF IInv, Calls
  <2>5. ASSUME FirstLap' PROVE Lap'
    <3>1. Lap
      BY <1>1, <2>5 DEF FirstLap, IInv
    <3>2. Submission' /\ Completions'
      BY <1>1, <2>1, <3>1, QueuesStay
    <3>3. Heads'
      BY <1>1, <2>1, <3>1 DEF Lap, Heads
    <3>4. Polled'
      <4>1. Cardinality(abandoned') = Cardinality(abandoned) + 1
        <5>1. abandoned \in SUBSET (1 .. issued)
          BY DEF IInv, Calls
        <5> QED
          BY <2>1, <2>3, <5>1, Numbers, CommandSets
      <4>2. Waiting /\ ~Waiting'
        BY <1>1, <2>1 DEF Waiting
      <4> QED
        BY <1>1, <2>1, <3>1, <4>1, <4>2, Numbers DEF Lap, Polled
    <3>5. InStep' /\ Answer'
      BY <2>1 DEF InStep, Answer
    <3> QED
      BY <3>2, <3>3, <3>4, <3>5 DEF Lap
  <2> QED
    BY <2>2, <2>4, <2>5 DEF IInv
<1>3. CASE call.budget # 1
  <2>1. /\ call' = [call EXCEPT !.at = "poll", !.budget = call.budget - 1]
        /\ UNCHANGED <<result, abandoned>>
    BY <1>3 DEF PollMiss
  <2>2. call.budget - 1 \in 0 .. Retries /\ call.budget - 1 # 0
    <3>1. call.budget \in 0 .. Retries /\ call.budget # 0
      BY <1>1 DEF IInv, TypeOK, Calls
    <3> QED
      BY <1>3, <3>1, RetryAssumption
  <2>3. /\ call'.at = "poll" /\ call'.head = call.head
        /\ call'.budget = call.budget - 1
    BY <2>1 DEF IInv, TypeOK
  <2>4. TypeOK'
    BY <1>1, <2>1, <2>2 DEF IInv, TypeOK
  <2>5. Calls'
    BY <1>1, <2>1, <2>2, <2>3 DEF IInv, Calls
  <2>6. ASSUME FirstLap' PROVE Lap'
    BY <1>1, <2>1, <2>3, <2>6
       DEF FirstLap, IInv, Lap, Submission, Completions, Heads, Polled, InStep, Answer,
           Answered, Waiting
  <2> QED
    BY <2>4, <2>5, <2>6 DEF IInv
<1> QED
  BY <1>2, <1>3

LEMMA PollHitInv == IInv /\ PollHit => IInv'
<1> SUFFICES ASSUME IInv, PollHit PROVE IInv'
  OBVIOUS
<1>1. /\ call.at = "test" /\ cq[call.head].status # 0
      /\ call' = [call EXCEPT !.at = "take"]
      /\ UNCHANGED <<useInterrupts, sq, sqTail, cqHead, issued, result, abandoned, level,
                     cq, ctrl, executing, outcome, irq, irqPending>>
  BY DEF PollHit, ctrlVars
<1>2. call'.at = "take" /\ call'.head = call.head
  BY <1>1 DEF IInv, TypeOK
<1>3. TypeOK'
  BY <1>1 DEF IInv, TypeOK
<1>4. Calls'
  BY <1>1, <1>2 DEF IInv, Calls
<1>5. ASSUME FirstLap' PROVE Lap'
  <2>1. Lap
    BY <1>1, <1>5 DEF FirstLap, IInv
  <2>2. call.head < ctrl.cqTail
    BY <1>1, <2>1, Numbers DEF Lap, Completions
  <2>3. Submission' /\ Completions'
    BY <1>1, <1>2, <2>1, QueuesStay
  <2>4. Heads' /\ Polled'
    BY <1>1, <1>2, <2>1, <2>2 DEF Lap, Heads, Polled, Waiting
  <2>5. InStep' /\ Answer'
    BY <1>1, <1>2, <2>1 DEF Lap, InStep, Answer, Answered
  <2> QED
    BY <2>3, <2>4, <2>5 DEF Lap
<1> QED
  BY <1>3, <1>4, <1>5 DEF IInv

LEMMA PollTakeInv == IInv /\ PollTake => IInv'
<1> SUFFICES ASSUME IInv, PollTake PROVE IInv'
  OBVIOUS
<1>1. /\ call.at = "take"
      /\ cqHead' = NextSlot(call.head)
      /\ call' = [call EXCEPT !.at = "load"]
      /\ UNCHANGED <<useInterrupts, sq, sqTail, issued, result, abandoned, level,
                     cq, ctrl, executing, outcome, irq, irqPending>>
  BY DEF PollTake, ctrlVars
<1>2. call'.at = "load" /\ call'.head = call.head
  BY <1>1 DEF IInv, TypeOK
<1>3. TypeOK'
  BY <1>1, Numbers, SlotFacts DEF IInv, TypeOK, NextSlot
<1>4. Calls'
  BY <1>1, <1>2 DEF IInv, Calls
<1>5. ASSUME FirstLap' PROVE Lap'
  <2>1. Lap /\ FirstLap
    BY <1>1, <1>5 DEF FirstLap, IInv
  <2>2. call.head < ctrl.cqTail /\ cqHead' = call.head + 1
    <3>1. call.head < ctrl.cqTail /\ call.head \in Slots
      BY <1>1, <2>1, Numbers DEF Lap, Heads
    <3> QED
      BY <1>1, <2>1, <3>1, NextInLap
  <2>3. Submission' /\ Completions'
    BY <1>1, <1>2, <2>1, QueuesStay
  <2>4. Heads'
    BY <1>1, <1>2, <2>1, <2>2, Numbers DEF Lap, Heads
  <2>5. Polled'
    BY <1>1, <1>2, <2>1, <2>2, Numbers DEF Lap, Polled, Waiting, NextSlot
  <2>6. InStep' /\ Answer'
    BY <1>1, <1>2, <2>1, <2>2, Numbers DEF Lap, InStep, Answer, Answered
  <2> QED
    BY <2>3, <2>4, <2>5, <2>6 DEF Lap
<1> QED
  BY <1>3, <1>4, <1>5 DEF IInv

LEMMA PollLoadInv == IInv /\ PollLoad => IInv'
<1> SUFFICES ASSUME IInv, PollLoad PROVE IInv'
  OBVIOUS
<1>1. PICK value \in {NextSlot(call.head), cqHead} :
         call' = [call EXCEPT !.at = "release", !.bell = value]
  BY DEF PollLoad
<1>2. /\ call.at = "load"
      /\ UNCHANGED <<useInterrupts, sq, sqTail, cqHead, issued, result, abandoned, level,
                     cq, ctrl, executing, outcome, irq, irqPending>>
  BY DEF PollLoad, ctrlVars
<1>3. call'.at = "release" /\ call'.head = call.head /\ call'.bell = value
  BY <1>1 DEF IInv, TypeOK
<1>4. TypeOK'
  <2>1. value \in Slots
    BY Numbers, SlotFacts DEF NextSlot
  <2> QED
    BY <1>1, <1>2, <2>1 DEF IInv, TypeOK
<1>5. Calls'
  BY <1>2, <1>3 DEF IInv, Calls
<1>6. ASSUME FirstLap' PROVE Lap'
  <2>1. Lap /\ FirstLap
    BY <1>2, <1>6 DEF FirstLap, IInv
  <2>2. value <= ctrl.cqTail
    <3>1. call.head < ctrl.cqTail /\ call.head \in Slots
      BY <1>2, <2>1, Numbers DEF Lap, Heads
    <3>2. NextSlot(call.head) = call.head + 1
      BY <2>1, <3>1, NextInLap
    <3> QED
      BY <2>1, <3>1, <3>2, Numbers DEF Lap, Heads
  <2>3. Submission' /\ Completions'
    BY <1>2, <1>3, <2>1, QueuesStay
  <2>4. Heads'
    BY <1>2, <1>3, <2>1, <2>2 DEF Lap, Heads
  <2>5. Polled'
    BY <1>2, <1>3, <2>1 DEF Lap, Polled, Waiting
  <2>6. InStep' /\ Answer'
    BY <1>2, <1>3, <2>1 DEF Lap, InStep, Answer, Answered
  <2> QED
    BY <2>3, <2>4, <2>5, <2>6 DEF Lap
<1> QED
  BY <1>4, <1>5, <1>6 DEF IInv

LEMMA PollReleaseInv == IInv /\ PollRelease => IInv'
<1> SUFFICES ASSUME IInv, PollRelease PROVE IInv'
  OBVIOUS
<1>1. /\ call.at = "release"
      /\ ctrl' = [ctrl EXCEPT !.cqHead = call.bell]
      /\ call' = [call EXCEPT !.at = "judge", !.bell = 0]
      /\ UNCHANGED <<useInterrupts, sq, sqTail, cqHead, issued, result, abandoned, level,
                     cq, executing, outcome, irq, irqPending>>
  BY DEF PollRelease
<1>2. /\ call'.at = "judge" /\ call'.head = call.head
      /\ ctrl'.cqHead = call.bell /\ ctrl'.sqHead = ctrl.sqHead
      /\ ctrl'.sqTail = ctrl.sqTail /\ ctrl'.cqTail = ctrl.cqTail
      /\ ctrl'.phase = ctrl.phase
  BY <1>1 DEF IInv, TypeOK
<1>3. TypeOK'
  BY <1>1, Numbers, SlotFacts DEF IInv, TypeOK
<1>4. Calls'
  BY <1>1, <1>2 DEF IInv, Calls
<1>5. ASSUME FirstLap' PROVE Lap'
  <2>1. Lap
    BY <1>1, <1>5 DEF FirstLap, IInv
  <2>2. Submission' /\ Completions'
    BY <1>1, <1>2, <2>1, QueuesStay
  <2>3. Heads'
    BY <1>1, <1>2, <2>1 DEF Lap, Heads
  <2>4. Polled'
    BY <1>1, <1>2, <2>1, Numbers DEF Lap, Polled, Waiting
  <2>5. InStep' /\ Answer'
    BY <1>1, <1>2, <2>1 DEF Lap, InStep, Answer, Answered
  <2> QED
    BY <2>2, <2>3, <2>4, <2>5 DEF Lap
<1> QED
  BY <1>3, <1>4, <1>5 DEF IInv

LEMMA PollJudgeInv == IInv /\ PollJudge => IInv'
<1> SUFFICES ASSUME IInv, PollJudge PROVE IInv'
  OBVIOUS
<1> DEFINE ret == IF cq[call.head].status \div 2 # 0 THEN "error" ELSE "ok"
<1>1. /\ call.at = "judge"
      /\ Return(ret)
      /\ UNCHANGED <<useInterrupts, sq, sqTail, cqHead, issued, level, cq, ctrl, executing,
                     outcome, irq, irqPending>>
  BY DEF PollJudge, ctrlVars
<1>2. ret \in Returns /\ ret # "timeout"
  BY DEF Returns
<1>3. /\ result' \in [cmd : 0 .. MaxCommands, ret : Returns, was : Outcomes]
      /\ result'.cmd = issued /\ result'.ret = ret /\ result'.was = outcome[issued]
      /\ call' = Idle /\ call'.at = "idle"
      /\ abandoned' = abandoned
      /\ issued \in Commands \ abandoned
  <2> HIDE DEF ret
  <2> QED
    BY <1>1, <1>2, ReturnTyped
<1>4. TypeOK'
  BY <1>1, <1>3, SlotFacts, RetryAssumption DEF IInv, TypeOK, Idle
<1>5. Calls'
  BY <1>1, <1>3, Numbers DEF IInv, Calls
<1>6. ASSUME FirstLap' PROVE Lap'
  <2>1. Lap /\ ctrl.cqTail <= issued /\ issued \in Nat /\ ctrl.cqTail \in Nat
    <3>1. FirstLap
      BY <1>1, <1>6 DEF FirstLap
    <3> QED
      BY <3>1, LapBounds, Numbers
  <2>2. Submission' /\ Completions'
    BY <1>1, <1>3, <2>1, QueuesStay
  <2>3. Heads'
    BY <1>1, <1>3, <2>1 DEF Lap, Heads
  <2>4. Polled'
    BY <1>1, <1>3, <2>1 DEF Lap, Polled, Waiting
  <2>5. InStep'
    BY <1>3 DEF InStep
  <2>6. Answer'
    <3> SUFFICES ASSUME level PROVE Answer'
      BY <1>1 DEF Answer
    <3>1. call.head = issued - 1 /\ call.head < ctrl.cqTail
      BY <1>1, <2>1, Numbers DEF Lap, InStep, Heads
    <3>2. cq[call.head].cmd = issued /\ issued \in Answered
      BY <1>1, <2>1, <3>1, Numbers DEF Lap, InStep, Completions
    <3>3. cq[call.head].status = IF outcome[issued] = "ok" THEN 1 ELSE 3
      BY <2>1, <3>1, <3>2, Numbers DEF Lap, Completions
    <3>4. outcome[issued] \in {"ok", "failed"}
      BY <1>3, <3>2 DEF Answered, IInv, TypeOK, Outcomes
    <3>5. ret = IF outcome[issued] = "ok" THEN "ok" ELSE "error"
      <4>1. 1 \div 2 = 0 /\ 3 \div 2 = 1
        OBVIOUS
      <4> QED
        BY <3>3, <4>1
    <3> HIDE DEF ret
    <3> QED
      BY <1>3, <3>4, <3>5 DEF Answer
  <2> QED
    BY <2>2, <2>3, <2>4, <2>5, <2>6 DEF Lap
<1> QED
  BY <1>4, <1>5, <1>6 DEF IInv

-------------------------------------------------------------------------------
(* The interrupt handler. *)

LEMMA IrqEnterInv == IInv /\ IrqEnter => IInv'
<1> SUFFICES ASSUME IInv, IrqEnter PROVE IInv'
  OBVIOUS
<1>1. /\ useInterrupts /\ irqPending' = FALSE
      /\ irq' = [irq EXCEPT !.at = "test", !.head = cqHead]
      /\ UNCHANGED <<useInterrupts, sq, sqTail, cqHead, issued, call, result, abandoned,
                     level, cq, ctrl, executing, outcome>>
  BY DEF IrqEnter, driverVars, ctrlVars
<1>2. irq'.at = "test" /\ irq'.head = cqHead
  BY <1>1 DEF IInv, TypeOK
<1>3. TypeOK'
  BY <1>1, Numbers DEF IInv, TypeOK
<1>4. Calls'
  BY <1>1 DEF IInv, Calls
<1>5. ASSUME FirstLap' PROVE Lap'
  <2>1. Lap
    BY <1>1, <1>5 DEF FirstLap, IInv
  <2>2. Submission' /\ Completions'
    BY <1>1, <2>1, QueuesStay
  <2>3. Heads' /\ Polled'
    BY <1>1, <1>2, <2>1 DEF Lap, Heads, Polled, Waiting
  <2>4. InStep' /\ Answer'
    BY <1>1, <1>2, <2>1 DEF Lap, InStep, Answer, Answered
  <2> QED
    BY <2>2, <2>3, <2>4 DEF Lap
<1> QED
  BY <1>3, <1>4, <1>5 DEF IInv

LEMMA IrqTestInv == IInv /\ IrqTest => IInv'
<1> SUFFICES ASSUME IInv, IrqTest PROVE IInv'
  OBVIOUS
<1>1. /\ irq.at = "test"
      /\ UNCHANGED <<useInterrupts, sq, sqTail, cqHead, issued, call, result, abandoned,
                     level, cq, ctrl, executing, outcome, irqPending>>
  BY DEF IrqTest, driverVars, ctrlVars
<1>2. \/ irq' = IrqOff
      \/ irq' = [irq EXCEPT !.at = "take"] /\ cq[irq.head].status # 0
  BY DEF IrqTest
<1>3. \/ irq'.at = "off"
      \/ irq'.at = "take" /\ irq'.head = irq.head /\ cq[irq.head].status # 0
  BY <1>2 DEF IInv, TypeOK, IrqOff
<1>4. TypeOK'
  BY <1>1, <1>2, SlotFacts DEF IInv, TypeOK, IrqOff
<1>5. Calls'
  BY <1>1 DEF IInv, Calls
<1>6. ASSUME FirstLap' PROVE Lap'
  <2>1. Lap
    BY <1>1, <1>6 DEF FirstLap, IInv
  <2>2. Submission' /\ Completions'
    BY <1>1, <2>1, QueuesStay
  <2>3. cq[irq.head].status # 0 => irq.head < ctrl.cqTail
    BY <2>1, Numbers DEF Lap, Completions
  <2>4. Heads' /\ Polled'
    BY <1>1, <1>3, <2>1, <2>3 DEF Lap, Heads, Polled, Waiting
  <2>5. InStep' /\ Answer'
    BY <1>1, <1>3, <2>1 DEF Lap, InStep, Answer, Answered
  <2> QED
    BY <2>2, <2>4, <2>5 DEF Lap
<1> QED
  BY <1>4, <1>5, <1>6 DEF IInv

LEMMA IrqTakeInv == IInv /\ IrqTake => IInv'
<1> SUFFICES ASSUME IInv, IrqTake PROVE IInv'
  OBVIOUS
<1>1. /\ irq.at = "take"
      /\ cqHead' = NextSlot(irq.head)
      /\ irq' = [irq EXCEPT !.at = "load"]
      /\ UNCHANGED <<useInterrupts, sq, sqTail, issued, call, result, abandoned, level,
                     cq, ctrl, executing, outcome, irqPending>>
  BY DEF IrqTake, ctrlVars
<1>2. irq'.at = "load" /\ irq'.head = irq.head /\ useInterrupts
  BY <1>1 DEF IInv, TypeOK, Calls
<1>3. TypeOK'
  BY <1>1, Numbers, SlotFacts DEF IInv, TypeOK, NextSlot
<1>4. Calls'
  BY <1>1, <1>2 DEF IInv, Calls
<1>5. ASSUME FirstLap' PROVE Lap'
  <2>1. Lap /\ FirstLap
    BY <1>1, <1>5 DEF FirstLap, IInv
  <2>2. irq.head < ctrl.cqTail /\ cqHead' = irq.head + 1
    <3>1. irq.head < ctrl.cqTail /\ irq.head \in Slots
      BY <1>1, <2>1, Numbers DEF Lap, Heads
    <3> QED
      BY <1>1, <2>1, <3>1, NextInLap
  <2>3. Submission' /\ Completions'
    BY <1>1, <2>1, QueuesStay
  <2>4. Heads'
    BY <1>1, <1>2, <2>1, <2>2, Numbers DEF Lap, Heads
  <2>5. Polled'
    BY <1>1, <1>2 DEF Polled
  <2>6. InStep' /\ Answer'
    BY <1>1, <1>2, <2>1, <2>2, Numbers DEF Lap, InStep, Answer, Answered
  <2> QED
    BY <2>3, <2>4, <2>5, <2>6 DEF Lap
<1> QED
  BY <1>3, <1>4, <1>5 DEF IInv

LEMMA IrqLoadInv == IInv /\ IrqLoad => IInv'
<1> SUFFICES ASSUME IInv, IrqLoad PROVE IInv'
  OBVIOUS
<1>1. PICK value \in {NextSlot(irq.head), cqHead} :
         irq' = [irq EXCEPT !.at = "release", !.bell = value]
  BY DEF IrqLoad
<1>2. /\ irq.at = "load"
      /\ UNCHANGED <<useInterrupts, sq, sqTail, cqHead, issued, call, result, abandoned,
                     level, cq, ctrl, executing, outcome, irqPending>>
  BY DEF IrqLoad, driverVars, ctrlVars
<1>3. irq'.at = "release" /\ irq'.head = irq.head /\ irq'.bell = value
  BY <1>1 DEF IInv, TypeOK
<1>4. TypeOK'
  <2>1. value \in Slots
    BY Numbers, SlotFacts DEF NextSlot
  <2> QED
    BY <1>1, <1>2, <2>1 DEF IInv, TypeOK
<1>5. Calls'
  BY <1>2, <1>3 DEF IInv, Calls
<1>6. ASSUME FirstLap' PROVE Lap'
  <2>1. Lap /\ FirstLap
    BY <1>2, <1>6 DEF FirstLap, IInv
  <2>2. value <= ctrl.cqTail
    <3>1. irq.head < ctrl.cqTail /\ irq.head \in Slots
      BY <1>2, <2>1, Numbers DEF Lap, Heads
    <3>2. NextSlot(irq.head) = irq.head + 1
      BY <2>1, <3>1, NextInLap
    <3> QED
      BY <2>1, <3>1, <3>2, Numbers DEF Lap, Heads
  <2>3. Submission' /\ Completions'
    BY <1>2, <2>1, QueuesStay
  <2>4. Heads' /\ Polled'
    BY <1>2, <1>3, <2>1, <2>2 DEF Lap, Heads, Polled, Waiting
  <2>5. InStep' /\ Answer'
    BY <1>2, <1>3, <2>1 DEF Lap, InStep, Answer, Answered
  <2> QED
    BY <2>3, <2>4, <2>5 DEF Lap
<1> QED
  BY <1>4, <1>5, <1>6 DEF IInv

LEMMA IrqReleaseInv == IInv /\ IrqRelease => IInv'
<1> SUFFICES ASSUME IInv, IrqRelease PROVE IInv'
  OBVIOUS
<1>1. /\ irq.at = "release"
      /\ ctrl' = [ctrl EXCEPT !.cqHead = irq.bell]
      /\ irq' = IrqOff
      /\ UNCHANGED <<useInterrupts, sq, sqTail, cqHead, issued, call, result, abandoned,
                     level, cq, executing, outcome, irqPending>>
  BY DEF IrqRelease, driverVars
<1>2. /\ ctrl'.cqHead = irq.bell /\ ctrl'.sqHead = ctrl.sqHead
      /\ ctrl'.sqTail = ctrl.sqTail /\ ctrl'.cqTail = ctrl.cqTail
      /\ ctrl'.phase = ctrl.phase /\ irq'.at = "off" /\ useInterrupts
  BY <1>1 DEF IInv, TypeOK, IrqOff, Calls
<1>3. TypeOK'
  BY <1>1, Numbers, SlotFacts DEF IInv, TypeOK, IrqOff
<1>4. Calls'
  BY <1>1, <1>2 DEF IInv, Calls
<1>5. ASSUME FirstLap' PROVE Lap'
  <2>1. Lap
    BY <1>1, <1>5 DEF FirstLap, IInv
  <2>2. Submission' /\ Completions'
    BY <1>1, <1>2, <2>1, QueuesStay
  <2>3. Heads' /\ Polled'
    BY <1>1, <1>2, <2>1 DEF Lap, Heads, Polled
  <2>4. InStep' /\ Answer'
    BY <1>1, <1>2, <2>1 DEF Lap, InStep, Answer, Answered
  <2> QED
    BY <2>2, <2>3, <2>4 DEF Lap
<1> QED
  BY <1>3, <1>4, <1>5 DEF IInv

-------------------------------------------------------------------------------
(* The controller. *)

LEMMA FetchInv == IInv /\ Fetch => IInv'
<1> SUFFICES ASSUME IInv, Fetch PROVE IInv'
  OBVIOUS
<1>1. /\ ctrl.sqHead # ctrl.sqTail
      /\ executing' = executing \cup ({sq[ctrl.sqHead]} \ {0})
      /\ ctrl' = [ctrl EXCEPT !.sqHead = (ctrl.sqHead + 1) % QueueSize]
      /\ UNCHANGED <<useInterrupts, sq, sqTail, cqHead, issued, call, result,
                     abandoned, level, cq, outcome, irq, irqPending>>
  BY DEF Fetch, driverVars, NextSlot
<1>2. /\ ctrl'.sqHead = (ctrl.sqHead + 1) % QueueSize
      /\ ctrl'.sqTail = ctrl.sqTail /\ ctrl'.cqTail = ctrl.cqTail
      /\ ctrl'.cqHead = ctrl.cqHead /\ ctrl'.phase = ctrl.phase
  BY <1>1 DEF IInv, TypeOK
<1>3. TypeOK'
  <2>1. sq[ctrl.sqHead] \in 0 .. MaxCommands
    BY Numbers DEF IInv, TypeOK
  <2>2. executing' \in SUBSET Commands
    <3>1. {sq[ctrl.sqHead]} \ {0} \subseteq Commands
      BY <2>1, Numbers DEF Commands
    <3>2. executing \subseteq Commands
      BY DEF IInv, TypeOK
    <3> QED
      BY <1>1, <3>1, <3>2
  <2> QED
    BY <1>1, <2>2, Numbers, SlotFacts DEF IInv, TypeOK
<1>4. Calls'
  BY <1>1 DEF IInv, Calls
<1>5. ASSUME FirstLap' PROVE Lap'
  <2>1. Lap /\ issued < QueueSize
    <3>1. FirstLap
      BY <1>1, <1>5 DEF FirstLap
    <3> QED
      BY <3>1, LapBounds
  <2>2. ctrl.sqHead < ctrl.sqTail /\ ctrl.sqTail <= issued
    BY <1>1, <2>1, Numbers DEF Lap, Submission
  <2>3. ctrl'.sqHead = ctrl.sqHead + 1
    BY <1>2, <2>1, <2>2, Numbers, SlotFacts
  <2>4. sq[ctrl.sqHead] = ctrl.sqHead + 1
    BY <2>1, <2>2, Numbers DEF Lap, Submission
  <2>5. /\ executing' \subseteq executing \cup {ctrl.sqHead + 1}
        /\ 1 .. ctrl.sqHead \subseteq 1 .. ctrl.sqHead + 1
        /\ ctrl.sqHead + 1 \in 1 .. ctrl.sqHead + 1
        /\ ctrl.sqHead + 1 \notin 1 .. ctrl.sqHead
    BY <1>1, <2>4, Numbers
  <2>6. Submission'
    <3>1. ctrl.sqHead + 1 <= ctrl.sqTail
      BY <2>2, Numbers
    <3> QED
      BY <1>1, <1>2, <2>1, <2>3, <2>5, <3>1 DEF Lap, Submission
  <2>7. Completions'
    <3>1. Answered' = Answered
      BY <1>1 DEF Answered
    <3>2. Answered \subseteq (1 .. ctrl'.sqHead) \ executing'
      BY <2>1, <2>3, <2>5 DEF Lap, Completions
    <3> QED
      BY <1>1, <1>2, <2>1, <3>1, <3>2 DEF Lap, Completions
  <2>8. Heads' /\ Polled' /\ InStep' /\ Answer'
    BY <1>1, <1>2, <2>1 DEF Lap, Heads, Polled, InStep, Answer, Answered, Waiting
  <2> QED
    BY <2>6, <2>7, <2>8 DEF Lap
<1> QED
  BY <1>3, <1>4, <1>5 DEF IInv

\* The answer to command c.
LEMMA CompleteEffect ==
    ASSUME IInv, NEW c \in Commands, NEW code \in {0, 1}, Complete(c, code)
    PROVE  /\ c \in executing /\ executing' = executing \ {c}
           /\ outcome'[c] = IF code = 0 THEN "ok" ELSE "failed"
           /\ \A d \in Commands : d # c => outcome'[d] = outcome[d]
           /\ cq'[ctrl.cqTail] = [status |-> 2 * code + ctrl.phase, cmd |-> c]
           /\ \A s \in Slots : s # ctrl.cqTail => cq'[s] = cq[s]
           /\ ctrl'.cqTail = (ctrl.cqTail + 1) % QueueSize
           /\ ctrl'.phase \in {0, 1}
           /\ (ctrl.cqTail + 1) % QueueSize # 0 => ctrl'.phase = ctrl.phase
           /\ ctrl'.sqHead = ctrl.sqHead /\ ctrl'.sqTail = ctrl.sqTail
           /\ ctrl'.cqHead = ctrl.cqHead
           /\ TypeOK'
           /\ UNCHANGED <<useInterrupts, sq, sqTail, cqHead, issued, call, result,
                          abandoned, level, irq>>
<1> DEFINE end == (ctrl.cqTail + 1) % QueueSize
           phase == IF end = 0 THEN 1 - ctrl.phase ELSE ctrl.phase
           status == 2 * code + ctrl.phase
           word == IF code = 0 THEN "ok" ELSE "failed"
<1>1. /\ c \in executing /\ executing' = executing \ {c}
      /\ outcome' = [outcome EXCEPT ![c] = word]
      /\ cq' = [cq EXCEPT ![ctrl.cqTail] = [status |-> status, cmd |-> c]]
      /\ ctrl' = [ctrl EXCEPT !.cqTail = end, !.phase = phase]
      /\ irqPending' = useInterrupts
      /\ UNCHANGED <<useInterrupts, sq, sqTail, cqHead, issued, call, result,
                     abandoned, level, irq>>
  BY DEF Complete, driverVars, NextSlot, StatusWord
<1>2. /\ end \in Slots /\ ctrl.cqTail \in Slots /\ word \in Outcomes
      /\ c \in 0 .. MaxCommands
  BY Numbers, SlotFacts DEF Outcomes, Commands
<1>3. phase \in {0, 1} /\ status \in 0 .. 3 /\ (end # 0 => phase = ctrl.phase)
  <2>1. ctrl.phase \in {0, 1}
    BY DEF IInv, TypeOK
  <2> HIDE DEF end
  <2> QED
    BY <2>1
<1> HIDE DEF end, phase, status, word
<1>4. TypeOK'
  <2>1. ctrl' \in [sqHead : Slots, sqTail : Slots, cqHead : Slots, cqTail : Slots,
                   phase : {0, 1}]
    BY <1>1, <1>2, <1>3 DEF IInv, TypeOK
  <2>2. cq' \in [Slots -> [status : 0 .. 3, cmd : 0 .. MaxCommands]]
    BY <1>1, <1>2, <1>3 DEF IInv, TypeOK
  <2>3. outcome' \in [Commands -> Outcomes] /\ executing' \in SUBSET Commands
    BY <1>1, <1>2 DEF IInv, TypeOK
  <2> QED
    BY <1>1, <2>1, <2>2, <2>3 DEF IInv, TypeOK
<1>5. /\ ctrl'.cqTail = end /\ ctrl'.phase = phase
      /\ ctrl'.sqHead = ctrl.sqHead /\ ctrl'.sqTail = ctrl.sqTail
      /\ ctrl'.cqHead = ctrl.cqHead
  BY <1>1 DEF IInv, TypeOK
<1>6. /\ outcome'[c] = word
      /\ \A d \in Commands : d # c => outcome'[d] = outcome[d]
      /\ cq'[ctrl.cqTail] = [status |-> status, cmd |-> c]
      /\ \A s \in Slots : s # ctrl.cqTail => cq'[s] = cq[s]
  BY <1>1, <1>2 DEF IInv, TypeOK
<1> QED
  BY <1>1, <1>3, <1>4, <1>5, <1>6 DEF end, word, status

LEMMA CompleteInv ==
    ASSUME IInv, NEW c \in Commands, NEW code \in {0, 1}, Complete(c, code)
    PROVE  IInv'
<1>1. /\ c \in executing /\ executing' = executing \ {c}
      /\ outcome'[c] = IF code = 0 THEN "ok" ELSE "failed"
      /\ \A d \in Commands : d # c => outcome'[d] = outcome[d]
      /\ cq'[ctrl.cqTail] = [status |-> 2 * code + ctrl.phase, cmd |-> c]
      /\ \A s \in Slots : s # ctrl.cqTail => cq'[s] = cq[s]
      /\ ctrl'.cqTail = (ctrl.cqTail + 1) % QueueSize
      /\ (ctrl.cqTail + 1) % QueueSize # 0 => ctrl'.phase = ctrl.phase
      /\ ctrl'.sqHead = ctrl.sqHead /\ ctrl'.sqTail = ctrl.sqTail
      /\ ctrl'.cqHead = ctrl.cqHead
      /\ TypeOK'
      /\ UNCHANGED <<useInterrupts, sq, sqTail, cqHead, issued, call, result,
                     abandoned, level, irq>>
  BY CompleteEffect
<1>2. Calls'
  BY <1>1 DEF IInv, Calls
<1>3. ASSUME FirstLap' PROVE Lap'
  <2>1. Lap /\ ctrl.sqHead <= issued /\ issued < QueueSize
    <3>1. FirstLap
      BY <1>1, <1>3 DEF FirstLap
    <3> QED
      BY <3>1, LapBounds
  <2>2. c \in 1 .. ctrl.sqHead /\ c \notin Answered /\ Answered \in SUBSET (1 .. ctrl.sqHead)
    BY <1>1, <2>1 DEF Lap, Submission, Completions
  <2>3. Answered' = Answered \cup {c}
    BY <1>1 DEF Answered
  <2>4. Cardinality(Answered') = ctrl.cqTail + 1 /\ ctrl.cqTail + 1 <= ctrl.sqHead
    <3>1. Cardinality(Answered \cup {c}) = Cardinality(Answered) + 1
      BY <2>2, Numbers, CommandSets
    <3>2. Cardinality(Answered \cup {c}) <= ctrl.sqHead
      <4>1. Answered \cup {c} \in SUBSET (1 .. ctrl.sqHead)
        BY <2>2
      <4> QED
        BY <4>1, Numbers, CommandSets
    <3> QED
      BY <2>1, <2>3, <3>1, <3>2 DEF Lap, Completions
  <2>5. ctrl'.cqTail = ctrl.cqTail + 1 /\ ctrl'.phase = 1
    <3>1. ctrl.cqTail + 1 < QueueSize
      BY <2>1, <2>4, Numbers
    <3>2. (ctrl.cqTail + 1) % QueueSize = ctrl.cqTail + 1 /\ ctrl.cqTail + 1 # 0
      BY <3>1, Numbers, SlotFacts
    <3>3. ctrl.phase = 1
      BY <2>1 DEF Lap, Completions
    <3> QED
      BY <1>1, <3>2, <3>3
  <2>6. Submission'
    BY <1>1, <2>1 DEF Lap, Submission
  <2>7. \A s \in Slots : s < ctrl.cqTail =>
            cq'[s] = cq[s] /\ cq[s].cmd \in Answered /\ cq[s].cmd # c
    BY <1>1, <2>1, <2>2, Numbers DEF Lap, Completions
  <2>8. ctrl.cqTail \in Nat /\ \A s \in Slots : s \in Nat
    BY Numbers DEF Slots
  <2>9. Completions'
    <3>1. Answered' \subseteq (1 .. ctrl'.sqHead) \ executing'
      BY <1>1, <2>1, <2>2, <2>3 DEF Lap, Completions
    <3>2. cq'[ctrl.cqTail].status = (IF outcome'[c] = "ok" THEN 1 ELSE 3)
      BY <1>1, <2>1 DEF Lap, Completions
    <3>3. cq'[ctrl.cqTail].cmd = c /\ cq'[ctrl.cqTail].status # 0
      BY <1>1, <3>2
    <3>4. ASSUME NEW s \in Slots
          PROVE  cq'[s].status # 0 <=> s < ctrl.cqTail + 1
      <4>1. CASE s = ctrl.cqTail
        BY <2>8, <3>3, <4>1
      <4>2. CASE s # ctrl.cqTail
        <5>1. cq[s].status # 0 <=> s < ctrl.cqTail
          BY <2>1 DEF Lap, Completions
        <5> QED
          BY <1>1, <2>8, <4>2, <5>1
      <4> QED
        BY <4>1, <4>2
    <3>5. ASSUME NEW s \in Slots, s < ctrl.cqTail + 1
          PROVE  /\ cq'[s].status = IF outcome'[cq'[s].cmd] = "ok" THEN 1 ELSE 3
                 /\ cq'[s].cmd \in Answered'
      <4>1. CASE s = ctrl.cqTail
        BY <2>3, <3>2, <3>3, <4>1
      <4>2. CASE s < ctrl.cqTail
        <5>1. cq'[s] = cq[s] /\ cq[s].cmd \in Answered /\ cq[s].cmd # c
          BY <2>7, <4>2
        <5>2. outcome'[cq[s].cmd] = outcome[cq[s].cmd]
          BY <1>1, <5>1 DEF Answered
        <5>3. cq[s].status = IF outcome[cq[s].cmd] = "ok" THEN 1 ELSE 3
          BY <2>1, <4>2 DEF Lap, Completions
        <5> QED
          BY <2>3, <5>1, <5>2, <5>3
      <4> QED
        BY <2>8, <3>5, <4>1, <4>2
    <3> QED
      BY <2>4, <2>5, <3>1, <3>4, <3>5 DEF Completions
  <2>10. Heads'
    BY <1>1, <2>1, <2>5, Numbers DEF Lap, Heads
  <2>11. Polled'
    BY <1>1, <2>1 DEF Lap, Polled, Waiting
  <2>12. InStep'
    <3> SUFFICES ASSUME level, call.at # "idle" PROVE InStep'
      BY <1>1 DEF InStep
    <3>1. c = issued /\ ctrl.cqTail = issued - 1
      <4>1. c \notin 1 .. issued - 1 /\ c \in 1 .. issued
        BY <2>1, <2>2, Numbers DEF Lap, InStep
      <4>2. issued - 1 <= ctrl.cqTail /\ ctrl.cqTail + 1 <= issued
        BY <2>1, <2>4, Numbers DEF Lap, InStep
      <4> QED
        BY <4>1, <4>2, Numbers
    <3>2. cq'[issued - 1].cmd = issued
      BY <1>1, <3>1
    <3>3. issued - 1 <= ctrl'.cqTail
      BY <2>5, <3>1, Numbers
    <3> QED
      BY <1>1, <2>1, <2>3, <3>2, <3>3 DEF Lap, InStep
  <2>13. Answer'
    BY <1>1, <2>1 DEF Lap, Answer
  <2> QED
    BY <2>6, <2>9, <2>10, <2>11, <2>12, <2>13 DEF Lap
<1> QED
  BY <1>1, <1>2, <1>3 DEF IInv

-------------------------------------------------------------------------------

LEMMA NextInv == IInv /\ [Next]_vars => IInv'
<1> SUFFICES ASSUME IInv, [Next]_vars PROVE IInv'
  OBVIOUS
<1>1. CASE UNCHANGED vars
  BY <1>1
     DEF vars, driverVars, ctrlVars, IInv, TypeOK, Calls, FirstLap, Lap, Submission,
         Completions, Heads, Polled, InStep, Answer, Answered, Waiting
<1>2. CASE Call
  BY <1>2, SubmitInv, RingSubmissionInv, PollReadInv, PollMissInv, PollHitInv, PollTakeInv,
     PollLoadInv, PollReleaseInv, PollJudgeInv DEF Call, CallStep
<1>3. CASE Irq
  BY <1>3, IrqEnterInv, IrqTestInv, IrqTakeInv, IrqLoadInv, IrqReleaseInv DEF Irq
<1>4. ASSUME NEW c \in Commands, Complete(c, IF c \in Failing THEN 1 ELSE 0)
      PROVE  IInv'
  <2> DEFINE code == IF c \in Failing THEN 1 ELSE 0
  <2>1. code \in {0, 1} /\ Complete(c, code)
    BY <1>4
  <2> HIDE DEF code
  <2> QED
    BY <2>1, CompleteInv
<1> QED
  BY <1>1, <1>2, <1>3, <1>4, FetchInv DEF Next

LEMMA Invariance == Spec => []IInv
<1>1. Init => IInv
  BY InitInv
<1>2. IInv /\ [Next]_vars => IInv'
  BY NextInv
<1> QED
  BY <1>1, <1>2, PTL DEF Spec

\* The types of the command path, in every lap: cq_head and the heads that
\* caller and handler remember are slots of the queue, sq_tail keeps to 16
\* bits, and a poll budget that is used is not negative.
THEOREM NvmeTypeCorrect == Spec => []TypeOK
<1>1. IInv => TypeOK
  BY DEF IInv
<1> QED
  BY <1>1, Invariance, PTL

\* For every queue size and number of polls, and however the handler's accesses
\* to cq_head fall between the call's: a call that begins with nothing left over
\* returns what the controller reported for its own command, or a timeout.
THEOREM NvmeOwnCompletion == Spec => []OwnCompletion
<1>1. IInv => OwnCompletion
  BY DEF IInv, Lap, Answer, OwnCompletion
<1> QED
  BY <1>1, Invariance, PTL

\* For every queue size: in the first lap neither the poll loop nor the
\* handler, which read and write cq_head without a lock and may each write back
\* an old value, moves it or the doorbell past the entries that are there.
THEOREM NvmeHeadBehindTail == Spec => []HeadBehindTail
<1>1. IInv => HeadBehindTail
  BY DEF IInv, Lap, Heads, Completions, Polled, HeadBehindTail
<1> QED
  BY <1>1, Invariance, PTL

\* For every queue size and number of polls: without interrupts the driver is
\* as many entries behind as calls have timed out, and one for a call that
\* waits.
THEOREM NvmeOneEntryPerCall == Spec => []OneEntryPerCall
<1>1. IInv => OneEntryPerCall
  BY DEF IInv, Lap, Polled, OneEntryPerCall
<1> QED
  BY <1>1, Invariance, PTL
===============================================================================
