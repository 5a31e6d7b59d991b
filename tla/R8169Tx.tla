------------------------------- MODULE R8169Tx -------------------------------
(***************************************************************************)
(* The transmit side of the r8169 driver: r8169_send() running in the      *)
(* host's threads against the transmit engine of the controller, which     *)
(* share the descriptor ring and its OWN bits.                             *)
(*                                                                         *)
(* A descriptor is the pair <addr, len> (abstracted to the frame it points *)
(* to) and the OWN bit of opts.  The caller leaves a frame alone until the *)
(* controller has sent it.  Calls that r8169_send refuses (no device, no   *)
(* frame, a length of 0 or above 9600, no free descriptor) return -1 and   *)
(* change nothing, so they are stuttering steps.                           *)
(***************************************************************************)
EXTENDS Integers, Sequences

CONSTANTS
    RingSize,        \* R8169_TX_DESC_COUNT
    TailSpan,        \* number of values of the uint16_t tx_tail
    Frames,          \* frames callers send
    NoFrame,         \* a descriptor that was never filled
    Senders,         \* threads that may call r8169_send
    Serialized,      \* TRUE: the host lets one thread at a time into send
    StoresInOrder    \* TRUE: stores become visible in program order

ASSUME RingAssumption == RingSize \in Nat \ {0}
ASSUME SpanAssumption == TailSpan \in Nat \ {0} /\ TailSpan % RingSize = 0
ASSUME FrameAssumption == NoFrame \notin Frames
ASSUME FlagAssumption == Serialized \in BOOLEAN /\ StoresInOrder \in BOOLEAN

VARIABLES
    desc,      \* the transmit ring
    tail,      \* priv->tx_tail
    call,      \* what each thread is doing inside r8169_send
    kicked,    \* a write to TPPOLL the controller has not followed up yet
    cursor,    \* the descriptor the controller looks at next
    fetched,   \* the frame the controller is sending
    wire       \* the frame that left last

vars == <<desc, tail, call, kicked, cursor, fetched, wire>>

Slots == 0 .. RingSize - 1

Stores == {"frame", "own"}

Idle == [at |-> "idle", slot |-> 0, frame |-> NoFrame, todo |-> {}]

Calls ==
    [at : {"idle", "store", "kick"}, slot : Slots,
     frame : Frames \cup {NoFrame}, todo : SUBSET Stores]

\* The state r8169_probe leaves behind: a zeroed ring, both engines enabled.
Init ==
    /\ desc = [s \in Slots |-> [own |-> FALSE, frame |-> NoFrame]]
    /\ tail = 0
    /\ call = [t \in Senders |-> Idle]
    /\ kicked = FALSE
    /\ cursor = 0
    /\ fetched = NoFrame
    /\ wire = NoFrame

-------------------------------------------------------------------------------
(* r8169_send *)

\* Mutant: the test of OWN is missing.
SendEnterOwned(t, f) ==
    LET s == tail % RingSize IN
    /\ call[t] = Idle
    /\ Serialized => \A u \in Senders : call[u] = Idle
    /\ call' = [call EXCEPT ![t] =
           [at |-> "store", slot |-> s, frame |-> f, todo |-> Stores]]
    /\ UNCHANGED <<desc, tail, kicked, cursor, fetched, wire>>

\* Entry, the argument checks and the test of OWN.
SendEnter(t, f) ==
    LET s == tail % RingSize IN
    /\ call[t] = Idle
    /\ Serialized => \A u \in Senders : call[u] = Idle
    /\ ~desc[s].own
    /\ call' = [call EXCEPT ![t] =
           [at |-> "store", slot |-> s, frame |-> f, todo |-> Stores]]
    /\ UNCHANGED <<desc, tail, kicked, cursor, fetched, wire>>

\* Mutants: tx_tail is not reduced to 16 bits; the frame is not stored.
SendStoreAs(t, x, next, frame) ==
    LET c == call[t] IN
    /\ c.at = "store" /\ x \in c.todo
    /\ x = "own" => "frame" \notin c.todo
    /\ desc' = [desc EXCEPT ![c.slot] =
           IF x = "own" THEN [@ EXCEPT !.own = TRUE] ELSE [@ EXCEPT !.frame = frame]]
    /\ IF c.todo = {x}
       THEN tail' = next /\ call' = [call EXCEPT ![t].at = "kick", ![t].todo = {}]
       ELSE UNCHANGED tail /\ call' = [call EXCEPT ![t].todo = @ \ {x}]
    /\ UNCHANGED <<kicked, cursor, fetched, wire>>

SendStoreUnwrapped(t, x) == SendStoreAs(t, x, tail + 1, call[t].frame)

SendStoreNoFrame(t, x) ==
    SendStoreAs(t, x, (tail + 1) % TailSpan, desc[call[t].slot].frame)

\* One of the stores to the descriptor becomes visible to the controller.
\* tx_tail++ is private to the driver, so it happens with the last of them.
SendStore(t, x) ==
    LET c == call[t] IN
    /\ c.at = "store" /\ x \in c.todo
    /\ StoresInOrder /\ x = "own" => "frame" \notin c.todo
    /\ desc' = [desc EXCEPT ![c.slot] =
           IF x = "own" THEN [@ EXCEPT !.own = TRUE]
                        ELSE [@ EXCEPT !.frame = c.frame]]
    /\ IF c.todo = {x}
       THEN /\ tail' = (tail + 1) % TailSpan
            /\ call' = [call EXCEPT ![t].at = "kick", ![t].todo = {}]
       ELSE /\ UNCHANGED tail
            /\ call' = [call EXCEPT ![t].todo = @ \ {x}]
    /\ UNCHANGED <<kicked, cursor, fetched, wire>>

\* Mutant: the frame is queued and the doorbell is forgotten.
SendKickNot(t) ==
    /\ call[t].at = "kick"
    /\ call' = [call EXCEPT ![t] = Idle]
    /\ UNCHANGED <<desc, tail, kicked, cursor, fetched, wire>>

\* The write to TPPOLL, and the return.
SendKick(t) ==
    /\ call[t].at = "kick"
    /\ kicked' = TRUE
    /\ call' = [call EXCEPT ![t] = Idle]
    /\ UNCHANGED <<desc, tail, cursor, fetched, wire>>

-------------------------------------------------------------------------------
(* The controller's transmit engine, as the driver relies on it: it walks  *)
(* the ring in order, reads a descriptor whose OWN bit is set, sends the   *)
(* frame, clears OWN, and stops at the first descriptor it does not own    *)
(* until TPPOLL is written again.                                          *)

\* That it goes back to descriptor 0 at the end is assumed: the driver defines
\* R8169_TX_EOR and sets it in no descriptor.
NextSlot(s) == (s + 1) % RingSize

EngineFetch ==
    /\ kicked /\ fetched = NoFrame /\ desc[cursor].own
    /\ fetched' = desc[cursor].frame
    /\ UNCHANGED <<desc, tail, call, kicked, cursor, wire>>

EngineComplete ==
    /\ fetched # NoFrame
    /\ wire' = fetched
    /\ fetched' = NoFrame
    /\ desc' = [desc EXCEPT ![cursor].own = FALSE]
    /\ cursor' = NextSlot(cursor)
    /\ UNCHANGED <<tail, call, kicked>>

EnginePause ==
    /\ kicked /\ fetched = NoFrame /\ ~desc[cursor].own
    /\ kicked' = FALSE
    /\ UNCHANGED <<desc, tail, call, cursor, fetched, wire>>

-------------------------------------------------------------------------------

SendStep(t) == (\E x \in Stores : SendStore(t, x)) \/ SendKick(t)

Engine == EngineFetch \/ EngineComplete \/ EnginePause

Next ==
    \/ \E t \in Senders, f \in Frames : SendEnter(t, f)
    \/ \E t \in Senders : SendStep(t)
    \/ Engine

Spec == Init /\ [][Next]_vars

\* A thread inside send is scheduled until it returns and the controller
\* keeps running; nobody is obliged to start a send.
LiveSpec ==
    /\ Spec
    /\ \A t \in Senders : WF_vars(SendStep(t))
    /\ WF_vars(Engine)

-------------------------------------------------------------------------------
(* Properties *)

\* Type invariant of the transmit side.
TypeOK ==
    /\ desc \in [Slots -> [own : BOOLEAN, frame : Frames \cup {NoFrame}]]
    /\ tail \in 0 .. TailSpan - 1
    /\ call \in [Senders -> Calls]
    /\ kicked \in BOOLEAN
    /\ cursor \in Slots
    /\ fetched \in Frames \cup {NoFrame}
    /\ wire \in Frames \cup {NoFrame}

\* The descriptor i places after the controller's cursor.
Ahead(i) == desc[(cursor + i) % RingSize]

\* Exactly the n descriptors from the cursor on belong to the controller,
\* and the driver's tail is right behind them.
Holds(n) ==
    /\ \A i \in Slots : Ahead(i).own <=> i < n
    /\ tail % RingSize = (cursor + n) % RingSize

\* The controller's descriptors are one unbroken run that starts at its
\* cursor and ends at tx_tail, also when the ring is full and when the
\* uint16_t tail wraps: no OWN descriptor is stranded behind a gap, where the
\* engine would never reach it.
Contiguous == \E n \in 0 .. RingSize : Holds(n)

InFlight == CHOOSE n \in 0 .. RingSize : Holds(n)

\* A descriptor given to the controller holds a frame, and the frame being
\* sent is still the one in the descriptor under the cursor: no send()
\* rewrites a descriptor between the moment the controller has read it and
\* the moment it clears OWN.
NoOverwrite ==
    /\ \A s \in Slots : desc[s].own => desc[s].frame # NoFrame
    /\ fetched # NoFrame => desc[cursor] = [own |-> TRUE, frame |-> fetched]

\* At most one thread is inside send(), the descriptor it fills is the one at
\* tx_tail and is not the controller's, and OWN is never visible before the
\* frame is.
OneWriter ==
    /\ \A t, u \in Senders : call[t] # Idle /\ call[u] # Idle => t = u
    /\ \A t \in Senders :
          /\ call[t].at = "idle" => call[t] = Idle
          /\ call[t].at = "store" =>
                /\ call[t].slot = tail % RingSize
                /\ call[t].frame \in Frames
                /\ "own" \in call[t].todo
                /\ ~desc[call[t].slot].own
                /\ "frame" \notin call[t].todo =>
                       desc[call[t].slot].frame = call[t].frame

\* The frames in flight, oldest first.
Queue == [i \in 1 .. InFlight |-> Ahead(i - 1).frame]

Pipe == INSTANCE FrameQueue
            WITH Depth <- RingSize, queue <- Queue, out <- wire

\* Every frame whose send() returned leaves on the wire once, unchanged and
\* in order: the transmit side implements the frame queue.
ImplementsPipe == Pipe!Spec

\* No frame is stuck in the ring for want of a doorbell or behind a
\* descriptor the controller does not own.
KeepsMoving == Pipe!Moves
===============================================================================
