------------------------------ MODULE WifiQueues ------------------------------
(***************************************************************************)
(* The command queue and the transmit ring of iwlwifi, ath9k and rtl8188:  *)
(* send, scan, connect and disconnect against firmware that reads the      *)
(* entries at its own pace.                                                *)
(*                                                                         *)
(* The three drivers differ in names and in the register send() writes at  *)
(* the end, which the firmware model does not need.  Neither ring has a    *)
(* flag or an index the driver reads back: the entry at the tail is        *)
(* written whatever is in it.  An entry is the number of the call that     *)
(* wrote it; its first part (cmd_id, addr) is stored before the rest.      *)
(*                                                                         *)
(* Without firmware every call is refused and nothing changes; recv() and  *)
(* get_status() never change anything, because nothing moves rx_tail.      *)
(***************************************************************************)
EXTENDS Integers

CONSTANTS
    CmdQueueSize,    \* IWL_CMD_QUEUE_SIZE and its like, 32
    TxQueueSize,     \* IWL_TX_QUEUE_SIZE and its like, 256
    TailSpan,        \* number of values of the uint16_t tails
    Callers,         \* threads of the host
    MaxCalls         \* bound: calls per ring in a behaviour

ASSUME SizeAssumption == CmdQueueSize \in Nat \ {0} /\ TxQueueSize \in Nat \ {0}
ASSUME SpanAssumption ==
    /\ TailSpan \in Nat \ {0}
    /\ TailSpan % CmdQueueSize = 0 /\ TailSpan % TxQueueSize = 0
ASSUME BoundAssumption == MaxCalls \in Nat

VARIABLES
    driver,             \* which of the three
    firmwareLoaded,     \* priv->firmware_loaded, decided in probe
    entry,              \* the entries of both rings
    tail,               \* priv->cmd_tail and tx_tail
    call,               \* what each thread is doing
    issued,             \* how many entries the tail has passed, not reduced
    fetched             \* how many of them the firmware has looked at

wifiVars == <<driver, firmwareLoaded, entry, tail, call, issued, fetched>>

Rings == {"cmd", "tx"}

Size(r) == IF r = "cmd" THEN CmdQueueSize ELSE TxQueueSize

Slots(r) == 0 .. Size(r) - 1

Idle == [at |-> "idle", ring |-> "tx", slot |-> 0, sleeps |-> FALSE]

Empty == [first |-> 0, rest |-> 0]

WifiInit ==
    /\ driver \in {"iwlwifi", "ath9k", "rtl8188"}
    /\ firmwareLoaded \in BOOLEAN
    /\ entry = [r \in Rings |-> [s \in Slots(r) |-> Empty]]
    /\ tail = [r \in Rings |-> 0]
    /\ call = [t \in Callers |-> Idle]
    /\ issued = [r \in Rings |-> 0]
    /\ fetched = [r \in Rings |-> 0]

\* A thread is between the read of r's tail and its increment.
Filling(r) == \E t \in Callers :
                 call[t].ring = r /\ call[t].at \in {"first", "rest", "tail"}

-------------------------------------------------------------------------------
(* A call that queues an entry.                                            *)

\* Mutant: the entry after the one at the tail is used.
BeginNext(t, r, sleeps) ==
    /\ firmwareLoaded /\ call[t] = Idle /\ ~Filling(r)
    /\ issued[r] < MaxCalls
    /\ call' = [call EXCEPT ![t] =
           [at |-> "first", ring |-> r, slot |-> (tail[r] + 1) % Size(r),
            sleeps |-> sleeps]]
    /\ UNCHANGED <<driver, firmwareLoaded, entry, tail, issued, fetched>>

\* The checks, and the entry at the tail.  No driver takes a lock: the host
\* lets one thread at a time write to a ring.
Begin(t, r, sleeps) ==
    /\ firmwareLoaded /\ call[t] = Idle /\ ~Filling(r)
    /\ issued[r] < MaxCalls
    /\ call' = [call EXCEPT ![t] =
           [at |-> "first", ring |-> r, slot |-> tail[r] % Size(r),
            sleeps |-> sleeps]]
    /\ UNCHANGED <<driver, firmwareLoaded, entry, tail, issued, fetched>>

\* The first part of the entry, then the rest.
FillFirst(t) ==
    LET c == call[t] IN
    /\ c.at = "first"
    /\ entry' = [entry EXCEPT ![c.ring][c.slot].first = issued[c.ring] + 1]
    /\ call' = [call EXCEPT ![t].at = "rest"]
    /\ UNCHANGED <<driver, firmwareLoaded, tail, issued, fetched>>

FillRest(t) ==
    LET c == call[t] IN
    /\ c.at = "rest"
    /\ entry' = [entry EXCEPT ![c.ring][c.slot].rest = issued[c.ring] + 1]
    /\ call' = [call EXCEPT ![t].at = "tail"]
    /\ UNCHANGED <<driver, firmwareLoaded, tail, issued, fetched>>

\* Mutant: the tail is wider than 16 bits.
AdvanceWide(t) ==
    LET c == call[t] IN
    /\ c.at = "tail"
    /\ tail' = [tail EXCEPT ![c.ring] = @ + 1]
    /\ issued' = [issued EXCEPT ![c.ring] = @ + 1]
    /\ call' = [call EXCEPT ![t] =
                   IF c.sleeps THEN [c EXCEPT !.at = "sleep"] ELSE Idle]
    /\ UNCHANGED <<driver, firmwareLoaded, entry, fetched>>

\* The barrier and the increment.  scan and connect then sleep a second or
\* two, in which the host may let another call in.
Advance(t) ==
    LET c == call[t] IN
    /\ c.at = "tail"
    /\ tail' = [tail EXCEPT ![c.ring] = (@ + 1) % TailSpan]
    /\ issued' = [issued EXCEPT ![c.ring] = @ + 1]
    /\ call' = [call EXCEPT ![t] =
                   IF c.sleeps THEN [c EXCEPT !.at = "sleep"] ELSE Idle]
    /\ UNCHANGED <<driver, firmwareLoaded, entry, fetched>>

Wake(t) ==
    /\ call[t].at = "sleep"
    /\ call' = [call EXCEPT ![t] = Idle]
    /\ UNCHANGED <<driver, firmwareLoaded, entry, tail, issued, fetched>>

-------------------------------------------------------------------------------
(* The operations of each driver.                                          *)

IwlwifiSend(t) == driver = "iwlwifi" /\ Begin(t, "tx", FALSE)
IwlwifiScan(t) == driver = "iwlwifi" /\ Begin(t, "cmd", TRUE)
IwlwifiConnect(t) == driver = "iwlwifi" /\ Begin(t, "cmd", TRUE)
IwlwifiDisconnect(t) == driver = "iwlwifi" /\ Begin(t, "cmd", FALSE)

Ath9kSend(t) == driver = "ath9k" /\ Begin(t, "tx", FALSE)
Ath9kScan(t) == driver = "ath9k" /\ Begin(t, "cmd", TRUE)
Ath9kConnect(t) == driver = "ath9k" /\ Begin(t, "cmd", TRUE)
Ath9kDisconnect(t) == driver = "ath9k" /\ Begin(t, "cmd", FALSE)

Rtl8188Send(t) == driver = "rtl8188" /\ Begin(t, "tx", FALSE)
Rtl8188Scan(t) == driver = "rtl8188" /\ Begin(t, "cmd", TRUE)
Rtl8188Connect(t) == driver = "rtl8188" /\ Begin(t, "cmd", TRUE)
Rtl8188Disconnect(t) == driver = "rtl8188" /\ Begin(t, "cmd", FALSE)

Operation(t) ==
    \/ IwlwifiSend(t) \/ IwlwifiScan(t)
    \/ IwlwifiConnect(t) \/ IwlwifiDisconnect(t)
    \/ Ath9kSend(t) \/ Ath9kScan(t)
    \/ Ath9kConnect(t) \/ Ath9kDisconnect(t)
    \/ Rtl8188Send(t) \/ Rtl8188Scan(t)
    \/ Rtl8188Connect(t) \/ Rtl8188Disconnect(t)

-------------------------------------------------------------------------------
(* The firmware moves on to the next entry, if it ever does: no register   *)
(* tells it of a command.                                                  *)

FirmwareFetch(r) ==
    /\ fetched[r] < issued[r]
    /\ fetched' = [fetched EXCEPT ![r] = @ + 1]
    /\ UNCHANGED <<driver, firmwareLoaded, entry, tail, call, issued>>

-------------------------------------------------------------------------------

WifiNext ==
    \/ \E t \in Callers : \/ Operation(t) \/ FillFirst(t) \/ FillRest(t)
                          \/ Advance(t) \/ Wake(t)
    \/ \E r \in Rings : FirmwareFetch(r)

WifiSpec == WifiInit /\ [][WifiNext]_wifiVars

-------------------------------------------------------------------------------
(* Properties *)

Entries == [first : 0 .. MaxCalls, rest : 0 .. MaxCalls]

\* Type invariant of the two rings.
WifiTypeOK ==
    /\ driver \in {"iwlwifi", "ath9k", "rtl8188"}
    /\ firmwareLoaded \in BOOLEAN
    /\ \A r \in Rings : entry[r] \in [Slots(r) -> Entries]
    /\ tail \in [Rings -> 0 .. TailSpan - 1]
    /\ \A t \in Callers :
          /\ call[t].at \in {"idle", "first", "rest", "tail", "sleep"}
          /\ call[t].ring \in Rings /\ call[t].slot \in Slots(call[t].ring)
          /\ call[t].sleeps \in BOOLEAN
    /\ issued \in [Rings -> 0 .. MaxCalls]
    /\ \A r \in Rings : fetched[r] \in 0 .. issued[r]

\* An entry that has been issued and not fetched is in its slot, whole, until
\* as many calls as the ring has entries follow it, the one being made
\* included.  So this is how far firmware may fall behind (31 commands, 255
\* frames while a call is being made); from there on commands are lost,
\* because no call ever finds a ring full.
QueueHoldsUnread ==
    \A r \in Rings : \A k \in fetched[r] + 1 .. issued[r] :
       issued[r] + (IF Filling(r) THEN 1 ELSE 0) - k < Size(r) =>
           entry[r][(k - 1) % Size(r)] = [first |-> k, rest |-> k]
===============================================================================
