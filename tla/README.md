# A TLA+ model of libnetconnect

libnetconnect is a set of device drivers for hobby operating systems: eleven
drivers written against one table of platform functions (`nc_platform`), a
registry in which a host finds them, and nothing else. There are no threads, no
queues of its own and no scheduler. What is hard about it is what happens
*between* a driver and the things that run beside it: host threads that call
the same driver, a controller that reads and writes the descriptors in memory,
an interrupt handler that overlaps a call, on the same processor or another, an
allocation that fails in the middle of a probe. Those are what the modules below describe.

## Inventory

| Part | State it keeps | Operations | Runs beside it | What makes it correct |
|---|---|---|---|---|
| Registry (`src/core/registry.c`) | three driver tables and counts, the platform pointer | register, get, count, `nc_drivers_init` | the host's probe loop | indexes keep their meaning; no table overflows; nobody is skipped |
| r8169, r8125 | two descriptor rings with an OWN bit, 16-bit tails | `send`, `recv`, `get_mac` | transmit and receive engine, other host threads, handler | no descriptor is touched by both sides; frames leave once, whole and in order |
| e1000, e1000e | two rings with a DD bit, tail registers | same | same | same |
| virtio-net | avail and used rings with 16-bit indexes | same | same | same |
| vmxnet3 | two rings with a generation bit | same | same | same |
| iwlwifi, ath9k, rtl8188 | command queue, two rings, firmware | `send`, `recv`, `scan`, `connect`, `disconnect`, `get_status` | firmware, handler | commands are not overwritten before they are read |
| nvme | submission and completion queue, head and tail | `read`, `write`, `flush`, `get_capacity` | controller, handler | a call returns what happened to its own command |
| ahci | memory of command slot 0, the CI register | same | port, handler | the slot is not rebuilt under a running command |
| probe / remove / handler of all | priv, rings, buffers, `driver_data`, engine and interrupt switches | `probe`, `remove`, handler | interrupts, allocation failures | nothing leaks, nothing is freed twice or under the device |
| Platform and examples | none of interest | allocation, MMIO, IRQ, locks | | given |

The parts meet in four places: **calls** of the host through the driver table
(`send`, `recv`, `read`, `write`, `flush`, `probe`, `remove`), the **descriptor
memory** shared with the device, **registers** (doorbells, CI, interrupt cause
and mask), and the **callback** `irq_request` installs, which runs with
`driver_data` as its only state. Locks exist in `nc_platform` and no driver
takes one, although `docs/DRIVER_GUIDE.md` (Interrupts vs Polling) asks for it:
every exclusion the models assume is an assumption on the host and is named.

## Modules

| Module | Models | Source |
|---|---|---|
| `FrameQueue` | the abstract specification of one direction of a network driver: a bounded lossless FIFO | the contract of `send`/`recv` in `include/nc/device.h` |
| `R8169Tx` | `r8169_send` against the transmit engine | `drivers/net/r8169/r8169.c` 280-306 |
| `R8169Rx` | `r8169_recv` against the receive engine | same, 308-336 |
| `Nvme` | nvme calls, handler, controller | `drivers/storage/nvme/nvme.c` 271-291, 317-466 |
| `Ahci` | ahci calls, handler, port | `drivers/storage/ahci/ahci.c` 268-307, 351-545 |
| `VirtioNet` | `virtio_net_send` and `virtio_net_recv` against the device | `drivers/net/virtio-net/virtio_net.c` 151-172, 254-314 |
| `DescriptorRings` | the send and receive rings of e1000, e1000e and vmxnet3 | `e1000.c` 338-397, `e1000e.c` 452-510, `vmxnet3.c` 323-386 |
| `WifiQueues` | `send`, `scan`, `connect`, `disconnect` of the three WiFi drivers | `iwlwifi.c` 246-403, `ath9k.c` 263-418, `rtl8188.c` 252-407 |
| `Registry` | tables, `nc_drivers_init`, the host's probe loop | `src/core/registry.c`, `docs/OS_INTEGRATION.md` Step 3 |
| `Lifecycle` | probe, remove and handler of every driver | all `*_probe`, `*_remove`, `*_irq_handler` |
| `RingArithmetic` | lemmas on counters and remainders | |
| `R8169TxProofs`, `R8169RxProofs`, `VirtioNetProofs`, `DescriptorRingsProofs`, `NvmeProofs`, `AhciProofs` | the theorems about the module each is named after | |
| `HostProofs` | the theorems about `Registry`, `Lifecycle` and `WifiQueues` | |
| `MC*` | the instances TLC checks | |

`r8125_send` and `r8125_recv` are line for line `r8169_send` and `r8169_recv`
with other names and ring sizes; ring sizes are parameters, so `R8169Tx` and
`R8169Rx`, their runs and their theorems hold for the r8125 as well.

A specification is called `Spec`, with `Init`, `Next`, `TypeOK` and `vars`. In
`Registry`, `Lifecycle` and `WifiQueues`, which one module of proofs brings
together, these names carry the component's (`RegistrySpec`, `WifiTypeOK`).

### R8169Tx

A descriptor is a frame (standing for address and length) and the OWN bit.
`tail` is `tx_tail`, a `uint16_t`: it counts modulo `TailSpan`. A call is three
kinds of steps: `SendEnter` (the checks and the test of OWN), `SendStore` (one
store to the descriptor becomes visible; the last one also moves `tx_tail`),
`SendKick` (TPPOLL). A refused call changes nothing and is a stuttering step.
The transmit engine (`EngineFetch`, `EngineComplete`, `EnginePause`) is outside
the repository: it walks the ring in order, sends what it owns, clears OWN and
stops at the first descriptor it does not own until TPPOLL is written. At the
end of the ring it goes back to descriptor 0. The code does not ask it to:
`R8169_TX_EOR` and `R8169_RX_EOR` are defined and set in no descriptor (the r8125
likewise), so the wrap is an assumption on the controller, here and in `R8169Rx`.

Two assumptions of the driver are parameters. `Serialized`: the host lets one
thread at a time into `send`; the driver takes no lock. `StoresInOrder`: the
stores of address, length and OWN become visible in program order; the barrier
stands after the store of OWN (line 298), so on a weakly ordered processor
nothing makes them so. With either one FALSE, TLC finds the ring corrupted;
both are needed, for r8169, r8125 and their theorems.

### R8169Rx

The same for `r8169_recv`: `RecvEnter` (argument checks, OWN, bounds check),
`RecvCopy` (memcpy and the read of `pkt_len`), `RecvStore` (length, OWN, then
`rx_tail` and the return). The caller's buffer is one of `CallerSizes`; a call
whose buffer is too small for the frame at the head returns -1 and leaves it
there. `Drains` therefore needs a host that also polls with a large enough
buffer: a host that always passes 1518 bytes, as `docs/OS_INTEGRATION.md`
shows, stops at the first longer frame.

### VirtioNet

A split virtqueue is two rings with 16-bit indexes that only count up. The
driver keeps three indexes of its own (`own`): the receive queue's available
and used index and the transmit queue's available index. `recv` is `RecvEnter`
(the comparison with `used->idx` and the bounds check), `RecvCopy` (memcpy,
`rx_used_idx++`) and `RecvStore`, the two stores that give the buffer back, in
either order, since no barrier separates them; the used entry is read again in
the second and, for the return value, in the last. `Send` is one step: the only
thing it shares with `recv` is `rx_used_idx`, read once.

The device (`DeviceLook`, `DeviceFill`, `DevicePost`) looks at `avail->idx` when
it likes, works up to the index it saw, and stops for good at an index that
would offer more entries than the queue has. Two simplifications: it is taken to
have found the receive ring, whose address no register is told; and nothing
reads the transmit queue, because probe sets up queue 0 only and `send` notifies
queue 0. The loads of `recv` are made in program order (hazard at line 301).

`ImplementsPipe` says that what the driver delivers is right, `RunsDry` how
little that is: one frame per buffer, then silence.

### DescriptorRings

One ring of one card per behaviour (`card`, `way`), because the two rings of a
card share nothing. The variables are those all six rings have: descriptors
with one bit and a frame, the driver's 16-bit position, the generation, the
call in progress, and the device's head and tail registers. `LegacySend` and
`LegacyRecv` are the steps e1000 and e1000e have in common, `E1000RecvTail`,
`E1000RecvHead` and `E1000eRecvTail` where they differ: e1000 writes RDT and
then sets RDH to 0. vmxnet3 writes no register in `send` or `recv`.

A driver writes its position to the tail register without reducing it to the
ring. What a device makes of a value beyond the ring (`reading`) is open, so a
device that reduces it, one that ignores it and one that keeps it and never
meets it are all explored. The last goes round its ring for ever from the send
that fills the last descriptor on; the second never sends that frame.

What the properties say, ring by ring: e1000e's receive ring keeps the order of
frames for good (if the tail is not kept beyond the ring), the other legacy
rings for one lap (`InOrder`); a send ring is good for one round (`OneRound`); a
receive ring that was once emptied stays empty (`OnceDry`); vmxnet3's tests
never say no (`GenerationBlind`). The exceptions in these properties are real:
without them TLC shows the reordering of e1000's second lap, the send that
clears a DD bit set after it had looked, and the ring a wrong tail value revives.

### WifiQueues

The three drivers have the same code with other names. A call is `Begin` (the
checks and the entry at the tail), `FillFirst` and `FillRest` (the entry, in two
parts so that a half-written one is visible), `Advance` (the barrier and the
tail) and, for `scan` and `connect`, `Wake` after the sleep, during which another
thread may make a call. Threads may be in different rings at the same time; that
only one writes to a ring is asked of the host, since no driver takes a lock.
The firmware reads entries in order, at any pace. Not modelled are the register
`send` writes at the end (CSR_INT in iwlwifi, the ring's base address in ath9k and
rtl8188, which start the unit over at the first descriptor) and the calls that
change nothing: `recv` and `get_status`, and every call without firmware.

### Nvme

The n-th command is the number n; its completion entry carries a status word
(twice the code plus the phase bit) and, for the properties only, the command.
The driver takes no lock and nothing keeps the handler on the caller's
processor, so every access either makes to `cq_head` is a step and the steps may
fall in any order. In the poll loop these are `PollRead` (`cq_head`), `PollMiss`
or `PollHit` (the status of that entry), `PollTake` (`cq_head` becomes the next
slot, whatever it is by then), `PollLoad` and `PollRelease` (the doorbell value
and the write of it) and `PollJudge` (the status once more, after the doorbell);
in the handler `IrqEnter`, `IrqTest`, `IrqTake`, `IrqLoad` and `IrqRelease`. The
doorbell value is `priv->cq_head` right after the assignment to it: a build may
keep what it stored or read the field again, and `PollLoad` and `IrqLoad` choose.
Assumed is that each access is indivisible and that they reach memory in program
order, and that the handler does not interrupt itself.

The controller completes fetched commands in any order, or never; `Failing` is
the set of commands that fail when they are completed. The submission doorbell
gets `sq_tail` without a remainder: a value that is not a slot is either ignored
or reduced, both are explored.

The properties on answers hold in the *first lap* (fewer commands than slots,
`FirstLap`), and say so. Past it the driver does not compare phase bits, so an
old entry answers a new command if the controller reduces the doorbell value,
and no command is fetched if it ignores it. `HeadBehindTail` is what the races
leave in the first lap: neither `cq_head` nor the controller's head gets ahead of
the entries posted, but a late write moves either back. `OwnCompletion` is
therefore about calls that begin level (`level`: every earlier command answered,
`cq_head` at the last entry posted, no handler about to act on an older head).
Both parts of that are needed. An entry left over by a call that gave up answers
the next call, since no command identifier is compared. And a handler that has
read head 0 and is overtaken by two calls writes `cq_head` back from 2 to 1, so
that the third call finds the second command's entry there and returns success
for a command that was not executed, in the first lap and with no call given up:
that is the trace TLC gives when `level` asks for less.

### Ahci

The request is written into slot 0 as the bytes of the FIS (`LbaBytes`,
`CountBytes`, which the port decodes; `Weight` has the six powers of a byte) and
the PRD table, whose entries fit exactly: 256 sectors at 16 an entry make 16,
and the constants ask for `SectorLimit <= PrdCount * PrdCount`. In the code's order:
`WriteFis`, `WritePrd`, `Issue`, the poll loop. `while (timeout--)` is modelled
to the letter, so a command that completes in the last round is reported as
failed and an exhausted wait as success (`PollOut`, which wraps modulo
`WordSpan`). Every safety property says what it becomes after such a wait. The
port's cause and global bits are level-triggered; the handler acknowledges
port first, then global.

One idealisation: the port is handed the FIS and the table. The code writes the
FIS into the port's receive area (`ahci.c:200`) and stores the table's address
in no header and no register, so a real port would find neither. What
`RequestInFis` says is what the memory holds: the FIS has the LBA and the count,
the table has the buffer's address and the flag of its last entry. It has no
length, as `struct ahci_prd` has no field for one and `chunk_size` (line 400) is
stored nowhere: up to 16 sectors the table is that of one sector, which the
property states, and further entries point behind the buffer.

### Registry

A register call is a step, and `nc_drivers_init` is its seven calls, so the
host's registrations and its probe loop fall between them. Two register calls
that overlap, between the check, the store and the increment (lines 38-39), are
not modelled: registrations are the host's to serialize. A walk reads count,
driver and probe in one round; `fits` is the set of drivers that accept the
device. What the properties say is that a table only grows at its end. A driver
of the host has one of the three classes and a name other than `None`
(`HostAssumption`).

### Lifecycle

Every probe and every remove is a straight line of platform calls, so a driver
is a sequence of steps (`Take`, `Fill`, `Start`, `Irq`, ...) and a step that can
fail carries what its error path frees. The actions run the sequence; the same
actions run all eleven drivers. `Raise` asserts the line for any enabled cause,
`HandlerEnter` and `HandlerLeave` are the handler. Three things are assumed of
the outside: `irq_free` waits for a handler that is running; a device stops at
the write that disables it (no driver waits); a reset clears enabled causes
(virtio-net's are on by default and nvme's are never masked).

## Runs

| Run | Bounds | Distinct states | What it shows |
|---|---|---|---|
| `r8169_tx` | ring 3, tail modulo 6, 2 frames, 2 threads | 3,797 | `TypeOK`, `Contiguous`, `NoOverwrite`; implements `FrameQueue`; frames keep moving |
| `r8169_rx` | ring 3, tail modulo 6, 2 frames, buffers of 2 and 3, 2 threads | 2,155 | `TypeOK`, `Contiguous`, `WholeFrames`; implements `FrameQueue`; the ring drains |
| `nvme` | queues of 4, 4 commands, of which 2 fail, 2 polls | 583,207 | which answers are a call's own, how far the heads get, and that every call returns |
| `nvme_stolen` | same | violation | the handler takes a completion and the caller times out |
| `ahci` | bytes of 2 bits, 8 requests, 3 calls, 2 polls | 30,284 | slot 0 is stable, the FIS holds the request and the PRD table no length; causes are acknowledged; calls return |
| `ahci_exhausted` | same | violation | an exhausted wait is reported as success |
| `virtio_net` | queue of 3, indexes modulo 9, 2 frames, buffers of 2 and 3 | 3,220 | frames come out once, whole and in order; the queue runs dry |
| `descriptor_rings` | ring 3, position modulo 6, 8 frames, 6 rings, 3 kinds of device | 4,145 | how long each ring keeps the order, and when it stops |
| `wifi_queues` | queues of 2 and 3, tails modulo 6, 8 calls per ring, 2 threads | 225,291 | how far firmware may fall behind before commands are lost |
| `registry` | 3 places per table, 2 inits, 1 walk | 131,670 | stable indexes, complete walks |
| `lifecycle` | 11 drivers, 3 buffers | 868 | no leak, no double free, no engine on freed memory, no handler on freed priv |
| `lifecycle_mask` | r8169 | violation | remove enables every interrupt cause |

Why the bounds are enough. A ring of three shows an empty, a partly filled and
a full ring and a run that wraps round the end, and a tail span of two laps
lets the counter wrap while the ring is in use. The nvme queue lets three
commands fill the first lap, which is what it takes for a late handler to set
`cq_head` back under a third call; the fourth is the first with a doorbell value
outside the queue, and one call that gives up leaves two more to be answered
late. Successes and failures alternate, so that another command's entry is told
from one's own. Two polls distinguish a first, a last and an exhausted round. Bytes of
two bits make every one of the six LBA bytes and both count bytes matter with
numbers TLC can enumerate. The virtio
queue's indexes would wrap after three laps; `RunsDry` shows that they never get
past two. Eight frames take a ring of three into its third lap and its 16-bit
position, modulo 6, round once; eight calls do the same for the WiFi rings, and
two threads are as many as can meet in them (one per ring). The instance of
`wifi_queues` is symmetric in the threads. Tables of three are filled exactly by the built-in
drivers, and overfilled with one of the host's or with a second
`nc_drivers_init`. Three buffers give a failure at the first, at a middle and at
the last one. `MaxCommands`, `MaxCalls`, `MaxFrames`, `MaxInits` and
`MaxWalks` bound behaviours, not the state the driver keeps; runs with such a
bound end, and check no deadlock, and nor does `virtio_net`, where the system
itself stops. The others do.

Fairness. A host thread inside a call is scheduled until it returns, a running
probe or remove goes on, and the platform calls the handler while the line is
up: weak fairness of those steps. Of a device nothing is assumed in `Nvme` and
`Ahci` (it may never answer; calls have to return all the same). In `R8169Tx`
the engine is weakly fair, since a stopped engine delivers nothing whatever the
driver does. `R8169Rx` assumes that the host keeps polling.
`VirtioNet`, `DescriptorRings` and `WifiQueues` state no fairness: what they say
is how far the code can get at most, and in which order. No caller is obliged
to start anything.

## Where the code disagrees with what is said of it

1. `nvme_stolen`: "Drivers must work with both interrupts and polling"
   (`docs/OS_INTEGRATION.md`), yet once `irq_request` is granted the nvme handler
   consumes the completion that a call polls for, and the call returns -1. The
   same unlocked `cq_head` (`docs/DRIVER_GUIDE.md`: "Keep any state touched by both
   paths behind plat->lock_acquire and plat->lock_release") is why
   `OwnCompletion` needs its hypothesis `level`.
2. `ahci_exhausted`: under "Wait for completion (polling)" the exhausted wait is
   tested as `timeout == 0`, but `while (timeout--)` leaves 0xFFFFFFFF there.
3. `lifecycle_mask`: under "Disable interrupts" `r8169_remove` writes
   0xFFFFFFFF to the register in which probe sets the bits of the causes it
   enables. r8125 and the WiFi drivers do the same; e1000, e1000e and ahci, which
   do it right, satisfy `SilentAfterRemove`.

4. `virtio_net`, `RunsDry`: "Return buffer to device" (`virtio_net.c:307`) publishes
   an index counted from 0 behind the one probe published, so no buffer is
   returned and a probed device receives at most one frame per buffer.
5. `descriptor_rings`, `OneRound`: "Check if descriptor is available"
   (`e1000.c:349`, `e1000e.c:463`) refuses the descriptors the device is done with,
   and "TX completion will be handled in next send()" (`e1000.c:297`) is nowhere:
   after one round of the ring every send fails.
6. `descriptor_rings`, `OnceDry`: recv sets RDT to the descriptor it looks at next
   (`e1000.c:393`, `e1000e.c:507`), which the device therefore never fills: the
   first time recv has emptied the ring it returns 0 for good.
7. `descriptor_rings`, `GenerationBlind`: "Check if descriptor is owned by driver
   (not device)" (`vmxnet3.c:366`) and "Check if descriptor is available" (334)
   are tests whose outcome is fixed.

The first three are violated claims, the last four are shown by properties that
hold: they say what the code does in place of what the comment says, and the
mutant that breaks each is close to the repaired code.

`EngineHasMemory` names two paths on which it does not hold (`LeftRunning`):
`virtio_net_remove` frees rings and buffers without a device reset, and
`nvme_probe` frees the queues of a controller it has enabled when the wait for
RDY gives up.

## What is proved

For every value of the constants that the modules' assumptions allow, and for
all behaviours of `Spec`, however long:

| Module | Theorems | Property |
|---|---|---|
| `R8169Tx` | `TxSafe`, `TxTypeCorrect`, `TxContiguous`, `TxImplementsPipe` | `TypeOK`, `Contiguous`, `NoOverwrite`; the ring implements `FrameQueue` |
| `R8169Rx` | `RxSafe`, `RxTypeCorrect`, `RxWholeFrames`, `RxImplementsPipe` | `TypeOK`, `Contiguous`, `WholeFrames`; the ring implements `FrameQueue` |
| `VirtioNet` | `VirtioTypeCorrect`, `VirtioRunsDry`, `VirtioImplementsPipe` | `TypeOK`, `RunsDry`; the receive queue implements `FrameQueue` |
| `DescriptorRings` | `RingsTypeCorrect`, `RingsGenerationBlind`, `RingsInOrder`, `RingsOneRound`, `RingsOnceDry` | `TypeOK`, `GenerationBlind` and the action properties `InOrder`, `OneRound`, `OnceDry` |
| `WifiQueues` | `WifiTypeCorrect`, `WifiQueueHoldsUnread` | `WifiTypeOK`, `QueueHoldsUnread` |
| `Registry` | `RegistryTypeCorrect`, `RegistryNobodySkipped`, `RegistryIndexesStay` | `RegistryTypeOK`, `NobodySkipped` and the action property `IndexesStay` |
| `Lifecycle` | `LifecycleTypeCorrect`, `LifecycleFreedExactlyOnce`, `LifecycleEngineHasMemory`, `LifecycleHandlerHasPriv`, `LifecycleSilentAfterRemove` | all safety properties of run `lifecycle` |
| `Nvme` | `NvmeTypeCorrect`, `NvmeOwnCompletion`, `NvmeHeadBehindTail`, `NvmeOneEntryPerCall` | the safety properties of run `nvme` |
| `Ahci` | `AhciTypeCorrect`, `AhciReturnsAfterCompletion`, `AhciSlotUndisturbed`, `AhciRequestInFis` | the safety properties of run `ahci` |

What is assumed of the constants is what the code fixes: rings that are not
empty (two entries in `Nvme` and `DescriptorRings`), 16-bit counters whose span
is a multiple of the ring size (65536 is one of 256 and of 32; for virtio-net
it is also more than two rounds), frames that fit a buffer, and for `Ahci` a
PRD table with room for the largest request, which one entry can describe, and a
poll limit below the word's. Any set of commands may be `Failing`. Of `Registry` and `Lifecycle` it is that the tables
and the rings have at least one place, that a host's driver has a class, and
that the drivers are some of the eleven. The r8169
theorems hold under `Serialized` and `StoresInOrder`, as their runs do; the
others have no such hypothesis, except for what the properties themselves say
about when they apply. Bounds on behaviours (`MaxFrames`, `MaxCommands`,
`MaxCalls`, `MaxInits`, `MaxWalks`) are any natural number. Each inductive
invariant (`Inv` or `IInv`; `WifiInv`, `RegistryInv` and `LifecycleInv` in
`HostProofs`) was model-checked on the instance of the run before it was proved.

**r8169.** The four invariants are inductive only together, which is why they
are stated with as much as they say. `Contiguous` says there is a number n
such that exactly the n descriptors from one pointer on belong to the other
side and the tail stands behind them. `OneWriter` / `OneReader` says that the
one call in progress works on the descriptor at that tail; so the store of OWN
turns n into n + 1 (transmit) or n - 1 (receive), the engine does the opposite,
and no other step changes an OWN bit. A full ring (n = RingSize) and an empty
one (n = 0) put the tail on the same slot; the OWN bit of that slot is what
tells them apart, and the test at entry is what keeps n in range.
`NoOverwrite` and `WholeFrames` then follow for the slots n covers. The
arithmetic (the i-th slot after a pointer, one round of the ring, a counter
reduced modulo a multiple of the size) is in `RingArithmetic`, proved once.
For the refinement `Queue` is read off the ring: the n of `Contiguous` is
unique, so CHOOSE denotes it, a store of OWN appends to the queue and the
engine's completion takes its head (the other way round for receive); each step
is matched by the corresponding lemma.

**VirtioNet.** The invariant says how the four counters of the receive queue
stand to each other (`Counters`), what the device has been offered (`Offers`)
and that the announced entries are true of the buffers (`Contents`). The key is
in `Offers`: until the first `recv` returns a buffer the device has seen the
whole queue once, and the index this `recv` publishes is one the device has
passed. Modulo the span that is more entries than the queue has
(`BehindIsTooFar`), so the device stops, or it never looks. Hence no counter
goes once round the queue, no remainder and no wrap matters, and the second
reading of the used entry still finds what the first found.

**DescriptorRings.** `Stages` puts each call at the front descriptor;
`Generations` says that on vmxnet3 the bits behind and ahead of the front
differ, so that the tests are decided before they are made. A legacy send ring
is followed up to the frame that fills its last descriptor (`SendLap`): sent
descriptors are those behind the device's head, whatever it makes of the tail.
A legacy receive ring is either a `Window` (received and not copied frames stand
between the front and the head, the limit is ahead of them, all counted from the
front modulo the ring), which is e1000e for good (one lap, if the device keeps a
tail beyond the ring) and e1000 until `recv` first writes RDH; or it is a `Refill`, when e1000's device has gone back to descriptor
0 and fills the slots `recv` has emptied, never beyond the tail. `LimitAtFront`
is why a drained ring stays dry: the device may come up to the front
and no further. The three action properties follow from the invariant step by
step: a step that moves `last` takes the frame at the front, and the window says
which one that is.

**WifiQueues.** No entry is written but the one at the tail, by one thread, as
far as its progress says (`Fillers`), and the 16-bit tail agrees with the count
of calls modulo the ring (`Positions`). `Kept` extends `QueueHoldsUnread` to the
entries already fetched. Without that it would not be inductive in the form the
step needs, and it makes clear that the firmware's pace plays no part: a ring
keeps exactly its last calls.

**Registry.** A register call appends or changes nothing (`RegisteredIs`), so in
any step a table keeps the entries it has (`Grows`), which is `IndexesStay`. For
`NobodySkipped` the invariant adds what is true in the middle of a walk: the
tables of its beginning are prefixes of those of now (`Grown`), every entry
before its index has refused, and so has the whole network table once the walk
is among the WiFi drivers (`Passed`). An index that reaches a count read later
than the walk began has therefore passed the table it began with. The tables
are not assumed to have room: a driver that a full table turned away was never
in it.

**Lifecycle.** The argument is about lists of steps, and the eleven drivers enter
it through one predicate, `Paired`, on a probe and its remove. It is a
condition on the text of the code, not on states: the error path of each step
that can fail names once what the steps before it have taken (`FailsClean`);
at the end of the probe that is what remove frees (`EndsWhole`); buffers,
engine and interrupts come after all that can fail, the engine of nvme apart
(`SwitchesLast`); remove frees each thing once, after it has freed the
interrupt and stopped the engine (`RemoveList`). Each driver's two lists are
shown to be `Paired` by going through their steps (`R8169Paired` to
`AhciPaired`); a new driver, or a new order in an old one, needs that
lemma and its line in `CodePaired`. The invariant `LifecycleInv` says the same of what is *left*
of a list and of what is held now: the rest of a probe is a `ProbeList` from
`held` on, the rest of an error path frees exactly `held`, the rest of a remove
likewise, and until the handler is off the line and the engine stopped the
driver is `Whole`. It is inductive because taking the head off a list keeps its
properties (`ProbeListTail`, `RemoveListTail`), which one lemma for a probe's
step that succeeds, one for a step that fails and one for a step of remove
turn into the cases of `LifecycleNext`. Firmware is apart throughout, since the
WiFi drivers do without it when they cannot get it and free it only if it is
there: what is shown of it is that it is freed whenever it is held.

**Nvme.** `Lap` holds in the first lap, and since `FirstLap` is never regained
that is enough: `Submission` (queue and doorbell follow the number of commands),
`Completions` (the entries with a status are those before the controller's tail,
one for each answered command, counted with cardinalities because completions
come in any order), `Heads` (every head that anybody has read and found a status
at names such an entry, and no doorbell value is beyond the last), `Polled`
(without a handler the head counts the calls that are over), `InStep` (a call
that began level has the only open command, its completion is the entry after
those of its predecessors, and no head read since, or still to be acted on, is
older) and `Answer` (so the status it judges is its own command's). Nothing keeps
caller and handler apart: either may write the value the other has already
moved past, and the invariant says how far that can go. The types are proved
throughout, not only in the first lap.

**Ahci.** `Written` says what the call in progress has stored; `Busy` that the
port works only while CI is set; `ClearMeansDone` that CI clear under a poll
means the call's own command is through, unless an earlier call has run out of
polls. `SlotUndisturbed` and `ReturnsAfterCompletion` are inductive with these.
That the six bytes decode to the LBA is a telescoping sum: the digit of weight w
times w is the LBA rounded down to w less the LBA rounded down to the next
weight (`DigitAt`, from `QuotientTwice`). `OneEntry` shows that requests of up to
`PrdCount` sectors have one and the same table.

Only model-checked is liveness (`KeepsMoving`, `Drains`, `CallReturns`,
`CauseAcknowledged`, `LineComesDown`), since the prover knows neither fairness
nor ENABLED. Every safety property and every action property of the runs is
proved.

## What is not modelled, and why

* Registers by address: in `e1000.c` E1000_RDBAL has the address of RCTL and
  E1000_TDBAL that of TDT, so writes the driver means for one register reach
  another. The models take registers by name; `LegacySend` and `E1000Recv` show
  what the code does on hardware where the names are right.
* Descriptor layouts, completion rings nobody reads (vmxnet3), the ring
  addresses virtio-net never writes.
* A queue size of 0: a virtio device whose QUEUE_NUM_MAX reads 0 makes the driver
  divide by it in `send`; `SizeAssumption` excludes it.
* MAC reading, capacity (always 0), logging, clocks: no state that matters.
* Addresses and their lifetime: `send` gives the device the frame's virtual address, and every
  driver does. Whether that is its bus address is the host's business, and the
  models abstract a frame to its identity. The frame is the caller's, and `send`
  returns before the device has read it: the models take the caller to leave it
  alone for as long as it takes.
* Device ID matching: a refusal changes nothing, so it is a stuttering probe.
* The example platforms: wrappers round malloc and usleep; their `irq_request`
  fails, which is the polling case of every model.

## Plan

A composition of r8169's two directions with the lifecycle: `send` and `recv`
racing `remove`, which is the host's to prevent.
