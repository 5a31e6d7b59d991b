------------------------------- MODULE Lifecycle -------------------------------
(***************************************************************************)
(* From probe to remove: what each of the eleven drivers takes from the    *)
(* platform and the device, in which order, what it gives back when a step *)
(* fails, and what remove does, with interrupts coming in all the while.   *)
(*                                                                         *)
(* Every probe and every remove is a straight line of platform calls, so a *)
(* driver is a list of steps and the actions below run the list.  Register *)
(* values other than the engine and interrupt switches, MAC addresses and  *)
(* the device ID test (a refusal changes nothing) are left out.            *)
(***************************************************************************)
EXTENDS Integers, Sequences

CONSTANTS
    Drivers,    \* the drivers of this run
    Buffers     \* receive buffers per ring (RX_DESC_COUNT, RX_QUEUE_SIZE)

ASSUME BufferAssumption == Buffers \in Nat \ {0}

\* Kinds of steps.  undo is what is freed, in order, when the step fails.
Step(do, what, undo) == [do |-> do, what |-> what, undo |-> undo]
Take(what, undo) == Step("take", what, undo)           \* alloc, dma_alloc
Fill(undo) == Step("fill", "buffers", undo)            \* one dma_alloc each
Pair(undo) == Step("pair", "rings", undo)              \* two allocs, one test
Firmware == Step("firmware", "firmware", <<>>)         \* may fail; goes on
Check(undo) == Step("check", "device", undo)           \* the device says no
Reset == Step("reset", "device", <<>>)
Start == Step("start", "engine", <<>>)                 \* the device may DMA
Stop == Step("stop", "engine", <<>>)
Await(undo) == Step("await", "engine", undo)           \* bounded wait for it
Irq == Step("irq", "handler", <<>>)                    \* irq_request, unmask
IrqNoMask == Step("irq", "none", <<>>)                 \* irq_request alone
IrqFree == Step("irqfree", "handler", <<>>)
MaskOff == Step("mask", "off", <<>>)                   \* no cause enabled
MaskOnes == Step("mask", "ones", <<>>)                 \* all ones to the mask
Publish == Step("publish", "data", <<>>)
Unpublish == Step("unpublish", "data", <<>>)
Free(what) == Step("free", what, <<>>)

Frees(names) == [i \in DOMAIN names |-> Free(names[i])]

-------------------------------------------------------------------------------
(* The drivers *)

\* Mutant: a failed transmit ring leaves the receive ring behind.
R8169ProbeLeaky ==
    << Take("priv", <<>>), Reset, Take("rx_ring", <<"priv">>),
       Take("tx_ring", <<"priv">>), Fill(<<"rx_ring", "tx_ring", "priv">>),
       Start, Irq, Publish >>

R8169Probe ==
    << Take("priv", <<>>), Reset, Take("rx_ring", <<"priv">>),
       Take("tx_ring", <<"rx_ring", "priv">>), Fill(<<"rx_ring", "tx_ring", "priv">>),
       Start, Irq, Publish >>

R8169Remove ==
    << MaskOnes, IrqFree, Stop, Free("buffers"), Free("rx_ring"), Free("tx_ring"),
       Free("priv"), Unpublish >>

R8125Probe ==
    << Take("priv", <<>>), Reset, Take("tx_ring", <<"priv">>),
       Take("rx_ring", <<"tx_ring", "priv">>), Fill(<<"rx_ring", "tx_ring", "priv">>),
       Start, Irq, Publish >>

R8125Remove ==
    << MaskOnes, IrqFree, Stop, Free("buffers"), Free("tx_ring"), Free("rx_ring"),
       Free("priv"), Unpublish >>

E1000Probe == R8169Probe

\* Mutants: the handler stays while memory goes; the engine does; the device
\* keeps its interrupts.
E1000RemoveIrqLate ==
    << MaskOff, Stop, Free("buffers"), Free("rx_ring"), Free("tx_ring"),
       Free("priv"), IrqFree, Unpublish >>

E1000RemoveRunning ==
    << MaskOff, IrqFree, Free("buffers"), Free("rx_ring"), Free("tx_ring"),
       Stop, Free("priv"), Unpublish >>

E1000RemoveUnmasked ==
    << IrqFree, Stop, Free("buffers"), Free("rx_ring"), Free("tx_ring"),
       Free("priv"), Unpublish >>

E1000Remove ==
    << MaskOff, IrqFree, Stop, Free("buffers"), Free("rx_ring"), Free("tx_ring"),
       Free("priv"), Unpublish >>

\* The same, with the interrupts masked before the rings are built.
E1000eProbe ==
    << Take("priv", <<>>), Reset, MaskOff, Take("rx_ring", <<"priv">>),
       Take("tx_ring", <<"rx_ring", "priv">>), Fill(<<"rx_ring", "tx_ring", "priv">>),
       Start, Irq, Publish >>

E1000eRemove == E1000Remove

\* QUEUE_READY hands the device the ring before its buffers exist, DRIVER_OK
\* lets it work; nothing enables interrupts, they are on by default.
VirtioNetProbe ==
    << Take("priv", <<>>), Reset, Pair(<<"priv">>),
       Fill(<<"rx_ring", "tx_ring", "priv">>), Start, IrqNoMask, Publish >>

VirtioNetRemove ==
    << IrqFree, Free("buffers"), Free("rx_ring"), Free("tx_ring"), Free("priv"),
       Unpublish >>

\* Two rings each way, each pair of descriptors and completions.
Vmxnet3Probe ==
    << Take("priv", <<>>), Check(<<"priv">>),
       Take("tx_desc_ring", <<"priv">>),
       Take("tx_comp_ring", <<"tx_desc_ring", "priv">>),
       Take("rx_desc_ring", <<"tx_desc_ring", "tx_comp_ring", "priv">>),
       Take("rx_comp_ring", <<"tx_desc_ring", "tx_comp_ring", "rx_desc_ring", "priv">>),
       Fill(<<"tx_desc_ring", "tx_comp_ring", "rx_desc_ring", "rx_comp_ring", "priv">>),
       Start, Irq, Publish >>

Vmxnet3Remove ==
    << Stop, IrqFree, Free("buffers"), Free("tx_desc_ring"), Free("tx_comp_ring"),
       Free("rx_desc_ring"), Free("rx_comp_ring"), Free("priv"), Unpublish >>

\* The WiFi drivers never hand the device a ring, so no engine is started.
IwlwifiProbe ==
    << Take("priv", <<>>), Firmware, Take("cmd_queue", <<"firmware", "priv">>),
       Take("tx_ring", <<"cmd_queue", "firmware", "priv">>),
       Take("rx_ring", <<"tx_ring", "cmd_queue", "firmware", "priv">>),
       Irq, Publish >>

IwlwifiRemove ==
    << MaskOnes, IrqFree, Free("cmd_queue"), Free("tx_ring"), Free("rx_ring"),
       Free("firmware"), Free("priv"), Unpublish >>

Ath9kProbe == IwlwifiProbe

Ath9kRemove == IwlwifiRemove

Rtl8188Probe == IwlwifiProbe

Rtl8188Remove == IwlwifiRemove

\* MQES and RDY are tested, then the controller is switched off and waited
\* for, the queues are built, and it is switched on and waited for.
NvmeProbe ==
    << Take("priv", <<>>), Check(<<"priv">>), Stop, Await(<<"priv">>),
       Take("sq", <<"priv">>), Take("cq", <<"sq", "priv">>), Start,
       Await(<<"sq", "cq", "priv">>), IrqNoMask, Publish >>

NvmeRemove == << Stop, IrqFree, Free("sq"), Free("cq"), Free("priv"), Unpublish >>

\* The first implemented port; a controller without one is refused.  The
\* cleanup frees whatever is there.
AhciProbe ==
    << Take("priv", <<>>), Check(<<"priv">>), Take("cmd_list", <<"priv">>),
       Take("fis_buffer", <<"cmd_list", "priv">>),
       Take("prd_table", <<"cmd_list", "fis_buffer", "priv">>), Start, Irq, Publish >>

AhciRemove ==
    << MaskOff, IrqFree, Stop, Free("cmd_list"), Free("prd_table"), Free("fis_buffer"),
       Free("priv"), Unpublish >>

\* How each interrupt handler makes the device lower its line: by writing the
\* cause back, by the read of a register that clears, or not at all.
R8169HandlerBlind == "nothing"     \* mutant: the cause is read, not cleared
R8169Handler == "writes"
R8125Handler == "writes"
E1000Handler == "reads"
E1000eHandler == "reads"
VirtioNetHandler == "writes"
Vmxnet3Handler == "nothing"
IwlwifiHandler == "writes"
Ath9kHandler == "writes"
Rtl8188Handler == "writes"
AhciHandler == "writes"
NvmeHandler == "doorbell"

Driver(probe, remove, handler) ==
    [probe |-> probe, remove |-> remove, handler |-> handler]

Code ==
    [r8169    |-> Driver(R8169Probe, R8169Remove, R8169Handler),
     r8125    |-> Driver(R8125Probe, R8125Remove, R8125Handler),
     e1000    |-> Driver(E1000Probe, E1000Remove, E1000Handler),
     e1000e   |-> Driver(E1000eProbe, E1000eRemove, E1000eHandler),
     virtio   |-> Driver(VirtioNetProbe, VirtioNetRemove, VirtioNetHandler),
     vmxnet3  |-> Driver(Vmxnet3Probe, Vmxnet3Remove, Vmxnet3Handler),
     iwlwifi  |-> Driver(IwlwifiProbe, IwlwifiRemove, IwlwifiHandler),
     ath9k    |-> Driver(Ath9kProbe, Ath9kRemove, Ath9kHandler),
     rtl8188  |-> Driver(Rtl8188Probe, Rtl8188Remove, Rtl8188Handler),
     ahci     |-> Driver(AhciProbe, AhciRemove, AhciHandler),
     nvme     |-> Driver(NvmeProbe, NvmeRemove, NvmeHandler)]

ASSUME DriverAssumption == Drivers \subseteq DOMAIN Code

Lowers == {"writes", "reads"}

-------------------------------------------------------------------------------

VARIABLES
    drv,        \* the driver of this device
    phase,      \* none, probe, undo, bound or remove
    todo,       \* steps left of the running probe, undo or remove
    held,       \* what the driver has and has not given back
    filled,     \* how many receive buffers it has
    engine,     \* the device has been told it may use the driver's memory
    handler,    \* the platform calls the handler (priv->use_interrupts)
    enabled,    \* some interrupt cause is enabled in the device
    data,       \* dev->driver_data is set
    line,       \* the device asserts its interrupt
    isr         \* the handler is past its test of driver_data

lifecycleVars == <<drv, phase, todo, held, filled, engine, handler, enabled, data, line, isr>>
resources == <<held, filled>>
switches == <<engine, handler, enabled, data>>

\* What the device's DMA would touch.
DmaMemory == {"rx_ring", "tx_ring", "tx_desc_ring", "tx_comp_ring", "rx_desc_ring",
              "rx_comp_ring", "sq", "cq", "cmd_list", "fis_buffer", "prd_table"}

LifecycleInit ==
    /\ drv \in Drivers
    /\ phase = "none" /\ todo = <<>>
    /\ held = {} /\ filled = 0
    /\ engine = FALSE /\ handler = FALSE /\ enabled = (drv \in {"virtio", "nvme"})
    /\ data = FALSE /\ line = FALSE /\ isr = FALSE

Enter(from, to, steps) ==
    /\ phase = from
    /\ phase' = to /\ todo' = steps
    /\ UNCHANGED <<drv, resources, switches, line, isr>>

ProbeDevice == Enter("none", "probe", Code[drv].probe)

RemoveDevice == Enter("bound", "remove", Code[drv].remove)

\* The next step of the list is of this kind.
At(do) == todo # <<>> /\ Head(todo).do = do

GoOn == todo' = Tail(todo) /\ UNCHANGED phase

\* The probe fails: what is freed comes from the failing step.
Fail == phase' = "undo" /\ todo' = Frees(Head(todo).undo)

TakeStep ==
    /\ At("take")
    /\ \/ held' = held \cup {Head(todo).what} /\ GoOn
       \/ UNCHANGED held /\ Fail
    /\ UNCHANGED <<drv, filled, switches, line, isr>>

\* Mutant: one buffer more than the ring has descriptors.
FillStepPast ==
    /\ At("fill")
    /\ IF filled <= Buffers
       THEN filled' = filled + 1 /\ UNCHANGED <<phase, todo>>
       ELSE UNCHANGED filled /\ GoOn
    /\ UNCHANGED <<drv, held, switches, line, isr>>

\* One buffer more; a failure gives the ones before it back first.
FillStep ==
    /\ At("fill")
    /\ \/ /\ filled < Buffers
          /\ filled' = filled + 1
          /\ UNCHANGED <<phase, todo>>
       \/ filled < Buffers /\ filled' = 0 /\ Fail
       \/ filled = Buffers /\ UNCHANGED filled /\ GoOn
    /\ UNCHANGED <<drv, held, switches, line, isr>>

\* Both rings are asked for before either is looked at; what came is freed.
PairStep ==
    /\ At("pair")
    /\ \/ held' = held \cup {"rx_ring", "tx_ring"} /\ GoOn
       \/ UNCHANGED held /\ Fail
       \/ \E ring \in {"rx_ring", "tx_ring"} :
             /\ held' = held \cup {ring}
             /\ phase' = "undo"
             /\ todo' = Frees(<<ring>> \o Head(todo).undo)
    /\ UNCHANGED <<drv, filled, switches, line, isr>>

FirmwareStep ==
    /\ At("firmware")
    /\ \E got \in SUBSET {"firmware"} : held' = held \cup got
    /\ GoOn
    /\ UNCHANGED <<drv, filled, switches, line, isr>>

\* A test of the device, or a wait for it that may end either way whatever
\* the device does: the driver's "timeout == 0" is true after a success in the
\* last round and false when the rounds are used up.
CheckStep ==
    /\ At("check") \/ At("await")
    /\ GoOn \/ Fail
    /\ UNCHANGED <<drv, resources, switches, line, isr>>

ResetStep ==
    /\ At("reset")
    /\ engine' = FALSE /\ enabled' = (drv = "virtio") /\ line' = FALSE
    /\ GoOn
    /\ UNCHANGED <<drv, resources, handler, data, isr>>

EngineStep ==
    /\ At("start") \/ At("stop")
    /\ engine' = (Head(todo).do = "start")
    /\ GoOn
    /\ UNCHANGED <<drv, resources, handler, enabled, data, line, isr>>

\* irq_request may refuse; only when it grants does the driver unmask.
IrqStep ==
    /\ At("irq")
    /\ \E granted \in BOOLEAN :
          /\ handler' = granted
          /\ enabled' = (enabled \/ (granted /\ Head(todo).what = "handler"))
    /\ GoOn
    /\ UNCHANGED <<drv, resources, engine, data, line, isr>>

\* irq_free waits for a handler that is running.
IrqFreeStep ==
    /\ At("irqfree")
    /\ ~isr
    /\ handler' = FALSE
    /\ GoOn
    /\ UNCHANGED <<drv, resources, engine, enabled, data, line, isr>>

MaskStep ==
    /\ At("mask")
    /\ enabled' = (Head(todo).what = "ones")
    /\ GoOn
    /\ UNCHANGED <<drv, resources, engine, handler, data, line, isr>>

PublishStep ==
    /\ At("publish")
    /\ data' = TRUE
    /\ phase' = "bound" /\ todo' = <<>>
    /\ UNCHANGED <<drv, resources, engine, handler, enabled, line, isr>>

UnpublishStep ==
    /\ At("unpublish")
    /\ data' = FALSE
    /\ phase' = "none" /\ todo' = <<>>
    /\ UNCHANGED <<drv, resources, engine, handler, enabled, line, isr>>

FreeStep ==
    /\ At("free")
    /\ IF Head(todo).what = "buffers"
       THEN filled' = 0 /\ UNCHANGED held
       ELSE held' = held \ {Head(todo).what} /\ UNCHANGED filled
    /\ GoOn
    /\ UNCHANGED <<drv, switches, line, isr>>

UndoEnd ==
    /\ phase = "undo" /\ todo = <<>>
    /\ phase' = "none"
    /\ UNCHANGED <<drv, todo, resources, switches, line, isr>>

Run == TakeStep \/ FillStep \/ PairStep \/ FirmwareStep \/ CheckStep \/ ResetStep
       \/ EngineStep \/ IrqStep \/ IrqFreeStep \/ MaskStep \/ PublishStep
       \/ UnpublishStep \/ FreeStep \/ UndoEnd

-------------------------------------------------------------------------------
(* Interrupts: the device asserts its line for any enabled cause; the      *)
(* platform calls the handler while the line is up, and a handler that     *)
(* finds no driver_data returns at once and leaves the line as it is.      *)

Raise ==
    /\ enabled /\ ~line
    /\ line' = TRUE
    /\ UNCHANGED <<drv, phase, todo, resources, switches, isr>>

HandlerEnter ==
    /\ handler /\ line /\ ~isr /\ data
    /\ isr' = TRUE
    /\ UNCHANGED <<drv, phase, todo, resources, switches, line>>

HandlerLeave ==
    /\ isr
    /\ line' = (line /\ Code[drv].handler \notin Lowers)
    /\ isr' = FALSE
    /\ UNCHANGED <<drv, phase, todo, resources, switches>>

Handler == HandlerEnter \/ HandlerLeave

LifecycleNext == ProbeDevice \/ RemoveDevice \/ Run \/ Raise \/ Handler

LifecycleSpec == LifecycleInit /\ [][LifecycleNext]_lifecycleVars

\* A running probe, undo or remove goes on, and the platform calls the handler.
LifecycleLiveSpec == LifecycleSpec /\ WF_lifecycleVars(Run) /\ WF_lifecycleVars(Handler)

-------------------------------------------------------------------------------
(* Properties *)

\* Type invariant of the lifecycle.
LifecycleTypeOK ==
    /\ drv \in Drivers /\ phase \in {"none", "probe", "undo", "bound", "remove"}
    /\ held \subseteq DmaMemory \cup {"priv", "firmware", "cmd_queue"}
    /\ filled \in 0 .. Buffers
    /\ {engine, handler, enabled, data, line, isr} \subseteq BOOLEAN

\* Whatever allocation, device test or wait fails, and however often the device
\* is probed again, the probe gives back all it took, and so does remove; and
\* each thing on the way to be freed is there to be freed, once (firmware
\* excepted, which the code tests for, and buffers, which it frees one by one).
FreedExactlyOnce ==
    LET frees == {i \in DOMAIN todo : todo[i].do = "free"} IN
    /\ phase = "none" => held = {} /\ filled = 0 /\ ~handler /\ ~data
    /\ phase \in {"undo", "remove"} =>
        \A i \in frees :
            /\ todo[i].what \in held \cup {"firmware", "buffers"}
            /\ \A j \in frees : todo[i].what = todo[j].what => i = j

\* Two paths on which the device keeps running: virtio_net_remove never stops
\* it, and nvme_probe gives up on a controller it has switched on.
LeftRunning ==
    \/ drv = "virtio" /\ phase # "bound"
    \/ drv = "nvme" /\ phase \in {"undo", "none", "probe"}

\* As long as the device may use the driver's memory, the driver has it: the
\* engine starts after the last allocation and stops before the first free.
EngineHasMemory ==
    engine /\ ~LeftRunning =>
        LET steps == {Code[drv].probe[i] : i \in DOMAIN Code[drv].probe} IN
        /\ \A s \in steps : s.do = "take" /\ s.what \in DmaMemory => s.what \in held
        /\ (\E s \in steps : s.do = "fill") => filled = Buffers

\* The interrupt handler never runs on a priv that was freed: it is not
\* called before driver_data is set, and remove takes it off the line first.
HandlerHasPriv == isr => data /\ "priv" \in held

\* The drivers that write zeros to the enable register, or ones to the clear
\* register, leave a device behind that cannot interrupt any more.
SilentAfterRemove ==
    drv \in {"e1000", "e1000e", "ahci"} /\ ~data /\ phase = "none" => ~enabled

\* An interrupt of a bound device does not stay asserted, also one raised
\* before driver_data was set, which the handler first ignores.  Not so for
\* vmxnet3, whose handler acknowledges nothing, and nvme, whose line follows
\* its completion queue.
LineComesDown ==
    line /\ handler /\ phase = "bound" /\ drv \notin {"vmxnet3", "nvme"}
        ~> ~line \/ phase # "bound"

\* What remove says it does: no device without a driver has an interrupt
\* enabled (the comment "Disable interrupts" in r8169_remove).
RemoveDisables == phase = "none" => ~enabled
===============================================================================
