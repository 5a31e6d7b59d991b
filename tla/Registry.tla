------------------------------- MODULE Registry -------------------------------
(***************************************************************************)
(* src/core/registry.c: the three driver tables, nc_drivers_init, and the  *)
(* loop with which a host looks for the driver of a device.                *)
(*                                                                         *)
(* A register call is one step; the calls of nc_drivers_init, of the host  *)
(* and of its probe loop interleave.  Null drivers, negative indexes and   *)
(* the platform pointer play no part.                                      *)
(***************************************************************************)
EXTENDS Integers, Sequences, SequencesExt

CONSTANTS
    MaxDrivers,     \* NC_MAX_DRIVERS
    HostDrivers,    \* <<class, driver>> pairs the host registers itself
    Devices,        \* what can be plugged in: the drivers that accept it
    MaxInits,       \* bound: calls of nc_drivers_init
    MaxWalks        \* bound: devices the host probes for

ASSUME CapacityAssumption == MaxDrivers \in Nat \ {0}
ASSUME RepeatAssumption == MaxInits \in Nat /\ MaxWalks \in Nat

Classes == {"net", "wifi", "storage"}

\* What nc_drivers_init registers, in its order.
BuiltIns ==
    << <<"net", "virtio_net">>, <<"net", "e1000">>, <<"net", "r8169">>,
       <<"wifi", "iwlwifi">>, <<"wifi", "ath9k">>, <<"wifi", "rtl8188">>,
       <<"storage", "ahci">> >>

Known == {p[2] : p \in ToSet(BuiltIns) \cup HostDrivers}

None == "none"

ASSUME HostAssumption == \A p \in HostDrivers : p[1] \in Classes /\ p[2] # None

VARIABLES
    table,      \* the drivers registered in each class, in order
    toInit,     \* what the running nc_drivers_init has still to register
    inits,      \* how often nc_drivers_init was called
    walk,       \* the probe loop: the table it is in and its index
    walks,      \* how many devices were probed for
    fits,       \* the drivers whose probe accepts the device
    atStart,    \* the tables when the loop began
    refused,    \* the drivers whose probe turned the device down
    bound       \* the driver the device got

registryVars == <<table, toInit, inits, walk, walks, fits, atStart, refused, bound>>

\* nc_*_driver_count and nc_get_*_driver.
Count(class) == Len(table[class])

\* Mutant: the last driver cannot be reached.
GetShort(class, i) == IF i >= Count(class) - 1 THEN None ELSE table[class][i + 1]

Get(class, i) == IF i >= Count(class) THEN None ELSE table[class][i + 1]

\* Mutants: the table takes one more; a full table replaces its last entry.
RegisteredOver(class, d) ==
    IF Count(class) > MaxDrivers THEN table
    ELSE [table EXCEPT ![class] = Append(@, d)]

RegisteredLast(class, d) ==
    IF Count(class) >= MaxDrivers THEN [table EXCEPT ![class][MaxDrivers] = d]
    ELSE [table EXCEPT ![class] = Append(@, d)]

\* The table after nc_register_*_driver; a full one refuses.
Registered(class, d) ==
    IF Count(class) >= MaxDrivers THEN table
    ELSE [table EXCEPT ![class] = Append(@, d)]

NoWalk == [at |-> "idle", index |-> 0]

RegistryInit ==
    /\ table = [class \in Classes |-> <<>>]
    /\ toInit = <<>> /\ inits = 0
    /\ walk = NoWalk /\ walks = 0
    /\ fits = {} /\ refused = {} /\ bound = None
    /\ atStart = [class \in Classes |-> <<>>]

walkVars == <<walk, walks, fits, atStart, refused, bound>>

\* The host registers a driver of its own.
HostRegister(p) ==
    /\ p[2] \notin ToSet(table[p[1]])
    /\ table' = Registered(p[1], p[2])
    /\ UNCHANGED <<toInit, inits, walkVars>>

DriversInit ==
    /\ toInit = <<>> /\ inits < MaxInits
    /\ toInit' = BuiltIns
    /\ inits' = inits + 1
    /\ UNCHANGED <<table, walkVars>>

\* Its next call; the return value is not looked at.
DriversInitNext ==
    /\ toInit # <<>>
    /\ table' = Registered(Head(toInit)[1], Head(toInit)[2])
    /\ toInit' = Tail(toInit)
    /\ UNCHANGED <<inits, walkVars>>

-------------------------------------------------------------------------------
(* The host's probe loop (docs/OS_INTEGRATION.md, Step 3): the network     *)
(* drivers, then the WiFi drivers, the first probe that returns 0 wins.    *)

WalkBegin(accepting) ==
    /\ walk = NoWalk /\ walks < MaxWalks
    /\ walks' = walks + 1
    /\ walk' = [at |-> "net", index |-> 0]
    /\ fits' = accepting
    /\ atStart' = table
    /\ refused' = {} /\ bound' = None
    /\ UNCHANGED <<table, toInit, inits>>

\* One round: the count is read again, the driver fetched and probed.
WalkProbe ==
    /\ walk.at # "idle" /\ walk.index < Count(walk.at)
    /\ LET d == Get(walk.at, walk.index) IN
       IF d \in fits
       THEN bound' = d /\ walk' = NoWalk /\ UNCHANGED refused
       ELSE /\ refused' = refused \cup {d}
            /\ walk' = [walk EXCEPT !.index = @ + 1]
            /\ UNCHANGED bound
    /\ UNCHANGED <<table, toInit, inits, walks, fits, atStart>>

WalkOn ==
    /\ walk.at # "idle" /\ walk.index >= Count(walk.at)
    /\ walk' = IF walk.at = "net" THEN [at |-> "wifi", index |-> 0] ELSE NoWalk
    /\ UNCHANGED <<table, toInit, inits, walks, fits, atStart, refused, bound>>

RegistryNext ==
    \/ \E p \in HostDrivers : HostRegister(p)
    \/ DriversInit \/ DriversInitNext
    \/ \E accepting \in Devices : WalkBegin(accepting)
    \/ WalkProbe \/ WalkOn

RegistrySpec == RegistryInit /\ [][RegistryNext]_registryVars

-------------------------------------------------------------------------------
(* Properties *)

\* Type invariant of the registry; no table outgrows its array.
RegistryTypeOK ==
    /\ \A class \in Classes :
          Len(table[class]) <= MaxDrivers /\ ToSet(table[class]) \subseteq Known
    /\ IsSuffix(toInit, BuiltIns) /\ inits \in 0 .. MaxInits
    /\ walk \in [at : {"idle", "net", "wifi"}, index : 0 .. MaxDrivers]
    /\ walks \in 0 .. MaxWalks
    /\ fits \in Devices \cup {{}} /\ refused \subseteq Known
    /\ bound \in Known \cup {None}

\* Tables only grow at the end: an index a host has read keeps naming the
\* same driver, whatever is registered in between.
IndexesStay ==
    [][\A class \in Classes : IsPrefix(table[class], table'[class])]_registryVars

\* A probe loop that ends without a driver has asked every network and WiFi
\* driver that was registered when it began, and all turned the device down,
\* although registrations go on during the loop.
NobodySkipped ==
    walk = NoWalk /\ bound = None =>
        \A class \in {"net", "wifi"} : ToSet(atStart[class]) \subseteq refused
===============================================================================
