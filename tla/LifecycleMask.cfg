SPECIFICATION LifecycleSpec
CONSTANTS
    Drivers = {"r8169"}
    Buffers = 3
INVARIANTS
    RemoveDisables
