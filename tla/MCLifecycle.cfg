SPECIFICATION LifecycleLiveSpec
CONSTANTS
    Drivers = {"r8169", "r8125", "e1000", "e1000e", "virtio", "vmxnet3",
               "iwlwifi", "ath9k", "rtl8188", "ahci", "nvme"}
    Buffers = 3
INVARIANTS
    LifecycleTypeOK
    FreedExactlyOnce
    EngineHasMemory
    HandlerHasPriv
    SilentAfterRemove
PROPERTIES
    LineComesDown
