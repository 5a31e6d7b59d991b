SPECIFICATION RegistrySpec
CONSTANTS
    MaxDrivers = 3
    HostDrivers <- MCHostDrivers
    Devices <- MCDevices
    MaxInits = 2
    MaxWalks = 1
INVARIANTS
    RegistryTypeOK
    NobodySkipped
PROPERTIES
    IndexesStay
CHECK_DEADLOCK FALSE
