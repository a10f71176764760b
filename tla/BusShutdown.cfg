SPECIFICATION Spec
CONSTANTS
    ByteBits = 3
    ByteSize = 8
    memsz = 32
    Configurations <- InitIo
    Addresses <- IoAddresses
    Values <- MCValues
    POWEROFF_SHUTDOWN_MAGIC <- MCMagic
INVARIANTS ShutdownStops
