SPECIFICATION Spec
CONSTANTS
    ByteBits = 3
    ByteSize = 8
    memsz = 32
    Configurations <- SomeDevices
    Addresses <- BusAddresses
    Values <- MCValues
    POWEROFF_SHUTDOWN_MAGIC <- MCMagic
INVARIANTS TypeOK DescriptorsDescribeDevices
PROPERTIES StoresAreLocal
