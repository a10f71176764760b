SPECIFICATION Spec
CONSTANTS
    ByteBits = 3
    ByteSize = 8
    MEMORY_SIZE <- MCMemorySize
    Arguments <- MCArguments
    Files <- MCFiles
INVARIANTS
    LoadedAsLinked
    StartsAsAsked
