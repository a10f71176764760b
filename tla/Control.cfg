SPECIFICATION HFairSpec
CONSTANTS
    ByteBits = 4
    ByteSize = 16
    memsz = 1024
    DescriptorRead <- MCDescriptorRead
    Decode <- MCDecode
    Images <- MCImages
    Entry <- MCEntry
    Body <- ControlBody
    Mixes <- ControlMixes
    SkipMixes = {}
INVARIANT
    OperandsFresh
PROPERTIES
    ImplementsISA
    KeepsRetiring
