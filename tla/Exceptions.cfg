SPECIFICATION HSpec
CONSTANTS
    ByteBits = 4
    ByteSize = 16
    memsz = 1024
    DescriptorRead <- MCDescriptorRead
    Decode <- MCDecode
    Images <- MCImages
    Entry <- MCEntry
    Body <- ExceptionBody
    Mixes <- ExceptionMixes
    SkipMixes <- ExceptionSkipMixes
INVARIANT
    OperandsFresh
PROPERTIES
    ImplementsISA
    StoresArePrecise
    OverflowsAreExact
