SPECIFICATION HSpec
CONSTANTS
    ByteBits = 4
    ByteSize = 16
    memsz = 1024
    DescriptorRead <- MCDescriptorRead
    Decode <- MCDecode
    Images <- MCImages
    Entry <- MCEntry
    Body <- DataBody
    Mixes <- DataMixes
    SkipMixes = {}
INVARIANTS
    TypeOK
    OperandsFresh
    ZeroRegister
PROPERTIES
    ImplementsISA
    UnalignedMergesBytes
