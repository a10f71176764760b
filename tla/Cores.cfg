SPECIFICATION CFairSpec
CONSTANTS
    ByteBits = 4
    ByteSize = 16
    memsz = 12288
    num_cores = 2
    DescriptorRead <- MCDescriptorRead
    Decode <- MCDecode
    Images <- MCImages
    Entry <- MCEntry
PROPERTIES
    ImplementsSharedISA
    CoresKeepRetiring
