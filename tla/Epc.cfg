SPECIFICATION HSpec
CONSTANTS
    ByteBits = 4
    ByteSize = 16
    memsz = 1024
    DescriptorRead <- MCDescriptorRead
    Decode <- MCDecode
    Images <- MCImages
    Entry <- MCEntry
    Body <- EpcBody
    Mixes <- EpcMixes
    SkipMixes = {}
PROPERTY
    VictimInEpc
