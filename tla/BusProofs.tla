----------------------------- MODULE BusProofs -----------------------------
(***************************************************************************)
(* Proofs about the bus: for every sequence of devices, every size of the  *)
(* memory and every width of a byte.                                       *)
(***************************************************************************)
EXTENDS Bus, WordProofs

-----------------------------------------------------------------------------
(***************************************************************************)
(* The facts of module MemoryProofs, for the memory of the bus.            *)
(***************************************************************************)
MP == INSTANCE MemoryProofs WITH DescriptorRead <- DescriptorLoad

LEMMA SameSizes ==
    /\ M!HalfSize = HalfSize /\ M!WordSize = WordSize
    /\ MP!HalfSize = HalfSize /\ MP!WordSize = WordSize
    /\ M!Word = Word /\ M!Byte = Byte /\ MP!Word = Word /\ MP!Byte = Byte
BY DEF M!HalfSize, M!WordSize, HalfSize, WordSize, MP!HalfSize, MP!WordSize,
       M!Word, M!Byte, MP!Word, MP!Byte, Word, Byte

LEMMA MPAssumptions == MP!ByteAssumption /\ MP!MemszAssumption
BY ByteAssumption, BusAssumption, SameSizes DEF MP!ByteAssumption, MP!MemszAssumption

LEMMA SameTranslation == \A v : MP!Translate(v) = M!Translate(v) /\ MP!NULL = M!NULL
BY DEF MP!Translate, M!Translate, MP!translate_paddr, M!translate_paddr,
    MP!translate_vaddr, M!translate_vaddr, MP!IO_REGISTER_AREA, M!IO_REGISTER_AREA,
    MP!KSEG2_PSTART, M!KSEG2_PSTART, MP!Unit, M!Unit, MP!KSEG0_PSTART, M!KSEG0_PSTART,
    MP!KSEG1_PSTART, M!KSEG1_PSTART, MP!KUSEG_PSTART, M!KUSEG_PSTART,
    MP!KSEG0_SIZE, M!KSEG0_SIZE, MP!KSEG1_SIZE, M!KSEG1_SIZE, MP!KUSEG_SIZE, M!KUSEG_SIZE,
    MP!size_kseg0, M!size_kseg0, MP!size_kseg1, M!size_kseg1, MP!size_kuseg, M!size_kuseg,
    MP!u32, M!u32, M!WordSize, M!HalfSize, MP!WordSize, MP!HalfSize, M!NULL, MP!NULL

LEMMA SameAreas ==
    /\ MP!IO_REGISTER_AREA = WordSize - HalfSize
    /\ MP!IO_DESCRIPTOR_AREA = WordSize - 2 * HalfSize
    /\ M!IO_REGISTER_AREA = WordSize - HalfSize
    /\ M!IO_DESCRIPTOR_AREA = WordSize - 2 * HalfSize
    /\ MP!KSEG0_VSTART = M!KSEG0_VSTART /\ MP!size_kseg0 = M!size_kseg0
BY SameSizes DEF MP!IO_REGISTER_AREA, MP!IO_DESCRIPTOR_AREA, M!IO_REGISTER_AREA,
    M!IO_DESCRIPTOR_AREA, MP!KSEG0_VSTART, M!KSEG0_VSTART, MP!Unit, M!Unit,
    MP!size_kseg0, M!size_kseg0, MP!u32, M!u32

LEMMA SameSetBig == \A m, a, size, w : MP!SET_BIG(m, a, size, w) = M!SET_BIG(m, a, size, w)
BY DEF MP!SET_BIG, M!SET_BIG, MP!u8, M!u8, MP!Weight, M!Weight,
    M!WordSize, M!HalfSize, MP!WordSize, MP!HalfSize

LEMMA SameAccess ==
    /\ \A m, a, size : MP!GET_BIG(m, a, size) = M!GET_BIG(m, a, size)
    /\ \A x : MP!u32(x) = M!u32(x)
<1>1. \A m, a, size : MP!GET_BIG(m, a, size) = M!GET_BIG(m, a, size)
  BY DEF MP!GET_BIG, M!GET_BIG, MP!MEM_OP_BYTE, M!MEM_OP_BYTE, MP!MEM_OP_HALF, M!MEM_OP_HALF,
    M!HalfSize, MP!HalfSize, MP!ByteAt, M!ByteAt
<1>2. \A x : MP!u32(x) = M!u32(x)
  BY SameSizes DEF MP!u32, M!u32
<1> QED  BY <1>1, <1>2

LEMMA SameRead == \A m, v, dst, size : MP!mmu_read(m, v, dst, size) = M!mmu_read(m, v, dst, size)
BY SameAccess, SameTranslation, SameAreas DEF MP!mmu_read, M!mmu_read

LEMMA SameWrite ==
    \A m, v, src, size : MP!mmu_write(m, v, src, size) = M!mmu_write(m, v, src, size)
BY SameTranslation, SameAreas, SameSetBig DEF MP!mmu_write, M!mmu_write

-----------------------------------------------------------------------------
(***************************************************************************)
(* Type correctness.                                                       *)
(***************************************************************************)
Kinds == {"shutdown", "tty"}
Lengths == {IO_LENGTH_SHUTDOWN, IO_LENGTH_TTY}
Devices == [kind : Kinds, io_addr_base : Word, io_addr_len : Lengths]
Descriptors == [typecode : Word, io_addr_base : Word, io_addr_len : Word, irq : Word,
                vendor : Byte]

LEMMA ReverseBytes ==
    ASSUME NEW w \in Word
    PROVE  /\ REVERSE(w) \in Word
           /\ REVERSE(w) % ByteSize = w \div (ByteSize * HalfSize)
           /\ (REVERSE(w) \div ByteSize) % ByteSize = (w \div HalfSize) % ByteSize
           /\ (REVERSE(w) \div HalfSize) % ByteSize = (w \div ByteSize) % ByteSize
           /\ REVERSE(w) \div (ByteSize * HalfSize) = w % ByteSize
<1> DEFINE d0 == w \div (ByteSize * HalfSize)
           d1 == (w \div HalfSize) % ByteSize
           d2 == (w \div ByteSize) % ByteSize
           d3 == w % ByteSize
<1>1. w \in Nat /\ w < WordSize
  BY SizeFacts DEF Word
<1>2. w \div HalfSize \in Nat /\ w \div ByteSize \in Nat
  BY <1>1, SizeFacts, SMT
<1>3. \A x \in Nat : x % ByteSize \in Byte
  BY SizeFacts, SMT DEF Byte
<1>4. d0 \in Byte
  <2>1. \A x, y, z \in Nat : y > 0 /\ x < z * y => x \div y \in Nat /\ x \div y < z
    BY SMT
  <2> QED  BY <1>1, <2>1, SizeFacts DEF Byte
<1>5. d1 \in Byte /\ d2 \in Byte /\ d3 \in Byte
  BY <1>1, <1>2, <1>3
<1>6. REVERSE(w) = d3 * ByteSize * HalfSize + d2 * HalfSize + d1 * ByteSize + d0
  <2> HIDE DEF d0, d1, d2, d3
  <2>1. REVERSE(w) = d0 + d1 * ByteSize + d2 * HalfSize + d3 * ByteSize * HalfSize
    BY DEF REVERSE, d0, d1, d2, d3
  <2>2. d0 \in Int /\ d1 * ByteSize \in Int /\ d2 * HalfSize \in Int
            /\ d3 * ByteSize * HalfSize \in Int
    BY <1>4, <1>5, SizeFacts, SMT DEF Byte
  <2> QED  BY <2>1, <2>2, SMT
<1>7. /\ REVERSE(w) \in Word
      /\ REVERSE(w) % ByteSize = d0
      /\ (REVERSE(w) \div ByteSize) % ByteSize = d1
      /\ (REVERSE(w) \div HalfSize) % ByteSize = d2
      /\ REVERSE(w) \div (ByteSize * HalfSize) = d3
  <2> HIDE DEF d0, d1, d2, d3
  <2> QED  BY <1>4, <1>5, <1>6, BytesOfSum
<1> QED  BY <1>7

(* device_descriptor_reverse undoes itself. *)
LEMMA ReverseTwice == \A w \in Word : REVERSE(REVERSE(w)) = w
<1> SUFFICES ASSUME NEW w \in Word PROVE REVERSE(REVERSE(w)) = w
  OBVIOUS
<1> DEFINE d3 == w \div (ByteSize * HalfSize)
           d2 == (w \div HalfSize) % ByteSize
           d1 == (w \div ByteSize) % ByteSize
           d0 == w % ByteSize
<1>1. w \in Nat /\ w < WordSize
  BY SizeFacts DEF Word
<1>2. w \div HalfSize \in Nat /\ w \div ByteSize \in Nat /\ d3 \in Nat
  BY <1>1, SizeFacts, SMT
<1>3. d0 \in Nat /\ d1 \in Nat /\ d2 \in Nat
  BY <1>1, <1>2, SizeFacts, SMT
<1>4. d3 % ByteSize = d3
  <2>1. \A x, y, z \in Nat : y > 0 /\ x < z * y => x \div y < z
    BY SMT
  <2>2. d3 < ByteSize
    BY <1>1, <2>1, SizeFacts
  <2> QED  BY <1>2, <2>2, SizeFacts, SMT
<1>5. /\ u8(w \div Weight(3)) = d3 /\ u8(w \div Weight(2)) = d2
      /\ u8(w \div Weight(1)) = d1 /\ u8(w \div Weight(0)) = d0
  <2>1. w \div 1 = w
    BY <1>1, SMT
  <2> QED  BY <1>1, <1>2, <1>4, <2>1 DEF u8, Weight
<1>6. d3 * ByteSize * HalfSize + d2 * HalfSize + d1 * ByteSize + d0 = w
  BY <1>5, SumOfBytes
<1>7. REVERSE(REVERSE(w)) = d0 + d1 * ByteSize + d2 * HalfSize + d3 * ByteSize * HalfSize
  BY ReverseBytes DEF REVERSE
<1>8. /\ d0 \in Int /\ d1 * ByteSize \in Int /\ d2 * HalfSize \in Int
      /\ d3 * ByteSize * HalfSize \in Int
  BY <1>2, <1>3, SizeFacts, SMT
<1> HIDE DEF d0, d1, d2, d3
<1> QED  BY <1>6, <1>7, <1>8, SMT

LEMMA Prepend ==
    ASSUME NEW S, NEW s \in Seq(S), NEW d \in S
    PROVE  /\ <<d>> \o s \in Seq(S)
           /\ Len(<<d>> \o s) = Len(s) + 1
           /\ (<<d>> \o s)[1] = d
           /\ \A n \in 1 .. Len(s) : (<<d>> \o s)[n + 1] = s[n]
<1>1. <<d>> \in Seq(S) /\ Len(<<d>>) = 1 /\ <<d>>[1] = d
  OBVIOUS
<1>2. <<d>> \o s \in Seq(S) /\ Len(<<d>> \o s) = 1 + Len(s)
  BY <1>1
<1>3. \A n \in 1 .. 1 + Len(s) :
        (<<d>> \o s)[n] = IF n <= 1 THEN <<d>>[n] ELSE s[n - 1]
  BY <1>1
<1>4. Len(s) \in Nat
  OBVIOUS
<1>5. \A n \in 1 .. Len(s) : (n + 1) - 1 = n /\ n + 1 \in 1 .. 1 + Len(s) /\ ~(n + 1 <= 1)
  BY <1>4
<1> QED  BY <1>1, <1>2, <1>3, <1>4, <1>5

LEMMA TailType ==
    ASSUME NEW S, NEW s \in Seq(S), s # <<>>
    PROVE  Head(s) \in S /\ Tail(s) \in Seq(S)
OBVIOUS

LEMMA TableSize == MAX_IO_DEVICES \in Nat /\ 32 * MAX_IO_DEVICES <= HalfSize
BY HalfSizeBound, SMT DEF MAX_IO_DEVICES, IO_DESCRIPTOR_AREA_LENGTH, DescriptorSize

LEMMA SmallNumbers ==
    /\ 0 \in Word /\ 4 \in Word /\ 12 \in Word /\ 2 \in Word
    /\ 0 \in Byte /\ 3 \in Byte /\ 4 \in Byte
    /\ TYPECODE_SHUTDOWN \in Word /\ TYPECODE_TTY \in Word /\ IRQ_INVALID \in Word
    /\ TYPECODE_SHUTDOWN # 0 /\ TYPECODE_TTY # 0
<1>1. \A x \in Nat : x > 7 => 2 * x + 3 < x * x
  BY SMT
<1>2. 2 * ByteSize + 3 < HalfSize
  BY <1>1, SizeFacts
<1>3. \A x \in Nat : x <= x * x
  BY SMT
<1>4. HalfSize <= WordSize
  BY <1>3, SizeFacts DEF WordSize
<1> QED  BY <1>2, <1>4, SizeFacts, WordSizeBound, SMT
         DEF Word, Byte, TYPECODE_SHUTDOWN, TYPECODE_TTY, IRQ_INVALID

LEMMA DescriptorType ==
    ASSUME NEW dev \in Devices
    PROVE  /\ device_descriptor_set_fields(dev) \in Descriptors
           /\ device_descriptor_reverse(device_descriptor_set_fields(dev)) \in Descriptors
<1>1. device_descriptor_set_fields(dev) \in Descriptors
  BY SmallNumbers DEF device_descriptor_set_fields, Devices, Descriptors, Kinds, Lengths,
        DeviceType, IO_LENGTH_SHUTDOWN, IO_LENGTH_TTY, IRQ_TTY
<1>2. ASSUME NEW d \in Descriptors PROVE device_descriptor_reverse(d) \in Descriptors
  <2>1. /\ REVERSE(d.typecode) \in Word /\ REVERSE(d.io_addr_base) \in Word
        /\ REVERSE(d.io_addr_len) \in Word /\ REVERSE(d.irq) \in Word
    BY ReverseBytes DEF Descriptors
  <2> QED  BY <2>1 DEF device_descriptor_reverse, Descriptors
<1> QED  BY <1>1, <1>2

LEMMA InstallType ==
    ASSUME NEW todo0 \in Seq(Kinds), todo0 # <<>>, NEW base \in Word
    PROVE  [kind |-> Head(todo0), io_addr_base |-> base,
            io_addr_len |-> DeviceType[Head(todo0)].len] \in Devices
<1>1. Head(todo0) \in Kinds
  BY TailType
<1> QED  BY <1>1 DEF Devices, Kinds, Lengths, DeviceType

LEMMA TypeStep == TypeOK /\ [Next]_vars => TypeOK'
<1> SUFFICES ASSUME TypeOK, [Next]_vars PROVE TypeOK'
  OBVIOUS
<1>1. ASSUME InstallDevice PROVE TypeOK'
  <2> DEFINE dev == [kind |-> Head(todo), io_addr_base |-> next_io_register,
                     io_addr_len |-> DeviceType[Head(todo)].len]
  <2>1. todo \in Seq(Kinds) /\ todo # <<>> /\ devices \in Seq(Devices)
    BY <1>1 DEF TypeOK, InstallDevice, Kinds, Devices, Lengths
  <2>2. dev \in Devices
    BY <2>1, InstallType DEF TypeOK
  <2>3. devices' \in Seq(Devices)
    <3>1. devices' = <<dev>> \o devices
      BY <1>1 DEF InstallDevice
    <3> HIDE DEF dev
    <3> QED  BY <2>1, <2>2, <3>1, Prepend
  <2>4. todo' \in Seq(Kinds)
    BY <1>1, <2>1, TailType DEF InstallDevice
  <2>5. next_io_register' \in Word
    BY <1>1, CastType DEF InstallDevice
  <2>6. descriptors' \in [0 .. MAX_IO_DEVICES - 1 -> Descriptors]
    <3>1. device_descriptor_add(dev)
      BY <1>1 DEF InstallDevice
    <3>2. device_descriptor_reverse(device_descriptor_set_fields(dev)) \in Descriptors
      BY <2>2, DescriptorType
    <3>3. descriptors \in [0 .. MAX_IO_DEVICES - 1 -> Descriptors]
      BY DEF TypeOK, Descriptors
    <3> HIDE DEF dev
    <3> QED  BY <3>1, <3>2, <3>3 DEF device_descriptor_add
  <2>7. pmem' = pmem /\ at' = at
    BY <1>1 DEF InstallDevice
  <2> QED  BY <2>3, <2>4, <2>5, <2>6, <2>7 DEF TypeOK, Kinds, Devices, Lengths, Descriptors
<1>2. ASSUME InstallNothing PROVE TypeOK'
  <2>1. Tail(todo) \in Seq({"shutdown", "tty"})
    BY <1>2, TailType DEF TypeOK, InstallNothing
  <2> QED  BY <1>2, <2>1 DEF TypeOK, InstallNothing
<1>3. ASSUME Start PROVE TypeOK'
  BY <1>3 DEF TypeOK, Start
<1>4. ASSUME NEW v \in Addresses, NEW size \in Sizes, ReadRegister(v, size) PROVE TypeOK'
  BY <1>4 DEF TypeOK, ReadRegister
<1>5. ASSUME NEW v \in Addresses, NEW size \in Sizes, Read(v, size) PROVE TypeOK'
  BY <1>5 DEF TypeOK, Read
<1>6. ASSUME NEW v \in Addresses, NEW size \in Sizes, ReadOutOfBounds(v, size) PROVE TypeOK'
  BY <1>6 DEF TypeOK, ReadOutOfBounds
<1>7. ASSUME NEW v \in Addresses, NEW size \in Sizes, NEW src \in Values,
             WriteRegister(v, src, size)
      PROVE  TypeOK'
  BY <1>7 DEF TypeOK, WriteRegister
<1>8. ASSUME NEW v \in Addresses, NEW size \in Sizes, NEW src \in Values,
             Write(v, src, size)
      PROVE  TypeOK'
  <2>1. MP!IsMemory(pmem)
    BY SameSizes DEF TypeOK, MP!IsMemory
  <2>2. pmem' = M!mmu_write(pmem, v, src, size).pmem
    BY <1>8 DEF Write
  <2>3. MP!IsMemory(pmem')
    <3>1. CASE pmem' = pmem
      BY <2>1, <3>1
    <3>2. CASE pmem' # pmem
      <4>1. v \in Word /\ v \in Int /\ M!IO_REGISTER_AREA \in Int /\ M!IO_DESCRIPTOR_AREA \in Int
        BY BusAssumption, SameAreas, SizeFacts DEF Word
      <4>2. pmem' = M!SET_BIG(pmem, M!Translate(v), size, src) /\ M!Translate(v) # M!NULL
        <5>1. ~(v >= M!IO_REGISTER_AREA) /\ ~(v >= M!IO_DESCRIPTOR_AREA /\ v < M!IO_REGISTER_AREA)
          BY <2>2, <3>2 DEF M!mmu_write
        <5>2. v < M!IO_DESCRIPTOR_AREA
          BY <4>1, <5>1
        <5> QED  BY <2>2, <3>2, <5>1, <5>2 DEF M!mmu_write
      <4>3. M!Translate(v) \in 0 .. memsz - 4
        BY <4>1, <4>2, SameTranslation, SameSizes, MPAssumptions, MP!TranslationInBounds
        DEF MP!TranslationInBounds
      <4>4. MP!IsMemory(MP!SET_BIG(pmem, M!Translate(v), size, src))
        BY <2>1, <4>3, MPAssumptions, MP!SetBigType DEF Sizes, MP!SetBigType
      <4> QED  BY <4>2, <4>4, SameSetBig
    <3> QED  BY <3>1, <3>2
  <2>4. pmem' \in [DOMAIN pmem' -> Byte] /\ DOMAIN pmem' \subseteq 0 .. memsz - 1
    BY <2>3, SameSizes DEF MP!IsMemory
  <2> QED  BY <1>8, <2>4 DEF TypeOK, Write
<1>9. ASSUME Ended \/ UNCHANGED vars PROVE TypeOK'
  BY <1>9 DEF TypeOK, Ended, vars
<1> QED  BY <1>1, <1>2, <1>3, <1>4, <1>5, <1>6, <1>7, <1>8, <1>9 DEF Next, Access

LEMMA TypeInit == Init => TypeOK
<1> SUFFICES ASSUME Init PROVE TypeOK
  OBVIOUS
<1>1. todo \in Seq({"shutdown", "tty"}) /\ devices \in Seq(Devices)
  BY BusAssumption DEF Init
<1>2. next_io_register \in Word
  <2>1. \A x \in Nat : x >= 64 => x < x * x
    BY SMT
  <2> QED  BY <2>1, HalfSizeBound, SameAreas, SMT DEF Init, Word, WordSize
<1>3. descriptors \in [0 .. MAX_IO_DEVICES - 1 -> Descriptors]
  BY SmallNumbers DEF Init, ZeroDescriptor, Descriptors
<1> QED  BY <1>1, <1>2, <1>3 DEF Init, TypeOK, Devices, Kinds, Lengths, Descriptors

(***************************************************************************)
(* The variables keep their types: mmu_add_device never leaves the table   *)
(* of descriptors, and no store leaves the memsz bytes of the buffer.      *)
(***************************************************************************)
THEOREM BusTypeCorrect == Spec => []TypeOK
BY TypeInit, TypeStep, PTL DEF Spec

-----------------------------------------------------------------------------
(***************************************************************************)
(* The inductive invariant.  Table says which descriptor describes which   *)
(* device, so that the first free one is the next one.                     *)
(***************************************************************************)
Table ==
    \A i \in 0 .. MAX_IO_DEVICES - 1 :
        descriptors[i] =
            IF i < Len(devices)
            THEN device_descriptor_reverse(device_descriptor_set_fields(Installed(i + 1)))
            ELSE ZeroDescriptor

BusInv == TypeOK /\ Table

LEMMA InstalledTypes ==
    ASSUME TypeOK
    PROVE  /\ Len(devices) \in Nat
           /\ \A n \in 1 .. Len(devices) :
                /\ Installed(n) \in Devices
                /\ Installed(n).kind \in Kinds
                /\ Installed(n).io_addr_base \in Nat /\ Installed(n).io_addr_base \in Word
                /\ Installed(n).io_addr_len \in Nat /\ Installed(n).io_addr_len \in Word
<1>1. devices \in Seq(Devices)
  BY DEF TypeOK, Devices, Kinds, Lengths
<1>2. Len(devices) \in Nat
  BY <1>1
<1>3. ASSUME NEW n \in 1 .. Len(devices) PROVE Installed(n) \in Devices
  <2>1. Len(devices) + 1 - n \in 1 .. Len(devices)
    BY <1>2, SMT
  <2> QED  BY <1>1, <2>1 DEF Installed
<1>4. \A d \in Devices :
        /\ d.kind \in Kinds /\ d.io_addr_base \in Word /\ d.io_addr_base \in Nat
        /\ d.io_addr_len \in Nat /\ d.io_addr_len \in Word
  BY SizeFacts, SmallNumbers, SMT
  DEF Devices, Lengths, IO_LENGTH_SHUTDOWN, IO_LENGTH_TTY, Word
<1> QED  BY <1>2, <1>3, <1>4

(* mmu_add_device numbers the new device last. *)
LEMMA InstalledLast ==
    ASSUME TypeOK, InstallDevice
    PROVE  LET dev == [kind |-> Head(todo), io_addr_base |-> next_io_register,
                       io_addr_len |-> DeviceType[Head(todo)].len]
           IN  /\ dev \in Devices
               /\ Len(devices') = Len(devices) + 1
               /\ \A n \in 1 .. Len(devices) + 1 :
                    Installed(n)' = IF n = Len(devices) + 1 THEN dev ELSE Installed(n)
<1> DEFINE dev == [kind |-> Head(todo), io_addr_base |-> next_io_register,
                   io_addr_len |-> DeviceType[Head(todo)].len]
<1>1. todo \in Seq(Kinds) /\ todo # <<>> /\ devices \in Seq(Devices)
  BY DEF TypeOK, InstallDevice, Kinds, Devices, Lengths
<1>2. dev \in Devices
  BY <1>1, InstallType DEF TypeOK
<1>3. devices' = <<dev>> \o devices
  BY DEF InstallDevice
<1> HIDE DEF dev
<1>4. /\ Len(devices) \in Nat /\ Len(devices') = Len(devices) + 1
      /\ devices'[1] = dev
      /\ \A k \in 1 .. Len(devices) : devices'[k + 1] = devices[k]
  BY <1>1, <1>2, <1>3, Prepend
<1>5. ASSUME NEW n, n = Len(devices) + 1 PROVE Installed(n)' = dev
  <2>1. Len(devices') + 1 - n = 1
    BY <1>4, <1>5
  <2> QED  BY <1>4, <2>1 DEF Installed
<1>6. ASSUME NEW n \in 1 .. Len(devices) PROVE Installed(n)' = Installed(n)
  <2> DEFINE k == Len(devices) + 1 - n
  <2>1. k \in 1 .. Len(devices) /\ Len(devices') + 1 - n = k + 1
    BY <1>4, SMT
  <2> QED  BY <1>4, <2>1 DEF Installed
<1>7. \A n \in 1 .. Len(devices) + 1 : n = Len(devices) + 1 \/ n \in 1 .. Len(devices)
  BY <1>4
<1> QED  BY <1>2, <1>4, <1>5, <1>6, <1>7 DEF dev

(* What device_descriptor_add tests is the type code of the device. *)
LEMMA FreeIsUnused ==
    ASSUME TypeOK, Table
    PROVE  FreeDescriptors = {i \in 0 .. MAX_IO_DEVICES - 1 : ~(i < Len(devices))}
<1>1. DOMAIN descriptors = 0 .. MAX_IO_DEVICES - 1
  BY DEF TypeOK
<1>2. ASSUME NEW i \in 0 .. MAX_IO_DEVICES - 1
      PROVE  device_descriptor_reverse(descriptors[i]).typecode = TYPECODE_EMPTY
                <=> ~(i < Len(devices))
  <2>1. CASE i < Len(devices)
    <3> DEFINE d == Installed(i + 1)
    <3>1. i + 1 \in 1 .. Len(devices)
      BY <2>1, InstalledTypes, TableSize, SMT
    <3>2. d.kind \in Kinds
      BY <3>1, InstalledTypes
    <3>3. descriptors[i] = device_descriptor_reverse(device_descriptor_set_fields(d))
      BY <2>1 DEF Table
    <3>4. device_descriptor_reverse(descriptors[i]).typecode =
            REVERSE(REVERSE(DeviceType[d.kind].typecode))
      BY <3>3 DEF device_descriptor_reverse, device_descriptor_set_fields
    <3>5. DeviceType[d.kind].typecode \in Word /\ DeviceType[d.kind].typecode # 0
      BY <3>2, SmallNumbers DEF DeviceType, Kinds
    <3> QED  BY <2>1, <3>4, <3>5, ReverseTwice DEF TYPECODE_EMPTY
  <2>2. CASE ~(i < Len(devices))
    <3>1. device_descriptor_reverse(descriptors[i]).typecode = REVERSE(0)
      <4>1. descriptors[i] = ZeroDescriptor
        BY <2>2 DEF Table
      <4> QED  BY <4>1 DEF ZeroDescriptor, device_descriptor_reverse
    <3>2. REVERSE(0) = 0
      <4>1. 0 \div (ByteSize * HalfSize) = 0 /\ 0 \div HalfSize = 0 /\ 0 \div ByteSize = 0
                /\ 0 % ByteSize = 0
        BY SizeFacts, SMT
      <4>2. 0 * ByteSize = 0 /\ 0 * HalfSize = 0
        BY SizeFacts, SMT
      <4> QED  BY <4>1, <4>2 DEF REVERSE
    <3> QED  BY <2>2, <3>1, <3>2 DEF TYPECODE_EMPTY
  <2> QED  BY <2>1, <2>2
<1> QED  BY <1>1, <1>2 DEF FreeDescriptors

LEMMA TableStep ==
    ASSUME TypeOK, Table, InstallDevice
    PROVE  Table'
<1> DEFINE dev == [kind |-> Head(todo), io_addr_base |-> next_io_register,
                   io_addr_len |-> DeviceType[Head(todo)].len]
           D == device_descriptor_reverse(device_descriptor_set_fields(dev))
           N == Len(devices)
           K == MAX_IO_DEVICES
<1>1. /\ N \in Nat /\ Len(devices') = N + 1
      /\ \A n \in 1 .. N + 1 : Installed(n)' = IF n = N + 1 THEN dev ELSE Installed(n)
  BY InstalledLast, InstalledTypes
<1>2. K \in Nat
  BY TableSize
<1>3. FreeDescriptors = {i \in 0 .. K - 1 : ~(i < N)}
  BY FreeIsUnused
<1>4. device_descriptor_add(dev) /\ DOMAIN descriptors = 0 .. K - 1
  BY DEF InstallDevice, TypeOK
<1>5. ASSUME NEW i \in 0 .. K - 1
      PROVE  descriptors'[i] = IF i = N THEN D ELSE descriptors[i]
  <2>1. CASE FreeDescriptors = {}
    <3>1. descriptors' = descriptors
      BY <1>4, <2>1 DEF device_descriptor_add
    <3>2. i # N
      BY <1>1, <1>3, <2>1
    <3> QED  BY <3>1, <3>2
  <2>2. CASE FreeDescriptors # {}
    <3> DEFINE first == CHOOSE k \in FreeDescriptors : \A j \in FreeDescriptors : k <= j
    <3>1. first = N
      <4>1. N \in FreeDescriptors
        BY <1>1, <1>2, <1>3, <2>2
      <4>2. \A j \in FreeDescriptors : j \in Int /\ N <= j
        BY <1>1, <1>2, <1>3
      <4>3. first \in FreeDescriptors /\ first <= N
        BY <4>1, <4>2
      <4> HIDE DEF first
      <4> QED  BY <1>1, <4>2, <4>3
    <3>2. descriptors' = [descriptors EXCEPT ![first] = D]
      BY <1>4, <2>2 DEF device_descriptor_add
    <3> HIDE DEF first, D
    <3> QED  BY <1>4, <3>1, <3>2
  <2> QED  BY <2>1, <2>2
<1> SUFFICES ASSUME NEW i \in 0 .. K - 1
             PROVE  descriptors'[i] =
                        IF i < N + 1
                        THEN device_descriptor_reverse(device_descriptor_set_fields(Installed(i + 1)'))
                        ELSE ZeroDescriptor
  BY <1>1 DEF Table, ZeroDescriptor, device_descriptor_reverse, device_descriptor_set_fields,
        REVERSE
<1>6. CASE i < N
  <2>1. i + 1 \in 1 .. N + 1 /\ i # N /\ i + 1 # N + 1 /\ i < N + 1
    BY <1>1, <1>2, <1>6
  <2> QED  BY <1>1, <1>5, <1>6, <2>1 DEF Table
<1>7. CASE i = N
  <2>1. i + 1 \in 1 .. N + 1 /\ i + 1 = N + 1 /\ i < N + 1
    BY <1>1, <1>2, <1>7
  <2>2. Installed(i + 1)' = dev
    BY <1>1, <2>1
  <2> HIDE DEF dev
  <2> QED  BY <1>5, <1>7, <2>1, <2>2
<1>8. CASE i > N
  <2>1. ~(i < N + 1) /\ ~(i < N) /\ i # N
    BY <1>1, <1>2, <1>8
  <2> QED  BY <1>5, <2>1 DEF Table
<1> QED  BY <1>1, <1>2, <1>6, <1>7, <1>8

LEMMA BusInvInit == Init => BusInv
<1> SUFFICES ASSUME Init PROVE BusInv
  OBVIOUS
<1>1. TypeOK /\ Len(devices) = 0
  BY TypeInit DEF Init
<1>2. Table
  <2>1. \A i \in 0 .. MAX_IO_DEVICES - 1 : ~(i < 0)
    BY TableSize
  <2> QED  BY <1>1, <2>1 DEF Init, Table
<1> QED  BY <1>1, <1>2 DEF BusInv

LEMMA BusInvStep == BusInv /\ [Next]_vars => BusInv'
<1> SUFFICES ASSUME BusInv, [Next]_vars PROVE BusInv'
  OBVIOUS
<1>1. TypeOK'
  BY TypeStep DEF BusInv
<1>2. ASSUME InstallDevice PROVE Table'
  BY <1>2, TableStep DEF BusInv
<1>3. ASSUME UNCHANGED <<devices, descriptors>> PROVE Table'
  BY <1>3 DEF BusInv, Table, Installed
<1>4. InstallDevice \/ UNCHANGED <<devices, descriptors>>
  BY DEF Next, Access, InstallNothing, Start, ReadRegister, Read, ReadOutOfBounds,
        WriteRegister, Write, Ended, vars
<1> QED  BY <1>1, <1>2, <1>3, <1>4 DEF BusInv

LEMMA BusInvariant == Spec => []BusInv
BY BusInvInit, BusInvStep, PTL DEF Spec

-----------------------------------------------------------------------------
(***************************************************************************)
(* What byte loads find in the descriptor area.                            *)
(***************************************************************************)
Field(i, f) ==
    CASE f = 0 -> descriptors[i].typecode
      [] f = 1 -> descriptors[i].io_addr_base
      [] f = 2 -> descriptors[i].io_addr_len
      [] f = 3 -> descriptors[i].irq

LEMMA FieldType ==
    ASSUME TypeOK, NEW i \in 0 .. MAX_IO_DEVICES - 1, NEW f \in 0 .. 3
    PROVE  Field(i, f) \in Word
<1>1. descriptors[i] \in Descriptors
  BY DEF TypeOK, Descriptors
<1> QED  BY <1>1 DEF Field, Descriptors

LEMMA ByteLoaded ==
    ASSUME TypeOK, NEW i \in 0 .. MAX_IO_DEVICES - 1, NEW f \in 0 .. 3, NEW b \in 0 .. 3
    PROVE  ByteLoad(DescriptorSize * i + 4 * f + b) = (Field(i, f) \div Weight(b)) % ByteSize
<1> DEFINE o == DescriptorSize * i + 4 * f + b
           v == M!IO_DESCRIPTOR_AREA + o
           w == Field(i, f)
           byte == (w \div Weight(b)) % ByteSize
<1>1. /\ i \in Nat /\ MAX_IO_DEVICES \in Nat /\ 32 * MAX_IO_DEVICES <= HalfSize
      /\ HalfSize \in Nat /\ WordSize \in Nat /\ 2 * HalfSize < WordSize
  <2>1. \A x \in Nat : x >= 64 => 2 * x < x * x
    BY SMT
  <2> QED  BY <2>1, TableSize, HalfSizeBound, WordSizeBound DEF WordSize
<1>2. o \in Nat /\ o + 1 <= HalfSize
  BY <1>1, SMT DEF DescriptorSize
<1>3. HostByte(o) = byte
  <2>1. o \div DescriptorSize = i /\ (o % DescriptorSize) \div 4 = f /\ o % 4 = b
    BY <1>1, SMT DEF DescriptorSize
  <2> HIDE DEF o
  <2> QED  BY <2>1 DEF HostByte, Field
<1>4. DescriptorLoad(o, 1) = byte
  <2>1. InBounds(o, 1)
    <3> HIDE DEF o
    <3> QED  BY <1>1, <1>2 DEF InBounds, IO_DESCRIPTOR_AREA_LENGTH
  <2> HIDE DEF o, byte
  <2> QED  BY <1>3, <2>1 DEF DescriptorLoad
<1>5. byte \in Nat /\ byte < WordSize
  <2>1. w \in Nat /\ Weight(b) \in Nat /\ Weight(b) > 0
    BY FieldType, SizeFacts DEF Word, Weight
  <2>2. w \div Weight(b) \in Nat
    <3> HIDE DEF w
    <3> QED  BY <2>1, SMT
  <2>3. byte \in Nat /\ byte < ByteSize
    <3> HIDE DEF w
    <3> QED  BY <2>2, SizeFacts, SMT
  <2>4. ByteSize <= WordSize
    <3>1. \A x \in Nat : x <= x * x
      BY SMT
    <3>2. ByteSize <= HalfSize /\ HalfSize <= WordSize
      BY <3>1, SizeFacts DEF HalfSize, WordSize
    <3> QED  BY <3>2, SizeFacts
  <2> HIDE DEF byte
  <2> QED  BY <2>3, <2>4, SizeFacts
<1>6. M!u32(byte) = byte
  <2>1. \A x \in Nat : x < WordSize => x % WordSize = x
    BY SizeFacts, SMT
  <2> HIDE DEF byte
  <2> QED  BY <1>5, <2>1, SameSizes DEF M!u32
<1>7. /\ v >= M!IO_DESCRIPTOR_AREA /\ v < M!IO_REGISTER_AREA
      /\ ~(v >= M!IO_REGISTER_AREA) /\ ~(v < M!IO_DESCRIPTOR_AREA)
      /\ v - M!IO_DESCRIPTOR_AREA = o
  <2> HIDE DEF o
  <2> QED  BY <1>1, <1>2, SameAreas
<1>8. M!mmu_read(pmem, v, 0, 1).data = M!u32(DescriptorLoad(o, 1))
  <2> HIDE DEF o, v
  <2> QED  BY <1>7 DEF M!mmu_read
<1> HIDE DEF byte
<1> QED  BY <1>4, <1>6, <1>8 DEF ByteLoad, byte

(* Byte loads undo the reversal. *)
LEMMA FieldLoaded ==
    ASSUME TypeOK, NEW i \in 0 .. MAX_IO_DEVICES - 1, NEW f \in 0 .. 3
    PROVE  FieldByBytes(i, f) = REVERSE(Field(i, f))
<1> DEFINE o == DescriptorSize * i + 4 * f
           w == Field(i, f)
<1>1. w \in Word
  BY FieldType
<1>2. o \in Nat /\ o + 0 = o
  BY TableSize, SMT DEF DescriptorSize
<1>3. /\ ByteLoad(o) = (w \div Weight(0)) % ByteSize
      /\ ByteLoad(o + 1) = (w \div Weight(1)) % ByteSize
      /\ ByteLoad(o + 2) = (w \div Weight(2)) % ByteSize
      /\ ByteLoad(o + 3) = (w \div Weight(3)) % ByteSize
  <2>1. \A b \in 0 .. 3 : ByteLoad(o + b) = (w \div Weight(b)) % ByteSize
    BY ByteLoaded
  <2>2. ByteLoad(o + 0) = (w \div Weight(0)) % ByteSize
    <3> HIDE DEF o, w
    <3> QED  BY <2>1
  <2> HIDE DEF o, w
  <2> QED  BY <1>2, <2>1, <2>2
<1> HIDE DEF o, w
<1> DEFINE d3 == w \div (ByteSize * HalfSize)
           d2 == (w \div HalfSize) % ByteSize
           d1 == (w \div ByteSize) % ByteSize
           d0 == w % ByteSize
<1>4. w \in Nat /\ w < WordSize /\ w \div 1 = w
  BY <1>1, SizeFacts, SMT DEF Word
<1>5. d3 \in Nat /\ d3 % ByteSize = d3
  <2>1. \A x, y, z \in Nat : y > 0 /\ x < z * y => x \div y \in Nat /\ x \div y < z
    BY SMT
  <2>2. d3 \in Nat /\ d3 < ByteSize
    BY <1>4, <2>1, SizeFacts
  <2> QED  BY <2>2, SizeFacts, SMT
<1>6. d0 \in Nat /\ d1 \in Nat /\ d2 \in Nat
  <2>1. w \div HalfSize \in Nat /\ w \div ByteSize \in Nat
    BY <1>4, SizeFacts, SMT
  <2> QED  BY <1>4, <2>1, SizeFacts, SMT
<1>7. FieldByBytes(i, f) = d0 * ByteSize * HalfSize + d1 * HalfSize + d2 * ByteSize + d3
  <2>1. FieldByBytes(i, f) = ByteLoad(o) * ByteSize * HalfSize + ByteLoad(o + 1) * HalfSize
                                + ByteLoad(o + 2) * ByteSize + ByteLoad(o + 3)
    BY DEF FieldByBytes, o
  <2> QED  BY <1>3, <1>4, <1>5, <2>1 DEF Weight
<1>8. REVERSE(w) = d3 + d2 * ByteSize + d1 * HalfSize + d0 * ByteSize * HalfSize
  BY DEF REVERSE
<1>9. /\ d3 \in Int /\ d2 * ByteSize \in Int /\ d1 * HalfSize \in Int
      /\ d0 * ByteSize * HalfSize \in Int
  BY <1>5, <1>6, SizeFacts, SMT
<1> HIDE DEF d0, d1, d2, d3
<1>10. FieldByBytes(i, f) = REVERSE(w)
  BY <1>7, <1>8, <1>9, SMT
<1> QED  BY <1>10 DEF w

LEMMA DescriptorReadBack ==
    ASSUME TypeOK, Table, NEW i \in 0 .. MAX_IO_DEVICES - 1
    PROVE  IF i < Len(devices)
           THEN /\ FieldByBytes(i, 0) = DeviceType[Installed(i + 1).kind].typecode
                /\ FieldByBytes(i, 1) = Installed(i + 1).io_addr_base
                /\ FieldByBytes(i, 2) = Installed(i + 1).io_addr_len
                /\ FieldByBytes(i, 0) # TYPECODE_EMPTY
                /\ i + 1 \in 1 .. Len(devices)
           ELSE FieldByBytes(i, 0) = TYPECODE_EMPTY
<1> DEFINE d == Installed(i + 1)
<1>1. \A f \in 0 .. 3 : FieldByBytes(i, f) = REVERSE(Field(i, f))
  BY FieldLoaded
<1>2. /\ Field(i, 0) = descriptors[i].typecode /\ Field(i, 1) = descriptors[i].io_addr_base
      /\ Field(i, 2) = descriptors[i].io_addr_len
  BY DEF Field
<1>3. CASE i < Len(devices)
  <2>1. i + 1 \in 1 .. Len(devices)
    BY <1>3, InstalledTypes, TableSize, SMT
  <2>2. d.kind \in Kinds /\ d.io_addr_base \in Word /\ d.io_addr_len \in Word
    BY <2>1, InstalledTypes
  <2>3. descriptors[i] = device_descriptor_reverse(device_descriptor_set_fields(d))
    BY <1>3 DEF Table
  <2>4. /\ descriptors[i].typecode = REVERSE(DeviceType[d.kind].typecode)
        /\ descriptors[i].io_addr_base = REVERSE(d.io_addr_base)
        /\ descriptors[i].io_addr_len = REVERSE(d.io_addr_len)
    BY <2>3 DEF device_descriptor_reverse, device_descriptor_set_fields
  <2>5. DeviceType[d.kind].typecode \in Word /\ DeviceType[d.kind].typecode # 0
    BY <2>2, SmallNumbers DEF DeviceType, Kinds
  <2> HIDE DEF d
  <2>6. /\ FieldByBytes(i, 0) = DeviceType[d.kind].typecode
        /\ FieldByBytes(i, 1) = d.io_addr_base
        /\ FieldByBytes(i, 2) = d.io_addr_len
    BY <1>1, <1>2, <2>2, <2>4, <2>5, ReverseTwice
  <2> QED  BY <1>3, <2>1, <2>5, <2>6 DEF TYPECODE_EMPTY, d
<1>4. CASE ~(i < Len(devices))
  <2>1. descriptors[i].typecode = 0
    <3>1. descriptors[i] = ZeroDescriptor
      BY <1>4 DEF Table
    <3> QED  BY <3>1 DEF ZeroDescriptor
  <2>2. REVERSE(0) = 0
    <3>1. 0 \div (ByteSize * HalfSize) = 0 /\ 0 \div HalfSize = 0 /\ 0 \div ByteSize = 0
                /\ 0 % ByteSize = 0
      BY SizeFacts, SMT
    <3>2. 0 * ByteSize = 0 /\ 0 * HalfSize = 0
      BY SizeFacts, SMT
    <3> QED  BY <3>1, <3>2 DEF REVERSE
  <2> QED  BY <1>1, <1>2, <1>4, <2>1, <2>2 DEF TYPECODE_EMPTY
<1> QED  BY <1>3, <1>4

(***************************************************************************)
(* device_descriptor_add, read back by mmu_read: for every sequence of     *)
(* devices, also when allocations fail and when the descriptors run out,   *)
(* byte loads find the devices in the order of their installation and      *)
(* nothing after them.                                                     *)
(***************************************************************************)
THEOREM DevicesAreDescribed == Spec => []DescriptorsDescribeDevices
<1>1. BusInv => DescriptorsDescribeDevices
  BY DescriptorReadBack DEF BusInv, DescriptorsDescribeDevices
<1> QED  BY <1>1, BusInvariant, PTL

-----------------------------------------------------------------------------
(***************************************************************************)
(* Stores.  What a load from kseg0 finds depends on the buffer alone, not  *)
(* on the descriptors: that is why theorem StoreThenLoad of MemoryProofs   *)
(* also speaks of the loads after the step.                                *)
(***************************************************************************)
LEMMA Kseg0Same == MP!Kseg0 = M!Kseg0 /\ M!KSEG0_VSTART \in Nat
<1>1. MP!Kseg0 = M!Kseg0
  BY SameAreas, SameSizes DEF MP!Kseg0, M!Kseg0, MP!KSEG0_SIZE, M!KSEG0_SIZE, MP!Unit, M!Unit
<1>2. M!KSEG0_VSTART \in Nat
  BY SameSizes, WordSizeBound, SMT DEF M!KSEG0_VSTART, M!Unit
<1> QED  BY <1>1, <1>2

LEMMA LoadFromBuffer ==
    \A x \in M!Kseg0, size \in Sizes :
        Load(x, size) = M!u32(M!GET_BIG(pmem, x - M!KSEG0_VSTART, size))
<1> SUFFICES ASSUME NEW x \in M!Kseg0, NEW size \in Sizes
             PROVE  Load(x, size) = M!u32(M!GET_BIG(pmem, x - M!KSEG0_VSTART, size))
  OBVIOUS
<1>1. MP!mmu_read(pmem, x, 0, size).data =
        MP!u32(MP!GET_BIG(pmem, x - MP!KSEG0_VSTART, size))
  BY MPAssumptions, Kseg0Same, MP!Kseg0Read DEF MP!Kseg0Read
<1> QED  BY <1>1, SameRead, SameAreas, SameAccess DEF Load

LEMMA LoadNext ==
    \A x \in M!Kseg0, size \in Sizes : Load(x, size)' = MP!mmu_read(pmem', x, 0, size).data
<1>1. (\A x \in M!Kseg0, size \in Sizes :
        Load(x, size) = M!u32(M!GET_BIG(pmem, x - M!KSEG0_VSTART, size)))'
  BY LoadFromBuffer, PTL
<1>2. \A x \in M!Kseg0, size \in Sizes :
        Load(x, size)' = M!u32(M!GET_BIG(pmem', x - M!KSEG0_VSTART, size))
  BY <1>1 DEF M!Kseg0, Sizes
<1>3. ASSUME NEW x \in M!Kseg0, NEW size \in Sizes
      PROVE  MP!mmu_read(pmem', x, 0, size).data =
                MP!u32(MP!GET_BIG(pmem', x - MP!KSEG0_VSTART, size))
  BY MPAssumptions, Kseg0Same, MP!Kseg0Read DEF MP!Kseg0Read
<1> QED  BY <1>2, <1>3, SameAreas, SameAccess

(***************************************************************************)
(* mmu_write and mmu_read agree on kseg0, for every store of a program: the*)
(* loads that follow find the bytes stored, most significant first, and    *)
(* every other byte of kseg0 as it was.                                    *)
(***************************************************************************)
THEOREM StoresLocal == Spec => StoresAreLocal
<1>1. ASSUME NEW v \in Addresses, NEW src \in Values, NEW size \in Sizes,
             Write(v, src, size), v .. v + size - 1 \subseteq M!Kseg0
      PROVE  /\ at' = at
             /\ Load(v, size)' = src % Weight(size)
             /\ \A b \in 0 .. size - 1 :
                   Load(v + b, 1)' = (src \div Weight(size - 1 - b)) % ByteSize
             /\ \A x \in M!Kseg0 \ (v .. v + size - 1) : Load(x, 1)' = Load(x, 1)
  <2>1. /\ v \in Word /\ v \in Nat /\ src \in Word /\ size \in {1, 2, 4} /\ 1 \in Sizes
        /\ v \in M!Kseg0 /\ v \in MP!Kseg0 /\ v .. v + size - 1 \subseteq MP!Kseg0
    <3>1. v \in Word /\ v \in Nat /\ src \in Word
      BY BusAssumption, SizeFacts DEF Word
    <3>2. v \in v .. v + size - 1
      BY <3>1 DEF Sizes
    <3> QED  BY <1>1, <3>1, <3>2, Kseg0Same DEF Sizes
  <2>2. MP!mmu_write(pmem, v, src, size) =
          [pmem |-> MP!SET_BIG(pmem, v - MP!KSEG0_VSTART, size, src),
           exception |-> "None", segv |-> FALSE]
    BY <2>1, MPAssumptions, MP!Kseg0Write DEF MP!Kseg0Write
  <2>3. pmem' = MP!mmu_write(pmem, v, src, size).pmem /\ at' = at
    <3>1. ~M!mmu_write(pmem, v, src, size).segv
      BY <2>2, SameWrite
    <3> QED  BY <1>1, <3>1, SameWrite DEF Write
  <2>4. /\ MP!mmu_read(pmem', v, 0, size).data = src % Weight(size)
        /\ \A b \in 0 .. size - 1 :
              MP!mmu_read(pmem', v + b, 0, 1).data = (src \div Weight(size - 1 - b)) % ByteSize
        /\ \A x \in M!Kseg0 \ (v .. v + size - 1) :
              MP!mmu_read(pmem', x, 0, 1).data = MP!mmu_read(pmem, x, 0, 1).data
    <3>1. \A n : MP!Weight(n) = Weight(n)
      BY DEF MP!Weight, Weight, MP!HalfSize, HalfSize, MP!WordSize, WordSize
    <3>2. src \in MP!Word
      BY <2>1, SameSizes
    <3>3. MP!Stored(pmem, pmem', v, src, size)
      <4>1. MP!InKseg0(v, size) /\ v \in MP!Word
        BY <2>1, SameSizes DEF MP!InKseg0
      <4> QED  BY <2>1, <2>3, <3>2, <4>1, MPAssumptions, MP!StoreThenLoad DEF MP!StoreThenLoad
    <3> QED  BY <3>1, <3>3, Kseg0Same DEF MP!Stored
  <2>5. \A b \in 0 .. size - 1 : v + b \in M!Kseg0
    BY <1>1, <2>1
  <2>6. \A x \in M!Kseg0 : Load(x, 1) = MP!mmu_read(pmem, x, 0, 1).data
    BY SameRead DEF Load
  <2> QED  BY <2>1, <2>3, <2>4, <2>5, <2>6, LoadNext
<1>2. \A v \in Addresses, src \in Values, size \in Sizes :
        v .. v + size - 1 \subseteq M!Kseg0 /\ Write(v, src, size) =>
            /\ at' = at
            /\ Load(v, size)' = src % Weight(size)
            /\ \A b \in 0 .. size - 1 :
                  Load(v + b, 1)' = (src \div Weight(size - 1 - b)) % ByteSize
            /\ \A x \in M!Kseg0 \ (v .. v + size - 1) : Load(x, 1)' = Load(x, 1)
  BY <1>1
<1> QED  BY <1>2, PTL DEF StoresAreLocal

=============================================================================
