-------------------------------- MODULE Bus --------------------------------
(***************************************************************************)
(* The memory bus of the simulator: physical memory, the device list and   *)
(* the device descriptors (mem.c, io.c, shutdown_dev.c, tty.c), from       *)
(* init_io to the loads and stores of a program.                           *)
(*                                                                         *)
(* init_io installs one shutdown device.  Configurations may hold more, to *)
(* follow mmu_add_device to the limits of its tables.                      *)
(***************************************************************************)
EXTENDS Words, Sequences

CONSTANTS
    memsz,
    Configurations,             \* the sequences of devices to install
    Addresses, Values,          \* what the program accesses and stores
    POWEROFF_SHUTDOWN_MAGIC

ASSUME BusAssumption ==
    /\ memsz \in Nat
    /\ Configurations \subseteq Seq({"shutdown", "tty"})
    /\ Addresses \subseteq Word
    /\ POWEROFF_SHUTDOWN_MAGIC \in Values /\ Values \subseteq Word

VARIABLES
    todo,               \* the devices init_io still has to create
    devices,            \* mmu->devices: the newest device first
    next_io_register,
    descriptors,        \* mmu->device_descriptor_start
    pmem,
    at                  \* "init", "run", or how the process ended

vars == <<todo, devices, next_io_register, descriptors, pmem, at>>

-----------------------------------------------------------------------------
(***************************************************************************)
(* Devices and their descriptors.                                          *)
(***************************************************************************)
TYPECODE_EMPTY == 0
TYPECODE_SHUTDOWN == ByteSize + 3
TYPECODE_TTY == 2 * ByteSize + 1
IO_LENGTH_SHUTDOWN == 4
IO_LENGTH_TTY == 12
IRQ_INVALID == WordSize - 1
IRQ_TTY == 2

(* The vendor string is reduced to its first character. *)
DeviceType ==
    [shutdown |-> [typecode |-> TYPECODE_SHUTDOWN, len |-> IO_LENGTH_SHUTDOWN,
                   irq |-> IRQ_INVALID, vendor |-> 3],
     tty      |-> [typecode |-> TYPECODE_TTY, len |-> IO_LENGTH_TTY,
                   irq |-> IRQ_TTY, vendor |-> 4]]

(* sizeof(struct device_descriptor) *)
DescriptorSize == 32
IO_DESCRIPTOR_AREA_LENGTH == HalfSize
MAX_IO_DEVICES == IO_DESCRIPTOR_AREA_LENGTH \div DescriptorSize

ZeroDescriptor == [typecode |-> 0, io_addr_base |-> 0, io_addr_len |-> 0, irq |-> 0,
                   vendor |-> 0]

(* The most significant byte becomes the least significant one. *)
REVERSE(w) ==
    (w \div (ByteSize * HalfSize))
        + ((w \div HalfSize) % ByteSize) * ByteSize
        + ((w \div ByteSize) % ByteSize) * HalfSize
        + (w % ByteSize) * ByteSize * HalfSize

(* Mutant: the descriptor stays in the byte order of the host. *)
NotReversed(d) == d

device_descriptor_reverse(d) ==
    [d EXCEPT !.typecode = REVERSE(@), !.io_addr_base = REVERSE(@),
              !.io_addr_len = REVERSE(@), !.irq = REVERSE(@)]

device_descriptor_set_fields(dev) ==
    [typecode |-> DeviceType[dev.kind].typecode, io_addr_base |-> dev.io_addr_base,
     io_addr_len |-> dev.io_addr_len, irq |-> DeviceType[dev.kind].irq,
     vendor |-> DeviceType[dev.kind].vendor]

FreeDescriptors ==
    {i \in DOMAIN descriptors :
        device_descriptor_reverse(descriptors[i]).typecode = TYPECODE_EMPTY}

(* A device for which no descriptor is left is installed without one. *)
device_descriptor_add(dev) ==
    descriptors' =
        IF FreeDescriptors = {} THEN descriptors
        ELSE LET first == CHOOSE i \in FreeDescriptors : \A j \in FreeDescriptors : i <= j
             IN  [descriptors EXCEPT ![first] =
                    device_descriptor_reverse(device_descriptor_set_fields(dev))]

(***************************************************************************)
(* What a load from the descriptor area finds.  The bytes are those of the *)
(* little-endian host, and a half word or word is an element of an array   *)
(* that is indexed with the byte offset.                                   *)
(***************************************************************************)
HostByte(o) ==
    LET d == descriptors[o \div DescriptorSize]
        ByteOf(w) == (w \div Weight(o % 4)) % ByteSize
        field == (o % DescriptorSize) \div 4
    IN  CASE field = 0 -> ByteOf(d.typecode)
          [] field = 1 -> ByteOf(d.io_addr_base)
          [] field = 2 -> ByteOf(d.io_addr_len)
          [] field = 3 -> ByteOf(d.irq)
          [] field \in {4, 5} -> d.vendor
          [] OTHER -> 0

InBounds(o, size) == size * (o + 1) <= IO_DESCRIPTOR_AREA_LENGTH

DescriptorLoad(o, size) ==
    CASE ~InBounds(o, size) -> 0    \* see ReadOutOfBounds
      [] InBounds(o, size) /\ size = 1 -> HostByte(o)
      [] InBounds(o, size) /\ size = 2 -> HostByte(2 * o) + HostByte(2 * o + 1) * ByteSize
      [] OTHER -> HostByte(4 * o) + HostByte(4 * o + 1) * ByteSize
                    + HostByte(4 * o + 2) * HalfSize + HostByte(4 * o + 3) * ByteSize * HalfSize

M == INSTANCE Memory WITH DescriptorRead <- DescriptorLoad

-----------------------------------------------------------------------------
(***************************************************************************)
(* mmu_init has calloc'ed the memory and the descriptors.                  *)
(***************************************************************************)
Init ==
    /\ todo \in Configurations
    /\ devices = <<>>
    /\ next_io_register = M!IO_REGISTER_AREA
    /\ descriptors = [i \in 0 .. MAX_IO_DEVICES - 1 |-> ZeroDescriptor]
    /\ pmem = [a \in {} |-> 0]
    /\ at = "init"

(* mmu_add_device.  The sum is a uint32_t and is not checked. *)
InstallDevice ==
    /\ at = "init" /\ todo # <<>>
    /\ LET kind == Head(todo)
           dev == [kind |-> kind, io_addr_base |-> next_io_register,
                   io_addr_len |-> DeviceType[kind].len]
       IN  /\ next_io_register' = u32(next_io_register + dev.io_addr_len)
           /\ devices' = <<dev>> \o devices
           /\ device_descriptor_add(dev)
    /\ todo' = Tail(todo)
    /\ UNCHANGED <<pmem, at>>

(* The device could not be allocated: mmu_add_device ignores NULL. *)
InstallNothing ==
    /\ at = "init" /\ todo # <<>>
    /\ todo' = Tail(todo)
    /\ UNCHANGED <<devices, next_io_register, descriptors, pmem, at>>

Start ==
    /\ at = "init" /\ todo = <<>>
    /\ at' = "run"
    /\ UNCHANGED <<todo, devices, next_io_register, descriptors, pmem>>

-----------------------------------------------------------------------------
(***************************************************************************)
(* The I/O register area.  The loop over the devices ends at the last one  *)
(* without looking at it, and a list without any is a NULL pointer.        *)
(***************************************************************************)
Reached(v) ==
    {devices[n] : n \in {m \in 1 .. Len(devices) - 1 :
        /\ v >= devices[m].io_addr_base
        /\ v <= u32(devices[m].io_addr_base + devices[m].io_addr_len)}}

(* The shutdown device has no io_read; that of the TTY does nothing. *)
ReadRegister(v, size) ==
    /\ at = "run" /\ v >= M!IO_REGISTER_AREA
    /\ at' = IF devices = <<>> \/ \E d \in Reached(v) : d.kind = "shutdown"
             THEN "segv" ELSE at
    /\ UNCHANGED <<todo, devices, next_io_register, descriptors, pmem>>

(* shutdown_device_write; the TTY's io_write does nothing. *)
ShutsDown(v, src) ==
    /\ src = POWEROFF_SHUTDOWN_MAGIC
    /\ \E d \in Reached(v) : d.kind = "shutdown"

WriteRegister(v, src, size) ==
    /\ at = "run" /\ v >= M!IO_REGISTER_AREA
    /\ at' = CASE devices = <<>> -> "segv"
               [] devices # <<>> /\ ShutsDown(v, src) -> "exit"
               [] OTHER -> at
    /\ UNCHANGED <<todo, devices, next_io_register, descriptors, pmem>>

(***************************************************************************)
(* The rest of the address space.  What a load delivers is Load below; a   *)
(* step records only whether the simulator survives it.                    *)
(***************************************************************************)
Offset(v) == v - M!IO_DESCRIPTOR_AREA

Read(v, size) ==
    /\ at = "run" /\ v < M!IO_REGISTER_AREA
    /\ v >= M!IO_DESCRIPTOR_AREA => InBounds(Offset(v), size)
    /\ at' = IF M!mmu_read(pmem, v, 0, size).segv THEN "segv" ELSE at
    /\ UNCHANGED <<todo, devices, next_io_register, descriptors, pmem>>

(* Past the end of the descriptor table: undefined in C. *)
ReadOutOfBounds(v, size) ==
    /\ at = "run" /\ v \in M!IO_DESCRIPTOR_AREA .. M!IO_REGISTER_AREA - 1
    /\ ~InBounds(Offset(v), size)
    /\ at' \in {"run", "segv"}
    /\ UNCHANGED <<todo, devices, next_io_register, descriptors, pmem>>

Write(v, src, size) ==
    /\ at = "run" /\ v < M!IO_REGISTER_AREA
    /\ LET r == M!mmu_write(pmem, v, src, size)
       IN  pmem' = r.pmem /\ at' = IF r.segv THEN "segv" ELSE at
    /\ UNCHANGED <<todo, devices, next_io_register, descriptors>>

Ended ==
    /\ at \in {"exit", "segv"}
    /\ UNCHANGED vars

Sizes == {1, 2, 4}

Access ==
    \E v \in Addresses, size \in Sizes :
        \/ ReadRegister(v, size) \/ Read(v, size) \/ ReadOutOfBounds(v, size)
        \/ \E src \in Values : WriteRegister(v, src, size) \/ Write(v, src, size)

Next == InstallDevice \/ InstallNothing \/ Start \/ Access \/ Ended

Spec == Init /\ [][Next]_vars

-----------------------------------------------------------------------------
TypeOK ==
    /\ todo \in Seq({"shutdown", "tty"})
    /\ devices \in Seq([kind : {"shutdown", "tty"}, io_addr_base : Word,
                        io_addr_len : {IO_LENGTH_SHUTDOWN, IO_LENGTH_TTY}])
    /\ next_io_register \in Word
    /\ descriptors \in [0 .. MAX_IO_DEVICES - 1 ->
            [typecode : Word, io_addr_base : Word, io_addr_len : Word, irq : Word,
             vendor : Byte]]
    /\ pmem \in [DOMAIN pmem -> Byte] /\ DOMAIN pmem \subseteq 0 .. memsz - 1
    /\ at \in {"init", "run", "exit", "segv"}

(* The n-th device that was installed. *)
Installed(n) == devices[Len(devices) + 1 - n]

(* A field of descriptor i as byte loads assemble it, big-endian. *)
ByteLoad(o) == M!mmu_read(pmem, M!IO_DESCRIPTOR_AREA + o, 0, 1).data
FieldByBytes(i, f) ==
    LET o == DescriptorSize * i + 4 * f
    IN  ByteLoad(o) * ByteSize * HalfSize + ByteLoad(o + 1) * HalfSize
            + ByteLoad(o + 2) * ByteSize + ByteLoad(o + 3)

(***************************************************************************)
(* However many devices are installed, also when descriptors or registers  *)
(* run out: byte loads find the devices in the order of their installation *)
(* from the start of the descriptor area on, and nothing after them.       *)
(***************************************************************************)
DescriptorsDescribeDevices ==
    \A i \in 0 .. MAX_IO_DEVICES - 1 :
        IF i < Len(devices)
        THEN LET d == Installed(i + 1)
             IN  /\ FieldByBytes(i, 0) = DeviceType[d.kind].typecode
                 /\ FieldByBytes(i, 1) = d.io_addr_base
                 /\ FieldByBytes(i, 2) = d.io_addr_len
        ELSE FieldByBytes(i, 0) = TYPECODE_EMPTY

(***************************************************************************)
(* A store to a location of kseg0 reaches the buffer.  It writes the bytes *)
(* that loads of any size then see there, most significant first, and no   *)
(* other byte of kseg0.                                                    *)
(***************************************************************************)
Load(v, size) == M!mmu_read(pmem, v, 0, size).data

StoresAreLocal ==
    [][\A v \in Addresses, src \in Values, size \in Sizes :
            v .. v + size - 1 \subseteq M!Kseg0 /\ Write(v, src, size) =>
                /\ at' = at
                /\ Load(v, size)' = src % Weight(size)
                /\ \A b \in 0 .. size - 1 :
                      Load(v + b, 1)' = (src \div Weight(size - 1 - b)) % ByteSize
                /\ \A x \in M!Kseg0 \ (v .. v + size - 1) : Load(x, 1)' = Load(x, 1)]_vars

-----------------------------------------------------------------------------
(***************************************************************************)
(* What the report says, and the code does not do.                         *)
(***************************************************************************)

(* io.tex: writing the magic number to the address of the shutdown device  *)
(* stops the simulator.                                                    *)
ShutdownStops ==
    at = "run" =>
        \A n \in DOMAIN devices :
            devices[n].kind = "shutdown" =>
                ShutsDown(devices[n].io_addr_base, POWEROFF_SHUTDOWN_MAGIC)

=============================================================================
