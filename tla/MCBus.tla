------------------------------- MODULE MCBus -------------------------------
(***************************************************************************)
(* The configurations and the accesses for which the bus is model checked. *)
(***************************************************************************)
EXTENDS Bus, SequencesExt

(* What init_io installs. *)
InitIo == {<<"shutdown">>}

(* More devices than there are descriptors; allocations may fail. *)
SomeDevices == InitIo \cup {<<"tty", "shutdown", "tty">>}

(***************************************************************************)
(* Overlapping accesses to kseg0, which has four bytes, also across its    *)
(* end, and one access to each other segment.                              *)
(***************************************************************************)
MemoryAddresses ==
    {M!KSEG0_VSTART, M!KSEG0_VSTART + 1, M!KSEG1_VSTART + 4, M!Unit - 4}

IoAddresses ==
    {M!IO_REGISTER_AREA, M!IO_REGISTER_AREA + 4,
     M!IO_DESCRIPTOR_AREA + 3, M!IO_DESCRIPTOR_AREA + (HalfSize \div 2)}

BusAddresses == MemoryAddresses \cup IoAddresses

(* Words with four different bytes. *)
MCMagic == 1 + 2 * ByteSize + 3 * HalfSize + 4 * ByteSize * HalfSize
MCValues == {MCMagic, 5 + 6 * HalfSize}

=============================================================================
