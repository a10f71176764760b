----------------------------- MODULE ElfLoader -----------------------------
(***************************************************************************)
(* The ELF loader (elf.c): elf_dump opens a file, checks its header, walks *)
(* the program header table and copies the loadable segments to memory.    *)
(* The first error ends the simulator.                                     *)
(*                                                                         *)
(* A file is its path and what the loader's reads find in it: its header   *)
(* fields, the program header entry at a file position, and the byte at a  *)
(* position.  Several files with one path are what may be found there.     *)
(* A read succeeds when the file is long enough.                           *)
(***************************************************************************)
EXTENDS Words

CONSTANT
    Files       \* the files that fopen may find

(* The first six words of a program header entry. *)
PHeaderLength == 24

(* What the reads of the loader yield: words, and bytes up to the length. *)
ASSUME FilesAssumption ==
    \A f \in DOMAIN Files :
        /\ Files[f].length \in Nat /\ Files[f].e_entry \in Word
        /\ Files[f].e_phoff \in Nat /\ Files[f].e_phentsize \in Nat /\ Files[f].e_phnum \in Nat
        /\ \A o \in 0 .. Files[f].length - 1 : Files[f].byte[o] \in Byte
        /\ \A o \in 0 .. Files[f].length - PHeaderLength :
                /\ Files[f].phdr[o].p_vaddr \in Word /\ Files[f].phdr[o].p_offset \in Nat
                /\ Files[f].phdr[o].p_filesz \in Nat /\ Files[f].phdr[o].p_memsz \in Nat

VARIABLES
    mem_size,   \* the size of the buffer that mmu_init allocated
    fd,         \* the open file
    pos,        \* where in the file the current program header entry starts
    i,          \* the loop index of copy_all_segments
    retval,
    entry,      \* where elf_dump stores the entry point: the PC of core 0
    pmem,
    at          \* "open" .. "close", "run", or how the process ended

loader == <<mem_size, fd, pos, i, retval, entry, pmem>>

(* The loader does not look at the device descriptors. *)
NoDescriptors(offset, size) == 0

M == INSTANCE Memory WITH memsz <- mem_size, DescriptorRead <- NoDescriptors

-----------------------------------------------------------------------------
ELF_ERROR_IO_ERROR == -1
ELF_ERROR_NOT_ELF == -3
ELF_ERROR_NOT_SUPPORTED == -4

ET_EXEC == 2
EM_MIPS == 8

PT_LOAD == "PT_LOAD"
Skipped == {"PT_NULL", "PT_NOTE", "PT_MIPS_ABIFLAGS"}

(* Bytes read by read_elf_ident, by read_type_and_machine, and in all. *)
IdentLength == 16
TypeEnd == IdentLength + 4
HeaderEnd == TypeEnd + 5 * 4 + 6 * 2

(* The open file, with its ELF header. *)
file == Files[fd]

(* Errors propagate to simulate, which exits. *)
Return(r, next) ==
    /\ retval' = r
    /\ at' = IF r = 0 THEN next ELSE "exit"

-----------------------------------------------------------------------------
(***************************************************************************)
(* elf_open: fopen, and read_ehdr in three parts.                          *)
(***************************************************************************)
OpenFails ==
    /\ at = "open"
    /\ Return(ELF_ERROR_IO_ERROR, "ident")
    /\ UNCHANGED <<mem_size, fd, pos, i, entry, pmem>>

Open(path) ==
    /\ at = "open"
    /\ fd' \in {f \in DOMAIN Files : Files[f].path = path}
    /\ Return(0, "ident")
    /\ UNCHANGED <<mem_size, pos, i, entry, pmem>>

read_elf_ident ==
    /\ at = "ident"
    /\ Return(CASE file.length < IdentLength -> ELF_ERROR_IO_ERROR
                [] file.length >= IdentLength /\ ~file.magic -> ELF_ERROR_NOT_ELF
                [] file.length >= IdentLength /\ file.magic /\ ~(file.class32 /\ file.msb) ->
                        ELF_ERROR_NOT_SUPPORTED
                [] OTHER -> 0,
              "type")
    /\ UNCHANGED <<mem_size, fd, pos, i, entry, pmem>>

read_type_and_machine ==
    /\ at = "type"
    /\ Return(CASE file.length < TypeEnd -> ELF_ERROR_IO_ERROR
                [] /\ file.length >= TypeEnd
                   /\ (file.e_type # ET_EXEC \/ file.e_machine # EM_MIPS) ->
                        ELF_ERROR_NOT_SUPPORTED
                [] OTHER -> 0,
              "header")
    /\ UNCHANGED <<mem_size, fd, pos, i, entry, pmem>>

(* The rest of read_ehdr; elf_dump then stores the entry point. *)
read_ehdr ==
    /\ at = "header"
    /\ Return(IF file.length < HeaderEnd THEN ELF_ERROR_IO_ERROR ELSE 0, "table")
    /\ entry' = IF file.length < HeaderEnd THEN entry ELSE file.e_entry
    /\ UNCHANGED <<mem_size, fd, pos, i, pmem>>

-----------------------------------------------------------------------------
(***************************************************************************)
(* copy_all_segments.  Seeking fails on a stream that cannot seek, so that *)
(* every later seek and ftell succeeds.                                    *)
(***************************************************************************)
SeekTable ==
    /\ at = "table"
    /\ Return(IF file.seekable THEN 0 ELSE ELF_ERROR_IO_ERROR, "segment")
    /\ pos' = IF file.seekable THEN file.e_phoff ELSE pos
    /\ i' = 0
    /\ UNCHANGED <<mem_size, fd, entry, pmem>>

InLoop == at = "segment" /\ i < file.e_phnum

phdr == file.phdr[pos]

(* Mutant: the stream is left behind the segment. *)
LeaveStream(r) ==
    /\ Return(r, "segment")
    /\ i' = IF r = 0 THEN i + 1 ELSE i
    /\ pos' = IF phdr.p_type = PT_LOAD THEN phdr.p_offset + phdr.p_filesz
              ELSE pos + file.e_phentsize

(* The end of copy_cur_segment: on to the next entry, or out of the loop. *)
NextEntry(r) ==
    /\ Return(r, "segment")
    /\ i' = IF r = 0 THEN i + 1 ELSE i
    /\ pos' = pos + file.e_phentsize

HeaderUnreadable ==
    /\ InLoop
    /\ pos + PHeaderLength > file.length
    /\ NextEntry(ELF_ERROR_IO_ERROR)
    /\ UNCHANGED <<mem_size, fd, entry, pmem>>

InEntry == InLoop /\ pos + PHeaderLength <= file.length

SkipEntry ==
    /\ InEntry
    /\ phdr.p_type # PT_LOAD
    /\ NextEntry(IF phdr.p_type \in Skipped THEN 0 ELSE ELF_ERROR_NOT_SUPPORTED)
    /\ UNCHANGED <<mem_size, fd, entry, pmem>>

(***************************************************************************)
(* copy_segment: p_memsz bytes are cleared, then p_filesz bytes are read   *)
(* over them, as far as the file has them.  fread counts a segment without *)
(* bytes in the file as not read.                                          *)
(***************************************************************************)
Available(h) == IF h.p_offset + h.p_filesz <= file.length THEN h.p_filesz
                ELSE IF h.p_offset <= file.length THEN file.length - h.p_offset ELSE 0

(* Mutant: a segment that is not in the file is accepted. *)
ReadAny(h) == 0

ReadResult(h) == IF h.p_filesz > 0 /\ Available(h) = h.p_filesz THEN 0
                 ELSE ELF_ERROR_IO_ERROR

Touched(h) == IF h.p_memsz > Available(h) THEN h.p_memsz ELSE Available(h)

(* Mutant: only what the file has is cleared. *)
NotCleared(h, a) ==
    LET read == a .. a + Available(h) - 1
    IN  [x \in DOMAIN pmem \cup read |->
            IF x \in read THEN file.byte[h.p_offset + (x - a)] ELSE pmem[x]]

(* Memory when the segment is copied to offset a, in the buffer or not. *)
Copied(h, a) ==
    LET read == a .. a + Available(h) - 1
        cleared == (a .. a + h.p_memsz - 1) \ read
        byte == file.byte
    IN  [x \in DOMAIN pmem \cup read \cup cleared |->
            CASE x \in read -> byte[h.p_offset + (x - a)]
              [] x \in cleared -> 0
              [] OTHER -> pmem[x]]

Placed(h) == M!Translate(h.p_vaddr)

InBuffer(h) == Touched(h) = 0 \/ (Placed(h) # M!NULL /\ Placed(h) + Touched(h) <= mem_size)

copy_segment ==
    /\ InEntry
    /\ phdr.p_type = PT_LOAD
    /\ InBuffer(phdr)
    /\ pmem' = Copied(phdr, Placed(phdr))
    /\ NextEntry(ReadResult(phdr))
    /\ UNCHANGED <<mem_size, fd, entry>>

(* Clearing or reading to NULL; only the kernel may refuse to read there. *)
CopyToNull ==
    /\ InEntry
    /\ phdr.p_type = PT_LOAD
    /\ ~InBuffer(phdr) /\ Placed(phdr) = M!NULL
    /\ \/ /\ at' = "segv"
          /\ UNCHANGED <<pos, i, retval>>
       \/ /\ phdr.p_memsz = 0
          /\ NextEntry(ELF_ERROR_IO_ERROR)
    /\ UNCHANGED <<mem_size, fd, entry, pmem>>

(* Past the end of the buffer: other memory is overwritten, which the      *)
(* kernel or nobody notices.                                               *)
CopyOutside ==
    /\ InEntry
    /\ phdr.p_type = PT_LOAD
    /\ ~InBuffer(phdr) /\ Placed(phdr) # M!NULL
    /\ pmem' = Copied(phdr, Placed(phdr))
    /\ \/ /\ at' = "segv"
          /\ UNCHANGED <<pos, i, retval>>
       \/ NextEntry(ReadResult(phdr))
    /\ UNCHANGED <<mem_size, fd, entry>>

SegmentsCopied ==
    /\ at = "segment" /\ i >= file.e_phnum
    /\ at' = "close"
    /\ UNCHANGED loader

(* fclose may fail, and simulate takes that for a failure to load. *)
elf_close ==
    /\ at = "close"
    /\ \E r \in {0, ELF_ERROR_IO_ERROR} : Return(r, "run")
    /\ UNCHANGED <<mem_size, fd, pos, i, entry, pmem>>

elf_dump(path) ==
    \/ OpenFails \/ Open(path) \/ read_elf_ident \/ read_type_and_machine \/ read_ehdr
    \/ SeekTable \/ HeaderUnreadable \/ SkipEntry
    \/ copy_segment \/ CopyToNull \/ CopyOutside
    \/ SegmentsCopied \/ elf_close

-----------------------------------------------------------------------------
Header(k) == file.phdr[file.e_phoff + k * file.e_phentsize]

Loadable == {k \in 0 .. file.e_phnum - 1 : Header(k).p_type = PT_LOAD}

(* The addresses segment k is linked to. *)
Extent(k) ==
    LET h == Header(k)
        size == IF h.p_filesz < h.p_memsz THEN h.p_memsz ELSE h.p_filesz
    IN  h.p_vaddr .. h.p_vaddr + size - 1

(* The byte of segment k at the address v: zero where the file has none. *)
SegmentByte(k, v) ==
    LET h == Header(k)
    IN  IF v < h.p_vaddr + h.p_filesz THEN file.byte[h.p_offset + (v - h.p_vaddr)] ELSE 0

(* Of the first n program headers, the last one that covers v is k. *)
LastCovering(n, v, k) ==
    /\ k \in Loadable /\ k < n /\ v \in Extent(k)
    /\ \A j \in Loadable : k < j /\ j < n => v \notin Extent(j)

(* The byte that the first n program headers were linked to have at v. *)
LinkedByte(n, v, byte) ==
    IF \E k \in Loadable : k < n /\ v \in Extent(k)
    THEN \E k \in Loadable : LastCovering(n, v, k) /\ byte = SegmentByte(k, v)
    ELSE byte = 0

(***************************************************************************)
(* When the program starts, everything it was linked with is where its     *)
(* loads and fetches will look for it: every address of kseg0 reads as the *)
(* byte of the last segment that covers it, zero where the file has none,  *)
(* also where segments overlap, and the PC is the entry point.  No program *)
(* starts with a segment missing, and copy_segment, which checks no bound, *)
(* has written nothing outside the buffer: a file linked to kseg0 alone    *)
(* cannot make it do so.                                                   *)
(***************************************************************************)
LoadedAsLinked ==
    at = "run" /\ (\A k \in Loadable : Extent(k) \subseteq M!Kseg0) =>
        /\ entry = file.e_entry
        /\ DOMAIN pmem \subseteq 0 .. mem_size - 1
        /\ \A v \in M!Kseg0 :
                LinkedByte(file.e_phnum, v, M!mmu_read(pmem, v, 0, M!MEM_OP_BYTE).data)

LoaderTypeOK ==
    /\ mem_size \in Nat
    /\ pos \in Nat /\ i \in Nat
    /\ retval \in {0, ELF_ERROR_IO_ERROR, ELF_ERROR_NOT_ELF, ELF_ERROR_NOT_SUPPORTED}
    /\ entry \in Word
    /\ pmem \in [DOMAIN pmem -> Byte] /\ DOMAIN pmem \subseteq Int

=============================================================================
