# A TLA+ model of the MIPS simulator

The repository is a simulator of a pipelined MIPS32 processor: it loads an ELF
program into a simulated memory and clocks a five-stage pipeline until the
program exits. This directory models it in TLA+, from the command line to the
last tick, checks the model with TLC on small instances and proves with TLAPS its
safety properties, and that the pipeline implements the instruction set, for every
program, file, command line, input, memory size and word width.

`PROJECT.json` maps every definition to the lines of `src/` it models, and
lists the runs, the mutants that show that each property can fail, the hazards
of the code, and the theorems.

## 1. The system and its parts

| Part | Source | State | Operations |
|---|---|---|---|
| Pipeline of a core | `sim.c`, `cpu.h` | registers and PC, CP0 registers, the pipeline registers IF/ID, ID/EX, EX/MEM, MEM/WB | `interpret_wb`, `interpret_mem`, `interpret_ex`, `interpret_id`, `interpret_if`, `forwarding_unit` |
| Instruction semantics | `sim.c`, `mips32.h`, `tools.c` | none | the control unit, the ALU, the memory cases, `check_soverflow` |
| Exceptions, CP0 | `exception.c`, `cp0.h`, `sim.c` | EPC, CAUSE, SR, BADVADDR, EBASE | `handle_exception`, `get_cause`, ERET, MFC0, MTC0 |
| MMU | `mem.c`, `mem.h` | the buffer `pmem`, the segment sizes | `translate_vaddr`, `translate_paddr`, `mmu_read`, `mmu_write` |
| I/O bus | `mem.c`, `io.c` | the device list, the next free register, the descriptor table | `mmu_add_device`, the device loops of `mmu_read` and `mmu_write` |
| Devices | `shutdown_dev.c`, `tty.c` | the shutdown flag, the TTY's shared memory | their constructors and I/O handlers |
| Simulation loop | `sim.c`, `cpu.c` | the cores, `g_finished`, `simulator->finished` | `simulate`, `hw_init`, `cpu_init`, `run`, `tick` over all cores |
| ELF loader | `elf.c` | the stream and its position, the loop index | `elf_dump`: `elf_open`, `copy_all_segments`, `elf_close` |
| Debugger | `debug.c` | `simulator->debug`, `simulator->finished`, the command buffer, what is left of standard input | `debug`: step, continue, quit, memory, and printing |
| Command line | `main.c` | the `simulator_t` structure, `optind` | `main`, `parse_size_t` |
| Disassembler, name tables | `disasm.c`, `mips32.c`, `cp0.c` | none | formatting |

They interact through calls of a single thread: `simulate` builds the hardware,
lets the loader fill the memory and calls `run`, which calls `tick` until
`g_finished` is set by an exit system call or `simulator->finished` by the
debugger; the shutdown device calls `exit`. A tick
runs the stages of a core in the order WB, MEM, EX, ID, IF, forwarding unit.
Each stage reads the pipeline register before it and overwrites the one after
it *in place*, so what a stage sees depends on which stages have already run in
the same tick. There is no lock, no thread and nothing persistent.

What is hard here, and what makes each part correct:

* **Data hazards.** Up to three older instructions are in flight when an
  instruction executes; its operands may come from the register file, EX/MEM
  or MEM/WB, and a load result is not there in time. Correct: the operands are
  always the newest ones (`OperandsFresh`).
* **Control hazards.** EX overwrites the PC behind IF's back and marks the
  instruction in IF/ID as a delay slot; branches may sit in delay slots or next
  to a stall. Correct: the program runs as one instruction at a time with one
  delay slot (`ImplementsISA`), and a stall always ends (`KeepsRetiring`).
* **Precise exceptions.** An exception is raised in EX or MEM and taken in WB,
  when younger instructions are already in the pipeline. Correct: the younger
  ones leave no trace, not even a store that is already in EX/MEM when WB takes the
  exception (`StoresArePrecise`, `ImplementsISA`). Where the program continues after
  the handler depends on EPC (`VictimInEpc`, which the code does not satisfy).
* **Memory.** Two translations, four segments that share a buffer, big-endian
  accesses of three sizes. Correct: no access leaves the buffer (`TypeOK`), a
  store changes what it should and nothing else (`StoresAreLocal`).
* **Numbers at their limits.** The overflow test of the ALU must be exact without
  overflowing itself (`OverflowsAreExact`); LWL, LWR and SWR merge bytes by shifts
  that depend on the address (`UnalignedMergesBytes`).
* **Several cores.** `tick` runs all stages of a core before the next core, on one
  memory; the pipelines trap, stall and end the program at different times.
  Correct: the cores are sequentially consistent (`ImplementsSharedISA`), and none
  starves (`CoresKeepRetiring`).
* **Loading.** The loader walks a table in a file while it copies other parts of
  the same stream, and trusts the sizes it finds. Correct: a program that starts
  finds everything it was linked with (`LoadedAsLinked`), on the machine that the
  command line asked for, options being repeated and mixed (`StartsAsAsked`).
* **The prompt.** Commands are read in pieces of two characters and by two
  functions that treat line ends differently. Correct: lines and commands stay in
  step (`StaysInStep`), the prompt ends (`PromptEnds`), and quit quits (`QuitEnds`).
* **A table at its limit.** Descriptors are filled in one after the other, in the
  byte order of the simulated machine, until the table is full. Correct: every
  descriptor is that of the device installed in its turn, and the others are empty
  (`DescriptorsDescribeDevices`).

## 2. The modules

| Module | Models |
|---|---|
| `Words` | C integer types of a parametric width, bit operations, `check_soverflow` |
| `Memory` | the MMU, as operators (EXTENDS `Words`) |
| `Instructions` | what one instruction does, as operators (EXTENDS `Memory`) |
| `Pipeline` | the state machine of `run` and `tick` for one core (EXTENDS `Instructions`) |
| `ISA` | the abstract specification: a sequential machine with a delay slot (EXTENDS `Instructions`) |
| `PipelineISA` | the refinement mapping from `Pipeline` to `ISA` |
| `Bus` | device installation and the program's accesses to the whole address space (INSTANCE `Memory`) |
| `SharedISA` | the abstract specification of several cores: sequential consistency (INSTANCE `ISA`) |
| `Cores` | `tick` for several cores on one memory, and its refinement mapping to `SharedISA` (EXTENDS `PipelineISA`) |
| `ElfLoader` | `elf_dump` (EXTENDS `Words`, INSTANCE `Memory`) |
| `CommandLine` | `main` up to the call of `simulate` |
| `Startup` | the composition: `main`, `hw_init`, `elf_dump`, up to `run` (EXTENDS `ElfLoader`, INSTANCE `CommandLine`) |
| `Debugger` | the loop of `run` in debugging mode and the prompt |
| `Assembly` | notation for the test programs of `MCPrograms` and `MCCores` |
| `MCPrograms`, `MCCores`, `MCBus`, `MCStartup`, `MCDebugger` | the instances that TLC checks |
| `WordProofs`, `MemoryProofs`, `PipelineProofs`, `BusProofs`, `StartupProofs`, `DebuggerProofs` | the theorems about the module of that name, and the lemmas they rest on |
| `RefinementProofs` | the proofs that stores are precise and that `Pipeline` implements `ISA` (EXTENDS `PipelineISA`, `PipelineProofs`) |

**Pipeline.** The variables are the fields of `core_t` (`regs`, `pc`, `cp0`,
`if_id`, `id_ex`, `ex_mem`, `mem_wb`), the memory `pmem`, the global
`g_finished`, and `at`, the stage that runs next. One iteration of the loop in
`run` is one `RunTick` step followed by one step for each stage. A stage with
several exits is one action per exit: `WbEret`, `WbExit`, `WbException` and
`WbCommit` for `interpret_wb`; `MemForward`, `MemLoad`, `MemStore`, `MemPass` for
`interpret_mem`; `IfStall`, `IfFetch`, `IfSegv` for `interpret_if`. The fields
that the code does *not* assign on a path (the result of an unknown function,
`next_pc` of a stalled IF/ID, the control signals of a faulted fetch) keep their
old value in the model too.

**Instructions.** The control unit is the table `Control`; the GET_ macros are
the fields of an instruction record. `Decode`, a constant, is the instruction
that each word encodes; the proofs hold for every such function, so the encoding
itself is not modelled. Instructions the ALU has no case for keep the old
`alu_res`, as in the code.

**Memory.** `pmem` is the partial function of the bytes written so far; every
other byte of the calloc'ed buffer reads as zero. `translate_paddr` yields an
offset in the buffer, or NULL for an address it rejects. The code dereferences
that NULL: the model then sets `segv` and the process ends. What the descriptor
area holds is a parameter of `Memory` (`DescriptorRead`): arbitrary in the proofs
about the pipeline, and given by the descriptor table in `Bus`. The sizes of the
segments, and their sums in `translate_paddr`, are `uint32_t`, as in the code: a memory
larger than the address space wraps around, and the proofs include it. `Kseg0` is the
addresses of kseg0 that the buffer holds.

**ISA.** `pc` and `npc` are the addresses of the next two instructions, `bd` says
whether the next one is a delay slot. A step executes one instruction completely,
with the operands in the registers, or traps. It takes the semantics of single
instructions from `Instructions` (also where these differ from a real MIPS32: SUB
adds, ADD does not trap), so the refinement is about the pipeline and not about the
instruction set. In the same way a trap leaves in EPC what `handle_exception` does,
the address after the victim; that this is not what the report says of EPC is the
run `epc`. JAL is as its comment in
`sim.c` has it: it stores the address after its delay slot.

**PipelineISA.** An instruction takes effect when it passes MEM: its store is
done then, and its register write, trap or ERET is pending in MEM/WB, where the
mapping applies it. The history variable `live` tells instructions from bubbles.
`pc`, `npc` and `bd` of the abstract machine are read off the instructions that
have not passed MEM: `ExPc`, `ExNpc` and `ExBd`, defined from IF/ID upwards. A
pipeline register that the next stage has already copied in this tick does not
count (`Copied`). `CleanProgram` is what a program must avoid, see section 4.

**Cores.** The variables of `Pipeline` are those of the core whose turn it is
(`i`, the loop index of `tick`); the others are in `parked`. `RunStage` is a stage of
that core, as in `Pipeline`; `NextCore` ends the body of the loop and exchanges the
core in the window. Only core 0 is set up (`cpu_init`, `hw_init`); the others start
as calloc leaves them, at virtual address 0. `exited` is a history variable: it
says which core executed the exit system call, since the others go on until the
tick is over. `View(c)` is the refinement mapping of `PipelineISA` for core `c`.

**ElfLoader.** A file is what the loader's reads find in it: header fields, the
program header entry at a file position, the byte at a position, its length, and
whether the stream can seek. One action per read or per exit: a read succeeds when
the file is long enough. `copy_segment` translates the address of the first byte
of a segment and copies all of it, without a check: the bytes of a segment that does
not fit are recorded outside the buffer, which is undefined behaviour and may go
unnoticed (`CopyOutside`); one that starts at an
unmapped address is copied to NULL (`CopyToNull`). Errors are returned up to
`simulate`, which ends the process.

**CommandLine.** An argument is an option with its argument, an operand, or `--`;
a number is what `strtoul` makes of it, and an operand is the path of a program.
`getopt_long` is external: it is given the two tables of `main` and a leading `+`, so it stops at the first operand.

**Startup** puts the three in sequence. The memory of `ElfLoader` gets its size in
`hw_init` from the command line. `cpu_init` takes the number of cores as an `int`
(`n_cores`): of a `size_t` the low word is left. No cores is an empty allocation that is
written to all the same, which may go unnoticed; a negative number cannot be
allocated.

**Debugger.** Standard input is a finite sequence of characters, on a file that can
seek or not. `fgets` and `scanf` are external and modelled by how many characters
they consume; a tick is a step that may end the program or the process. What is
printed is left out.

**Bus.** `InstallDevice` is `mmu_add_device`; `InstallNothing` is its early return
for a device that could not be allocated. `ReadRegister` and `WriteRegister` are
the device loops; they end before the last device of the list, as the condition
`dev->next != NULL` does, and dereference NULL when the list is empty. `Read`,
`Write` and `ReadOutOfBounds` are the rest of `mmu_read` and `mmu_write`. Past the
end of the descriptor table the C program has undefined behaviour: it may
continue or crash. `init_io` installs one shutdown device; the run `bus`
calls `mmu_add_device` more often.

The definitions commented "Mutant" are plausible bugs in the definition after
them; `PROJECT.json` pairs each with a property that it breaks.

## 3. The runs

Two reductions are common to the runs.

* *Word width.* A byte has 4 bits in the pipeline and cores runs and 3 in the bus
  and startup runs (`ByteBits`), so a word has 16 or 12. Sign bits, wrap-around,
  segment borders and big-endian byte order are defined from `ByteBits` and stay in
  place. The proofs are for every width from 3 on, with 8 the program's.
* *Programs.* A pipeline run starts from every memory image that consists of an
  exception handler, a body of instructions drawn freely from a list (`Body`, and
  `Mixes`, which says how many from which part), and an exit. A body of four fills
  every pipeline register at once, so every pair and triple of instructions that
  can be in flight together occurs, also after each other instruction. Longer
  programs repeat such windows; that nothing depends on more is what the theorems
  show.

| Run | Checks | Shows |
|---|---|---|
| `hazards` | `TypeOK`, `OperandsFresh`, `ZeroRegister`, `ImplementsISA`, `UnalignedMergesBytes` | all bodies of four from eight instructions that read and write two registers, `$zero` and one memory word; all bodies of three from sixteen that load and store it unaligned, at every offset |
| `control` | `OperandsFresh`, `ImplementsISA`, `KeepsRetiring` | branches, jumps, JAL, JR, backwards and forwards, in delay slots and behind loads |
| `exceptions` | `OperandsFresh`, `ImplementsISA`, `StoresArePrecise`, `OverflowsAreExact` | system calls, overflows and address errors in any order, in delay slots, next to stores and CP0 moves, with operands at both ends of the signed range; one handler counts and returns, another moves EPC on right before its ERET, as that of `tests/eret.S` does |
| `bus` | `TypeOK`, `DescriptorsDescribeDevices`, `StoresAreLocal` | every sequence of up to `MAX_IO_DEVICES + 4` shutdown and TTY devices, some of which fail to allocate; accesses to their registers and descriptors; overlapping stores of every size in kseg0 and across its end, interleaved with stores to the other segments |
| `startup` | `LoadedAsLinked`, `StartsAsAsked` | every command line of up to two of thirteen arguments and of three of eleven that repeat options and name programs, with files of every pair of fifteen program headers and ten broken files |
| `cores` | `ImplementsSharedISA`, `CoresKeepRetiring` | two cores that load and store the same two words, trap, and end the program, in every combination of 25 and 36 bodies; core 0 then exits or, after 36 of them, waits for ever |
| `debugger` | `StaysInStep`, `PromptEnds`, `QuitEnds` | every input of up to five of seven kinds of characters, from a file or a pipe |

Why these bounds are enough for what the last three ask:

* *startup.* Two arguments show every option after every other. Three show an option
  that is repeated, in its short and its long form, before the program that then
  starts; among the numbers are the largest `int`, the next one, the size of the `uint32_t`
  range and the next one. The program may be given by an option and as an operand.
  Two segments are enough for every way in which segments can overlap, and for the
  stream to be left in the wrong place between two entries. Their sizes (0 to 4
  bytes) cover memory larger and smaller than file contents, and both empty;
  offsets are in the file, across its end and beyond. The memory has 64 bytes, or
  32 when the command line says so, and one segment is larger than the buffer.
* *cores.* Two instructions of each core, framed by others, run against each other.
  They start in step, as core 1 jumps to its body while core 0 lets two
  instructions pass; a stall on one side then shifts them by a tick, a trap by
  several. Memory is larger than 4/3 of the kseg0 window because core 1 starts at address 0,
  which is not mapped otherwise (`AddressZeroUnmapped`).
* *debugger.* A read takes at most two characters, and `m` reads one number after
  its own line: five characters hold two commands and the line ends between them.
  The seven kinds are a command of each kind, a hexadecimal digit, an unknown
  character and the line end. Numbers are without a 0x prefix.

The other five runs expect a violation. Each shows a place where the code does
not do what a comment, the report or the help text says; `PROJECT.json` quotes
the line.

| Run | Property | What TLC finds |
|---|---|---|
| `clash` | `ForwardsToTheRightRegister` | a MTC0 whose CP0 number equals an operand's register number makes the forwarding unit give up on an older, legal result |
| `link` | `LinkIsNextAddress` | a write to `$ra` shortly before a JAL is forwarded into its link address |
| `epc` | `VictimInEpc` | an exception leaves the address after its victim in EPC; behind the delay slot of a taken branch this is not even where the program continues |
| `shutdown` | `ShutdownStops` | the only device is the last of the list, which the device loop skips |
| `step` | `PrintingDoesNotStep` | a command of two letters leaves the end of its line behind, which is then read as a step |

Excluded from the passing runs, because the code does not get them right:

* register numbers that clash with CP0 numbers (`Clashes`, in the hypothesis of
  `OperandsFresh`; the bodies of `exceptions` have none) and JAL right after a
  write to `$ra` (`LinkSafe`) - these are the runs `clash` and `link`. The code also
  adds the register that bits 16 to 20 of a JAL name, which are part of its target, to
  the link address; the targets of the bodies have zeros there;
* the tick in which the program exits: its system call is still in MEM/WB when MEM
  stores (`g_finished` in `StoresArePrecise`);
* programs that store into one of the next three instructions, which the
  pipeline has already fetched. No body does;
* SWL, in `UnalignedMergesBytes`;
* segments outside the allocated kseg0, in `LoadedAsLinked`: copying one writes outside
  the buffer;
* more cores than an `int` can count, in `StartsAsAsked`;
* commands of more than one letter and `m`, in `StaysInStep` - the run `step` - and
  the end of the input after a command that stays, in `PromptEnds`.

Seen while modelling, in the model, and not given a run of their own:

* *Instructions.* SUB adds (`sim.c:301`); ADD raises no overflow (`sim.c:293`), and
  branches and jumps go through the overflow check meant for loads and stores
  (`sim.c:271`); SWL shifts the merged word once more, as LWR does (`sim.c:595`), and
  the opcodes of SWL and SWR are exchanged (`mips32.h`).
* *Exceptions.* BadVAddr is saved for loads only, the condition names
  the same exception twice (`sim.c:667`); the exception code is stored in CAUSE
  without its shift (`exception.c`); the other stages of the tick that exits still
  run, so the instruction behind the exit system call may store (`sim.c:723`).
* *Memory.* An address outside the allocated memory kills the simulator
  (`mem.c:96`); kuseg addresses from 0x20000000 on share the bytes of kseg0
  (`mem.c:179`); every kseg1 address but the first becomes physical address 0, as
  virtual addresses are compared with physical segment starts (`mem.c:175`); word
  loads index the descriptor table with the byte offset and see reversed bytes
  (`mem.c:76`). A device answers at the address behind its registers too, and the loop
  does not stop there, so neighbouring devices share an address (`mem.c:57`, `mem.c:120`);
  `next_io_register` grows without a check (`mem.c:285`), and a device for which no
  descriptor is free is installed without one (`mem.c:301`). With the one device of
  `init_io` neither happens.
* *Starting.* `--debug` is mapped to the case of `--cores` and passes NULL to
  `strtoul` (`main.c:77`); `-l`, which the help text names, is not in the option string
  (`main.c:87`); `-c 0` writes to an empty allocation (`cpu.c:64`), and so does `-c
  4294967296`, of which an `int` has 0 left (`cpu.c:48`); with `-c 2` and the
  default memory core 1 dies at its first fetch (`sim.c:894`); a segment without
  bytes in the file is refused, as `fread` returns 0 (`elf.c:293`); a program that
  cannot be loaded ends the simulator with status 0 (`sim.c:1004`).
* *Debugger.* `c` shows the prompt once more (`debug.c:82`); quit still runs one tick;
  when the input ends after a command that stays, it is repeated for ever
  (`debug.c:26`); `m` throws away the rest of a file and, on a pipe, leaves a line end
  that steps (`debug.c:62`).

**Fairness.** `KeepsRetiring`, `CoresKeepRetiring`, `PromptEnds` and `QuitEnds` are
checked under weak fairness of the whole next-state relation. The simulator is one
thread that never waits, except for its input, which has an end; so it always takes
its next step, and nothing more is assumed. In particular a tick may go on for
ever without the program ending.

**Deadlock** is checked in every run. A finished process stutters in `Ended`.

## 4. The proofs

The assumptions are the named ASSUMEs, which TLC evaluates in every run:

* `ByteAssumption`: bytes of at least three bits, with `ByteSize` their number of
  values; the program's have eight;
* `MemszAssumption`: the memory size is a natural number. Nothing relates it to the
  address space;
* `DecodeAssumption`: `Decode` maps words to instructions and 0 to NOP;
* `EntryAssumption`, `ImagesAssumption`: the entry point is a word, and an image
  fits the buffer;
* `BusAssumption`: devices are shutdown and TTY devices, addresses and values words;
* `FilesAssumption`: what the loader reads from a file are words, bytes and counts;
  the file may otherwise be anything, truncated or contradictory;
* `ArgumentsAssumption`: a command line is a sequence, and a number on it is what
  `strtoul` returns or none;
* `InputsAssumption`: standard input is a finite sequence.

**Words and memory.**

* `WordProofs!SoverflowExact`: `check_soverflow` holds exactly when the sum is
  not an `int32_t`.
* `MemoryProofs!TranslationInBounds`: every address becomes NULL or an offset at
  which a whole word fits into the buffer. The bounds checks of
  `translate_paddr` look at the first byte of an access only; the proof shows
  that the quarter of the buffer set aside for kseg2 absorbs the rest.
* `MemoryProofs!AddressZeroUnmapped`: with a memory of at most 4/3 of an eighth of
  the address space, virtual address 0 becomes NULL: a core other than core 0
  cannot fetch its first instruction. The default memory is that small.
* `MemoryProofs!StoreThenLoad`: what `SET_BIG` stores, `GET_BIG` finds, as a whole and
  byte by byte in big-endian order, and no other byte of kseg0 changes. The proof
  takes a word apart into its bytes (`Weight`) and shows that different addresses of
  kseg0 are different offsets.

**Pipeline.**

* `PipelineProofs!TypeCorrect`: `Spec => []TypeOK`, one lemma per stage; the
  stores rest on `TranslationInBounds`.
* `PipelineProofs!HazardsResolved`: `Spec => []OperandsFresh`. The property speaks
  of the end of a tick only and is not inductive. The invariant `HazardInv`
  carries it through the stages: no exception before EX (`NoEarlyException`, since
  ID would otherwise keep stale control signals); ID/EX names the operands of the
  instruction in it (`DecodeConsistent`); after ID they are what the registers
  held (`OperandsAsRead`); and an instruction is a tick behind a load whose result
  it reads (`Interlock`, which moves along with the load from ID/EX to EX/MEM).
  The key lemma is `MuxSelectsLatest`: without a clash, the forwarding MUX selects
  what the register will hold when the older instructions are done.
* `PipelineProofs!ZeroStaysZero`: `Spec => []ZeroRegister`, from the same invariant.
* `PipelineProofs!ExactOverflows`: `Spec => OverflowsAreExact`. When
  EX is the next stage, a step is that of EX (`OnlyExExecutes`), and `SoverflowExact` says
  what its test means, for operands that `TypeOK` says are words.

* `RefinementProofs!PreciseStores`: `HSpec => StoresArePrecise`, for every program, with the
  history variable `live` of `PipelineISA`, which a flush empties. What is in a pipeline
  register but not live is a bubble, and `BubblesDoNotStore` says that it has no store
  signal: a flush that left EX/MEM alone would break it. `NothingPending` says that WB has
  dealt with the exception of the older instruction before MEM runs.

**The pipeline implements the instruction set.**
`RefinementProofs!PipelineImplementsISA`: `HSpec /\ CleanProgram => ImplementsISA`.

`CleanProgram` is a hypothesis about the program, stated on its execution. Each
part is needed, since the code does something else without it:

* `NoClash`: no CP0 register number in flight clashes with that of an operand (run `clash`);
* `LinkUndisturbed`: no JAL follows a write to a register that one of its
  fields names, and its field rt is 0 (run `link`);
* `SparesCode`: no store changes an instruction that is already in IF/ID or ID/EX, and
  the instruction behind the exit system call does not store.

The programs of the runs `hazards`, `control` and `exceptions` satisfy it: TLC finds
no violation when `CleanProgram` is added to the PROPERTIES of their cfgs. So the
theorem is about programs that branch, stall, trap, return and exit.

The invariant is `RefinementInv`, together with `TypeOK` and `HazardInv`. It follows an
instruction from IF to MEM and says at each point what is already known of it in
terms of the *abstract* machine:

* `CodeInFlight`: it is the instruction in memory at its address;
* `Fetched`: the PC is behind the instruction in IF/ID, and only a load has a bubble
  after it. So whatever redirects the PC in EX has its delay slot in IF/ID;
* `LatchesDecoded`: the control signals and fields are its own;
* `OperandsReady`: its operands are the newest of the instructions in flight after the
  forwarding unit, and the registers of the abstract machine once the older
  instruction has passed MEM;
* `ResultsReady`: after EX, its result and its exception are what `ISA` computes, and
  the instruction after its successor is the one that `ISA` says;
* `Bubbles`, `Raised`, `WrittenBack`: bubbles change nothing, which exceptions there are, and
  after WB nothing is pending.

Some parts are void for instructions that a pending trap, ERET or exit will throw
away (`Stopped`): their operands may well be wrong. One lemma per exit of a stage
shows that it preserves the invariant and leaves the abstract state alone, except
MEM with an instruction: `MemSteps` shows that this is a step of `ISA`, by its six
kinds. The lemmas `Same...` say that the operators of the instance of `ISA` are those
of the pipeline.

**Bus.** The invariant is `BusInv`, of two parts.

* `BusProofs!BusTypeCorrect`: `Spec => []TypeOK`.
* `BusProofs!DevicesAreDescribed`: `Spec => []DescriptorsDescribeDevices`. `Table` says
  what every entry of the descriptor table holds, the free ones included: the next
  device is put into the first entry that is free, which is the one of its number
  only because all entries before it are taken.
* `BusProofs!StoresLocal`: `Spec => StoresAreLocal`, from `TypeOK` and `StoreThenLoad`.

**Startup.** `TypeInv` has the types, that a stream is open while the loader reads, and that
nothing is in memory before it copies; both proofs start from it.

* `StartupProofs!StartedAsAsked`: `Spec => []StartsAsAsked`. The property speaks of the
  whole command line; `AskedInv` says the same of the arguments before `optind` while
  `main` reads them, and that what it made of them reaches `hw_init` and `run`. A number
  that an `int` can hold comes through `n_cores` unchanged (`CoresPassed`).
* `StartupProofs!ProgramLoadedAsLinked`: `Spec => []LoadedAsLinked`. `LinkInv` is a loop
  invariant: before entry `i` the stream is at that entry of the table, although
  `copy_segment` has moved it, and every byte is what the last of the loadable segments
  before `i` that covers it says. A segment that lies in kseg0 lies in the buffer
  (`SegmentInBuffer`), so that nothing is written outside it.

**Debugger.**

* `DebuggerProofs!PromptStaysInStep`: `Spec => StaysInStep`. `LineInv`: on input of
  one-letter lines the next character to be read is the first of a line, and the
  command kept in the buffer is never `m`, which would read by other rules.

Only model-checked:

* `KeepsRetiring`, `CoresKeepRetiring`, `PromptEnds`, `QuitEnds`: liveness under fairness
  is out of the prover's reach;
* `UnalignedMergesBytes`: shifts and masks are defined through sets of bits, and what a
  fold over a set yields takes an induction over data, which the provers cannot do;
* the refinement `ImplementsSharedISA`, see the plan.

## 5. Not modelled

* The TTY's shared memory, which the simulator creates and never uses, and the
  external TTY program in `tools/`, which is unfinished and does not compile.
* Formatting: the disassembler, the name tables, what the debugger prints, and the
  log of instructions.
* The bits of instruction words (see `Decode`), and the time an instruction takes.
* Devices and pipeline together: a pipeline run has the one device that `init_io`
  installs, which the device loop never reaches.

## 6. Plan

Done: the pipeline, the instruction semantics, the memory, the bus, several cores,
the loader, the command line and the debugger; the proofs of every invariant that
a run checks, of every action property but one, and of the refinement of the
instruction set. What is left:

1. *Several cores*: `ImplementsSharedISA` from the same invariants for the core in the
   window and the parked ones, for programs in which no core stores into code that
   another one has fetched.
