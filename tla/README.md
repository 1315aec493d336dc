# Verification of the RISC-V processor on PYNQ-Z2

TLA+ models of the processor, its I/O circuits, the programs that run on it and
the multi-core programs that come with its tests, the TLC runs that check them on
small instances, and proofs checked by TLAPS for every instance. Paths are relative to the repository root; `core/` stands for
`hardware/src/riscv_core/`, `io/` for `hardware/src/io_circuits/` and `mt/` for
`software/riscv-isa-tests/riscv-tests/mt/`.

- [1. The system](#1-the-system)
- [2. Modules and their correspondence to the code](#2-modules-and-their-correspondence-to-the-code)
- [3. Runs and bounds](#3-runs-and-bounds)
- [4. Fairness](#4-fairness)
- [5. Proofs](#5-proofs)
- [6. Where the code and what is said of it disagree](#6-where-the-code-and-what-is-said-of-it-disagree)
- [7. What is not modelled](#7-what-is-not-modelled)
- [8. Plan](#8-plan)

## 1. The system

`hardware/src/z1top.v` is a system on chip: a rv32i processor with three
memories and a UART, debounced buttons, and a FIFO. Programs in `software/`
run on it; the first is the BIOS, which loads the others over the serial line.

| component | state | operations | talks to | what makes it correct |
|---|---|---|---|---|
| CPU pipeline (`core/cpu.v` and what it instantiates) | pc, pc_i, four pipeline registers, register file, one CSR | rising edge (memories, registers, pc), falling edge (pc_i, pipeline registers) | memories, io_control | it runs programs as the instruction set says, whatever is in flight; it never blocks |
| memories, memory map (`core/mem_control.v`, `hardware/src/memories/`) | BIOS (read only), dmem, imem, their output registers | fetch, load, store, by the top four bits of an address | CPU | region, lane and write gating (imem is written only by code that runs in the BIOS) |
| ALU, comparator, byte lanes (`core/alu.v`, `branch.v`, `mem_control.v`) | none | combinational | CPU | each result is what the instruction means |
| io_control, counters | two counters | decode a register's address, side effects included | CPU, UART | a side effect happens when a program asks for it |
| UART (`io/uart*.v`) | shift registers, bit and clock counters, has_byte, two flops | start, symbol edge, sample, read | io_control, the line | characters arrive once, unchanged, in order |
| buttons (`io/button_parser.v`, `synchronizer.v`, `debouncer.v`, `edge_detector.v`) | two flops, a sampling counter, a saturating counter for each button, two more flops | one clock cycle | z1top (reset) | one pulse for a press, none for a bounce |
| FIFO (`io/fifo.v`) | ring buffer, two pointers with wrap bits | write, read, both, reset | none in z1top | a bounded queue |
| z1top | reset, IOB flops | reset button | all | the reset puts the processor at RESET_PC |
| BIOS (`software/bios/bios.c`, `software/151_library`) | token buffer, command in progress | read a token, a word; store, load, jump | UART, memory, loader | commands, data and line stay in step |
| serial loader (`hardware/scripts/hex_to_serial`) | position in the file | send a character, sleep | UART | no character is lost though nobody waits for the echo |
| echo program (`software/echo/echo.c`) | a character | poll, read, poll, write | UART | every character comes back |
| piano program (`software/piano/piano.c`) | voices with start times, the synthesizer's registers | set a parameter, start and stop a note, reset; a handshake after each | UART, cycle counter, synthesizer | what sounds is what it believes to play; the oldest note makes way |
| multi-core programs (`mt/`, `benchmarks/mt-matmul`, `benchmarks/mt-vvadd`) | matrices and vectors in shared memory, two barriers | each core's share of a kernel, barrier, verification | each other | every cell is computed once, no race, all cores end |
| synthesizer, mmult, other tests, scripts | see section 7 | | | |

The hard behaviours: an instruction's operand may be in any of three pipeline
stages; wrong-path instructions are removed without valid bits; two clock edges
and a reset that meets either; a program stores the instructions it is about to
run; three state machines (program, receiver, transmitter) that are kept in
step by polling alone, on a one-character buffer that is also the shift
register; clocks that differ; bounces of contacts; pointers and clocks that wrap;
a handshake between two clocks; cores that meet at one barrier over and over, and
44 ways of dealing out one multiplication to them.
`PROJECT.json` lists these as hazards, each at its line, with the properties
that watch it.

## 2. Modules and their correspondence to the code

Definitions have the names of the wires and registers they stand for where
TLA+ allows it. A definition `Bug_X` is a wrong version of the `X` that follows
it; each property was seen to fail with one of them in the place of the right
one. `PROJECT.json` maps each definition to the lines it translates.

**Processor.**

- `RvMachine`: what the code and the instruction set agree on: words,
  registers, memory slots, decoded instructions and the memory map. Widths and
  sizes are parameters: `Word`, `Reg`, `Slot`, and the operators on words
  (`AluFn`, `Taken`, `LoadLane`, ...) are CONSTANTs constrained by named
  assumptions, so that a theorem holds for 32 bits and a run can use 8.
- `Cpu`: the five stages (the README of the repository counts three). A pipeline
  register is a record; `PosEdge` and `NegEdge` are the two clock edges and the
  only actions. A wire is an operator evaluated before the edge. An instruction
  word is opaque; `Fields` gives its decoded fields, so `imm_gen.v` and the bit
  positions in `decoder.v` are abstracted, but the register fields of formats
  without rd or rs are whatever the immediate's bits spell, as in the code.
  `v` (the stage holds an instruction of the program) and `pc` in the memory
  stage, of which the hardware keeps only bit 30, are history.
  `rst` changes with one of the edges, `RstEdge`: the rising one on the board,
  the falling one in the testbenches.
- `Rv32i`: the instruction set: one instruction a step, a reset at any step.
- `CpuIsa`: the refinement mapping. An instruction takes effect on the rising
  edge on which it is in the memory stage; `ArchRegs` adds the result that is on
  its way to the register file, `ArchPc` is the oldest instruction that has not
  taken effect. `IsaSpec` is `Rv32i!Spec` under this mapping; `NoneMasked` and `Supported` are
  the conditions under which it is proved for every program. The properties that
  explain it are here too.
- `Datapath`, `MCDatapath`: ALU, comparator and byte lanes, against their meaning.
- `RvScaled`: the scaled machine of the runs: 8-bit words of four 2-bit bytes,
  four registers, eight words of memory, regions chosen by three address bits
  with the numbers of the real memory map, and an instruction word that is an
  index into a table.

**I/O.**

- `UartFrame`, `UartTransmitter`, `UartReceiver`: the two circuits clock by
  clock, for any bit time and any number of data bits.
- `UartLink`: transmitter, receiver, the flops of `uart.v`, and the programs at the
  ends: a sender that pauses, a reader that polls. The two ends may have
  different bit times (`CLOCK_FREQ / BAUD_RATE` is rounded down).
- `SerialChannel`: the abstract link, a queue.
- `IoControl`: the register decoder, the counters and the UART.
- `Soc`: the pipeline (`INSTANCE Cpu` with `io_dout` from the decoder), io_control,
  the IOB flops and a host at the other end of the line, which is external and
  built from the same UART modules. Every rising edge is one step of all parts.
- `Fifo` and `BoundedQueue`: the ring buffer and what it promises.
- `ButtonParser` and `ButtonPress`: the three circuits in a row for a vector of
  buttons, and what they promise. `now` and `held` are history.

**Software.**

- `Bios`: the monitor, the line and the loader. Time is counted in characters on
  the line. `at` says which command and which argument is being read; `pending`
  is what the monitor has still to print, during which it does not poll; `rx` is
  the receiver's one character, which is gone when the next frame starts.
  `Loader` is `hex_to_serial`. A number is written in base two and a word is four
  bytes of one bit, eight characters having become four; the name of a command is
  one character that is no digit (`lbu` and the like contain hexadecimal digits,
  which matters only where a name stands in the place of a number). The program
  that `jal` calls does not return.
- `Piano`: `at` is the place in the program, the handshake included; the synthesizer
  is external, two actions that answer a request and take the answer back.
  A command is one step up to its handshake, since nothing else acts on the
  registers meanwhile; the handshake is four. `cycles` is the cycle counter when a
  note was last started, any number of cycles from one note to the next.
  `order` and `wrapped` are history.
- `Notes`: a keyboard that plays the last VOICES notes.
- `echo.c` is in `MCSoc`, assembled by hand: x1 holds the UART's address and x4 the
  constant 2; `bltu` replaces the `andi` with 2 that the scaled ALU lacks.

**Multi-core programs.**

- `SenseBarrier`: `barrier()` of `benchmarks/common/util.h`, for any number of cores;
  `CoreBarrier` is what it promises.
- `MtKernels`: all kernels of `mt/Makefile`, 44 multiplications and five additions.
  A kernel is the program a core runs *for one cell of the result*: the reads and
  writes of that cell, the filling and use of shared copies of B, the barriers,
  in the order of the code's loops. A sum is the set of its products. A loop
  over cells becomes the question whether it reaches the watched one, which is
  where an index formula can be wrong.
- `MtBenchmark`: the drivers, `verify`, and the cores' interleaving: the read and the
  write of a `+=` are two steps. `barrier` is a static function of a header, so that
  kernel and driver, two files, have a barrier each.
- `MtOutline`: what it is for a program to be right whatever the speed of its cores, step by
  step and without an interleaving. An outline says for each core and each turn, from one
  barrier to the next, which places (the cell, entries of the copy) it relies on,
  and what it sees there before each step: what its own steps make of it, and at a barrier what
  some core has left. `MCMt` computes the outline of each job by running each turn of each
  core by itself.

## 3. Runs and bounds

| run | shows | size |
|---|---|---|
| `cpu_isa` | `TypeOK`, `IsaSpec`: every sequence of three or four instructions from tables of them (registers, loads and stores; control transfer; programs that store into the instruction memory and run it; loads of unknown I/O values), the last two with a reset at any cycle, runs as the instruction set says; `ForwardingUnlessMasked`, `JumpShadow`, `BubblesInert` say why; `Progress` that it never blocks | 1.04 M states |
| `datapath` | `AluMeaning`, `BranchMeaning`, `LaneMeaning` (misaligned accesses included: they keep to the bytes of their word) for 27 words of 8 bits | 43 k |
| `uart_link` | `ChannelSpec`, `Delivered`: a lossless channel, the two clocks differing by one in nine, `Timing` met with equality | 66 k |
| `soc_echo` | the echo program on the pipeline: `EchoSpec` (board and line are a channel from the host to itself), `Echoed`, `PolledFirst` | 0.36 M |
| `fifo` | `QueueSpec` for three places (not a power of two) | 1.1 k |
| `button` | `PressSpec` for two buttons | 25 k |
| `bios_load` | `Patient` (the host stays ahead of what the monitor prints), `NothingLost`, `Executed`: two lines typed (stores, loads, corrections, a token too long, an unknown or an unfinished one), the loader with one or two words, a jump | 92 k |
| `mt` | 48 kernels: `Verified` (every watched cell has each of its products once), `RaceFree`, `SharesApart` (of two conflicting steps of different cores, one is before a barrier that the other is after), `Outlined` (every program has an outline), `Terminates`, and both barriers hold what `CoreBarrier` promises | 62 k |
| `piano` | `SoundsAsPlayed`, `NotesSpec` (the last VOICES notes play), `StrayOnlyAtWrap`, `Ready` | 0.13 M |
| `cpu_mask`, `cpu_reset`, `soc_access` | violations, see section 6 | |

`uart_link`, `fifo`, `button`, `bios_load`, `mt` and `piano` also check the type invariant of their module.

Why the bounds are enough:

- *Four instructions.* An operand depends on the three instructions ahead of it;
  a hazard involves at most one instruction in each of the stages decode, execute,
  memory and write-back. After the free slots the program is `j done`, as in
  `asm/start.s`. The control programs loop, since they jump backwards as well.
- *8-bit words.* The pipeline moves words and never looks inside them; what it
  computes from words is in `Datapath`, whose interesting bits (sign, carry, shift
  beyond the width, lanes) exist at 8 bits.
- *UART.* Two data bits give every neighbourhood of a bit (start, equal, unequal,
  stop). The constants are the tightest that work, so that the run sees the
  boundary: for bit times 8 and 9 the sender must pause 8 cycles (7 fail) and the
  reader may take 5 cycles from a good poll to the read (6 fail). In general the pause
  must cover the polling interval plus the bits of a frame times the difference,
  and the delay must stay below the middle of the first bit of the next frame.
  For equal bit times of 4 the values are 4 and 3. In `soc_echo` a pause of 6 works
  and 5 fails: an echo then still occupies the transmitter.
- *Fifo, buttons.* Three places wrap at an index that is no power of two; a press of
  7 to 9 cycles with a sampling period of 3 begins at each phase of the period.
  Both have a proof without bounds.
- *Bios.* The pauses are again the shortest that work, 6 and 2 characters (5 or 1
  lose one) where the monitor prints at most 11 characters at a time, the
  complaint about a token that filled the buffer. On the board the loader's 10 ms
  are 115 characters of the line and 2 ms are 23, against a complaint of about 31
  characters plus the token: a token of more than some 80 characters, of which
  the buffer holds 127, would exceed the pause.
- *Multi-core programs.* The Makefile runs them on two cores (`spike -p2`). Sizes are
  the real ones: 1000 elements (vvadd0 and vvadd4, which need not divide them
  evenly, also 1001), matrices of 16 by 16 (the repository's
  `dataset.h`), and of 32 by 32 for the kernels that have 32 written into
  them. Of the cells of a matrix the run watches six, in the first, last and
  middle rows and columns, where shares, blocks and halves begin and end;
  of the vectors five to seven elements likewise. All barriers of a kernel are kept, so that
  many uses of a barrier follow one another.
- *Piano.* Two voices (the source has one) so that there is an oldest and another;
  three frequency words so that notes compete; a counter that wraps after four
  cycles, so that every order of start times and every wrap happens in a few
  notes. The theorems hold for any of these.
- `COUNT = 1` in the Soc runs stops the two counters, which the echo program does
  not read.

## 4. Fairness

Hardware modules assume that the clock does not stop: weak fairness of the
edges (of `Next` where a step is one cycle). Nothing else is assumed: no
instruction, poll or character is fair by itself. In `UartLink` the reader polls at
least every `POLL` cycles and reads within `LATENCY` by its guards, not by
fairness. `Bios` assumes that monitor, line and host go on. `MtBenchmark`: each core by
itself is a processor that does not stop (weak fairness of its `Core` action), with
no assumption on their relative speeds. `Piano`: the processor runs its handshake
and the synthesizer has a clock; commands are not fair, nobody need play.
Only `CHECK_DEADLOCK FALSE` runs may stop: `datapath` (one step per input),
`bios_load` (the session ends), `mt` (the programs end), `piano` (the place where the
code writes before its arrays; what follows is undefined and not modelled). `Progress` is conditional on the reset being
released for good.

## 5. Proofs

All for every value of the constants, from the named assumptions only.

**`CpuProofs`** (assumptions of `RvMachine` and `Cpu`: operators stay in `Word`,
indices in range, NOP writes no register).

- `TypeCorrect`: `Spec => []TypeOK`, one lemma for each clock edge.
- `Invariance`: `Spec => []IInv`. `JumpShadow` and `BubblesInert` are not inductive:
  a bubble in decode becomes one in execute, and is inert only because its word is
  the NOP; the shadow of a jump is empty only because a link result in execute
  belongs to a jump, which flushes. `IInv` adds these two facts.
- `JumpShadowCorrect`, `BubblesInertCorrect` follow.
- `ForwardingTheorem`: `Spec => []ForwardingUnlessMasked`. By cases on which stage
  wrote the register last; the link case is excluded by `JumpShadow`, the
  load in execute by the stall.

With `RegionAssumption` as well (the three words behind the last of the BIOS are not in imem's
fetch region):

- `PipelineImplementsIsa`: with reset changing on the falling edge,
  `Spec /\ []NoneMasked /\ []Supported => IsaSpec`. `NoneMasked` says that no immediate
  masks a forward; `Supported` that a CSR or unknown instruction (fence among them) has no
  destination, that an unknown one is none of those `decoder.v:35` takes for a jump, and that
  no load or store has the width that `mem_control` takes for the CSR. Without either it is false (`cpu_mask`, CSRRW below), and so it is with reset on the rising edge
  (`cpu_reset`). The boards of `cpu_isa` meet all three.
- Its invariant is `PipeInv`: `IInv`, and that the stages hold consecutive
  instructions (`Chained`), that pc and pc_i agree (`PcSettled`), that what is in
  flight is what the memories hold (`Current`), that an operand in execute is the value its register
  has after the memory stage (`Operands`), and that the memory stage, before its edge, holds
  the next instruction of the instruction set (`Matches`).
- Why it holds: `Current` survives stores into imem only because a store takes
  effect there when it was fetched from the BIOS, and then so were the instructions
  behind it (`StoreBehind`); `Operands` is `ForwardingTheorem` carried over one edge; and
  a branch is taken on the edge on which the memory stage takes effect (`TakesEffect`,
  one step for each opcode).

**`FifoProofs`**: `FifoTypeCorrect` and `FifoIsQueue`, `Spec => QueueSpec`, for every depth
above one. The queue is the ring read from the read pointer, as many places as
the write pointer is ahead, counting wrap bits; the lemmas say what writing and
reading one place does to that sequence.

**`UartProofs`**: `LinkTypeCorrect` and `LinkIsChannel`: if `Timing`, then `Spec => []TypeOK` and
`Spec => ChannelSpec`, for every character length and every pair of bit times. The four
conditions of `Timing` (in `UartLink`): the middle of each bit that the receiver counts lies
in that bit of the sender, whether the receiver's clock is early or late; a character
is there for a whole polling period before the next one starts the receiver; and it
is read before the next start bit is sampled. With one cycle more of `POLL` or of
`LATENCY` than in `uart_link` TLC finds `ChannelSpec` violated; the first condition asks a
little more than it must.

- The invariant says where the characters are: none, one on the line (`Flying`), one
  in the receiver (`Arrived`), or two, when the next frame has begun before the
  receiver is done (`FlyingTwo`) or before the program has read (`ArrivedTwo`). There are
  never three.
- The clocks of both ends are tied together by `TxTime` and `RxTime`, the cycles since
  the frame was begun and since the receiver saw it: three apart, for two flops and
  an edge.
- `SampleOnTime` derives from that, with products of bit numbers and bit times, that
  each sample is the bit it is taken for; `FromArrivedTwo` that a poll and a read come in
  time.

**`ButtonProofs`**: `ButtonTypeCorrect`, `ButtonInvariance` and `OnePulseForAPress`,
`Spec => PressSpec`. `Counted` bounds the time a button has been held from both sides by
the samples counted; `Delayed` ties the edge detector's flops to the debouncer.
The bounds follow: a press below `(PULSE_CNT_MAX - 1) * SAMPLE_CNT_MAX + 1` cycles
gives no pulse, one of `PULSE_CNT_MAX * SAMPLE_CNT_MAX` has given its own.

**`BarrierProofs`**: `BarrierSteps` and `BarrierCorrect`, the barrier implements `CoreBarrier` for
every number of cores. The invariant (`CountMeaning`) says that a core outside has the
shared sense, that the last core finds all others spinning, and that the count
is the number of waiting cores until the last one clears it. It is what a second
use needs: a core that has been let go but has not left yet must not be counted.
`KeepPace` says what a user of the barrier gets from it: counting, for each core, the
passes it has made and the one it is free to end, all cores are at the same number.

**`MtProofs`**, for every number of cores and any kernels:

- `KernelBarrier` and `DriverBarrier` carry the barrier over to `MtBenchmark`, twice: every
  step of the program is a step of the barrier or leaves its variables alone.
- `MtTypeCorrect`: `Spec => []TypeOK`, if each core of each job has a sequence of steps to
  run (`TypedJobs = Jobs`, which `TypeOK` of the run `mt` says of every kernel).
- `RaceFreeCorrect`: `Spec => []RaceFree`, if the programs of the jobs that are not
  `Racing` are in `SeparatedJobs`. That is a fact of the programs alone: it counts the
  barriers ahead of each step. `SharesApart` evaluates it for the 48 kernels, so that the theorem
  covers every interleaving of them, and any other kernel for which the count
  comes out. The invariant has, besides the barriers', that a core in a barrier is at
  a step that says so (`AtStep`), and `Even`: of each kind of barrier, the cores
  have as many behind them, plus one if they are free to leave the one they are in.
  Two cores at accesses are in no barrier, so they have the same number of each behind
  them, and steps with the same numbers do not conflict.
- `OutlinedCorrect`: `Spec => [](Verified /\ RaceFree)`, if the jobs that are not `Racing` have
  an outline (`MtOutline`). `Outlined` finds one for the 48 kernels, a computation without
  interleavings, and the theorem carries it to all of them. What a core uses or changes in
  a turn it must rely on, and no other core may change that in the same turn; hence there are
  no races either. The invariant `AsOutlined`
  compares the cores with the outline at `Before`, the step a core is at or, if it is free
  to leave a barrier, the one after: there all cores are in the same turn at
  all times, although some have left the barrier and begun to work. `Together` (in
  `BarrierProofs`) is the reason: a barrier's step lets no core go, or all.
- `SizesCorrect`: `Spec => [](TypeOK /\ Verified /\ RaceFree)` for jobs of the multiplications
  ai, ay, az, bb, bm, ci, cy, do and the additions vvadd0 to vvadd4, of every size
  of the data and on every number of cores that the kernel is written for (`Suits`), and any
  cell. Nothing is assumed of the programs: their outlines are constructed
  (`GivenSound` for kernels in which one core does all of a cell between two
  barriers, `TurnsSound` for the five turns of `mt-vvadd.c`), which is arithmetic of the
  shares: exactly one core's loops come to the cell, once (`AISound` and the like, `OneAdds`),
  and its loop over k adds each product once. `Suits` is where the C code needs it: ai and ci
  that the cores divide the rows and that four divides them; bb that the cores divide them into
  multiples of four; bm the latter of a core's share; do that the cores divide 32; ay,
  az and cy that there are 32; vvadd0 that what equal blocks leave over is less than a
  block (`mt/vvadd0.c:7` computes it as `n % (n / ncores)`); vvadd1 and vvadd2 that their turns of
  eight or two elements for each core end with the vectors; vvadd3 that the cores
  divide them; vvadd4 nothing.

**`BiosProofs`**, for every buffer length, length of what is printed, pause and input:

- `BiosTypeCorrect`: `Spec => []TypeOK`. No input overflows the token buffer of `main`, or
  takes an address, a count or a byte out of range. It needs that the receiver is empty
  while a frame is on the line (`OneAtATime`). `Ascii` is a recursive function here, of at
  most five characters, and the proof unrolls it.
- `PatientHostLosesNothing`: `Spec /\ []Patient => NothingLost`. `Patient` speaks of the
  moment at which a character is sent: the pause after it is at least what the
  monitor has still to print then. It says nothing of the receiver; that the monitor
  gets to it in time is the invariant `Covered`. `Patient` itself is checked for the
  loader by `bios_load`, since it depends on the commands that are sent.
- `SlowHostLosesNothing`: `Spec => []Patient /\ NothingLost` where every pause `Covers` the most
  that is printed for one character, which is the complaint about a full buffer or the
  answer to a load, with the prompt; for whatever is sent short of a jump, after which
  nobody reads. The loader's pauses between the digits of a word are shorter, because
  it knows that the monitor only echoes them: that is what the run is for.

**`PianoProofs`**: `TypeCorrect`, `SoundCorrect`, `StrayCorrect`, `PlaysTheLastNotes`, for any number of voices,
notes and counter width. `IInv` ties each place of the program to the state of
the handshake (req and ack at the same place can only have certain values) and
to what the registers and what has been taken over agree on. `StrayCorrect` needs that a
non-empty set of start times has a least one, from the well-foundedness of the
natural numbers.
`PlaysTheLastNotes`, `Spec => NotesSpec`: the piano implements the keyboard of `Notes`, in which the
note that makes way for another is the oldest. The queue of `Notes` is the history
variable `order`, so the proof is about `piano.c` choosing the front of it. `Ordered` says
that `order` lists the voices that play, each once and each with its own note;
`Chronological` that of two whose notes were started since the counter wrapped, the
earlier has the smaller start time, and that the others come before them. Then the
search of `piano.c` for the least start time finds the front, unless the wrap
left stale ones, for which `Notes` allows any.

Only model-checked:

- All liveness, which is out of the prover's reach, as are ENABLED, induction over data and
  RECURSIVE operators: `Progress`, `Delivered`, `Echoed`, `Executed`, `Terminates`, `Ready`.
- `SharesApart` and `Outlined`, which are about the 48 programs and no execution:
  `RaceFreeCorrect` and `OutlinedCorrect` assume them. For 12 of them `SizesCorrect` does without;
  the other kernels have their loops over k in the order of their columns, blocks or copies,
  so that the sum of a cell grows over many turns or steps: an outline of any size would need
  induction over the loops. They are checked at the sizes of the run.
- `EchoSpec` and `PolledFirst`: statements about one program, assembled by hand, and what
  is in each stage of the pipeline while it polls.
- `AluMeaning`, `BranchMeaning`, `LaneMeaning`: sums of bits, which use the module
  `Bitwise`, at 8 bits.

## 6. Where the code and what is said of it disagree

- **Masked forwarding** (`cpu_mask`, `core/hazard_control.v:30`). A STORE or BRANCH has
  immediate bits where other instructions have rd. If they spell the register
  that the instruction ahead of it writes, the next instruction's operand is
  stale. `ForwardingUnlessMasked` shows (and the theorem proves) that it is the
  only such case.
- **First instruction twice** (`cpu_reset`, `core/cpu.v:123`). Released after a rising
  edge, as on the board, the reset lets pc_i load the reset address twice.
- **Arithmetic reaches I/O registers** (`soc_access`, `core/io_control.v:42`). The
  decoder is enabled by the region of any ALU result, so an addition that gives
  4 takes a received character.

Known, without a run of their own:

- **CSRRW** (`core/csr_reg.v:9`). With a destination register it returns the new value.
  `IsaBoards` has CSR instructions with rd = x0 only; with instruction 23 of `MCCpu` in the place of
  18 TLC finds `IsaSpec` violated at once.
- **Racing kernels** (`mt/cf_matmul.c:47`, `mt/cm_matmul.c`). Both cores add to every cell of C,
  without a lock. Without the exception for `Racing` TLC finds `Verified` violated: core 0 reads
  a cell, core 1 reads it, both write, and one addition is lost. Whether a
  test run shows it depends on when the two cores get there.
- **vvadd1** (`mt/vvadd1.c:8`). A turn does eight elements, two cores take turns, and 1000 is not a
  multiple of 16: core 1 also adds the elements 1000 to 1007, behind the end of the
  vectors. It is modelled (`VV1`) but not among the jobs; `SizesCorrect` has it where
  8 * ncores divides the size.
- **vvadd0** (`mt/vvadd0.c:7`). The leftover is `n % (n / ncores)`, where `n % ncores` is meant: the two
  are the same while the latter is less than a block, as it is for 1000 elements on
  two cores. Of 5 elements on 4 cores the last is added by none. The proof of
  `SizesCorrect` needs the condition.
- **Sizes** (`mt/`). 27 kernels have 32 written into them where others use `lda`; with the
  repository's `dataset.h`, whose `DIM_SIZE` is 16, they would compute another matrix.
  They are checked at the size they were written for.
- **Piano** (`software/piano/piano.c:100`). The search for the oldest voice begins at
  0xFFFFFFFF with no voice, and takes only what is below: a voice started at that very count
  is never found, and if all were, the program writes before its arrays. After the
  counter wraps (2^32 cycles, 86 s at 50 MHz) the newest voice can be taken for the
  oldest. `STOP_PLAY` also writes 0xFFFFFFFF, but into a voice that is then free.
- **Piano's registers** (`software/151_library/memory_map.h:16`). The io_control of this repository
  has no registers of a synthesizer, and `cpu_to_synth_cdc.v` ties `cpu_ack` to 0: built as
  it is, the program would read its answers from the instruction counter, which io_control has
  at the same low byte. `Piano` models it
  with the synthesizer that it expects.
- The instruction counter counts the NOPs that a flush leaves
  behind (`core/decoder.v:101`).
- The newline by which the loader wants to clear a begun token completes it, so that
  after a begun `sw ` it is taken for the value and the loader's `file` for the
  address (`hardware/scripts/hex_to_serial:32`).
- A sampling period that is a power of two is cut to 0 (`io/debouncer.v:21`, excluded
  by `ButtonAssumption`).

## 7. What is not modelled

- z1top beyond reset and flops: PLL (vendor primitive), LEDs.
- `imm_gen.v` and the bit positions of formats: abstracted by `Fields`.
- The synthesizer (`hardware/src/audio`): the NCO, sampler, scaler, DAC and clock crossing are
  stubs and commented out of z1top; only the handshake that `piano.c` expects is modelled.
- `software/mmult`: one sequential computation, no interaction.
- `software/uart_parse`, `software/user_io_test`: demonstrations; the second uses
  registers io_control does not have.
- Testbenches, C tests and host scripts but `hex_to_serial`: read for what they
  promise.
- The rest of the vendored `riscv-tests`: `debug/programs/tiny-malloc.c` (an allocator
  by a third party, for tests of a debugger), `env/encoding.h` (tables of CSR numbers and
  masks, no behaviour), `env/v/vm.c` (a supervisor for Sv39 paging and traps). The
  processor has no debug module, privilege levels, traps or address translation,
  and nothing in the repository runs them. The single-core benchmarks are
  sequential computations.
- Of `util.h`, the random numbers and the instruction lengths, which the modelled
  programs do not use.
- In `151_library`, the conversions to strings: only their length is modelled.

## 8. Plan

Written, in this order: processor and instruction set; datapath; UART and
channel; system on chip with the echo program; FIFO; buttons; monitor and loader;
barrier and multi-core programs; piano. Left:

1. Compose: `Bios` above `SerialChannel` in place of its own line, so that the pauses
   of the loader and those of `UartLink` are one argument; begun tokens in other
   places; the monitor's `jal` to a program that returns.
2. Prove: that `Soc` implements `Cpu`, so that `PipelineImplementsIsa` holds with the UART
   attached (`io_dout` is one of the words that `Cpu` leaves open).
3. Model: the synthesizer, when the repository has one.
