# A verification of the CO2070 processor

The repository holds the laboratories of a computer-architecture course in which an 8-bit
single-cycle processor grows, from an ALU (Lab02) to a CPU with jumps (Lab04), an extended
instruction set (Lab04.5), a data memory (Lab05), a data cache (Lab06) and an instruction cache
(Lab07), with an assembler and a script that make a memory image. `src/Lab07/final` contains the
last version of every part; this project models all of it, and the memories of Lab05 and Lab06.
Paths below are relative to `src/Lab07/final` unless they start with `src/`.

The instructions are simple; the memory hierarchy is not. Both caches are written as Verilog
processes with explicit delays, which stall the CPU through a `busywait` that rises and falls
inside one clock period, on top of memories that sleep through several clock edges. Whether a load
returns the right byte depends on which process wakes first. That is what is modelled, checked and
proved here.

## Inventory

| Part | State | Operations | Right when |
|---|---|---|---|
| data cache, `dcache.v` | valid, dirty, tag, data arrays; `busywait`; FSM | strobe and hit processes, lookup, write hit, miss FSM, output process, fill, reset | the CPU cannot tell it from a memory; no dirty line is lost; every miss stalls, every stall ends |
| data memory, `dmem_for_dcache.v` | bytes, `readdata`, `busywait`, latched access | access detection, a process that moves one byte each `#40` | it works on one block from start to end, and only when asked |
| instruction cache, `icache.v` | valid, tag, data arrays; `busywait`; FSM | stall control on `@(pc)`, lookup, miss FSM, output process, fill, reset | the CPU executes only words of the program; every miss is served |
| instruction memory, `imem_for_icache.v` | `readinst`, `busywait`, `readaccess` | access detection, a process that moves one byte each `#40` | as the data memory |
| program counter, `pc_unit.v` | `PC` | next, jump or branch, hold | it stands while either cache is busy |
| control unit, `control_unit.v` | none that lasts | decode on an event of the instruction word | the signals match the opcode |
| CPU datapath, `cpu.v`, muxes, `twos_complement.v` | none | wiring, next-PC choice, write back | an instruction has the effect the instruction set gives it |
| ALU, `alu.v` and units | none | forward, add, and, or, shift, multiply | each equals its arithmetic definition |
| register file, `reg_file.v` | eight bytes | read, write, reset | a stalled instruction writes nothing |
| test bench, `cpu_tb.v` | clock, reset | wires the parts; `CPU_BUSYWAIT` is the OR of the two busywaits | - |
| tool chain, `CO2070Assembler.c`, `generate_memory_image.sh` | files | translate lines, reorder bytes | the image is the program |
| `src/Lab06/dcache.v` | as `dcache.v`, `busywait` a level | lookup, write hit, miss FSM, outputs, fill | as `dcache.v`, for any program |
| `src/Lab05/data_memory.v` with `src/Lab05/pc_unit.v` | bytes, `busywait`, a process in its `#40` | access detection, one access | each access is served once, and the CPU waits for it |

How they interact: the PC selects a word from the instruction cache; the decoder raises READ or
WRITE #4 after the clock edge; the ALU result, which is the data address, follows #1 or #2 later;
the data cache has settled its lookup at #7.9 of the 8-unit period. The next edge completes the
instruction if neither cache is busy. A cache and its memory talk over strobes and a
`mem_busywait`; the memory notices *events* on a strobe, the cache samples `mem_busywait` on edges.

What is hard here: processes woken by the same event or in the same instant; values read before
they settle; a memory that samples its inputs many times during one access; strobes that pulse;
stalls that nobody ends; two caches that hold the same CPU, each at work while the other one does; a
build script that goes on after a failure. PROJECT.json lists each of these hazards with its line and, if there is
one, the property that covers it.

## Modules

    ALU ─┬─ (ISA: INSTANCE)
         ├─ Datapath ─┬─ MCDatapath             the CPU inside a period, refines ISA
         ├─ ALUProofs ┴─ DatapathProofs
         └─ Processor ── MCProcessor            cpu_tb.v, refines ISA; INSTANCEs of
                                                DCacheSystem and ICacheSystem
    Assembler ── ImageBuild ─┬─ MCImageBuild    from source file to instruction memory
                             └─ ImageProofs

    AddressSpace ─┬─ FlatMemory                 what a memory promises
                  ├─ DCache ─────┐
                  ├─ DataMemory ─┼─ DCacheSystem ── DCacheInvariant ─┬─ MCDCacheSystem
                  │   │          │                                   └─ DCacheProofs
                  │   │          └─ Lab06System ─┐                      │
                  │   └─ DataMemoryProofs ───────┴─ Lab06Proofs         (also on DataMemoryProofs)
                  ├─ Lab05System ── Lab05Proofs
                  ├─ ICache ────────────┐
                  └─ InstructionMemory ─┴─ ICacheSystem ── ICacheInvariant ─┬─ MCICacheSystem
                                                                            └─ ICacheProofs

### The CPU

* **ALU**: the units on bits, as their Verilog writes them (the shifter's concatenations, the eight
  partial products, inversion plus one), and what they promise in arithmetic.
* **ISA**: the abstract machine. One instruction of the program after the other, in arithmetic
  modulo `2^Width`, on registers and a memory of bytes. A stalled store may reach memory before
  its instruction completes (`EarlyStore`).
* **Datapath**: the CPU inside one period. A unit is a Verilog process or a delayed assignment: an
  event on its inputs wakes it (`notices`, `React`), and its output changes after its delay
  (`Fire`). A process misses what happens during its delay; a delayed assignment is replaced by a
  later one. `Commit` is the edge's effect #1 after it, on register file, PC and data memory. The
  caches are seen from the CPU: the right word comes at moment 2 or 3 if it is cached (`Fetch`),
  other words may be shown before it (`Show`), and `busy` holds the CPU at will.
* **Processor**: the test bench. The CPU, both caches and both memories on one clock, as instances of
  the modules below; `Edge` is the edge with the lookup of the instruction cache, `Pass` the word
  that the old block may show, `Decode` the word that the instruction cache then shows (the wrong
  one, while it fetches), `Operands` the address. Inside the CPU an instruction has the effect that
  Datapath shows it to have.

### The memories

* **AddressSpace**: an address is a record of tag, index and offset, so that the slices of
  `dcache.v:46-52` and `icache.v:27-29` are field selections and `{tag, index}` is a pair.
* **DataMemory**, **InstructionMemory**: the process on the strobes is `AccessDetect`; the process
  on the clock is `MemoryPosedge`, and the variable `process` says in which `#40` it sleeps, with
  the right-hand side that Verilog samples before an intra-assignment delay. `#40` is five
  periods: `BeatCycles`.
* **DCache**: the registers of `dcache.v` are variables of the same name; its wires are operators
  of the same name, in their settled values. `StrobeEvent`, `AddressEvent` and
  `PosedgeArrays`/`PosedgeState` are its processes, by the moment that wakes them. Where a wire
  does not settle in one step the intermediate values matter, because `always @(hit ...)` sees
  them: `lookupStages` lists them.
* **DCacheSystem**: cache, memory and a CPU that may run any sequence of instructions. One
  period is an edge (`Stall`: the CPU is held; `Complete`: the instruction ends; `Hold`: the data
  side is ready but the instruction cache is not, so the same request is presented again), then
  `Decode` or `DecodeSameWord`, then `Operands`.
* **ICache**: `icache.v` with the PC. Its lookup is over before the next edge, so one action is a
  whole period.
* **ICacheSystem**: instruction cache, instruction memory and a CPU that may jump from anywhere
  to anywhere (`Advance`) or be held by either cache (`Stall`). `Period` is what both share.
* **Lab06System**: the cache of Lab06 on the same `DataMemory`. Here busywait is computed from the
  lookup, so it is an operator and not a variable.
* **Lab05System**: the byte memory of Lab05, with the two readers of its busywait, register file
  (`loads`) and PC (`stalled`), which both look at it #1 after the edge. `DecodeSameWord` is a word
  that repeats the one before it, of which neither decoder nor memory takes notice.
* **FlatMemory**: the abstract specification: bytes, a request, a register that loads write.
  Lab05, Lab06 and Lab07 each implement it. The refinement mapping of a cache is `memoryView`: a
  byte is the cached one if its block is cached, else the one in memory.

### The tool chain

* **Assembler**: one line. A line is the row of its tokens; `preprocess` puts in the operands that
  an instruction ignores, `encode` turns a token into hexadecimal digits, keeping what `strcpy`
  leaves in `out_token`; `cut` and `bytesOf` are the script's `cut -c` and `$readmemb`.
* **ImageBuild**: run after run of `generate_memory_image.sh`: read a line, encode its tokens, give
  up in the middle (`EndLine` with a count other than 0 or 4), die on a missing operand with output
  in a buffer (`Crash`), remove the image or not, append to it.

### Parameters that stand for what the code leaves open

* `EdgeOrders`: a `#40` that began on an edge ends in the same instant as an edge. Either the
  memory's process or the processes on the clock run first. Lab06 has a third order, "between", in
  which the arrays see the end of the access and `next_state` has not been computed anew. Lab05 has
  no such parameter: nothing there reads busywait on the edge itself.
* `LookupOrders`: the process on `@(pc)` reads `hit` #1.9 after the PC moved, and that is also the
  instant in which `tag_match` takes the value for the new line.
* `InstantOrder`: units of the CPU that are due at the same moment run in any order, or in the one
  of a simulator that serves an instant first come, first served.
* `AddressEarly`, a property of the program that runs: a load or store finds its address already on
  the ALU's output, because the instruction before it computed the same value (for instance
  `loadi 3 0x04` before `swi 2 0x04`), and two accesses of the same kind never follow each other
  directly (the very same word twice is no event to the decoder, and allowed). The comments of
  `dcache.v` claim more, for any program; two runs marked "violation" show what happens without
  this, and the theorems and the other run of the data side say what is true with it.
* `OwnAddress`, the like for Lab05: whether a load into the register that holds its own address
  (`lwd 2 2`) may be followed by the very same word.

## Runs

| Run | Question | States |
|---|---|---|
| `dcache_one_line` | Two blocks compete for one line of two bytes, with `#40` two periods long and both edge orders. Does the cache implement `FlatMemory`, lose no dirty line, hold the block still, keep FSM and memory in step, start no useless transaction, always end a stall? | 39 thousand |
| `dcache_miss_stalls` | Any program. Does every miss stall the CPU? **No**: a finding | |
| `dcache_hit_resumes` | Any program. Does every stall end? **No**: a finding | |
| `icache_long_program` | Six blocks on two lines, any jump, any stall from the data side, comparator first. Is every executed word the right one, every line right, every miss served with one fetch? | 1.8 thousand |
| `icache_lookup_race` | A program longer than the cache, process first. Is every executed word the right one? **No**: a finding | |
| `datapath_all_ops` | A program of twenty words with every instruction, branches taken and not taken, a jump past the end, on 4-bit bytes. Are all units settled when results are taken, is the datapath the instruction set, does the data cache get strobes before addresses, and are the units exact on every pair of operands? | 116 thousand |
| `processor_aligned` | The whole processor on a program of four times its instruction cache, all loads and stores in the block of the instruction that computes their address. Does it run its program, store nothing else, and never stall for ever? | 4.9 thousand |
| `processor_ghost` | A program whose first word is a store, and whose block is replaced later. Does the data cache serve only the store at the PC? **No**: a finding | |
| `image_builds` | The script again and again on every file of up to two lines (every format, blank lines, comments, and lines that stop the assembler in each of its ways). Is the image the accepted program, are its words whole, is nothing rejected but malformed lines and comments? | 229 thousand |
| `image_moves` | Files with `mov`. Is the image the program? **No**: a finding | |
| `lab05_memory` | Four bytes behind the busywait of Lab05, any program, repeated words included, without a load into its own address register that is repeated. Is it a `FlatMemory`, does every stall end? | 76 thousand |
| `lab06_any_program` | Two blocks on one line, any program, all three edge orders. Is the cache of Lab06 a `FlatMemory`, is nothing dirty lost, does every stall end? | 45 thousand |

Every property of a passing run is paired in PROJECT.json with a mutation of the modelled code
(a dropped guard, a strobe that falls early, a dirty bit not cleared, an image not removed) under
which it fails.

### Bounds, and why they are enough

The data of the caches is symmetric: a block and a line matter only through being equal to or
different from another. Two blocks on one line give every conflict (clean and dirty eviction, return
to an evicted block); two bytes in a block give a first and a last byte and an access with a middle.
Two byte values tell old contents from new; Lab05 has three, so that a byte can be neither the old
nor the new one. That traffic on one line leaves the others alone is in the theorems (any
number of lines) and in `processor_aligned` (two data lines). On the instruction side no two bytes
of the program are equal, so a wrong word cannot look right, and three tags allow a line to be
replaced twice before the first block returns. `BeatCycles` is two where the time within a `#40`
matters (three for Lab05, whose access has no bytes to count); the program has five, and the process
does nothing on the edges in between. The theorems hold for every value of all of these.

`Datapath`: four bits are the least for which a shift amount, a sign and a carry are different
things, and `PCWords` is twice `ProgramWords`, so that a PC past the end wraps. Time within a
period is exact (eight moments), stalls are of any length. The program is fixed, as a program is;
the words that may be shown before the right one are given by `Shown`.

`Processor`: bytes of three bits give the eight bytes of memory that two tags, two lines and two
bytes in a block need. `IBeat * BlockWords > 2 * DBeat * BlockBytes`: as in the program (20 periods
for a word of 4 bytes, 80 for a block; 20 for a block of the data memory), an instruction block takes
longer than a write-back and a fetch of the data side, so what the data cache does for a word that is only shown
is over when the right word comes.

`ImageBuild`: two lines are what it takes for one line to be damaged by the one before; the image
may hold up to `MaxImage` lines when a run begins, so that runs that fail follow each other.

### Fairness

`WF_vars(Next)` and nothing more: simulated time goes on. The test bench toggles the clock for as
long as it runs (`cpu_tb.v:151`), and every action is something that the passing of time does.
No particular action is assumed fair: a CPU that is stalled has no step but the edge, so progress
out of a stall is progress of the FSM and the memory. (The test bench stops after 8000 time units;
the liveness properties speak of a simulation that is not cut off.) `Datapath` and `ImageBuild` have
safety properties only.

## Findings

1. **A miss may not stall** (`dcache.v:105`, run `dcache_miss_stalls`). busywait rises with the
   strobe, #4 after the edge, and the process on `hit` wakes in the same instant. `hit` then still
   speaks of the previous ALU result. If that was a hit, busywait falls; when the new address
   misses, nothing raises it again, and the edge completes the instruction with a wrong byte. The
   comments at lines 92-93 promise the stall.
2. **A stall may not end** (`dcache.v:96,105`, run `dcache_hit_resumes`). Of two loads (or two
   stores) in a row, the second makes an event on its strobe (the decoder clears it before it sets
   it again, `control_unit.v:59-60`) but none on `readaccess`. If it hits like the first, `hit`
   has no event either, and busywait stays high for ever.
3. **The lookup race** (`icache.v:67`, run `icache_lookup_race`). `#1.9` equals `#1` plus `#0.9`,
   so the process on `@(pc)` and the comparator meet in one instant. If the process runs first,
   as it does in a simulator that serves an instant in the order of scheduling, a PC that moves to a
   line with another tag finds the comparator of the old line, takes the miss for a hit and
   executes a word of another block. A program that fits in the cache never moves to a line with
   another tag, which is why the programs of the repository run.
4. **A ghost store** (`dcache.v:113`, run `processor_ghost`). While the instruction cache waits for a
   block it shows the word at the same offset of the old one. CPU_BUSYWAIT holds PC and registers,
   not the strobes: the data cache executes a store that the program has left, with the value that
   its register has by now.
5. **mov copies register 0** (`control_unit.v:41`, run `image_moves`). The assembler writes the source
   of `mov` into the last byte (`CO2070Assembler.c:91-101`), the control unit looks for it in the third.

### Other observations

The following was met while modelling; each can be seen by changing a constant or stating the
formula in the module named.

* `CO2070Assembler.c:188` looks for `"// "` in a token that `strtok` has cut at blanks, so every
  comment is rejected, and with it `factorial.s`, though line 187 means to handle comments and
  `src/Lab07/README.md:21` builds that file. `RejectsOnlyMalformed` therefore allows lines with a
  comment to be rejected; `MCSources` has two of them. (Without its disjunct
  `Commented(source[n])` the run `image_builds` fails.)
* An immediate of one digit (`0x5`) writes four binary digits instead of eight; if it is an offset, the operands behind it
  move out of their fields. (`Sources <- MCShortImmediates`: `ImageIsProgram` fails.)
* The `&&` of `generate_memory_image.sh:13` guards only the `rm` of line 16. After a failed run the
  old image stays and is appended to (action `KeepImage`); the next run that succeeds removes all of it, as
  `ImageIsProgram` checks.
* In the shifter, if an operand's event and the decoder's new SHIFT_TYPE meet in one instant, the process that woke
  first sleeps through the other event and shows the old kind of shift (`shift_unit.v:74`).
  (`InstantOrder = "any"` in DatapathAllOps.cfg: `ShiftsAsAsked` fails; "queue" does not have it.)
* In Lab05 the same word twice in a row is no event for the memory (`src/Lab05/data_memory.v:36`), so
  a load that repeats the one before it shows the byte that was loaded then. That is the right one,
  unless the first load has moved the address: after `lwd 2 2`, `lwd 2 2` register 2 holds the byte
  at the old address and not the one that this byte points at. (`OwnAddress = TRUE` in
  Lab05Memory.cfg: `IsFlatMemory` fails, and nothing else.)
* A program that fits in the instruction cache is executed correctly in either lookup order
  (`Tags = {0}`, three `Indices`, both `LookupOrders` in ICacheLongProgram.cfg).

## Proofs

All theorems hold for any number of tags, lines, bytes per block and periods per `#40`,
for any program contents, and for any non-empty set of edge orders unless "Under" says more.
Assumptions on the constants are the named ASSUMEs of the modules: sizes are positive, reset values
are members of their sets, a block is a whole number of words.

| Theorem | Under | States |
|---|---|---|
| `DCacheProofs!TypeCorrect` | - | registers keep their widths |
| `DCacheProofs!MissesStall` | `AddressEarly` | no miss completes unstalled |
| `DCacheProofs!Invariance`, `CleanLines`, `ServesFSM` | `AddressEarly` | the inductive invariant; a clean line equals its block in memory; memory works only for the FSM's state |
| `DCacheProofs!WriteBacksFirst`, `BlockHeld` | `AddressEarly` | action properties: no dirty line is replaced; addresses stand during an access |
| `DCacheProofs!CacheIsFlatMemory` | `AddressEarly` | `Spec => Flat!Spec`, the refinement |
| `DCacheProofs!TransactionsUseful` | `AddressEarly` | action property: memory is set to work only for a miss, though mem_read pulses once more after a fetch |
| `ICacheProofs!TypeCorrect` | - | registers keep their widths |
| `ICacheProofs!Invariance`, `LinesCorrect`, `FetchesCorrect`, `BlockHeld` | comparator first | lines and executed words are those of the program; the address stands during a fetch |
| `ICacheProofs!FetchesUseful` | comparator first | action property: memory is set to work only for a miss, though mem_read pulses once more after a fetch |
| `Lab06Proofs!Invariance`, `TypeCorrect`, `ServesFSM`, `WriteBacksFirst` | - | the inductive invariant of the Lab06 cache and what follows from it, in all three orders |
| `Lab06Proofs!CacheIsFlatMemory` | - | the cache of Lab06 is a `FlatMemory` for **any** program, in all three orders |
| `Lab05Proofs!Invariance`, `TypeCorrect`, `ServesRequest` | - | the inductive invariant; memory serves the request that stands while the CPU waits |
| `Lab05Proofs!MemoryIsFlatMemory` | `OwnAddress = FALSE` | the byte memory is a `FlatMemory`, repeated words included |
| `DatapathProofs!Settles` | - | every unit of the CPU is at rest when its result is taken |
| `DatapathProofs!StrobesMoveFirst`, `AddressesStand` | - | action properties: what the data cache is given moves at the moments it relies on |
| `ALUProofs!UnitsExact`, `ShifterExact` | - | negation, adder, multiplier, gates, shifts and rotations are what they promise, on all bytes of any width |
| `DatapathProofs!ArithmeticHolds`, `ShiftsHold` | - | so they are whenever results are taken |
| `DatapathProofs!ShiftsServed` | `Premises` | the shifter shows the kind of shift that is asked for |
| `DatapathProofs!ImplementsISA` | `Premises` | `Spec => Machine!Spec`: the CPU with all its races is the instruction set |
| `ImageProofs!WordsStayWhole` | no line with two immediates of one digit | the words of instruction memory stay aligned over any number of runs, rejected and killed ones too |
| `ImageProofs!OnlyMalformedRejected` | no last line of blanks | the assembler gives up, or dies, only on a line that is not well formed or has a comment |
| `ImageProofs!ImageHoldsProgram` | `PlainSources` | after an accepted run instruction memory is the program, with every operand where the control unit looks for it |

**The argument, Lab07 data side** (`DCacheInvariant`). That the cache is right cannot be shown from
the arrays alone. `StallInv`: busywait is high exactly for a miss, and the FSM leaves IDLE only then.
So during a transaction the CPU is held and the request does not move. `BusInv`: then the memory was
asked for what the FSM waits for, and works on nothing else. `FetchInv`, `WriteBackInv`: then the
bytes it has moved so far are those of the requested block, or of the line to be written.
`CleanLineMatchesMemory`: then a line that is dropped or filled equals memory. Each part needs the
ones before it; together they are inductive (`IInv`), and the run `dcache_one_line` checks `IInv`
too. An edge then does one of three things (lemma `EdgeCases`: `Quiet`, `Filled`, `Written`), and
the refinement follows case by case: a `Quiet` edge and a fill leave `memoryView` as it is, a write
hit is a store.

**Lab07 instruction side** (`ICacheInvariant`): the same without write-backs. Its key step is
`StallStep`: the hit signal passes through three intermediate values, and busywait is still exact
after them when the process reads the settled one.

**Lab06** (`IInv` in Lab06System): `RequestInv`, that the request stands while the FSM is away
from IDLE, needs no assumption on the program, because busywait is a level. In the order "between"
an edge can fill a line and leave the FSM in MEM_READ. The fill of the next edge then finds a lookup
that hits: it is followed by the write hit on the same edge, and PC and register file, which look at
busywait #1 later, complete the instruction (lemma `EdgeCases`, case `Refills`). `DataInv` says why
that is harmless: the line already is its block in memory, so the second fill writes the bytes that
are there, and the edge does what one that meets a plain hit does (`Answered`). `DataMemoryProofs` has
the lemmas about the memory's process that both caches rest on.

**Lab05**: `FlagsInv` ties the memory's latched flags to the decoder's strobes through busywait.
`ServedInv` is for the words that memory does not notice: while busywait is low, the byte of a store
that stands is in memory and `readdata` is the byte of a load that stands. It holds over a repeated
word because that finds the same registers, except for one that it has loaded itself; hence
`OwnAddress`. The refinement then has one case for each thing the memory's process can do on an edge
(lemma `EdgeCases`).

**The CPU's timing** (`DatapathProofs`), for any program, any width, any number of registers and any
order of an instant. `latest(u)` is the longest path to a unit as a moment: 4 for the decoder, 5 for
the register ports, 6 for the negation, 7 or 8 for the units of the ALU. `WakesInv`: no unit that is
at work is due after its `latest`. The one case that needs thought is an event that is noticed late, and
lemma `FireInTime` shows that what a unit notices was fired by one that comes before it on the path.
For a load or store `MemoryInv` sharpens this: its address is forwarded and never negated, so it has
settled one moment earlier than a difference has.

**The units of the ALU** (`ALUProofs`), for bytes of any width. Everything that the Verilog wires bit
by bit is a sum over the bits of a byte (`total`), a recursive function. Lemma `PartialSums` says that
its partial sums exist, and `Total` that a formula which starts at 0 and grows by the term of each bit
is what `total` computes. Both are inductions on the position of the bit, and rest on `Induction`, the
principle for a *set* of numbers, which follows from the library's theorem that the numbers are well
founded (the library's own principle takes a predicate, which the provers cannot instantiate). Each unit
then has its formula for the low `n` bits: `x % 2^n` for the bits of `x` (`BitsOf`), `2^n - 1 - x % 2^n`
for the inversion, `x % 2^n + y % 2^n - f[n]` for the one gate if `f` are the partial sums of the other,
0 or `(d % 2^(n - k)) * 2^k` for a shift to the left, two formulas that meet at `n = Width - k` for the
rotation; the multiplier's partial sums are `a * (b % 2^n)` modulo `2^Width`. That a power doubles with
its exponent is counted on subsets (`PowersOfTwo`), because the prover knows no more of powers than that.

**The CPU is the instruction set** (second half of `DatapathProofs`), again for any program and any
width. `SettledInv`: a unit
that waits shows what its inputs make of it, because a value that changes is an event for its readers;
that is not so for the shifter, whose process sleeps through events, and `ShiftInv` says why it is right
nevertheless: in the order of a queue the decoder never moves while the shifter is at work. With
`TimeInv` everything is settled on the edge, and the lemmas `Operands`, `SecondOperand`, `Results`,
`Branches` and `NextPC` evaluate the settled datapath for every kind of word, with `UnitsExact` and
`ShifterExact` for what the units compute. `FetchInv` is for stalls:
only the word of the PC completes, and a store that is left at the decoder while the next word is
fetched has been carried out, so that it does no harm to do it again. `Premises` are that the order of an
instant is "queue" (`ShiftsAsAsked` fails in the order "any"), and that no store is shown before the right
word (finding 4 is what happens otherwise).

**The tool chain** (`ImageProofs`), for source files of any number and length of lines. Nothing can be
said of a word while its tokens are being written, so the proof follows the loop over the tokens.
`LoopInv`: what is left in `tokens` is the rest of `pline` behind the first `count` tokens, all of which
can be encoded; or the loop has met the end of the line, or a token that it rejects. Lemma
`WellFormedLine` says that `preprocess` makes exactly four such tokens of every well-formed instruction,
whatever its format, with the end of the line or a comment behind them; so `count` ends as 0 or 4
(`Encodes`), and nothing is rejected. `WrittenInv`: the digits in `written` are the codes of those tokens;
they are eight, or seven if the last operand has one digit, whose group the script then reads as that
digit (`CodedLine`). `MachineInv`: the machine file has one line for each instruction among the lines
that are done, in order; `Counting` is the step from one line to the next, and needs the theorems about
finite sets, because the model says by a cardinality where an instruction goes. `AcceptedInv`: what the
script has appended since `rm` is what it has read. `Loaded` evaluates `FlattenSeq` on words of four bytes
by an induction on their number (lemma `Induction`, again over a set of numbers).

The premises are what Findings and Other observations report, and no more: `PlainSources` excludes from the well-formed lines `mov`, whose source
operand is written where the control unit does not look for it (run `image_moves`), and an immediate of
one digit in front of another operand (`MCShortImmediates`), after which the groups no longer match; other
lines are unrestricted, and may be rejected or kill the assembler. `OnlyMalformedRejected` excludes
a last line of blanks without a newline, on which `strcasecmp` reads NULL; that comments are rejected is
part of its statement. All
premises hold for `MCSources`, on which the run `image_builds` checks the same three properties.

Only model-checked: liveness (`StallEnds`, `FetchEnds`, `StallsEnd`; out of the prover's reach) and the whole
processor. That `Processor` implements `ISA` is checked for given programs; its parts
are what the theorems above are about.

## What is abstracted or left out

* Delays are exact inside the CPU (`Datapath`). In the caches they are reduced to the order of the
  moments they produce: `AddressEarly` really means that the address does not move, and `Datapath`
  shows that it has stopped moving in time (`AddressStands`, `StrobesFirst`). `Processor` does not
  show the data cache the address of a word that the old block shows for one time unit.
* The third order of one instant is in the model of Lab06, not in that of Lab07.
* Reset happens once, before any access, as in `cpu_tb.v:142`. A reset during an access would clear
  `busywait` and leave the memory's process in its `#40`, to write the rest of a block.
* The PC has `PCWords` values and only its low bits reach the instruction cache, as in the program;
  that sign extension is 22 bits wide is invisible beyond `PC[9:0]`.
* The assembler's lines are rows of tokens: lines longer than `LINE_SIZE` and files that cannot be
  written are not modelled, nor is a last line of blanks without a newline (which crashes it too). Runs that
  overlap are not modelled.
* The wave dump and the `#8000` end of the simulation in `cpu_tb.v` are not modelled.

### Not modelled

* `src/Lab03/gtkwave-gtk3-3.3.127` and `src/Ripes-v2.2.6-win-x86_64` are third-party programs that
  are vendored as a whole: a wave viewer and a simulator. Nearly all C and C++ text under `src` is
  theirs; by count of lines the processor is a very small part of the tree. They are not part of the
  system that the repository builds, and are left out on purpose.
* Lab01 holds assembly exercises; Lab02 to Lab04.5 are earlier stages of the CPU, whose modules Lab07
  contains, extended or unchanged. The assembler of Lab03 is
  an earlier version of the one that is modelled; `src/Lab07` has a second copy of that one.
* `dump_vcd.py` and `generate_pdf.py` print reports.

## Plan

Done: all parts of Lab07 with their composition, the memories of Lab05 and Lab06, the tool chain, and
the proofs above. Left:

1. The third order of one instant in Lab07, which needs `next_state` as a variable.
2. A proof that `Processor` implements `ISA`, from the theorems about its parts.
