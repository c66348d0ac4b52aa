# Formal verification of dos_emu_cpp

TLA+ models of the parts of the emulator that decide what a guest may rely on:
the conventional-memory allocator and the programs that live in it, the DPMI
host's transfers of control, its descriptor table and its extended memory, file
handles and directory searches, and the pieces of the interpreter that compiled
code leans on over several instructions. TLC checks small instances; TLAPS proves
every safety and action property the runs check, and the refinements, for every
size and every input. Paths below are relative to the
repository's root.

## The system

One thread runs one interpreted CPU. `Cpu::step()` executes the instruction at
CS:IP, or, when CS:IP is one of the DPMI host's entry points, calls the host.
An `INT n` calls `Dos::handle()`, which serves it in C++ or declines and lets
the CPU go through the guest's vector table. Nothing runs in parallel; what
makes the code hard is *re-entrancy*: EXEC runs a whole child program in a step
loop nested inside the parent's `INT 21h`, the DPMI host hands the CPU to guest
code and must find its way back, and each layer keeps fields of its own that the
others do not save. Below that, long sequences of legal calls on lists that are
never compacted, and state that one instruction leaves for a later one.

| component | state | operations | what makes it correct |
|---|---|---|---|
| memory arena (`dos.cpp` 199-328) | `blocks_` | split, coalesce, own, alloc, free, resize, largest | the blocks tile the arena, free neighbours are merged, a refusal's figure can be had |
| programs (`dos.cpp` 60-192, 329-502, `main.cpp`) | `psp_seg`, `env_seg`, the MCB chain in guest memory, one saved context per nested EXEC | AH=38h 48h 49h 4Ah 4Bh 4Ch 50h, start-up, HLT | a child cannot reach its parent's memory; a walk of the chain finds every allocated block; an environment outlives its reader's growth |
| DPMI control transfers (`dpmi.cpp` 85-577, `cpu.cpp` 141-216) | `rm_`, `rm_depth_`, `rm_transferred_`, `in_default_`, `pmint_`, `client32_`, `cb_`, return addresses on guest stacks | mode-switch entry, raw switches, hooked interrupts, default handlers, 0205h, 0300h-0304h, callbacks | every way back resumes exactly the code that was interrupted, in its mode and on its stack; a deferred IRET is performed once |
| extended memory (`dpmi.cpp` 405-413, 576-621, 776-794) | `blocks_`, `heap_next_` of the host | 0500h-0502h, the callback stack | granted blocks never overlap and cover what was asked; nothing is lost; the reported figure can be had |
| descriptors (`dpmi.cpp` 44-68, 112-137, 395-413, 636-699) | LDT, `next_sel_`, `entry_sel_`, `low_sel_`, `cb_ss_` | 0000h, 0007h-000Ch, 0100h, mode switch, the host's own selectors | no selector is handed out twice; a descriptor describes what was asked for; the host's stay its own |
| file handles (`files.cpp`, `dos.cpp` 952-1037) | the handle table, streams that handles share, what stdio has buffered | create, open, close, read, write, truncate, seek, dup, dup2, remove, rename | positions are shared, writes are seen, redirection is undone without a dangling stream |
| directory search (`dos.cpp` 444-574) | `find_`, `find_pos_`, the DTA, the parent's in EXEC's locals | 1Ah, 4Eh, 4Fh, EXEC | a child's search does not disturb its parent's |
| wildcards (`dos.cpp` 505-545) | the two cursors and the star of one match | `wildmatch`, `dos83match` | the loop ends, with the verdict the pattern means |
| CPU interpreter (`cpu.cpp`, `cpu.h`) | registers, flags, guest stacks and gates | arithmetic in chains, jumps, decimal adjustment, REP, interrupts across rings | carries travel from word to word; a condition means what its name says; a return resumes the caller |
| FPU (`fpu.cpp`) | eight registers, TOP, the condition bits | loads, stores, exchange, arithmetic, comparisons, FNSTSW/SAHF | the registers behave as a stack; a branch goes the way of the comparison |
| loaders, flat memory, console and BIOS, front ends, tools | images, bytes | relocation, I/O | not modelled, see the end |

How they interact: the DPMI host allocates its reflection stack and 0100h blocks
through `alloc_dos`, out of the DOS arena; DOS reads its arguments through
selectors the host made; the host asks DOS to serve interrupts through
`real_int`; the callback stack comes from the host's heap and is reached through
a selector of its own; EXEC saves the CPU, the block list, the PSP, the
environment, the DTA and the search, neither the handle table nor any of the
host's fields.

## Modules

| module | what it is |
|---|---|
| `Arena` | the allocator as a data structure: an arena is a function from the paragraph of each MCB to its block, each `mem_` routine an operator in closed form |
| `ArenaLoops` | the same routines as the loops of the source over a sequence of blocks (a loop is a recursive function of its turns), and a state machine that makes every call on every list |
| `DosMemory` | the INT 21h memory calls, EXEC and its failures, termination, HLT, PSP and environment, the published chain, and the DPMI host's allocations: one action per call |
| `DpmiCalls` | one CPU, guest activations and the host's entry points |
| `DpmiHeap`, `HeapGrants` | `alloc_mem` and `free_mem` over the vector of blocks; the abstract allocator they implement |
| `DpmiLdt` | the descriptor table |
| `DosFiles`, `FileTable` | handles, shared streams and stdio's buffers; the DOS file table a guest should see, which they implement |
| `DosSearch`, `ProcessSearch` | the one search vector and the DTA across EXEC; the search of its own each program should have |
| `WildMatch` | the loop of `wildmatch`, a turn at a time, against the meaning of a pattern |
| `CpuFlags`, `CpuAlu` | results and flags of the arithmetic instructions; programs that chain them over two words |
| `CpuDecimal` | DAA, DAS, AAA, AAS, AAM, AAD behind the instructions they correct |
| `RepString` | REP, REPE, REPNE of the string instructions |
| `CpuGates` | a guest with its own IDT and rings |
| `FpuStack`, `EvalStack` | the x87 register file and condition bits; the evaluation stack they implement |
| `ArenaProofs`, `DosMemoryProofs`, `DpmiCallsProofs`, `DpmiMemoryProofs`, `FilesProofs`, `CpuAluProofs`, `CpuProofs`, `LoopsProofs` | theorems |
| `MC...` | constants for TLC; several put components that share no state behind a variable `part` that says which of them a behaviour runs |

**Arena and DosMemory.** `blocks` is `blocks_`; because the vector is in address order
and gap-free (part of `LoopsAgree`), a function of the address stands for it. `chain` is
what guest memory holds at each paragraph: an MCB or something else. `frames` is the
stack of suspended `exec()` calls and holds the locals `sblocks`, `spsp`, `senv`. An
action is one whole handler, its `mem_publish()` included: `Update` publishes when the
list changes, as every `mem_` routine does; EXEC's start publishes before the owner is
set, and a failed load and the end of a child put the list back and leave the chain as
the child had it. Segments and sizes a guest passes are arbitrary 16-bit words (`Spec`).
`PoliteSpec` restricts the guest to blocks that are free or its own, for the properties
that a hostile guest can break on real DOS too.

**DpmiCalls.** `cpu` is mode, place and stack pointer; `mem` the return addresses
on every stack; a *place* is somewhere in a guest activation or an entry point of
the host. `acts` is the true nesting of activations; no code reads it, and the
properties compare the host's knowledge with it. Host routines call each other,
so they are operators from machine to machine (`RmCall`, `DefaultTail`, `Exec`,
`EndChild`, `RmReturn`, ...) and an action makes one the next state. A request a
guest makes is whatever its registers hold when the request is served, so a hook
may chain with another one than it was entered with. INT frames, IRET frames and
far-call addresses are one cell each; general registers and frame widths are left
out. A child starts in the mode EXEC was asked in: real mode for a real-mode parent
and for 0300h, which clears PE (`dpmi.cpp` 518), and protected mode when a client asks
through the default INT 21h handler, because neither `exec()` nor `load_program()`
clears it. Such a program is `lost`: its paragraphs are read as selectors and what
runs is not its image, so of what it may do only its DOS calls and its end are
followed. Forgotten on purpose: the popped part of a stack nobody else is on, and used
slots, which nothing reads again.

**DpmiHeap and DpmiLdt.** `blocks` is the vector in the order its entries were made,
dead entries included, because first fit looks at them in that order. Lengths are 32-bit
and rounding wraps. `cb_ss` is whether `cb_stack` has its selector; once the table is
full (`tableFull`, which happens at any time as seen from the heap) it never gets one
and every callback allocates again. A client may free an address twice, also when it has
become the host's stack in between (`astray`). `owed` (heap) and `want`, `grant`,
`loose` (descriptors) are the client's view, which no code reads. `loose` names the two
ways a limit comes out larger than was asked: 0008h keeps a granularity bit that was set
before, and 0100h of no paragraphs. A descriptor keeps base, limit field and
granularity; type and access bits are left out. `PspAt`, `PspLimit` and `SegLimit` are
which of the selectors of a mode switch is the PSP's, its limit (FFh) and that of the
others (FFFFh).

**DosFiles.** A handle names a stdio stream, shared by duplicates; `unsaved` is
what the stream has buffered. stdio is external: `fseek` and `fclose` flush, and a full
buffer may flush at any time. The code puts no seek or flush between a write and a
read of one handle (`files.cpp` 142-153), which ISO C leaves undefined, so `last` keeps
what a stream did last and a read straight after a write, or a write straight after a
read, is one of two things: done, after a flush (glibc), or refused without moving a
byte (Microsoft's library, `RefusesToTurn`). A refused turn makes the guest `rude`;
other outcomes of that undefined case are not modelled. `rude` is also set
when a guest opens or empties a file that is open already, closes one of several
handles on a stream, closes a console handle, or asks for a file with no handle
left; those are calls the code serves and does not get right, and the properties
are about guests that do not make them. A handle on a closed stream may stay in
the table, and using it ends the model (`undefined`).

**The interpreter.** Each module runs the programs a compiler emits rather than
one instruction: a two-word addition with an INC between its halves, a decimal
addition and its correction, an interrupt that crosses a ring and comes back.
Arithmetic is at a width given by `Half`, so the text stands for 8, 16 and 32 bits
and the proofs for all of them; the parity flag is left out of it. In `FpuStack`
subtraction stands for the arithmetic group, and `fpuRude` marks programs that
push onto a full stack or use registers they never loaded, which the code, having
no tags, does not notice.

## Runs

| run | bounds | shows |
|---|---|---|
| `loops` | six paragraphs; every list of adjacent blocks, unmerged ones too; sizes and segments beyond the arena. Patterns and names of four letters over two | closed forms and loops agree for every argument; the wildcard loop ends with the right verdict |
| `memory` | arena of six paragraphs, sizes {0, 2, 100}, all segments and two past the end, one EXEC | types, tiling, merging, truthful refusals; PSP:02 on the step that starts a child |
| `polite` | thirteen paragraphs, two EXECs deep | ancestors' blocks and the environment are kept; the chain in guest memory, stale or not, shows every allocated block |
| `calls` | two slots of `rm_`, four activations, two EXECs deep, every request | return to the caller, deferred IRETs, slots, hooks, no endless host step |
| `dpmi_memory` | heap of four pages, vector of five entries, requests from 0 to one that wraps, frees of anything, a table that may be full for callbacks; four selectors, a client of two segments (the second its PSP), limits on both sides of 1 MiB, runs of one and two | the heap is tiled, serves requests exactly, loses nothing but callback stacks once the table is full, implements `HeapGrants`; what 0500h reports can be had (more may be, below); descriptors describe, the host's are kept, none is granted twice |
| `dos_files` | two names, two files, two streams, three handles, lengths to one; two entries, three programs deep | a polite guest sees `FileTable`; a program's search is its own (`ProcessSearch`) |
| `cpu` | words of three bits in pairs, all their values; sixteen packed numbers; strings on a segment of four; three calls deep over two rings; four FPU registers | chains, conditions, corrections, repeated strings, returns, the FPU as a stack |
| `scratch_stack` | as `polite` | finding: the reflection stack dies with the child it was allocated under |
| `stale_transfer` | as `calls`, children use the host, one EXEC | finding: the child of a 0300h EXEC under the default INT 31h handler leaves a stale `rm_transferred_`, which loses the parent's IRET and indexes `rm_[-1]` |
| `staircase` | as `dpmi_memory` | finding: a block freed above a free one is not merged with it |
| `seek_back` | one file, a host whose `long` has 64 bits | finding: a negative offset of AH=42h moves the stream 4 GiB ahead |
| `first_dta` | two entries | finding: the first program's DTA is 0000:0080 |

Why the bounds are enough: the allocator's code distinguishes no room, room for the MCB
alone, room for one paragraph, and more; six paragraphs hold a used block with free
space of each of those sizes on either side, and the proofs remove the bound for tiling
and merging. Two EXECs give a grandparent whose memory is two levels away. In
`DpmiCalls` four activations let a hook call down to a procedure whose callback calls
down again, so that a deferred IRET is outstanding under another, and two slots let the
third call be refused; `rm_` has four in the code. Five entries let a block be split
twice and absorbed with dead entries behind it, and the proofs remove the bound. Four
selectors are the null one, a run of two and the last, so every caller meets a full
table; proved for any size. Three handles are a console handle and two for a file and
its saved duplicate, which the redirection idiom needs. With lengths to one a write that
the host's stdio accepts straight after the read of a byte has no room left;
`HandlesAreDos` covers it. Three bits are the least width at which the sign, the carry,
the half carry's absence and an ordinary bit are all different.

Deadlock is checked for `calls` and `loops`; the other passing runs turn the check
off because their machine stops: the first program ends, the table is full, the
heap's vector has `MaxEntries` entries, the program's instructions are done, the
guest did something undefined. The conditions under
which `calls` holds are constants: no children that use the DPMI host
(`DpmiChildren`; the run `stale_transfer` turns it on), no host-supplied stack
re-entered (`SharedStacks`), no freed callback called (`StrayCalls`). For the last two
no run is kept; setting either to TRUE in MCDpmiCalls.cfg makes TLC find
`ResumesCaller`, respectively `HostStepsEnd`, violated.

**Fairness.** `FairSpec` of `DpmiCalls` has weak fairness of `HostStep` only: `Cpu::run()`
steps until the CPU halts, so a hook that CS:IP stands at is acted on. Nothing is
assumed of the guest, which may loop for ever. `HostStepsEnd` then says that the
host always gets back to guest code. The wildcard loop has weak fairness of its
turn, a C++ `while` that nothing interrupts; `MatchReturns` says that it ends.

**Refinement.** `GrantsNeverOverlap`, `PoliteSeesDos`, `SearchBelongsToProcess` and
`FpuIsStack` are abstract specifications, instantiated under a mapping: the used
entries are the granted ranges; a file is as long as the furthest byte in the host
or in a buffer; a program's search is what is left of the vector, its own or the
one EXEC's frame saved; ST(0) downwards is the stack. Two of them hold while the
guest is polite and are stated as `[][~rude' => [Abstract!Next]_Abstract!vars]_vars`.

## Proofs

`LoopsProofs` is about the loops themselves. Its first half shows that `wildmatch`
need remember only its last star. `Spells(pt, tx, i, j)` says that the pattern from
letter `i` on spells the name from letter `j` on; the invariant `Tracks` says of every
turn that the name matches if and only if what is left of it does, or what the last
star could take beyond `mark` leads to a match. The step that matters is `TracksStar`:
when another star is met, every match that an earlier star could still reach is one
the new star reaches too. `OneStarIsEnough` follows for patterns and names of any
length, and `TurnsDoAdvance` is the measure behind `MatchReturns`. The theorem assumes
that no star is a letter of a name, which DOS guarantees and a host does not: with it
`VerdictIsGlob` is false, see below.

Its second half proves `LoopsAgree`, on which the use of closed forms everywhere else
rests. The inductive invariant is `InOrder(list)`: the blocks are typed, the first MCB
is the arena's, and each block ends where the next one begins. Each loop is followed by
what a turn keeps: a turn of `mem_coalesce` keeps the order and `Coalesce` of the arena
(`TurnSound`, from `MergeCoalesces`: two free neighbours made one do not change what
the arena coalesces to) and leaves one block fewer to look at; a turn of the search in
`mem_alloc_at` keeps that the choice is the first that fits, or the first of the
largest, among the blocks seen (`Picked`); the sum over the free run of `mem_resize` is
the distance to its end. The splits, claims and erasures are shown to be those of the
arena row by row (`CutAgrees`, `ClaimAgrees`, `TrimAgrees`, `SwallowAgrees`).
`LoopsDoAgree` holds for arenas of any size, vectors of any length and every argument,
and for vectors with free neighbours, which the allocator itself does not leave.

`ArenaProofs` proves of the closed forms, for every arena between any two 16-bit
bounds: splitting, merging, claiming, allocating, freeing and resizing a *proper*
arena (tiled, merged, fields typed) gives a proper arena, whatever the segment and
size; and what each of them does to the blocks in use: `Kept(bs, cs, gone, fresh,
owner)`, those outside `gone` stay as they were, and a used block that is new is in
`fresh` and belongs to `owner`. `ResizeReports` is the lemma behind the truthful
refusal: when a block cannot grow, the figure is what it has with the free block
behind it, so asking for that succeeds, and for one paragraph more fails again.

`DosMemoryProofs` carries that through the state machine with

    IInv == Proper(blocks) /\ every field typed /\ frames \in Seq(SavedFrame)

where a `SavedFrame` holds a proper arena of its own. The frames are needed
because the end of a child, a failed load and HLT bring saved lists back: tiling of
the live list alone is not inductive. From it follow, for every value of the
constants `DosAssumption` allows and every guest (`Spec`): `TypeCorrect`, `Tiled`,
`AlwaysMerged`, `RefusalsAreTruthful`, and the action property `CeilingsAgree`, which
is about the step that starts a child only: PSP:02 is written there and later 4Ah
calls do not move it. For polite guests (`PoliteSpec`) the invariant is `PoliteInv`: seen as
one sequence of *levels*, the saved lists and the live one, each level's list has a
block at its program's PSP, DOS's block, and its environment as a block of another
owner (`HasItsOwn`), and what is in use in a level's list is in use, unchanged, in
every list above it (`Survives`). A call changes only blocks of the running level,
EXEC starts from a copy of the list it saves, and the end of a child brings back a
list that the levels below still agree with. This gives
`ProgramsNest`, `AncestorsKeep` and `EnvironmentApart`. `ChainKeepsShowing` rests on the
same sequence of levels: a chain published for a level shows what is in use in that
level's list, hence, because the lists below survive in it, what is in use in each of
them; so when `exec()` puts one of those back without publishing, the chain that stays
shows more than is in use and never less.

`DpmiCallsProofs` proves the transfers of control for a guest that does not re-enter a
stack the host supplies, calls no callback it freed and EXECs no DPMI client (`Polite`;
each of the three is a finding's or a remark's subject below. That the last is needed is
what the run `stale_transfer` shows; for the other two see Runs). None of the five
properties is inductive: what the host restores is what is in guest memory and in `rm_`,
so the invariant `CallsInv` has to say that this is right for *every* activation, not
only for the innermost. It is `Body /\ Flags`. `Body` says how each activation was
entered (`Entered`: a handler sits one cell above its caller on the same stack, the
caller's place in that cell; a procedure on a stack nobody else is on, its caller saved
in the slot that its number among the procedures names; a callback on the host's stack,
with its structure naming the far call's cell; a program on its own stack), that the
cells of different activations are different (`Stacked`), where the CPU is (`Resting`:
in the innermost activation, or at a hook that it went to, or at the hook behind a call
that is done), and that suspended programs wait in the same way. `Flags` relates
`in_default_` and `rm_transferred_` to the EXECs under way, and says that a child runs
in protected mode only where no hook of a client is in its way. A step changes the
innermost activation only; `Kept` and `BaseKept` say once what the others need of it,
and for each handler a lemma shows that the machine it makes is `Good` again.
`CallsNest` is the invariant; `CallsTypes`, `CallersResume`, `IretsAreKept`,
`SlotsAreCalls`, `HooksComeBack` and the action property `CallsComeBack` follow for any
number of slots, activations and programs.

`DpmiMemoryProofs`, the heap: the invariant `Listed(blocks, heapNext)` is `HeapTiled` with the
entries typed. Its step for `free_mem` is the interesting one (`RunFacts`,
`AbsorbKeeps`): because the entries tile the heap, the run of blocks that starts
where the freed one ends stops at an entry's end and contains no used block, so
what is absorbed is accounted for by the freed entry alone. The same lemmas say what
each call does to the used ranges, which gives `HeapImplementsGrants`: every step of
the list is a step of `HeapGrants` or a stutter. The second half adds who holds each
range (`OwedHeld`) and that everything is in whole pages, for `RequestsCovered`
(exact: less than a page to spare, and one page for a request that wraps),
`StackApart` (of clients that free only what they hold), `NoLeaks` (nothing but
callback stacks once the table is full) and `FigureIsTrue`.

The descriptors: `IInv` adds `Order` to the three invariants, *selectors below
`next_sel_` and only those have been handed out*, which makes the host's selectors
different from the client's and from each other. `DescriptorsFaithful`,
`HostSelectorsSafe`, `NullSafe` and the action property `SelectorsGrantedOnce`
follow, for a table of any size; the first says of the two cases in which a limit comes
out too large (`loose`) by how much. `MemoryTypes` is the types of both, heap and table,
under the specification that the run checks.

`FilesProofs`: for the handles the invariant `Tidy` types every field, bounds what a
stream has buffered by what was written since it was placed, and says of a guest that
is not `rude` that no file is open twice and no handle names a closed stream
(`HandlesStayOpen`). The middle part is what the refinement rests on: with one stream
per open file, the length the guest sees is the one a flush of that stream would give
(`PoliteLengths`). So a write is seen at once though it is only buffered, a flush is
a stutter, and each `...Seen` lemma maps a call to the call of `FileTable` of its
name; `HandlesAreDos` puts them together with the initial states. It assumes
`LongIs32`: with a 64-bit `long` AH=42h goes to places no DOS file has (the finding of
the run `seek_back`). For the searches `SearchInv` says that the live
vector and every kept one list no entry twice and have their position within; then
what lies ahead of the position is what is left of the search, for each program, and
`SearchesApart` is the refinement of `ProcessSearch`, over any directory and any depth
of EXEC. `FileAndSearchTypes` is the types of both under the run's specification.

`CpuAluProofs`: `Progress` says, for each stage of a chain, what the words computed
so far and the carry in the flags amount to; the final stage gives `WideSums`,
`WideShifts` and `Branches` for words of any width.
`DecimalInv` does the same for the decimal instructions: AL, AH and the flags are what
the operands, encoded as digits, and then ADC, SBB or MUL make them, and
`DecimalsAreRight` follows by cases on the half carry and the carry. `RepInv` says of a
string instruction what memory holds after each element (`Copied`, `Spread`, `Filled`)
and that no element compared before ended the search (`Passed`); that different
elements of a run have different addresses in a segment that wraps is the arithmetic
of `RemaindersApart`. `StringsDoTheirWork` holds for segments of any size.

`CpuProofs`: for gates and rings, `GatesInv` says of every call outstanding, not only
of the last, that its words are intact on the ring it entered, that calls go inwards
only, and that on one ring a later call lies below an earlier one (`Nesting`).
`ReturnsGoBack` follows for stacks of any size and any depth. For the FPU the mapping
reads the registers from TOP round the file; the lemmas `Map...` say which step of
`EvalStack` each group of instructions is, and `RegistersAreAStack` is the refinement,
for any values and files of two, four or eight registers.

The assumptions are the named ones of the modules: the arena lies within 16-bit
paragraphs and DOS's owner number is no paragraph of it; the start-up blocks fit in
front of the program (`BootAssumption`: the environment of `main.cpp` 71 has room
below the program's paragraph, true unless the path is longer than a kilobyte); the
heap lies in the address space and starts, ends and wraps on page boundaries; a table
has at least the null descriptor, arguments are naturals and limits 32-bit; half a
word is not 0; there is at least one slot and one activation; an application's ring
is not 0; a directory is finite, and the marks for a free handle and the console are no
streams; owners are 16-bit words; patterns and names are sequences of letters, dots and,
in patterns, wildcards.

How a loop is reasoned about: a loop is a function from the number of turns to what the
loop holds then. That the function exists and satisfies its equations is shown by
induction over a set of turns (`Upwards`, `LoopRuns`), the library's well-founded
minimum applied to the set of counterexamples.

Only model-checked: the behaviour of DPMI guests that are not `Polite`, and liveness
(`HostStepsEnd`, `MatchReturns`), which is out of the prover's reach; for the second,
`TurnsDoAdvance` proves what its termination rests on.

## Where code and comments part

Five runs show a disagreement with a document of the repository (the findings in
PROJECT.json). Others were met while modelling and have no run of their own:

- the MCB chain is not rewritten when EXEC puts the parent's list back (`dos.cpp`
  497) or a failed load does (480): until the next memory call it shows blocks that are
  free (`ChainShowsAllocated` says what it still shows); nor is the environment of an
  EXEC freed that finds no room for the child (`dos.cpp` 476);
- AH=38h writes its case map at a fixed paragraph inside the arena (`dos.cpp` 829);
- EXEC in protected mode leaves PE set for the child (`dos.cpp` 479, `loader.cpp` 137);
- once the descriptor table is full every callback allocates its stack anew
  (`dpmi.cpp` 406), and with a full heap the stack is at address 0 (407);
- the host's reflection and callback stacks start at the top for every entry
  (`dpmi.cpp` 335, 447), and the hook of a freed callback never moves CS:IP
  (`dpmi.cpp` 428);
- "We write through" (`dos.cpp` 786, 1110) is not so: writes stay in stdio's buffer,
  and a second open of the file does not see them; create empties a file before it
  finds that there is no handle (`files.cpp` 127);
- `wildmatch` compares letters before it looks for a star (`dos.cpp` 509), so a star in
  a host file's own name is compared with the pattern's and uses it up: `*A` is not
  listed for a bare `*`, though dos.cpp 517 has that match a name like it (give `Letters` a
  star and TLC finds `VerdictIsGlob` violated);
- a client whose search is in two DTAs at a time has one vector for both, and a
  child's FindNext before any FindFirst goes on with its parent's search;
- LOOP and JCXZ use CX in 32-bit code too (`cpu.cpp` 842); rotates set ZF, SF and PF,
  which the processor leaves alone; DIV truncates a quotient that does not fit;
- FNCLEX clears the condition bits, and storing an infinity or a NaN as an 80-bit
  number writes zero, where `fpu.cpp` 16 says the format "has to keep its bit pattern".

## Not modelled

- The decoder, addressing modes and the instructions that only move data, the
  memory formats and rounding of the FPU, and the loaders: transformations of words,
  floating point and file images, with no control of their own that matters here.
- Path normalisation: strings, with no state but the current directory.
- Exception handlers of DPMI (0203h), which the code stores and never calls.
- Console, BIOS and clock answers, tracing, the web front end: I/O.
- Contents of memory blocks, names and file data.
