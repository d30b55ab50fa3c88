# masm2wasm in TLA+

masm2wasm translates 32-bit MASM programs (the Irvine32 classroom dialect) to a
WebAssembly module: a translator makes an intermediate program, a generator
patches it into a prebuilt template, and the template is a virtual machine that
runs it. This directory models the parts of that system whose correctness
depends on sequences of operations, checks the models with TLC, and proves
theorems about them with TLAPS.

All paths below are relative to `src/`.

## Inventory

| Part | State | Operations | Hard parts |
|---|---|---|---|
| Translator, procedures (`internal/masm/proc.go`, `parser.go`) | current procedure, its signature, aliases of parameters and locals, size of the local area and the instruction to patch with it | `beginProc`, `parseLocalLine`, `parseInvoke`, `rewriteRet`, `endProc` | both sides of a call are produced from different lines, possibly before the callee is known; LOCAL and ret may come in any order |
| Translator, blocks (`condition.go`) | three stacks of open blocks, label counter, labels placed | `openIf` ... `untilRepeat`, `compileCondFalse`, `compileCondTrue` | nesting and crossing of blocks; short-circuit jumps; flags that outlive their comparison |
| Translator, data, types (`parser.go`, `structs.go`) | data bytes, symbols, constants, STRUCT definitions, stack of open aggregates | `.data` lines, `STRUCT`/`UNION`, `LABEL`, `ALIGN` | alignment, nesting, initializers |
| Translator, compile time (`compiletime.go`, `expr.go`, macros in `parser.go`) | constants, macro definitions, expansion depth | `IF`/`REPT`/`WHILE`/`FOR`, `MACRO`, expressions | termination bounds, nesting |
| Program format (`vm/program.go`), generator, template (`internal/generator`, `cmd/vmtemplate`) | template bytes with a payload area of 1 MiB | `BuildProgram`, `loadProgram` | length at the limit, leftovers of an earlier payload |
| Machine, loop and control (`vm/machine.go`: `Run`, `execCall`, `execInvoke`, `execRet`, `execExit`, `jump`) | registers, memory, frames (procedure, pc) | one instruction a step | frames and stack slots kept apart and assumed in step; stack exhaustion |
| Machine, heap (`heapAlloc`, `heapFree`, `invokeHeap*`, `LocalFree`, `FormatMessage`) | `heapTop`, heap handles, live blocks, next handle, last error | the six calls | memory shared with data and stack; word arithmetic; handles and addresses used after they died |
| Machine, arithmetic | registers, flags | `add` ... `daa` | flags at boundaries, widths |
| Machine, files | handle table, next handle, last error (a string and a number) | Irvine, C and Win32 calls | three APIs on one table; partial failures; closing at the end |
| Machine, x87 (`fpu_extended.go`) | register stack, status, control | `fld` ... `fstp` | depth of the stack; operand forms; rounding and status that outlive an instruction |
| Machine, strings | ESI, EDI, ECX, direction flag | `movs`, `cmps`, `scas`, `stos`, `lods` with REP | zero counts, direction, overlap |
| Machine, console | buffered input, whether it can be peeked, cursor, screen buffer | `ReadChar`, `ReadKey`, `ReadString`, `ReadInt`, `scanf`, `ReadConsole`, `PeekConsoleInput`; output | one reader under three interfaces; lines against characters; the end of the input |
| Runner, commands (`internal/runner`, `cmd/*`) | files given as stdin, stdout | `run`, `build` | cleanup on error |

Everything runs in one goroutine: the hard behaviour is not interleaving of
threads but order - of the calls a program may make, of the lines its author
may write - and memory that data, heap and stack share without walls. Data flows
one way: text to `vm.Program`, that to bytes in the template, those to a
`Machine`. Within the machine the parts meet in the registers, the memory and
the last error.

What makes each part correct:

- Heap: live blocks are apart, between data and `heapTop`, belong to a live
  heap; a call changes no other block's bytes; dead handles stay dead; stack and
  heap keep clear of each other until ESP goes below `heapTop`.
- Calls: at every line the stack is where the text says it is; names of
  parameters and locals mean what the caller passed and the procedure stored; a
  procedure returns the stack, EBP and the registers it promises.
- Blocks: control goes from line to line as the text nests them, conditions
  evaluated left to right and no further than needed.
- Arithmetic: results and flags are those of the mathematical operation.
- Files: a handle means one open file from open to close; the last error tells
  of the last call; every file is closed in the end.
- x87: an expression leaves its value on top of what was below it, in whatever
  forms its operations are written; comparisons reach the jumps they are meant
  for.
- Strings: REP does ECX elements or stops where the comparison says, in the
  direction set, and faults with exactly the elements before the fault done.
- Console: the calls share out the input byte by byte; none loses or repeats what
  another is owed, but for the rests of lines that the code drops.
- Front end: the data are the bytes the program's structure says, a constant has
  the value it has at that place and round, no member overlaps another, every
  expansion ends.

## Modules

| Module | Models | Composes |
|---|---|---|
| `HeapSpec` | what a program may rely on from the heap calls (abstract) | |
| `Heap` | the allocator, all its calls, the stack and stores beside it | refines `HeapSpec` |
| `HeapProofs` | theorems about `Heap`, among them that it implements `HeapSpec` | `Heap`, TLAPS |
| `Operands` | operands of the intermediate program | |
| `Machine` | the interpreter's loop, frames, stack, calls and jumps | `Operands` |
| `Lowering` | translation of procedures to instructions | `Operands` |
| `Procs` | a source program, its translation, its run | `Machine`, `Lowering` |
| `ProcsProofs` | the types of `Procs`, for every program | `Procs`, TLAPS |
| `Discipline` | which translated programs keep their stack in order, and which cannot fault, told from their instructions alone | `Procs` |
| `Names` | which of them keep what their names stand for, told likewise | `Discipline` |
| `ShapeProofs` | that `Discipline` tells the truth of each instruction | `Discipline`, `ProcsProofs` |
| `DisciplineProofs` | and so of every run: theorems about the stack of calls | `ShapeProofs` |
| `RoomProofs` | that programs with room for their calls never fault | `DisciplineProofs` |
| `NamesProofs` | that the programs of `Names` keep their parameters and locals | `DisciplineProofs`, `Names` |
| `Alu` | results and flags of arithmetic instructions, the conditions of jumps | |
| `AluProofs` | theorems about `Alu` for every width | `Alu`, TLAPS |
| `Fpu` | the floating point stack and what its instructions compute, on exact numbers | |
| `Arith` | the interpreter running arithmetic code: operands, flags, loops | `Alu`, `Fpu` |
| `Strings`, `Floats`, `Console` | the string, floating point and console handlers, as actions of that interpreter | `Arith` |
| `Cpu` | all of them as one next-state relation | `Strings`, `Floats`, `Console` |
| `Idioms`, `Routines`, `FloatRoutines`, `ConsoleRoutines` | what several instructions achieve together, and promises about it | `Cpu` |
| `Conditions` | conditions: their compilation and meaning | `Alu` |
| `Blocks` | the reading of a procedure line by line, then its run | `Conditions` |
| `Source` | source lines as terms, and replacement in them | |
| `Macros` | the first pass: definitions and expansion of macros | `Source` |
| `CompileTime` | the second pass: compile-time blocks and assignments | `Macros` |
| `Aggregates` | initializers, STRUCT and UNION: what bytes a declaration is | `Source` |
| `DataLines` | the third pass: constants, types, labels, data, symbols | `CompileTime`, `Aggregates` |
| `Programs` | what a source means, told from its structure | `Source` |
| `FrontEnd` | the passes one after the other, and promises about them | `DataLines`, `Programs` |
| `Files` | handles, last error and files under three interfaces, with the host's files | |
| `FilesProofs` | theorems about `Files` | `Files`, TLAPS |
| `MCHeap`, `MCProcs`, `MCArith`, `MCBlocks`, `MCFiles`, `MCFrontEnd` | instances for TLC | |

### Heap

State: the fields of `Machine` of the same names; `memory` is the whole byte array,
`esp` the stack pointer. Each call is an action with its refusals as disjuncts;
the returned pointer is determined by the state (`BlockStart`) and left out, as
is the text part of the last error. `FormatMessage` is modelled in its
allocating form, with the fault it may die of after the block is given. The rest
of the program appears as `Store`, `SetESP`, `push32`, `pop32`: programs may
write anywhere and put ESP anywhere. Words are 0..WordSize-1 and wrap. Heap
properties compare blocks with blocks, with the data and with the stack.
`heapAlloc` looks at ESP and `push32` does not look at `heapTop`, so what can be
promised is conditional: `UsedBytesKept` says that while ESP is not below `heapTop`
no push, call of the heap or message changes a byte of a live block or of the stack
in use. It relates the comparison in `heapAlloc`, the fact that `heapTop` never comes
down and the direction both grow in; a push below `heapTop` overwrites blocks and
nothing in the code notices.

### Machine, Lowering, Procs

A slot of the stack is one unit of address and memory is the stack alone: the
calls, names and frames need no more. `Machine` has one action per instruction,
faults included: an instruction that fails may have changed part of the state,
and `Commit` keeps that part. `Lowering` is a function from a procedure's lines
to instructions, written as the translator writes them: the prologue of
`ensureFrameStarted`, the reservation `LOCAL` patches at ENDP, the epilogue of
`rewriteRet`, the pushes and the cleanup of `parseInvoke`, and whether the
callee's signature is known at that line. `Procs` adds what the source program
means - `acts`, one activation per frame with its arguments, locals and entry
registers - next to the machine, which never reads it; the properties compare
the two. Parameters are one word or two and an INVOKE passes any number of
words: `parseInvoke` compares nothing, so `StackBalanced` subtracts what such
calls leave (`Mismatch`) and `ParamsNamed` speaks of the words there are.

### Alu, Fpu, Arith and the routines

`Alu` has one operator per handler of `vm/machine.go` that computes: it takes
operands and flags and returns what is stored and the flags after it. The width
is a parameter; the code repeats each computation for 8, 16 and 32 bits. `Arith`
is the machine around them, one action per handler: operands in registers,
immediates and memory at a displacement from an index (one cell to a word), the
fault of an address outside memory and of a divisor of 0, flags saved and
restored as EFLAGS words. `Idioms` holds short programs of the kind `vm/*_test.go`
and the Irvine examples have, and states what each must achieve in terms of the
numbers alone: sums of several words, negation, comparison from the top word
down, search, shifts of a pair through the carry, a quotient multiplied back,
branches, decimal sums. `Routines` goes on with blocks of cells moved, filled,
searched, compared and mapped, bits counted, reversed and set, cells updated by
exchanging. The code of an idiom is not from the repository; every instruction
in it is. Where an operand of `xchg` or `xadd` is addressed by the register it is
exchanged with and the register is stored first, `assign` finds the cell again
through its new value (`vm/machine.go:2103`, `:2255`), not as the processor does;
`ExchangesKeep` states both orders, and the fault, as the code has them.

`Cpu` is one next-state relation over all of the handlers, so a routine may mix them:
`Idioms` and what extends it run the tasks of `MCArith`, each some code and its starts, and
state what must hold once the code has ended (`Ended`), or how it must fault. A repetition
of `Strings` is one instruction, carried out element by element until its count or its
comparison ends it or an element is outside memory; what was moved before then
stays moved.

`Fpu` keeps numbers exactly, as fractions, with NaN for comparisons: what is
modelled is which registers an operation names, in which order its operands
stand, what is popped, to what whole number a conversion rounds, and what the
status word says after. `FloatRoutines` writes one expression in six forms for
each of its two operations and demands one result and nothing else on the stack.

`Console` has the input as the bytes still unread (`stdin`) and whether they can be
looked at without waiting (`peekable`, the field `peekableInput`). A line is
read to its newline, or to the end, where it is empty and no error. `ConsoleRoutines`
splits the typed text into lines once, by its newlines, and says what a mixture
of calls must have read of them.

### Conditions, Blocks

`Blocks` reads any line that may be written and does what the translator's
handler does: pushes or pops the stack of that kind of block, adds instructions
and places labels; a line without its opener is refused. `endProc` starts the
machine on the result. "mark" lines are the rest of the program, after which
registers and flags hold anything. What the lines mean is stated from the lines
alone (`Level`, `Following`, `Meaning`), never from labels or jumps, and `goal`
holds where they say control goes next; `FollowsBlocks` compares it with where
the machine goes. `Conditions.compileCond` is `compileCondFalse` and
`compileCondTrue` in one definition with the sense as a parameter; `Evaluate`
is the reference: left to right, no further than needed, comparisons signed (as
`condition.go` has them), `ZERO?` and `CARRY?` as the last executed comparison
left the flags. It is recursive over condition trees, so the module is for TLC.

### Source to FrontEnd

A source text is a sequence of lines already told apart by what they declare; an
expression is a term, a name plus a number. That is enough for
replacement, evaluation and the order of both, which is where the three passes
can go wrong, since each sees only what the one before put out. `Macros` works
through the lines, bodies in front with their depth; `CompileTime` has the recursion of
`expandCompileTimeBlock` as a stack of frames; `DataLines` has the fields of the
parser. One step is one line of one pass. `Programs` tells the same programs as
nested nodes: it carries them out with one set of constants in one pass
(`Elaborated`) and lays the data out (`Image`), and never sees a line, a label made for LOCAL or an
offset to patch. `DataAsWritten` compares the two at the end. Assignments
in a loop are carried out by the second pass alone (`frontend_constants`), so the programs of
`frontend` give their constants values again before they use them after a loop;
inside, every round has its own.

Members that are arrays of aggregates get the room of one element
(`structs.go:360`): `MembersApart` leaves out aggregates that have one.

### Files

`files`, `nextHandle`, `lastErrorCode` and `lastError` are the fields of `Machine`;
`disk` and `opened` are the host's, modelled from the calls of package `os`: what
may be read or written, where appends go, what a gap holds, writes cut short
when the host has no room, a close that reports an error though the file is
closed. One definition serves each kind of call (`Open`, `Close`, `Read`, `Write`)
with the interface as a parameter, since the handlers differ in where they leave
their answer (EAX and carry, EAX and a word in memory) and in which half of
the last error they set; CloseFile alone ends the program when the host's close
fails. Two ghosts say what the program makes of the answers: `outcome` of the last
call (its interface, whether it was told of a failure, the bytes it was told
went through), `known` where it believes each handle stands, by adding up the
counts and moves it was told. `KnowledgeHolds` compares both with the host. A
position whose low half is 0FFFFFFFFh looks like a failure of `SetFilePointer`;
`LastErrorTells` has that exception. A pointer to the high half
that leaves memory ends the program at the read; the write back through it (`vm/machine.go:4260`)
cannot fail after that read. The branch that sets code 87 after a failed
seek (`vm/machine.go:4253`) is dead: `setOSError` never leaves 0 for an error.

## Runs

| Run | Question | Bounds |
|---|---|---|
| `heap_safety` | are blocks safe under every sequence of calls, zero sizes and wild stack pointers included? | 16 bytes, 4 of data, words modulo 64, sizes 0, 3, 8, two heaps beside the process heap (so one can be created after another is destroyed); three blocks fit, so there is a neighbour on each side. The same run checks that the allocator implements `HeapSpec` |
| `heap_wrap` | (violated) is no block ever at NULL? | a size near the word size |
| `procs` | do calls keep stack, names and registers? | main calls P twice, P calls Q up to twice, in 432 choices of USES, parameters, LOCALs and bodies; 29 programs of calls by hand and through words, jumps, faults, ENTER to level 3, and recursion that exhausts the 40 slots of stack; 15 programs whose parameters are one word or two, alone and in pairs, and whose INVOKEs pass one to three words. `Orderly` are the 432 and 11 of the calls by hand, the ones that must never fault |
| `procs_noargs` | (violated) does an INVOKE without arguments run? | 5 procedures, 40 slots of stack as in `procs`, of whose programs this run evaluates the hypotheses of the proofs |
| `procs_cdecl` | (violated) does INVOKE of a C procedure leave the stack balanced? | 2 procedures |
| `arith` | do idioms of several instructions achieve what they are for? | bytes around every boundary (0, 127/128, 255) in every operand, a wider spread where there are two; numbers of two words, so every carry, borrow and wrap happens at a first and at a last word; shift counts to the width, rotation counts around the width, the width with carry, 31 and 32; loops entered with 0; packed bytes that carry, only just carry or do not; every pair of digit characters, with and without carry. Blocks of 0 to 3 cells at every place of a memory of 7 and past its end, in both directions; fractions no two of whose results are alike, up to nine numbers on the stack, four roundings; texts of up to two lines of 9 kinds, with and without a last newline, peekable or not |
| `frontend` | do the passes lay out what the program's structure says, and always end? | blocks two deep, every kind in every other, with up to three rounds, and assignments before, in and after them; macros with parameters given, left out and missing, with locals, in each other and calling themselves; aggregates with arrays, nesting, unions, ALIGN and every form of initializer; 3 for the depth of macros and 4 for the rounds of WHILE, where the code has 32 and 100,000; and texts that are no programs |
| `frontend_constants` | (violated) does a constant have one value in both passes? | the loops of `frontend` alone |
| `arith_product` | (violated) does `imul a,b` leave a*b? | bytes |
| `blocks` | do all texts run as they read, and does control follow every condition? | two menus. Every sequence of up to 6 lines of 10 kinds, with one condition that may hold or not: six lines nest blocks three deep and let each kind cross each other. And 20 conditions under .IF/.ELSEIF/.ELSE, .WHILE, .REPEAT, with two registers of 2 bits of every value and both flags |
| `blocks_unclosed` | (violated) is a procedure with an open block refused? | 4 lines |
| `files` | do handles, last error, counts and positions tell of the host's files, whatever mixture of calls? | one file, one name denied and one in no directory; two openings, so every handle meets a dead one and another on the same file; files of two bytes, writes of up to three (one past the program's buffer, or cut short by the host); words of two bits and distances of one or two of them, of either sign; positions to 4, one past the last word's, so that a position needs its high half; openings for reading, for both, and for appending only |

Two properties are of liveness. `TaskEnds` of `arith`: code comes
to its end or to a fault, the loop instructions entered with a count of 0 included; it assumes
weak fairness of `Next`, since `Run` executes instructions until the program is over and
waits for nothing (no call of the models blocks: input that was typed is there,
and after it comes the end). `TranslationEnds` of `frontend`: every translation is done or refused, also of
programs that expand for ever but for the limits; the translator, too, runs
until it is done. The other properties are invariants and action properties, where a program may loop
or stop wherever it likes. Deadlock is not checked because
every model has a proper end (a program that exits or faults, a translation
done, a bound on lines or handles).

### What the violations show

- `heap_wrap`: `heapAlloc` computes the end of a block modulo 2^32
  (`vm/machine.go:6026`), so a request just below 2^32 passes both comparisons and
  moves `heapTop` to 0; the next block is at NULL, over the data, where the
  README promises nothing is.
- `procs_noargs`: `execInvoke` calls `execCall` on a frame list of its own
  (`vm/machine.go:2410`): the return address is pushed, the procedure is not
  entered.
- `procs_cdecl`: for C procedures neither `ret` nor the line after the call
  removes the arguments (`internal/masm/proc.go:164`, `parser.go:1180`).
- `arith_product`: `execIMul` (`vm/machine.go:1002`) takes both factors of a
  two-operand `imul` from the second operand; the first is only written.
- `frontend_constants`: the body of a loop is expanded without putting out its assignments
  (`internal/masm/compiletime.go:258`). `x = 0`, then `x = x + 1` twice in a REPT, then
  `BYTE x`: the data gets 0, while the compile-time pass has 2.
- `blocks_unclosed`: `endProc` clears the stacks that `parse` later inspects for
  "unterminated .IF block" (`proc.go:80`, `parser.go:677`).

Faults met without a run of their own.
`execAdcSbb` (`vm/machine.go:809-814`, and 819-825 for `adc`) cuts operand plus
carry to the width before it computes OF. With a borrow and the greatest signed
word that sum is the least one and OF is wrong, so `cmp`, `sbb`, `jl` misjudge such
pairs. `WideOrder` excepts them; `BorrowedOrder` proves that this operand is the
only one. A member that is an array of an aggregate has the room of one element.
Aggregates in line are kept under the name of their member and depth, so a second
type with a member of that name replaces the first's. `IFNB` is listed in the
repository's README (`README.md:241`) and not in `expandCompileTimeBlock`:
its ENDIF is refused as unexpected.

## Proofs

`HeapProofs` proves for every memory, word and data size, every number of
handles and every set of requests:

- `Typing`: `Spec => []TypeOK`, from the assumptions on the constants alone,
  requests that wrap included.
- `HeapInvariant`, and from it `Disjointness`, `Containment`, `Ownership`, under
  `NoWrap`: no request is so large that adding it to the end of memory exceeds
  a word. `heap_wrap` shows that the assumption is needed. The inductive
  invariant is `HeapInv`, the conjunction of `TypeOK`, `BlocksDisjoint`, `BlocksInHeap` and
  `BlocksOwned`: that a new block is apart from the others follows only because
  all the others end at or below `heapTop` (`BlocksInHeap`), and zero-size blocks, which share
  an address with the next one, are why disjointness is stated with ends and
  starts rather than with sets of bytes.
- `NoHandleRevived`: a destroyed handle never comes back, from `Typing` alone:
  every handle ever given out is below `nextHeapHandle`.

- `DataKept` (`LiveDataKept`): no call changes a byte of a block that stays live:
  what a call writes is the new block, which starts at or above `heapTop` and is
  not live yet, or the block it takes back, which is apart from the others.
- `StackKeptClear` (`UsedBytesKept`): while ESP is not below `heapTop`, only the
  program's own stores and the pointer of `FormatMessage` change a byte in use. From
  `HeapInv`, a byte in use is below `heapTop` or at ESP or above (`UsedPlace`); a
  grant writes between the two (`GivenUnused`), a free below `heapTop` to bytes that
  then are nobody's (`FreeSpares`), a push just below ESP (`PushSpares`).

The step of the invariant goes through `StepShape`: every action grants one
block, or leaves the blocks or takes some away, so the arithmetic is done once.

The second half of `HeapProofs` proves `Refinement`: under `NoWrap`, `Spec => ImplementsHeapSpec`.
The abstract heap sees the blocks with room (`RoomyBlocks`) and every handle ever given
out. Each action has a lemma that makes it a step of `HeapSpec` or a stutter, under
`HeapInv`: a grant with room is an `Alloc` apart from all others (`GrantRefines`), one
without room is not seen or, from `FormatMessage`, is the `Store` of its address; a
refusal, a free of a block without room and a move of ESP are stutters.

`AluProofs` proves for every width of words, from `WordAssumption` alone:

- `SumsExact`, `DifferencesExact`: result and carry of `add`, `adc`, `sub`, `sbb`
  make up the exact sum or difference; `TwoWordSum` chains `add` and `adc`.
- `JumpsDecide`: after `cmp` or `sub`, ten conditional jumps are taken exactly
  when their relation holds.
- `BorrowedOrder`: after `sbb`, SF and OF tell the sign of the exact difference
  but for one operand, the greatest signed word.

They rest on `Truncated`: a number less than 2^n outside the words is brought back
by adding or subtracting 2^n once, which turns every remainder into a case
distinction.

`FilesProofs` proves for every set of names, texts, sizes and places, every host and every
number of openings, from `FilesAssumption` - words of an even number of values, as `2^32` is, and a
host whose room ends no later than the greatest position:

- `FilesTyped`, `HandlesInStep`, `ErrorsTold`, `KnowledgeKept`: the four invariants of
  the run. `FilesInv` is their conjunction with `Typed`, which adds what `TypeOK` leaves
  unsaid: each variable is a function of its kind, and no more handles were given out than
  files were opened. That no two handles stand for one opening of the host
  (`HandlesMatchHost`) is what makes a close, a write or a seek leave what is known of the others
  alone; that a position told is the file's own needs the last error to be right.
- `HandlesNeverRevive`: a closed handle stays dead, since every handle in the table is below
  `nextHandle` and that only grows.

The lemma that took the most is `DistanceIsMeant`: the halves of a distance, low word unsigned
and high word signed, make up the distance the program meant, whatever the width.

`ProcsProofs` proves `ProcsTyped`: `Spec => []TypeOK` for every program, whether or not it makes
sense. Its `Typed` adds that the code is the translation of the source, and that frames and
activations are records of their kinds. A procedure's code is a concatenation of as
many sequences as it has lines (`FlattenSeq`); that it is a sequence, so that a place in it
means something, is shown by `SetInduction` on the set of the numbers of lines for which it
holds, an induction that needs no operator as parameter.

`ShapeProofs` and `DisciplineProofs` prove what the code relies on and never checks. `ret` takes
the place to return to from the list of frames and only drops a word of the
stack (`vm/machine.go:2419`), so whatever the instructions between a call and its ret do must
leave that word under ESP. `Discipline` decides this without running the program: before
every instruction of a procedure a shape says how many slots were pushed since the call, and of
each slot and register that it is the caller's, an address in the frame, or
unknown; `Verified` says that the shapes agree from each instruction to those that may
come next, `Balanced` that at each line their depth is the text's. Then:

- `ReturnsIntact`: `Spec => [](Disciplined(source) => ReturnSlotsIntact)`
- `CalleesRestore`: if all `Sources` are `Disciplined`, `Spec => CalleeRestores`
- `StackInStep`: `Spec => [](DisciplinedLines(source) => StackBalanced)`

for every depth of calls, recursion and a stack that runs out included. None of the three is
inductive, since each speaks of one place and a step may write anywhere the
registers point. `InShape` is: for the running frame, registers and slots are what its shape
says (`Placed`); a frame that waits will find the stack pointer and the registers its shape
expects from what the called procedure promises (`Waiting`); and what a frame may
write, its own slots and its arguments, lies below all that the frames waiting
for it know of (`Apart`). A call moves a frame from the first to the second, a ret back.

The verifier accepts writes to memory only through a register known to hold an address of
the frame, to an argument or to a slot of which nothing is known (a local). It
rejects calls through a word, calls of the entry procedure, ENTER with a level above 0,
pops to memory, INVOKEs with fewer words than the callee removes, and any ret of
a procedure that does not leave what it found.

`RoomProofs` proves that verified programs do not fault when memory suffices. `Roomy` asks for
`need`, a number for each procedure of the slots it pushes, those of the procedures it calls
included, such that the entry procedure's fits in memory; and that every instruction has what
it works on: a slot that was pushed or an argument under each operand in memory, a procedure
to call, a place to jump to, a caller to return to. Procedures that call each other
have no such number, as they must not: without data in the model both ways of a jump are possible, so
recursion does exhaust the stack. Then

- `ContainedNeverFault`: `Spec => [](Contained(source) => status # "error")`
- `OrderlyNeverFault`: if all `Orderly` programs are `Contained`, `Spec => []NeverFaults`

The invariant `Sheltered` says of every frame that its return slot lies above `need` slots of
memory (`Room`); a call hands the callee what its own `need` asks for. `NoFault` then goes
through the instructions one by one, and every one of their refusals contradicts `Roomy`.

`NamesProofs` proves that names keep their meaning. `KeepsNames` extends the shapes by three things:
`set`, which locals are assigned before an instruction; `passed`, how many words of an INVOKE
are on the stack; `words`, how many words every call of a procedure passes at least. It asks
that nothing writes to a local's slot but the line assigning it, that such a line moves what it says, that
an INVOKE pushes its arguments from the last to the first with operands the shape understands, that
the callee's arguments end below the caller's locals, and that EBP holds the frame
wherever a line of a procedure with parameters starts. Then, with
`Faithful(src) == \E shape, names : Verified(src, shape) /\ KeepsNames(src, shape, names)`:

- `LocalsAreKept`: `Spec => [](Faithful(source) => LocalsKept)`
- `ParamsAreNamed`: `Spec => [](Faithful(source) => ParamsNamed)`

recursion until memory ends included. The invariant is `NamesKept`: for every frame the
slots of its locals hold `acts[f].locals` and the words above its return slot `acts[f].args`
(`NamesHeld`); what a frame may write lies below the locals of those waiting for it
(`LocalsApart`), which the shapes alone leave open, a local being a slot of which nothing is known; and in the
middle of an INVOKE the pushed words are the last of `pending`, while the operands of the
others still mean what they meant when the line began (`Passing`). That is why
`ParamsNamed` is not inductive by itself: the argument an activation is given is fixed at the start of
the line, and the machine pushes one word at a time, with ESP moving.

It rejects a procedure that writes to its own parameters, of which `ParamsNamed` is not meant, and
a local or an argument that is given ESP.

That the hypotheses are met is evaluated, not assumed: `ProgramsAreDisciplined` in `MCProcs` computes
shapes, needs and names. All 432 programs of INVOKEs and 13 others (recursion,
jumps, ENTER, arguments by hand) are verified with their lines; all of them but the recursive
ones have room in the 40 slots of the run; and 453 keep their names: these without the one that changes its
parameter, and the 9 of the 15 with parameters of one word or two whose INVOKEs pass enough words. It
fails when, say, the epilogue restores registers in the order it saved them. That
every translation of a sensible source is accepted would be induction over its lines and is not proved.

Only model-checked: of procedures the programs the verifiers reject, where the
properties hold all the same; everything about blocks, floating point,
strings, console and the front end, and of arithmetic the shifts, rotations, products, quotients and decimal adjustments;
`TaskEnds` and `TranslationEnds` too, liveness being out of the prover's reach.
`Conditions`, and `Source` with all that extends it, hold recursive operators, and
`Arith` with all that extends it the bitwise ones of the library: none of them can
be proved about. `Alu` uses neither.

## Not modelled

- Text recognition (regular expressions, tokenizers, quoting), message wording,
  console escape sequences, number formatting, host time and randomness, JSON and
  the WebAssembly runtime: wide input spaces, little state.
- Of the instructions: the parity flag (`cmovp` and `setp` read it, no jump
  does), moves between widths (`movzx`, `movsx`, `cbw`, `cwde`), `bswap`, and operands of
  different widths in one program, since memory has one cell to a word.
- Of floating point: square roots, powers, logarithms, trigonometry, `fstenv`
  and `fldenv`, quotients by 0, conversions of NaN, how the host rounds, and
  `fcomp` without an operand.
- Of the console: output, cursor, colours, screen buffer, `ReadFloat`, the choice of
  `MessageBox`; in `scanf` `%f`, the prefix 0x and a mixture of directives; all
  but the character of an input record.
- Of the front end: TEXTEQU and texts by EQU, `%`, IFIDNI, echo, strings
  and real numbers as initializers, LENGTHOF, SIZEOF and TYPE, the operators of
  constant expressions, operands (members among them), and the lines of code
  beyond what `Lowering` and `Blocks` translate.
- Irvine's `Str_` routines and dumps: single loops over bytes or formatting.
- Program format, runner, commands and version: sequential wiring.

## Plan

Done: `Heap` with its proofs and its refinement; `Machine`, `Lowering`, `Procs` with the proofs
of their types, of the stack of calls, of its room and of the names on it;
`Conditions`, `Blocks`; `Alu` with its proofs, `Arith` and the routines on it;
`Files` with its proofs; the floating point stack, strings and the reading of the console; the
front end as far as it lays out data.

Left, in the order of what it would add:

1. Operands of different widths: registers with parts, memory in bytes.
2. Constant expressions and operands against a reference evaluation.
3. Console output as the screen buffer; the payload's length check.
