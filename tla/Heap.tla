-------------------------------- MODULE Heap --------------------------------
(***************************************************************************)
(* The heap of the virtual machine (vm/machine.go).  Memory is one array:   *)
(* the program's data at the bottom, the heap growing up from its end, the  *)
(* stack growing down from the end of memory.  The heap is a bump allocator *)
(* - heapTop only ever moves to the end of the block just given out - with  *)
(* a table of live blocks that HeapFree and HeapDestroy consult.  All of    *)
(* its arithmetic is on 32-bit words and wraps.                             *)
(***************************************************************************)
EXTENDS Integers

CONSTANTS WordSize,     \* 2^32: words are 0..WordSize-1
          MemSize,      \* len(m.memory)
          DataSize,     \* len(program.Data)
          Byte,         \* the values a byte of memory takes
          Dwords,       \* the 4-byte values pushed, as [0..3 -> Byte]
          Sizes,        \* the sizes a program asks HeapAlloc for
          MessageSizes, \* len(message)+1 of the texts FormatMessage returns
          FreeArgs,     \* the addresses a program asks to be freed
          StoreAddrs,   \* where the program writes bytes of its own
          StackPtrs,    \* the values ESP is set to by mov, add, sub, lea...
          MaxHandle     \* bound: HeapCreate is called while handles are below it

Word == 0..(WordSize - 1)
Address == 0..(MemSize - 1)
HandleArgs == 0..MaxHandle

\* The reserved low words make a program's data at least 4 bytes long, and
\* memory is 1 MiB longer than the data.
ASSUME MemoryAssumption ==
  /\ WordSize \in Nat /\ MemSize \in Nat /\ DataSize \in Nat
  /\ WordSize % 4 = 0
  /\ 4 <= DataSize /\ DataSize + 8 <= MemSize /\ MemSize + 8 <= WordSize

ASSUME InputAssumption ==
  /\ 0 \in Byte /\ Dwords \subseteq [0..3 -> Byte]
  /\ Sizes \subseteq Word /\ MessageSizes \subseteq Word
  /\ FreeArgs \subseteq Word
  /\ StoreAddrs \subseteq Address /\ StackPtrs \subseteq Word
  /\ MaxHandle \in Nat /\ 2 <= MaxHandle /\ MaxHandle < WordSize

VARIABLES heapTop,        \* where the next block starts
          nextHeapHandle,
          heapHandles,    \* the handles of the heaps that exist
          heapAllocs,     \* live blocks: start address -> [handle, size]
          memory,         \* m.memory: address -> byte
          esp,            \* m.regs[regESP]
          lastErrorCode,
          running         \* FALSE once an error has ended Run

heapVars == <<heapTop, nextHeapHandle, heapHandles, heapAllocs>>
vars == <<heapTop, nextHeapHandle, heapHandles, heapAllocs, memory, esp,
          lastErrorCode, running>>

processHeapHandle == 1
-----------------------------------------------------------------------------
\* The sum of two words is below 2 * WordSize and their difference above
\* -WordSize, so wrapping is one subtraction or one addition.
Wrap(n) == IF n >= WordSize THEN n - WordSize ELSE n

\* Mutant of Minus: a difference below 0 stays there, as with signed arithmetic.
SignedMinus(a, b) == a - b

Minus(a, b) == IF a >= b THEN a - b ELSE a - b + WordSize

\* Mutant of alignUp32: rounds down.
alignDown32(v) == v - (v % 4)

alignUp32(v) == IF v % 4 = 0 THEN v ELSE Wrap(v + 4 - (v % 4))

Init == /\ heapTop = alignUp32(DataSize)
        /\ nextHeapHandle = 2
        /\ heapHandles = {processHeapHandle}
        /\ heapAllocs = << >>
        /\ memory = [a \in Address |-> 0]
        /\ esp = MemSize
        /\ lastErrorCode = 0
        /\ running = TRUE

\* memory with the bytes lo..hi-1 replaced by f; nothing when hi <= lo
Overwrite(mem, lo, hi, f(_)) ==
  [a \in Address |-> IF lo <= a /\ a < hi THEN f(a) ELSE mem[a]]

\* Mutant of Zeroed: the loop runs to hi itself.
ZeroedThrough(mem, lo, hi) == Overwrite(mem, lo, hi + 1, LAMBDA a : 0)

Zeroed(mem, lo, hi) == Overwrite(mem, lo, hi, LAMBDA a : 0)

PutDword(mem, at, d) == Overwrite(mem, at, at + 4, LAMBDA a : d[a - at])

LastError(code) == lastErrorCode' = code

Dies == running' = FALSE
Continues == running' = TRUE

\* readMemory and writeMemory refuse a dword that is not all in memory.
DwordInMemory(at) == at + 4 <= MemSize
-----------------------------------------------------------------------------
(***************************************************************************)
(* heapAlloc and heapFree, which every heap call goes through               *)
(***************************************************************************)
BlockStart == alignUp32(heapTop)
BlockEnd(size) == Wrap(BlockStart + alignUp32(size))

\* Mutant of Fits: the stack is not looked at.
FitsInMemory(size) == BlockEnd(size) <= MemSize

Fits(size) == BlockEnd(size) < esp /\ BlockEnd(size) <= MemSize

\* Mutant of GrantBlock: heapTop is not moved.
GrantWithoutTop(handle, size) ==
  /\ heapAllocs' = [a \in DOMAIN heapAllocs \union {BlockStart} |->
                      IF a = BlockStart
                      THEN [handle |-> handle, size |-> Minus(BlockEnd(size), BlockStart)]
                      ELSE heapAllocs[a]]
  /\ UNCHANGED <<heapTop, nextHeapHandle, heapHandles>>

\* The success path of heapAlloc, memory apart.
GrantBlock(handle, size) ==
  /\ heapTop' = BlockEnd(size)
  /\ heapAllocs' = [a \in DOMAIN heapAllocs \union {BlockStart} |->
                      IF a = BlockStart
                      THEN [handle |-> handle,
                            size |-> Minus(BlockEnd(size), BlockStart)]
                      ELSE heapAllocs[a]]
  /\ UNCHANGED <<nextHeapHandle, heapHandles>>

HoldsBlock(handle, addr) ==
  addr \in DOMAIN heapAllocs /\ heapAllocs[addr].handle = handle

\* Mutant of ReleaseBlock: the room is taken back by moving heapTop down to it.
ReleaseAndRewind(addr) ==
  /\ heapAllocs' = [a \in DOMAIN heapAllocs \ {addr} |-> heapAllocs[a]]
  /\ memory' = Zeroed(memory, addr, Wrap(addr + heapAllocs[addr].size))
  /\ heapTop' = addr
  /\ UNCHANGED <<nextHeapHandle, heapHandles>>

\* The success path of heapFree for a block: heapTop stays where it is.
ReleaseBlock(addr) ==
  /\ heapAllocs' = [a \in DOMAIN heapAllocs \ {addr} |-> heapAllocs[a]]
  /\ memory' = Zeroed(memory, addr, Wrap(addr + heapAllocs[addr].size))
  /\ UNCHANGED <<heapTop, nextHeapHandle, heapHandles>>
-----------------------------------------------------------------------------
(***************************************************************************)
(* The calls.  What they return in EAX is left out: a call that succeeds    *)
(* clears lastErrorCode, and the pointer HeapAlloc returns is BlockStart.   *)
(* GetProcessHeap only returns processHeapHandle.                           *)
(***************************************************************************)
\* Mutant of HeapCreate: takes the lowest handle that is free.
HeapCreateReusing ==
  /\ nextHeapHandle < MaxHandle
  /\ nextHeapHandle' = nextHeapHandle + 1
  /\ heapHandles' = heapHandles \union
       {CHOOSE h \in 1..nextHeapHandle : /\ h \notin heapHandles
                                         /\ \A k \in 1..(h - 1) : k \in heapHandles}
  /\ LastError(0)
  /\ UNCHANGED <<heapTop, heapAllocs, memory, esp>>

HeapCreate ==
  /\ nextHeapHandle < MaxHandle
  /\ nextHeapHandle' = nextHeapHandle + 1
  /\ heapHandles' = heapHandles \union {nextHeapHandle}
  /\ LastError(0)
  /\ UNCHANGED <<heapTop, heapAllocs, memory, esp>>

\* Mutant of HeapDestroy: the heap's blocks stay in the table.
HeapDestroyKeepingBlocks(handle) ==
  /\ heapHandles' = IF handle = processHeapHandle THEN heapHandles ELSE heapHandles \ {handle}
  /\ LastError(IF heapHandles' = heapHandles THEN 6 ELSE 0)
  /\ UNCHANGED <<heapTop, nextHeapHandle, heapAllocs, memory, esp>>

HeapDestroy(handle) ==
  /\ UNCHANGED <<memory, esp>>
  /\ \/ /\ handle = processHeapHandle \/ handle \notin heapHandles
        /\ LastError(6)
        /\ UNCHANGED heapVars
     \/ /\ handle # processHeapHandle /\ handle \in heapHandles
        /\ heapHandles' = heapHandles \ {handle}
        /\ heapAllocs' = [a \in {b \in DOMAIN heapAllocs :
                                   heapAllocs[b].handle # handle} |-> heapAllocs[a]]
        /\ LastError(0)
        /\ UNCHANGED <<heapTop, nextHeapHandle>>

\* zero: the HEAP_ZERO_MEMORY bit of the flags
HeapAlloc(handle, zero, size) ==
  /\ UNCHANGED esp
  /\ \/ /\ handle \notin heapHandles
        /\ LastError(6)
        /\ UNCHANGED <<heapVars, memory>>
     \/ /\ handle \in heapHandles /\ ~Fits(size)
        /\ LastError(8)
        /\ UNCHANGED <<heapVars, memory>>
     \/ /\ handle \in heapHandles /\ Fits(size)
        /\ GrantBlock(handle, size)
        /\ memory' = IF zero THEN Zeroed(memory, BlockStart, BlockEnd(size)) ELSE memory
        /\ LastError(0)

HeapFree(handle, addr) ==
  /\ UNCHANGED esp
  /\ \/ /\ addr = 0
        /\ LastError(0)
        /\ UNCHANGED <<heapVars, memory>>
     \/ /\ addr # 0 /\ HoldsBlock(handle, addr)
        /\ ReleaseBlock(addr)
        /\ LastError(0)
     \/ /\ addr # 0 /\ ~HoldsBlock(handle, addr)
        /\ LastError(6)
        /\ UNCHANGED <<heapVars, memory>>

LocalFree(addr) == HeapFree(processHeapHandle, addr)

\* memory after the message (size bytes with its terminator) is written to a
\* zeroed block
WithMessage(size, char) ==
  Overwrite(Zeroed(memory, BlockStart, BlockEnd(size)), BlockStart, BlockStart + size,
            LAMBDA a : IF a = BlockStart + size - 1 THEN 0 ELSE char)

(***************************************************************************)
(* FormatMessage with FORMAT_MESSAGE_ALLOCATE_BUFFER: a block of the        *)
(* process heap for the message, its address (the dword d) stored where     *)
(* bufferArg points.  The store may fault, the block being already given.   *)
(* The text is a run of one non-zero byte.                                  *)
(***************************************************************************)
FormatMessage(size, char, bufferArg, d) ==
  /\ UNCHANGED esp
  /\ \/ /\ ~Fits(size)
        /\ LastError(8) /\ Continues
        /\ UNCHANGED <<heapVars, memory>>
     \/ /\ Fits(size) /\ DwordInMemory(bufferArg)
        /\ GrantBlock(processHeapHandle, size)
        /\ memory' = PutDword(WithMessage(size, char), bufferArg, d)
        /\ LastError(0) /\ Continues
     \/ /\ Fits(size) /\ ~DwordInMemory(bufferArg)
        /\ GrantBlock(processHeapHandle, size)
        /\ memory' = WithMessage(size, char)
        /\ lastErrorCode' = 0 /\ Dies

-----------------------------------------------------------------------------
(***************************************************************************)
(* The rest of the program: its own stores, its stack                       *)
(***************************************************************************)
Store(addr, byte) ==
  /\ memory' = [memory EXCEPT ![addr] = byte]
  /\ UNCHANGED <<heapVars, esp, lastErrorCode>>

SetESP(value) ==
  /\ esp' = value
  /\ UNCHANGED <<heapVars, memory, lastErrorCode>>

StackSlot == Minus(esp, 4)

push32(d) ==
  /\ \/ /\ DwordInMemory(StackSlot)
        /\ memory' = PutDword(memory, StackSlot, d)
        /\ esp' = StackSlot
        /\ Continues
     \/ /\ ~DwordInMemory(StackSlot)
        /\ UNCHANGED <<memory, esp>>
        /\ Dies
  /\ UNCHANGED <<heapVars, lastErrorCode>>

pop32 ==
  /\ \/ DwordInMemory(esp) /\ esp' = esp + 4 /\ Continues
     \/ ~DwordInMemory(esp) /\ UNCHANGED esp /\ Dies
  /\ UNCHANGED <<heapVars, memory, lastErrorCode>>

HeapCall ==
  \/ HeapCreate /\ Continues
  \/ \E h \in HandleArgs : HeapDestroy(h) /\ Continues
  \/ \E h \in HandleArgs, zero \in BOOLEAN, s \in Sizes : HeapAlloc(h, zero, s) /\ Continues
  \/ \E h \in HandleArgs, a \in FreeArgs : HeapFree(h, a) /\ Continues
  \/ \E a \in FreeArgs : LocalFree(a) /\ Continues

FormatCall ==
  \E s \in MessageSizes, c \in Byte \ {0}, b \in StoreAddrs \union {MemSize - 1}, d \in Dwords :
    FormatMessage(s, c, b, d)

ProgramStep ==
  \/ \E a \in StoreAddrs, v \in Byte : Store(a, v) /\ Continues
  \/ \E v \in StackPtrs : SetESP(v) /\ Continues
  \/ \E d \in Dwords : push32(d)
  \/ pop32

Next == running /\ (HeapCall \/ FormatCall \/ ProgramStep)

Spec == Init /\ [][Next]_vars
-----------------------------------------------------------------------------
(***************************************************************************)
(* Properties                                                               *)
(***************************************************************************)
\* Types of the machine's fields.
TypeOK ==
  /\ heapTop \in Word
  /\ nextHeapHandle \in 2..MaxHandle
  /\ heapHandles \subseteq 1..(nextHeapHandle - 1)
  /\ DOMAIN heapAllocs \subseteq Word
  /\ \A a \in DOMAIN heapAllocs : heapAllocs[a] \in [handle : Word, size : Word]
  /\ memory \in [Address -> Byte]
  /\ esp \in Word
  /\ lastErrorCode \in {0, 6, 8}
  /\ running \in BOOLEAN

Base == alignUp32(DataSize)

End(a) == a + heapAllocs[a].size

\* No two live blocks share a byte, whatever sequence of HeapAlloc, HeapFree,
\* HeapDestroy and FormatMessage produced them (heapAlloc, heapFree).
BlocksDisjoint ==
  \A a, b \in DOMAIN heapAllocs : a < b => End(a) <= b

\* Every live block lies between the program's data and heapTop, and heapTop in
\* memory: no block covers a variable of the program, none is at NULL.
BlocksInHeap ==
  /\ Base <= heapTop /\ heapTop <= MemSize
  /\ \A a \in DOMAIN heapAllocs : Base <= a /\ End(a) <= heapTop

\* Every live block belongs to a heap that exists: HeapDestroy takes all the
\* blocks of its heap with it, and the process heap cannot be destroyed.
BlocksOwned ==
  /\ processHeapHandle \in heapHandles
  /\ \A a \in DOMAIN heapAllocs : heapAllocs[a].handle \in heapHandles

\* A handle HeapDestroy took away is never valid again, so a stale handle can
\* never reach the blocks of a heap created later.
DeadHandlesStayDead ==
  [][\A h \in 1..(nextHeapHandle - 1) : h \notin heapHandles => h \notin heapHandles']_vars

\* A heap call leaves the bytes of every live block alone but of the block it
\* gives out or takes back: neither zeroing nor freeing reaches a neighbour.
LiveDataKept ==
  [][HeapCall => \A a \in DOMAIN heapAllocs \intersect DOMAIN heapAllocs' :
                   \A i \in a..(End(a) - 1) : memory'[i] = memory[i]]_vars

\* A byte somebody counts on: of a live block, or of the stack from ESP up.
InUse(i) == i >= esp \/ \E a \in DOMAIN heapAllocs : a <= i /\ i < End(a)

\* While ESP is not below heapTop, stack and heap keep clear of each other: only the
\* program's own stores change a byte that is in use before and after, and
\* FormatMessage the four its caller names; no push reaches a live block, no heap
\* call the stack (heapAlloc, heapFree, push32).  Once ESP is below heapTop a push
\* does overwrite blocks: push32 checks the end of memory alone.
UsedBytesKept ==
  [][heapTop <= esp /\ heapTop <= esp' =>
       LET touched == {i \in Address : memory'[i] # memory[i] /\ InUse(i) /\ InUse(i)'}
       IN  \/ touched = {}
           \/ \E a \in StoreAddrs, v \in Byte : Store(a, v)
           \/ FormatCall /\ \E b \in Address : touched \subseteq b..(b + 3)]_vars

\* A block of size 0 takes no room, so the next one is given out at its address
\* and takes its record (heapAlloc): only the others are anybody's memory.
RoomyBlocks == [a \in {b \in DOMAIN heapAllocs : heapAllocs[b].size > 0} |-> heapAllocs[a]]

\* The heap gives its clients what HeapSpec promises, of the blocks with room.
Abs == INSTANCE HeapSpec WITH
  heaps <- heapHandles,
  issued <- 1..(nextHeapHandle - 1),
  blocks <- RoomyBlocks

ImplementsHeapSpec == Abs!Spec

\* "Low memory is reserved so real data pointers no longer collide with NULL":
\* a block HeapAlloc gives out is not at 0, which is what a refusal returns.
NoBlockAtNull == 0 \notin DOMAIN heapAllocs
=============================================================================
