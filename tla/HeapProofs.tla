----------------------------- MODULE HeapProofs -----------------------------
(***************************************************************************)
(* Proofs about Heap, for every size of memory, of words and of data.       *)
(***************************************************************************)
EXTENDS Heap, TLAPS

\* No request is so large that rounding it up, or adding it to heapTop, wraps:
\* what heapAlloc takes for granted.
NoWrap == \A s \in Sizes \union MessageSizes : s + MemSize + 8 <= WordSize

\* A block takes at least one byte.
PositiveSizes == \A s \in Sizes \union MessageSizes : s > 0

\* alignUp32 returns a word, whatever the word it is given.
LEMMA AlignIsWord == \A v \in Word : alignUp32(v) \in Word
  BY MemoryAssumption, SMT DEF alignUp32, Wrap, Word

\* alignUp32 rounds up, by less than 4, when that stays in a word.
LEMMA AlignRoundsUp ==
  \A v \in Nat : v + 4 <= WordSize => alignUp32(v) \in v..(v + 3) /\ alignUp32(v) % 4 = 0
  BY MemoryAssumption, SMT DEF alignUp32, Wrap

\* The bounds heapAlloc computes are words, and so is a block's size.
LEMMA BlockIsWord ==
  ASSUME TypeOK, NEW size \in Word
  PROVE  BlockStart \in Word /\ BlockEnd(size) \in Word
         /\ Minus(BlockEnd(size), BlockStart) \in Word
  <1>1. BlockStart \in Word
    BY AlignIsWord DEF TypeOK, BlockStart
  <1>2. alignUp32(size) \in Word
    BY AlignIsWord
  <1>3. BlockEnd(size) \in Word
    BY <1>1, <1>2, MemoryAssumption DEF BlockEnd, Wrap, Word
  <1>4. Minus(BlockEnd(size), BlockStart) \in Word
    BY <1>1, <1>3, MemoryAssumption DEF Minus, Word
  <1> QED BY <1>1, <1>3, <1>4

\* Replacing bytes of memory by bytes leaves a memory.
LEMMA ZeroedIsMemory ==
  ASSUME NEW mem \in [Address -> Byte], NEW lo, NEW hi
  PROVE  Zeroed(mem, lo, hi) \in [Address -> Byte]
  BY InputAssumption DEF Zeroed, Overwrite

\* So does storing a dword (writeMemory).
LEMMA PutDwordIsMemory ==
  ASSUME NEW mem \in [Address -> Byte], NEW at \in Nat, NEW d \in Dwords
  PROVE  PutDword(mem, at, d) \in [Address -> Byte]
  <1>1. ASSUME NEW a \in Address, at <= a, a < at + 4
        PROVE  d[a - at] \in Byte
    BY <1>1, InputAssumption, MemoryAssumption DEF Address
  <1> QED BY <1>1 DEF PutDword, Overwrite

\* So does the message FormatMessage writes.
LEMMA WithMessageIsMemory ==
  ASSUME TypeOK, NEW size \in MessageSizes, NEW c \in Byte
  PROVE  WithMessage(size, c) \in [Address -> Byte]
  BY ZeroedIsMemory, InputAssumption DEF WithMessage, Overwrite, TypeOK

-----------------------------------------------------------------------------
\* What heapAlloc leaves typed when it gives a block out.
LEMMA GrantIsTyped ==
  ASSUME TypeOK, NEW h \in 1..MaxHandle, NEW s \in Word, GrantBlock(h, s)
  PROVE  /\ heapTop' \in Word
         /\ nextHeapHandle' \in 2..MaxHandle
         /\ heapHandles' \subseteq 1..(nextHeapHandle' - 1)
         /\ DOMAIN heapAllocs' \subseteq Word
         /\ \A a \in DOMAIN heapAllocs' :
              heapAllocs'[a] \in [handle : Word, size : Word]
  <1>1. h \in Word
    BY InputAssumption, MemoryAssumption DEF Word
  <1>2. DOMAIN heapAllocs' = DOMAIN heapAllocs \union {BlockStart}
    BY DEF GrantBlock
  <1>3. \A a \in DOMAIN heapAllocs' : heapAllocs'[a] \in [handle : Word, size : Word]
    BY <1>1, <1>2, BlockIsWord DEF GrantBlock, TypeOK
  <1> QED BY <1>2, <1>3, BlockIsWord DEF GrantBlock, TypeOK

\* The two halves of Typing: Run sets every field to its type, and no step of
\* the heap or of the program takes one out of it.
LEMMA TypingInit == Init => TypeOK
  BY MemoryAssumption, InputAssumption, AlignIsWord
     DEF Init, TypeOK, Word, Address, processHeapHandle

\* The step half.
LEMMA TypingStep == TypeOK /\ [Next]_vars => TypeOK'
  <1> SUFFICES ASSUME TypeOK, [Next]_vars
               PROVE  TypeOK'
    OBVIOUS
  <1>1. CASE UNCHANGED vars
    BY <1>1 DEF TypeOK, vars
  <1>2. CASE HeapCreate /\ Continues
    BY <1>2, MemoryAssumption, InputAssumption
       DEF TypeOK, HeapCreate, LastError, Continues
  <1>3. ASSUME NEW h \in HandleArgs, HeapDestroy(h), Continues
        PROVE  TypeOK'
    BY <1>3 DEF TypeOK, HeapDestroy, LastError, Continues, heapVars
  <1>4. ASSUME NEW h \in HandleArgs, NEW zero \in BOOLEAN, NEW s \in Sizes,
               HeapAlloc(h, zero, s), Continues
        PROVE  TypeOK'
    <2>1. CASE UNCHANGED <<heapVars, memory>>
      BY <1>4, <2>1 DEF TypeOK, HeapAlloc, LastError, Continues, heapVars
    <2>2. CASE h \in heapHandles /\ Fits(s) /\ GrantBlock(h, s)
               /\ memory' = IF zero THEN Zeroed(memory, BlockStart, BlockEnd(s)) ELSE memory
      <3>1. memory' \in [Address -> Byte]
        BY <2>2, ZeroedIsMemory DEF TypeOK
      <3>2. h \in 1..MaxHandle /\ s \in Word
        BY <2>2, InputAssumption DEF TypeOK
      <3> QED BY <1>4, <2>2, <3>1, <3>2, GrantIsTyped
              DEF TypeOK, HeapAlloc, LastError, Continues
    <2> QED BY <1>4, <2>1, <2>2 DEF HeapAlloc
  <1>5. ASSUME NEW addr, ReleaseBlock(addr), UNCHANGED esp, running' = TRUE,
               lastErrorCode' = 0
        PROVE  TypeOK'
    BY <1>5, ZeroedIsMemory DEF TypeOK, ReleaseBlock
  <1>6. ASSUME NEW h \in HandleArgs, NEW a \in FreeArgs, HeapFree(h, a), Continues
        PROVE  TypeOK'
    <2>1. CASE ReleaseBlock(a)
      BY <1>5, <1>6, <2>1 DEF HeapFree, LastError, Continues, TypeOK, heapVars
    <2>2. CASE UNCHANGED <<heapVars, memory>>
      BY <1>6, <2>2 DEF HeapFree, LastError, Continues, TypeOK, heapVars
    <2> QED BY <1>6, <2>1, <2>2 DEF HeapFree
  <1>7. ASSUME NEW a \in FreeArgs, LocalFree(a), Continues
        PROVE  TypeOK'
    <2>1. processHeapHandle \in HandleArgs
      BY InputAssumption DEF processHeapHandle, HandleArgs
    <2> QED BY <1>6, <1>7, <2>1 DEF LocalFree
  <1>8. ASSUME NEW s \in MessageSizes, NEW c \in Byte \ {0},
               NEW b \in StoreAddrs \union {MemSize - 1}, NEW d \in Dwords,
               FormatMessage(s, c, b, d)
        PROVE  TypeOK'
    <2>1. CASE UNCHANGED <<heapVars, memory>>
      BY <1>8, <2>1 DEF FormatMessage, LastError, Continues, Dies, TypeOK, heapVars
    <2>2. CASE GrantBlock(processHeapHandle, s)
      <3>1. processHeapHandle \in 1..MaxHandle /\ s \in Word /\ b \in Nat
        BY InputAssumption, MemoryAssumption DEF processHeapHandle, Address
      <3>2. memory' \in [Address -> Byte]
        BY <1>8, <3>1, WithMessageIsMemory, PutDwordIsMemory DEF FormatMessage, TypeOK
      <3> QED BY <1>8, <2>2, <3>1, <3>2, GrantIsTyped
              DEF TypeOK, FormatMessage, LastError, Continues, Dies
    <2> QED BY <1>8, <2>1, <2>2 DEF FormatMessage
  <1>9. ASSUME NEW a \in StoreAddrs, NEW v \in Byte, Store(a, v), Continues
        PROVE  TypeOK'
    BY <1>9, InputAssumption DEF TypeOK, Store, Continues, heapVars
  <1>10. ASSUME NEW v \in StackPtrs, SetESP(v), Continues
         PROVE  TypeOK'
    BY <1>10, InputAssumption DEF TypeOK, SetESP, Continues, heapVars
  <1>11. ASSUME NEW d \in Dwords, push32(d)
         PROVE  TypeOK'
    <2>1. StackSlot \in Word
      BY MemoryAssumption DEF StackSlot, Minus, Word, TypeOK
    <2>2. PutDword(memory, StackSlot, d) \in [Address -> Byte]
      BY <2>1, PutDwordIsMemory DEF TypeOK, Word
    <2> QED BY <1>11, <2>1, <2>2 DEF TypeOK, push32, Continues, Dies, heapVars
  <1>12. CASE pop32
    <2>1. esp' \in Word
      BY <1>12, MemoryAssumption DEF TypeOK, pop32, DwordInMemory, Word
    <2> QED BY <1>12, <2>1 DEF TypeOK, pop32, Continues, Dies, heapVars
  <1> QED BY <1>1, <1>2, <1>3, <1>4, <1>6, <1>7, <1>8, <1>9, <1>10, <1>11, <1>12
          DEF Next, HeapCall, FormatCall, ProgramStep

\* The machine's fields keep their types.
THEOREM Typing == Spec => []TypeOK
  BY TypingInit, TypingStep, PTL DEF Spec

-----------------------------------------------------------------------------
\* A heap call, or FormatMessage, either leaves the table of blocks as it is,
\* or drops some of its blocks, or grants one.  Only a grant moves heapTop, and
\* a heap that goes takes its blocks with it.
Granted == \E h \in heapHandles, s \in Sizes \union MessageSizes :
             Fits(s) /\ GrantBlock(h, s)

Dropped == /\ DOMAIN heapAllocs' \subseteq DOMAIN heapAllocs
           /\ \A a \in DOMAIN heapAllocs' : heapAllocs'[a] = heapAllocs[a]
           /\ \A h \in heapHandles \ heapHandles' :
                /\ h # processHeapHandle
                /\ \A a \in DOMAIN heapAllocs' : heapAllocs'[a].handle # h
           /\ UNCHANGED heapTop

\* Every step is of one of these two shapes.
LEMMA StepShape ==
  ASSUME TypeOK, processHeapHandle \in heapHandles, [Next]_vars
  PROVE  Granted \/ Dropped
  <1>1. CASE UNCHANGED heapVars
    BY <1>1 DEF Dropped, heapVars
  <1>2. CASE HeapCreate
    BY <1>2 DEF Dropped, HeapCreate
  <1>3. ASSUME NEW h \in HandleArgs, HeapDestroy(h)
        PROVE  Granted \/ Dropped
    BY <1>3, <1>1 DEF Dropped, HeapDestroy
  <1>4. ASSUME NEW a, ReleaseBlock(a)
        PROVE  Granted \/ Dropped
    BY <1>4 DEF Dropped, ReleaseBlock
  <1>5. ASSUME NEW h \in HandleArgs, NEW zero \in BOOLEAN, NEW s \in Sizes,
               HeapAlloc(h, zero, s)
        PROVE  Granted \/ Dropped
    BY <1>5, <1>1 DEF Granted, HeapAlloc
  <1>6. ASSUME NEW s \in MessageSizes, NEW c \in Byte \ {0},
               NEW b \in StoreAddrs \union {MemSize - 1}, NEW d \in Dwords,
               FormatMessage(s, c, b, d)
        PROVE  Granted \/ Dropped
    BY <1>6, <1>1 DEF Granted, FormatMessage
  <1>7. ASSUME NEW h \in HandleArgs, NEW a \in FreeArgs, HeapFree(h, a)
        PROVE  Granted \/ Dropped
    BY <1>7, <1>1, <1>4 DEF HeapFree
  <1>8. ASSUME NEW a \in FreeArgs, LocalFree(a)
        PROVE  Granted \/ Dropped
    <2>1. processHeapHandle \in HandleArgs
      BY InputAssumption DEF processHeapHandle, HandleArgs
    <2> QED BY <1>7, <1>8, <2>1 DEF LocalFree
  <1>9. CASE ProgramStep
    BY <1>1, <1>9 DEF ProgramStep, Store, SetESP, push32, pop32
  <1> QED BY <1>1, <1>2, <1>3, <1>5, <1>6, <1>7, <1>8, <1>9
          DEF Next, HeapCall, FormatCall, vars, heapVars

\* Without wrapping, a block that fits starts at or after heapTop, ends at or
\* after its start and inside memory, and its size is the distance.
LEMMA GrantBounds ==
  ASSUME NoWrap, TypeOK, heapTop <= MemSize, NEW s \in Sizes \union MessageSizes
  PROVE  /\ heapTop <= BlockStart /\ BlockStart + s <= BlockEnd(s)
         /\ Minus(BlockEnd(s), BlockStart) = BlockEnd(s) - BlockStart
         /\ BlockStart \in Nat /\ BlockEnd(s) \in Nat
  <1>1. s \in Nat /\ s + MemSize + 8 <= WordSize
    BY InputAssumption DEF NoWrap, Word
  <1>2. BlockStart \in heapTop..(heapTop + 3)
    BY AlignRoundsUp, MemoryAssumption DEF BlockStart, TypeOK, Word
  <1>3. alignUp32(s) \in s..(s + 3)
    BY <1>1, AlignRoundsUp, MemoryAssumption
  <1>4. heapTop \in Nat
    BY MemoryAssumption DEF TypeOK, Word
  <1>5. BlockEnd(s) = BlockStart + alignUp32(s)
    BY <1>1, <1>2, <1>3, <1>4, MemoryAssumption, AlignRoundsUp DEF BlockEnd, Wrap
  <1> QED BY <1>1, <1>2, <1>3, <1>4, <1>5 DEF Minus

\* The inductive invariant: where the blocks lie relative to each other, to
\* heapTop and to the heaps that exist.
HeapInv == TypeOK /\ BlocksDisjoint /\ BlocksInHeap /\ BlocksOwned

\* Run starts with no block and heapTop at the end of the data.
LEMMA HeapInvInit == Init => HeapInv
  <1> SUFFICES ASSUME Init PROVE HeapInv
    OBVIOUS
  <1>1. TypeOK
    BY TypingInit
  <1>2. alignUp32(DataSize) \in DataSize..(DataSize + 3)
    BY AlignRoundsUp, MemoryAssumption
  <1>3. BlocksInHeap
    BY <1>2, MemoryAssumption DEF Init, BlocksInHeap, Base
  <1> QED BY <1>1, <1>3 DEF Init, HeapInv, BlocksDisjoint, BlocksOwned

\* A grant puts its block after all others; a drop only removes blocks.
LEMMA HeapInvStep ==
  ASSUME NoWrap, HeapInv, [Next]_vars
  PROVE  HeapInv'
  <1> USE DEF HeapInv
  <1>1. TypeOK'
    BY TypingStep
  <1>2. processHeapHandle \in heapHandles
    BY DEF BlocksOwned
  <1>3. CASE Dropped
    <2>1. BlocksDisjoint'
      BY <1>3 DEF Dropped, BlocksDisjoint, End
    <2>2. BlocksInHeap'
      BY <1>3 DEF Dropped, BlocksInHeap, End, Base
    <2>3. BlocksOwned'
      BY <1>3 DEF Dropped, BlocksOwned
    <2> QED BY <1>1, <2>1, <2>2, <2>3
  <1>4. CASE Granted
    <2> PICK h \in heapHandles, s \in Sizes \union MessageSizes :
          Fits(s) /\ GrantBlock(h, s)
      BY <1>4 DEF Granted
    <2>1. /\ heapTop <= BlockStart /\ BlockStart + s <= BlockEnd(s)
          /\ Minus(BlockEnd(s), BlockStart) = BlockEnd(s) - BlockStart
          /\ BlockStart \in Nat /\ BlockEnd(s) \in Nat /\ s \in Nat
      BY GrantBounds, InputAssumption DEF BlocksInHeap, Word
    <2>2. BlockEnd(s) <= MemSize
      BY DEF Fits
    <2>3. DOMAIN heapAllocs' = DOMAIN heapAllocs \union {BlockStart}
      BY DEF GrantBlock
    <2>4. /\ BlockStart + heapAllocs'[BlockStart].size = BlockEnd(s)
          /\ heapAllocs'[BlockStart].handle = h
      BY <2>1 DEF GrantBlock
    <2>5. \A a \in DOMAIN heapAllocs' \ {BlockStart} :
             a \in DOMAIN heapAllocs /\ heapAllocs'[a] = heapAllocs[a]
      BY DEF GrantBlock
    <2>6. \A a \in DOMAIN heapAllocs' \ {BlockStart} :
             /\ a \in Nat /\ heapAllocs'[a].size \in Nat
             /\ a + heapAllocs'[a].size <= heapTop /\ Base <= a
      BY <2>5 DEF BlocksInHeap, End, TypeOK, Word
    <2>7. heapTop' = BlockEnd(s) /\ UNCHANGED heapHandles
      BY DEF GrantBlock
    <2>8. heapTop \in Nat /\ Base \in Nat /\ MemSize \in Nat
      BY AlignIsWord, MemoryAssumption DEF TypeOK, Word, Base
    <2>9. BlocksInHeap'
      <3>1. Base <= heapTop' /\ heapTop' <= MemSize
        BY <2>1, <2>2, <2>7, <2>8 DEF BlocksInHeap
      <3>2. ASSUME NEW a \in DOMAIN heapAllocs'
            PROVE  Base <= a /\ a + heapAllocs'[a].size <= heapTop'
        <4>1. CASE a = BlockStart
          BY <2>1, <2>4, <2>7, <2>8, <4>1 DEF BlocksInHeap
        <4>2. CASE a # BlockStart
          BY <2>1, <2>6, <2>7, <2>8, <4>2
        <4> QED BY <4>1, <4>2
      <3> QED BY <3>1, <3>2 DEF BlocksInHeap, End, Base
    <2>10. BlocksDisjoint'
      <3> SUFFICES ASSUME NEW a \in DOMAIN heapAllocs', NEW b \in DOMAIN heapAllocs', a < b
                   PROVE  a + heapAllocs'[a].size <= b
        BY DEF BlocksDisjoint, End
      <3>1. CASE a = BlockStart
        BY <2>1, <2>6, <2>8, <3>1
      <3>2. CASE a # BlockStart /\ b = BlockStart
        BY <2>1, <2>6, <2>8, <3>2
      <3>3. CASE a # BlockStart /\ b # BlockStart
        BY <2>5, <3>3 DEF BlocksDisjoint, End
      <3> QED BY <3>1, <3>2, <3>3
    <2>11. BlocksOwned'
      BY <2>4, <2>5, <2>7 DEF BlocksOwned
    <2> QED BY <1>1, <2>9, <2>10, <2>11
  <1> QED BY <1>2, <1>3, <1>4, StepShape

\* Blocks stay apart, in the heap and owned, together with the types.
THEOREM HeapInvariant == ASSUME NoWrap PROVE Spec => []HeapInv
  <1>1. Init => HeapInv
    BY HeapInvInit
  <1>2. HeapInv /\ [Next]_vars => HeapInv'
    BY HeapInvStep
  <1> QED BY <1>1, <1>2, PTL DEF Spec

\* No two live blocks share a byte, for every memory size and every sequence of
\* heap calls, stores and stack moves whose sizes do not wrap (heapAlloc).
THEOREM Disjointness == ASSUME NoWrap PROVE Spec => []BlocksDisjoint
  BY HeapInvariant, PTL DEF HeapInv

\* No live block covers the program's data or leaves memory (heapAlloc).
THEOREM Containment == ASSUME NoWrap PROVE Spec => []BlocksInHeap
  BY HeapInvariant, PTL DEF HeapInv

\* Every live block belongs to a heap that exists (HeapDestroy).
THEOREM Ownership == ASSUME NoWrap PROVE Spec => []BlocksOwned
  BY HeapInvariant, PTL DEF HeapInv
-----------------------------------------------------------------------------
\* Only HeapCreate adds a handle, and it is one that was never given out.
LEMMA HandlesAdded ==
  ASSUME TypeOK, [Next]_vars
  PROVE  heapHandles' \subseteq heapHandles \union {nextHeapHandle}
  <1>1. CASE UNCHANGED heapVars
    BY <1>1 DEF heapVars
  <1>2. CASE HeapCreate
    BY <1>2 DEF HeapCreate
  <1>3. ASSUME NEW h, HeapDestroy(h)
        PROVE  heapHandles' \subseteq heapHandles
    BY <1>3 DEF HeapDestroy, heapVars
  <1>4. ASSUME NEW h, NEW zero, NEW s, HeapAlloc(h, zero, s)
        PROVE  heapHandles' \subseteq heapHandles
    BY <1>4 DEF HeapAlloc, GrantBlock, heapVars
  <1>5. ASSUME NEW h, NEW a, HeapFree(h, a)
        PROVE  heapHandles' \subseteq heapHandles
    BY <1>5 DEF HeapFree, ReleaseBlock, heapVars
  <1>6. CASE FormatCall
    BY <1>6 DEF FormatCall, FormatMessage, GrantBlock, heapVars
  <1>7. CASE ProgramStep
    BY <1>7 DEF ProgramStep, Store, SetESP, push32, pop32, heapVars
  <1> QED BY <1>1, <1>2, <1>3, <1>4, <1>5, <1>6, <1>7
          DEF Next, HeapCall, LocalFree, vars, heapVars

\* A destroyed heap's handle is never valid again (HeapCreate, HeapDestroy), for
\* any number of heaps and with no assumption on the sizes asked for.
THEOREM NoHandleRevived == Spec => DeadHandlesStayDead
  <1>1. TypeOK /\ [Next]_vars =>
          [\A h \in 1..(nextHeapHandle - 1) : h \notin heapHandles => h \notin heapHandles']_vars
    <2> SUFFICES ASSUME TypeOK, [Next]_vars,
                        NEW h \in 1..(nextHeapHandle - 1), h \notin heapHandles
                 PROVE  h \notin heapHandles'
      OBVIOUS
    <2>1. h # nextHeapHandle
      BY DEF TypeOK
    <2> QED BY <2>1, HandlesAdded
  <1> QED BY <1>1, Typing, PTL DEF Spec, DeadHandlesStayDead
-----------------------------------------------------------------------------
\* Where a live block lies: in memory, and at or below heapTop.
LEMMA BlockPlace ==
  ASSUME HeapInv, NEW a \in DOMAIN heapAllocs
  PROVE  /\ a \in Nat /\ End(a) \in Nat /\ heapTop \in Nat
         /\ End(a) <= heapTop /\ heapTop <= MemSize
         /\ a..(End(a) - 1) \subseteq Address
  <1>1. a \in Nat /\ heapAllocs[a].size \in Nat /\ heapTop \in Nat /\ MemSize \in Nat
    BY MemoryAssumption DEF HeapInv, TypeOK, Word
  <1>2. End(a) <= heapTop /\ heapTop <= MemSize
    BY DEF HeapInv, BlocksInHeap
  <1> QED BY <1>1, <1>2 DEF End, Address

\* A grant that zeroes its block touches no block below heapTop (heapAlloc).
LEMMA AllocKeepsData ==
  ASSUME NoWrap, HeapInv, NEW h \in HandleArgs, NEW zero \in BOOLEAN, NEW s \in Sizes,
         HeapAlloc(h, zero, s), NEW a \in DOMAIN heapAllocs, NEW i \in a..(End(a) - 1)
  PROVE  memory'[i] = memory[i]
  <1>1. /\ i \in Address /\ i \in Int /\ i < heapTop /\ heapTop \in Nat
        /\ heapTop <= MemSize
    BY BlockPlace
  <1>2. heapTop <= BlockStart /\ BlockStart \in Nat
    BY <1>1, GrantBounds DEF HeapInv
  <1>3. CASE memory' = memory
    BY <1>3
  <1>4. CASE memory' = Zeroed(memory, BlockStart, BlockEnd(s))
    <2>1. ~(BlockStart <= i)
      BY <1>1, <1>2
    <2> QED BY <1>1, <1>4, <2>1 DEF Zeroed, Overwrite
  <1> QED BY <1>3, <1>4 DEF HeapAlloc

\* A free zeroes the bytes of the block it takes back and no other's (heapFree).
LEMMA FreeKeepsData ==
  ASSUME HeapInv, NEW h, NEW addr, HeapFree(h, addr),
         NEW a \in DOMAIN heapAllocs \intersect DOMAIN heapAllocs', NEW i \in a..(End(a) - 1)
  PROVE  memory'[i] = memory[i]
  <1>1. CASE UNCHANGED memory
    BY <1>1
  <1>2. CASE HoldsBlock(h, addr) /\ ReleaseBlock(addr)
    <2>1. addr \in DOMAIN heapAllocs /\ a \in DOMAIN heapAllocs /\ a # addr
      BY <1>2 DEF HoldsBlock, ReleaseBlock
    <2>2. /\ addr \in Nat /\ End(addr) \in Nat /\ End(addr) <= MemSize
          /\ a \in Nat /\ End(a) \in Nat /\ i \in Address /\ i \in Int
          /\ MemSize \in Nat
      BY <2>1, BlockPlace, MemoryAssumption
    <2>3. Wrap(addr + heapAllocs[addr].size) = End(addr)
      BY <2>2, MemoryAssumption DEF Wrap, End
    <2>4. a < addr => End(a) <= addr
      BY <2>1 DEF HeapInv, BlocksDisjoint
    <2>5. addr < a => End(addr) <= a
      BY <2>1 DEF HeapInv, BlocksDisjoint
    <2>6. ~(addr <= i /\ i < End(addr))
      BY <2>1, <2>2, <2>4, <2>5
    <2>7. memory' = Zeroed(memory, addr, End(addr))
      BY <1>2, <2>3 DEF ReleaseBlock
    <2> QED BY <2>2, <2>6, <2>7 DEF Zeroed, Overwrite
  <1> QED BY <1>1, <1>2 DEF HeapFree

\* A heap call changes the bytes of no live block but the one it gives out or
\* takes back (heapAlloc, heapFree).
THEOREM DataKept == ASSUME NoWrap PROVE Spec => LiveDataKept
  <1>1. HeapInv /\ [Next]_vars =>
          [HeapCall => \A a \in DOMAIN heapAllocs \intersect DOMAIN heapAllocs' :
                         \A i \in a..(End(a) - 1) : memory'[i] = memory[i]]_vars
    <2> SUFFICES ASSUME HeapInv, HeapCall,
                        NEW a \in DOMAIN heapAllocs \intersect DOMAIN heapAllocs',
                        NEW i \in a..(End(a) - 1)
                 PROVE  memory'[i] = memory[i]
      OBVIOUS
    <2>1. CASE HeapCreate \/ \E h \in HandleArgs : HeapDestroy(h)
      BY <2>1 DEF HeapCreate, HeapDestroy
    <2>2. CASE \E h \in HandleArgs, zero \in BOOLEAN, s \in Sizes : HeapAlloc(h, zero, s)
      BY <2>2, AllocKeepsData
    <2>3. CASE \E h \in HandleArgs, addr \in FreeArgs : HeapFree(h, addr)
      BY <2>3, FreeKeepsData
    <2>4. CASE \E addr \in FreeArgs : LocalFree(addr)
      BY <2>4, FreeKeepsData DEF LocalFree
    <2> QED BY <2>1, <2>2, <2>3, <2>4 DEF HeapCall
  <1> QED BY <1>1, HeapInvariant, PTL DEF Spec, LiveDataKept

\* A byte in use lies below heapTop or at or above ESP.
LEMMA UsedPlace ==
  ASSUME HeapInv, NEW i \in Address, InUse(i)
  PROVE  i \in Int /\ (i >= esp \/ i < heapTop)
  <1>1. ASSUME NEW a \in DOMAIN heapAllocs, a <= i, i < End(a)
        PROVE  i < heapTop
    BY <1>1, BlockPlace DEF Address
  <1> QED BY <1>1 DEF InUse, Address

\* A byte a heap call may write to: of the block given out.
Given(s, i) == BlockStart <= i /\ i < BlockEnd(s)

\* It is not in use before, as the block ends below ESP (heapAlloc).
LEMMA GivenUnused ==
  ASSUME NoWrap, HeapInv, NEW s \in Sizes \union MessageSizes, Fits(s),
         NEW i \in Address, InUse(i)
  PROVE  ~Given(s, i)
  <1>1. heapTop <= BlockStart /\ BlockStart \in Nat /\ BlockEnd(s) \in Nat /\ BlockEnd(s) < esp
    BY GrantBounds DEF HeapInv, BlocksInHeap, Fits
  <1>2. heapTop \in Int /\ esp \in Int
    BY MemoryAssumption DEF HeapInv, TypeOK, Word
  <1> QED BY <1>1, <1>2, UsedPlace DEF Given

\* HeapAlloc writes to the block it gives out, and to nothing in use (heapAlloc).
LEMMA AllocSpares ==
  ASSUME NoWrap, HeapInv, NEW h, NEW zero \in BOOLEAN, NEW s \in Sizes, HeapAlloc(h, zero, s),
         NEW i \in Address, InUse(i)
  PROVE  memory'[i] = memory[i]
  <1>1. CASE memory' = memory
    BY <1>1
  <1>2. CASE Fits(s) /\ memory' = Zeroed(memory, BlockStart, BlockEnd(s))
    BY <1>2, GivenUnused DEF Given, Zeroed, Overwrite
  <1> QED BY <1>1, <1>2 DEF HeapAlloc

\* The block taken back is no longer in use, and it lies below the stack.
LEMMA FreeSpares ==
  ASSUME HeapInv, heapTop <= esp, NEW h, NEW addr, HeapFree(h, addr),
         NEW i \in Address, InUse(i), InUse(i)'
  PROVE  memory'[i] = memory[i]
  <1>1. CASE \E a \in DOMAIN heapAllocs' : a <= i /\ i < End(a)'
    <2> PICK a \in DOMAIN heapAllocs' : a <= i /\ i < End(a)'
      BY <1>1
    <2>1. a \in DOMAIN heapAllocs /\ End(a)' = End(a)
      BY DEF HeapFree, ReleaseBlock, HoldsBlock, heapVars, End
    <2>2. i \in a..(End(a) - 1)
      BY <2>1, BlockPlace DEF Address
    <2> QED BY <2>1, <2>2, FreeKeepsData
  <1>2. CASE i >= esp'
    <2>1. CASE memory' = memory
      BY <2>1
    <2>2. CASE HoldsBlock(h, addr) /\ ReleaseBlock(addr)
      <3>1. /\ addr \in Nat /\ End(addr) \in Nat /\ End(addr) <= heapTop /\ heapTop \in Nat
            /\ heapTop <= MemSize /\ addr \in DOMAIN heapAllocs
        BY <2>2, BlockPlace DEF HoldsBlock
      <3>2. esp \in Int /\ esp' = esp /\ i \in Int
        BY MemoryAssumption DEF HeapFree, HeapInv, TypeOK, Word, Address
      <3>3. ~(addr <= i /\ i < End(addr))
        BY <1>2, <3>1, <3>2
      <3>4. Wrap(addr + heapAllocs[addr].size) = End(addr)
        BY <3>1, MemoryAssumption DEF Wrap, End
      <3> QED BY <2>2, <3>3, <3>4 DEF ReleaseBlock, Zeroed, Overwrite
    <2> QED BY <2>1, <2>2 DEF HeapFree
  <1> QED BY <1>1, <1>2 DEF InUse

\* The message goes to a block that was not in use; its address, where the caller says.
LEMMA FormatSpares ==
  ASSUME NoWrap, HeapInv, NEW s \in MessageSizes, NEW c, NEW p \in Address, NEW d,
         FormatMessage(s, c, p, d), NEW i \in Address, InUse(i), i \notin p..(p + 3)
  PROVE  memory'[i] = memory[i]
  <1>1. CASE memory' = memory
    BY <1>1
  <1>2. CASE /\ Fits(s)
             /\ memory' \in {WithMessage(s, c), PutDword(WithMessage(s, c), p, d)}
    <2>1. /\ BlockStart \in Nat /\ BlockEnd(s) \in Nat /\ s \in Nat
          /\ BlockStart + s <= BlockEnd(s)
      BY GrantBounds, InputAssumption DEF HeapInv, BlocksInHeap, Word
    <2>2. ~Given(s, i) /\ i \in Int /\ p \in Int
      BY <1>2, GivenUnused DEF Address
    <2>3. ~(BlockStart <= i /\ i < BlockEnd(s)) /\ ~(BlockStart <= i /\ i < BlockStart + s)
      BY <2>1, <2>2 DEF Given
    <2>4. WithMessage(s, c)[i] = memory[i]
      BY <2>3 DEF WithMessage, Zeroed, Overwrite
    <2>5. ~(p <= i /\ i < p + 4)
      BY <2>2
    <2>6. PutDword(WithMessage(s, c), p, d)[i] = WithMessage(s, c)[i]
      BY <2>5 DEF PutDword, Overwrite
    <2> QED BY <1>2, <2>4, <2>6
  <1> QED BY <1>1, <1>2 DEF FormatMessage

\* A push that leaves ESP at heapTop or above writes between heap and stack (push32).
LEMMA PushSpares ==
  ASSUME HeapInv, heapTop <= esp', NEW d, push32(d), NEW i \in Address, InUse(i)
  PROVE  memory'[i] = memory[i]
  <1>1. CASE memory' = memory
    BY <1>1
  <1>2. CASE DwordInMemory(StackSlot) /\ memory' = PutDword(memory, StackSlot, d) /\ esp' = StackSlot
    <2>1. esp \in Nat /\ esp < WordSize /\ MemSize \in Nat /\ WordSize \in Nat /\ heapTop \in Int
      BY MemoryAssumption DEF HeapInv, TypeOK, Word
    <2>2. StackSlot = esp - 4
      BY <1>2, <2>1, MemoryAssumption DEF DwordInMemory, StackSlot, Minus
    <2>3. i \in Int /\ (i >= esp \/ i < heapTop)
      BY UsedPlace
    <2>4. ~(StackSlot <= i /\ i < StackSlot + 4)
      BY <1>2, <2>1, <2>2, <2>3
    <2> QED BY <1>2, <2>4 DEF PutDword, Overwrite
  <1> QED BY <1>1, <1>2 DEF push32

\* As long as ESP is not below heapTop, blocks and stack keep their bytes but for
\* what the program stores itself (heapAlloc, heapFree, push32).
THEOREM StackKeptClear == ASSUME NoWrap PROVE Spec => UsedBytesKept
  <1> DEFINE Touched(i) == memory'[i] # memory[i] /\ InUse(i) /\ InUse(i)'
             touched == {i \in Address : Touched(i)}
             Spared == \/ touched = {}
                       \/ \E a \in StoreAddrs, v \in Byte : Store(a, v)
                       \/ FormatCall /\ \E b \in Address : touched \subseteq b..(b + 3)
  <1>1. HeapInv /\ [Next]_vars => [heapTop <= esp /\ heapTop <= esp' => Spared]_vars
    <2> SUFFICES ASSUME HeapInv, Next, heapTop <= esp, heapTop <= esp'
                 PROVE  Spared
      OBVIOUS
    <2>1. CASE HeapCall
      <3>1. CASE HeapCreate \/ \E h \in HandleArgs : HeapDestroy(h)
        BY <3>1 DEF HeapCreate, HeapDestroy
      <3>2. CASE \E h \in HandleArgs, zero \in BOOLEAN, s \in Sizes : HeapAlloc(h, zero, s)
        BY <3>2, AllocSpares
      <3>3. CASE \E h \in HandleArgs, addr \in FreeArgs : HeapFree(h, addr)
        BY <3>3, FreeSpares
      <3>4. CASE \E addr \in FreeArgs : LocalFree(addr)
        BY <3>4, FreeSpares DEF LocalFree
      <3> QED BY <2>1, <3>1, <3>2, <3>3, <3>4 DEF HeapCall
    <2>2. CASE FormatCall
      <3> PICK s \in MessageSizes, c \in Byte \ {0}, p \in StoreAddrs \union {MemSize - 1}, d \in Dwords :
            FormatMessage(s, c, p, d)
        BY <2>2 DEF FormatCall
      <3>1. p \in Address
        BY InputAssumption, MemoryAssumption DEF Address
      <3>2. touched \subseteq p..(p + 3)
        BY <3>1, FormatSpares
      <3> QED BY <2>2, <3>1, <3>2
    <2>3. CASE ProgramStep
      <3>1. CASE \E d \in Dwords : push32(d)
        BY <3>1, PushSpares
      <3>2. CASE pop32 \/ \E v \in StackPtrs : SetESP(v)
        BY <3>2 DEF pop32, SetESP
      <3> QED BY <2>3, <3>1, <3>2 DEF ProgramStep
    <2> QED BY <2>1, <2>2, <2>3 DEF Next
  <1> QED BY <1>1, HeapInvariant, PTL DEF Spec, UsedBytesKept
-----------------------------------------------------------------------------
(***************************************************************************)
(* Heap implements HeapSpec, for every size of memory, of words and of      *)
(* data, when no request wraps                                              *)
(***************************************************************************)
\* What the abstract heap sees of the table of blocks.
LEMMA RoomyIs ==
  /\ DOMAIN RoomyBlocks = {a \in DOMAIN heapAllocs : heapAllocs[a].size > 0}
  /\ \A a \in DOMAIN RoomyBlocks : RoomyBlocks[a] = heapAllocs[a]
  BY DEF RoomyBlocks

\* Where the table is the same, so is what is seen of it.
LEMMA RoomySame == ASSUME UNCHANGED heapAllocs PROVE UNCHANGED RoomyBlocks
  BY DEF RoomyBlocks

\* A range that ends where another starts shares nothing with it.
LEMMA Apart ==
  \A x, y, m, n \in Int : x + m <= y => (x..(x + m - 1)) \intersect (y..(y + n - 1)) = {}
  <1> SUFFICES ASSUME NEW x \in Int, NEW y \in Int, NEW m \in Int, NEW n \in Int, x + m <= y,
                      NEW i \in x..(x + m - 1), i \in y..(y + n - 1)
               PROVE  FALSE
    OBVIOUS
  <1> QED OBVIOUS

\* A block with room never lies where the next one starts.
LEMMA StartIsFree ==
  ASSUME NoWrap, HeapInv, NEW s \in Sizes \union MessageSizes
  PROVE  \A a \in DOMAIN RoomyBlocks : End(a) <= BlockStart /\ a < BlockStart
  <1> SUFFICES ASSUME NEW a \in DOMAIN RoomyBlocks
               PROVE  End(a) <= BlockStart /\ a < BlockStart
    OBVIOUS
  <1>1. a \in DOMAIN heapAllocs /\ heapAllocs[a].size > 0
    BY RoomyIs
  <1>2. a \in Nat /\ End(a) \in Nat /\ heapTop \in Nat /\ End(a) <= heapTop
    BY <1>1, BlockPlace
  <1>3. heapTop <= BlockStart /\ BlockStart \in Nat
    BY GrantBounds DEF HeapInv, BlocksInHeap
  <1>4. heapAllocs[a].size \in Nat /\ End(a) = a + heapAllocs[a].size
    BY <1>1, MemoryAssumption DEF HeapInv, TypeOK, Word, End
  <1> QED BY <1>1, <1>2, <1>3, <1>4

\* The bytes of the block that is granted next.
NewExtent(s) == Abs!Extent(BlockStart, BlockEnd(s) - BlockStart)

\* A grant of a block with room is an Alloc, of one without it changes nothing
\* that is seen (heapAlloc).
LEMMA GrantRefines ==
  ASSUME NoWrap, HeapInv, NEW h \in heapHandles, NEW s \in Sizes \union MessageSizes,
         Fits(s), GrantBlock(h, s)
  PROVE  \/ UNCHANGED <<heapHandles, nextHeapHandle, RoomyBlocks>> /\ BlockEnd(s) = BlockStart
         \/ /\ BlockStart \in DOMAIN RoomyBlocks' \ DOMAIN RoomyBlocks
            /\ RoomyBlocks'[BlockStart].size = BlockEnd(s) - BlockStart
            /\ \A out : Abs!OnlyChanges(NewExtent(s) \union out)
                          => Abs!Alloc(h, BlockStart, RoomyBlocks'[BlockStart].size, out)
  <1> DEFINE b == BlockStart
             e == BlockEnd(s)
             size == e - b
  <1>1. /\ heapTop <= b /\ b <= e /\ Minus(e, b) = size
        /\ b \in Nat /\ e \in Nat /\ s \in Nat /\ heapTop \in Nat
    BY GrantBounds, InputAssumption, MemoryAssumption DEF HeapInv, BlocksInHeap, Word, TypeOK
  <1>2. /\ DOMAIN heapAllocs' = DOMAIN heapAllocs \union {b}
        /\ heapAllocs'[b] = [handle |-> h, size |-> size]
        /\ \A a \in DOMAIN heapAllocs \ {b} : heapAllocs'[a] = heapAllocs[a]
    BY <1>1 DEF GrantBlock
  <1>3. \A a \in DOMAIN RoomyBlocks : End(a) <= b /\ a < b /\ a \in Nat /\ End(a) \in Nat
    BY StartIsFree, RoomyIs, BlockPlace
  <1>4. b \notin DOMAIN RoomyBlocks
    BY <1>1, <1>3
  <1>5. UNCHANGED <<heapHandles, nextHeapHandle>>
    BY DEF GrantBlock
  <1>6. CASE size = 0
    <2>1. {a \in DOMAIN heapAllocs' : heapAllocs'[a].size > 0}
            = {a \in DOMAIN heapAllocs : heapAllocs[a].size > 0}
      BY <1>2, <1>4, <1>6, RoomyIs
    <2>2. UNCHANGED RoomyBlocks
      BY <2>1, <1>2, <1>4, RoomyIs DEF RoomyBlocks
    <2> QED BY <2>2, <1>1, <1>5, <1>6
  <1>7. CASE size > 0
    <2>1. {a \in DOMAIN heapAllocs' : heapAllocs'[a].size > 0} = DOMAIN RoomyBlocks \union {b}
      BY <1>2, <1>4, <1>7, RoomyIs
    <2>2. /\ DOMAIN RoomyBlocks' = DOMAIN RoomyBlocks \union {b}
          /\ RoomyBlocks' = [a \in DOMAIN RoomyBlocks \union {b} |-> heapAllocs'[a]]
      BY <2>1 DEF RoomyBlocks
    <2>3. \A a \in DOMAIN RoomyBlocks \union {b} :
            heapAllocs'[a] = IF a = b THEN [handle |-> h, size |-> size] ELSE RoomyBlocks[a]
      BY <1>2, <1>4, RoomyIs
    <2>4. RoomyBlocks'[b].size = size
      BY <2>2, <2>3
    <2>5. RoomyBlocks' = [a \in DOMAIN RoomyBlocks \union {b} |->
                            IF a = b THEN [handle |-> h, size |-> size] ELSE RoomyBlocks[a]]
      BY <2>2, <2>3
    <2>6. b >= Base /\ b + size <= MemSize
      <3>1. Base <= heapTop /\ Base \in Nat
        BY AlignIsWord, MemoryAssumption DEF HeapInv, BlocksInHeap, Base, Word
      <3> QED BY <1>1, <3>1 DEF Fits
    <2>7. \A a \in DOMAIN RoomyBlocks :
            Abs!Extent(a, RoomyBlocks[a].size) \intersect Abs!Extent(b, size) = {}
      <3> SUFFICES ASSUME NEW a \in DOMAIN RoomyBlocks
                   PROVE  Abs!Extent(a, RoomyBlocks[a].size) \intersect Abs!Extent(b, size) = {}
        OBVIOUS
      <3>1. a + RoomyBlocks[a].size <= b /\ RoomyBlocks[a].size \in Nat /\ a \in Nat
        BY <1>3, RoomyIs, MemoryAssumption DEF End, HeapInv, TypeOK, Word
      <3>2. size \in Nat
        BY <1>1
      <3> QED BY <3>1, <3>2, <1>1, Apart DEF Abs!Extent
    <2>8. ASSUME NEW out, Abs!OnlyChanges(NewExtent(s) \union out)
          PROVE  Abs!Alloc(h, b, size, out)
      BY <1>4, <1>5, <2>5, <2>6, <2>7, <2>8 DEF Abs!Alloc, NewExtent
    <2> QED BY <1>4, <2>2, <2>4, <2>8
  <1> QED BY <1>1, <1>6, <1>7
-----------------------------------------------------------------------------
\* A grant that writes to its block, and to a dword p at most, is a step of the
\* abstract heap or changes nothing it sees (heapAlloc and its callers).
LEMMA GrantStep ==
  ASSUME NoWrap, HeapInv, NEW h \in heapHandles, NEW s \in Sizes \union MessageSizes,
         Fits(s), GrantBlock(h, s), NEW p \in Address,
         \/ Abs!OnlyChanges(NewExtent(s))
         \/ Abs!OnlyChanges(NewExtent(s) \union Abs!Extent(p, 4)),
         BlockEnd(s) = BlockStart => memory' = memory \/ Abs!OnlyChanges(Abs!Extent(p, 4))
  PROVE  Abs!Next \/ UNCHANGED Abs!vars
  <1>1. CASE UNCHANGED <<heapHandles, nextHeapHandle, RoomyBlocks>> /\ BlockEnd(s) = BlockStart
    <2>1. CASE memory' = memory
      BY <1>1, <2>1 DEF Abs!vars
    <2>2. CASE Abs!OnlyChanges(Abs!Extent(p, 4))
      <3>1. Abs!Store(p, 4)
        BY <1>1, <2>2 DEF Abs!Store
      <3>2. p \in Abs!Address
        BY DEF Address, Abs!Address
      <3> QED BY <3>1, <3>2 DEF Abs!Next
    <2> QED BY <1>1, <2>1, <2>2
  <1>2. ASSUME BlockStart \in DOMAIN RoomyBlocks' \ DOMAIN RoomyBlocks,
               \A out : Abs!OnlyChanges(NewExtent(s) \union out)
                          => Abs!Alloc(h, BlockStart, RoomyBlocks'[BlockStart].size, out)
        PROVE  Abs!Next
    <2>1. CASE Abs!OnlyChanges(NewExtent(s))
      <3>1. Abs!OnlyChanges(NewExtent(s) \union {})
        BY <2>1 DEF Abs!OnlyChanges
      <3>2. Abs!Alloc(h, BlockStart, RoomyBlocks'[BlockStart].size, {})
        BY <1>2, <3>1
      <3> QED BY <1>2, <3>2 DEF Abs!Next
    <2>2. CASE Abs!OnlyChanges(NewExtent(s) \union Abs!Extent(p, 4))
      <3>1. Abs!Alloc(h, BlockStart, RoomyBlocks'[BlockStart].size, Abs!Extent(p, 4))
        BY <1>2, <2>2
      <3>2. p \in Abs!Address
        BY DEF Address, Abs!Address
      <3> QED BY <1>2, <3>1, <3>2 DEF Abs!Next
    <2> QED BY <2>1, <2>2
  <1> QED BY <1>1, <1>2, GrantRefines

\* Replacing the bytes lo..hi-1 changes no other; when there are none, nothing.
LEMMA ZeroedChanges ==
  ASSUME NEW mem \in [Address -> Byte], NEW lo \in Nat, NEW hi \in Nat
  PROVE  /\ \A i \in Address \ (lo..(lo + (hi - lo) - 1)) : Zeroed(mem, lo, hi)[i] = mem[i]
         /\ hi <= lo => Zeroed(mem, lo, hi) = mem
  <1>1. \A i \in Address : i \in Int
    BY DEF Address
  <1>2. \A i \in Address \ (lo..(lo + (hi - lo) - 1)) : ~(lo <= i /\ i < hi)
    BY <1>1
  <1>3. hi <= lo => \A i \in Address : ~(lo <= i /\ i < hi)
    BY <1>1
  <1> QED BY <1>2, <1>3 DEF Zeroed, Overwrite

\* HeapAlloc is an Alloc, or is refused and changes nothing that is seen.
LEMMA HeapAllocRefines ==
  ASSUME NoWrap, HeapInv, NEW h, NEW zero \in BOOLEAN, NEW s \in Sizes, HeapAlloc(h, zero, s)
  PROVE  Abs!Next \/ UNCHANGED Abs!vars
  <1>1. CASE UNCHANGED <<heapVars, memory>>
    BY <1>1, RoomySame DEF Abs!vars, heapVars
  <1>2. CASE h \in heapHandles /\ Fits(s) /\ GrantBlock(h, s)
             /\ memory' = IF zero THEN Zeroed(memory, BlockStart, BlockEnd(s)) ELSE memory
    <2>1. BlockStart \in Nat /\ BlockEnd(s) \in Nat /\ memory \in [Address -> Byte]
      BY GrantBounds DEF HeapInv, BlocksInHeap, TypeOK
    <2>2. Abs!OnlyChanges(NewExtent(s))
      BY <1>2, <2>1, ZeroedChanges
         DEF Abs!OnlyChanges, NewExtent, Abs!Extent, Abs!Address, Address
    <2>3. BlockEnd(s) = BlockStart => memory' = memory
      BY <1>2, <2>1, ZeroedChanges
    <2>4. 0 \in Address
      BY MemoryAssumption DEF Address
    <2> QED BY <1>2, <2>2, <2>3, <2>4, GrantStep
  <1> QED BY <1>1, <1>2 DEF HeapAlloc

\* The message FormatMessage writes stays in its block.
LEMMA MessageChanges ==
  ASSUME NoWrap, HeapInv, NEW s \in MessageSizes, NEW c
  PROVE  /\ \A i \in Address \ NewExtent(s) : WithMessage(s, c)[i] = memory[i]
         /\ BlockEnd(s) = BlockStart => WithMessage(s, c) = memory
  <1>1. /\ BlockStart \in Nat /\ BlockEnd(s) \in Nat /\ s \in Nat
        /\ BlockStart + s <= BlockEnd(s) /\ memory \in [Address -> Byte]
    BY GrantBounds, InputAssumption DEF HeapInv, BlocksInHeap, TypeOK, Word
  <1>2. \A i \in Address : i \in Int
    BY DEF Address
  <1>3. \A i \in Address \ NewExtent(s) : ~(BlockStart <= i /\ i < BlockEnd(s))
    BY <1>1, <1>2 DEF NewExtent, Abs!Extent
  <1>4. \A i \in Address \ NewExtent(s) : ~(BlockStart <= i /\ i < BlockStart + s)
    BY <1>1, <1>2, <1>3
  <1>5. BlockEnd(s) = BlockStart =>
          \A i \in Address : ~(BlockStart <= i /\ i < BlockEnd(s))
                             /\ ~(BlockStart <= i /\ i < BlockStart + s)
    BY <1>1, <1>2
  <1> QED BY <1>1, <1>3, <1>4, <1>5 DEF WithMessage, Zeroed, Overwrite

\* Storing a dword changes its four bytes.
LEMMA PutChanges ==
  ASSUME NEW mem, NEW at \in Nat, NEW d
  PROVE  \A i \in Address \ Abs!Extent(at, 4) : PutDword(mem, at, d)[i] = mem[i]
  <1>1. \A i \in Address \ Abs!Extent(at, 4) : ~(at <= i /\ i < at + 4)
    BY DEF Address, Abs!Extent
  <1> QED BY <1>1 DEF PutDword, Overwrite

\* FormatMessage is an Alloc that also stores the block's address, or a Store
\* when the block has no room, or is refused.
LEMMA FormatMessageRefines ==
  ASSUME NoWrap, HeapInv, NEW s \in MessageSizes, NEW c \in Byte \ {0},
         NEW p \in StoreAddrs \union {MemSize - 1}, NEW d \in Dwords,
         FormatMessage(s, c, p, d)
  PROVE  Abs!Next \/ UNCHANGED Abs!vars
  <1>1. CASE UNCHANGED <<heapVars, memory>>
    BY <1>1, RoomySame DEF Abs!vars, heapVars
  <1>2. p \in Address /\ p \in Nat
    BY InputAssumption, MemoryAssumption DEF Address
  <1>3. processHeapHandle \in heapHandles /\ Abs!Address = Address
    BY DEF HeapInv, BlocksOwned, Abs!Address, Address
  <1>4. CASE Fits(s) /\ GrantBlock(processHeapHandle, s)
             /\ memory' = PutDword(WithMessage(s, c), p, d)
    <2>1. Abs!OnlyChanges(NewExtent(s) \union Abs!Extent(p, 4))
      BY <1>2, <1>3, <1>4, MessageChanges, PutChanges DEF Abs!OnlyChanges
    <2>2. BlockEnd(s) = BlockStart => Abs!OnlyChanges(Abs!Extent(p, 4))
      BY <1>2, <1>3, <1>4, MessageChanges, PutChanges DEF Abs!OnlyChanges
    <2> QED BY <1>2, <1>3, <1>4, <2>1, <2>2, GrantStep
  <1>5. CASE Fits(s) /\ GrantBlock(processHeapHandle, s) /\ memory' = WithMessage(s, c)
    <2>1. Abs!OnlyChanges(NewExtent(s))
      BY <1>3, <1>5, MessageChanges DEF Abs!OnlyChanges
    <2>2. BlockEnd(s) = BlockStart => memory' = memory
      BY <1>5, MessageChanges
    <2> QED BY <1>2, <1>3, <1>5, <2>1, <2>2, GrantStep
  <1> QED BY <1>1, <1>4, <1>5 DEF FormatMessage

\* Taking back a block with room is a Free; one without room is not seen.
LEMMA ReleaseRefines ==
  ASSUME HeapInv, NEW addr \in DOMAIN heapAllocs, ReleaseBlock(addr)
  PROVE  Abs!Next \/ UNCHANGED Abs!vars
  <1> DEFINE size == heapAllocs[addr].size
  <1>1. /\ addr \in Nat /\ size \in Nat /\ End(addr) = addr + size /\ End(addr) \in Nat
        /\ End(addr) <= MemSize /\ MemSize \in Nat /\ memory \in [Address -> Byte]
    BY BlockPlace, MemoryAssumption DEF HeapInv, TypeOK, Word, End
  <1>2. Wrap(addr + size) = End(addr)
    BY <1>1, MemoryAssumption DEF Wrap
  <1>3. memory' = Zeroed(memory, addr, End(addr))
    BY <1>2 DEF ReleaseBlock
  <1>4. /\ DOMAIN heapAllocs' = DOMAIN heapAllocs \ {addr}
        /\ \A a \in DOMAIN heapAllocs' : heapAllocs'[a] = heapAllocs[a]
        /\ UNCHANGED <<heapHandles, nextHeapHandle>>
    BY DEF ReleaseBlock
  <1>5. CASE size = 0
    <2>1. {a \in DOMAIN heapAllocs' : heapAllocs'[a].size > 0}
            = {a \in DOMAIN heapAllocs : heapAllocs[a].size > 0}
      BY <1>4, <1>5
    <2>2. UNCHANGED RoomyBlocks
      BY <2>1, <1>4 DEF RoomyBlocks
    <2>3. memory' = memory
      BY <1>1, <1>3, <1>5, ZeroedChanges
    <2> QED BY <1>4, <2>2, <2>3 DEF Abs!vars
  <1>6. CASE size > 0
    <2>1. addr \in DOMAIN RoomyBlocks /\ RoomyBlocks[addr].size = size
      BY <1>6, RoomyIs
    <2>2. {a \in DOMAIN heapAllocs' : heapAllocs'[a].size > 0} = DOMAIN RoomyBlocks \ {addr}
      BY <1>4, RoomyIs
    <2>3. RoomyBlocks' = [a \in DOMAIN RoomyBlocks \ {addr} |-> RoomyBlocks[a]]
      BY <2>2, <1>4, RoomyIs DEF RoomyBlocks
    <2>4. Abs!OnlyChanges(Abs!Extent(addr, size))
      <3>1. addr + (End(addr) - addr) - 1 = addr + size - 1
        BY <1>1
      <3> QED BY <1>1, <1>3, <3>1, ZeroedChanges
              DEF Abs!OnlyChanges, Abs!Extent, Abs!Address, Address
    <2>5. Abs!Free(addr)
      BY <1>4, <2>1, <2>3, <2>4 DEF Abs!Free
    <2> QED BY <2>1, <2>5 DEF Abs!Next
  <1> QED BY <1>1, <1>5, <1>6

\* HeapFree, and LocalFree through it.
LEMMA HeapFreeRefines ==
  ASSUME HeapInv, NEW h, NEW addr, HeapFree(h, addr)
  PROVE  Abs!Next \/ UNCHANGED Abs!vars
  <1>1. CASE UNCHANGED <<heapVars, memory>>
    BY <1>1, RoomySame DEF Abs!vars, heapVars
  <1>2. CASE HoldsBlock(h, addr) /\ ReleaseBlock(addr)
    BY <1>2, ReleaseRefines DEF HoldsBlock
  <1> QED BY <1>1, <1>2 DEF HeapFree

\* HeapDestroy takes from the abstract heap the blocks of its heap.
LEMMA HeapDestroyRefines ==
  ASSUME HeapInv, NEW h, HeapDestroy(h)
  PROVE  Abs!Next \/ UNCHANGED Abs!vars
  <1>1. CASE UNCHANGED <<heapVars, memory>>
    BY <1>1, RoomySame DEF Abs!vars, heapVars
  <1>2. CASE /\ h \in heapHandles
             /\ heapHandles' = heapHandles \ {h}
             /\ heapAllocs' = [a \in {b \in DOMAIN heapAllocs : heapAllocs[b].handle # h}
                                 |-> heapAllocs[a]]
             /\ UNCHANGED <<nextHeapHandle, memory>>
    <2>1. /\ DOMAIN heapAllocs' = {b \in DOMAIN heapAllocs : heapAllocs[b].handle # h}
          /\ \A a \in DOMAIN heapAllocs' : heapAllocs'[a] = heapAllocs[a]
      BY <1>2
    <2>2. {a \in DOMAIN heapAllocs' : heapAllocs'[a].size > 0}
            = {b \in DOMAIN RoomyBlocks : RoomyBlocks[b].handle # h}
      BY <2>1, RoomyIs
    <2>3. RoomyBlocks' = [a \in {b \in DOMAIN RoomyBlocks : RoomyBlocks[b].handle # h}
                            |-> RoomyBlocks[a]]
      BY <2>1, <2>2, RoomyIs DEF RoomyBlocks
    <2>4. Abs!Destroy(h)
      BY <1>2, <2>3 DEF Abs!Destroy
    <2> QED BY <1>2, <2>4 DEF Abs!Next
  <1> QED BY <1>1, <1>2 DEF HeapDestroy

\* HeapCreate adds a handle that was never given out.
LEMMA HeapCreateRefines ==
  ASSUME HeapInv, HeapCreate
  PROVE  Abs!Next
  <1>1. nextHeapHandle \in Nat /\ nextHeapHandle >= 2 /\ heapHandles \subseteq 1..(nextHeapHandle - 1)
    BY InputAssumption DEF HeapInv, TypeOK
  <1>2. nextHeapHandle \in heapHandles' \ (1..(nextHeapHandle - 1))
    BY <1>1 DEF HeapCreate
  <1>3. 1..(nextHeapHandle' - 1) = (1..(nextHeapHandle - 1)) \union {nextHeapHandle}
    BY <1>1 DEF HeapCreate
  <1>4. UNCHANGED <<RoomyBlocks, memory>>
    BY RoomySame DEF HeapCreate
  <1>5. Abs!Create
    BY <1>2, <1>3, <1>4 DEF Abs!Create, HeapCreate
  <1> QED BY <1>5 DEF Abs!Next

\* The program's own stores and pushes are Stores; its moves of ESP are unseen.
LEMMA ProgramRefines ==
  ASSUME HeapInv, ProgramStep
  PROVE  Abs!Next \/ UNCHANGED Abs!vars
  <1>1. ProgramStep => UNCHANGED heapVars
    BY DEF ProgramStep, Store, SetESP, push32, pop32
  <1>2. UNCHANGED <<heapHandles, nextHeapHandle, RoomyBlocks>>
    BY <1>1, RoomySame DEF heapVars
  <1>3. Abs!Address = Address
    BY DEF Abs!Address, Address
  <1>4. CASE UNCHANGED memory
    BY <1>2, <1>4 DEF Abs!vars
  <1>5. ASSUME NEW a \in StoreAddrs, NEW v \in Byte, Store(a, v)
        PROVE  Abs!Next
    <2>1. a \in Address /\ a \in Nat
      BY InputAssumption, MemoryAssumption DEF Address
    <2>2. a \in a..(a + 1 - 1)
      BY <2>1
    <2>3. Abs!OnlyChanges(Abs!Extent(a, 1))
      BY <1>3, <1>5, <2>2 DEF Abs!OnlyChanges, Abs!Extent, Store, HeapInv, TypeOK
    <2>4. Abs!Store(a, 1)
      BY <1>2, <2>3 DEF Abs!Store
    <2> QED BY <1>3, <2>1, <2>4 DEF Abs!Next
  <1>6. ASSUME NEW d \in Dwords, DwordInMemory(StackSlot),
               memory' = PutDword(memory, StackSlot, d)
        PROVE  Abs!Next
    <2>1. StackSlot \in Nat
      BY MemoryAssumption DEF StackSlot, Minus, Word, HeapInv, TypeOK
    <2>2. StackSlot \in Address
      BY <1>6, <2>1, MemoryAssumption DEF DwordInMemory, Address
    <2>3. Abs!OnlyChanges(Abs!Extent(StackSlot, 4))
      BY <1>3, <1>6, <2>1, PutChanges DEF Abs!OnlyChanges
    <2>4. Abs!Store(StackSlot, 4)
      BY <1>2, <2>3 DEF Abs!Store
    <2> QED BY <1>3, <2>2, <2>4 DEF Abs!Next
  <1> QED BY <1>4, <1>5, <1>6 DEF ProgramStep, SetESP, push32, pop32
-----------------------------------------------------------------------------
\* Run starts with no block, the process heap and memory cleared.
LEMMA InitRefines == Init => Abs!Init
  <1> SUFFICES ASSUME Init PROVE Abs!Init
    OBVIOUS
  <1>1. heapAllocs = << >> /\ DOMAIN heapAllocs = {}
    BY DEF Init
  <1>2. RoomyBlocks = << >>
    BY <1>1 DEF RoomyBlocks
  <1>3. memory \in [Abs!Address -> Byte]
    BY InputAssumption DEF Init, Address, Abs!Address
  <1>4. 1..(nextHeapHandle - 1) = {1}
    BY DEF Init
  <1> QED BY <1>2, <1>3, <1>4 DEF Init, Abs!Init, processHeapHandle

\* Every step is one the abstract heap allows, or it does not see it.
LEMMA StepRefines ==
  ASSUME NoWrap, HeapInv, [Next]_vars
  PROVE  Abs!Next \/ UNCHANGED Abs!vars
  <1>1. CASE UNCHANGED vars
    BY <1>1, RoomySame DEF Abs!vars, vars
  <1>2. CASE HeapCall
    <2>1. ASSUME NEW h \in HandleArgs, NEW zero \in BOOLEAN, NEW s \in Sizes,
                 HeapAlloc(h, zero, s)
          PROVE  Abs!Next \/ UNCHANGED Abs!vars
      BY <2>1, HeapAllocRefines
    <2> QED BY <1>2, <2>1, HeapCreateRefines, HeapDestroyRefines, HeapFreeRefines
            DEF HeapCall, LocalFree
  <1>3. CASE FormatCall
    BY <1>3, FormatMessageRefines DEF FormatCall
  <1>4. CASE ProgramStep
    BY <1>4, ProgramRefines
  <1> QED BY <1>1, <1>2, <1>3, <1>4 DEF Next

\* The heap of the machine keeps every promise of HeapSpec to its clients, for
\* every size of memory, of words and of data, when no request wraps
\* (heapAlloc, heapFree and the calls that reach them).
THEOREM Refinement == ASSUME NoWrap PROVE Spec => ImplementsHeapSpec
  <1>1. Init => Abs!Init
    BY InitRefines
  <1>2. HeapInv /\ [Next]_vars => [Abs!Next]_(Abs!vars)
    BY StepRefines
  <1> QED BY <1>1, <1>2, HeapInvariant, PTL DEF Spec, ImplementsHeapSpec, Abs!Spec
=============================================================================
