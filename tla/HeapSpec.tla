------------------------------ MODULE HeapSpec ------------------------------
(***************************************************************************)
(* What a program may rely on when it uses HeapCreate, HeapAlloc, HeapFree, *)
(* HeapDestroy and LocalFree: a block it is given overlaps no other live    *)
(* block and no byte of the program's data, a heap call changes the bytes   *)
(* of no live block but the one it gives or takes back, and a heap that was *)
(* destroyed never comes back.  Nothing is said of where blocks are put,    *)
(* nor of when a request is refused.                                        *)
(***************************************************************************)
EXTENDS Naturals

CONSTANTS MemSize,   \* bytes of memory
          Base,      \* the first byte that is not the program's own data
          Byte       \* the values of a byte

VARIABLES heaps,     \* the handles of the heaps that exist
          issued,    \* every handle ever given out
          blocks,    \* live blocks: start address -> [handle, size]
          memory     \* address -> byte

vars == <<heaps, issued, blocks, memory>>

Address == 0..(MemSize - 1)

Extent(b, s) == b..(b + s - 1)

OnlyChanges(region) == \A i \in Address \ region : memory'[i] = memory[i]

Init == /\ heaps = {1}
        /\ issued = {1}
        /\ blocks = << >>
        /\ memory \in [Address -> Byte]

Create == \E h \in heaps' \ issued :
            /\ heaps' = heaps \union {h}
            /\ issued' = issued \union {h}
            /\ UNCHANGED <<blocks, memory>>

Destroy(h) == /\ heaps' = heaps \ {h}
              /\ blocks' = [a \in {b \in DOMAIN blocks : blocks[b].handle # h} |-> blocks[a]]
              /\ UNCHANGED <<issued, memory>>

\* "out" is where the caller asked for the address to be stored as well.
Alloc(h, b, s, out) ==
  /\ h \in heaps
  /\ b \notin DOMAIN blocks
  /\ b >= Base /\ b + s <= MemSize
  /\ \A a \in DOMAIN blocks : Extent(a, blocks[a].size) \intersect Extent(b, s) = {}
  /\ blocks' = [a \in DOMAIN blocks \union {b} |->
                  IF a = b THEN [handle |-> h, size |-> s] ELSE blocks[a]]
  /\ OnlyChanges(Extent(b, s) \union out)
  /\ UNCHANGED <<heaps, issued>>

Free(b) == /\ blocks' = [a \in DOMAIN blocks \ {b} |-> blocks[a]]
           /\ OnlyChanges(Extent(b, blocks[b].size))
           /\ UNCHANGED <<heaps, issued>>

\* The program writes to its own memory, a push included.
Store(b, width) == /\ OnlyChanges(Extent(b, width))
                   /\ UNCHANGED <<heaps, issued, blocks>>

Next == \/ Create
        \/ \E h \in heaps : Destroy(h)
        \/ \E h \in heaps, b \in DOMAIN blocks' \ DOMAIN blocks :
             \/ Alloc(h, b, blocks'[b].size, {})
             \/ \E p \in Address : Alloc(h, b, blocks'[b].size, Extent(p, 4))
        \/ \E b \in DOMAIN blocks : Free(b)
        \/ \E b \in Address : Store(b, 1) \/ Store(b, 4)

Spec == Init /\ [][Next]_vars
=============================================================================
