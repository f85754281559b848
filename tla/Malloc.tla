------------------------------- MODULE Malloc -------------------------------
(***************************************************************************)
(* The memory manager (MALLOC/malloc.c): a pool of blocks and a map with,  *)
(* for each block, the length of the allocation it belongs to.  The task   *)
(* stacks and the pools of lwIP come from it (lwip_comm.c:60-88); an       *)
(* attempt to start the network that runs out of memory frees what it got. *)
(***************************************************************************)
EXTENDS Integers, FiniteSetsExt

CONSTANTS
  NumBlocks,   \* MEM1_ALLOC_TABLE_SIZE
  BlockSize,   \* MEM1_BLOCK_SIZE
  Sizes        \* bytes asked for

\* The counts of blocks are of type u16 (malloc.c:73-74, malloc.h:32).
ASSUME MallocAssumption ==
  /\ {NumBlocks, BlockSize} \subseteq Nat \ {0} /\ NumBlocks < 65536
  /\ Sizes \subseteq Nat /\ \A size \in Sizes : size \div BlockSize < 65535

VARIABLES
  memmap,   \* memmap
  live,     \* allocations not yet freed: [offset, blocks]
  failed    \* the blocks of the last request, if there was no room for it, or 0

avars == <<memmap, live, failed>>

BlockNo == 0 .. NumBlocks - 1

\* my_mem_init
AllocInit == memmap = [b \in BlockNo |-> 0] /\ live = {} /\ failed = 0

\* The blocks for a size, the last one not full.
Blocks(size) == (size + BlockSize - 1) \div BlockSize

\* Mutant: the count of consecutive free blocks is not reset at a used one.
SearchGoesOn(n) ==
  LET Fits == {b \in BlockNo : Cardinality({c \in b .. NumBlocks - 1 : memmap[c] = 0}) = n}
  IN  IF Fits = {} THEN -1 ELSE Max(Fits)

\* The count of free blocks at a block in the loop of my_mem_malloc, which runs
\* from the last block to the first and resets it at a used block.
cmemb[b \in 0 .. NumBlocks] ==
  IF b = NumBlocks THEN 0 ELSE IF memmap[b] = 0 THEN cmemb[b + 1] + 1 ELSE 0

\* Mutant: the search ends before the first block.
SearchEndsEarly(n) ==
  LET Fits == {b \in BlockNo \ {0} : cmemb[b] = n}
  IN  IF Fits = {} THEN -1 ELSE Max(Fits)

\* The loop ends at the first block it comes to, the last of the pool, where the
\* count is that of the request; -1 is 0XFFFFFFFF.
Search(n) ==
  LET Fits == {b \in BlockNo : cmemb[b] = n}
  IN  IF Fits = {} THEN -1 ELSE Max(Fits)

mymalloc(size) ==
  LET n == Blocks(size)
      o == IF size = 0 THEN -1 ELSE Search(n)
  IN  IF o = -1
      THEN failed' = n /\ UNCHANGED <<memmap, live>>
      ELSE /\ memmap' = [b \in BlockNo |-> IF b \in o .. o + n - 1 THEN n ELSE memmap[b]]
           /\ live' = live \cup {[offset |-> o, blocks |-> n]}
           /\ failed' = 0

\* my_mem_free, which takes the length from the map.
myfree(o) ==
  /\ memmap' = [b \in BlockNo |-> IF b \in o .. o + memmap[o] - 1 THEN 0 ELSE memmap[b]]
  /\ live' = {a \in live : a.offset # o}
  /\ failed' = 0

ANext == \/ \E size \in Sizes : mymalloc(size)
         \/ \E a \in live : myfree(a.offset)

AllocSpec == AllocInit /\ [][ANext]_avars

-----------------------------------------------------------------------------
(* Properties                                                              *)

Region(a) == a.offset .. a.offset + a.blocks - 1

\* No block belongs to two allocations, and the map, from which free takes the
\* length, says of each block how long its own is (malloc.c:85-92, 110-115).
MapMatchesRegions ==
  /\ \A a, b \in live : a # b => Region(a) \cap Region(b) = {}
  /\ \A a \in live : Region(a) \subseteq BlockNo /\ \A b \in Region(a) : memmap[b] = a.blocks
  /\ \A b \in BlockNo : memmap[b] # 0 => \E a \in live : b \in Region(a)

\* A request fails only if no free stretch of the pool is long enough, the first
\* and the last block included (malloc.c:81-94).
FailsOnlyWhenFull ==
  failed # 0 => \A o \in 0 .. NumBlocks - failed :
                  \E b \in o .. o + failed - 1 : memmap[b] # 0
=============================================================================
