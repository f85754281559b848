----------------------------- MODULE LoopProofs -----------------------------
(***************************************************************************)
(* Theorems about the modules whose loops are recursive functions, Malloc  *)
(* and Timeouts.  Malloc, for any number of blocks, block size and         *)
(* requests: no block belongs to two allocations, the map describes the    *)
(* allocations, and a request fails only when no stretch of the pool is    *)
(* long enough.  Timeouts, for any handlers and intervals: the list of     *)
(* differences implements independent timers, and calls no handler too     *)
(* early.  That a loop counts what it should is shown by the least number  *)
(* of its steps after which it would not.                                  *)
(***************************************************************************)
EXTENDS Malloc, Timeouts, ListFacts

-----------------------------------------------------------------------------
(* The count of the search loop                                            *)

\* The blocks and their sizes.
LEMMA Known ==
  /\ NumBlocks \in Nat \ {0} /\ BlockSize \in Nat \ {0} /\ Sizes \subseteq Nat
  /\ BlockNo = 0 .. NumBlocks - 1 /\ BlockNo \subseteq Nat
  BY MallocAssumption DEF BlockNo

\* One step of the loop: the count at block b from the count behind it.
Counted(f, b) == IF b = NumBlocks THEN 0 ELSE IF memmap[b] = 0 THEN f[b + 1] + 1 ELSE 0

\* The loop's counts from block k on exist.
CountsFrom(k) == \E f : f = [b \in k .. NumBlocks |-> Counted(f, b)]

\* If the counts from the next block on exist, so do those from this one on.
LEMMA CountsStep ==
  ASSUME NEW k \in Nat, k < NumBlocks, CountsFrom(k + 1)
  PROVE  CountsFrom(k)
<1>1. PICK f : f = [b \in k + 1 .. NumBlocks |-> Counted(f, b)]
  BY DEF CountsFrom
<1> DEFINE D == k .. NumBlocks
           g == [b \in D |-> IF b = k THEN Counted(f, k) ELSE f[b]]
<1>2. NumBlocks \in Nat
  BY Known
<1>3. \A b \in D : b = k \/ b \in k + 1 .. NumBlocks
  BY <1>2
<1>4. ASSUME NEW b \in D PROVE Counted(g, b) = Counted(f, b)
  <2>1. b # NumBlocks => b + 1 \in D /\ b + 1 # k
    BY <1>2
  <2>2. b # NumBlocks => g[b + 1] = f[b + 1]
    BY <2>1
  <2> QED
    BY <2>2 DEF Counted
<1>5. ASSUME NEW b \in D PROVE g[b] = Counted(g, b)
  <2>1. CASE b = k
    BY <1>4, <2>1
  <2>2. CASE b # k
    <3>1. f[b] = Counted(f, b)
      BY <1>1, <1>3, <2>2
    <3> QED
      BY <1>4, <2>2, <3>1
  <2> QED
    BY <2>1, <2>2
<1>6. g = [b \in D |-> g[b]]
  OBVIOUS
<1> HIDE DEF g, D
<1>7. g = [b \in D |-> Counted(g, b)]
  BY <1>5, <1>6
<1> QED
  BY <1>7 DEF CountsFrom, D

\* The counts of the whole loop exist: consider the last block from which they
\* would not.
LEMMA CountsExist == CountsFrom(0)
<1> DEFINE Bad == {i \in Nat : i <= NumBlocks /\ ~CountsFrom(NumBlocks - i)}
<1>1. NumBlocks \in Nat
  BY Known
<1>2. ASSUME Bad # {} PROVE FALSE
  <2>1. PICK i \in Bad : \A j \in Bad : i <= j
    BY <1>2, LeastNumber
  <2>2. i \in Nat /\ i <= NumBlocks /\ ~CountsFrom(NumBlocks - i)
    BY <2>1
  <2>3. i # 0
    <3>1. CountsFrom(NumBlocks)
      <4> DEFINE f == [b \in NumBlocks .. NumBlocks |-> 0]
      <4>1. \A b \in NumBlocks .. NumBlocks : Counted(f, b) = 0
        BY <1>1 DEF Counted
      <4>2. f = [b \in NumBlocks .. NumBlocks |-> Counted(f, b)]
        BY <4>1
      <4> QED
        BY <4>2 DEF CountsFrom
    <3>2. NumBlocks - 0 = NumBlocks
      BY <1>1
    <3> QED
      BY <2>2, <3>1, <3>2
  <2>4. CountsFrom(NumBlocks - (i - 1))
    <3>1. i - 1 \in Nat /\ i - 1 <= NumBlocks /\ i - 1 \notin Bad
      BY <1>1, <2>1, <2>2, <2>3
    <3> QED
      BY <3>1
  <2> DEFINE k == NumBlocks - i
  <2>5. k \in Nat /\ k < NumBlocks /\ NumBlocks - (i - 1) = k + 1
    BY <1>1, <2>2, <2>3
  <2> HIDE DEF k
  <2> QED
    BY <2>2, <2>4, <2>5, CountsStep DEF k
<1>3. NumBlocks \in Nat /\ NumBlocks <= NumBlocks /\ NumBlocks - NumBlocks = 0
  BY <1>1
<1> QED
  BY <1>2, <1>3

\* cmemb is what one pass of the loop computes.
LEMMA CmembIs ==
  /\ cmemb[NumBlocks] = 0
  /\ \A b \in BlockNo : cmemb[b] = IF memmap[b] = 0 THEN cmemb[b + 1] + 1 ELSE 0
<1>1. \E f : f = [b \in 0 .. NumBlocks |->
                   IF b = NumBlocks THEN 0 ELSE IF memmap[b] = 0 THEN f[b + 1] + 1 ELSE 0]
  BY CountsExist DEF CountsFrom, Counted
<1>2. cmemb = [b \in 0 .. NumBlocks |->
                IF b = NumBlocks THEN 0 ELSE IF memmap[b] = 0 THEN cmemb[b + 1] + 1 ELSE 0]
  BY <1>1 DEF cmemb
<1>3. NumBlocks \in 0 .. NumBlocks /\ \A b \in BlockNo : b \in 0 .. NumBlocks /\ b # NumBlocks
  BY Known
<1> QED
  BY <1>2, <1>3

\* The count at a block is the length of the free stretch that begins there.
Stretch(b, n) ==
  /\ n \in Nat /\ b + n <= NumBlocks
  /\ \A c \in b .. b + n - 1 : memmap[c] = 0
  /\ b + n < NumBlocks => memmap[b + n] # 0

\* By the last block of which it would not be true.
LEMMA CmembCounts == ASSUME NEW b \in 0 .. NumBlocks PROVE Stretch(b, cmemb[b])
<1> DEFINE Bad == {i \in Nat : i <= NumBlocks /\ ~Stretch(NumBlocks - i, cmemb[NumBlocks - i])}
<1>1. NumBlocks \in Nat
  BY Known
<1>2. ASSUME Bad # {} PROVE FALSE
  <2>1. PICK i \in Bad : \A j \in Bad : i <= j
    BY <1>2, LeastNumber
  <2> DEFINE k == NumBlocks - i
  <2>2. i \in Nat /\ i <= NumBlocks /\ ~Stretch(k, cmemb[k])
    BY <2>1
  <2>3. i # 0
    <3>1. Stretch(NumBlocks, 0)
      BY <1>1 DEF Stretch
    <3>2. NumBlocks - 0 = NumBlocks
      BY <1>1
    <3> QED
      BY <2>2, <3>1, <3>2, CmembIs
  <2>4. Stretch(NumBlocks - (i - 1), cmemb[NumBlocks - (i - 1)])
    <3>1. i - 1 \in Nat /\ i - 1 <= NumBlocks /\ i - 1 \notin Bad
      BY <1>1, <2>1, <2>2, <2>3
    <3> QED
      BY <3>1
  <2>5. k \in Nat /\ k < NumBlocks /\ NumBlocks - (i - 1) = k + 1 /\ k \in BlockNo
    BY <1>1, <2>2, <2>3 DEF BlockNo
  <2> HIDE DEF k
  <2>6. Stretch(k + 1, cmemb[k + 1])
    BY <2>4, <2>5
  <2>7. cmemb[k] = IF memmap[k] = 0 THEN cmemb[k + 1] + 1 ELSE 0
    BY <2>5, CmembIs
  <2>8. CASE memmap[k] = 0
    <3> DEFINE n == cmemb[k + 1]
    <3>1. /\ n \in Nat /\ (k + 1) + n <= NumBlocks
          /\ \A c \in k + 1 .. (k + 1) + n - 1 : memmap[c] = 0
          /\ (k + 1) + n < NumBlocks => memmap[(k + 1) + n] # 0
      BY <2>6 DEF Stretch
    <3>2. cmemb[k] = n + 1
      BY <2>7, <2>8
    <3> HIDE DEF n
    <3>3. k + (n + 1) = (k + 1) + n
      BY <2>5, <3>1
    <3>4. \A c \in k .. k + (n + 1) - 1 : memmap[c] = 0
      <4>1. \A c \in k .. k + (n + 1) - 1 : c = k \/ c \in k + 1 .. (k + 1) + n - 1
        BY <2>5, <3>1
      <4> QED
        BY <2>8, <3>1, <4>1
    <3>5. Stretch(k, n + 1)
      BY <3>1, <3>3, <3>4 DEF Stretch
    <3> QED
      BY <2>2, <3>2, <3>5
  <2>9. CASE memmap[k] # 0
    <3>1. Stretch(k, 0)
      BY <2>5, <2>9, <1>1 DEF Stretch
    <3> QED
      BY <2>2, <2>7, <2>9, <3>1
  <2> QED
    BY <2>8, <2>9
<1>3. NumBlocks - b \in Nat /\ NumBlocks - b <= NumBlocks /\ NumBlocks - (NumBlocks - b) = b
  BY <1>1
<1>4. NumBlocks - b \notin Bad
  BY <1>2
<1> QED
  BY <1>3, <1>4

-----------------------------------------------------------------------------
(* What the search returns                                                 *)

\* A set of block numbers has a greatest one.
LEMMA GreatestBlock ==
  ASSUME NEW F, F \subseteq BlockNo, F # {}
  PROVE  Max(F) \in F
<1> DEFINE R == {NumBlocks - b : b \in F}
<1>1. NumBlocks \in Nat /\ \A b \in F : b \in Nat /\ b < NumBlocks
  BY Known
<1>2. R \subseteq Nat /\ R # {}
  BY <1>1
<1>3. PICK r \in R : \A y \in R : r <= y
  BY <1>2, LeastNumber
<1>4. PICK x \in F : r = NumBlocks - x
  BY <1>3
<1>5. \A y \in F : x >= y
  <2> TAKE y \in F
  <2>1. NumBlocks - y \in R
    OBVIOUS
  <2>2. NumBlocks - x <= NumBlocks - y
    BY <1>3, <1>4, <2>1
  <2> QED
    BY <1>1, <2>2
<1> QED
  BY <1>5 DEF Max

\* What the search finds is a free stretch of the length asked for; when it
\* finds none, every stretch of that length has a used block.
LEMMA SearchFinds ==
  ASSUME NEW n \in Nat \ {0}
  PROVE  /\ Search(n) # -1 =>
              /\ Search(n) \in BlockNo /\ Search(n) + n <= NumBlocks
              /\ \A b \in Search(n) .. Search(n) + n - 1 : memmap[b] = 0
         /\ Search(n) = -1 =>
              \A o \in 0 .. NumBlocks - n : \E b \in o .. o + n - 1 : memmap[b] # 0
<1> DEFINE Fits == {b \in BlockNo : cmemb[b] = n}
<1>1. NumBlocks \in Nat /\ BlockNo = 0 .. NumBlocks - 1
  BY Known
<1>2. CASE Fits # {}
  <2> DEFINE o == Search(n)
  <2>1. o \in Fits
    <3>1. o = Max(Fits)
      BY <1>2 DEF Search
    <3>2. Fits \subseteq BlockNo
      OBVIOUS
    <3> HIDE DEF Fits
    <3> QED
      BY <1>2, <3>1, <3>2, GreatestBlock
  <2>2. o \in BlockNo /\ cmemb[o] = n
    BY <2>1
  <2> HIDE DEF o
  <2>3. Stretch(o, n)
    BY <1>1, <2>2, CmembCounts
  <2>4. o \in BlockNo /\ o + n <= NumBlocks /\ (\A b \in o .. o + n - 1 : memmap[b] = 0) /\ o # -1
    BY <1>1, <2>2, <2>3 DEF Stretch
  <2> QED
    BY <2>4 DEF o
<1>3. CASE Fits = {}
  <2>1. Search(n) = -1
    BY <1>3 DEF Search
  <2>2. ASSUME NEW o \in 0 .. NumBlocks - n, \A b \in o .. o + n - 1 : memmap[b] = 0
        PROVE  FALSE
    <3> DEFINE k == cmemb[o]
    <3>1. o \in Nat /\ o + n <= NumBlocks /\ o \in 0 .. NumBlocks
      BY <1>1
    <3>2. Stretch(o, k)
      BY <3>1, CmembCounts
    <3> HIDE DEF k
    <3>3. /\ k \in Nat /\ o + k <= NumBlocks /\ (\A c \in o .. o + k - 1 : memmap[c] = 0)
          /\ o + k < NumBlocks => memmap[o + k] # 0
      BY <3>2 DEF Stretch
    <3>4. k >= n
      <4>1. CASE k < n
        <5>1. o + k \in o .. o + n - 1 /\ o + k < NumBlocks
          BY <1>1, <3>1, <3>3, <4>1
        <5>2. memmap[o + k] = 0
          BY <2>2, <5>1
        <5>3. memmap[o + k] # 0
          BY <3>3, <5>1
        <5> QED
          BY <5>2, <5>3
      <4> QED
        BY <1>1, <3>3, <4>1
    <3> DEFINE b == o + (k - n)
    <3>5. b \in BlockNo /\ b \in 0 .. NumBlocks /\ b + n = o + k /\ b >= o
      BY <1>1, <3>1, <3>3, <3>4
    <3> HIDE DEF b
    <3>6. Stretch(b, cmemb[b])
      BY <3>5, CmembCounts
    <3>7. cmemb[b] = n
      <4> DEFINE m == cmemb[b]
      <4>1. /\ m \in Nat /\ b + m <= NumBlocks /\ (\A c \in b .. b + m - 1 : memmap[c] = 0)
            /\ b + m < NumBlocks => memmap[b + m] # 0
        BY <3>6 DEF Stretch
      <4> HIDE DEF m
      <4>2. CASE m < n
        <5>1. b + m \in o .. o + k - 1 /\ b + m < NumBlocks
          BY <1>1, <3>1, <3>3, <3>5, <4>1, <4>2
        <5>2. memmap[b + m] = 0
          BY <3>3, <5>1
        <5>3. memmap[b + m] # 0
          BY <4>1, <5>1
        <5> QED
          BY <5>2, <5>3
      <4>3. CASE m > n
        <5>1. b + n \in b .. b + m - 1 /\ o + k < NumBlocks
          BY <1>1, <3>1, <3>3, <3>5, <4>1, <4>3
        <5>2. memmap[b + n] = 0
          BY <4>1, <5>1
        <5>3. memmap[o + k] # 0
          BY <3>3, <5>1
        <5> QED
          BY <3>5, <5>2, <5>3
      <4> QED
        BY <4>1, <4>2, <4>3 DEF m
    <3> QED
      BY <1>3, <3>5, <3>7
  <2> QED
    BY <2>1, <2>2
<1> QED
  BY <1>2, <1>3

\* A request that is not empty takes at least one block.
LEMMA BlocksPositive ==
  ASSUME NEW size \in Nat
  PROVE  Blocks(size) \in Nat /\ (size = 0 => Blocks(size) = 0) /\ (size # 0 => Blocks(size) # 0)
  BY Known DEF Blocks

-----------------------------------------------------------------------------
(* The invariant                                                           *)

\* The map holds numbers, and an allocation has at least one block.
AllocTyped ==
  /\ memmap \in [BlockNo -> Nat]
  /\ live \subseteq [offset : BlockNo, blocks : Nat \ {0}]
  /\ failed \in Nat

\* Free takes a length from the map, so that the map must be known to match the
\* allocations; a request is refused for what the map says.
AllocInv == AllocTyped /\ MapMatchesRegions /\ FailsOnlyWhenFull

\* The pool starts free.
LEMMA AllocInitInv == ASSUME AllocInit PROVE AllocInv
  BY Known DEF AllocInit, AllocInv, AllocTyped, MapMatchesRegions, FailsOnlyWhenFull, Region

\* A request is served from free blocks, or refused.
LEMMA MallocStep == ASSUME AllocInv, NEW size \in Sizes, mymalloc(size) PROVE AllocInv'
<1> DEFINE n == Blocks(size)
           o == IF size = 0 THEN -1 ELSE Search(n)
<1>1. /\ NumBlocks \in Nat /\ BlockNo = 0 .. NumBlocks - 1 /\ size \in Nat
      /\ AllocTyped /\ MapMatchesRegions
  BY Known DEF AllocInv
<1>2. n \in Nat /\ (size = 0 => n = 0) /\ (size # 0 => n # 0)
  BY <1>1, BlocksPositive
<1>3. CASE o = -1
  <2>1. failed' = n /\ UNCHANGED <<memmap, live>>
    BY <1>3 DEF mymalloc
  <2>2. n # 0 => \A w \in 0 .. NumBlocks - n : \E b \in w .. w + n - 1 : memmap[b] # 0
    BY <1>2, <1>3, SearchFinds
  <2> HIDE DEF n, o
  <2>3. AllocTyped' /\ MapMatchesRegions'
    BY <1>1, <1>2, <2>1 DEF AllocTyped, MapMatchesRegions, Region
  <2>4. FailsOnlyWhenFull'
    BY <2>1, <2>2 DEF FailsOnlyWhenFull
  <2> QED
    BY <2>3, <2>4 DEF AllocInv
<1>4. CASE o # -1
  <2>1. /\ memmap' = [b \in BlockNo |-> IF b \in o .. o + n - 1 THEN n ELSE memmap[b]]
        /\ live' = live \cup {[offset |-> o, blocks |-> n]}
        /\ failed' = 0
    BY <1>4 DEF mymalloc
  <2>2. /\ n \in Nat \ {0} /\ o \in BlockNo /\ o + n <= NumBlocks
        /\ \A b \in o .. o + n - 1 : memmap[b] = 0
    <3>1. size # 0 /\ n \in Nat \ {0} /\ o = Search(n)
      BY <1>2, <1>4
    <3> HIDE DEF n, o
    <3> QED
      BY <1>4, <3>1, SearchFinds
  <2> HIDE DEF n, o
  <2> DEFINE new == [offset |-> o, blocks |-> n]
  <2>3. /\ new.offset = o /\ new.blocks = n /\ live' = live \cup {new}
        /\ Region(new) = o .. o + n - 1
    BY <2>1 DEF Region
  <2>4. AllocTyped'
    BY <1>1, <2>1, <2>2 DEF AllocTyped
  <2> HIDE DEF new
  <2>5. ASSUME NEW a \in live PROVE Region(a) \cap Region(new) = {}
    <3>1. \A b \in Region(a) : memmap[b] = a.blocks /\ a.blocks # 0
      BY <1>1 DEF MapMatchesRegions, AllocTyped
    <3> QED
      BY <2>2, <2>3, <3>1
  <2>6. Region(new) \subseteq BlockNo /\ \A b \in BlockNo :
          memmap'[b] = IF b \in Region(new) THEN n ELSE memmap[b]
    BY <1>1, <2>1, <2>2, <2>3
  <2>7. \A a, b \in live' : a # b => Region(a) \cap Region(b) = {}
    BY <1>1, <2>3, <2>5 DEF MapMatchesRegions
  <2>8. \A a \in live' : Region(a) \subseteq BlockNo /\ \A b \in Region(a) : memmap'[b] = a.blocks
    BY <1>1, <2>3, <2>5, <2>6 DEF MapMatchesRegions
  <2>9. \A b \in BlockNo : memmap'[b] # 0 => \E a \in live' : b \in Region(a)
    BY <1>1, <2>3, <2>6 DEF MapMatchesRegions
  <2>10. MapMatchesRegions'
    BY <2>7, <2>8, <2>9 DEF MapMatchesRegions, Region
  <2> QED
    BY <2>1, <2>4, <2>10 DEF AllocInv, FailsOnlyWhenFull
<1> QED
  BY <1>3, <1>4

\* An allocation is given back: the map says how long it is.
LEMMA FreeStep == ASSUME AllocInv, NEW a \in live, myfree(a.offset) PROVE AllocInv'
<1> DEFINE o == a.offset
           n == a.blocks
<1>1. /\ NumBlocks \in Nat /\ BlockNo = 0 .. NumBlocks - 1 /\ AllocTyped /\ MapMatchesRegions
  BY Known DEF AllocInv
<1>2. o \in BlockNo /\ n \in Nat \ {0} /\ Region(a) = o .. o + n - 1
  BY <1>1 DEF AllocTyped, Region
<1>3. memmap[o] = n
  <2>1. o \in Region(a)
    BY <1>1, <1>2
  <2> QED
    BY <1>1, <2>1 DEF MapMatchesRegions
<1>4. /\ memmap' = [b \in BlockNo |-> IF b \in Region(a) THEN 0 ELSE memmap[b]]
      /\ live' = {x \in live : x.offset # o} /\ failed' = 0
  BY <1>2, <1>3 DEF myfree
<1>5. live' = live \ {a}
  <2>1. ASSUME NEW x \in live, x.offset = o PROVE x = a
    <3>1. o \in Region(x) /\ o \in Region(a)
      BY <1>1, <1>2, <2>1 DEF AllocTyped, Region
    <3> QED
      BY <1>1, <3>1 DEF MapMatchesRegions
  <2> QED
    BY <1>4, <2>1
<1> HIDE DEF o, n
<1>6. AllocTyped'
  BY <1>1, <1>4, <1>5 DEF AllocTyped
<1>7. \A x \in live' : x \in live /\ Region(x) \cap Region(a) = {}
  BY <1>1, <1>5 DEF MapMatchesRegions
<1>8. \A b \in BlockNo : memmap'[b] = IF b \in Region(a) THEN 0 ELSE memmap[b]
  BY <1>4
<1>9. \A x, y \in live' : x # y => Region(x) \cap Region(y) = {}
  BY <1>1, <1>7 DEF MapMatchesRegions
<1>10. \A x \in live' : Region(x) \subseteq BlockNo /\ \A b \in Region(x) : memmap'[b] = x.blocks
  BY <1>1, <1>7, <1>8 DEF MapMatchesRegions
<1>11. \A b \in BlockNo : memmap'[b] # 0 => \E x \in live' : b \in Region(x)
  BY <1>1, <1>5, <1>8 DEF MapMatchesRegions
<1>12. MapMatchesRegions'
  BY <1>9, <1>10, <1>11 DEF MapMatchesRegions, Region
<1> QED
  BY <1>4, <1>6, <1>12 DEF AllocInv, FailsOnlyWhenFull

\* Every step keeps the invariant.
LEMMA AllocNext == ASSUME AllocInv, [ANext]_avars PROVE AllocInv'
<1>1. CASE UNCHANGED avars
  BY <1>1 DEF avars, AllocInv, AllocTyped, MapMatchesRegions, FailsOnlyWhenFull, Region
<1> QED
  BY <1>1, MallocStep, FreeStep DEF ANext

\* The invariant holds of every behaviour of the manager.
THEOREM AllocInvCorrect == AllocSpec => []AllocInv
  BY AllocInitInv, AllocNext, PTL DEF AllocSpec

\* No block belongs to two allocations, and free finds in the map the length of
\* what it frees (malloc.c:85-92, 110-115).
THEOREM MapMatchesCorrect == AllocSpec => []MapMatchesRegions
<1>1. AllocInv => MapMatchesRegions
  BY DEF AllocInv
<1> QED
  BY <1>1, AllocInvCorrect, PTL

\* A request fails only if no free stretch is long enough (malloc.c:81-94).
THEOREM FailsOnlyWhenFullCorrect == AllocSpec => []FailsOnlyWhenFull
<1>1. AllocInv => FailsOnlyWhenFull
  BY DEF AllocInv
<1> QED
  BY <1>1, AllocInvCorrect, PTL

-----------------------------------------------------------------------------
(* The sums of the list                                                    *)

\* The timers in the list.
Element == [h : Handler, time : Nat, at : Nat, heard : Nat]

\* A function on 1..n is a sequence.
LEMMA BuiltSeq ==
  ASSUME NEW S, NEW n \in Nat, NEW f, f \in [1 .. n -> S]
  PROVE  f \in Seq(S) /\ Len(f) = n
  OBVIOUS

\* s gives the sums of the first elements of l.
SumsOf(l, s) ==
  /\ DOMAIN s = 0 .. Len(l) /\ s[0] = 0
  /\ \A i \in 1 .. Len(l) : s[i] = s[i - 1] + l[i].time

\* One step of the sum.
Added(l, s, j) == IF j = 0 THEN 0 ELSE s[j - 1] + l[j].time

\* The sums up to the element k exist.
SumsUpTo(l, k) == \E s : s = [j \in 0 .. k |-> Added(l, s, j)]

\* One more.
LEMMA SumsStep ==
  ASSUME NEW l, NEW k \in Nat, SumsUpTo(l, k)
  PROVE  SumsUpTo(l, k + 1)
<1>1. PICK s : s = [j \in 0 .. k |-> Added(l, s, j)]
  BY DEF SumsUpTo
<1> DEFINE D == 0 .. k + 1
           t == [j \in D |-> IF j = k + 1 THEN Added(l, s, j) ELSE s[j]]
<1>2. \A j \in D : j = k + 1 \/ j \in 0 .. k
  OBVIOUS
<1>3. ASSUME NEW j \in D PROVE Added(l, t, j) = Added(l, s, j)
  <2>1. j # 0 => j - 1 \in D /\ j - 1 # k + 1
    OBVIOUS
  <2>2. j # 0 => t[j - 1] = s[j - 1]
    BY <2>1
  <2> QED
    BY <2>2 DEF Added
<1>4. ASSUME NEW j \in D PROVE t[j] = Added(l, t, j)
  <2>1. CASE j = k + 1
    BY <1>3, <2>1
  <2>2. CASE j # k + 1
    <3>1. s[j] = Added(l, s, j)
      BY <1>1, <1>2, <2>2
    <3> QED
      BY <1>3, <2>2, <3>1
  <2> QED
    BY <2>1, <2>2
<1>5. t = [j \in D |-> t[j]]
  OBVIOUS
<1> HIDE DEF t, D
<1>6. t = [j \in D |-> Added(l, t, j)]
  BY <1>4, <1>5
<1> QED
  BY <1>6 DEF SumsUpTo, D

\* All of them: consider the least number of elements without sums.
LEMMA SumsExist == ASSUME NEW l, NEW n \in Nat PROVE SumsUpTo(l, n)
<1> DEFINE Bad == {k \in Nat : ~SumsUpTo(l, k)}
<1>1. ASSUME Bad # {} PROVE FALSE
  <2>1. PICK k \in Bad : \A j \in Bad : k <= j
    BY <1>1, LeastNumber
  <2>2. k \in Nat /\ ~SumsUpTo(l, k)
    BY <2>1
  <2>3. k # 0
    <3>1. SumsUpTo(l, 0)
      <4> DEFINE s == [j \in 0 .. 0 |-> 0]
      <4>1. \A j \in 0 .. 0 : Added(l, s, j) = 0
        BY DEF Added
      <4>2. s = [j \in 0 .. 0 |-> Added(l, s, j)]
        BY <4>1
      <4> QED
        BY <4>2 DEF SumsUpTo
    <3> QED
      BY <2>2, <3>1
  <2>4. k - 1 \in Nat /\ k - 1 \notin Bad /\ (k - 1) + 1 = k
    BY <2>1, <2>2, <2>3
  <2>5. SumsUpTo(l, k - 1)
    BY <2>4
  <2> QED
    BY <2>2, <2>4, <2>5, SumsStep
<1> QED
  BY <1>1

\* Sum is what it says.
LEMMA SumIs ==
  ASSUME NEW l \in Seq(Element)
  PROVE  /\ Sum(l, 0) = 0
         /\ \A i \in 1 .. Len(l) : Sum(l, i) = Sum(l, i - 1) + l[i].time
<1> DEFINE n == Len(l)
           sum[j \in 0 .. n] == IF j = 0 THEN 0 ELSE sum[j - 1] + l[j].time
<1>1. n \in Nat
  BY LenProperties
<1>2. \A i : Sum(l, i) = sum[i]
  BY DEF Sum
<1>3. \E s : s = [j \in 0 .. n |-> IF j = 0 THEN 0 ELSE s[j - 1] + l[j].time]
  <2> HIDE DEF n
  <2> QED
    BY <1>1, SumsExist DEF SumsUpTo, Added
<1>4. sum = [j \in 0 .. n |-> IF j = 0 THEN 0 ELSE sum[j - 1] + l[j].time]
  BY <1>3
<1> HIDE DEF sum, n
<1>5. 0 \in 0 .. n /\ \A i \in 1 .. n : i \in 0 .. n /\ i # 0
  BY <1>1
<1>6. sum[0] = 0 /\ \A i \in 1 .. n : sum[i] = sum[i - 1] + l[i].time
  BY <1>4, <1>5
<1> QED
  BY <1>2, <1>6 DEF n

\* There is one such sum: consider the least element where two differ.
LEMMA SumUnique ==
  ASSUME NEW l \in Seq(Element), NEW s, SumsOf(l, s)
  PROVE  \A i \in 0 .. Len(l) : Sum(l, i) = s[i]
<1> DEFINE Bad == {i \in Nat : i <= Len(l) /\ Sum(l, i) # s[i]}
<1>1. Len(l) \in Nat
  BY LenProperties
<1>2. ASSUME Bad # {} PROVE FALSE
  <2>1. PICK i \in Bad : \A j \in Bad : i <= j
    BY <1>2, LeastNumber
  <2>2. i \in Nat /\ i <= Len(l) /\ Sum(l, i) # s[i]
    BY <2>1
  <2>3. i # 0
    BY <2>2, SumIs DEF SumsOf
  <2>4. i \in 1 .. Len(l) /\ i - 1 \in Nat /\ i - 1 <= Len(l)
    BY <1>1, <2>2, <2>3
  <2>5. i - 1 \notin Bad
    BY <2>1, <2>2, <2>3
  <2>6. Sum(l, i - 1) = s[i - 1]
    BY <2>4, <2>5
  <2>7. Sum(l, i) = Sum(l, i - 1) + l[i].time /\ s[i] = s[i - 1] + l[i].time
    BY <2>4, SumIs DEF SumsOf
  <2> QED
    BY <2>2, <2>6, <2>7
<1>3. \A i \in 0 .. Len(l) : i \in Nat /\ i <= Len(l)
  BY <1>1
<1> QED
  BY <1>2, <1>3

\* A sum is a number, at least that of fewer elements and the first time.
LEMMA SumNat ==
  ASSUME NEW l \in Seq(Element)
  PROVE  /\ \A i \in 0 .. Len(l) : Sum(l, i) \in Nat
         /\ \A i \in 1 .. Len(l) : Sum(l, i) >= l[1].time
<1> DEFINE Bad == {i \in Nat : i <= Len(l) /\ ~(Sum(l, i) \in Nat /\ (i # 0 => Sum(l, i) >= l[1].time))}
<1>1. Len(l) \in Nat
  BY LenProperties
<1>2. ASSUME Bad # {} PROVE FALSE
  <2>1. PICK i \in Bad : \A j \in Bad : i <= j
    BY <1>2, LeastNumber
  <2>2. i \in Nat /\ i <= Len(l) /\ ~(Sum(l, i) \in Nat /\ (i # 0 => Sum(l, i) >= l[1].time))
    BY <2>1
  <2>3. i # 0
    BY <2>2, SumIs
  <2>4. i \in 1 .. Len(l) /\ 1 \in 1 .. Len(l) /\ i - 1 \in Nat /\ i - 1 <= Len(l)
    BY <1>1, <2>2, <2>3
  <2>5. i - 1 \notin Bad
    BY <2>1, <2>2, <2>3
  <2>6. Sum(l, i - 1) \in Nat /\ (i - 1 # 0 => Sum(l, i - 1) >= l[1].time)
    BY <2>4, <2>5
  <2>7. Sum(l, i) = Sum(l, i - 1) + l[i].time
    BY <2>4, SumIs
  <2>8. l[i] \in Element /\ l[1] \in Element
    BY <2>4, ElementOfSeq
  <2>9. l[i].time \in Nat /\ l[1].time \in Nat
    BY <2>8 DEF Element
  <2>10. CASE i = 1
    <3>1. Sum(l, i) = l[1].time
      BY <2>7, <2>9, <2>10, SumIs
    <3> QED
      BY <2>2, <2>9, <3>1
  <2>11. CASE i # 1
    BY <2>2, <2>3, <2>6, <2>7, <2>9, <2>11
  <2> QED
    BY <2>10, <2>11
<1>3. (\A i \in 0 .. Len(l) : i \in Nat /\ i <= Len(l)) /\ \A i \in 1 .. Len(l) : i \in Nat /\ i <= Len(l) /\ i # 0
  BY <1>1
<1> QED
  BY <1>2, <1>3

-----------------------------------------------------------------------------
(* The walk of sys_timeout                                                 *)

\* The walk passes the elements that are due no later: it stops somewhere.
LEMMA PassedIs ==
  ASSUME NEW l \in Seq(Element), NEW ms \in Nat
  PROVE  /\ Passed(l, ms) \in 0 .. Len(l)
         /\ Sum(l, Passed(l, ms)) <= ms
         /\ Passed(l, ms) < Len(l) => Sum(l, Passed(l, ms) + 1) > ms
<1> DEFINE P(k) == /\ Sum(l, k) <= ms
                   /\ k < Len(l) => Sum(l, k + 1) > ms
           Late == {j \in Nat : j < Len(l) /\ Sum(l, j + 1) > ms}
<1>1. Len(l) \in Nat
  BY LenProperties
<1>2. \A j \in 0 .. Len(l) : Sum(l, j) \in Nat
  BY SumNat
<1>3. ASSUME NEW k \in 0 .. Len(l), k # 0 => k - 1 \notin Late PROVE Sum(l, k) <= ms
  <2>1. CASE k = 0
    BY <2>1, SumIs
  <2>2. CASE k # 0
    <3>1. k - 1 \in Nat /\ k - 1 < Len(l) /\ (k - 1) + 1 = k
      BY <1>1, <2>2
    <3>2. ~(Sum(l, k) > ms)
      BY <1>3, <2>2, <3>1
    <3> QED
      BY <1>2, <3>2
  <2> QED
    BY <2>1, <2>2
<1>4. \E k \in 0 .. Len(l) : P(k)
  <2>1. CASE Late = {}
    <3>1. Len(l) \in 0 .. Len(l) /\ ~(Len(l) < Len(l))
      BY <1>1
    <3>2. Sum(l, Len(l)) <= ms
      BY <1>3, <2>1, <3>1
    <3> QED
      BY <3>1, <3>2
  <2>2. CASE Late # {}
    <3>1. PICK j \in Late : \A i \in Late : j <= i
      BY <2>2, LeastNumber
    <3>2. j \in Nat /\ j < Len(l) /\ Sum(l, j + 1) > ms
      BY <3>1
    <3>3. j \in 0 .. Len(l) /\ (j # 0 => j - 1 \notin Late)
      BY <1>1, <3>1, <3>2
    <3> QED
      BY <1>3, <3>2, <3>3
  <2> QED
    BY <2>1, <2>2
<1>5. Passed(l, ms) = CHOOSE k \in 0 .. Len(l) : P(k)
  BY DEF Passed
<1> HIDE DEF P, Late
<1>6. Passed(l, ms) \in 0 .. Len(l) /\ P(Passed(l, ms))
  BY <1>4, <1>5
<1> QED
  BY <1>6 DEF P

\* Two elements that differ in the time at most.
SameTimer(e, f) == e.h = f.h /\ e.at = f.at /\ e.heard = f.heard

\* The list with the new element: where it is, and the sums.
InsertedAt(l, r, h, k, heard) ==
  /\ r \in Seq(Element) /\ Len(r) = Len(l) + 1 /\ k \in 0 .. Len(l)
  /\ r[k + 1].h = h /\ Sum(r, k + 1) = Period[h] /\ r[k + 1].at = now /\ r[k + 1].heard = heard
  /\ \A i \in 1 .. k : SameTimer(r[i], l[i]) /\ Sum(r, i) = Sum(l, i)
  /\ \A i \in k + 1 .. Len(l) : SameTimer(r[i + 1], l[i]) /\ Sum(r, i + 1) = Sum(l, i)

\* What sys_timeout does to the list.
LEMMA InsertedIs ==
  ASSUME NEW l \in Seq(Element), NEW h \in Handler, NEW heard \in Nat, now \in Nat
  PROVE  InsertedAt(l, Inserted(l, h, heard), h, Passed(l, Period[h]), heard)
<1> DEFINE ms == Period[h]
           n == Len(l)
           k == Passed(l, ms)
           e == [Timeout(h, heard) EXCEPT !.time = @ - Sum(l, k)]
           f == [l[k + 1] EXCEPT !.time = @ - e.time]
           r == [i \in 1 .. n + 1 |->
                   IF i <= k THEN l[i] ELSE IF i = k + 1 THEN e
                   ELSE IF i = k + 2 THEN f ELSE l[i - 1]]
<1>1. Inserted(l, h, heard) = r
  BY DEF Inserted
<1>2. n \in Nat /\ ms \in Nat
  BY LenProperties, TimeoutsAssumption
<1>3. k \in 0 .. n /\ Sum(l, k) <= ms /\ (k < n => Sum(l, k + 1) > ms)
  BY <1>2, PassedIs
<1>4. \A i \in 0 .. n : Sum(l, i) \in Nat
  BY SumNat
<1>5. \A i \in 1 .. n : l[i] \in Element /\ Sum(l, i) = Sum(l, i - 1) + l[i].time
  BY SumIs, ElementOfSeq
<1>6. e \in Element /\ e.h = h /\ e.time = ms - Sum(l, k) /\ e.at = now /\ e.heard = heard
  <2>1. ms - Sum(l, k) \in Nat
    BY <1>2, <1>3, <1>4
  <2>2. e = [h |-> h, time |-> ms - Sum(l, k), at |-> now, heard |-> heard]
    BY DEF Timeout
  <2> HIDE DEF e, k, ms
  <2> QED
    BY <2>1, <2>2 DEF Element
<1>7. k < n => f \in Element /\ SameTimer(f, l[k + 1]) /\ f.time = Sum(l, k + 1) - ms
  <2> SUFFICES ASSUME k < n PROVE f \in Element /\ SameTimer(f, l[k + 1]) /\ f.time = Sum(l, k + 1) - ms
    OBVIOUS
  <2> HIDE DEF e, k, ms, n
  <2>1. k + 1 \in 1 .. n /\ k + 1 \in 0 .. n
    BY <1>2, <1>3
  <2>2. l[k + 1] \in Element /\ Sum(l, k + 1) = Sum(l, k) + l[k + 1].time
    <3>1. (k + 1) - 1 = k
      BY <1>3
    <3> QED
      BY <1>5, <2>1, <3>1
  <2>3. Sum(l, k) \in Nat /\ Sum(l, k + 1) \in Nat /\ l[k + 1].time \in Nat
    BY <1>3, <1>4, <2>1, <2>2 DEF Element
  <2>4. l[k + 1].time - e.time = Sum(l, k + 1) - ms
    <3>1. ASSUME NEW a \in Nat, NEW b \in Nat, NEW c \in Nat, NEW d \in Nat, b = a + c
          PROVE  c - (d - a) = b - d
      BY <3>1
    <3>2. ms \in Nat /\ e.time = ms - Sum(l, k)
      BY <1>2, <1>6
    <3> QED
      BY <2>2, <2>3, <3>1, <3>2
  <2>5. Sum(l, k + 1) - ms \in Nat
    BY <1>2, <1>3, <2>3
  <2> QED
    BY <2>2, <2>4, <2>5 DEF Element, SameTimer
<1> HIDE DEF e, f, k, ms, n
<1>8. \A i \in 1 .. n + 1 : i <= k \/ i = k + 1 \/ (i = k + 2 /\ k < n) \/ (i > k + 2 /\ i - 1 \in 1 .. n)
  BY <1>2, <1>3
<1>9. \A i \in 1 .. n + 1 : i <= k => i \in 1 .. n
  BY <1>2, <1>3
<1>10. ASSUME NEW i \in 1 .. n + 1 PROVE r[i] \in Element
  BY <1>2, <1>3, <1>5, <1>6, <1>7, <1>8, <1>9
<1>11. r \in [1 .. n + 1 -> Element]
  BY <1>10
<1>12. r \in Seq(Element) /\ Len(r) = n + 1
  <2> HIDE DEF r
  <2>1. n + 1 \in Nat
    BY <1>2
  <2> QED
    BY <1>11, <2>1, BuiltSeq
<1> DEFINE s == [i \in 0 .. n + 1 |-> IF i <= k THEN Sum(l, i) ELSE IF i = k + 1 THEN ms ELSE Sum(l, i - 1)]
<1>13. \A i \in 1 .. n + 1 : /\ i <= k => r[i] = l[i]
                             /\ i = k + 1 => r[i] = e
                             /\ i = k + 2 => r[i] = f
                             /\ i > k + 2 => r[i] = l[i - 1]
  BY <1>2, <1>3
<1>14. \A i \in 0 .. n + 1 : /\ i <= k => s[i] = Sum(l, i)
                             /\ i = k + 1 => s[i] = ms
                             /\ i > k + 1 => s[i] = Sum(l, i - 1)
  BY <1>2, <1>3
<1>15. DOMAIN s = 0 .. n + 1
  OBVIOUS
<1> HIDE DEF r, s
<1>16. SumsOf(r, s)
  <2>1. s[0] = 0
    BY <1>2, <1>3, <1>14, SumIs
  <2>2. ASSUME NEW i \in 1 .. n + 1 PROVE s[i] = s[i - 1] + r[i].time
    <3>1. i \in 0 .. n + 1 /\ i - 1 \in 0 .. n + 1 /\ i \in Int
      BY <1>2
    <3>2. CASE i <= k
      <4>1. i \in 1 .. n /\ i - 1 <= k
        BY <1>9, <1>3, <3>1, <3>2
      <4>2. s[i] = Sum(l, i) /\ s[i - 1] = Sum(l, i - 1) /\ r[i] = l[i]
        BY <1>13, <1>14, <3>1, <3>2, <4>1
      <4> QED
        BY <1>5, <4>1, <4>2
    <3>3. CASE i = k + 1
      <4>1. i - 1 = k /\ i - 1 <= k
        BY <1>3, <3>3
      <4>2. s[i] = ms /\ s[i - 1] = Sum(l, k) /\ r[i] = e
        BY <1>13, <1>14, <3>1, <3>3, <4>1
      <4>3. ms \in Nat /\ Sum(l, k) \in Nat /\ e.time = ms - Sum(l, k)
        BY <1>2, <1>3, <1>4, <1>6
      <4>4. Sum(l, k) + (ms - Sum(l, k)) = ms
        BY <4>3
      <4> QED
        BY <4>2, <4>3, <4>4
    <3>4. CASE i = k + 2
      <4>1. i - 1 = k + 1 /\ i > k + 1 /\ k < n /\ k + 1 \in 0 .. n
        BY <1>2, <1>3, <3>4
      <4>2. s[i] = Sum(l, k + 1) /\ s[i - 1] = ms /\ r[i] = f
        BY <1>13, <1>14, <3>1, <3>4, <4>1
      <4>3. f.time = Sum(l, k + 1) - ms /\ Sum(l, k + 1) \in Nat
        BY <1>4, <1>7, <4>1
      <4> QED
        BY <1>2, <4>2, <4>3
    <3>5. CASE i > k + 2
      <4>1. i - 1 > k + 1 /\ i > k + 1 /\ i - 1 \in 1 .. n
        BY <1>2, <1>3, <3>5
      <4>2. s[i] = Sum(l, i - 1) /\ s[i - 1] = Sum(l, (i - 1) - 1) /\ r[i] = l[i - 1]
        BY <1>13, <1>14, <3>1, <3>5, <4>1
      <4>3. Sum(l, i - 1) = Sum(l, (i - 1) - 1) + l[i - 1].time
        BY <1>5, <4>1
      <4> QED
        BY <4>2, <4>3
    <3> QED
      BY <1>3, <3>1, <3>2, <3>3, <3>4, <3>5
  <2> QED
    BY <1>12, <1>15, <2>1, <2>2 DEF SumsOf
<1>17. \A i \in 0 .. n + 1 : Sum(r, i) = s[i]
  BY <1>12, <1>16, SumUnique
<1>18. r[k + 1].h = h /\ Sum(r, k + 1) = ms /\ r[k + 1].at = now /\ r[k + 1].heard = heard
  <2>1. k + 1 \in 1 .. n + 1 /\ k + 1 \in 0 .. n + 1
    BY <1>2, <1>3
  <2> QED
    BY <1>6, <1>13, <1>14, <1>17, <2>1
<1>19. \A i \in 1 .. k : SameTimer(r[i], l[i]) /\ Sum(r, i) = Sum(l, i)
  <2> TAKE i \in 1 .. k
  <2>1. i \in 1 .. n + 1 /\ i \in 0 .. n + 1 /\ i <= k
    BY <1>2, <1>3
  <2> QED
    BY <1>13, <1>14, <1>17, <2>1 DEF SameTimer
<1>20. ASSUME NEW i \in k + 1 .. n PROVE SameTimer(r[i + 1], l[i]) /\ Sum(r, i + 1) = Sum(l, i)
  <2>1. i + 1 \in 1 .. n + 1 /\ i + 1 \in 0 .. n + 1 /\ i + 1 > k + 1 /\ (i + 1) - 1 = i
    BY <1>2, <1>3
  <2>2. Sum(r, i + 1) = Sum(l, i)
    BY <1>14, <1>17, <2>1
  <2>3. CASE i = k + 1
    <3>1. i + 1 = k + 2 /\ k < n
      BY <1>2, <1>3, <2>3
    <3> QED
      BY <1>7, <1>13, <2>1, <2>2, <2>3, <3>1
  <2>4. CASE i # k + 1
    <3>1. i + 1 > k + 2
      BY <1>2, <1>3, <2>4
    <3>2. r[i + 1] = l[i]
      BY <1>13, <2>1, <3>1
    <3> QED
      BY <2>2, <3>2 DEF SameTimer
  <2> QED
    BY <2>3, <2>4
<1>21. InsertedAt(l, r, h, k, heard)
  BY <1>3, <1>12, <1>18, <1>19, <1>20 DEF InsertedAt, ms, n
<1> QED
  BY <1>1, <1>21 DEF k, ms, r

-----------------------------------------------------------------------------
(* The list as a set of timers                                             *)

\* The list holds each handler of H once, and f is the time left to each.
Timers(l, H, f) ==
  /\ l \in Seq(Element) /\ f \in [H -> Nat]
  /\ \A i \in 1 .. Len(l) : l[i].h \in H /\ Sum(l, i) = f[l[i].h]
  /\ \A h \in H : \E i \in 1 .. Len(l) : l[i].h = h
  /\ \A i, j \in 1 .. Len(l) : l[i].h = l[j].h => i = j

\* One timer more, f extended by a timer of p.
With(H, f, h, p) == [g \in H \cup {h} |-> IF g = h THEN p ELSE f[g]]

\* sys_timeout adds a timer and leaves the others the time they have.
LEMMA InsertTimer ==
  ASSUME NEW H \in SUBSET Handler, NEW l, NEW f, Timers(l, H, f), now \in Nat,
         NEW h \in Handler, h \notin H, NEW heard \in Nat
  PROVE  Timers(Inserted(l, h, heard), H \cup {h}, With(H, f, h, Period[h]))
<1> DEFINE r == Inserted(l, h, heard)
           k == Passed(l, Period[h])
           n == Len(l)
           G == H \cup {h}
           w == With(H, f, h, Period[h])
<1>1. l \in Seq(Element) /\ f \in [H -> Nat]
  BY DEF Timers
<1>2. InsertedAt(l, r, h, k, heard)
  BY <1>1, InsertedIs
<1>3. w \in [G -> Nat] /\ w[h] = Period[h] /\ \A g \in H : w[g] = f[g]
  BY <1>1, TimeoutsAssumption DEF With
<1>4. n \in Nat
  BY <1>1, LenProperties
<1> HIDE DEF r, k, n, w, G
<1>5. /\ r \in Seq(Element) /\ Len(r) = n + 1 /\ k \in 0 .. n
      /\ r[k + 1].h = h /\ Sum(r, k + 1) = Period[h]
      /\ \A i \in 1 .. k : r[i].h = l[i].h /\ Sum(r, i) = Sum(l, i)
      /\ \A i \in k + 1 .. n : r[i + 1].h = l[i].h /\ Sum(r, i + 1) = Sum(l, i)
  BY <1>2 DEF InsertedAt, SameTimer, n
<1>6. /\ \A i \in 1 .. n : l[i].h \in H /\ Sum(l, i) = f[l[i].h]
      /\ \A g \in H : \E i \in 1 .. n : l[i].h = g
      /\ \A i, j \in 1 .. n : l[i].h = l[j].h => i = j
  BY DEF Timers, n
<1> DEFINE Old(i) == IF i <= k THEN i ELSE i - 1
<1>7. ASSUME NEW i \in 1 .. n + 1, i # k + 1
      PROVE  Old(i) \in 1 .. n /\ r[i].h = l[Old(i)].h /\ Sum(r, i) = Sum(l, Old(i))
  <2>1. CASE i <= k
    <3>1. i \in 1 .. k /\ i \in 1 .. n
      BY <1>4, <1>5, <2>1
    <3> QED
      BY <1>5, <2>1, <3>1
  <2>2. CASE i > k
    <3>1. i - 1 \in k + 1 .. n /\ i - 1 \in 1 .. n /\ (i - 1) + 1 = i /\ ~(i <= k)
      BY <1>4, <1>5, <1>7, <2>2
    <3>2. r[i].h = l[i - 1].h /\ Sum(r, i) = Sum(l, i - 1)
      BY <1>5, <3>1
    <3> QED
      BY <3>1, <3>2
  <2> QED
    BY <1>5, <2>1, <2>2
<1>8. ASSUME NEW i \in 1 .. n + 1, NEW j \in 1 .. n + 1, i # k + 1, j # k + 1, Old(i) = Old(j) PROVE i = j
  BY <1>4, <1>5, <1>8
<1> HIDE DEF Old
<1>9. ASSUME NEW i \in 1 .. n + 1 PROVE r[i].h \in G /\ Sum(r, i) = w[r[i].h]
  <2>1. CASE i = k + 1
    BY <1>3, <1>5, <2>1 DEF G
  <2>2. CASE i # k + 1
    BY <1>3, <1>6, <1>7, <2>2 DEF G
  <2> QED
    BY <2>1, <2>2
<1>10. ASSUME NEW g \in G PROVE \E i \in 1 .. n + 1 : r[i].h = g
  <2>1. CASE g = h
    <3>1. k + 1 \in 1 .. n + 1
      BY <1>4, <1>5
    <3> QED
      BY <1>5, <2>1, <3>1
  <2>2. CASE g # h
    <3>1. PICK i \in 1 .. n : l[i].h = g
      BY <1>6, <2>2 DEF G
    <3>2. CASE i <= k
      <4>1. i \in 1 .. k /\ i \in 1 .. n + 1
        BY <1>4, <1>5, <3>2
      <4>2. r[i].h = g
        BY <1>5, <3>1, <4>1
      <4> QED
        BY <4>1, <4>2
    <3>3. CASE i > k
      <4>1. i \in k + 1 .. n /\ i + 1 \in 1 .. n + 1
        BY <1>4, <1>5, <3>3
      <4>2. r[i + 1].h = g
        BY <1>5, <3>1, <4>1
      <4> QED
        BY <4>1, <4>2
    <3> QED
      BY <1>5, <3>2, <3>3
  <2> QED
    BY <2>1, <2>2
<1>11. ASSUME NEW i \in 1 .. n + 1, NEW j \in 1 .. n + 1, r[i].h = r[j].h PROVE i = j
  <2>1. \A m \in 1 .. n + 1 : m # k + 1 => r[m].h \in H /\ r[m].h = l[Old(m)].h /\ Old(m) \in 1 .. n
    BY <1>6, <1>7
  <2>2. i = k + 1 <=> j = k + 1
    BY <1>5, <1>11, <2>1
  <2>3. CASE i = k + 1
    BY <2>2, <2>3
  <2>4. CASE i # k + 1
    <3>1. Old(i) = Old(j)
      BY <1>6, <1>11, <2>1, <2>2, <2>4
    <3> QED
      BY <1>8, <2>2, <2>4, <3>1
  <2> QED
    BY <2>3, <2>4
<1>12. Timers(r, G, w)
  BY <1>3, <1>5, <1>9, <1>10, <1>11 DEF Timers
<1> QED
  BY <1>12 DEF r, G, w

\* The first of the list has the least time left.
LEMMA FirstTimer ==
  ASSUME NEW H, NEW l, NEW f, Timers(l, H, f), H # {}
  PROVE  /\ Len(l) \in Nat /\ 1 \in 1 .. Len(l)
         /\ l[1] \in Element /\ l[1].h \in H /\ f[l[1].h] = l[1].time
         /\ \A g \in H : f[l[1].h] <= f[g]
<1>1. l \in Seq(Element) /\ Len(l) \in Nat
  BY LenProperties DEF Timers
<1>2. 1 \in 1 .. Len(l)
  BY <1>1 DEF Timers
<1>3. Sum(l, 1) = l[1].time
  <2>1. Sum(l, 0) = 0 /\ Sum(l, 1) = Sum(l, 1 - 1) + l[1].time
    BY <1>1, <1>2, SumIs
  <2>2. l[1] \in Element /\ 1 - 1 = 0
    BY <1>1, <1>2, ElementOfSeq
  <2> QED
    BY <2>1, <2>2 DEF Element
<1>4. l[1] \in Element
  BY <1>1, <1>2, ElementOfSeq
<1>5. l[1].h \in H /\ f[l[1].h] = l[1].time
  BY <1>2, <1>3 DEF Timers
<1>6. ASSUME NEW g \in H PROVE f[l[1].h] <= f[g]
  <2>1. PICK i \in 1 .. Len(l) : l[i].h = g
    BY DEF Timers
  <2>2. f[g] = Sum(l, i)
    BY <2>1 DEF Timers
  <2>3. Sum(l, i) >= l[1].time /\ Sum(l, i) \in Nat
    <3>1. i \in 0 .. Len(l)
      BY <1>1
    <3> QED
      BY <1>1, <3>1, SumNat
  <2> QED
    BY <1>4, <1>5, <2>2, <2>3 DEF Element
<1> QED
  BY <1>1, <1>2, <1>4, <1>5, <1>6

\* The first is taken off: the others have what they had after it.
LEMMA RemoveTimer ==
  ASSUME NEW H, NEW l, NEW f, Timers(l, H, f), H # {}
  PROVE  Timers(Tail(l), H \ {l[1].h}, [g \in H \ {l[1].h} |-> f[g] - f[l[1].h]])
<1> DEFINE n == Len(l)
           h == l[1].h
           r == Tail(l)
           G == H \ {h}
           w == [g \in G |-> f[g] - f[h]]
<1>1. n \in Nat /\ n >= 1 /\ l[1] \in Element /\ h \in H /\ f[h] = l[1].time /\ \A g \in H : f[h] <= f[g]
  BY FirstTimer
<1>2. l \in Seq(Element) /\ f \in [H -> Nat]
  BY DEF Timers
<1>3. /\ \A i \in 1 .. n : l[i].h \in H /\ Sum(l, i) = f[l[i].h]
      /\ \A g \in H : \E i \in 1 .. n : l[i].h = g
      /\ \A i, j \in 1 .. n : l[i].h = l[j].h => i = j
  BY DEF Timers
<1>4. /\ r \in Seq(Element) /\ Len(r) = n - 1
      /\ \A i \in 1 .. n - 1 : r[i] = l[i + 1]
  <2>1. l # <<>>
    BY <1>1
  <2> QED
    BY <1>2, <2>1, HeadTailProperties
<1>5. w \in [G -> Nat]
  <2>1. ASSUME NEW g \in G PROVE f[g] - f[h] \in Nat
    <3>1. f[g] \in Nat /\ f[h] \in Nat /\ f[h] <= f[g]
      BY <1>1, <1>2
    <3> QED
      BY <3>1
  <2> QED
    BY <2>1
<1>6. \A i \in 1 .. n - 1 : i + 1 \in 1 .. n /\ i + 1 # 1 /\ (i + 1) - 1 = i
  BY <1>1
<1> DEFINE s == [i \in 0 .. n - 1 |-> Sum(l, i + 1) - f[h]]
<1>7. DOMAIN s = 0 .. n - 1 /\ (\A i \in 0 .. n - 1 : s[i] = Sum(l, i + 1) - f[h])
  OBVIOUS
<1>8. \A g \in G : w[g] = f[g] - f[h]
  OBVIOUS
<1> HIDE DEF n, r, w, s
<1>9. SumsOf(r, s)
  <2>1. s[0] = 0
    <3>1. 0 \in 0 .. n - 1 /\ 0 + 1 = 1 /\ 1 \in 1 .. n
      BY <1>1
    <3>2. s[0] = Sum(l, 1) - f[h] /\ Sum(l, 1) = f[h]
      BY <1>3, <1>7, <3>1
    <3>3. f[h] \in Nat
      BY <1>1, <1>2
    <3> QED
      BY <3>2, <3>3
  <2>2. ASSUME NEW i \in 1 .. n - 1 PROVE s[i] = s[i - 1] + r[i].time
    <3>1. i \in 0 .. n - 1 /\ i - 1 \in 0 .. n - 1 /\ (i - 1) + 1 = i /\ i + 1 \in 1 .. n /\ i \in 0 .. n
      BY <1>1
    <3>2. s[i] = Sum(l, i + 1) - f[h] /\ s[i - 1] = Sum(l, i) - f[h]
      BY <1>7, <3>1
    <3>3. Sum(l, i + 1) = Sum(l, i) + l[i + 1].time
      BY <1>2, <1>6, <3>1, SumIs DEF n
    <3>4. r[i].time = l[i + 1].time /\ l[i + 1].time \in Nat
      <4>1. r[i] = l[i + 1]
        BY <1>4
      <4>2. l[i + 1] \in Element
        BY <1>2, <3>1, ElementOfSeq DEF n
      <4> QED
        BY <4>1, <4>2 DEF Element
    <3>5. Sum(l, i) \in Nat /\ f[h] \in Nat
      BY <1>1, <1>2, <3>1, SumNat DEF n
    <3> QED
      BY <3>2, <3>3, <3>4, <3>5
  <2> QED
    BY <1>1, <1>4, <1>7, <2>1, <2>2 DEF SumsOf
<1>10. ASSUME NEW i \in 1 .. n - 1 PROVE r[i].h \in G /\ Sum(r, i) = w[r[i].h]
  <2>1. i + 1 \in 1 .. n /\ i + 1 # 1 /\ 1 \in 1 .. n /\ i \in 0 .. n - 1
    BY <1>1
  <2>2. r[i].h = l[i + 1].h /\ l[i + 1].h \in H /\ l[i + 1].h # h /\ Sum(l, i + 1) = f[l[i + 1].h]
    BY <1>3, <1>4, <2>1
  <2>3. Sum(r, i) = s[i]
    BY <1>4, <1>9, <2>1, SumUnique
  <2> QED
    BY <1>7, <1>8, <2>1, <2>2, <2>3
<1>11. ASSUME NEW g \in G PROVE \E i \in 1 .. n - 1 : r[i].h = g
  <2>1. PICK i \in 1 .. n : l[i].h = g
    BY <1>3
  <2>2. i # 1
    BY <2>1
  <2>3. i - 1 \in 1 .. n - 1 /\ (i - 1) + 1 = i
    BY <1>1, <2>2
  <2>4. r[i - 1].h = g
    BY <1>4, <2>1, <2>3
  <2> QED
    BY <2>3, <2>4
<1>12. ASSUME NEW i \in 1 .. n - 1, NEW j \in 1 .. n - 1, r[i].h = r[j].h PROVE i = j
  <2>1. i + 1 = j + 1
    <3>1. l[i + 1].h = l[j + 1].h
      BY <1>4, <1>12
    <3> QED
      BY <1>3, <1>6, <3>1
  <2> QED
    BY <2>1
<1>13. Timers(r, G, w)
  BY <1>4, <1>5, <1>10, <1>11, <1>12 DEF Timers
<1> QED
  BY <1>13 DEF r, w

\* A shorter first time shortens all alike.
LEMMA ShortenTimer ==
  ASSUME NEW H, NEW l, NEW f, Timers(l, H, f), H # {}, NEW t \in 0 .. l[1].time
  PROVE  Timers([l EXCEPT ![1].time = t], H, [g \in H |-> f[g] - f[l[1].h] + t])
<1> DEFINE n == Len(l)
           h == l[1].h
           r == [l EXCEPT ![1].time = t]
           w == [g \in H |-> f[g] - f[h] + t]
<1>1. n \in Nat /\ 1 \in 1 .. n /\ l[1] \in Element /\ h \in H /\ f[h] = l[1].time /\ \A g \in H : f[h] <= f[g]
  BY FirstTimer
<1>2. l \in Seq(Element) /\ f \in [H -> Nat]
  BY DEF Timers
<1>3. /\ \A i \in 1 .. n : l[i].h \in H /\ Sum(l, i) = f[l[i].h]
      /\ \A g \in H : \E i \in 1 .. n : l[i].h = g
      /\ \A i, j \in 1 .. n : l[i].h = l[j].h => i = j
  BY DEF Timers
<1>4. t \in Nat /\ l[1].time \in Nat /\ f[h] \in Nat
  BY <1>1 DEF Element
<1> DEFINE e == [l[1] EXCEPT !.time = t]
<1>5. e \in Element /\ e.time = t /\ e.h = h
  BY <1>1, <1>4 DEF Element
<1>6. r = [l EXCEPT ![1] = e]
  OBVIOUS
<1> HIDE DEF e, n, r, w
<1>7. r \in Seq(Element) /\ Len(r) = n /\ r[1] = e /\ \A i \in 1 .. n : i # 1 => r[i] = l[i]
  BY <1>1, <1>2, <1>5, <1>6, ExceptSeq DEF n
<1> DEFINE s == [i \in 0 .. n |-> IF i = 0 THEN 0 ELSE Sum(l, i) - f[h] + t]
<1>8. DOMAIN s = 0 .. n /\ s[0] = 0 /\ \A i \in 1 .. n : s[i] = Sum(l, i) - f[h] + t
  BY <1>1
<1>9. \A g \in H : w[g] = f[g] - f[h] + t
  BY DEF w
<1>10. w \in [H -> Nat]
  <2>1. ASSUME NEW g \in H PROVE f[g] - f[h] + t \in Nat
    <3>1. f[g] \in Nat /\ f[h] <= f[g]
      BY <1>1, <1>2
    <3> QED
      BY <1>4, <3>1
  <2> QED
    BY <2>1 DEF w
<1> HIDE DEF s
<1>11. SumsOf(r, s)
  <2>1. ASSUME NEW i \in 1 .. n PROVE s[i] = s[i - 1] + r[i].time
    <3>1. CASE i = 1
      <4>1. s[1] = Sum(l, 1) - f[h] + t /\ Sum(l, 1) = f[h]
        BY <1>1, <1>3, <1>8
      <4>2. i - 1 = 0 /\ r[1].time = t
        BY <1>5, <1>7, <3>1
      <4> QED
        BY <1>4, <1>8, <3>1, <4>1, <4>2
    <3>2. CASE i # 1
      <4>1. i - 1 \in 1 .. n /\ i - 1 \in 0 .. n
        BY <1>1, <3>2
      <4>2. s[i] = Sum(l, i) - f[h] + t /\ s[i - 1] = Sum(l, i - 1) - f[h] + t
        BY <1>8, <4>1
      <4>3. Sum(l, i) = Sum(l, i - 1) + l[i].time /\ Sum(l, i - 1) \in Nat
        BY <1>2, <4>1, SumIs, SumNat DEF n
      <4>4. r[i].time = l[i].time /\ l[i].time \in Nat
        <5>1. r[i] = l[i]
          BY <1>7, <3>2
        <5>2. l[i] \in Element
          BY <1>2, ElementOfSeq DEF n
        <5> QED
          BY <5>1, <5>2 DEF Element
      <4> QED
        BY <1>4, <4>2, <4>3, <4>4
    <3> QED
      BY <3>1, <3>2
  <2> QED
    BY <1>7, <1>8, <2>1 DEF SumsOf
<1>12. \A i \in 1 .. n : r[i].h = l[i].h
  BY <1>5, <1>7
<1>13. ASSUME NEW i \in 1 .. n PROVE r[i].h \in H /\ Sum(r, i) = w[r[i].h]
  <2>1. i \in 0 .. n
    BY <1>1
  <2>2. Sum(r, i) = s[i]
    BY <1>7, <1>11, <2>1, SumUnique
  <2> QED
    BY <1>3, <1>8, <1>9, <1>12, <2>2
<1>14. ASSUME NEW g \in H PROVE \E i \in 1 .. n : r[i].h = g
  <2>1. PICK i \in 1 .. n : l[i].h = g
    BY <1>3
  <2> QED
    BY <1>12, <2>1
<1>15. ASSUME NEW i \in 1 .. n, NEW j \in 1 .. n, r[i].h = r[j].h PROVE i = j
  BY <1>3, <1>12, <1>15
<1>16. r \in Seq(Element) /\ Len(r) = n
  BY <1>7
<1>17. Timers(r, H, w)
  BY <1>10, <1>13, <1>14, <1>15, <1>16 DEF Timers
<1> QED
  BY <1>17 DEF r, w

-----------------------------------------------------------------------------
(* sys_timeouts_init                                                       *)

\* One call of sys_timeouts_init.
Called(s, j) == IF j = 0 THEN <<>> ELSE Inserted(s[j - 1], InitOrder[j], 0)

\* The lists after the first k calls exist.
CallsUpTo(k) == \E s : s = [j \in 0 .. k |-> Called(s, j)]

\* One more.
LEMMA CallsStep == ASSUME NEW k \in Nat, CallsUpTo(k) PROVE CallsUpTo(k + 1)
<1>1. PICK s : s = [j \in 0 .. k |-> Called(s, j)]
  BY DEF CallsUpTo
<1> DEFINE D == 0 .. k + 1
           t == [j \in D |-> IF j = k + 1 THEN Called(s, j) ELSE s[j]]
<1>2. \A j \in D : j = k + 1 \/ j \in 0 .. k
  OBVIOUS
<1>3. ASSUME NEW j \in D PROVE Called(t, j) = Called(s, j)
  <2>1. j # 0 => j - 1 \in D /\ j - 1 # k + 1
    OBVIOUS
  <2>2. j # 0 => t[j - 1] = s[j - 1]
    BY <2>1
  <2> QED
    BY <2>2 DEF Called
<1>4. ASSUME NEW j \in D PROVE t[j] = Called(t, j)
  <2>1. CASE j = k + 1
    BY <1>3, <2>1
  <2>2. CASE j # k + 1
    <3>1. s[j] = Called(s, j)
      BY <1>1, <1>2, <2>2
    <3> QED
      BY <1>3, <2>2, <3>1
  <2> QED
    BY <2>1, <2>2
<1>5. t = [j \in D |-> t[j]]
  OBVIOUS
<1> HIDE DEF t, D
<1>6. t = [j \in D |-> Called(t, j)]
  BY <1>4, <1>5
<1> QED
  BY <1>6 DEF CallsUpTo, D

\* All of them: consider the least number of calls without a list.
LEMMA CallsExist == ASSUME NEW n \in Nat PROVE CallsUpTo(n)
<1> DEFINE Bad == {k \in Nat : ~CallsUpTo(k)}
<1>1. ASSUME Bad # {} PROVE FALSE
  <2>1. PICK k \in Bad : \A j \in Bad : k <= j
    BY <1>1, LeastNumber
  <2>2. k \in Nat /\ ~CallsUpTo(k)
    BY <2>1
  <2>3. k # 0
    <3>1. CallsUpTo(0)
      <4> DEFINE s == [j \in 0 .. 0 |-> <<>>]
      <4>1. \A j \in 0 .. 0 : Called(s, j) = <<>>
        BY DEF Called
      <4>2. s = [j \in 0 .. 0 |-> Called(s, j)]
        BY <4>1
      <4> QED
        BY <4>2 DEF CallsUpTo
    <3> QED
      BY <2>2, <3>1
  <2>4. k - 1 \in Nat /\ k - 1 \notin Bad /\ (k - 1) + 1 = k
    BY <2>1, <2>2, <2>3
  <2>5. CallsUpTo(k - 1)
    BY <2>4
  <2> QED
    BY <2>2, <2>4, <2>5, CallsStep
<1> QED
  BY <1>1

\* SetUp is what it says.
LEMMA SetUpIs ==
  /\ SetUp[0] = <<>>
  /\ \A k \in 1 .. Len(InitOrder) : SetUp[k] = Inserted(SetUp[k - 1], InitOrder[k], 0)
<1> DEFINE n == Len(InitOrder)
<1>1. n \in Nat
  BY TimeoutsAssumption, LenProperties
<1>2. \E s : s = [k \in 0 .. n |-> IF k = 0 THEN <<>> ELSE Inserted(s[k - 1], InitOrder[k], 0)]
  <2> HIDE DEF n
  <2> QED
    BY <1>1, CallsExist DEF CallsUpTo, Called
<1>3. SetUp = [k \in 0 .. n |-> IF k = 0 THEN <<>> ELSE Inserted(SetUp[k - 1], InitOrder[k], 0)]
  BY <1>2 DEF SetUp
<1> HIDE DEF n
<1>4. 0 \in 0 .. n /\ \A k \in 1 .. n : k \in 0 .. n /\ k # 0
  BY <1>1
<1>5. SetUp[0] = <<>> /\ \A k \in 1 .. n : SetUp[k] = Inserted(SetUp[k - 1], InitOrder[k], 0)
  BY <1>3, <1>4
<1> QED
  BY <1>5 DEF n

\* The handlers of the first k calls, and their times.
FirstCalls(k) == {InitOrder[j] : j \in 1 .. k}
Times(k) == [h \in FirstCalls(k) |-> Period[h]]

\* After the first k calls the list holds their handlers, each with its
\* interval: consider the least k where it does not.
LEMMA SetUpTimers ==
  ASSUME now = 0
  PROVE  \A k \in 0 .. Len(InitOrder) : Timers(SetUp[k], FirstCalls(k), Times(k))
<1> DEFINE n == Len(InitOrder)
           Good(k) == Timers(SetUp[k], FirstCalls(k), Times(k))
           Bad == {k \in Nat : k <= n /\ ~Good(k)}
<1>1. n \in Nat /\ InitOrder \in Seq(Handler)
  BY TimeoutsAssumption, LenProperties
<1>2. ASSUME Bad # {} PROVE FALSE
  <2>1. PICK k \in Bad : \A j \in Bad : k <= j
    BY <1>2, LeastNumber
  <2> HIDE DEF n, Good
  <2>2. k \in Nat /\ k <= n /\ ~Good(k)
    BY <2>1
  <2>3. k # 0
    <3>1. Good(0)
      <4>1. FirstCalls(0) = {}
        BY DEF FirstCalls
      <4>2. SetUp[0] = <<>> /\ <<>> \in Seq(Element) /\ Len(<<>>) = 0
        BY SetUpIs, EmptySeq
      <4>3. Times(0) \in [{} -> Nat]
        BY <4>1 DEF Times
      <4>4. ASSUME NEW f \in [{} -> Nat] PROVE Timers(<<>>, {}, f)
        BY <4>2 DEF Timers
      <4> QED
        BY <4>1, <4>2, <4>3, <4>4 DEF Good
    <3> QED
      BY <2>2, <3>1
  <2>4. k \in 1 .. n /\ k - 1 \in Nat /\ k - 1 <= n
    BY <1>1, <2>2, <2>3
  <2>5. k - 1 \notin Bad
    BY <2>1, <2>2, <2>3
  <2>6. Good(k - 1)
    BY <2>4, <2>5
  <2> DEFINE H == FirstCalls(k - 1)
             h == InitOrder[k]
  <2>7. h \in Handler
    BY <1>1, <2>4, ElementOfSeq DEF n
  <2>8. H \in SUBSET Handler
    <3>1. \A j \in 1 .. k - 1 : j \in 1 .. n
      BY <1>1, <2>4
    <3>2. \A j \in 1 .. k - 1 : InitOrder[j] \in Handler
      BY <1>1, <3>1, ElementOfSeq DEF n
    <3> QED
      BY <3>2 DEF FirstCalls
  <2>9. h \notin H
    <3>1. ASSUME NEW j \in 1 .. k - 1 PROVE InitOrder[j] # h
      <4>1. j \in DOMAIN InitOrder /\ k \in DOMAIN InitOrder /\ j # k
        BY <1>1, <2>4 DEF n
      <4> QED
        BY <4>1, TimeoutsAssumption
    <3> QED
      BY <3>1 DEF FirstCalls
  <2>10. FirstCalls(k) = H \cup {h}
    <3>1. 1 .. k = (1 .. k - 1) \cup {k}
      BY <2>4
    <3> QED
      BY <3>1 DEF FirstCalls
  <2>11. With(H, Times(k - 1), h, Period[h]) = Times(k)
    BY <2>10 DEF With, Times
  <2>12. SetUp[k] = Inserted(SetUp[k - 1], h, 0)
    BY <2>4, SetUpIs DEF n
  <2>13. Timers(SetUp[k - 1], H, Times(k - 1))
    BY <2>6 DEF Good
  <2> HIDE DEF H, h
  <2>14. Timers(Inserted(SetUp[k - 1], h, 0), H \cup {h}, With(H, Times(k - 1), h, Period[h]))
    BY <2>7, <2>8, <2>9, <2>13, InsertTimer
  <2>15. Good(k)
    BY <2>10, <2>11, <2>12, <2>14 DEF Good
  <2> QED
    BY <2>2, <2>15
<1>3. \A k \in 0 .. n : k \in Nat /\ k <= n
  BY <1>1
<1> QED
  BY <1>2, <1>3

-----------------------------------------------------------------------------
(* The timers of the stack                                                 *)

\* The times left, as the list says.
LeftOf(l) == [h \in Handler |-> Sum(l, CHOOSE i \in DOMAIN l : l[i].h = h)]

\* They are those of the set of timers.
LEMMA LeftIs ==
  ASSUME NEW l, NEW f, Timers(l, Handler, f)
  PROVE  LeftOf(l) = f
<1>1. l \in Seq(Element) /\ f \in [Handler -> Nat] /\ DOMAIN l = 1 .. Len(l)
  BY LenProperties DEF Timers
<1>2. ASSUME NEW h \in Handler
      PROVE  Sum(l, CHOOSE i \in DOMAIN l : l[i].h = h) = f[h]
  <2>1. PICK i \in DOMAIN l : l[i].h = h
    BY <1>1 DEF Timers
  <2> DEFINE c == CHOOSE j \in DOMAIN l : l[j].h = h
  <2>2. c \in DOMAIN l /\ l[c].h = h
    BY <2>1
  <2> HIDE DEF c
  <2>3. Sum(l, c) = f[h]
    BY <1>1, <2>2 DEF Timers
  <2> QED
    BY <2>3 DEF c
<1>3. f = [h \in Handler |-> f[h]]
  BY <1>1
<1> QED
  BY <1>2, <1>3 DEF LeftOf

\* The kernel's ticks do not go back.
LEMMA TicksGrow ==
  ASSUME NEW t \in Nat
  PROVE  Ticks(t) \in Nat /\ Ticks(t) <= Ticks(t + 1)
<1>1. TickMs \in Nat /\ TickMs # 0
  BY TimeoutsAssumption
<1>2. t \div TickMs \in Nat /\ t \div TickMs <= (t + 1) \div TickMs
  BY <1>1
<1> QED
  BY <1>2 DEF Ticks

\* The greater of zero and a number.
LEMMA MaxZero == ASSUME NEW x \in Int PROVE Max({0, x}) = IF x > 0 THEN x ELSE 0
<1> DEFINE m == IF x > 0 THEN x ELSE 0
<1>1. m \in {0, x} /\ \A y \in {0, x} : m >= y
  OBVIOUS
<1>2. \A z \in {0, x} : (\A y \in {0, x} : z >= y) => z = m
  OBVIOUS
<1> QED
  BY <1>1, <1>2 DEF Max

\* The greater of one and a number.
LEMMA MaxOne == ASSUME NEW x \in Nat PROVE Max({1, x}) \in Nat /\ Max({1, x}) >= x
<1> DEFINE m == IF x > 1 THEN x ELSE 1
<1>1. m \in {1, x} /\ \A y \in {1, x} : m >= y
  OBVIOUS
<1>2. \A z \in {1, x} : (\A y \in {1, x} : z >= y) => z = m
  OBVIOUS
<1>3. Max({1, x}) = m
  BY <1>1, <1>2 DEF Max
<1> QED
  BY <1>3

\* The list is a set of timers, one of each handler.
TimersInv ==
  /\ now \in Nat /\ msgs \in Nat
  /\ start \in Nat /\ start <= Ticks(now)
  /\ \E f : Timers(list, Handler, f)

\* The steps that leave the list alone.
LEMMA TimersQuiet ==
  ASSUME TimersInv, UNCHANGED list, now' \in Nat, msgs' \in Nat,
         start' \in Nat, start' <= Ticks(now')
  PROVE  TimersInv'
BY DEF TimersInv, Timers

Left == [h \in Handler |-> Sum(list, Index(h))]

\* At first: the calls of sys_timeouts_init.
LEMMA TimersInit == ASSUME TInit PROVE TimersInv /\ Left = Period
<1> USE DEF TimersInv
<1>0. Left = LeftOf(list)
  BY DEF Left, LeftOf, Index
<1> DEFINE n == Len(InitOrder)
<1>1. n \in 0 .. n /\ now = 0
  BY TimeoutsAssumption, LenProperties DEF TInit
<1>2. FirstCalls(n) = Handler
  <2>1. DOMAIN InitOrder = 1 .. n
    BY TimeoutsAssumption, LenProperties
  <2>2. \A h : h \in Handler <=> \E i \in 1 .. n : h = InitOrder[i]
    BY <2>1, TimeoutsAssumption DEF Range
  <2> QED
    BY <2>2 DEF FirstCalls
<1>3. Times(n) = Period
  BY <1>2, TimeoutsAssumption DEF Times
<1>4. list = SetUp[n] /\ msgs = 0 /\ start = 0
  BY DEF TInit
<1>5. Timers(list, Handler, Period)
  BY <1>1, <1>2, <1>3, <1>4, SetUpTimers
<1>6. 0 <= Ticks(0)
  BY TicksGrow
<1>7. Left = Period
  BY <1>0, <1>5, LeftIs
<1> QED
  BY <1>1, <1>4, <1>5, <1>6, <1>7

\* Every step passes time for all alike, or calls the first of them.
LEMMA TimersStep ==
  ASSUME TimersInv, [TNext]_tvars
  PROVE  TimersInv' /\ [Clock!Pass \/ Clock!Call]_Left
<1> USE DEF TimersInv
<1>0. Left = LeftOf(list) /\ Left' = LeftOf(list')
  BY DEF Left, LeftOf, Index
<1>1. PICK f : Timers(list, Handler, f)
  OBVIOUS
<1>2. Left = f
  BY <1>0, <1>1, LeftIs
<1>3. Handler # {} /\ TickMs \in Nat /\ Period \in [Handler -> Nat]
  BY TimeoutsAssumption
<1>4. /\ list[1].h \in Handler /\ list[1].time \in Nat /\ f[list[1].h] = list[1].time
      /\ \A g \in Handler : f[list[1].h] <= f[g]
  BY <1>1, <1>3, FirstTimer DEF Element
<1> DEFINE h == list[1].h
<1>5. Clock!IsFirst(h)
  BY <1>2, <1>4 DEF Clock!IsFirst, Left
<1>6. Ticks(now) \in Nat
  BY TicksGrow
<1>7. CASE Wait
  BY <1>0, <1>6, <1>7, TimersQuiet DEF Wait
<1>8. CASE Expire
  <2> DEFINE R == Handler \ {h}
             rest == [g \in R |-> f[g] - f[h]]
             w == With(R, rest, h, Period[h])
  <2>1. Timers(Tail(list), R, rest)
    BY <1>1, <1>3, RemoveTimer
  <2>2. h \in Handler /\ h \notin R /\ R \in SUBSET Handler /\ R \cup {h} = Handler
    BY <1>4
  <2>3. w = [g \in Handler |-> IF g = h THEN Period[h] ELSE f[g] - f[h]]
    BY <2>2 DEF With
  <2> HIDE DEF R, rest, w, h
  <2>4. Timers(Inserted(Tail(list), h, msgs), R \cup {h}, w)
    BY <2>1, <2>2, InsertTimer DEF w
  <2>5. list' = Inserted(Tail(list), h, msgs) /\ UNCHANGED <<now, start, msgs>>
    BY <1>8 DEF Expire, h
  <2>6. Timers(list', Handler, w)
    BY <2>2, <2>4, <2>5
  <2>7. Left' = w
    BY <1>0, <2>6, LeftIs
  <2>8. Clock!Call
    BY <1>2, <1>5, <2>2, <2>3, <2>7 DEF Clock!Call, Left, h
  <2>9. TimersInv'
    BY <2>5, <2>6
  <2> QED
    BY <2>8, <2>9
<1>9. CASE MessageComes
  <2> DEFINE t == Max({0, list[1].time - Elapsed})
             w == [g \in Handler |-> f[g] - f[h] + t]
  <2>1. Elapsed \in Nat
    <3>1. Ticks(now) - start \in Nat
      BY <1>6
    <3>2. \A q \in Nat : q * TickMs + 1 \in Nat
      BY <1>3
    <3> QED
      BY <3>1, <3>2 DEF Elapsed
  <2>2. t \in 0 .. list[1].time
    <3>1. list[1].time - Elapsed \in Int /\ list[1].time - Elapsed <= list[1].time
      BY <1>4, <2>1
    <3> QED
      BY <1>4, <3>1, MaxZero
  <2>3. list' = [list EXCEPT ![1].time = t] /\ msgs' = msgs + 1 /\ UNCHANGED <<now, start>>
    BY <1>9 DEF MessageComes
  <2> HIDE DEF t
  <2>4. Timers([list EXCEPT ![1].time = t], Handler, w)
    BY <1>1, <1>3, <2>2, ShortenTimer
  <2>5. Timers(list', Handler, w)
    BY <2>3, <2>4
  <2> HIDE DEF w, h
  <2>6. Left' = w
    BY <1>0, <2>5, LeftIs
  <2>7. w[h] = t /\ w = [g \in Handler |-> f[g] - f[h] + w[h]]
    <3>1. w[h] = f[h] - f[h] + t /\ f[h] \in Nat /\ t \in Nat
      BY <1>4, <2>2 DEF w, h
    <3>2. w[h] = t
      BY <3>1
    <3> QED
      BY <3>2 DEF w
  <2>8. w[h] \in 0 .. f[h]
    BY <1>4, <2>2, <2>7 DEF h
  <2>9. Clock!Pass
    BY <1>2, <1>4, <1>5, <2>6, <2>7, <2>8 DEF Clock!Pass, Left, h
  <2>10. TimersInv'
    BY <2>3, <2>5
  <2> QED
    BY <2>9, <2>10
<1>10. CASE TimePasses
  <2>1. now' = now + 1 /\ UNCHANGED <<list, msgs, start>>
    BY <1>10 DEF TimePasses
  <2>2. Ticks(now) <= Ticks(now') /\ Ticks(now') \in Nat
    BY <2>1, TicksGrow
  <2>3. now' \in Nat /\ start' \in Nat /\ start' <= Ticks(now') /\ msgs' \in Nat
    BY <1>6, <2>1, <2>2
  <2> QED
    BY <1>0, <2>1, <2>3, TimersQuiet
<1>11. CASE UNCHANGED tvars
  BY <1>0, <1>11, TimersQuiet DEF tvars
<1> QED
  BY <1>7, <1>8, <1>9, <1>10, <1>11 DEF TNext

\* The list always is a set of timers.
THEOREM TimersInvCorrect == TSpec => []TimersInv
BY TimersInit, TimersStep, PTL DEF TSpec

\* The list of differences is a set of independent timers: the stack's timers
\* implement Alarms (timers.c:222-420, sys_arch.c:94-127).
THEOREM TimersIndependentCorrect == TSpec => TimersIndependent
<1>1. Left = Period => Clock!AInit
  BY DEF Clock!AInit, Left
<1>2. TimersInv /\ [TNext]_tvars => [Clock!Pass \/ Clock!Call]_Left
  BY TimersStep
<1> QED
  BY <1>1, <1>2, TimersInit, TimersInvCorrect, PTL DEF TSpec, TimersIndependent, Clock!ASpec, Left

-----------------------------------------------------------------------------
(* How early a handler is called                                           *)

\* a is when each handler was set, b after how many messages.
Moments(l, a, b) ==
  \A i \in 1 .. Len(l) : l[i].at = a[l[i].h] /\ l[i].heard = b[l[i].h]

\* A handler set again has a moment of its own.
LEMMA InsertMoments ==
  ASSUME NEW H, NEW l, NEW f, Timers(l, H, f), H \in SUBSET Handler, now \in Nat,
         NEW a \in [Handler -> Nat], NEW b \in [Handler -> Nat], Moments(l, a, b),
         NEW h \in Handler, h \notin H, NEW heard \in Nat
  PROVE  Moments(Inserted(l, h, heard), [a EXCEPT ![h] = now], [b EXCEPT ![h] = heard])
<1> DEFINE r == Inserted(l, h, heard)
           k == Passed(l, Period[h])
           n == Len(l)
           c == [a EXCEPT ![h] = now]
           d == [b EXCEPT ![h] = heard]
<1>1. l \in Seq(Element) /\ n \in Nat
  BY LenProperties DEF Timers
<1>2. InsertedAt(l, r, h, k, heard)
  BY <1>1, InsertedIs
<1>3. c[h] = now /\ d[h] = heard /\ \A g \in H : c[g] = a[g] /\ d[g] = b[g]
  OBVIOUS
<1> HIDE DEF r, k, n, c, d
<1>4. \A i \in 1 .. n : l[i].h \in H /\ l[i].at = a[l[i].h] /\ l[i].heard = b[l[i].h]
  BY DEF Timers, Moments, n
<1>5. /\ Len(r) = n + 1 /\ k \in 0 .. n
      /\ r[k + 1].h = h /\ r[k + 1].at = now /\ r[k + 1].heard = heard
      /\ \A i \in 1 .. k : SameTimer(r[i], l[i])
      /\ \A i \in k + 1 .. n : SameTimer(r[i + 1], l[i])
  BY <1>2 DEF InsertedAt, n
<1>6. ASSUME NEW i \in 1 .. n + 1 PROVE r[i].at = c[r[i].h] /\ r[i].heard = d[r[i].h]
  <2>1. CASE i = k + 1
    BY <1>3, <1>5, <2>1
  <2>2. CASE i <= k
    <3>1. i \in 1 .. k /\ i \in 1 .. n
      BY <1>1, <1>5, <2>2
    <3> QED
      BY <1>3, <1>4, <1>5, <3>1 DEF SameTimer
  <2>3. CASE i > k + 1
    <3>1. i - 1 \in k + 1 .. n /\ i - 1 \in 1 .. n /\ (i - 1) + 1 = i
      <4>1. k \in Nat /\ n \in Nat /\ i \in Nat /\ i <= n + 1
        BY <1>1, <1>5
      <4> QED
        BY <2>3, <4>1
    <3>2. SameTimer(r[i], l[i - 1])
      BY <1>5, <3>1
    <3> QED
      BY <1>3, <1>4, <3>1, <3>2 DEF SameTimer
  <2> QED
    BY <1>5, <2>1, <2>2, <2>3
<1> QED
  BY <1>5, <1>6 DEF Moments, r, c, d

\* Taking the first off changes no moment.
LEMMA TailMoments ==
  ASSUME NEW l \in Seq(Element), l # <<>>, NEW a, NEW b, Moments(l, a, b)
  PROVE  Moments(Tail(l), a, b)
<1>1. Len(Tail(l)) = Len(l) - 1 /\ \A i \in 1 .. Len(l) - 1 : Tail(l)[i] = l[i + 1]
  BY HeadTailProperties
<1>2. Len(l) \in Nat
  BY LenProperties
<1>3. ASSUME NEW i \in 1 .. Len(l) - 1
      PROVE  Tail(l)[i].at = a[Tail(l)[i].h] /\ Tail(l)[i].heard = b[Tail(l)[i].h]
  <2>1. i + 1 \in 1 .. Len(l)
    BY <1>2
  <2> QED
    BY <1>1, <2>1 DEF Moments
<1> QED
  BY <1>1, <1>3 DEF Moments

\* A shorter first time changes no moment.
LEMMA ShortenMoments ==
  ASSUME NEW l \in Seq(Element), l # <<>>, NEW a, NEW b, Moments(l, a, b), NEW t \in Nat
  PROVE  Moments([l EXCEPT ![1].time = t], a, b)
<1> DEFINE e == [l[1] EXCEPT !.time = t]
           r == [l EXCEPT ![1] = e]
<1>1. 1 \in 1 .. Len(l) /\ l[1] \in Element
  <2>1. 1 \in 1 .. Len(l)
    BY LenProperties, EmptySeq
  <2> QED
    BY <2>1, ElementOfSeq
<1>2. e \in Element /\ SameTimer(e, l[1])
  BY <1>1 DEF Element, SameTimer
<1> HIDE DEF e
<1>3. Len(r) = Len(l) /\ r[1] = e /\ \A i \in 1 .. Len(l) : i # 1 => r[i] = l[i]
  BY <1>1, <1>2, ExceptSeq
<1>4. r = [l EXCEPT ![1].time = t]
  BY DEF e
<1> HIDE DEF r
<1>5. ASSUME NEW i \in 1 .. Len(l) PROVE r[i].at = a[r[i].h] /\ r[i].heard = b[r[i].h]
  BY <1>1, <1>2, <1>3 DEF Moments, SameTimer
<1>6. Moments(r, a, b)
  BY <1>3, <1>5 DEF Moments
<1> QED
  BY <1>4, <1>6

\* The element of a handler.
LEMMA IndexIs ==
  ASSUME NEW l, NEW f, Timers(l, Handler, f), NEW a, NEW b, Moments(l, a, b),
         NEW h \in Handler, NEW i, i = CHOOSE j \in DOMAIN l : l[j].h = h
  PROVE  i \in 1 .. Len(l) /\ l[i].h = h /\ l[i].at = a[h] /\ l[i].heard = b[h]
<1>1. DOMAIN l = 1 .. Len(l)
  BY LenProperties DEF Timers
<1>2. \E j \in DOMAIN l : l[j].h = h
  BY <1>1 DEF Timers
<1>3. i \in DOMAIN l /\ l[i].h = h
  BY <1>2
<1> QED
  BY <1>1, <1>3 DEF Moments

\* A number of milliseconds is so many ticks and less than one.
LEMMA WholeTicks ==
  ASSUME NEW x \in Nat
  PROVE  /\ TickMs \in Nat /\ TickMs # 0
         /\ Ticks(x) \in Nat /\ x % TickMs \in 0 .. TickMs - 1
         /\ x = TickMs * Ticks(x) + (x % TickMs)
         /\ \A q \in Nat, r \in 0 .. TickMs - 1 : x = TickMs * q + r => Ticks(x) = q
<1>1. TickMs \in Nat /\ TickMs # 0
  BY TimeoutsAssumption
<1>2. x \div TickMs \in Nat /\ x % TickMs \in 0 .. TickMs - 1 /\ x = TickMs * (x \div TickMs) + (x % TickMs)
  BY <1>1
<1>3. ASSUME NEW T \in Nat, T # 0, NEW q \in Nat, NEW p \in Nat, NEW r \in 0 .. T - 1, NEW s \in 0 .. T - 1,
             T * p + s = T * q + r
      PROVE  p = q
  BY <1>3
<1> QED
  BY <1>1, <1>2, <1>3 DEF Ticks

\* The intervals are whole ticks.
LEMMA PeriodTicks ==
  ASSUME NEW h \in Handler
  PROVE  Ticks(Period[h]) \in Nat /\ Period[h] \in Nat /\ Period[h] = TickMs * Ticks(Period[h])
<1>1. Period[h] \in Nat /\ Period[h] % TickMs = 0
  BY TimeoutsAssumption
<1>2. /\ Ticks(Period[h]) \in Nat /\ TickMs \in Nat
      /\ Period[h] = TickMs * Ticks(Period[h]) + (Period[h] % TickMs)
  BY <1>1, WholeTicks
<1>3. Period[h] = TickMs * Ticks(Period[h]) + 0
  BY <1>1, <1>2
<1>4. ASSUME NEW x \in Nat, NEW y \in Nat PROVE x * y + 0 = x * y
  OBVIOUS
<1> QED
  BY <1>1, <1>2, <1>3, <1>4

\* The times f are q whole ticks each, and r, the same for all.
Whole(f, q, r) ==
  /\ q \in [Handler -> Nat] /\ r \in 0 .. TickMs - 1
  /\ \A h \in Handler : f[h] = TickMs * q[h] + r

\* By the tick c and after m messages no handler is early by more than a tick
\* for each message it has seen: the ticks passed, those left and the messages
\* make up its interval.
Punctual(l, c, m, f, q, r, a, b) ==
  /\ Timers(l, Handler, f) /\ Whole(f, q, r) /\ Moments(l, a, b)
  /\ a \in [Handler -> Nat] /\ b \in [Handler -> Nat]
  /\ \A h \in Handler : c - Ticks(a[h]) + m - b[h] + q[h] >= Ticks(Period[h])

\* The tick that the times of the list are counted from.
CountedFrom == IF waits THEN start ELSE Ticks(now)

\* What is shown of every state: the list is punctual, and a wait is no shorter than the first.
PunctualInv ==
  /\ deadline \in Nat /\ waits \in BOOLEAN
  /\ waits => deadline >= start + Ticks(list[1].time)
  /\ \E f, q, r, a, b : Punctual(list, CountedFrom, msgs, f, q, r, a, b)

\* A handler that expires is called, and set for a whole interval.
LEMMA PunctualCall ==
  ASSUME NEW l, NEW c \in Nat, NEW m \in Nat, NEW f, NEW q, NEW r, NEW a, NEW b,
         Punctual(l, c, m, f, q, r, a, b), now \in Nat, Ticks(now) >= c + Ticks(l[1].time)
  PROVE  \E f1, q1, a1, b1 :
           /\ Punctual(Inserted(Tail(l), l[1].h, m), Ticks(now), m, f1, q1, 0, a1, b1)
           /\ a1 = [a EXCEPT ![l[1].h] = now] /\ b1 = [b EXCEPT ![l[1].h] = m]
<1> DEFINE h == l[1].h
           R == Handler \ {h}
           rest == [g \in R |-> f[g] - f[h]]
           w == With(R, rest, h, Period[h])
           k == Inserted(Tail(l), h, m)
           a1 == [a EXCEPT ![h] = now]
           b1 == [b EXCEPT ![h] = m]
           q1 == [g \in Handler |-> IF g = h THEN Ticks(Period[h]) ELSE q[g] - q[h]]
<1>1. /\ Timers(l, Handler, f) /\ Whole(f, q, r) /\ Moments(l, a, b)
      /\ a \in [Handler -> Nat] /\ b \in [Handler -> Nat]
      /\ \A g \in Handler : c - Ticks(a[g]) + m - b[g] + q[g] >= Ticks(Period[g])
  BY DEF Punctual
<1>2. Handler # {} /\ TickMs \in Nat /\ TickMs # 0
  BY TimeoutsAssumption
<1>3. /\ l \in Seq(Element) /\ l # <<>> /\ h \in Handler /\ l[1].time \in Nat /\ f[h] = l[1].time
      /\ f \in [Handler -> Nat]
      /\ \A g \in Handler : f[h] <= f[g]
  <2>1. l \in Seq(Element) /\ f \in [Handler -> Nat]
    BY <1>1 DEF Timers
  <2>2. Len(l) \in Nat /\ 1 \in 1 .. Len(l) /\ l[1] \in Element /\ h \in Handler /\ f[h] = l[1].time
    BY <1>1, <1>2, FirstTimer
  <2>3. \A g \in Handler : f[h] <= f[g]
    BY <1>1, <1>2, FirstTimer
  <2>4. l # <<>>
    BY <2>1, <2>2, EmptySeq
  <2>5. l[1].time \in Nat
    BY <2>2 DEF Element
  <2> QED
    BY <2>1, <2>2, <2>3, <2>4, <2>5
<1>4. Timers(Tail(l), R, rest)
  BY <1>1, <1>2, RemoveTimer
<1>5. h \in Handler /\ h \notin R /\ R \in SUBSET Handler /\ R \cup {h} = Handler
  BY <1>3
<1>6. w = [g \in Handler |-> IF g = h THEN Period[h] ELSE f[g] - f[h]]
  BY <1>5 DEF With
<1>7. Moments(Tail(l), a, b)
  BY <1>1, <1>3, TailMoments
<1>8. q \in [Handler -> Nat] /\ r \in 0 .. TickMs - 1 /\ \A g \in Handler : f[g] = TickMs * q[g] + r
  BY <1>1 DEF Whole
<1> HIDE DEF h, R, rest, w, k, a1, b1, q1
<1>9. Timers(k, Handler, w)
  <2>1. Timers(k, R \cup {h}, w)
    BY <1>4, <1>5, InsertTimer DEF w, k
  <2> QED
    BY <1>5, <2>1
<1>10. Moments(k, a1, b1)
  BY <1>1, <1>4, <1>5, <1>7, InsertMoments DEF k, a1, b1
<1>11. /\ a1 \in [Handler -> Nat] /\ b1 \in [Handler -> Nat] /\ a1[h] = now /\ b1[h] = m
       /\ \A g \in Handler : g # h => a1[g] = a[g] /\ b1[g] = b[g]
  BY <1>1, <1>5 DEF a1, b1
<1>12. ASSUME NEW g \in Handler PROVE q[g] - q[h] \in Nat
  <2>1. q[g] \in Nat /\ q[h] \in Nat /\ f[h] <= f[g]
    BY <1>3, <1>5, <1>8
  <2>2. TickMs * q[h] + r <= TickMs * q[g] + r
    BY <1>3, <1>5, <1>8
  <2>3. ASSUME NEW x \in Nat, NEW y \in Nat, TickMs * x + r <= TickMs * y + r PROVE x <= y
    BY <1>2, <1>8, <2>3
  <2> QED
    BY <2>1, <2>2, <2>3
<1>13. q1 \in [Handler -> Nat] /\ q1[h] = Ticks(Period[h]) /\ \A g \in Handler : g # h => q1[g] = q[g] - q[h]
  BY <1>5, <1>12, PeriodTicks DEF q1
<1>14. Whole(w, q1, 0)
  <2>1. ASSUME NEW g \in Handler PROVE w[g] = TickMs * q1[g] + 0
    <3>1. CASE g = h
      BY <1>2, <1>6, <1>13, <3>1, PeriodTicks
    <3>2. CASE g # h
      <4>1. w[g] = f[g] - f[h] /\ q1[g] = q[g] - q[h]
        BY <1>6, <1>13, <3>2
      <4>2. f[g] = TickMs * q[g] + r /\ f[h] = TickMs * q[h] + r /\ q[g] \in Nat /\ q[h] \in Nat
        BY <1>5, <1>8
      <4>3. ASSUME NEW x \in Nat, NEW y \in Nat
            PROVE  (TickMs * x + r) - (TickMs * y + r) = TickMs * (x - y) + 0
        BY <1>2, <1>8
      <4> QED
        BY <4>1, <4>2, <4>3
    <3> QED
      BY <3>1, <3>2
  <2>2. 0 \in 0 .. TickMs - 1
    BY <1>2
  <2> QED
    BY <1>13, <2>1, <2>2 DEF Whole
<1>15. Ticks(l[1].time) = q[h]
  <2>1. l[1].time \in Nat /\ l[1].time = TickMs * q[h] + r /\ q[h] \in Nat /\ r \in 0 .. TickMs - 1
    BY <1>3, <1>5, <1>8
  <2>2. \A x \in Nat : \A p \in Nat, s \in 0 .. TickMs - 1 : x = TickMs * p + s => Ticks(x) = p
    BY WholeTicks
  <2> QED
    BY <2>1, <2>2
<1>16. Ticks(now) \in Nat
  BY WholeTicks
<1>17. ASSUME NEW g \in Handler PROVE Ticks(now) - Ticks(a1[g]) + m - b1[g] + q1[g] >= Ticks(Period[g])
  <2>1. CASE g = h
    <3>1. Ticks(Period[h]) \in Nat
      BY <1>5, PeriodTicks
    <3> QED
      BY <1>11, <1>13, <1>16, <2>1, <3>1
  <2>2. CASE g # h
    <3>1. c - Ticks(a[g]) + m - b[g] + q[g] >= Ticks(Period[g])
      BY <1>1
    <3>2. a1[g] = a[g] /\ b1[g] = b[g] /\ q1[g] = q[g] - q[h]
      BY <1>11, <1>13, <2>2
    <3>3. Ticks(now) >= c + q[h]
      BY <1>15
    <3>4. /\ Ticks(a[g]) \in Nat /\ b[g] \in Nat /\ q[g] \in Nat /\ q[h] \in Nat
          /\ Ticks(Period[g]) \in Nat
      BY <1>1, <1>5, <1>8, WholeTicks, PeriodTicks
    <3> QED
      BY <1>16, <3>1, <3>2, <3>3, <3>4
  <2> QED
    BY <2>1, <2>2
<1>18. Punctual(k, Ticks(now), m, w, q1, 0, a1, b1)
  BY <1>9, <1>10, <1>11, <1>14, <1>17 DEF Punctual
<1> QED
  BY <1>18 DEF k, a1, b1, h

\* A message takes the ticks waited and one millisecond off: at most a tick more than the ticks.
LEMMA PunctualMessage ==
  ASSUME NEW l, NEW c \in Nat, NEW m \in Nat, NEW f, NEW q, NEW r, NEW a, NEW b,
         Punctual(l, c, m, f, q, r, a, b), NEW d \in Nat,
         NEW t \in 0 .. l[1].time, t >= l[1].time - (d * TickMs + 1)
  PROVE  \E f1, q1 : Punctual([l EXCEPT ![1].time = t], c + d, m + 1, f1, q1, t % TickMs, a, b)
<1> DEFINE h == l[1].h
           w == [g \in Handler |-> f[g] - f[h] + t]
           k == [l EXCEPT ![1].time = t]
           u == Ticks(t)
           s == t % TickMs
           q1 == [g \in Handler |-> q[g] - q[h] + u]
<1>1. /\ Timers(l, Handler, f) /\ Whole(f, q, r) /\ Moments(l, a, b)
      /\ a \in [Handler -> Nat] /\ b \in [Handler -> Nat]
      /\ \A g \in Handler : c - Ticks(a[g]) + m - b[g] + q[g] >= Ticks(Period[g])
  BY DEF Punctual
<1>2. Handler # {} /\ TickMs \in Nat /\ TickMs # 0
  BY TimeoutsAssumption
<1>3. /\ l \in Seq(Element) /\ l # <<>> /\ h \in Handler /\ l[1].time \in Nat /\ f[h] = l[1].time
      /\ f \in [Handler -> Nat]
      /\ \A g \in Handler : f[h] <= f[g]
  <2>1. l \in Seq(Element) /\ f \in [Handler -> Nat]
    BY <1>1 DEF Timers
  <2>2. Len(l) \in Nat /\ 1 \in 1 .. Len(l) /\ l[1] \in Element /\ h \in Handler /\ f[h] = l[1].time
    BY <1>1, <1>2, FirstTimer
  <2>3. \A g \in Handler : f[h] <= f[g]
    BY <1>1, <1>2, FirstTimer
  <2>4. l # <<>>
    BY <2>1, <2>2, EmptySeq
  <2>5. l[1].time \in Nat
    BY <2>2 DEF Element
  <2> QED
    BY <2>1, <2>2, <2>3, <2>4, <2>5
<1>4. t \in Nat
  BY <1>3
<1>5. u \in Nat /\ s \in 0 .. TickMs - 1 /\ t = TickMs * u + s
  BY <1>4, WholeTicks
<1>6. Timers(k, Handler, w)
  BY <1>1, <1>2, ShortenTimer
<1>7. Moments(k, a, b)
  BY <1>1, <1>3, <1>4, ShortenMoments
<1>8. q \in [Handler -> Nat] /\ r \in 0 .. TickMs - 1 /\ \A g \in Handler : f[g] = TickMs * q[g] + r
  BY <1>1 DEF Whole
<1> HIDE DEF h, w, k, u, s, q1
<1>9. ASSUME NEW g \in Handler PROVE q[g] - q[h] \in Nat
  <2>1. q[g] \in Nat /\ q[h] \in Nat /\ f[h] <= f[g]
    BY <1>3, <1>8
  <2>2. TickMs * q[h] + r <= TickMs * q[g] + r
    BY <1>3, <1>8
  <2>3. ASSUME NEW x \in Nat, NEW y \in Nat, TickMs * x + r <= TickMs * y + r PROVE x <= y
    BY <1>2, <1>8, <2>3
  <2> QED
    BY <2>1, <2>2, <2>3
<1>10. q1 \in [Handler -> Nat] /\ \A g \in Handler : q1[g] = q[g] - q[h] + u
  BY <1>5, <1>9 DEF q1
<1>11. Whole(w, q1, s)
  <2>1. ASSUME NEW g \in Handler PROVE w[g] = TickMs * q1[g] + s
    <3>1. w[g] = f[g] - f[h] + t /\ q1[g] = q[g] - q[h] + u
      BY <1>10 DEF w
    <3>2. f[g] = TickMs * q[g] + r /\ f[h] = TickMs * q[h] + r /\ q[g] \in Nat /\ q[h] \in Nat
      BY <1>3, <1>8
    <3>3. ASSUME NEW x \in Nat, NEW y \in Nat
          PROVE  (TickMs * x + r) - (TickMs * y + r) + (TickMs * u + s) = TickMs * (x - y + u) + s
      BY <1>2, <1>5, <1>8
    <3>4. (TickMs * q[g] + r) - (TickMs * q[h] + r) + (TickMs * u + s) = TickMs * (q[g] - q[h] + u) + s
      BY <3>2, <3>3
    <3>5. w[g] = (TickMs * q[g] + r) - (TickMs * q[h] + r) + (TickMs * u + s)
      <4>1. w[g] = f[g] - f[h] + (TickMs * u + s)
        BY <1>5, <3>1
      <4> QED
        BY <3>2, <4>1
    <3> QED
      BY <3>1, <3>4, <3>5
  <2> QED
    BY <1>5, <1>10, <2>1 DEF Whole
<1>12. u + 1 >= q[h] - d
  <2>1. q[h] \in Nat /\ f[h] = TickMs * q[h] + r
    BY <1>3, <1>8
  <2>2. TickMs * u + s + d * TickMs + 1 >= TickMs * q[h] + r
    <3>1. ASSUME NEW x \in Nat, NEW y \in Nat, NEW z \in Nat, y >= x - (z + 1) PROVE y + z + 1 >= x
      BY <3>1
    <3>2. d * TickMs \in Nat
      BY <1>2
    <3>3. t + d * TickMs + 1 >= l[1].time
      BY <1>3, <1>4, <3>1, <3>2
    <3> QED
      BY <1>3, <1>5, <2>1, <3>3
  <2>3. ASSUME NEW x \in Nat, TickMs * u + s + d * TickMs + 1 >= TickMs * x + r PROVE u + 1 >= x - d
    <3>1. TickMs * u + TickMs + d * TickMs >= TickMs * x
      BY <1>2, <1>5, <1>8, <2>3
    <3>2. TickMs * (u + 1 + d) >= TickMs * x
      BY <1>2, <1>5, <3>1
    <3>3. ASSUME NEW y \in Nat, TickMs * y >= TickMs * x PROVE y >= x
      BY <1>2, <3>3
    <3>4. u + 1 + d >= x
      BY <1>5, <3>2, <3>3
    <3> QED
      BY <1>5, <3>4
  <2> QED
    BY <2>1, <2>2, <2>3
<1>13. ASSUME NEW g \in Handler PROVE (c + d) - Ticks(a[g]) + (m + 1) - b[g] + q1[g] >= Ticks(Period[g])
  <2>1. c - Ticks(a[g]) + m - b[g] + q[g] >= Ticks(Period[g])
    BY <1>1
  <2>2. q1[g] = q[g] - q[h] + u
    BY <1>10
  <2>3. /\ Ticks(a[g]) \in Nat /\ b[g] \in Nat /\ q[g] \in Nat /\ q[h] \in Nat
        /\ Ticks(Period[g]) \in Nat
    BY <1>1, <1>3, <1>8, WholeTicks, PeriodTicks
  <2> QED
    BY <1>5, <1>12, <2>1, <2>2, <2>3
<1>14. Punctual(k, c + d, m + 1, w, q1, s, a, b)
  BY <1>1, <1>6, <1>7, <1>11, <1>13 DEF Punctual
<1> QED
  BY <1>14 DEF k, s

\* The lists that sys_timeouts_init makes are set now and after no message.
LEMMA SetUpMoments ==
  ASSUME now = 0
  PROVE  \A k \in 0 .. Len(InitOrder) :
           Moments(SetUp[k], [h \in Handler |-> 0], [h \in Handler |-> 0])
<1> DEFINE n == Len(InitOrder)
           z == [h \in Handler |-> 0]
           Good(k) == Moments(SetUp[k], z, z)
           Bad == {k \in Nat : k <= n /\ ~Good(k)}
<1>1. n \in Nat /\ InitOrder \in Seq(Handler)
  BY TimeoutsAssumption, LenProperties
<1>2. z \in [Handler -> Nat] /\ \A h \in Handler : [z EXCEPT ![h] = 0] = z
  OBVIOUS
<1>3. ASSUME Bad # {} PROVE FALSE
  <2>1. PICK k \in Bad : \A j \in Bad : k <= j
    BY <1>3, LeastNumber
  <2> HIDE DEF n, Good, z
  <2>2. k \in Nat /\ k <= n /\ ~Good(k)
    BY <2>1
  <2>3. k # 0
    <3>1. SetUp[0] = <<>> /\ Len(<<>>) = 0
      BY SetUpIs, EmptySeq
    <3>2. Good(0)
      BY <3>1 DEF Good, Moments
    <3> QED
      BY <2>2, <3>2
  <2>4. k \in 1 .. n /\ k - 1 \in Nat /\ k - 1 <= n /\ k - 1 \in 0 .. n
    BY <1>1, <2>2, <2>3
  <2>5. Good(k - 1)
    BY <2>1, <2>2, <2>3, <2>4
  <2> DEFINE H == FirstCalls(k - 1)
             h == InitOrder[k]
  <2>6. h \in Handler
    BY <1>1, <2>4, ElementOfSeq DEF n
  <2>7. \A j \in 1 .. k - 1 : j \in 1 .. n /\ j # k
    BY <1>1, <2>4
  <2>8. H \in SUBSET Handler
    <3>1. \A j \in 1 .. k - 1 : InitOrder[j] \in Handler
      BY <1>1, <2>7, ElementOfSeq DEF n
    <3> QED
      BY <3>1 DEF FirstCalls
  <2>9. h \notin H
    <3>1. ASSUME NEW j \in 1 .. k - 1 PROVE InitOrder[j] # h
      <4>1. j \in DOMAIN InitOrder /\ k \in DOMAIN InitOrder
        BY <1>1, <2>4, <2>7 DEF n
      <4> QED
        BY <2>7, <4>1, TimeoutsAssumption
    <3> QED
      BY <3>1 DEF FirstCalls
  <2>10. SetUp[k] = Inserted(SetUp[k - 1], h, 0)
    BY <2>4, SetUpIs DEF n
  <2>11. Timers(SetUp[k - 1], H, Times(k - 1))
    BY <2>4, SetUpTimers DEF n
  <2> HIDE DEF H, h
  <2>12. Moments(Inserted(SetUp[k - 1], h, 0), [z EXCEPT ![h] = now], [z EXCEPT ![h] = 0])
    BY <1>2, <2>5, <2>6, <2>8, <2>9, <2>11, InsertMoments DEF Good
  <2>13. Good(k)
    BY <1>2, <2>6, <2>10, <2>12 DEF Good
  <2> QED
    BY <2>2, <2>13
<1>4. \A k \in 0 .. n : k \in Nat /\ k <= n
  BY <1>1
<1> QED
  BY <1>3, <1>4

\* At first every handler has its interval before it.
LEMMA PunctualInit == ASSUME TInit PROVE PunctualInv
<1> DEFINE n == Len(InitOrder)
           z == [h \in Handler |-> 0]
           q == [h \in Handler |-> Ticks(Period[h])]
<1>1. now = 0 /\ msgs = 0 /\ waits = FALSE /\ deadline = 0 /\ list = SetUp[n] /\ n \in 0 .. n
  BY TimeoutsAssumption, LenProperties DEF TInit
<1>2. PICK f : Timers(list, Handler, f)
  BY TimersInit DEF TimersInv
<1>3. Left = Period /\ Left = f
  <2>1. Left = LeftOf(list)
    BY DEF Left, LeftOf, Index
  <2> QED
    BY <1>2, <2>1, LeftIs, TimersInit
<1>4. Timers(list, Handler, Period)
  BY <1>2, <1>3
<1>5. Moments(list, z, z)
  BY <1>1, SetUpMoments
<1>6. z \in [Handler -> Nat] /\ q \in [Handler -> Nat] /\ \A h \in Handler : z[h] = 0 /\ q[h] = Ticks(Period[h])
  BY PeriodTicks
<1> HIDE DEF n, z, q
<1>7. TickMs \in Nat /\ TickMs # 0 /\ Ticks(0) \in Nat /\ 0 \in 0 .. TickMs - 1
  BY WholeTicks
<1>8. Whole(Period, q, 0)
  <2>1. \A h \in Handler : Period[h] = TickMs * q[h] + 0
    BY <1>6, <1>7, PeriodTicks
  <2> QED
    BY <1>6, <1>7, <2>1 DEF Whole
<1>9. \A h \in Handler : Ticks(0) - Ticks(z[h]) + 0 - z[h] + q[h] >= Ticks(Period[h])
  BY <1>6, <1>7, PeriodTicks
<1>10. CountedFrom = Ticks(0)
  BY <1>1 DEF CountedFrom
<1>11. Punctual(list, CountedFrom, msgs, Period, q, 0, z, z)
  BY <1>1, <1>4, <1>5, <1>6, <1>8, <1>9, <1>10 DEF Punctual
<1> QED
  BY <1>1, <1>11 DEF PunctualInv

\* Later on nothing is worse.
LEMMA PunctualLater ==
  ASSUME NEW l, NEW c \in Nat, NEW m \in Nat, NEW f, NEW q, NEW r, NEW a, NEW b,
         Punctual(l, c, m, f, q, r, a, b), NEW d \in Nat, d >= c
  PROVE  Punctual(l, d, m, f, q, r, a, b)
<1>1. ASSUME NEW h \in Handler PROVE d - Ticks(a[h]) + m - b[h] + q[h] >= Ticks(Period[h])
  <2>1. c - Ticks(a[h]) + m - b[h] + q[h] >= Ticks(Period[h])
    BY DEF Punctual
  <2>2. a[h] \in Nat /\ b[h] \in Nat /\ q[h] \in Nat
    BY DEF Punctual, Whole
  <2>3. Ticks(a[h]) \in Nat /\ Ticks(Period[h]) \in Nat
    BY <2>2, WholeTicks, PeriodTicks
  <2> QED
    BY <2>1, <2>2, <2>3
<1> QED
  BY <1>1 DEF Punctual

\* What NotTooEarly says of a handler.
Late(h) ==
  LET e == list[Index(h)] IN
    list' # list /\ list'[Index(h)'].at = now /\ e.at < now =>
      now - e.at + (msgs - e.heard + 1) * TickMs > Period[h]

\* What a handler has waited when it is called.
LEMMA CalledLate ==
  ASSUME now \in Nat, msgs \in Nat, NEW h \in Handler, NEW x \in Nat, NEW y \in Nat,
         Ticks(now) - Ticks(x) + msgs - y >= Ticks(Period[h])
  PROVE  now - x + (msgs - y + 1) * TickMs > Period[h]
<1> DEFINE T == TickMs
           N == Ticks(now)
           X == Ticks(x)
           P == Ticks(Period[h])
           u == now % T
           v == x % T
<1>1. T \in Nat /\ T # 0 /\ N \in Nat /\ X \in Nat /\ P \in Nat
  BY WholeTicks, PeriodTicks
<1>2. now = T * N + u /\ x = T * X + v /\ u \in 0 .. T - 1 /\ v \in 0 .. T - 1 /\ Period[h] = T * P
  BY WholeTicks, PeriodTicks
<1> HIDE DEF T, N, X, P, u, v
<1>3. N - X + msgs - y - P \in Nat
  BY <1>1 DEF N, X, P
<1>4. ASSUME NEW k \in Nat, k = N - X + msgs - y - P
      PROVE  (T * N + u) - (T * X + v) + (msgs - y + 1) * T = T * P + T * k + (T - v) + u
  <2>1. msgs - y = k + P + X - N
    BY <1>1, <1>4
  <2>2. (msgs - y + 1) * T = T * k + T * P + T * X - T * N + T
    BY <1>1, <2>1
  <2> QED
    BY <1>1, <1>2, <2>2
<1>5. PICK k \in Nat : k = N - X + msgs - y - P
  BY <1>3
<1>6. T * k \in Nat /\ T * P \in Nat /\ T - v > 0 /\ u >= 0
  BY <1>1, <1>2
<1>7. (T * N + u) - (T * X + v) + (msgs - y + 1) * T > T * P
  BY <1>1, <1>2, <1>4, <1>5, <1>6
<1>8. now - x + (msgs - y + 1) * T > Period[h]
  BY <1>2, <1>7
<1> QED
  BY <1>8 DEF T

\* The element of a handler, before a step.
LEMMA IndexOf ==
  ASSUME NEW f, Timers(list, Handler, f), NEW a, NEW b, Moments(list, a, b), NEW h \in Handler
  PROVE  list[Index(h)].at = a[h] /\ list[Index(h)].heard = b[h]
<1> DEFINE i == CHOOSE j \in DOMAIN list : list[j].h = h
<1>1. Index(h) = i
  BY DEF Index
<1> HIDE DEF i
<1>2. list[i].at = a[h] /\ list[i].heard = b[h]
  BY IndexIs DEF i
<1> QED
  BY <1>1, <1>2

\* And after it.
LEMMA IndexAfter ==
  ASSUME NEW f, Timers(list', Handler, f), NEW a, NEW b, Moments(list', a, b), NEW h \in Handler
  PROVE  list'[Index(h)'].at = a[h]
<1> DEFINE i == CHOOSE j \in DOMAIN list' : list'[j].h = h
<1>1. Index(h)' = i
  BY DEF Index
<1> HIDE DEF i
<1>2. list'[i].at = a[h]
  BY IndexIs DEF i
<1> QED
  BY <1>1, <1>2

\* Every step keeps the list punctual, and calls no handler too early.
LEMMA PunctualStep ==
  ASSUME TimersInv, PunctualInv, [TNext]_tvars, now' \in Nat
  PROVE  PunctualInv' /\ \A h \in Handler : [Late(h)]_tvars
<1> DEFINE c == CountedFrom
<1>1. PICK f, q, r, a, b : Punctual(list, c, msgs, f, q, r, a, b)
  BY DEF PunctualInv
<1>2. /\ now \in Nat /\ msgs \in Nat /\ start \in Nat /\ start <= Ticks(now) /\ deadline \in Nat
      /\ waits \in BOOLEAN /\ (waits => deadline >= start + Ticks(list[1].time))
  BY DEF TimersInv, PunctualInv
<1>3. Ticks(now) \in Nat /\ TickMs \in Nat /\ TickMs # 0
  BY <1>2, WholeTicks
<1>4. c \in Nat /\ c <= Ticks(now) /\ (waits => c = start) /\ (~waits => c = Ticks(now))
  BY <1>2, <1>3 DEF CountedFrom
<1>5. /\ Timers(list, Handler, f) /\ Moments(list, a, b) /\ a \in [Handler -> Nat] /\ b \in [Handler -> Nat]
      /\ q \in [Handler -> Nat]
  BY <1>1 DEF Punctual, Whole
<1> DEFINE h1 == list[1].h
<1>6. list[1].time \in Nat /\ h1 \in Handler
  BY <1>5, FirstTimer, TimeoutsAssumption DEF Element
<1>7. Ticks(list[1].time) \in Nat
  BY <1>6, WholeTicks
<1> HIDE DEF c, h1
<1>8. ASSUME UNCHANGED list PROVE \A h \in Handler : [Late(h)]_tvars
  BY <1>8 DEF Late
<1>9. CASE Wait
  <2>1. /\ UNCHANGED <<now, list, msgs>> /\ waits' = TRUE /\ start' = Ticks(now) /\ ~waits
        /\ deadline' = Ticks(now) + Max({1, list[1].time \div TickMs})
    BY <1>9 DEF Wait
  <2>2. CountedFrom' = Ticks(now) /\ c = Ticks(now)
    BY <1>4, <2>1 DEF CountedFrom
  <2>3. Punctual(list, Ticks(now), msgs, f, q, r, a, b)
    BY <1>1, <2>2
  <2>4. Punctual(list', CountedFrom', msgs', f, q, r, a, b)
    BY <2>1, <2>2, <2>3
  <2>5. Max({1, Ticks(list[1].time)}) \in Nat /\ Max({1, Ticks(list[1].time)}) >= Ticks(list[1].time)
    BY <1>7, MaxOne
  <2>6. deadline' = Ticks(now) + Max({1, Ticks(list[1].time)})
    BY <2>1 DEF Ticks
  <2>7. deadline' \in Nat /\ waits' \in BOOLEAN /\ deadline' >= Ticks(now) + Ticks(list[1].time)
    <3> DEFINE w == Max({1, Ticks(list[1].time)})
    <3>1. w \in Nat /\ w >= Ticks(list[1].time) /\ deadline' = Ticks(now) + w
      BY <2>5, <2>6
    <3> HIDE DEF w
    <3> QED
      BY <1>3, <1>7, <2>1, <3>1
  <2>8. deadline' >= start' + Ticks(list'[1].time)
    BY <2>1, <2>7
  <2>9. PunctualInv'
    BY <2>4, <2>7, <2>8 DEF PunctualInv
  <2> QED
    BY <1>8, <2>1, <2>9
<1>10. CASE Expire
  <2>1. /\ UNCHANGED <<now, start, deadline, msgs>> /\ waits' = FALSE
        /\ list' = Inserted(Tail(list), list[1].h, msgs)
        /\ IF waits THEN Ticks(now) >= deadline ELSE list[1].time = 0
    BY <1>10 DEF Expire
  <2>2. Ticks(now) >= c + Ticks(list[1].time)
    <3>1. CASE waits
      BY <1>2, <1>3, <1>4, <1>7, <2>1, <3>1
    <3>2. CASE ~waits
      <4>1. list[1].time = TickMs * 0 + 0 /\ 0 \in 0 .. TickMs - 1
        BY <1>3, <2>1, <3>2
      <4>2. Ticks(list[1].time) = 0
        BY <1>6, <4>1, WholeTicks
      <4> QED
        BY <1>3, <1>4, <3>2, <4>2
    <3> QED
      BY <3>1, <3>2
  <2>3. PICK f1, q1, a1, b1 :
           /\ Punctual(Inserted(Tail(list), list[1].h, msgs), Ticks(now), msgs, f1, q1, 0, a1, b1)
           /\ a1 = [a EXCEPT ![list[1].h] = now] /\ b1 = [b EXCEPT ![list[1].h] = msgs]
    BY <1>1, <1>2, <1>4, <2>2, PunctualCall
  <2>4. CountedFrom' = Ticks(now)
    BY <2>1 DEF CountedFrom, Ticks
  <2>5. Punctual(list', Ticks(now), msgs, f1, q1, 0, a1, b1)
    BY <2>1, <2>3
  <2>6. Punctual(list', CountedFrom', msgs', f1, q1, 0, a1, b1)
    BY <2>1, <2>4, <2>5
  <2>7. PunctualInv'
    <3>1. deadline' \in Nat /\ waits' \in BOOLEAN /\ ~waits'
      BY <1>2, <2>1
    <3> QED
      BY <2>6, <3>1 DEF PunctualInv
  <2>8. ASSUME NEW h \in Handler PROVE Late(h)
    <3>1. list'[Index(h)'].at = a1[h]
      BY <2>5, IndexAfter DEF Punctual
    <3>2. list[Index(h)].at = a[h] /\ list[Index(h)].heard = b[h]
      BY <1>5, IndexOf
    <3>3. CASE h # list[1].h
      <4>1. a1[h] = a[h] /\ a[h] \in Nat
        BY <1>5, <2>3, <3>3
      <4> QED
        BY <1>2, <3>1, <3>2, <4>1 DEF Late
    <3>4. CASE h = list[1].h
      <4>1. c - Ticks(a[h]) + msgs - b[h] + q[h] >= Ticks(Period[h])
        BY <1>1 DEF Punctual
      <4>2. a[h] \in Nat /\ b[h] \in Nat /\ q[h] \in Nat /\ Ticks(a[h]) \in Nat /\ Ticks(Period[h]) \in Nat
        BY <1>5, WholeTicks, PeriodTicks
      <4>3. Ticks(list[1].time) = q[h]
        <5>1. f[h] = list[1].time /\ f[h] = TickMs * q[h] + r /\ r \in 0 .. TickMs - 1
          BY <1>1, <1>5, <3>4, FirstTimer DEF Punctual, Whole
        <5>2. \A p \in Nat, s \in 0 .. TickMs - 1 : list[1].time = TickMs * p + s => Ticks(list[1].time) = p
          BY <1>6, WholeTicks
        <5> QED
          BY <4>2, <5>1, <5>2
      <4>4. Ticks(now) - Ticks(a[h]) + msgs - b[h] >= Ticks(Period[h])
        BY <1>2, <1>3, <1>4, <2>2, <4>1, <4>2, <4>3
      <4>5. now - a[h] + (msgs - b[h] + 1) * TickMs > Period[h]
        BY <1>2, <4>2, <4>4, CalledLate
      <4> QED
        BY <3>2, <4>5 DEF Late
    <3> QED
      BY <3>3, <3>4
  <2> QED
    BY <2>7, <2>8
<1>11. CASE MessageComes
  <2> DEFINE t == Max({0, list[1].time - Elapsed})
             d == Ticks(now) - start
  <2>1. /\ UNCHANGED <<now, start, deadline>> /\ waits /\ waits' = FALSE /\ msgs' = msgs + 1
        /\ list' = [list EXCEPT ![1].time = t]
    BY <1>11 DEF MessageComes
  <2>2. d \in Nat /\ c + d = Ticks(now) /\ Elapsed = d * TickMs + 1
    BY <1>2, <1>3, <1>4, <2>1 DEF Elapsed
  <2>3. d * TickMs + 1 \in Nat
    BY <1>3, <2>2
  <2>4. t \in 0 .. list[1].time /\ t >= list[1].time - (d * TickMs + 1)
    <3>1. list[1].time - (d * TickMs + 1) \in Int /\ list[1].time - (d * TickMs + 1) <= list[1].time
      BY <1>6, <2>3
    <3>2. t = Max({0, list[1].time - (d * TickMs + 1)})
      BY <2>2
    <3> HIDE DEF t, d
    <3> DEFINE x == list[1].time - (d * TickMs + 1)
    <3>3. t = IF x > 0 THEN x ELSE 0
      BY <3>1, <3>2, MaxZero
    <3> QED
      BY <1>6, <3>1, <3>3
  <2> HIDE DEF t, d
  <2>5. PICK f1, q1 : Punctual([list EXCEPT ![1].time = t], c + d, msgs + 1, f1, q1, t % TickMs, a, b)
    BY <1>1, <1>2, <1>4, <2>2, <2>4, PunctualMessage
  <2>6. CountedFrom' = Ticks(now)
    BY <2>1 DEF CountedFrom, Ticks
  <2>7. Punctual(list', Ticks(now), msgs + 1, f1, q1, t % TickMs, a, b)
    BY <2>1, <2>2, <2>5
  <2>8. Punctual(list', CountedFrom', msgs', f1, q1, t % TickMs, a, b)
    BY <2>1, <2>6, <2>7
  <2>9. PunctualInv'
    <3>1. deadline' \in Nat /\ waits' \in BOOLEAN /\ ~waits'
      BY <1>2, <2>1
    <3> QED
      BY <2>8, <3>1 DEF PunctualInv
  <2>10. ASSUME NEW h \in Handler PROVE Late(h)
    <3>1. list'[Index(h)'].at = a[h]
      BY <2>7, IndexAfter DEF Punctual
    <3>2. list[Index(h)].at = a[h] /\ a[h] \in Nat
      BY <1>5, IndexOf
    <3> QED
      BY <1>2, <3>1, <3>2 DEF Late
  <2> QED
    BY <2>9, <2>10
<1>12. CASE TimePasses
  <2>1. UNCHANGED <<list, waits, start, deadline, msgs>> /\ now' = now + 1
    BY <1>12 DEF TimePasses
  <2>2. CountedFrom' \in Nat /\ CountedFrom' >= c
    <3>1. Ticks(now) <= Ticks(now') /\ Ticks(now') \in Nat
      BY <1>2, <2>1, TicksGrow, WholeTicks
    <3>2. CountedFrom' = IF waits THEN start ELSE Ticks(now')
      BY <2>1 DEF CountedFrom
    <3> QED
      BY <1>2, <1>3, <1>4, <3>1, <3>2
  <2>3. Punctual(list, CountedFrom', msgs, f, q, r, a, b)
    BY <1>1, <1>2, <1>4, <2>2, PunctualLater
  <2>4. Punctual(list', CountedFrom', msgs', f, q, r, a, b)
    BY <2>1, <2>3
  <2>5. PunctualInv'
    <3>1. deadline' \in Nat /\ waits' \in BOOLEAN /\ (waits' => deadline' >= start' + Ticks(list'[1].time))
      BY <1>2, <2>1
    <3> QED
      BY <2>4, <3>1 DEF PunctualInv
  <2> QED
    BY <1>8, <2>1, <2>5
<1>13. CASE UNCHANGED tvars
  <2>1. UNCHANGED <<now, list, waits, start, deadline, msgs>>
    BY <1>13 DEF tvars
  <2>2. CountedFrom' = c
    BY <2>1 DEF CountedFrom, Ticks, c
  <2>3. Punctual(list', CountedFrom', msgs', f, q, r, a, b)
    BY <1>1, <2>1, <2>2
  <2>4. deadline' \in Nat /\ waits' \in BOOLEAN /\ (waits' => deadline' >= start' + Ticks(list'[1].time))
    BY <1>2, <2>1
  <2>5. PunctualInv'
    BY <2>3, <2>4 DEF PunctualInv
  <2> QED
    BY <1>8, <2>1, <2>5
<1> QED
  BY <1>9, <1>10, <1>11, <1>12, <1>13 DEF TNext

\* No handler is called early by more than a tick, and a tick for each message
\* (sys_arch.c:94-127, timers.c:391-420).
THEOREM NotTooEarlyCorrect == TSpec => NotTooEarly
<1>1. TimersInv => now \in Nat
  BY DEF TimersInv
<1>2. TimersInv /\ PunctualInv /\ [TNext]_tvars /\ TimersInv' => PunctualInv' /\ [\A h \in Handler : Late(h)]_tvars
  BY PunctualStep DEF TimersInv
<1>3. NotTooEarly <=> [][\A h \in Handler : Late(h)]_tvars
  BY DEF NotTooEarly, Late
<1> QED
  BY <1>2, <1>3, PunctualInit, TimersInvCorrect, PTL DEF TSpec

=============================================================================
