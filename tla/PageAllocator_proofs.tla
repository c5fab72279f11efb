-------------------------- MODULE PageAllocator_proofs --------------------------
(***************************************************************************)
(* For any sizes of pools, pages, blocks and words, any number of threads    *)
(* and whatever they read before they lock: no two blocks share a page, the  *)
(* table says whose a page is, every block has as many as it needs, and the  *)
(* counters are those of the blocks that are held. All of this up to the     *)
(* first block that overruns the pool, that block included; the blocks       *)
(* before it lie in the pool.                                               *)
(*                                                                         *)
(* AllocatorInv adds two facts. CallOK: a thread whose reads are not of an   *)
(* earlier pool requires the pages its block needs, because the page size    *)
(* only changes while there is no pool; a size that wraps around is let      *)
(* through without one. RegionOK: the pages of a pool that was not attached  *)
(* lie in its region.                                                       *)
(***************************************************************************)
EXTENDS PageAllocator, FiniteSetTheorems, TLAPS

Wraps(n) == n + RegionInfoSize >= Word

CallOK ==
  \A t \in Threads : pc[t] # "idle" /\ t \notin outdated /\ ~Wraps(size[t]) =>
    /\ pool # Null
    /\ pc[t] \in {"lock", "scan"} => required[t] = Actual(size[t]) \div pageSize + 1

RegionOK == pool # Null /\ ~attached => pageCount * pageSize <= regionSize

BlocksOK == NoSharedPage /\ TableIsBlocks /\ EnoughPages /\ PagesLieInPool
AllocatorInv == TypeOK /\ BlocksOK /\ CallOK /\ RegionOK

--------------------------------------------------------------------------------
(* Arithmetic.                                                               *)

LEMMA DivBounds ==
  ASSUME NEW a \in Nat, NEW p \in Nat \ {0}
  PROVE  a \div p \in Nat /\ (a \div p) * p <= a /\ a < (a \div p + 1) * p
BY SMT

LEMMA ModBounds ==
  ASSUME NEW a \in Int, NEW p \in Nat \ {0}
  PROVE  a % p \in 0..(p - 1) /\ (a \in Nat /\ a < p => a % p = a)
BY SMT

LEMMA ProductGrows ==
  ASSUME NEW a \in Nat, NEW b \in Nat, NEW p \in Nat, a <= b
  PROVE  a * p <= b * p
BY SMT

LEMMA WordBounds ==
  /\ 0 \in 0..(Word - 1)
  /\ \A a \in Int : a % Word \in 0..(Word - 1) /\ (a \in Nat /\ a < Word => a % Word = a)
<1>1. Word \in Nat \ {0}
  BY AllocatorAssumption DEF AllocatorAssumption
<1>2. ASSUME NEW a \in Int
      PROVE  a % Word \in 0..(Word - 1) /\ (a \in Nat /\ a < Word => a % Word = a)
  BY <1>1, ModBounds
<1>. QED
  BY <1>1, <1>2

LEMMA ActualSize ==
  ASSUME NEW n \in Nat
  PROVE  Actual(n) \in Nat /\ (~Wraps(n) => Actual(n) = n + RegionInfoSize)
<1>1. n + RegionInfoSize \in Nat /\ Word \in Nat
  BY AllocatorAssumption DEF AllocatorAssumption
<1>2. (n + RegionInfoSize) % Word \in 0..(Word - 1)
  BY <1>1, WordBounds
<1>. QED
  BY <1>1, <1>2, WordBounds DEF Actual, Wraps

--------------------------------------------------------------------------------
(* The pool.                                                                 *)

LEMMA AllocatorInit == Init => AllocatorInv
<1>. SUFFICES ASSUME Init PROVE AllocatorInv
  OBVIOUS
<1>. USE AllocatorAssumption DEF AllocatorAssumption
<1>1. Pages = {}
  BY DEF Init, Pages
<1>2. TypeOK
  <2>1. table \in [Pages -> Regions \cup {Null}]
    BY <1>1 DEF Init
  <2>2. bytesRequested \in 0..(Word - 1)
    BY WordBounds DEF Init
  <2>3. /\ pool = Null /\ pool \in Addresses \cup {Null} /\ attached \in BOOLEAN
        /\ regionSize = 0 /\ pageCount = 0 /\ pagesUsed = 0 /\ firstFree = 0
    BY DEF Init
  <2>4. pageSize \in Nat \ {0}
    BY DEF Init
  <2>5. firstFree \in Nat
    BY <2>3
  <2>6. /\ lock \in Threads \cup {Null} /\ index \in Nat
        /\ pc \in [Threads -> {"idle", "pool", "pages", "lock", "scan"}]
        /\ \A t \in Threads : pc[t] = "idle" /\ lock # t
    BY DEF Init
  <2>7. /\ size \in [Threads -> Nat] /\ required \in [Threads -> Nat]
        /\ pages \in [Threads -> Addresses \cup {Null}]
        /\ live \subseteq Regions /\ outdated \subseteq Threads
        /\ mixed \in BOOLEAN /\ undefined \in BOOLEAN
    BY DEF Init
  <2>. QED
    BY <2>1, <2>2, <2>3, <2>4, <2>5, <2>6, <2>7 DEF TypeOK
<1>. QED
  BY <1>1, <1>2
  DEF Init, AllocatorInv, BlocksOK, NoSharedPage, TableIsBlocks, EnoughPages, PagesLieInPool, CallOK,
      RegionOK

(* Until a block overruns it, the table has the pages of every block.         *)
LEMMA PagesInTable ==
  ASSUME AllocatorInv, ~undefined, NEW b \in live
  PROVE  Span(b) \subseteq Pages /\ \A i \in Span(b) : table[i] = b
BY DEF AllocatorInv, BlocksOK, TableIsBlocks, PagesLieInPool

(* Without a pool there are no blocks.                                       *)
LEMMA NoPoolNoBlocks ==
  ASSUME AllocatorInv, ~undefined, pool = Null
  PROVE  live = {}
<1>1. Pages = {}
  BY DEF AllocatorInv, TypeOK, Pages
<1>2. ASSUME NEW b \in live PROVE FALSE
  <2>1. b.start \in Span(b)
    BY DEF AllocatorInv, TypeOK, Regions, Span
  <2>. QED
    BY <1>1, <2>1, PagesInTable
<1>. QED
  BY <1>2

(* Where there are no blocks, nothing is said of any.                         *)
LEMMA NoBlocks ==
  ASSUME live' = {}, \A i \in Pages' : table'[i] = Null
  PROVE  BlocksOK'
BY DEF BlocksOK, NoSharedPage, TableIsBlocks, EnoughPages, PagesLieInPool

LEMMA ConstructInv ==
  ASSUME AllocatorInv, ~undefined, NEW n \in PoolSizes, AllocatePool(n) \/ AttachPool(n)
  PROVE  AllocatorInv'
<1>. USE AllocatorAssumption DEF AllocatorAssumption
<1>1. live = {} /\ live' = {}
  BY NoPoolNoBlocks DEF AllocatePool, AttachPool, ConstructPool, pastVars
<1>2. n \in Nat /\ pageSize \in Nat \ {0} /\ PageInfoSize \in Nat
  BY DEF AllocatorInv, TypeOK
<1>3. CountPages(n) \in Nat \ {0} /\ CountPages(n) * pageSize <= n
  BY <1>2, DivBounds DEF AllocatePool, AttachPool, ConstructPool, CountPages
<1>4. n >= pageSize
  <2>1. 1 * pageSize <= CountPages(n) * pageSize
    BY <1>2, <1>3, ProductGrows
  <2>. QED
    BY <1>2, <1>3, <2>1
<1>5. PageInfoSize * CountPages(n) \in Nat
  BY <1>2, <1>3
<1>6. /\ regionSize' \in Nat /\ regionSize' >= pageSize
      /\ ~attached' => regionSize' = n
      /\ attached' \in BOOLEAN
  <2>1. CASE AllocatePool(n)
    BY <1>2, <1>4, <2>1 DEF AllocatePool, ConstructPool
  <2>2. CASE AttachPool(n)
    BY <1>2, <1>5, <2>2 DEF AttachPool, ConstructPool, ControlTableSize
  <2>. QED
    BY <2>1, <2>2
<1>7. /\ pool = Null /\ pool' \in Addresses /\ pageCount' = CountPages(n)
      /\ Pages' = 0..(CountPages(n) - 1)
      /\ table' = [i \in 0..(CountPages(n) - 1) |-> Null]
      /\ UNCHANGED <<pageSize, firstFree, pagesUsed, bytesRequested, lock, index, pc, size, pages,
                     required, live, outdated, mixed, undefined>>
  BY DEF AllocatePool, AttachPool, ConstructPool, Pages, scanVars, callVars, pastVars
<1>8. TypeOK'
  BY <1>1, <1>2, <1>3, <1>6, <1>7 DEF AllocatorInv, TypeOK
<1>9. BlocksOK'
  BY <1>1, <1>7, NoBlocks
<1>10. CallOK'
  BY <1>7 DEF AllocatorInv, CallOK
<1>11. RegionOK'
  BY <1>3, <1>6, <1>7 DEF RegionOK
<1>. QED
  BY <1>8, <1>9, <1>10, <1>11 DEF AllocatorInv

LEMMA FreePoolInv ==
  ASSUME AllocatorInv, FreePool
  PROVE  AllocatorInv'
<1>. USE AllocatorAssumption DEF AllocatorAssumption
<1>1. Pages' = {}
  BY DEF FreePool, Pages
<1>2. TypeOK'
  <2>1. table' \in [Pages' -> Regions \cup {Null}]
    BY <1>1 DEF FreePool
  <2>2. bytesRequested' \in 0..(Word - 1)
    BY WordBounds DEF FreePool
  <2>3. /\ pool' = Null /\ attached' = FALSE /\ regionSize' = 0 /\ pageCount' = 0
        /\ pageSize' \in Nat \ {0} /\ firstFree' \in Nat /\ pagesUsed' \in Int
    BY DEF FreePool, AllocatorInv, TypeOK
  <2>4. UNCHANGED <<lock, index, pc, size, pages, required, undefined>>
    BY DEF FreePool, scanVars, callVars
  <2>5. live' \subseteq Regions /\ outdated' \subseteq Threads /\ mixed' \in BOOLEAN
    BY DEF FreePool
  <2>. QED
    BY <2>1, <2>2, <2>3, <2>4, <2>5 DEF AllocatorInv, TypeOK
<1>3. BlocksOK' /\ RegionOK'
  BY <1>1, NoBlocks DEF FreePool, RegionOK
<1>4. CallOK'
  BY DEF FreePool, CallOK, callVars
<1>. QED
  BY <1>2, <1>3, <1>4 DEF AllocatorInv

LEMMA SetPageSizeInv ==
  ASSUME AllocatorInv, ~undefined, NEW n \in PageSizes, SetPageSize(n)
  PROVE  AllocatorInv'
<1>. USE AllocatorAssumption DEF AllocatorAssumption
<1>1. live = {}
  BY NoPoolNoBlocks DEF SetPageSize
<1>2. pageSize' \in Nat \ {0}
  BY DEF SetPageSize
<1>3. /\ pool = Null
      /\ UNCHANGED <<pool, attached, regionSize, pageCount, table, firstFree, pagesUsed,
                     bytesRequested, lock, index, pc, size, pages, required, live, outdated, mixed,
                     undefined>>
  BY DEF SetPageSize, poolVars, tableVars, scanVars, callVars, pastVars
<1>4. TypeOK'
  BY <1>2, <1>3 DEF AllocatorInv, TypeOK, Pages
<1>5. BlocksOK'
  <2>1. Pages = {} /\ Pages' = {}
    BY <1>3 DEF AllocatorInv, TypeOK, Pages
  <2>. QED
    BY <1>1, <1>3, <2>1, NoBlocks
<1>6. CallOK' /\ RegionOK'
  BY <1>3 DEF AllocatorInv, CallOK, RegionOK
<1>. QED
  BY <1>4, <1>5, <1>6 DEF AllocatorInv

--------------------------------------------------------------------------------
(* Steps that change no block: the reads of Allocate, the lock and the loop.  *)

BlocksUnchanged ==
  UNCHANGED <<poolVars, pageSize, tableVars, live, mixed>> /\ (undefined => undefined')

LEMMA BlocksStay ==
  ASSUME AllocatorInv, BlocksUnchanged
  PROVE  BlocksOK' /\ RegionOK'
<1>1. /\ UNCHANGED <<pool, attached, regionSize, pageCount, pageSize, table, live, mixed>>
      /\ undefined => undefined'
  BY DEF BlocksUnchanged, poolVars, tableVars
<1>2. Pages' = Pages
  BY <1>1 DEF Pages
<1>3. NoSharedPage' /\ TableIsBlocks'
  BY <1>1, <1>2 DEF AllocatorInv, BlocksOK, NoSharedPage, TableIsBlocks, Span
<1>4. EnoughPages' /\ RegionOK'
  BY <1>1 DEF AllocatorInv, BlocksOK, EnoughPages, RegionOK
<1>5. PagesLieInPool'
  BY <1>1, <1>2 DEF AllocatorInv, BlocksOK, PagesLieInPool, Span
<1>. QED
  BY <1>3, <1>4, <1>5 DEF BlocksOK

LEMMA CallInv ==
  ASSUME AllocatorInv, NEW t \in Threads,
         \/ ReadPool(t) \/ ReadPageSize(t) \/ Lock(t)
         \/ \E n \in Sizes : StartAllocate(t, n)
  PROVE  AllocatorInv'
<1>. USE AllocatorAssumption DEF AllocatorAssumption
<1>1. BlocksUnchanged
  BY DEF BlocksUnchanged, ReadPool, ReadPageSize, Lock, StartAllocate, pastVars
<1>2. CASE \E n \in Sizes : StartAllocate(t, n)
  <2>1. PICK n \in Sizes : StartAllocate(t, n)
    BY <1>2
  <2>2. TypeOK'
    BY <2>1 DEF StartAllocate, Goto, AllocatorInv, TypeOK, Pages, poolVars, tableVars, scanVars
  <2>3. ~Wraps(n) => pool # Null
    <3>1. n \in Nat /\ (~Wraps(n) => Actual(n) = n + RegionInfoSize)
      BY ActualSize
    <3>. QED
      BY <2>1, <3>1 DEF StartAllocate, AllocatorInv, TypeOK
  <2>4. CallOK'
    BY <2>1, <2>3 DEF StartAllocate, Goto, AllocatorInv, TypeOK, CallOK, Wraps, Actual, poolVars
  <2>. QED
    BY <1>1, <2>2, <2>4, BlocksStay DEF AllocatorInv
<1>3. CASE ReadPool(t)
  <2>1. TypeOK'
    BY <1>3 DEF ReadPool, Goto, AllocatorInv, TypeOK, Pages, poolVars, tableVars, scanVars, pastVars
  <2>2. CallOK'
    BY <1>3 DEF ReadPool, Goto, AllocatorInv, TypeOK, CallOK, Wraps, Actual, poolVars, pastVars
  <2>. QED
    BY <1>1, <2>1, <2>2, BlocksStay DEF AllocatorInv
<1>4. CASE ReadPageSize(t)
  <2>1. Actual(size[t]) \div pageSize \in Nat
    BY ActualSize, DivBounds DEF AllocatorInv, TypeOK
  <2>2. TypeOK'
    BY <1>4, <2>1
    DEF ReadPageSize, Goto, AllocatorInv, TypeOK, Pages, poolVars, tableVars, scanVars, pastVars
  <2>3. CallOK'
    BY <1>4 DEF ReadPageSize, Goto, AllocatorInv, TypeOK, CallOK, Wraps, Actual, poolVars, pastVars
  <2>. QED
    BY <1>1, <2>2, <2>3, BlocksStay DEF AllocatorInv
<1>5. CASE Lock(t)
  <2>1. TypeOK'
    BY <1>5 DEF Lock, Goto, AllocatorInv, TypeOK, Pages, poolVars, tableVars, pastVars
  <2>2. CallOK'
    BY <1>5 DEF Lock, Goto, AllocatorInv, TypeOK, CallOK, Wraps, Actual, poolVars, pastVars
  <2>. QED
    BY <1>1, <2>1, <2>2, BlocksStay DEF AllocatorInv
<1>. QED
  BY <1>2, <1>3, <1>4, <1>5

LEMMA LoopInv ==
  ASSUME AllocatorInv, NEW t \in Threads,
         SkipRegion(t) \/ SkipRun(t) \/ StalePages(t)
  PROVE  AllocatorInv'
<1>1. BlocksUnchanged
  BY DEF BlocksUnchanged, SkipRegion, SkipRun, StalePages, pastVars, tableVars
<1>2. index' \in Nat
  <2>1. CASE SkipRegion(t)
    <3>1. index \in Pages
      BY <2>1 DEF SkipRegion, Scans, AllocatorInv, TypeOK, Pages
    <3>2. table[index].usedNext \in Nat
      BY <2>1, <3>1 DEF SkipRegion, AllocatorInv, TypeOK, Regions
    <3>. QED
      BY <2>1, <3>2 DEF SkipRegion, AllocatorInv, TypeOK
  <2>2. CASE SkipRun(t)
    BY <2>2 DEF SkipRun, UsedInRun, RestOfRun, AllocatorInv, TypeOK
  <2>3. CASE StalePages(t)
    BY <2>3 DEF StalePages, scanVars, AllocatorInv, TypeOK
  <2>. QED
    BY <2>1, <2>2, <2>3
<1>3. /\ UNCHANGED <<poolVars, pageSize, tableVars, lock, callVars, pastVars>>
      /\ undefined' \in BOOLEAN
  BY DEF SkipRegion, SkipRun, StalePages, scanVars, AllocatorInv, TypeOK
<1>4. TypeOK'
  BY <1>2, <1>3 DEF AllocatorInv, TypeOK, Pages, poolVars, tableVars, callVars, pastVars
<1>5. CallOK'
  BY <1>3 DEF AllocatorInv, CallOK, Wraps, Actual, poolVars, callVars, pastVars
<1>. QED
  BY <1>1, <1>4, <1>5, BlocksStay DEF AllocatorInv

LEMMA ReturnInv ==
  ASSUME AllocatorInv, NEW t \in Threads, lock = t, Return(t), UNCHANGED outdated
  PROVE  CallOK'
BY DEF Return, Goto, AllocatorInv, TypeOK, CallOK, Wraps, Actual, poolVars

LEMMA NotFoundInv ==
  ASSUME AllocatorInv, NEW t \in Threads, NotFound(t)
  PROVE  AllocatorInv'
<1>1. BlocksUnchanged
  BY DEF BlocksUnchanged, NotFound, Return, pastVars
<1>2. TypeOK'
  BY AllocatorAssumption
  DEF AllocatorAssumption, NotFound, Return, Goto, AllocatorInv, TypeOK, Pages, poolVars, tableVars, pastVars
<1>3. CallOK'
  BY ReturnInv DEF NotFound, pastVars
<1>. QED
  BY <1>1, <1>2, <1>3, BlocksStay DEF AllocatorInv

--------------------------------------------------------------------------------
(* A block is granted.                                                       *)

LEMMA GrantTakesFree ==
  ASSUME AllocatorInv, NEW t \in Threads, Grant(t)
  PROVE  \A i \in Span(NewRegion(t)) \cap Pages : table[i] = Null
<1>. SUFFICES ASSUME NEW i \in Span(NewRegion(t)) \cap Pages PROVE table[i] = Null
  OBVIOUS
<1>1. /\ index \in Nat /\ pageCount \in Nat /\ required[t] \in Nat /\ required[t] > 0
      /\ i \in Int /\ i < pageCount
  BY DEF Grant, Scans, Pages, AllocatorInv, TypeOK
<1>2. i \in index..(index + required[t] - 1)
  BY <1>1 DEF NewRegion, Span
<1>3. CASE i = index
  BY <1>3 DEF Grant
<1>4. CASE i # index
  <2>1. i \in RestOfRun(t)
    BY <1>1, <1>2, <1>4 DEF RestOfRun
  <2>. QED
    BY <2>1 DEF Grant, UsedInRun
<1>. QED
  BY <1>3, <1>4

(* The pages of the blocks that are held lie in the table and are taken.      *)
LEMMA GrantIsApart ==
  ASSUME AllocatorInv, ~undefined, NEW t \in Threads, Grant(t), NEW c \in live
  PROVE  Span(c) \cap Span(NewRegion(t)) = {}
<1>1. c # Null /\ Span(c) \subseteq Pages /\ \A i \in Span(c) : table[i] = c
  BY PagesInTable, AllocatorAssumption DEF AllocatorInv, TypeOK, AllocatorAssumption
<1>2. \A i \in Span(NewRegion(t)) \cap Pages : table[i] = Null
  BY GrantTakesFree
<1>. QED
  BY <1>1, <1>2

LEMMA GrantInv ==
  ASSUME AllocatorInv, ~undefined, NEW t \in Threads, Grant(t)
  PROVE  AllocatorInv'
<1>. USE AllocatorAssumption DEF AllocatorAssumption
<1>. DEFINE b == NewRegion(t)
<1>1. /\ index \in Nat /\ index < pageCount /\ pageCount \in Nat /\ pageSize \in Nat \ {0}
      /\ lock = t /\ pc[t] = "scan"
      /\ required[t] \in Nat /\ required[t] > 0 /\ size[t] \in Nat
      /\ regionSize \in Nat
  BY DEF Grant, Scans, AllocatorInv, TypeOK
<1>2. /\ b \in Regions /\ b # Null /\ b.start = index /\ b.size = size[t]
      /\ b.start + b.usedNext = index + required[t] - 1 /\ b.usedNext + 1 = required[t]
  BY <1>1 DEF NewRegion, Regions
<1>3. Span(b) = index..(index + required[t] - 1)
  BY <1>1, <1>2 DEF Span
<1>4. \A c \in live : Span(c) \cap Span(b) = {}
  BY GrantIsApart
<1>5. /\ table' = [i \in Pages |-> IF i \in Span(b) THEN b ELSE table[i]]
      /\ live' = live \cup {b}
      /\ UNCHANGED <<pool, attached, regionSize, pageCount, pageSize, outdated>>
      /\ undefined' = Overruns(t)
      /\ Pages' = Pages
  BY DEF Grant, Return, poolVars, Pages
<1> HIDE DEF b
<1>6. TypeOK'
  <2>1. table' \in [Pages -> Regions \cup {Null}]
    BY <1>2, <1>5 DEF AllocatorInv, TypeOK
  <2>2. firstFree' \in Nat /\ pagesUsed' \in Int
    BY <1>1 DEF Grant, AllocatorInv, TypeOK
  <2>3. bytesRequested' \in 0..(Word - 1)
    <3>1. bytesRequested + size[t] \in Int
      BY <1>1 DEF AllocatorInv, TypeOK
    <3>. QED
      BY <3>1, WordBounds DEF Grant
  <2>4. live' \subseteq Regions /\ mixed' \in BOOLEAN
    BY <1>2, <1>5 DEF Grant, AllocatorInv, TypeOK
  <2>5. /\ lock' = Null /\ index' = 0
        /\ pc' = [pc EXCEPT ![t] = "idle"] /\ size' = [size EXCEPT ![t] = 0]
        /\ pages' = [pages EXCEPT ![t] = Null] /\ required' = [required EXCEPT ![t] = 0]
    BY DEF Grant, Return, Goto
  <2>6. \A u \in Threads : pc[u] = "scan" => u = t
    BY <1>1 DEF AllocatorInv, TypeOK
  <2>7. undefined' \in BOOLEAN
    BY <1>5 DEF Overruns
  <2>. QED
    BY <1>5, <2>1, <2>2, <2>3, <2>4, <2>5, <2>6, <2>7 DEF AllocatorInv, TypeOK
<1>7. NoSharedPage' /\ TableIsBlocks'
  <2>1. \A c \in live : \A i \in Span(c) \cap Pages : table'[i] = c
    BY <1>4, <1>5 DEF AllocatorInv, BlocksOK, TableIsBlocks
  <2>2. \A i \in Span(b) \cap Pages : table'[i] = b
    BY <1>5
  <2>3. ASSUME NEW i \in Pages, table'[i] # Null PROVE table'[i] \in live' /\ i \in Span(table'[i])
    BY <1>5, <2>3 DEF AllocatorInv, BlocksOK, TableIsBlocks
  <2>4. TableIsBlocks'
    BY <1>5, <2>1, <2>2, <2>3 DEF TableIsBlocks, Span
  <2>5. NoSharedPage'
    BY <1>4, <1>5 DEF AllocatorInv, BlocksOK, NoSharedPage, Span
  <2>. QED
    BY <2>4, <2>5
<1>8. EnoughPages'
  <2>1. ~mixed' => ~mixed /\ t \notin outdated
    BY DEF Grant, AllocatorInv, TypeOK
  <2>2. ASSUME ~Wraps(size[t]), t \notin outdated
        PROVE  size[t] + RegionInfoSize <= required[t] * pageSize
    <3>1. required[t] = Actual(size[t]) \div pageSize + 1
      BY <1>1, <2>2 DEF AllocatorInv, CallOK
    <3>2. Actual(size[t]) \in Nat /\ Actual(size[t]) = size[t] + RegionInfoSize
      BY <1>1, <2>2, ActualSize
    <3>3. Actual(size[t]) < (Actual(size[t]) \div pageSize + 1) * pageSize
      BY <1>1, <3>2, DivBounds
    <3>. QED
      BY <1>1, <3>1, <3>2, <3>3
  <2>. QED
    BY <1>2, <1>5, <2>1, <2>2 DEF AllocatorInv, BlocksOK, EnoughPages, Wraps, TypeOK
<1>9. PagesLieInPool'
  <2>. SUFFICES ASSUME ~Overruns(t)
       PROVE  \A c \in live \cup {b} :
                /\ Span(c) \subseteq Pages
                /\ ~attached => (c.start + c.usedNext + 1) * pageSize <= regionSize
    BY <1>5 DEF PagesLieInPool, Span
  <2>1. index + required[t] <= pageCount
    BY <1>1 DEF Overruns
  <2>2. Span(b) \subseteq Pages
    BY <1>1, <1>3, <2>1 DEF Pages
  <2>3. ~attached => (index + required[t]) * pageSize <= regionSize
    <3>1. (index + required[t]) * pageSize <= pageCount * pageSize
      BY <1>1, <2>1, ProductGrows
    <3>2. pool # Null
      BY <1>1 DEF AllocatorInv, TypeOK
    <3>3. pageCount * pageSize \in Nat /\ (index + required[t]) * pageSize \in Nat
      BY <1>1
    <3>. QED
      BY <1>1, <3>1, <3>2, <3>3 DEF AllocatorInv, RegionOK
  <2>4. b.start + b.usedNext + 1 = index + required[t]
    BY <1>1, <1>2 DEF Regions
  <2>. QED
    BY <2>2, <2>3, <2>4 DEF AllocatorInv, BlocksOK, PagesLieInPool
<1>10. CallOK'
  BY <1>1, <1>5, ReturnInv DEF Grant
<1>11. RegionOK'
  BY <1>5 DEF AllocatorInv, RegionOK
<1>. QED
  BY <1>6, <1>7, <1>8, <1>9, <1>10, <1>11 DEF AllocatorInv, BlocksOK

--------------------------------------------------------------------------------
(* A block is freed.                                                         *)

LEMMA FreeInv ==
  ASSUME AllocatorInv, ~undefined, NEW b \in live, Free(b)
  PROVE  AllocatorInv'
<1>. USE AllocatorAssumption DEF AllocatorAssumption
<1>1. /\ b \in Regions /\ b.start \in Nat /\ b.usedNext \in Nat /\ b.size \in Nat
      /\ b.start \in Span(b) /\ Span(b) \subseteq Pages /\ \A i \in Span(b) : table[i] = b
  BY PagesInTable DEF AllocatorInv, TypeOK, Regions, Span
<1>2. /\ table' = [i \in Pages |-> IF i \in Span(b) THEN Null ELSE table[i]]
      /\ live' = live \ {b}
      /\ pagesUsed' = pagesUsed - (b.usedNext + 1)
      /\ bytesRequested' = (bytesRequested - b.size) % Word
      /\ firstFree' = IF b.start < firstFree THEN b.start ELSE firstFree
      /\ UNCHANGED <<pool, attached, regionSize, pageCount, pageSize, lock, index, pc, size, pages,
                     required, outdated, mixed, undefined>>
      /\ Pages' = Pages
  BY <1>1 DEF Free, CountOf, Span, Pages, poolVars, scanVars, callVars
<1>3. TypeOK'
  <2>1. table' \in [Pages -> Regions \cup {Null}]
    BY <1>2 DEF AllocatorInv, TypeOK
  <2>2. firstFree' \in Nat /\ pagesUsed' \in Int
    BY <1>1, <1>2 DEF AllocatorInv, TypeOK
  <2>3. bytesRequested' \in 0..(Word - 1)
    <3>1. bytesRequested - b.size \in Int
      BY <1>1 DEF AllocatorInv, TypeOK
    <3>. QED
      BY <1>2, <3>1, WordBounds
  <2>. QED
    BY <1>2, <2>1, <2>2, <2>3 DEF AllocatorInv, TypeOK
<1>4. TableIsBlocks'
  <2>1. ASSUME NEW c \in live, c # b
        PROVE  Span(c) \subseteq Pages /\ \A i \in Span(c) : table'[i] = c
    <3>1. Span(c) \subseteq Pages /\ \A i \in Span(c) : table[i] = c
      BY PagesInTable
    <3>. QED
      BY <1>1, <1>2, <2>1, <3>1
  <2>2. ASSUME NEW i \in Pages, table'[i] # Null PROVE table'[i] \in live' /\ i \in Span(table'[i])
    <3>1. i \notin Span(b) /\ table'[i] = table[i]
      BY <1>2, <2>2
    <3>2. table[i] \in live /\ i \in Span(table[i])
      BY <2>2, <3>1 DEF AllocatorInv, BlocksOK, TableIsBlocks
    <3>. QED
      BY <1>2, <3>1, <3>2
  <2>. QED
    BY <1>2, <2>1, <2>2 DEF TableIsBlocks, Span
<1>5. NoSharedPage' /\ EnoughPages'
  BY <1>2 DEF AllocatorInv, BlocksOK, NoSharedPage, EnoughPages, Span
<1>6. PagesLieInPool'
  BY <1>2 DEF AllocatorInv, BlocksOK, PagesLieInPool, Span
<1>7. CallOK' /\ RegionOK'
  BY <1>2 DEF AllocatorInv, CallOK, RegionOK, Wraps, Actual
<1>. QED
  BY <1>3, <1>4, <1>5, <1>6, <1>7 DEF AllocatorInv, BlocksOK

--------------------------------------------------------------------------------
(* The theorems.                                                             *)

LEMMA AllocatorNext == AllocatorInv /\ [Next]_vars => AllocatorInv'
<1>. SUFFICES ASSUME AllocatorInv, [Next]_vars PROVE AllocatorInv'
  OBVIOUS
<1>1. CASE UNCHANGED vars
  <2>1. BlocksUnchanged
    BY <1>1 DEF BlocksUnchanged, vars, pastVars
  <2>2. TypeOK'
    BY <1>1 DEF vars, AllocatorInv, TypeOK, Pages, poolVars, tableVars, scanVars, callVars, pastVars
  <2>3. CallOK'
    BY <1>1 DEF vars, AllocatorInv, CallOK, Wraps, Actual, poolVars, callVars, pastVars
  <2>. QED
    BY <2>1, <2>2, <2>3, BlocksStay DEF AllocatorInv
<1>2. CASE Next
  <2>1. CASE ScanStep
    BY <1>2, <2>1, LoopInv, GrantInv, NotFoundInv DEF ScanStep, Next
  <2>2. CASE ~ScanStep
    BY <1>2, <2>2, ConstructInv, FreePoolInv, SetPageSizeInv, CallInv, FreeInv DEF Next
  <2>. QED
    BY <2>1, <2>2
<1>. QED
  BY <1>1, <1>2

(* The types of the variables, whatever threads read before they lock.        *)
THEOREM AllocatorTypeCorrect == Spec => []TypeOK
<1>1. AllocatorInv => TypeOK
  BY DEF AllocatorInv
<1>. QED
  BY <1>1, AllocatorInit, AllocatorNext, PTL DEF Spec

(* Allocate gives every block pages of its own and as many as it needs,        *)
(* whatever was allocated and freed before, up to and including the first    *)
(* that overruns the pool; the ones before it lie in the pool. What follows   *)
(* an overrun, which Allocate does not prevent, is left open.                *)
THEOREM BlocksCorrect == Spec => []BlocksAreApart
<1>1. AllocatorInv => BlocksAreApart
  BY DEF AllocatorInv, BlocksOK, BlocksAreApart
<1>. QED
  BY <1>1, AllocatorInit, AllocatorNext, PTL DEF Spec

--------------------------------------------------------------------------------
(* The counters. A sum over the held blocks is the size of a set: of the pages *)
(* they have, and of the words they were asked for.                          *)

CountInv == IsFiniteSet(WordsHeld) /\ CountersAgree

LEMMA RemainderIsUnique ==
  ASSUME NEW p \in Nat \ {0}, NEW q \in Int, NEW k \in Int,
         NEW r \in 0..(p - 1), NEW s \in 0..(p - 1), (p * q) + r = (p * k) + s
  PROVE  r = s
<1>. DEFINE d == k - q
<1>1. d \in Int /\ p * d = (p * k) - (p * q)
  BY SMT
<1>2. p * d \in Int /\ p * d = r - s
  BY <1>1
<1>. HIDE DEF d
<1>3. CASE d = 0
  BY <1>2, <1>3
<1>4. CASE d >= 1
  <2>1. p * d >= p
    BY <1>1, <1>4
  <2>. QED
    BY <1>2, <2>1
<1>5. CASE d <= -1
  <2>1. p * d <= -p
    BY <1>1, <1>5
  <2>. QED
    BY <1>2, <2>1
<1>. QED
  BY <1>1, <1>3, <1>4, <1>5

LEMMA DivMod ==
  ASSUME NEW a \in Int, NEW p \in Nat \ {0}
  PROVE  a \div p \in Int /\ a % p \in 0..(p - 1) /\ a = (p * (a \div p)) + (a % p)
BY SMT

LEMMA ModSum ==
  ASSUME NEW a \in Int, NEW s \in Int, NEW p \in Nat \ {0}
  PROVE  ((a % p) + s) % p = (a + s) % p
<1>. DEFINE qa == a \div p      ra == a % p
            qx == (ra + s) \div p   rx == (ra + s) % p
            qy == (a + s) \div p    ry == (a + s) % p
<1>1. qa \in Int /\ ra \in 0..(p - 1) /\ a = (p * qa) + ra
  BY DivMod
<1>. HIDE DEF qa, ra
<1>2. qx \in Int /\ rx \in 0..(p - 1) /\ ra + s = (p * qx) + rx
  <2>1. ra + s \in Int
    BY <1>1
  <2>. QED
    BY <2>1, DivMod
<1>3. qy \in Int /\ ry \in 0..(p - 1) /\ a + s = (p * qy) + ry
  BY DivMod
<1>. HIDE DEF qx, rx, qy, ry
<1>4. qx + qa \in Int /\ p * (qx + qa) = (p * qx) + (p * qa)
  BY <1>1, <1>2
<1>5. (p * (qx + qa)) + rx = (p * qy) + ry
  <2>1. p * qx \in Int /\ p * qa \in Int /\ p * qy \in Int
    BY <1>1, <1>2, <1>3
  <2>. QED
    BY <1>1, <1>2, <1>3, <1>4, <2>1
<1>6. rx = ry
  BY <1>2, <1>3, <1>4, <1>5, RemainderIsUnique
<1>. QED
  BY <1>6 DEF rx, ry, ra

LEMMA WordsOf ==
  ASSUME NEW b, NEW n \in Nat
  PROVE  IsFiniteSet({b} \X (1..n)) /\ Cardinality({b} \X (1..n)) = n
<1>1. IsFiniteSet({b}) /\ Cardinality({b}) = 1
  BY FS_Singleton
<1>2. IsFiniteSet(1..n) /\ Cardinality(1..n) = n
  BY FS_Interval
<1>. DEFINE B == {b}   N == 1..n
<1>3. IsFiniteSet(B) /\ IsFiniteSet(N) /\ Cardinality(B) = 1 /\ Cardinality(N) = n
  BY <1>1, <1>2
<1>. HIDE DEF B, N
<1>4. IsFiniteSet(B \X N) /\ Cardinality(B \X N) = Cardinality(B) * Cardinality(N)
  BY <1>3, FS_Product
<1>5. Cardinality(B \X N) = n
  BY <1>3, <1>4
<1>. QED
  BY <1>4, <1>5 DEF B, N

LEMMA DisjointSum ==
  ASSUME NEW S, NEW T, IsFiniteSet(S), IsFiniteSet(T), S \cap T = {}
  PROVE  /\ IsFiniteSet(S \cup T) /\ Cardinality(S) \in Nat /\ Cardinality(T) \in Nat
         /\ Cardinality(S \cup T) = Cardinality(S) + Cardinality(T)
<1>1. Cardinality(S) \in Nat /\ Cardinality(T) \in Nat /\ Cardinality(S \cap T) = 0
  BY FS_CardinalityType, FS_EmptySet
<1>2. /\ IsFiniteSet(S \cup T)
      /\ Cardinality(S \cup T) = Cardinality(S) + Cardinality(T) - Cardinality(S \cap T)
  BY FS_Union
<1>. QED
  BY <1>1, <1>2

LEMMA SpanFinite ==
  ASSUME NEW b \in Regions
  PROVE  IsFiniteSet(Span(b)) /\ Cardinality(Span(b)) = b.usedNext + 1
<1>1. b.start \in Nat /\ b.usedNext \in Nat
  BY DEF Regions
<1>. DEFINE first == b.start   last == b.start + b.usedNext
<1>2. first \in Int /\ last \in Int /\ ~(first > last) /\ last - first + 1 = b.usedNext + 1
  BY <1>1
<1>3. Span(b) = first..last
  BY DEF Span
<1>. HIDE DEF first, last
<1>4. IsFiniteSet(first..last)
  BY <1>2, FS_Interval
<1>5. Cardinality(first..last) = IF first > last THEN 0 ELSE last - first + 1
  BY <1>2, FS_Interval
<1>. QED
  BY <1>2, <1>3, <1>4, <1>5

LEMMA PagesHeldFinite ==
  ASSUME AllocatorInv, ~undefined
  PROVE  IsFiniteSet(PagesHeld)
<1>1. PagesHeld \subseteq Pages
  BY PagesInTable DEF PagesHeld
<1>2. IsFiniteSet(Pages)
  BY FS_Interval DEF AllocatorInv, TypeOK, Pages
<1>. QED
  BY <1>1, <1>2, FS_Subset

(* A block more, with pages of its own.                                      *)
LEMMA GrantCounts ==
  ASSUME AllocatorInv, CountInv, ~undefined, NEW t \in Threads, Grant(t)
  PROVE  CountInv'
<1>. DEFINE b == NewRegion(t)
            W == {b} \X (1..b.size)
<1>1. /\ b \in Regions /\ b.size = size[t] /\ size[t] \in Nat /\ b.usedNext + 1 = required[t]
      /\ b.start = index /\ index \in Span(b)
  BY DEF Grant, Scans, NewRegion, Regions, Span, AllocatorInv, TypeOK
<1>2. /\ live' = live \cup {b}
      /\ pagesUsed' = pagesUsed + required[t]
      /\ bytesRequested' = (bytesRequested + size[t]) % Word
  BY DEF Grant
<1>4. \A c \in live : Span(c) \cap Span(b) = {} /\ c # b
  BY <1>1, GrantIsApart
<1>. HIDE DEF b
<1>5. PagesHeld' = PagesHeld \cup Span(b) /\ PagesHeld \cap Span(b) = {}
  BY <1>2, <1>4 DEF PagesHeld, Span
<1>6. Cardinality(PagesHeld') = Cardinality(PagesHeld) + required[t]
  BY <1>1, <1>5, PagesHeldFinite, SpanFinite, DisjointSum
<1>7. WordsHeld' = WordsHeld \cup W /\ WordsHeld \cap W = {}
  BY <1>2, <1>4 DEF WordsHeld
<1>8. IsFiniteSet(W) /\ Cardinality(W) = size[t]
  BY <1>1, WordsOf
<1>. HIDE DEF W
<1>9. /\ IsFiniteSet(WordsHeld') /\ Cardinality(WordsHeld) \in Nat
      /\ Cardinality(WordsHeld') = Cardinality(WordsHeld) + size[t]
  BY <1>7, <1>8, DisjointSum DEF CountInv
<1>10. bytesRequested' = Cardinality(WordsHeld') % Word
  <2>1. Word \in Nat \ {0}
    BY AllocatorAssumption DEF AllocatorAssumption
  <2>2. bytesRequested = Cardinality(WordsHeld) % Word
    BY DEF CountInv, CountersAgree
  <2>3. ((Cardinality(WordsHeld) % Word) + size[t]) % Word = (Cardinality(WordsHeld) + size[t]) % Word
    <3>1. Cardinality(WordsHeld) \in Int /\ size[t] \in Int
      BY <1>1, <1>9
    <3>. QED
      BY <2>1, <3>1, ModSum
  <2>. QED
    BY <1>2, <1>9, <2>2, <2>3
<1>. QED
  BY <1>2, <1>6, <1>9, <1>10 DEF CountInv, CountersAgree

(* A block less: the table tells Free the block that was granted.             *)
LEMMA FreeCounts ==
  ASSUME AllocatorInv, CountInv, ~undefined, NEW b \in live, Free(b)
  PROVE  CountInv'
<1>. DEFINE W == {b} \X (1..b.size)
            P == UNION {Span(c) : c \in live'}
            V == UNION {{c} \X (1..c.size) : c \in live'}
<1>1. /\ b \in Regions /\ b.size \in Nat /\ b.start \in Span(b) /\ table[b.start] = b
      /\ \A c \in live : \A i \in Span(c) : table[i] = c
  BY PagesInTable DEF AllocatorInv, TypeOK, Regions, Span
<1>2. /\ live' = live \ {b}
      /\ pagesUsed' = pagesUsed - (b.usedNext + 1)
      /\ bytesRequested' = (bytesRequested - b.size) % Word
  BY <1>1 DEF Free, CountOf
<1>3. P \cap Span(b) = {} /\ PagesHeld = P \cup Span(b) /\ PagesHeld' = P
  BY <1>1, <1>2 DEF PagesHeld, Span
<1>4. V \cap W = {} /\ WordsHeld = V \cup W /\ WordsHeld' = V
  BY <1>2 DEF WordsHeld
<1>5. IsFiniteSet(W) /\ Cardinality(W) = b.size
  BY <1>1, WordsOf
<1>. HIDE DEF P, V, W
<1>6. pagesUsed' = Cardinality(PagesHeld')
  <2>1. IsFiniteSet(P)
    BY <1>3, PagesHeldFinite, FS_Subset
  <2>2. Cardinality(PagesHeld) = Cardinality(P) + (b.usedNext + 1) /\ Cardinality(P) \in Nat
    <3>1. IsFiniteSet(Span(b)) /\ Cardinality(Span(b)) = b.usedNext + 1
      BY <1>1, SpanFinite
    <3>. QED
      BY <1>3, <2>1, <3>1, DisjointSum
  <2>3. b.usedNext \in Nat
    BY <1>1 DEF Regions
  <2>. QED
    BY <1>2, <1>3, <2>2, <2>3 DEF CountInv, CountersAgree
<1>7. IsFiniteSet(V)
  BY <1>4, FS_Subset DEF CountInv
<1>8. Cardinality(WordsHeld) = Cardinality(V) + b.size /\ Cardinality(V) \in Nat
  BY <1>4, <1>5, <1>7, DisjointSum
<1>9. bytesRequested' = Cardinality(V) % Word
  <2>1. Word \in Nat \ {0}
    BY AllocatorAssumption DEF AllocatorAssumption
  <2>2. bytesRequested = Cardinality(WordsHeld) % Word
    BY DEF CountInv, CountersAgree
  <2>. DEFINE less == 0 - b.size
  <2>3. /\ less \in Int /\ bytesRequested - b.size = bytesRequested + less
        /\ Cardinality(WordsHeld) + less = Cardinality(V)
    BY <1>1, <1>8 DEF AllocatorInv, TypeOK
  <2>. HIDE DEF less
  <2>4. ((Cardinality(WordsHeld) % Word) + less) % Word = (Cardinality(WordsHeld) + less) % Word
    <3>1. Cardinality(WordsHeld) \in Int
      BY <1>1, <1>8
    <3>. QED
      BY <2>1, <2>3, <3>1, ModSum
  <2>. QED
    BY <1>2, <2>2, <2>3, <2>4
<1>. QED
  BY <1>4, <1>6, <1>7, <1>9 DEF CountInv, CountersAgree

LEMMA CountInit == Init => CountInv
<1>1. Word \in Nat \ {0} /\ 0 % Word = 0
  BY AllocatorAssumption, WordBounds DEF AllocatorAssumption
<1>2. Init => PagesHeld = {} /\ WordsHeld = {}
  BY DEF Init, PagesHeld, WordsHeld
<1>. QED
  BY <1>1, <1>2, FS_EmptySet DEF Init, CountInv, CountersAgree

LEMMA CountNext == AllocatorInv /\ CountInv /\ [Next]_vars => CountInv'
<1>. SUFFICES ASSUME AllocatorInv, CountInv, [Next]_vars PROVE CountInv'
  OBVIOUS
<1>1. CASE UNCHANGED <<live, pagesUsed, bytesRequested>>
  BY <1>1 DEF CountInv, CountersAgree, PagesHeld, WordsHeld, Span
<1>2. CASE FreePool
  <2>1. Word \in Nat \ {0} /\ 0 % Word = 0
    BY AllocatorAssumption, WordBounds DEF AllocatorAssumption
  <2>2. PagesHeld' = {} /\ WordsHeld' = {}
    BY <1>2 DEF FreePool, PagesHeld, WordsHeld
  <2>. QED
    BY <1>2, <2>1, <2>2, FS_EmptySet DEF FreePool, CountInv, CountersAgree
<1>3. CASE Next /\ \E t \in Threads : Grant(t)
  BY <1>3, GrantCounts DEF Next
<1>4. CASE Next /\ \E b \in live : Free(b)
  BY <1>4, FreeCounts DEF Next
<1>5. ASSUME Next, ~FreePool, ~\E t \in Threads : Grant(t), ~\E b \in live : Free(b)
      PROVE  UNCHANGED <<live, pagesUsed, bytesRequested>>
  <2>1. CASE \E n \in PoolSizes : AllocatePool(n) \/ AttachPool(n)
    BY <2>1 DEF AllocatePool, AttachPool, ConstructPool, pastVars
  <2>2. CASE \E n \in PageSizes : SetPageSize(n)
    BY <2>2 DEF SetPageSize, tableVars, pastVars
  <2>3. CASE \E t \in Threads :
               ReadPool(t) \/ ReadPageSize(t) \/ Lock(t) \/ \E n \in Sizes : StartAllocate(t, n)
    BY <2>3 DEF ReadPool, ReadPageSize, Lock, StartAllocate, tableVars, pastVars
  <2>4. CASE ScanStep
    BY <1>5, <2>4 DEF ScanStep, SkipRegion, SkipRun, StalePages, NotFound, tableVars, pastVars
  <2>. QED
    BY <1>5, <2>1, <2>2, <2>3, <2>4 DEF Next
<1>. QED
  BY <1>1, <1>2, <1>3, <1>4, <1>5 DEF vars, tableVars, pastVars

(* m_PagesUsed and m_BytesRequested are those of the blocks that are held,     *)
(* after any sequence of calls by any threads (Allocate, Free) up to the     *)
(* first that overruns the pool.                                             *)
THEOREM CountersCorrect == Spec => []CountersAgree
<1>1. CountInv => CountersAgree
  BY DEF CountInv
<1>. QED
  BY <1>1, AllocatorInit, AllocatorNext, CountInit, CountNext, PTL DEF Spec
================================================================================
