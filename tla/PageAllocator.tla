------------------------------ MODULE PageAllocator -----------------------------
(***************************************************************************)
(* StupidMemoryAllocator: a pool cut into pages, a table that points each    *)
(* page of a block to the block's RegionInfo, and a hint where the first     *)
(* free page may be. Threads allocate and free under m_Lock, but Allocate    *)
(* reads the size of the region, the table's address and the page size       *)
(* before it takes the lock.                                                *)
(*                                                                         *)
(* Sizes are counted in words. A block is its RegionInfo; the page it starts *)
(* at stands for its address. A block granted past the end of the table or    *)
(* the buffer, which the code does not refuse, is one that its client holds, *)
(* but the writes past the end are undefined behaviour, and so is any access  *)
(* through an address the pool no longer has: they set `undefined', and      *)
(* nothing follows. A failed call that changes nothing, an alignment among   *)
(* them, is left out.                                                       *)
(***************************************************************************)
EXTENDS Integers, FiniteSets

CONSTANTS Threads, Null,
          Addresses,        \* where a pool may be
          RegionInfoSize, PageInfoSize,
          PoolSizes, PageSizes, Sizes,  \* what clients ask for
          Word              \* the number of values of a size_t

Regions == [start : Nat, size : Nat, usedNext : Nat]    \* RegionInfo

ASSUME AllocatorAssumption ==
  /\ Null \notin Threads \cup Addresses \cup Regions
  /\ RegionInfoSize \in Nat \ {0} /\ PageInfoSize \in Nat \ {0}
  /\ PoolSizes \subseteq Nat /\ PageSizes \subseteq Nat /\ Sizes \subseteq Nat \ {0}
  /\ Word \in Nat \ {0}

VARIABLES
  pool,             \* m_Pool
  attached,         \* m_PoolAttached
  regionSize,       \* m_RegionSize
  pageSize, pageCount,  \* m_PageSize and m_PageCount
  table,            \* the PageInfo of each page
  firstFree,        \* m_FirstFreePage
  pagesUsed, bytesRequested,  \* m_PagesUsed and m_BytesRequested
  lock, index,      \* who scans the table under m_Lock, and where
  pc,               \* where each thread is in Allocate
  size, pages, required,  \* what it was asked for and what it has read
  live,             \* history: the blocks clients hold
  outdated,         \* history: the threads that read before the pool was freed
  mixed,            \* history: one of them was given a block of a later pool
  undefined         \* the behaviour of the program is undefined from here on

poolVars == <<pool, attached, regionSize, pageCount>>
tableVars == <<table, firstFree, pagesUsed, bytesRequested>>
callVars == <<pc, size, pages, required>>
scanVars == <<lock, index>>
pastVars == <<live, outdated, mixed>>
vars == <<poolVars, pageSize, tableVars, scanVars, callVars, pastVars, undefined>>

Init ==
  /\ pool = Null /\ attached = FALSE /\ regionSize = 0 /\ pageCount = 0
  /\ pageSize = RegionInfoSize
  /\ table = <<>> /\ firstFree = 0 /\ pagesUsed = 0 /\ bytesRequested = 0
  /\ lock = Null /\ index = 0
  /\ pc = [t \in Threads |-> "idle"]
  /\ size = [t \in Threads |-> 0]
  /\ pages = [t \in Threads |-> Null]
  /\ required = [t \in Threads |-> 0]
  /\ live = {} /\ outdated = {} /\ mixed = FALSE
  /\ undefined = FALSE

Pages == 0..(pageCount - 1)
Span(b) == b.start..(b.start + b.usedNext)

(* The sum wraps around.                                                     *)
Actual(n) == (n + RegionInfoSize) % Word

--------------------------------------------------------------------------------
(* The pool.                                                                 *)

CountPages(n) == n \div pageSize
ControlTableSize(n) == PageInfoSize * CountPages(n)

ConstructPool(n, region) ==
  /\ lock = Null
  /\ pool = Null
  /\ CountPages(n) # 0
  /\ pool' \in Addresses
  /\ regionSize' = region
  /\ pageCount' = CountPages(n)
  /\ table' = [i \in 0..(CountPages(n) - 1) |-> Null]
  /\ UNCHANGED <<pageSize, firstFree, pagesUsed, bytesRequested, scanVars, callVars, pastVars,
                 undefined>>

AllocatePool(n) ==
  /\ attached' = FALSE
  /\ ConstructPool(n, n)

AttachAnySize(n) ==                                                \* (variant)
  /\ attached' = TRUE
  /\ ConstructPool(n, n - ControlTableSize(n))
AttachPool(n) ==
  /\ n >= ControlTableSize(n) + pageSize
  /\ attached' = TRUE
  /\ ConstructPool(n, n - ControlTableSize(n))

FreePool ==
  /\ lock = Null
  /\ pool # Null
  /\ pool' = Null /\ attached' = FALSE /\ regionSize' = 0 /\ pageCount' = 0
  /\ table' = <<>> /\ firstFree' = 0 /\ pagesUsed' = 0 /\ bytesRequested' = 0
  /\ live' = {} /\ mixed' = FALSE
  /\ outdated' = {t \in Threads : pc[t] # "idle"}
  /\ UNCHANGED <<pageSize, scanVars, callVars, undefined>>

SetPageSize(n) ==
  /\ lock = Null
  /\ pool = Null
  /\ pageSize' = IF n > RegionInfoSize THEN n ELSE RegionInfoSize
  /\ UNCHANGED <<poolVars, tableVars, scanVars, callVars, pastVars, undefined>>

--------------------------------------------------------------------------------
(* Allocate, before the lock.                                                *)

Goto(t, where) == pc' = [pc EXCEPT ![t] = where]

StartAllocate(t, n) ==
  /\ pc[t] = "idle"
  /\ Actual(n) <= regionSize
  /\ size' = [size EXCEPT ![t] = n]
  /\ Goto(t, "pool")
  /\ outdated' = outdated \ {t}
  /\ UNCHANGED <<poolVars, pageSize, tableVars, scanVars, pages, required, live, mixed, undefined>>

ReadPool(t) ==
  /\ pc[t] = "pool"
  /\ pages' = [pages EXCEPT ![t] = pool]
  /\ Goto(t, "pages")
  /\ UNCHANGED <<poolVars, pageSize, tableVars, scanVars, size, required, pastVars, undefined>>

ReadPageSize(t) ==
  /\ pc[t] = "pages"
  /\ required' = [required EXCEPT ![t] = Actual(size[t]) \div pageSize + 1]
  /\ Goto(t, "lock")
  /\ UNCHANGED <<poolVars, pageSize, tableVars, scanVars, size, pages, pastVars, undefined>>

Lock(t) ==
  /\ pc[t] = "lock"
  /\ lock = Null
  /\ lock' = t /\ index' = firstFree
  /\ Goto(t, "scan")
  /\ UNCHANGED <<poolVars, pageSize, tableVars, size, pages, required, pastVars, undefined>>

--------------------------------------------------------------------------------
(* Its loop over the table, an iteration at a time.                          *)

Scans(t) == lock = t /\ index < pageCount /\ pages[t] = pool

(* The pages after the index that the block would have, as far as the loop    *)
(* looks: not past the last page.                                            *)
RestButLast(t) ==                                                  \* (variant)
  {i \in (index + 1)..(index + required[t] - 2) : i < pageCount}
RestOfRun(t) == {i \in (index + 1)..(index + required[t] - 1) : i < pageCount}
UsedInRun(t) == {i \in RestOfRun(t) : table[i] # Null}

Return(t) ==
  /\ lock' = Null /\ index' = 0
  /\ Goto(t, "idle")
  /\ size' = [size EXCEPT ![t] = 0]
  /\ pages' = [pages EXCEPT ![t] = Null]
  /\ required' = [required EXCEPT ![t] = 0]
  /\ UNCHANGED <<poolVars, pageSize>>

StalePages(t) ==
  /\ lock = t /\ index < pageCount /\ pages[t] # pool
  /\ undefined' = TRUE
  /\ UNCHANGED <<poolVars, pageSize, tableVars, scanVars, callVars, pastVars>>

SkipByUsedNext(t) ==                                               \* (variant)
  /\ Scans(t) /\ table[index] # Null
  /\ index' = index + table[index].usedNext
  /\ UNCHANGED <<poolVars, pageSize, tableVars, lock, callVars, pastVars, undefined>>
SkipRegion(t) ==
  /\ Scans(t) /\ table[index] # Null
  /\ index' = index + (IF table[index].usedNext > 1 THEN table[index].usedNext ELSE 1)
  /\ UNCHANGED <<poolVars, pageSize, tableVars, lock, callVars, pastVars, undefined>>

SkipRun(t) ==
  /\ Scans(t) /\ table[index] = Null
  /\ \E i \in UsedInRun(t) :
       /\ \A j \in UsedInRun(t) : i <= j
       /\ index' = i
  /\ UNCHANGED <<poolVars, pageSize, tableVars, lock, callVars, pastVars, undefined>>

(* Nothing fails when the scan stops at the last page: a block that needs     *)
(* more pages than are left is granted all the same, and the table written    *)
(* past its end. In an attached pool, whose region has no room for all its   *)
(* pages, the RegionInfo itself may be written past the buffer.              *)
Overruns(t) ==
  \/ index + required[t] > pageCount
  \/ index * pageSize + RegionInfoSize > regionSize

NewRegion(t) == [start |-> index, size |-> size[t], usedNext |-> required[t] - 1]

Grant(t) ==
  /\ Scans(t) /\ table[index] = Null
  /\ UsedInRun(t) = {}
  /\ table' = [i \in Pages |-> IF i \in Span(NewRegion(t)) THEN NewRegion(t) ELSE table[i]]
  /\ firstFree' = index + required[t]
  /\ pagesUsed' = pagesUsed + required[t]
  /\ bytesRequested' = (bytesRequested + size[t]) % Word
  /\ live' = live \cup {NewRegion(t)}
  /\ mixed' = (mixed \/ t \in outdated)
  /\ undefined' = Overruns(t)
  /\ Return(t)
  /\ UNCHANGED outdated

NotFound(t) ==
  /\ lock = t /\ index >= pageCount
  /\ Return(t)
  /\ UNCHANGED <<tableVars, pastVars, undefined>>

--------------------------------------------------------------------------------

(* A client gives a block back that it holds.                                *)
CountNextOnly(r) == r.usedNext                                     \* (variant)
CountOf(r) == r.usedNext + 1

Free(b) ==
  LET r == table[b.start] IN
  /\ lock = Null
  /\ b \in live
  /\ r # Null
  /\ pagesUsed' = pagesUsed - CountOf(r)
  /\ bytesRequested' = (bytesRequested - r.size) % Word
  /\ table' = [i \in Pages |-> IF i \in b.start..(b.start + r.usedNext) THEN Null ELSE table[i]]
  /\ firstFree' = IF b.start < firstFree THEN b.start ELSE firstFree
  /\ live' = live \ {b}
  /\ UNCHANGED <<poolVars, pageSize, scanVars, callVars, outdated, mixed, undefined>>

ScanStep ==
  \E t \in Threads :
    SkipRegion(t) \/ SkipRun(t) \/ Grant(t) \/ StalePages(t) \/ NotFound(t)

Next ==
  /\ ~undefined
  /\ \/ \E n \in PoolSizes : AllocatePool(n) \/ AttachPool(n)
     \/ FreePool
     \/ \E n \in PageSizes : SetPageSize(n)
     \/ \E t \in Threads :
          ReadPool(t) \/ ReadPageSize(t) \/ Lock(t) \/ \E n \in Sizes : StartAllocate(t, n)
     \/ \E b \in live : Free(b)
     \/ ScanStep

(* The thread that holds the lock goes on.                                   *)
Spec == Init /\ [][Next]_vars /\ WF_vars(ScanStep)

--------------------------------------------------------------------------------
(* PROPERTIES                                                                *)

(* The types of the variables; without a pool there are no pages, and an      *)
(* attached buffer has room for one page at least.                           *)
TypeOK ==
  /\ pool \in Addresses \cup {Null}
  /\ attached \in BOOLEAN
  /\ regionSize \in Nat /\ pageSize \in Nat \ {0} /\ pageCount \in Nat
  /\ pool = Null => pageCount = 0 /\ regionSize = 0
  /\ pool # Null => pageCount # 0 /\ regionSize >= pageSize
  /\ table \in [Pages -> Regions \cup {Null}]
  /\ firstFree \in Nat
  /\ pagesUsed \in Int /\ bytesRequested \in 0..(Word - 1)
  /\ lock \in Threads \cup {Null} /\ index \in Nat
  /\ pc \in [Threads -> {"idle", "pool", "pages", "lock", "scan"}]
  /\ \A t \in Threads : pc[t] = "scan" <=> lock = t
  /\ size \in [Threads -> Nat] /\ required \in [Threads -> Nat]
  /\ \A t \in Threads : pc[t] \in {"lock", "scan"} => required[t] > 0
  /\ pages \in [Threads -> Addresses \cup {Null}]
  /\ live \subseteq Regions
  /\ outdated \subseteq Threads
  /\ mixed \in BOOLEAN /\ undefined \in BOOLEAN

(* No two blocks share a page, in the table or past its end.                  *)
NoSharedPage == \A b, c \in live : b # c => Span(b) \cap Span(c) = {}

(* "We allocate the region info structure at the start of the region and      *)
(* point every page info for the entire region to it" (Allocate): as far as  *)
(* the table goes, each page of a block points to it, and no other does.     *)
TableIsBlocks ==
  /\ \A b \in live : \A i \in Span(b) \cap Pages : table[i] = b
  /\ \A i \in Pages : table[i] # Null => table[i] \in live /\ i \in Span(table[i])

(* A block has the pages its size needs, unless that size wrapped around or   *)
(* its pages were counted for an earlier pool.                               *)
EnoughPages ==
  \A b \in live :
    b.size + RegionInfoSize < Word /\ ~mixed =>
      b.size + RegionInfoSize <= (b.usedNext + 1) * pageSize

(* The pages lie in the table and, in a pool that was not attached, in the    *)
(* region. This ends with the first block that is granted more pages than are *)
(* left: two allocations are enough for that (see Overruns).                 *)
PagesLieInPool ==
  undefined \/ \A b \in live :
    /\ Span(b) \subseteq Pages
    /\ ~attached => (b.start + b.usedNext + 1) * pageSize <= regionSize

(* Whatever threads allocate and free, skip and reuse, and although Allocate  *)
(* reads the pool before it locks, no two blocks share a page, the table says *)
(* whose a page is, and a block has as many as it needs, up to and including  *)
(* the first that overruns the pool; those before it lie in the pool. Nothing *)
(* is said of what follows an overrun, which the code does not prevent.      *)
BlocksAreApart ==
  /\ NoSharedPage
  /\ TableIsBlocks
  /\ EnoughPages
  /\ PagesLieInPool

(* The pages of the held blocks, and the words that were asked for.           *)
PagesHeld == UNION {Span(b) : b \in live}
WordsHeld == UNION {{b} \X (1..b.size) : b \in live}

(* m_PagesUsed and m_BytesRequested agree with the blocks that are held, the   *)
(* pages they have and the words they were asked for, although the pages of  *)
(* a block were counted before the lock and Free reads them from the table:  *)
(* up to the first block that overruns the table, which may damage what Free *)
(* reads.                                                                    *)
CountersAgree ==
  /\ pagesUsed = Cardinality(PagesHeld)
  /\ bytesRequested = Cardinality(WordsHeld) % Word

(* The loop of Allocate ends, whatever steps it takes over the table.         *)
ScanEnds == \A t \in Threads : lock = t ~> (lock # t \/ undefined)
================================================================================
