---------------------------- MODULE EventTable_proofs ---------------------------
(***************************************************************************)
(* Theorems about EventTable, for any number of threads, bindings, events   *)
(* and nested searches: bind slots never name two items, a search calls the *)
(* handlers from the newest binding to the oldest, a one-shot item handles  *)
(* one event of each thread, the table implements Bindings, and a purge     *)
(* needs a nested search to erase under an iterator.                        *)
(*                                                                         *)
(* They rest on the invariant TableInv: besides the slots the serial        *)
(* numbers ascend along the table, and, as long as no iterator dangles,     *)
(* every item below the iterator of a search is older than the last item    *)
(* that search has called. PassedInv, for the refinement, is the converse:  *)
(* the items from the iterator on are at least as new.                      *)
(***************************************************************************)
EXTENDS EventTable, SequenceLemmas

SerialsAscend ==
  /\ \A i, j \in Live : i < j => table[i].serial < table[j].serial
  /\ \A i \in Live : table[i].serial <= binds

Bounded(s) == s.at # "after" =>
  /\ s.index <= Len(table) + 1
  /\ \A i \in Live : i < s.index => table[i].serial < s.limit
  /\ s.at = "execute" => s.index <= Len(table) /\ s.limit <= MaxBinds
SearchesBounded ==
  ~dangling => \A t \in Threads : \A k \in 1..Depth(t) : Bounded(searches[t][k])

OrderInv == bindSlot <= binds /\ SlotsAscend /\ SerialsAscend
TableInv == TypeOK /\ OrderInv /\ SearchesBounded

Searches == [id : EventIDs, at : {"search", "execute", "after"},
             index : Nat \ {0}, size : Nat, nulls : Nat, slot : Nat,
             limit : 1..(MaxBinds + 1)]

--------------------------------------------------------------------------------
(* The operators of the model.                                               *)

LEMMA LastOfProperties ==
  ASSUME NEW n \in Nat, NEW S \in SUBSET (1..n), S # {}
  PROVE  LastOf(S) \in S /\ \A j \in S : j <= LastOf(S)
BY MaxIsGreatest DEF LastOf

(* What FreeBindSlot leaves is the greatest slot up to last that is in use.  *)
LEMMA FreeBindSlotProperties ==
  ASSUME NEW last \in Nat, NEW freed \in SUBSET (Nat \ {0})
  PROVE  /\ FreeBindSlot(last, freed) \in 0..last
         /\ (FreeBindSlot(last, freed) + 1)..last \subseteq freed
<1> DEFINE R == {r \in 0..last : last - r \notin freed}
<1>1. R \in SUBSET Nat /\ last \in R
  OBVIOUS
<1>2. PICK r \in R : \A y \in R : r <= y
  BY <1>1, LeastExists
<1> DEFINE n == last - r
<1>3. n \in 0..last /\ n \notin freed
  BY <1>2
<1>4. ASSUME NEW k \in (n + 1)..last
      PROVE  k \in freed
  <2>1. last - k \in 0..last /\ last - k < r /\ last - (last - k) = k
    BY <1>2, <1>3
  <2>2. ~(last - k \in R)
    <3> HIDE DEF R
    <3>. QED
      BY <1>1, <1>2, <2>1
  <2>. QED
    BY <2>1, <2>2
<1> HIDE DEF n
<1>5. \E m \in 0..last : (m + 1)..last \subseteq freed /\ m \notin freed
  BY <1>3, <1>4
<1>. QED
  BY <1>5 DEF FreeBindSlot

LEMMA FreeNoSlot ==
  ASSUME NEW last \in Nat
  PROVE  FreeBindSlot(last, {}) = last
<1>1. FreeBindSlot(last, {}) \in 0..last /\ (FreeBindSlot(last, {}) + 1)..last = {}
  BY FreeBindSlotProperties
<1>. QED
  BY <1>1

(* The live items are bound items; there are finitely many.                  *)
LEMMA LiveItems ==
  ASSUME table \in Seq(Items \cup {NullItem})
  PROVE  /\ Len(table) \in Nat /\ Live \subseteq 1..Len(table)
         /\ \A i \in Live : /\ table[i] \in Items /\ table[i].slot \in Nat \ {0}
                            /\ table[i].serial \in 1..MaxBinds
         /\ IsFiniteSet(1..Len(table)) /\ Cardinality(1..Len(table)) = Len(table)
<1>1. Len(table) \in Nat /\ \A i \in 1..Len(table) : table[i] \in Items \cup {NullItem}
  OBVIOUS
<1>2. \A i \in Live : table[i] \in Items
  BY <1>1 DEF Live, IsNull
<1>3. IsFiniteSet(1..Len(table)) /\ Cardinality(1..Len(table)) = Len(table)
  BY <1>1, FS_Interval
<1>4. \A i \in Live : table[i].slot \in Nat \ {0} /\ table[i].serial \in 1..MaxBinds
  BY <1>2 DEF Items
<1>5. Live \subseteq 1..Len(table)
  BY DEF Live
<1>. QED
  BY <1>1, <1>2, <1>3, <1>4, <1>5

(* A strictly increasing function onto a set of positions moves none of the   *)
(* positions up to i when all of them are in the set.                        *)
LEMMA AscendingKeepsPrefix ==
  ASSUME NEW n \in Nat, NEW S \in SUBSET (1..n), NEW f \in Ascending(S),
         NEW i \in 1..n, 1..i \subseteq S
  PROVE  i <= Cardinality(S) /\ \A k \in 1..Cardinality(S) : k < i => f[k] < i
<1> DEFINE c == Cardinality(S)
<1>1. IsFiniteSet(S) /\ c \in Nat /\ IsFiniteSet(1..i) /\ Cardinality(1..i) = i
  <2>1. IsFiniteSet(1..n)
    BY FS_Interval
  <2>2. IsFiniteSet(S)
    BY <2>1, FS_Subset
  <2>3. IsFiniteSet(1..i) /\ Cardinality(1..i) = i
    BY FS_Interval
  <2>. QED
    BY <2>2, <2>3, FS_CardinalityType
<1>2. i <= c
  BY <1>1, FS_Subset
<1> HIDE DEF c
<1>3. /\ f \in [1..c -> S]
      /\ \A a, b \in 1..c : a < b => f[a] < f[b]
      /\ \A a \in S : \E b \in 1..c : f[b] = a
  BY DEF Ascending, c
<1>4. PICK j \in 1..c : f[j] = i
  BY <1>3
<1>5. i <= j
  <2> SUFFICES ASSUME j < i PROVE FALSE
    BY <1>1, <1>4
  <2> DEFINE g == [a \in 1..i |-> CHOOSE b \in 1..c : f[b] = a]
  <2>1. \A a \in 1..i : g[a] \in 1..c /\ f[g[a]] = a
    BY <1>3
  <2>2. \A a \in 1..i : g[a] \in 1..j
    <3> SUFFICES ASSUME NEW a \in 1..i, j < g[a]
                 PROVE  FALSE
      BY <2>1, <1>1
    <3>1. f[j] < f[g[a]]
      BY <1>3, <2>1
    <3>. QED
      BY <3>1, <2>1, <1>4
  <2>3. g \in [1..i -> 1..j]
    BY <2>2
  <2> HIDE DEF g
  <2>4. IsFiniteSet(1..j) /\ Cardinality(1..j) < Cardinality(1..i)
    BY <1>1, FS_Interval
  <2>5. PICK x, y \in 1..i : x # y /\ g[x] = g[y]
    BY <1>1, <2>3, <2>4, FS_PigeonHole
  <2>. QED
    BY <2>1, <2>5
<1>6. \A k \in 1..c : k < i => f[k] < i
  BY <1>1, <1>3, <1>4, <1>5
<1>. QED
  BY <1>2, <1>6 DEF c

--------------------------------------------------------------------------------
(* The searches of the threads.                                              *)

Suspended == \A t \in Threads : \A k \in 1..(Depth(t) - 1) : searches[t][k].at = "execute"
Exclusive == \A t, u \in Threads : HoldsLock(t) /\ HoldsLock(u) => t = u
SearchesOK == searches \in [Threads -> Seq(Searches)] /\ Suspended /\ Exclusive

DataOK ==
  /\ table \in Seq(Items \cup {NullItem})
  /\ bindSlot \in 0..MaxBinds
  /\ dangling \in BOOLEAN
  /\ binds \in 0..MaxBinds /\ started \in 0..MaxSearches
  /\ handled \in [Threads -> SUBSET (1..MaxBinds)]

LEMMA TypeParts == TypeOK <=> DataOK /\ SearchesOK
BY DEF TypeOK, DataOK, SearchesOK, Suspended, Exclusive, Searches

OnlyOf(t) == \A u \in Threads \ {t} : searches'[u] = searches[u]

LEMMA SetTopEffect ==
  ASSUME searches \in [Threads -> Seq(Searches)], NEW t \in Threads, Depth(t) > 0,
         NEW s \in Searches, SetTop(t, s)
  PROVE  /\ searches' \in [Threads -> Seq(Searches)] /\ OnlyOf(t)
         /\ Len(searches'[t]) = Depth(t) /\ searches'[t][Depth(t)] = s
         /\ \A k \in 1..(Depth(t) - 1) : searches'[t][k] = searches[t][k]
<1> DEFINE q == searches[t]
           r == [q EXCEPT ![Len(q)] = s]
<1>1. q \in Seq(Searches) /\ Len(q) \in 1..Len(q)
  BY DEF Depth
<1>2. searches' = [searches EXCEPT ![t] = r]
  BY DEF SetTop, Depth
<1> HIDE DEF q
<1>3. /\ r \in Seq(Searches) /\ Len(r) = Len(q) /\ r[Len(q)] = s
      /\ \A k \in 1..(Len(q) - 1) : r[k] = q[k]
  BY <1>1
<1> HIDE DEF r
<1>4. searches'[t] = r /\ OnlyOf(t) /\ searches' \in [Threads -> Seq(Searches)]
  BY <1>2, <1>3 DEF OnlyOf
<1>. QED
  BY <1>3, <1>4 DEF q, Depth

LEMMA PopEffect ==
  ASSUME searches \in [Threads -> Seq(Searches)], NEW t \in Threads, Depth(t) > 0, Pop(t)
  PROVE  /\ searches' \in [Threads -> Seq(Searches)] /\ OnlyOf(t)
         /\ Len(searches'[t]) = Depth(t) - 1
         /\ \A k \in 1..(Depth(t) - 1) : searches'[t][k] = searches[t][k]
<1> DEFINE q == searches[t]
           r == SubSeq(q, 1, Len(q) - 1)
<1>1. q \in Seq(Searches) /\ Len(q) \in Nat \ {0}
  BY DEF Depth
<1>2. searches' = [searches EXCEPT ![t] = r]
  BY DEF Pop, Depth
<1> HIDE DEF q
<1>3. /\ r \in Seq(Searches) /\ Len(r) = Len(q) - 1
      /\ \A k \in 1..(Len(q) - 1) : r[k] = q[k]
  <2>1. q # <<>>
    BY <1>1
  <2>2. r = Front(q)
    BY DEF Front
  <2> HIDE DEF r
  <2>. QED
    BY <1>1, <2>1, <2>2, FrontProperties
<1> HIDE DEF r
<1>4. searches'[t] = r /\ OnlyOf(t) /\ searches' \in [Threads -> Seq(Searches)]
  BY <1>2, <1>3 DEF OnlyOf
<1>. QED
  BY <1>3, <1>4 DEF q, Depth

LEMMA PushEffect ==
  ASSUME searches \in [Threads -> Seq(Searches)], NEW t \in Threads, NEW s \in Searches,
         searches' = [searches EXCEPT ![t] = Append(@, s)]
  PROVE  /\ searches' \in [Threads -> Seq(Searches)] /\ OnlyOf(t)
         /\ Len(searches'[t]) = Depth(t) + 1 /\ searches'[t][Depth(t) + 1] = s
         /\ \A k \in 1..Depth(t) : searches'[t][k] = searches[t][k]
<1> DEFINE q == searches[t]
           r == Append(q, s)
<1>1. q \in Seq(Searches) /\ searches' = [searches EXCEPT ![t] = r]
  OBVIOUS
<1> HIDE DEF q
<1>2. /\ r \in Seq(Searches) /\ Len(r) = Len(q) + 1 /\ r[Len(q) + 1] = s
      /\ \A k \in 1..Len(q) : r[k] = q[k]
  BY <1>1
<1> HIDE DEF r
<1>3. searches'[t] = r /\ OnlyOf(t) /\ searches' \in [Threads -> Seq(Searches)]
  BY <1>1, <1>2 DEF OnlyOf
<1>. QED
  BY <1>2, <1>3 DEF q, Depth

(* A step of one thread keeps the searches in order when it holds the lock    *)
(* afterwards only if it held it or was free to take it.                     *)
LEMMA SearchesStep ==
  ASSUME SearchesOK, NEW t \in Threads, OnlyOf(t),
         searches' \in [Threads -> Seq(Searches)],
         \A k \in 1..(Len(searches'[t]) - 1) : searches'[t][k].at = "execute",
         HoldsLock(t)' => HoldsLock(t) \/ MayLock(t)
  PROVE  SearchesOK'
<1>1. \A u \in Threads \ {t} : HoldsLock(u)' <=> HoldsLock(u)
  BY DEF OnlyOf, HoldsLock
<1>2. Exclusive'
  BY <1>1 DEF SearchesOK, Exclusive, MayLock
<1>3. Suspended'
  BY DEF SearchesOK, Suspended, OnlyOf, Depth
<1>. QED
  BY <1>2, <1>3 DEF SearchesOK

--------------------------------------------------------------------------------
(* The order of the table.                                                   *)

(* An item is unbound: what stays live keeps its order, at the same positions *)
(* or moved, and its slots stay below the counter.                           *)
LEMMA UnbindKeepsOrder ==
  ASSUME DataOK, OrderInv, NEW gone \in SUBSET Live, NEW move,
         bindSlot' = FreeBindSlot(bindSlot, SlotsOf(gone)), binds' = binds,
         \A i \in Live' : move[i] \in Live \ gone /\ table'[i] = table[move[i]],
         \A i, j \in Live' : i < j => move[i] < move[j]
  PROVE  OrderInv' /\ bindSlot' \in 0..bindSlot
<1>1. /\ bindSlot \in Nat /\ binds \in Nat
      /\ \A i \in Live : /\ i \in Nat /\ table[i].slot \in Nat \ {0}
                         /\ table[i].serial \in Nat
  BY LiveItems, TableAssumption DEF DataOK
<1>2. SlotsOf(gone) \in SUBSET (Nat \ {0})
  BY <1>1 DEF SlotsOf
<1>3. bindSlot' \in 0..bindSlot /\ (bindSlot' + 1)..bindSlot \subseteq SlotsOf(gone)
  BY <1>1, <1>2, FreeBindSlotProperties
<1>4. ASSUME NEW i \in Live \ gone
      PROVE  table[i].slot \in 1..bindSlot'
  <2>1. table[i].slot \in 1..bindSlot
    BY DEF OrderInv, SlotsAscend
  <2>2. \A j \in gone : table[i].slot # table[j].slot
    <3> SUFFICES ASSUME NEW j \in gone
                 PROVE  table[i].slot # table[j].slot
      OBVIOUS
    <3>1. i < j \/ j < i
      BY <1>1
    <3>. QED
      BY <3>1, <1>1 DEF OrderInv, SlotsAscend
  <2>3. table[i].slot \notin (bindSlot' + 1)..bindSlot
    BY <1>3, <2>2 DEF SlotsOf
  <2>. QED
    BY <1>1, <1>3, <2>1, <2>3
<1>5. SlotsAscend'
  <2>1. ASSUME NEW i \in Live', NEW j \in Live', i < j
        PROVE  table'[i].slot < table'[j].slot
    BY <2>1 DEF OrderInv, SlotsAscend
  <2>. QED
    BY <1>4, <2>1 DEF SlotsAscend
<1>6. SerialsAscend'
  BY DEF OrderInv, SerialsAscend
<1>7. bindSlot' <= binds'
  BY <1>1, <1>3 DEF OrderInv
<1>. QED
  BY <1>3, <1>5, <1>6, <1>7 DEF OrderInv

(* The handlers of a search never run below a table with fewer items.        *)
LEMMA BoundedKept ==
  ASSUME NEW s \in Searches, Bounded(s), Len(table) \in Nat, Len(table') \in Nat,
         s.at # "after" => /\ Len(table) <= Len(table')
                           /\ \A i \in Live' : i < s.index =>
                                i \in Live /\ table'[i].serial = table[i].serial
  PROVE  Bounded(s)'
BY DEF Bounded, Searches

LEMMA SearchTypes ==
  ASSUME TableInv, NEW t \in Threads
  PROVE  /\ Depth(t) \in Nat /\ searches[t] \in Seq(Searches)
         /\ \A k \in 1..Depth(t) : searches[t][k] \in Searches
         /\ ~dangling => \A k \in 1..Depth(t) : Bounded(searches[t][k])
         /\ Depth(t) > 0 => Depth(t) \in 1..Depth(t) /\ Top(t) \in Searches
<1>1. searches[t] \in Seq(Searches)
  BY TypeParts DEF TableInv, SearchesOK
<1>2. Depth(t) \in Nat /\ \A k \in 1..Depth(t) : searches[t][k] \in Searches
  BY <1>1 DEF Depth
<1>3. Depth(t) > 0 => Depth(t) \in 1..Depth(t) /\ Top(t) \in Searches
  BY <1>2 DEF Top
<1>4. ~dangling => \A k \in 1..Depth(t) : Bounded(searches[t][k])
  BY DEF TableInv, SearchesBounded
<1>. QED
  BY <1>1, <1>2, <1>3, <1>4

(* A step that leaves the searches alone.                                    *)
LEMMA ClientStep ==
  ASSUME TableInv, DataOK', OrderInv', ~dangling, UNCHANGED searches,
         Len(table) <= Len(table'),
         \A i \in Live' : i <= Len(table) => i \in Live /\ table'[i].serial = table[i].serial
  PROVE  TableInv'
<1>1. Len(table) \in Nat /\ Len(table') \in Nat /\ \A i \in Live' : i \in Nat
  BY LiveItems, TypeParts DEF TableInv, DataOK, Live
<1>2. SearchesOK'
  BY TypeParts DEF TableInv, SearchesOK, Suspended, Exclusive, HoldsLock, Depth
<1>3. ASSUME NEW t \in Threads, NEW k \in 1..Depth(t)
      PROVE  Bounded(searches[t][k])'
  <2> DEFINE s == searches[t][k]
  <2>1. s \in Searches /\ Bounded(s) /\ s' = s
    BY SearchTypes
  <2> HIDE DEF s
  <2>2. s.at # "after" => \A i \in Live' : i < s.index => i <= Len(table)
    BY <1>1, <2>1 DEF Bounded, Searches
  <2>3. Bounded(s)'
    BY <1>1, <2>1, <2>2, BoundedKept
  <2>. QED
    BY <2>1, <2>3 DEF s
<1>4. SearchesBounded'
  BY <1>3 DEF SearchesBounded, Depth
<1>5. TypeOK'
  BY <1>2, TypeParts DEF TypeOK, DataOK, SearchesOK, Suspended, Exclusive, Searches
<1>. QED
  BY <1>4, <1>5 DEF TableInv

LEMMA BindStep ==
  ASSUME TableInv, NEW t \in Threads, NEW id \in EventIDs, NEW executor \in Executors,
         NEW flag \in {"none", "oneShot", "alwaysSkip"}, NEW unique \in BOOLEAN,
         Bind(t, id, executor, flag, unique)
  PROVE  TableInv'
<1> DEFINE item == [id |-> id, executor |-> executor, flag |-> flag,
                    slot |-> bindSlot + 1, serial |-> binds + 1]
<1>1. DataOK /\ OrderInv
  BY TypeParts DEF TableInv
<1>2. /\ bindSlot \in Nat /\ binds \in Nat /\ bindSlot <= binds /\ binds < MaxBinds
      /\ MaxBinds \in Nat /\ Len(table) \in Nat
  BY <1>1, LiveItems, TableAssumption DEF DataOK, OrderInv, Bind
<1>3. item \in Items
  BY <1>2 DEF Items
<1>4. table' = Append(table, item) /\ item.slot = bindSlot + 1 /\ item.serial = binds + 1
  BY DEF Bind
<1> HIDE DEF item
<1>5. /\ table' \in Seq(Items \cup {NullItem}) /\ Len(table') = Len(table) + 1
      /\ \A i \in 1..Len(table) : table'[i] = table[i]
      /\ table'[Len(table) + 1] = item
  BY <1>1, <1>3, <1>4 DEF DataOK
<1>6. /\ Live' \subseteq Live \cup {Len(table) + 1}
      /\ \A i \in Live' : i <= Len(table) => i \in Live /\ table'[i] = table[i]
      /\ \A i \in Live : i \in 1..Len(table)
  BY <1>2, <1>5 DEF Live
<1>7. DataOK'
  BY <1>1, <1>2, <1>5 DEF DataOK, Bind
<1>8. \A i \in Live : /\ table[i].slot \in Nat /\ table[i].slot <= bindSlot
                      /\ table[i].serial \in Nat /\ table[i].serial <= binds
  BY <1>1, LiveItems DEF DataOK, OrderInv, SlotsAscend, SerialsAscend
<1>9. OrderInv'
  <2>1. bindSlot' = bindSlot + 1 /\ binds' = binds + 1
    BY DEF Bind
  <2>2. \A i \in Live' : table'[i].slot \in 1..(bindSlot + 1) /\ table'[i].serial <= binds + 1
    <3>1. \A i \in Live : table[i].slot \in Nat \ {0}
      BY <1>1, LiveItems DEF DataOK
    <3>. QED
      BY <1>2, <1>4, <1>5, <1>6, <1>8, <3>1
  <2>3. ASSUME NEW i \in Live', NEW j \in Live', i < j
        PROVE  table'[i].slot < table'[j].slot /\ table'[i].serial < table'[j].serial
    <3>1. i \in Live /\ table'[i] = table[i]
      BY <1>2, <1>6, <2>3
    <3>2. CASE j \in Live
      BY <1>1, <1>6, <2>3, <3>1, <3>2 DEF OrderInv, SlotsAscend, SerialsAscend
    <3>3. CASE j = Len(table) + 1
      BY <1>2, <1>4, <1>5, <1>8, <3>1, <3>3
    <3>. QED
      BY <1>6, <3>2, <3>3
  <2>. QED
    BY <1>2, <2>1, <2>2, <2>3 DEF OrderInv, SlotsAscend, SerialsAscend
<1>. QED
  BY <1>2, <1>5, <1>6, <1>7, <1>9, ClientStep DEF Bind, InClient

LEMMA NulledEffect ==
  ASSUME table \in Seq(Items \cup {NullItem}), NEW S, table' = Nulled(S)
  PROVE  /\ table' \in Seq(Items \cup {NullItem}) /\ Len(table') = Len(table)
         /\ Live' = Live \ S /\ \A i \in Live' : table'[i] = table[i]
<1>1. /\ Len(table) \in Nat
      /\ table' = [i \in 1..Len(table) |-> IF i \in S THEN NullItem ELSE table[i]]
  BY DEF Nulled
<1>2. table' \in Seq(Items \cup {NullItem}) /\ Len(table') = Len(table)
  BY <1>1
<1>3. \A i \in 1..Len(table) : table'[i] = IF i \in S THEN NullItem ELSE table[i]
  BY <1>1
<1>4. Live' = Live \ S
  BY <1>2, <1>3 DEF Live, IsNull
<1>. QED
  BY <1>2, <1>3, <1>4 DEF Live

(* Some live items are unbound, the counter follows.                         *)
LEMMA NulledStep ==
  ASSUME TableInv, ~dangling, NEW items \in SUBSET Live, table' = Nulled(items),
         bindSlot' = FreeBindSlot(bindSlot, SlotsOf(items)),
         UNCHANGED <<searches, dangling, binds, started, handled>>
  PROVE  TableInv'
<1>1. DataOK /\ OrderInv
  BY TypeParts DEF TableInv
<1>2. /\ table' \in Seq(Items \cup {NullItem}) /\ Len(table') = Len(table)
      /\ Live' = Live \ items /\ \A i \in Live' : table'[i] = table[i]
  BY <1>1, NulledEffect DEF DataOK
<1> DEFINE same == [i \in Live |-> i]
<1>3. \A i \in Live' : same[i] = i
  BY <1>2
<1> HIDE DEF same
<1>4. OrderInv' /\ bindSlot' \in 0..bindSlot
  BY <1>1, <1>2, <1>3, UnbindKeepsOrder
<1>5. DataOK'
  BY <1>1, <1>2, <1>4, TableAssumption DEF DataOK
<1>. QED
  BY <1>2, <1>4, <1>5, LiveItems, <1>1, ClientStep DEF DataOK

(* Every item is unbound.                                                    *)
LEMMA NulledAllStep ==
  ASSUME TableInv, ~dangling, table' = Nulled(1..Len(table)), bindSlot' = 0,
         UNCHANGED <<searches, dangling, binds, started, handled>>
  PROVE  TableInv'
<1>1. DataOK /\ OrderInv
  BY TypeParts DEF TableInv
<1>2. /\ table' \in Seq(Items \cup {NullItem}) /\ Len(table') = Len(table) /\ Live' = {}
  BY <1>1, NulledEffect DEF DataOK, Live
<1>3. OrderInv' /\ DataOK'
  BY <1>1, <1>2, TableAssumption DEF DataOK, OrderInv, SlotsAscend, SerialsAscend
<1>. QED
  BY <1>1, <1>2, <1>3, LiveItems, ClientStep DEF DataOK

LEMMA UnbindStep ==
  ASSUME TableInv, NEW t \in Threads, NEW items,
         items \subseteq Live \/ items = 1..Len(table), UnbindItems(t, items)
  PROVE  TableInv'
<1>1. DataOK
  BY TypeParts DEF TableInv
<1>2. /\ Live \subseteq 1..Len(table)
      /\ IsFiniteSet(1..Len(table)) /\ Cardinality(1..Len(table)) = Len(table)
  BY <1>1, LiveItems DEF DataOK
<1>3. Cardinality(items) = Len(table) => items = 1..Len(table)
  BY <1>2, FS_Subset
<1>4. CASE Cardinality(items) = Len(table)
  BY <1>3, <1>4, NulledAllStep DEF UnbindItems, InClient
<1>5. CASE Cardinality(items) # Len(table)
  BY <1>2, <1>5, NulledStep DEF UnbindItems, InClient
<1>. QED
  BY <1>4, <1>5

LEMMA UnbindSlotStep ==
  ASSUME TableInv, NEW t \in Threads, NEW slot \in 1..MaxBinds, UnbindSlot(t, slot)
  PROVE  TableInv'
<1>1. Len(table) \in Nat /\ Live \subseteq 1..Len(table)
  BY LiveItems, TypeParts DEF TableInv, DataOK
<1>2. HaveSlot(slot) \subseteq Live /\ HaveSlot(slot) # {}
      /\ \A i \in HaveSlot(slot) : table[i].slot = slot
  BY DEF HaveSlot, UnbindSlot
<1>3. LastOf(HaveSlot(slot)) \in HaveSlot(slot)
  BY <1>1, <1>2, LastOfProperties
<1>4. SlotsOf({LastOf(HaveSlot(slot))}) = {slot}
  BY <1>2, <1>3 DEF SlotsOf
<1>. QED
  BY <1>2, <1>3, <1>4, NulledStep DEF UnbindSlot, InClient

--------------------------------------------------------------------------------
(* The steps of a search.                                                    *)

(* The innermost search moves on.                                            *)
LEMMA TopStep ==
  ASSUME TableInv, NEW t \in Threads, ~dangling, Depth(t) > 0,
         NEW s \in Searches, SetTop(t, s), s.at # "after" => Top(t).at # "after", Bounded(s),
         UNCHANGED <<table, bindSlot, dangling, binds, started>>,
         handled' \in [Threads -> SUBSET (1..MaxBinds)]
  PROVE  TableInv'
<1>1. /\ searches' \in [Threads -> Seq(Searches)] /\ OnlyOf(t)
      /\ Len(searches'[t]) = Depth(t) /\ searches'[t][Depth(t)] = s
      /\ \A k \in 1..(Depth(t) - 1) : searches'[t][k] = searches[t][k]
  BY SetTopEffect, TypeParts DEF TableInv, SearchesOK
<1>2. Depth(t) \in Nat /\ Depth(t) \in 1..Depth(t) /\ Top(t) \in Searches
  BY SearchTypes
<1>3. HoldsLock(t)' => HoldsLock(t)
  <2> SUFFICES ASSUME NEW k \in 1..Depth(t), searches'[t][k].at \in {"search", "execute"}
               PROVE  HoldsLock(t)
    BY <1>1 DEF HoldsLock
  <2>1. CASE k = Depth(t)
    <3>1. Top(t).at \in {"search", "execute"}
      BY <1>1, <1>2, <2>1 DEF Searches
    <3>. QED
      BY <1>2, <3>1 DEF HoldsLock, Top, Depth
  <2>2. CASE k # Depth(t)
    <3>1. k \in 1..(Depth(t) - 1)
      BY <1>2, <2>2
    <3>2. searches[t][k].at \in {"search", "execute"}
      BY <1>1, <3>1
    <3>. QED
      BY <3>2 DEF HoldsLock, Depth
  <2>. QED
    BY <2>1, <2>2
<1>4. SearchesOK'
  BY <1>1, <1>3, SearchesStep, TypeParts DEF TableInv, SearchesOK, Suspended
<1>5. ASSUME NEW u \in Threads, NEW k \in 1..Len(searches'[u])
      PROVE  Bounded(searches'[u][k])
  BY <1>1, <1>2, <1>5 DEF TableInv, SearchesBounded, OnlyOf, Depth
<1>6. SearchesBounded' /\ OrderInv' /\ DataOK'
  <2>1. ASSUME NEW u \in Threads, NEW k \in 1..Len(searches'[u])
        PROVE  Bounded(searches[u][k])'
    BY <1>5 DEF Bounded, Live
  <2>2. SearchesBounded'
    BY <2>1 DEF SearchesBounded, Depth
  <2>3. OrderInv' /\ DataOK'
    BY TypeParts DEF TableInv, OrderInv, SlotsAscend, SerialsAscend, Live, DataOK
  <2>. QED
    BY <2>2, <2>3
<1>7. TypeOK'
  BY <1>4, <1>6, TypeParts DEF TypeOK, DataOK, SearchesOK, Suspended, Exclusive, Searches
<1>. QED
  BY <1>6, <1>7 DEF TableInv

LEMMA NullsBetweenType ==
  ASSUME NEW from \in Int, NEW to \in Int
  PROVE  NullsBetween(from, to) \in Nat
<1>1. IsFiniteSet({i \in from..to : i \notin Live})
  BY FS_Interval, FS_Subset
<1>. QED
  BY <1>1, FS_CardinalityType DEF NullsBetween

LEMMA ProcessEventStep ==
  ASSUME TableInv, NEW t \in Threads, NEW id \in EventIDs, ProcessEvent(t, id)
  PROVE  TableInv'
<1> DEFINE s == [id |-> id, at |-> "search", index |-> Len(table) + 1, size |-> Len(table),
                 nulls |-> 0, slot |-> 0, limit |-> binds + 1]
<1>1. DataOK /\ OrderInv /\ SearchesOK
  BY TypeParts DEF TableInv
<1>2. Len(table) \in Nat /\ binds \in 0..MaxBinds /\ MaxBinds \in Nat
      /\ \A i \in Live : table[i].serial \in Nat /\ table[i].serial <= binds
  BY <1>1, LiveItems, TableAssumption DEF DataOK, OrderInv, SerialsAscend
<1>3. s \in Searches /\ Bounded(s) /\ searches' = [searches EXCEPT ![t] = Append(@, s)]
  BY <1>2 DEF Searches, Bounded, ProcessEvent
<1> HIDE DEF s
<1>4. /\ searches' \in [Threads -> Seq(Searches)] /\ OnlyOf(t)
      /\ Len(searches'[t]) = Depth(t) + 1 /\ searches'[t][Depth(t) + 1] = s
      /\ \A k \in 1..Depth(t) : searches'[t][k] = searches[t][k]
  BY <1>1, <1>3, PushEffect DEF SearchesOK
<1>5. Depth(t) \in Nat /\ (Depth(t) > 0 => Top(t).at = "execute")
  BY SearchTypes DEF ProcessEvent, InClient
<1>6. SearchesOK'
  <2>1. \A k \in 1..Depth(t) : searches[t][k].at = "execute"
    BY <1>1, <1>5 DEF SearchesOK, Suspended, Top
  <2>2. MayLock(t)
    BY DEF ProcessEvent
  <2>. QED
    BY <1>1, <1>4, <1>5, <2>1, <2>2, SearchesStep
<1>7. ASSUME NEW u \in Threads, NEW k \in 1..Len(searches'[u])
      PROVE  Bounded(searches[u][k])'
  <2>1. Bounded(searches'[u][k])
    <3>1. ~dangling
      BY DEF ProcessEvent, InClient
    <3>. QED
      BY <1>3, <1>4, <1>5, <1>7, <3>1 DEF TableInv, SearchesBounded, OnlyOf, Depth
  <2>. QED
    BY <2>1 DEF Bounded, Live, ProcessEvent
<1>8. SearchesBounded' /\ OrderInv' /\ DataOK'
  <2>1. started' \in 0..MaxSearches
    BY <1>1, TableAssumption DEF DataOK, ProcessEvent
  <2>2. SearchesBounded'
    BY <1>7 DEF SearchesBounded, Depth
  <2>. QED
    BY <1>1, <2>1, <2>2 DEF OrderInv, SlotsAscend, SerialsAscend, Live, DataOK, ProcessEvent
<1>. QED
  BY <1>6, <1>8, TypeParts DEF TableInv, TypeOK, DataOK, SearchesOK, Suspended, Exclusive, Searches

(* The item the search calls next is older than all it has called.            *)
LEMMA NextItem ==
  ASSUME TableInv, NEW t \in Threads, ExecuteEventHandler(t)
  PROVE  /\ LastOf(Remaining(t)) \in Live /\ LastOf(Remaining(t)) < Top(t).index
         /\ table[LastOf(Remaining(t))].serial < Top(t).limit
<1>1. Len(table) \in Nat /\ Live \subseteq 1..Len(table)
  BY LiveItems, TypeParts DEF TableInv, DataOK
<1>2. Remaining(t) \subseteq Live /\ \A i \in Remaining(t) : i < Top(t).index
  BY DEF Remaining
<1>3. LastOf(Remaining(t)) \in Remaining(t)
  BY <1>1, <1>2, LastOfProperties DEF ExecuteEventHandler
<1>4. Bounded(Top(t)) /\ Top(t).at = "search"
  BY SearchTypes DEF ExecuteEventHandler, In, Top
<1>. QED
  BY <1>2, <1>3, <1>4 DEF Bounded

(* A search that calls the item at i.                                        *)
CallAt(r, i, limit, n) ==
  [r EXCEPT !.at = "execute", !.index = i, !.limit = limit, !.nulls = n]

LEMMA CallAtType ==
  ASSUME NEW r \in Searches, NEW i \in Nat \ {0}, NEW limit \in 1..(MaxBinds + 1), NEW n \in Nat
  PROVE  /\ CallAt(r, i, limit, n) \in Searches
         /\ CallAt(r, i, limit, n).index = i /\ CallAt(r, i, limit, n).limit = limit
BY DEF Searches, CallAt

LEMMA ExecuteStep ==
  ASSUME TableInv, NEW t \in Threads, ExecuteEventHandler(t)
  PROVE  TableInv'
<1> DEFINE i == LastOf(Remaining(t))
           n == Top(t).nulls + NullsBetween(i + 1, Top(t).index - 1)
           s == CallAt(Top(t), i, table[i].serial, n)
<1>1. DataOK /\ OrderInv
  BY TypeParts DEF TableInv
<1>2. i \in Live
  BY NextItem
<1>3. i \in 1..Len(table) /\ table[i].serial \in 1..MaxBinds /\ MaxBinds \in Nat
      /\ Len(table) \in Nat
  BY <1>1, <1>2, LiveItems, TableAssumption DEF DataOK
<1>4. Top(t) \in Searches /\ Top(t).at = "search" /\ ~dangling /\ Depth(t) > 0
  BY SearchTypes DEF ExecuteEventHandler, In
<1>5. SetTop(t, s)
  BY DEF ExecuteEventHandler, CallAt
<1> HIDE DEF i
<1>6. n \in Nat
  <2>1. i + 1 \in Int /\ Top(t).index - 1 \in Int /\ Top(t).nulls \in Nat
    BY <1>3, <1>4 DEF Searches
  <2>2. NullsBetween(i + 1, Top(t).index - 1) \in Nat
    BY <2>1, NullsBetweenType
  <2>. QED
    BY <2>1, <2>2
<1> HIDE DEF n
<1>7. s \in Searches /\ s.index = i /\ s.limit = table[i].serial
  <2>1. table[i].serial \in 1..(MaxBinds + 1) /\ i \in Nat \ {0}
    BY <1>3
  <2> DEFINE limit == table[i].serial
  <2>2. Top(t) \in Searches /\ i \in Nat \ {0} /\ limit \in 1..(MaxBinds + 1) /\ n \in Nat
    BY <1>4, <1>6, <2>1
  <2> HIDE DEF limit
  <2>3. /\ CallAt(Top(t), i, limit, n) \in Searches
        /\ CallAt(Top(t), i, limit, n).index = i /\ CallAt(Top(t), i, limit, n).limit = limit
    BY <2>2, CallAtType
  <2>. QED
    BY <2>3 DEF limit
<1> HIDE DEF s
<1>8. Bounded(s)
  BY <1>1, <1>2, <1>3, <1>7 DEF Bounded, OrderInv, SerialsAscend
<1>. QED
  BY <1>1, <1>4, <1>5, <1>7, <1>8, TopStep DEF ExecuteEventHandler, DataOK

LEMMA SkipStep ==
  ASSUME TableInv, NEW t \in Threads, HandlerSkips(t)
  PROVE  TableInv'
<1> DEFINE s == [Top(t) EXCEPT !.at = "search"]
<1>1. DataOK /\ Top(t) \in Searches /\ Bounded(Top(t)) /\ Top(t).at = "execute"
  BY TypeParts, SearchTypes DEF TableInv, HandlerSkips, In, Top
<1>2. s \in Searches /\ Bounded(s)
  BY <1>1 DEF Searches, Bounded
<1>3. SetTop(t, s)
  BY DEF HandlerSkips
<1> HIDE DEF s
<1>. QED
  BY <1>1, <1>2, <1>3, TopStep DEF HandlerSkips, In, DataOK

LEMMA HandleStep ==
  ASSUME TableInv, NEW t \in Threads, HandlerHandles(t)
  PROVE  TableInv'
<1> DEFINE item == table[Top(t).index]
           s == [Top(t) EXCEPT !.at = "after", !.slot = OneShotSlot(item)]
<1>1. DataOK /\ Top(t) \in Searches /\ Bounded(Top(t)) /\ Top(t).at = "execute"
  BY TypeParts, SearchTypes DEF TableInv, HandlerHandles, In, Top
<1>2. Top(t).index \in 1..Len(table) /\ Top(t).limit \in 1..MaxBinds /\ MaxBinds \in Nat
  BY <1>1, LiveItems, TableAssumption DEF DataOK, Searches, Bounded
<1>3. item \in Items \cup {NullItem}
  BY <1>1, <1>2 DEF DataOK
<1> HIDE DEF item
<1>4. OneShotSlot(item) \in Nat
  BY <1>3 DEF OneShotSlot, Items, NullItem
<1>5. SetTop(t, s)
  BY DEF HandlerHandles, item
<1>6. s \in Searches /\ s.at = "after"
  BY <1>1, <1>4 DEF Searches
<1> HIDE DEF s
<1>7. handled' \in [Threads -> SUBSET (1..MaxBinds)]
  BY <1>1, <1>2 DEF DataOK, HandlerHandles
<1>. QED
  BY <1>5, <1>6, <1>7, TopStep DEF HandlerHandles, In, Bounded

LEMMA NobodyStep ==
  ASSUME TableInv, NEW t \in Threads, NobodyHandles(t)
  PROVE  TableInv'
<1> DEFINE n == Top(t).nulls + NullsBetween(1, Top(t).index - 1)
           s == [Top(t) EXCEPT !.at = "after", !.nulls = n]
<1>1. DataOK /\ Top(t) \in Searches
  BY TypeParts, SearchTypes DEF TableInv, NobodyHandles, In
<1>2. n \in Nat
  <2>1. 1 \in Int /\ Top(t).index - 1 \in Int /\ Top(t).nulls \in Nat
    BY <1>1 DEF Searches
  <2>2. NullsBetween(1, Top(t).index - 1) \in Nat
    BY <2>1, NullsBetweenType
  <2>. QED
    BY <2>1, <2>2
<1>3. SetTop(t, s)
  BY DEF NobodyHandles
<1> HIDE DEF n
<1>4. s \in Searches /\ s.at = "after"
  BY <1>1, <1>2 DEF Searches
<1> HIDE DEF s
<1>. QED
  BY <1>1, <1>3, <1>4, TopStep DEF NobodyHandles, In, DataOK, Bounded

(* The innermost search ends.                                                *)
LEMMA PopStep ==
  ASSUME TableInv, NEW t \in Threads, ~dangling, Depth(t) > 0, Pop(t),
         DataOK', OrderInv', UNCHANGED <<binds, started, handled>>,
         ~dangling' => \A u \in Threads : \A k \in 1..Len(searches'[u]) :
                         Bounded(searches[u][k])'
  PROVE  TableInv'
<1>1. /\ searches' \in [Threads -> Seq(Searches)] /\ OnlyOf(t)
      /\ Len(searches'[t]) = Depth(t) - 1
      /\ \A k \in 1..(Depth(t) - 1) : searches'[t][k] = searches[t][k]
  BY PopEffect, TypeParts DEF TableInv, SearchesOK
<1>2. Depth(t) \in Nat
  BY SearchTypes
<1>3. SearchesOK'
  <2>1. HoldsLock(t)' => HoldsLock(t)
    BY <1>1, <1>2 DEF HoldsLock, Depth
  <2>2. \A k \in 1..(Depth(t) - 1) : searches[t][k].at = "execute"
    BY TypeParts DEF TableInv, SearchesOK, Suspended
  <2>3. \A k \in 1..(Len(searches'[t]) - 1) : searches'[t][k].at = "execute"
    BY <1>1, <1>2, <2>2
  <2>. QED
    BY <1>1, <2>1, <2>3, SearchesStep, TypeParts DEF TableInv
<1>4. SearchesBounded'
  BY DEF SearchesBounded, Depth
<1>. QED
  BY <1>3, <1>4, TypeParts DEF TableInv, TypeOK, DataOK, SearchesOK, Suspended, Exclusive, Searches

LEMMA LeaveStep ==
  ASSUME TableInv, NEW t \in Threads, LeaveTable(t)
  PROVE  TableInv'
<1>1. DataOK' /\ OrderInv'
  BY TypeParts DEF TableInv, LeaveTable, DataOK, OrderInv, SlotsAscend, SerialsAscend, Live
<1>2. ~dangling /\ Depth(t) > 0 /\ Pop(t) /\ table' = table
  BY DEF LeaveTable, In
<1>3. /\ OnlyOf(t) /\ Len(searches'[t]) = Depth(t) - 1
      /\ \A k \in 1..(Depth(t) - 1) : searches'[t][k] = searches[t][k]
  BY <1>2, PopEffect, TypeParts DEF TableInv, SearchesOK
<1>4. ASSUME NEW u \in Threads, NEW k \in 1..Len(searches'[u])
      PROVE  Bounded(searches[u][k])'
  <2>1. k \in 1..Depth(u) /\ searches'[u][k] = searches[u][k]
    BY <1>3, SearchTypes DEF OnlyOf, Depth
  <2>2. Bounded(searches[u][k])
    BY <1>2, <2>1, SearchTypes
  <2>. QED
    BY <1>2, <2>1, <2>2 DEF Bounded, Live
<1>. QED
  BY <1>1, <1>2, <1>4, PopStep DEF LeaveTable

LEMMA OneShotItemEffect ==
  ASSUME TableInv, NEW t \in Threads
  PROVE  /\ OneShotItem(t) \subseteq Live /\ Kept(t) \subseteq Live
         /\ IsFiniteSet(Kept(t)) /\ Cardinality(Kept(t)) \in Nat
         /\ Top(t).nulls \in Nat /\ NullCount(t) = 0 => OneShotItem(t) = {}
<1>1. Len(table) \in Nat /\ Live \subseteq 1..Len(table) /\ IsFiniteSet(1..Len(table))
  BY LiveItems, TypeParts DEF TableInv, DataOK
<1>2. HaveSlot(Top(t).slot) \subseteq Live
  BY DEF HaveSlot
<1>3. OneShotItem(t) \subseteq Live
  BY <1>1, <1>2, LastOfProperties DEF OneShotItem
<1>4. Kept(t) \subseteq Live
  BY DEF Kept
<1>5. IsFiniteSet(Kept(t)) /\ IsFiniteSet(OneShotItem(t))
  BY <1>1, <1>3, <1>4, FS_Subset
<1>6. Cardinality(Kept(t)) \in Nat /\ Cardinality(OneShotItem(t)) \in Nat
  BY <1>5, FS_CardinalityType
<1>7. Top(t).nulls \in Nat /\ NullCount(t) = 0 => Cardinality(OneShotItem(t)) = 0
  BY <1>6 DEF NullCount
<1>. QED
  BY <1>3, <1>4, <1>5, <1>6, <1>7, FS_EmptySet

(* What purging does to the table and to the searches that go on.             *)
LEMMA RemoveNullsEffect ==
  ASSUME TableInv, NEW t \in Threads, NEW f \in Ascending(Kept(t)),
         table' = [i \in 1..Cardinality(Kept(t)) |-> table[f[i]]]
  PROVE  /\ table' \in Seq(Items \cup {NullItem}) /\ Len(table') = Cardinality(Kept(t))
         /\ Live' \subseteq 1..Cardinality(Kept(t))
         /\ \A i \in 1..Cardinality(Kept(t)) : f[i] \in Kept(t) /\ table'[i] = table[f[i]]
         /\ \A i, j \in 1..Cardinality(Kept(t)) : i < j => f[i] < f[j]
<1> DEFINE c == Cardinality(Kept(t))
<1>1. c \in Nat /\ Kept(t) \subseteq Live
  BY OneShotItemEffect
<1>2. f \in [1..c -> Kept(t)] /\ \A i, j \in 1..c : i < j => f[i] < f[j]
  BY DEF Ascending
<1> HIDE DEF c
<1>3. \A i \in 1..c : f[i] \in Kept(t) /\ table[f[i]] \in Items
  BY <1>1, <1>2, LiveItems, TypeParts DEF TableInv, DataOK
<1>4. table' = [i \in 1..c |-> table[f[i]]]
  BY DEF c
<1>5. table' \in Seq(Items \cup {NullItem}) /\ Len(table') = c
      /\ \A i \in 1..c : table'[i] = table[f[i]]
  <2> DEFINE q == [i \in 1..c |-> table[f[i]]]
  <2>1. q \in [1..c -> Items \cup {NullItem}]
    BY <1>3
  <2>2. q \in Seq(Items \cup {NullItem}) /\ Len(q) = c /\ \A i \in 1..c : q[i] = table[f[i]]
    BY <1>1, <2>1
  <2>. QED
    BY <1>4, <2>2
<1>6. Live' \subseteq 1..c
  BY <1>5 DEF Live
<1>. QED
  BY <1>2, <1>3, <1>5, <1>6 DEF c

LEMMA PurgeStep ==
  ASSUME TableInv, NEW t \in Threads, Purge(t)
  PROVE  TableInv'
<1>1. DataOK /\ OrderInv /\ SearchesOK
  BY TypeParts DEF TableInv
<1>2. ~dangling /\ Depth(t) > 0 /\ Pop(t) /\ MayLock(t)
      /\ bindSlot' = FreeBindSlot(bindSlot, SlotsOf(OneShotItem(t)))
      /\ UNCHANGED <<binds, started, handled>>
  BY DEF Purge, In
<1>3. /\ OneShotItem(t) \subseteq Live /\ Kept(t) = Live \ OneShotItem(t)
      /\ Top(t).nulls \in Nat /\ Depth(t) \in Nat
  BY OneShotItemEffect, SearchTypes, <1>2 DEF Searches, Kept
<1>4. /\ OnlyOf(t) /\ Len(searches'[t]) = Depth(t) - 1
      /\ \A k \in 1..(Depth(t) - 1) : searches'[t][k] = searches[t][k]
  BY <1>1, <1>2, PopEffect DEF SearchesOK
<1>5. dangling' \in BOOLEAN
  BY DEF Purge
<1>6. ASSUME NEW u \in Threads, u # t, NEW k \in 1..Len(searches'[u])
      PROVE  Bounded(searches[u][k])'
  <2>1. k \in 1..Len(searches[u]) /\ searches'[u][k] = searches[u][k]
    BY <1>4, <1>6 DEF OnlyOf
  <2>2. searches[u][k].at = "after"
    <3>1. searches[u][k].at \notin {"search", "execute"}
      BY <1>2, <1>6, <2>1 DEF MayLock, HoldsLock
    <3>2. searches[u][k] \in Searches
      BY <2>1, SearchTypes DEF Depth
    <3>. QED
      BY <3>1, <3>2 DEF Searches
  <2>. QED
    BY <2>1, <2>2 DEF Bounded
<1>7. CASE NullCount(t) = 0
  <2>1. OneShotItem(t) = {} /\ table' = table
    BY <1>3, <1>7, OneShotItemEffect DEF Purge
  <2>2. bindSlot' = bindSlot
    <3>1. SlotsOf(OneShotItem(t)) = {} /\ bindSlot \in Nat
      BY <1>1, <2>1, TableAssumption DEF SlotsOf, DataOK
    <3>. QED
      BY <1>2, <3>1, FreeNoSlot
  <2>3. DataOK' /\ OrderInv'
    BY <1>1, <1>2, <1>5, <2>1, <2>2 DEF DataOK, OrderInv, SlotsAscend, SerialsAscend, Live
  <2>4. ASSUME NEW u \in Threads, NEW k \in 1..Len(searches'[u])
        PROVE  Bounded(searches[u][k])'
    <3>1. k \in 1..Depth(u) /\ searches'[u][k] = searches[u][k]
      BY <1>3, <1>4 DEF OnlyOf, Depth
    <3>2. Bounded(searches[u][k])
      BY <1>2, <3>1, SearchTypes
    <3>. QED
      BY <2>1, <3>1, <3>2 DEF Bounded, Live
  <2>. QED
    BY <1>2, <2>3, <2>4, PopStep
<1>8. CASE NullCount(t) # 0
  <2>1. PICK f \in Ascending(Kept(t)) :
          table' = [i \in 1..Cardinality(Kept(t)) |-> table[f[i]]]
    BY <1>8 DEF Purge, RemoveNulls
  <2> DEFINE c == Cardinality(Kept(t))
  <2>2. /\ table' \in Seq(Items \cup {NullItem}) /\ Len(table') = c /\ Live' \subseteq 1..c
        /\ \A i \in 1..c : f[i] \in Kept(t) /\ table'[i] = table[f[i]]
        /\ \A i, j \in 1..c : i < j => f[i] < f[j]
    BY <2>1, RemoveNullsEffect
  <2>3. c \in Nat
    BY OneShotItemEffect
  <2> HIDE DEF c
  <2>4. OrderInv' /\ bindSlot' \in 0..bindSlot
    <3>1. \A i \in Live' : f[i] \in Live \ OneShotItem(t) /\ table'[i] = table[f[i]]
      BY <1>3, <2>2
    <3>2. \A i, j \in Live' : i < j => f[i] < f[j]
      BY <2>2
    <3>. QED
      BY <1>1, <1>2, <1>3, <3>1, <3>2, UnbindKeepsOrder
  <2>5. DataOK'
    BY <1>1, <1>2, <1>5, <2>2, <2>4, TableAssumption DEF DataOK
  <2>6. ASSUME ~dangling', NEW k \in 1..Len(searches'[t])
        PROVE  Bounded(searches[t][k])'
    <3> DEFINE s == searches[t][k]
    <3>1. k \in 1..(Depth(t) - 1) /\ searches'[t][k] = s
      BY <1>3, <1>4
    <3>2. s \in Searches /\ s.at = "execute" /\ Bounded(s)
      BY <1>1, <1>2, <1>3, <3>1, SearchTypes DEF SearchesOK, Suspended
    <3>3. \A i \in (1..Len(table)) \ Kept(t) : ~(i <= s.index)
      BY <1>8, <2>6, <3>1 DEF Purge
    <3> HIDE DEF s
    <3>4. Len(table) \in Nat /\ s.index \in 1..Len(table) /\ Kept(t) \subseteq 1..Len(table)
      BY <1>1, <1>3, <3>2, LiveItems DEF DataOK, Bounded, Searches
    <3>5. 1..s.index \subseteq Kept(t)
      BY <3>3, <3>4
    <3>6. s.index <= c /\ \A i \in 1..c : i < s.index => f[i] < s.index
      BY <3>4, <3>5, AscendingKeepsPrefix DEF c
    <3>7. \A i \in Live' : i < s.index => table'[i].serial < s.limit
      BY <1>3, <2>2, <3>2, <3>6 DEF Bounded
    <3>8. s.index <= Len(table') /\ s.index <= Len(table') + 1 /\ s.limit <= MaxBinds
      BY <2>2, <2>3, <3>2, <3>4, <3>6 DEF Bounded
    <3>. QED
      BY <3>1, <3>7, <3>8 DEF Bounded
  <2>7. ~dangling' => \A u \in Threads : \A k \in 1..Len(searches'[u]) :
                        Bounded(searches[u][k])'
    BY <1>6, <2>6
  <2>. QED
    BY <1>2, <2>4, <2>5, <2>7, PopStep
<1>. QED
  BY <1>7, <1>8

--------------------------------------------------------------------------------

LEMMA TableInit == Init => TableInv
<1> SUFFICES ASSUME Init PROVE TableInv
  OBVIOUS
<1>1. Live = {} /\ \A t \in Threads : searches[t] = <<>>
  BY DEF Init, Live
<1>2. DataOK
  <2>1. 0 \in 0..MaxBinds /\ 0 \in 0..MaxSearches
    BY TableAssumption
  <2>2. table \in Seq(Items \cup {NullItem}) /\ handled \in [Threads -> SUBSET (1..MaxBinds)]
    BY DEF Init
  <2>. QED
    BY <2>1, <2>2 DEF Init, DataOK
<1>3. SearchesOK
  <2>1. searches \in [Threads -> Seq(Searches)]
    BY DEF Init
  <2>2. \A t \in Threads : Depth(t) = 0 /\ ~HoldsLock(t)
    BY <1>1 DEF Depth, HoldsLock
  <2>. QED
    BY <2>1, <2>2 DEF SearchesOK, Suspended, Exclusive
<1>4. OrderInv
  BY <1>1 DEF Init, OrderInv, SlotsAscend, SerialsAscend
<1>5. SearchesBounded
  BY <1>1 DEF SearchesBounded, Depth
<1>. QED
  BY <1>2, <1>3, <1>4, <1>5, TypeParts DEF TableInv

LEMMA TableStep == TableInv /\ [Next]_vars => TableInv'
<1> SUFFICES ASSUME TableInv, [Next]_vars PROVE TableInv'
  OBVIOUS
<1>1. CASE UNCHANGED vars
  BY <1>1 DEF vars, TableInv, TypeOK, OrderInv, SlotsAscend, SerialsAscend, SearchesBounded,
              Bounded, Live, Depth, HoldsLock
<1>2. ASSUME NEW t \in Threads, NEW id \in EventIDs, NEW executor \in Executors,
             \/ \E flag \in {"none", "oneShot", "alwaysSkip"}, unique \in BOOLEAN :
                  Bind(t, id, executor, flag, unique)
             \/ Unbind(t, id, executor)
      PROVE  TableInv'
  <2>1. CASE Unbind(t, id, executor)
    BY <2>1, UnbindStep DEF Unbind
  <2>. QED
    BY <1>2, <2>1, BindStep
<1>3. ASSUME NEW t \in Threads, NEW id \in EventIDs, UnbindID(t, id) \/ ProcessEvent(t, id)
      PROVE  TableInv'
  <2>1. CASE UnbindID(t, id)
    BY <2>1, UnbindStep DEF UnbindID
  <2>. QED
    BY <1>3, <2>1, ProcessEventStep
<1>4. ASSUME NEW t \in Threads, UnbindAll(t)
      PROVE  TableInv'
  BY <1>4, UnbindStep DEF UnbindAll
<1>5. ASSUME NEW t \in Threads, SearchStep(t)
      PROVE  TableInv'
  BY <1>5, ExecuteStep, SkipStep, HandleStep, NobodyStep, LeaveStep, PurgeStep DEF SearchStep
<1>. QED
  BY <1>1, <1>2, <1>3, <1>4, <1>5, UnbindSlotStep DEF Next

LEMMA TableHolds == Spec => []TableInv
BY TableInit, TableStep, PTL DEF Spec

(* The types of the variables, the exclusive lock (EvtHandler.cpp,            *)
(* m_EventTableLock) and the nesting of searches, for any constants.          *)
THEOREM TableTypeCorrect == Spec => []TypeOK
<1>1. TableInv => TypeOK
  BY DEF TableInv
<1>. QED
  BY <1>1, TableHolds, PTL

(* Bind slots ascend along the table, so UnbindSlot unbinds one item, however *)
(* slots were handed back by FreeBindSlot and used again.                    *)
THEOREM SlotsNeverNameTwoItems == Spec => []SlotsAscend
<1>1. TableInv => SlotsAscend
  BY DEF TableInv, OrderInv
<1>. QED
  BY <1>1, TableHolds, PTL

(* SearchEventTable calls the handlers of an event from the newest binding to *)
(* the oldest, whatever they bind, unbind and dispatch meanwhile.            *)
THEOREM SearchesGoNewestFirst == Spec => NewestFirst
<1>1. TableInv => [\A t \in Threads : ExecuteEventHandler(t) =>
                     table[LastOf(Remaining(t))].serial < Top(t).limit]_vars
  BY NextItem
<1>. QED
  BY <1>1, TableHolds, PTL DEF NewestFirst

--------------------------------------------------------------------------------
(* A one-shot item handles one event of each thread: from the return of its   *)
(* handler until its item is unbound the thread is in the same search, which *)
(* knows the item by its slot, and slots never name two items.               *)

(* The item at the iterator is the binding that was called, or was unbound.   *)
Called(s) == s.at = "execute" =>
  /\ s.limit <= binds
  /\ \A i \in Live : table[i].serial = s.limit <=> i = s.index

Unspent(t, i) == table[i].flag = "oneShot" => table[i].serial \notin handled[t]
AboutToUnbind(t, i) == Depth(t) > 0 /\ Top(t).at = "after" /\ Top(t).slot = table[i].slot

OneShotInv ==
  /\ \A t \in Threads : \A n \in handled[t] : n <= binds
  /\ ~dangling => \A t \in Threads :
       /\ \A k \in 1..Depth(t) : Called(searches[t][k])
       /\ \A i \in Live : Unspent(t, i) \/ AboutToUnbind(t, i)

(* A step of client code: bindings go, new ones come last.                   *)
LEMMA OneShotClient ==
  ASSUME TableInv, OneShotInv, ~dangling, UNCHANGED <<searches, handled>>,
         binds' \in Nat, binds <= binds',
         \A i \in Live' : \/ i \in Live /\ table'[i] = table[i]
                          \/ i > Len(table) /\ table'[i].serial = binds + 1,
         Len(table) \in Nat
  PROVE  OneShotInv'
<1>1. binds \in Nat /\ \A t \in Threads : \A n \in handled[t] : n \in Nat /\ n <= binds
  BY TypeParts, TableAssumption DEF TableInv, DataOK, OneShotInv
<1>2. ASSUME NEW t \in Threads, NEW k \in 1..Depth(t)
      PROVE  Called(searches[t][k])'
  <2> DEFINE s == searches[t][k]
  <2>1. Called(s) /\ Bounded(s) /\ s \in Searches
    BY SearchTypes DEF OneShotInv
  <2>2. s' = s
    OBVIOUS
  <2> HIDE DEF s
  <2>3. CASE s.at = "execute"
    <3>1. s.limit \in Nat /\ s.limit <= binds /\ s.index \in Nat /\ s.index <= Len(table)
      BY <2>1, <2>3 DEF Called, Bounded, Searches
    <3>2. \A i \in Live' : table'[i].serial = s.limit <=> i = s.index
      BY <1>1, <2>1, <2>3, <3>1 DEF Called
    <3>. QED
      BY <1>1, <2>2, <3>1, <3>2 DEF Called, s
  <2>. QED
    BY <2>2, <2>3 DEF Called, s
<1>3. ASSUME NEW t \in Threads, NEW i \in Live'
      PROVE  Unspent(t, i)' \/ AboutToUnbind(t, i)'
  <2>1. CASE i \in Live /\ table'[i] = table[i]
    BY <2>1 DEF OneShotInv, Unspent, AboutToUnbind, Depth, Top
  <2>2. CASE i > Len(table) /\ table'[i].serial = binds + 1
    BY <1>1, <2>2 DEF Unspent
  <2>. QED
    BY <2>1, <2>2
<1>4. \A t \in Threads : \A n \in handled'[t] : n <= binds'
  BY <1>1
<1>. QED
  BY <1>2, <1>3, <1>4 DEF OneShotInv, Depth

(* A step of the searches of a thread that has no one-shot item to unbind.    *)
LEMMA OneShotSearch ==
  ASSUME OneShotInv, ~dangling, NEW t \in Threads, OnlyOf(t),
         UNCHANGED <<table, binds, handled>>,
         \A k \in 1..Len(searches'[t]) : Called(searches'[t][k]),
         \A i \in Live : Unspent(t, i)
  PROVE  OneShotInv'
<1>1. ASSUME NEW u \in Threads, NEW k \in 1..Len(searches'[u])
      PROVE  Called(searches[u][k])'
  <2>1. Called(searches'[u][k])
    BY DEF OnlyOf, OneShotInv, Depth
  <2>. QED
    BY <2>1 DEF Called, Live
<1>2. ASSUME NEW u \in Threads, NEW i \in Live'
      PROVE  Unspent(u, i)' \/ AboutToUnbind(u, i)'
  <2>1. i \in Live
    BY DEF Live
  <2>2. CASE u = t
    BY <2>1, <2>2 DEF Unspent
  <2>3. CASE u # t
    BY <2>1, <2>3 DEF OnlyOf, OneShotInv, Unspent, AboutToUnbind, Depth, Top
  <2>. QED
    BY <2>2, <2>3
<1>. QED
  BY <1>1, <1>2 DEF OneShotInv, Depth

LEMMA NoneToUnbind ==
  ASSUME OneShotInv, ~dangling, NEW t \in Threads,
         Depth(t) > 0 => Top(t).at # "after" \/ Top(t).slot = 0, SlotsAscend
  PROVE  \A i \in Live : Unspent(t, i)
BY DEF OneShotInv, AboutToUnbind, SlotsAscend

LEMMA OneShotTop ==
  ASSUME TableInv, OneShotInv, ~dangling, NEW t \in Threads, Depth(t) > 0,
         Top(t).at # "after", NEW s \in Searches, SetTop(t, s), Called(s),
         UNCHANGED <<table, binds, handled>>
  PROVE  OneShotInv'
<1>1. /\ OnlyOf(t) /\ Len(searches'[t]) = Depth(t) /\ searches'[t][Depth(t)] = s
      /\ \A k \in 1..(Depth(t) - 1) : searches'[t][k] = searches[t][k]
  BY SetTopEffect, TypeParts DEF TableInv, SearchesOK
<1>2. Depth(t) \in Nat /\ \A k \in 1..Depth(t) : Called(searches[t][k])
  BY SearchTypes DEF OneShotInv
<1>3. \A k \in 1..Len(searches'[t]) : Called(searches'[t][k])
  BY <1>1, <1>2
<1>4. \A i \in Live : Unspent(t, i)
  BY NoneToUnbind DEF TableInv, OrderInv
<1>. QED
  BY <1>1, <1>3, <1>4, OneShotSearch

LEMMA OneShotBind ==
  ASSUME TableInv, OneShotInv, NEW t \in Threads, NEW id \in EventIDs, NEW executor \in Executors,
         NEW flag \in {"none", "oneShot", "alwaysSkip"}, NEW unique \in BOOLEAN,
         Bind(t, id, executor, flag, unique)
  PROVE  OneShotInv'
<1> DEFINE item == [id |-> id, executor |-> executor, flag |-> flag,
                    slot |-> bindSlot + 1, serial |-> binds + 1]
<1>1. DataOK /\ Len(table) \in Nat /\ binds \in Nat
  BY TypeParts, LiveItems, TableAssumption DEF TableInv, DataOK
<1>2. table' = Append(table, item) /\ item.serial = binds + 1 /\ binds' = binds + 1
  BY DEF Bind
<1> HIDE DEF item
<1>3. ASSUME NEW i \in Live'
      PROVE  \/ i \in Live /\ table'[i] = table[i]
             \/ i > Len(table) /\ table'[i].serial = binds + 1
  <2>1. Len(table') = Len(table) + 1 /\ i \in 1..Len(table')
    BY <1>1, <1>2 DEF Live, DataOK
  <2>2. CASE i = Len(table) + 1
    BY <1>1, <1>2, <2>2 DEF DataOK
  <2>3. CASE i \in 1..Len(table)
    BY <1>1, <1>2, <2>3 DEF DataOK, Live
  <2>. QED
    BY <1>1, <2>1, <2>2, <2>3
<1>4. ~dangling /\ UNCHANGED <<searches, handled>>
  BY DEF Bind, InClient
<1>5. binds' \in Nat /\ binds <= binds'
  BY <1>1, <1>2
<1>. QED
  BY <1>1, <1>3, <1>4, <1>5, OneShotClient

LEMMA OneShotUnbind ==
  ASSUME TableInv, OneShotInv, NEW S, ~dangling, table' = Nulled(S),
         UNCHANGED <<searches, handled, binds>>
  PROVE  OneShotInv'
<1>1. DataOK /\ binds \in Nat /\ Len(table) \in Nat
  BY TypeParts, LiveItems, TableAssumption DEF TableInv, DataOK
<1>2. \A i \in Live' : i \in Live /\ table'[i] = table[i]
  BY <1>1, NulledEffect DEF DataOK
<1>. QED
  BY <1>1, <1>2, OneShotClient

LEMMA OneShotProcessEvent ==
  ASSUME TableInv, OneShotInv, NEW t \in Threads, NEW id \in EventIDs, ProcessEvent(t, id)
  PROVE  OneShotInv'
<1> DEFINE s == [id |-> id, at |-> "search", index |-> Len(table) + 1, size |-> Len(table),
                 nulls |-> 0, slot |-> 0, limit |-> binds + 1]
<1>1. /\ DataOK /\ searches \in [Threads -> Seq(Searches)] /\ SlotsAscend
      /\ binds \in 0..MaxBinds /\ MaxBinds \in Nat /\ Len(table) \in Nat
  BY TypeParts, LiveItems, TableAssumption DEF TableInv, DataOK, SearchesOK, OrderInv
<1>2. s \in Searches /\ Called(s) /\ searches' = [searches EXCEPT ![t] = Append(@, s)]
  BY <1>1 DEF Searches, Called, ProcessEvent
<1> HIDE DEF s
<1>3. /\ OnlyOf(t) /\ Len(searches'[t]) = Depth(t) + 1 /\ searches'[t][Depth(t) + 1] = s
      /\ \A k \in 1..Depth(t) : searches'[t][k] = searches[t][k]
  BY <1>1, <1>2, PushEffect
<1>4. ~dangling /\ (Depth(t) > 0 => Top(t).at = "execute") /\ Depth(t) \in Nat
  BY SearchTypes DEF ProcessEvent, InClient
<1>5. \A k \in 1..Depth(t) : Called(searches[t][k])
  BY <1>4 DEF OneShotInv
<1>6. \A k \in 1..Len(searches'[t]) : Called(searches'[t][k])
  <2> SUFFICES ASSUME NEW k \in 1..(Depth(t) + 1)
               PROVE  Called(searches'[t][k])
    BY <1>3
  <2>1. CASE k = Depth(t) + 1
    BY <1>2, <1>3, <2>1
  <2>2. CASE k \in 1..Depth(t)
    BY <1>3, <1>5, <2>2
  <2>. QED
    BY <1>4, <2>1, <2>2
<1>7. \A i \in Live : Unspent(t, i)
  BY <1>1, <1>4, NoneToUnbind
<1>. QED
  BY <1>3, <1>4, <1>6, <1>7, OneShotSearch DEF ProcessEvent

LEMMA OneShotExecute ==
  ASSUME TableInv, OneShotInv, NEW t \in Threads, ExecuteEventHandler(t)
  PROVE  OneShotInv'
<1> DEFINE i == LastOf(Remaining(t))
           n == Top(t).nulls + NullsBetween(i + 1, Top(t).index - 1)
           s == CallAt(Top(t), i, table[i].serial, n)
<1>1. DataOK /\ OrderInv
  BY TypeParts DEF TableInv
<1>2. i \in Live
  BY NextItem
<1>3. /\ i \in 1..Len(table) /\ table[i].serial \in 1..MaxBinds /\ Len(table) \in Nat
      /\ MaxBinds \in Nat /\ table[i].serial <= binds
  BY <1>1, <1>2, LiveItems, TableAssumption DEF DataOK, OrderInv, SerialsAscend
<1>4. Top(t) \in Searches /\ Top(t).at = "search" /\ ~dangling /\ Depth(t) > 0
  BY SearchTypes DEF ExecuteEventHandler, In
<1>5. SetTop(t, s)
  BY DEF ExecuteEventHandler, CallAt
<1> HIDE DEF i
<1>6. n \in Nat
  <2>1. i + 1 \in Int /\ Top(t).index - 1 \in Int /\ Top(t).nulls \in Nat
    BY <1>3, <1>4 DEF Searches
  <2>2. NullsBetween(i + 1, Top(t).index - 1) \in Nat
    BY <2>1, NullsBetweenType
  <2>. QED
    BY <2>1, <2>2
<1> DEFINE limit == table[i].serial
<1>7. i \in Nat \ {0} /\ limit \in 1..(MaxBinds + 1)
  BY <1>3
<1> HIDE DEF n, limit
<1>8. CallAt(Top(t), i, limit, n) \in Searches /\ CallAt(Top(t), i, limit, n).index = i
      /\ CallAt(Top(t), i, limit, n).limit = limit
  BY <1>4, <1>6, <1>7, CallAtType
<1>9. s \in Searches /\ s.index = i /\ s.limit = table[i].serial
  BY <1>8 DEF limit
<1> HIDE DEF s
<1>10. Called(s)
  <2>1. \A j \in Live : j \in Nat /\ table[j].serial \in Nat
    BY <1>1, LiveItems DEF DataOK
  <2>2. \A j \in Live : table[j].serial = table[i].serial <=> j = i
    BY <1>1, <1>2, <1>3, <2>1 DEF OrderInv, SerialsAscend
  <2>. QED
    BY <1>3, <1>9, <2>2 DEF Called
<1>. QED
  BY <1>4, <1>5, <1>9, <1>10, OneShotTop DEF ExecuteEventHandler

LEMMA OneShotSkip ==
  ASSUME TableInv, OneShotInv, NEW t \in Threads, HandlerSkips(t)
  PROVE  OneShotInv'
<1> DEFINE s == [Top(t) EXCEPT !.at = "search"]
<1>1. Top(t) \in Searches /\ Top(t).at = "execute"
  BY SearchTypes DEF HandlerSkips, In
<1>2. s \in Searches /\ Called(s)
  BY <1>1 DEF Searches, Called
<1>3. SetTop(t, s)
  BY DEF HandlerSkips
<1> HIDE DEF s
<1>. QED
  BY <1>1, <1>2, <1>3, OneShotTop DEF HandlerSkips, In

LEMMA OneShotNobody ==
  ASSUME TableInv, OneShotInv, NEW t \in Threads, NobodyHandles(t)
  PROVE  OneShotInv'
<1> DEFINE n == Top(t).nulls + NullsBetween(1, Top(t).index - 1)
           s == [Top(t) EXCEPT !.at = "after", !.nulls = n]
<1>1. Top(t) \in Searches /\ Top(t).at = "search"
  BY SearchTypes DEF NobodyHandles, In
<1>2. n \in Nat
  <2>1. 1 \in Int /\ Top(t).index - 1 \in Int /\ Top(t).nulls \in Nat
    BY <1>1 DEF Searches
  <2>2. NullsBetween(1, Top(t).index - 1) \in Nat
    BY <2>1, NullsBetweenType
  <2>. QED
    BY <2>1, <2>2
<1>3. SetTop(t, s)
  BY DEF NobodyHandles
<1> HIDE DEF n
<1>4. s \in Searches /\ Called(s)
  BY <1>1, <1>2 DEF Searches, Called
<1> HIDE DEF s
<1>. QED
  BY <1>1, <1>3, <1>4, OneShotTop DEF NobodyHandles, In

LEMMA OneShotLeave ==
  ASSUME TableInv, OneShotInv, NEW t \in Threads, LeaveTable(t)
  PROVE  OneShotInv'
<1>1. ~dangling /\ Depth(t) > 0 /\ Pop(t) /\ Top(t).slot = 0 /\ Depth(t) \in Nat
  BY SearchTypes DEF LeaveTable, In
<1>2. /\ OnlyOf(t) /\ Len(searches'[t]) = Depth(t) - 1
      /\ \A k \in 1..(Depth(t) - 1) : searches'[t][k] = searches[t][k]
  BY <1>1, PopEffect, TypeParts DEF TableInv, SearchesOK
<1>3. \A k \in 1..Len(searches'[t]) : Called(searches'[t][k])
  BY <1>1, <1>2 DEF OneShotInv
<1>4. \A i \in Live : Unspent(t, i)
  BY <1>1, NoneToUnbind DEF TableInv, OrderInv
<1>. QED
  BY <1>1, <1>2, <1>3, <1>4, OneShotSearch DEF LeaveTable

(* The handler of the item at the iterator returns: if the item is one-shot,  *)
(* the search goes on to unbind its slot.                                    *)
LEMMA OneShotHandle ==
  ASSUME TableInv, OneShotInv, NEW t \in Threads, HandlerHandles(t)
  PROVE  OneShotInv'
<1> DEFINE item == table[Top(t).index]
           s == [Top(t) EXCEPT !.at = "after", !.slot = OneShotSlot(item)]
<1>1. DataOK /\ SlotsAscend /\ Top(t) \in Searches /\ Bounded(Top(t)) /\ Top(t).at = "execute"
      /\ ~dangling /\ Depth(t) > 0 /\ Depth(t) \in 1..Depth(t) /\ Depth(t) \in Nat
  BY TypeParts, SearchTypes DEF TableInv, OrderInv, HandlerHandles, In, Top
<1>2. Called(Top(t)) /\ \A i \in Live : Unspent(t, i)
  BY <1>1, NoneToUnbind DEF OneShotInv, Top
<1>3. item \in Items \cup {NullItem}
  BY <1>1, LiveItems DEF DataOK, Bounded, Searches
<1>4. s \in Searches /\ s.at = "after" /\ s.slot = OneShotSlot(item)
  <2>1. OneShotSlot(item) \in Nat
    BY <1>3 DEF OneShotSlot, Items, NullItem
  <2>. QED
    BY <1>1, <2>1 DEF Searches
<1>5. SetTop(t, s)
  BY DEF HandlerHandles
<1> HIDE DEF s
<1>6. /\ OnlyOf(t) /\ Len(searches'[t]) = Depth(t) /\ searches'[t][Depth(t)] = s
      /\ \A k \in 1..(Depth(t) - 1) : searches'[t][k] = searches[t][k]
  BY <1>1, <1>4, <1>5, SetTopEffect, TypeParts DEF TableInv, SearchesOK
<1>7. /\ handled' = [handled EXCEPT ![t] = @ \cup {Top(t).limit}]
      /\ handled \in [Threads -> SUBSET (1..MaxBinds)]
      /\ UNCHANGED <<table, binds, dangling>> /\ Live' = Live
  BY <1>1 DEF HandlerHandles, DataOK, Live
<1>8. \A u \in Threads : \A m \in handled'[u] : m <= binds'
  BY <1>1, <1>2, <1>7 DEF OneShotInv, Called
<1>9. ASSUME NEW u \in Threads, NEW k \in 1..Len(searches'[u])
      PROVE  Called(searches[u][k])'
  <2>1. Called(searches'[u][k])
    <3>1. CASE u # t
      BY <1>1, <1>6, <3>1 DEF OnlyOf, OneShotInv, Depth
    <3>2. CASE u = t /\ k = Depth(t)
      BY <1>4, <1>6, <3>2 DEF Called
    <3>3. CASE u = t /\ k \in 1..(Depth(t) - 1)
      BY <1>1, <1>6, <3>3 DEF OneShotInv, Depth
    <3>. QED
      BY <1>1, <1>6, <3>1, <3>2, <3>3
  <2>. QED
    BY <1>7, <2>1 DEF Called
<1>10. ASSUME NEW u \in Threads, NEW i \in Live'
       PROVE  Unspent(u, i)' \/ AboutToUnbind(u, i)'
  <2>1. CASE u # t
    BY <1>1, <1>6, <1>7, <2>1 DEF OnlyOf, OneShotInv, Unspent, AboutToUnbind, Depth, Top
  <2>2. CASE u = t /\ table[i].serial = Top(t).limit /\ table[i].flag = "oneShot"
    <3>1. i = Top(t).index
      BY <1>1, <1>2, <1>7, <2>2 DEF Called
    <3>2. s.slot = table[i].slot
      BY <1>4, <2>2, <3>1 DEF OneShotSlot
    <3>. QED
      BY <1>1, <1>4, <1>6, <1>7, <2>2, <3>2 DEF AboutToUnbind, Depth, Top
  <2>3. CASE u = t /\ ~(table[i].serial = Top(t).limit /\ table[i].flag = "oneShot")
    BY <1>2, <1>7, <2>3 DEF Unspent
  <2>. QED
    BY <2>1, <2>2, <2>3
<1>. QED
  BY <1>8, <1>9, <1>10 DEF OneShotInv, Depth

LEMMA IntoFewer ==
  ASSUME NEW i \in Nat, NEW m \in Nat, m < i, NEW g \in [1..i -> 1..m]
  PROVE  \E x, y \in 1..i : x # y /\ g[x] = g[y]
<1>1. IsFiniteSet(1..i) /\ Cardinality(1..i) = i
  BY FS_Interval
<1>2. IsFiniteSet(1..m) /\ Cardinality(1..m) = m
  BY FS_Interval
<1>. QED
  BY <1>1, <1>2, FS_PigeonHole

(* No position up to i is filled from another one when none of them is purged. *)
LEMMA AscendingFixesPrefix ==
  ASSUME NEW n \in Nat, NEW S \in SUBSET (1..n), NEW f \in Ascending(S),
         NEW i \in 1..n, 1..i \subseteq S
  PROVE  \A k \in 1..Cardinality(S) : f[k] = i <=> k = i
<1> DEFINE c == Cardinality(S)
<1>1. IsFiniteSet(S) /\ c \in Nat
  <2>1. IsFiniteSet(1..n)
    BY FS_Interval
  <2>2. IsFiniteSet(S)
    BY <2>1, FS_Subset
  <2>. QED
    BY <2>2, FS_CardinalityType
<1>2. i <= c /\ \A k \in 1..c : k < i => f[k] < i
  BY AscendingKeepsPrefix
<1> HIDE DEF c
<1>3. /\ f \in [1..c -> S]
      /\ \A a, b \in 1..c : a < b => f[a] < f[b]
      /\ \A a \in S : \E b \in 1..c : f[b] = a
  BY DEF Ascending, c
<1>4. \A a \in 1..c : f[a] \in 1..n
  BY <1>3
<1>5. PICK j \in 1..c : f[j] = i
  BY <1>3
<1>6. j <= i
  <2> SUFFICES ASSUME i < j PROVE FALSE
    BY <1>1, <1>5
  <2> DEFINE m == i - 1
             g == [a \in 1..i |-> f[a]]
  <2>1. m \in Nat /\ i \in 1..c /\ \A a \in 1..i : a \in 1..c
    BY <1>1, <1>2
  <2>2. f[i] < i
    BY <1>3, <1>5, <2>1
  <2>3. \A a \in 1..i : f[a] \in 1..m
    <3>1. \A a \in 1..i : f[a] < i
      BY <1>2, <2>1, <2>2
    <3>. QED
      BY <1>4, <2>1, <3>1
  <2>4. g \in [1..i -> 1..m] /\ \A a \in 1..i : g[a] = f[a]
    BY <2>3
  <2>5. m < i /\ i \in Nat
    BY <2>1
  <2> HIDE DEF g, m
  <2>6. PICK x, y \in 1..i : x # y /\ g[x] = g[y]
    BY <2>1, <2>4, <2>5, IntoFewer
  <2>7. x \in 1..c /\ y \in 1..c /\ f[x] = f[y] /\ x # y
    BY <2>1, <2>4, <2>6
  <2>. QED
    BY <1>3, <1>4, <2>7
<1>7. ~(j < i)
  BY <1>2, <1>5
<1>8. j = i
  BY <1>1, <1>5, <1>6, <1>7
<1>9. ASSUME NEW k \in 1..c, f[k] = i
      PROVE  k = i
  <2>1. ~(k < j) /\ ~(j < k)
    BY <1>3, <1>4, <1>5, <1>9
  <2>. QED
    BY <1>1, <1>8, <2>1
<1>. QED
  BY <1>5, <1>8, <1>9 DEF c

(* The purge unbinds the one item its thread has handled an event for.        *)
LEMMA OneShotPurge ==
  ASSUME TableInv, OneShotInv, NEW t \in Threads, Purge(t)
  PROVE  OneShotInv'
<1>1. DataOK /\ SlotsAscend /\ SearchesOK
  BY TypeParts DEF TableInv, OrderInv
<1>2. ~dangling /\ Depth(t) > 0 /\ Pop(t) /\ MayLock(t) /\ UNCHANGED <<binds, handled>>
  BY DEF Purge, In
<1>3. /\ OneShotItem(t) \subseteq Live /\ Kept(t) = Live \ OneShotItem(t)
      /\ Top(t).nulls \in Nat /\ Depth(t) \in Nat
  BY OneShotItemEffect, SearchTypes, <1>2 DEF Searches, Kept
<1>4. /\ OnlyOf(t) /\ Len(searches'[t]) = Depth(t) - 1
      /\ \A k \in 1..(Depth(t) - 1) : searches'[t][k] = searches[t][k]
  BY <1>1, <1>2, PopEffect DEF SearchesOK
<1>5. \A i \in Kept(t) : Unspent(t, i)
  <2> SUFFICES ASSUME NEW i \in Live, ~Unspent(t, i)
               PROVE  i \in OneShotItem(t)
    BY <1>3
  <2>1. Top(t).slot = table[i].slot
    BY <1>2 DEF OneShotInv, AboutToUnbind
  <2>2. i \in HaveSlot(Top(t).slot) /\ \A j \in HaveSlot(Top(t).slot) : j = i
    <3>1. \A j \in Live : j \in Nat /\ table[j].slot \in Nat
      BY <1>1, LiveItems DEF DataOK
    <3>2. \A j \in Live : table[j].slot = table[i].slot => j = i
      BY <1>1, <3>1 DEF SlotsAscend
    <3>. QED
      BY <2>1, <3>2 DEF HaveSlot
  <2>3. HaveSlot(Top(t).slot) = {i}
    BY <2>2
  <2>4. LastOf({i}) = i
    <3>1. i \in Nat
      BY <1>1, LiveItems DEF DataOK
    <3>. QED
      BY <3>1 DEF LastOf
  <2>. QED
    BY <2>3, <2>4 DEF OneShotItem
<1>6. CASE NullCount(t) = 0
  <2>1. OneShotItem(t) = {} /\ table' = table
    BY <1>3, <1>6, OneShotItemEffect DEF Purge
  <2>2. \A i \in Live : Unspent(t, i)
    BY <1>3, <1>5, <2>1
  <2>3. \A k \in 1..Len(searches'[t]) : Called(searches'[t][k])
    BY <1>2, <1>3, <1>4 DEF OneShotInv
  <2>. QED
    BY <1>2, <1>4, <2>1, <2>2, <2>3, OneShotSearch
<1>7. CASE NullCount(t) # 0
  <2>1. PICK f \in Ascending(Kept(t)) :
          table' = [i \in 1..Cardinality(Kept(t)) |-> table[f[i]]]
    BY <1>7 DEF Purge, RemoveNulls
  <2> DEFINE c == Cardinality(Kept(t))
  <2>2. /\ Live' \subseteq 1..c
        /\ \A i \in 1..c : f[i] \in Kept(t) /\ table'[i] = table[f[i]]
    BY <2>1, RemoveNullsEffect
  <2>3. c \in Nat
    BY OneShotItemEffect
  <2>4. ASSUME ~dangling', NEW k \in 1..Len(searches'[t])
        PROVE  Called(searches[t][k])'
    <3> DEFINE s == searches[t][k]
    <3>1. k \in 1..(Depth(t) - 1) /\ searches'[t][k] = s
      BY <1>3, <1>4
    <3>2. s \in Searches /\ s.at = "execute" /\ Bounded(s) /\ Called(s)
      BY <1>1, <1>2, <1>3, <3>1, SearchTypes DEF SearchesOK, Suspended, OneShotInv
    <3>3. \A i \in (1..Len(table)) \ Kept(t) : ~(i <= s.index)
      BY <1>7, <2>4, <3>1 DEF Purge
    <3> HIDE DEF s
    <3>4. Len(table) \in Nat /\ s.index \in 1..Len(table) /\ Kept(t) \subseteq 1..Len(table)
      BY <1>1, <1>3, <3>2, LiveItems DEF DataOK, Bounded, Searches
    <3>5. 1..s.index \subseteq Kept(t)
      BY <3>3, <3>4
    <3>6. \A i \in 1..c : f[i] = s.index <=> i = s.index
      BY <3>4, <3>5, AscendingFixesPrefix
    <3> HIDE DEF c
    <3>7. \A i \in Live' : table'[i].serial = s.limit <=> i = s.index
      BY <1>3, <2>2, <3>2, <3>6 DEF Called
    <3>8. s.limit <= binds'
      BY <1>2, <3>2 DEF Called
    <3>. QED
      BY <3>1, <3>7, <3>8 DEF Called
  <2> HIDE DEF c
  <2>5. ASSUME NEW u \in Threads, u # t, NEW k \in 1..Len(searches'[u])
        PROVE  Called(searches[u][k])'
    <3>1. k \in 1..Len(searches[u]) /\ searches'[u][k] = searches[u][k]
      BY <1>4, <2>5 DEF OnlyOf
    <3>2. searches[u][k].at # "execute"
      BY <1>2, <2>5, <3>1 DEF MayLock, HoldsLock
    <3>. QED
      BY <3>1, <3>2 DEF Called
  <2>6. ASSUME NEW u \in Threads, NEW i \in Live'
        PROVE  Unspent(u, i)' \/ AboutToUnbind(u, i)'
    <3>1. f[i] \in Kept(t) /\ f[i] \in Live /\ table'[i] = table[f[i]]
      BY <1>3, <2>2
    <3>2. CASE u = t
      BY <1>2, <1>5, <3>1, <3>2 DEF Unspent
    <3>3. CASE u # t
      <4>1. Unspent(u, f[i]) \/ AboutToUnbind(u, f[i])
        BY <1>2, <3>1 DEF OneShotInv
      <4>2. searches'[u] = searches[u]
        BY <1>4, <3>3 DEF OnlyOf
      <4>. QED
        BY <1>2, <3>1, <4>1, <4>2 DEF Unspent, AboutToUnbind, Depth, Top
    <3>. QED
      BY <3>2, <3>3
  <2>. QED
    BY <1>2, <2>4, <2>5, <2>6 DEF OneShotInv, Depth
<1>. QED
  BY <1>6, <1>7

LEMMA OneShotInit == Init => OneShotInv
BY DEF Init, OneShotInv, Depth, Live

LEMMA OneShotStep == TableInv /\ OneShotInv /\ [Next]_vars => OneShotInv'
<1> SUFFICES ASSUME TableInv, OneShotInv, [Next]_vars PROVE OneShotInv'
  OBVIOUS
<1>1. CASE UNCHANGED vars
  BY <1>1 DEF vars, OneShotInv, Called, Unspent, AboutToUnbind, Live, Depth, Top
<1>2. ASSUME NEW t \in Threads, NEW id \in EventIDs, NEW executor \in Executors,
             \/ \E flag \in {"none", "oneShot", "alwaysSkip"}, unique \in BOOLEAN :
                  Bind(t, id, executor, flag, unique)
             \/ Unbind(t, id, executor)
      PROVE  OneShotInv'
  <2>1. CASE Unbind(t, id, executor)
    BY <2>1, OneShotUnbind DEF Unbind, UnbindItems, InClient
  <2>. QED
    BY <1>2, <2>1, OneShotBind
<1>3. ASSUME NEW t \in Threads, NEW id \in EventIDs, UnbindID(t, id) \/ ProcessEvent(t, id)
      PROVE  OneShotInv'
  <2>1. CASE UnbindID(t, id)
    BY <2>1, OneShotUnbind DEF UnbindID, UnbindItems, InClient
  <2>. QED
    BY <1>3, <2>1, OneShotProcessEvent
<1>4. ASSUME NEW t \in Threads, UnbindAll(t)
      PROVE  OneShotInv'
  BY <1>4, OneShotUnbind DEF UnbindAll, UnbindItems, InClient
<1>5. ASSUME NEW t \in Threads, NEW slot \in 1..MaxBinds, UnbindSlot(t, slot)
      PROVE  OneShotInv'
  BY <1>5, OneShotUnbind DEF UnbindSlot, InClient
<1>6. ASSUME NEW t \in Threads, SearchStep(t)
      PROVE  OneShotInv'
  BY <1>6, OneShotExecute, OneShotSkip, OneShotHandle, OneShotNobody, OneShotLeave, OneShotPurge
     DEF SearchStep
<1>. QED
  BY <1>1, <1>2, <1>3, <1>4, <1>5, <1>6 DEF Next

(* A one-shot item handles at most one event of each thread: between the       *)
(* return of its handler and its unbinding (EvtHandler.cpp, SearchEventTable) *)
(* the thread dispatches nothing, and it unbinds this item and no other.      *)
THEOREM OneShotHandlesOnce == Spec => OneShotOncePerThread
<1>1. ASSUME TableInv, OneShotInv, NEW t \in Threads, HandlerHandles(t),
             table[Top(t).index].flag = "oneShot"
      PROVE  Top(t).limit \notin handled[t]
  <2>1. /\ DataOK /\ SlotsAscend /\ Top(t) \in Searches /\ Bounded(Top(t))
        /\ Top(t).at = "execute" /\ ~dangling /\ Depth(t) > 0 /\ Depth(t) \in 1..Depth(t)
    BY <1>1, TypeParts, SearchTypes DEF TableInv, OrderInv, HandlerHandles, In, Top
  <2>2. Called(Top(t)) /\ \A i \in Live : Unspent(t, i)
    BY <1>1, <2>1, NoneToUnbind DEF OneShotInv, Top
  <2>3. Top(t).index \in 1..Len(table)
    BY <2>1, LiveItems DEF DataOK, Bounded, Searches
  <2>4. Top(t).index \in Live
    BY <1>1, <2>3 DEF Live, IsNull, NullItem
  <2>. QED
    BY <1>1, <2>1, <2>2, <2>4 DEF Called, Unspent
<1>2. TableInv /\ OneShotInv =>
        [\A t \in Threads : HandlerHandles(t) /\ table[Top(t).index].flag = "oneShot" =>
           Top(t).limit \notin handled[t]]_vars
  BY <1>1
<1>3. Spec => []OneShotInv
  BY OneShotInit, OneShotStep, TableHolds, PTL DEF Spec
<1>. QED
  BY <1>2, <1>3, TableHolds, PTL DEF OneShotOncePerThread
--------------------------------------------------------------------------------
(* The table implements Bindings: the items a search has not reached are those *)
(* older than the binding it called last.                                    *)

(* Every live item from the iterator on is at least as new as that binding.   *)
Passed(s) == s.at # "after" =>
  /\ s.limit <= binds + 1
  /\ \A i \in Live : i >= s.index => table[i].serial >= s.limit
PassedInv == ~dangling => \A t \in Threads : \A k \in 1..Depth(t) : Passed(searches[t][k])

LEMMA Serials ==
  ASSUME TableInv
  PROVE  /\ binds \in Nat /\ bindSlot \in Nat /\ MaxBinds \in Nat /\ Len(table) \in Nat
         /\ \A i \in Live : i \in 1..Len(table) /\ i \in Nat /\ table[i].serial \in Nat
BY TypeParts, LiveItems, TableAssumption DEF TableInv, DataOK

LEMMA PassedClient ==
  ASSUME TableInv, PassedInv, ~dangling, UNCHANGED searches, binds' \in Nat, binds <= binds',
         \A i \in Live' : \/ i \in Live /\ table'[i] = table[i]
                          \/ table'[i].serial = binds + 1
  PROVE  PassedInv'
<1>1. ASSUME NEW t \in Threads, NEW k \in 1..Depth(t)
      PROVE  Passed(searches[t][k])'
  <2> DEFINE s == searches[t][k]
  <2>1. Passed(s) /\ s \in Searches /\ s' = s
    BY SearchTypes DEF PassedInv
  <2> HIDE DEF s
  <2>2. s.limit \in Nat
    BY <2>1 DEF Searches
  <2>. QED
    BY <2>1, <2>2, Serials DEF Passed, s
<1>. QED
  BY <1>1 DEF PassedInv, Depth

(* A step of the searches of one thread.                                     *)
LEMMA PassedSearch ==
  ASSUME PassedInv, ~dangling, NEW t \in Threads, OnlyOf(t), UNCHANGED <<table, binds>>,
         \A k \in 1..Len(searches'[t]) : Passed(searches'[t][k])
  PROVE  PassedInv'
<1>1. ASSUME NEW u \in Threads, NEW k \in 1..Len(searches'[u])
      PROVE  Passed(searches[u][k])'
  <2>1. Passed(searches'[u][k])
    BY DEF OnlyOf, PassedInv, Depth
  <2>. QED
    BY <2>1 DEF Passed, Live
<1>. QED
  BY <1>1 DEF PassedInv, Depth

LEMMA PassedTop ==
  ASSUME TableInv, PassedInv, ~dangling, NEW t \in Threads, Depth(t) > 0,
         NEW s \in Searches, SetTop(t, s), Passed(s), UNCHANGED <<table, binds>>
  PROVE  PassedInv'
<1>1. /\ OnlyOf(t) /\ Len(searches'[t]) = Depth(t) /\ searches'[t][Depth(t)] = s
      /\ \A k \in 1..(Depth(t) - 1) : searches'[t][k] = searches[t][k]
  BY SetTopEffect, TypeParts DEF TableInv, SearchesOK
<1>2. Depth(t) \in Nat /\ \A k \in 1..Depth(t) : Passed(searches[t][k])
  BY SearchTypes DEF PassedInv
<1>3. \A k \in 1..Len(searches'[t]) : Passed(searches'[t][k])
  BY <1>1, <1>2
<1>. QED
  BY <1>1, <1>3, PassedSearch

LEMMA PassedBind ==
  ASSUME TableInv, PassedInv, NEW t \in Threads, NEW id \in EventIDs,
         NEW executor \in Executors, NEW flag \in {"none", "oneShot", "alwaysSkip"},
         NEW unique \in BOOLEAN, Bind(t, id, executor, flag, unique)
  PROVE  PassedInv'
<1> DEFINE item == [id |-> id, executor |-> executor, flag |-> flag,
                    slot |-> bindSlot + 1, serial |-> binds + 1]
<1>1. DataOK /\ Len(table) \in Nat /\ binds \in Nat
  BY TypeParts, Serials DEF TableInv
<1>2. table' = Append(table, item) /\ item.serial = binds + 1 /\ binds' = binds + 1
  BY DEF Bind
<1> HIDE DEF item
<1>3. ASSUME NEW i \in Live'
      PROVE  \/ i \in Live /\ table'[i] = table[i]
             \/ table'[i].serial = binds + 1
  <2>1. Len(table') = Len(table) + 1 /\ i \in 1..Len(table')
    BY <1>1, <1>2 DEF Live, DataOK
  <2>2. CASE i = Len(table) + 1
    BY <1>1, <1>2, <2>2 DEF DataOK
  <2>3. CASE i \in 1..Len(table)
    BY <1>1, <1>2, <2>3 DEF DataOK, Live
  <2>. QED
    BY <1>1, <2>1, <2>2, <2>3
<1>4. ~dangling /\ UNCHANGED searches
  BY DEF Bind, InClient
<1>5. binds' \in Nat /\ binds <= binds'
  BY <1>1, <1>2
<1>. QED
  BY <1>3, <1>4, <1>5, PassedClient

LEMMA PassedUnbind ==
  ASSUME TableInv, PassedInv, NEW S, ~dangling, table' = Nulled(S), UNCHANGED <<searches, binds>>
  PROVE  PassedInv'
<1>1. DataOK /\ binds \in Nat
  BY TypeParts, Serials DEF TableInv
<1>2. \A i \in Live' : i \in Live /\ table'[i] = table[i]
  BY <1>1, NulledEffect DEF DataOK
<1>. QED
  BY <1>1, <1>2, PassedClient

LEMMA PassedProcessEvent ==
  ASSUME TableInv, PassedInv, NEW t \in Threads, NEW id \in EventIDs, ProcessEvent(t, id)
  PROVE  PassedInv'
<1> DEFINE s == [id |-> id, at |-> "search", index |-> Len(table) + 1, size |-> Len(table),
                 nulls |-> 0, slot |-> 0, limit |-> binds + 1]
<1>1. searches \in [Threads -> Seq(Searches)] /\ binds \in 0..MaxBinds
  BY TypeParts DEF TableInv, SearchesOK, DataOK
<1>2. s \in Searches /\ Passed(s) /\ searches' = [searches EXCEPT ![t] = Append(@, s)]
  <2>1. \A i \in Live : ~(i >= Len(table) + 1)
    BY Serials
  <2>2. s.limit <= binds + 1 /\ s.index = Len(table) + 1
    BY Serials
  <2>3. Passed(s)
    <3> HIDE DEF s
    <3>. QED
      BY <2>1, <2>2 DEF Passed
  <2>4. s \in Searches
    BY <1>1, Serials DEF Searches
  <2>. QED
    BY <2>3, <2>4 DEF ProcessEvent
<1> HIDE DEF s
<1>3. /\ OnlyOf(t) /\ Len(searches'[t]) = Depth(t) + 1 /\ searches'[t][Depth(t) + 1] = s
      /\ \A k \in 1..Depth(t) : searches'[t][k] = searches[t][k]
  BY <1>1, <1>2, PushEffect
<1>4. ~dangling /\ Depth(t) \in Nat /\ \A k \in 1..Depth(t) : Passed(searches[t][k])
  BY SearchTypes DEF ProcessEvent, InClient, PassedInv
<1>5. \A k \in 1..Len(searches'[t]) : Passed(searches'[t][k])
  BY <1>2, <1>3, <1>4
<1>. QED
  BY <1>3, <1>4, <1>5, PassedSearch DEF ProcessEvent

LEMMA PassedExecute ==
  ASSUME TableInv, PassedInv, NEW t \in Threads, ExecuteEventHandler(t)
  PROVE  PassedInv'
<1> DEFINE i == LastOf(Remaining(t))
           n == Top(t).nulls + NullsBetween(i + 1, Top(t).index - 1)
           s == CallAt(Top(t), i, table[i].serial, n)
<1>1. DataOK /\ OrderInv
  BY TypeParts DEF TableInv
<1>2. i \in Live
  BY NextItem
<1>3. i \in 1..Len(table) /\ table[i].serial \in 1..MaxBinds /\ table[i].serial <= binds
  BY <1>1, <1>2, LiveItems DEF DataOK, OrderInv, SerialsAscend
<1>4. Top(t) \in Searches /\ ~dangling /\ Depth(t) > 0
  BY SearchTypes DEF ExecuteEventHandler, In
<1>5. SetTop(t, s)
  BY DEF ExecuteEventHandler, CallAt
<1> HIDE DEF i
<1>6. n \in Nat
  <2>1. i + 1 \in Int /\ Top(t).index - 1 \in Int /\ Top(t).nulls \in Nat
    BY <1>3, <1>4, Serials DEF Searches
  <2>2. NullsBetween(i + 1, Top(t).index - 1) \in Nat
    BY <2>1, NullsBetweenType
  <2>. QED
    BY <2>1, <2>2
<1> DEFINE limit == table[i].serial
<1>7. i \in Nat \ {0} /\ limit \in 1..(MaxBinds + 1)
  BY <1>3, Serials
<1> HIDE DEF n, limit
<1>8. CallAt(Top(t), i, limit, n) \in Searches /\ CallAt(Top(t), i, limit, n).index = i
      /\ CallAt(Top(t), i, limit, n).limit = limit
  BY <1>4, <1>6, <1>7, CallAtType
<1>9. s \in Searches /\ s.index = i /\ s.limit = table[i].serial
  BY <1>8 DEF limit
<1> HIDE DEF s
<1>10. Passed(s)
  <2>1. \A j \in Live : j >= i => table[j].serial >= table[i].serial
    BY <1>1, <1>2, Serials DEF OrderInv, SerialsAscend
  <2>2. table[i].serial <= binds + 1
    BY <1>3, Serials
  <2>. QED
    BY <1>9, <2>1, <2>2 DEF Passed
<1>. QED
  BY <1>4, <1>5, <1>9, <1>10, PassedTop DEF ExecuteEventHandler

LEMMA PassedSkip ==
  ASSUME TableInv, PassedInv, NEW t \in Threads, HandlerSkips(t)
  PROVE  PassedInv'
<1> DEFINE s == [Top(t) EXCEPT !.at = "search"]
<1>1. Top(t) \in Searches /\ Top(t).at = "execute" /\ Depth(t) \in 1..Depth(t)
  BY SearchTypes DEF HandlerSkips, In
<1>2. Passed(Top(t))
  BY <1>1 DEF PassedInv, HandlerSkips, In, Top
<1>3. s \in Searches /\ Passed(s)
  BY <1>1, <1>2 DEF Searches, Passed
<1>4. SetTop(t, s)
  BY DEF HandlerSkips
<1> HIDE DEF s
<1>. QED
  BY <1>3, <1>4, PassedTop DEF HandlerSkips, In

(* A search that is over asks nobody.                                        *)
LEMMA PassedOver ==
  ASSUME TableInv, PassedInv, NEW t \in Threads, ~dangling, Depth(t) > 0,
         NEW n \in Nat, NEW slot \in Nat,
         SetTop(t, [Top(t) EXCEPT !.at = "after", !.nulls = n, !.slot = slot]),
         UNCHANGED <<table, binds>>
  PROVE  PassedInv'
<1> DEFINE s == [Top(t) EXCEPT !.at = "after", !.nulls = n, !.slot = slot]
<1>1. Top(t) \in Searches
  BY SearchTypes
<1>2. s \in Searches /\ Passed(s)
  BY <1>1 DEF Searches, Passed
<1> HIDE DEF s
<1>. QED
  BY <1>2, PassedTop DEF s

LEMMA PassedLeave ==
  ASSUME TableInv, PassedInv, NEW t \in Threads, LeaveTable(t)
  PROVE  PassedInv'
<1>1. ~dangling /\ Depth(t) > 0 /\ Pop(t) /\ Depth(t) \in Nat
  BY SearchTypes DEF LeaveTable, In
<1>2. /\ OnlyOf(t) /\ Len(searches'[t]) = Depth(t) - 1
      /\ \A k \in 1..(Depth(t) - 1) : searches'[t][k] = searches[t][k]
  BY <1>1, PopEffect, TypeParts DEF TableInv, SearchesOK
<1>3. \A k \in 1..Len(searches'[t]) : Passed(searches'[t][k])
  BY <1>1, <1>2 DEF PassedInv
<1>. QED
  BY <1>1, <1>2, <1>3, PassedSearch DEF LeaveTable

LEMMA PassedPurge ==
  ASSUME TableInv, PassedInv, NEW t \in Threads, Purge(t)
  PROVE  PassedInv'
<1>1. DataOK /\ SearchesOK
  BY TypeParts DEF TableInv
<1>2. ~dangling /\ Depth(t) > 0 /\ Pop(t) /\ MayLock(t) /\ binds' = binds
  BY DEF Purge, In
<1>3. /\ OneShotItem(t) \subseteq Live /\ Kept(t) = Live \ OneShotItem(t)
      /\ Top(t).nulls \in Nat /\ Depth(t) \in Nat
  BY OneShotItemEffect, SearchTypes, <1>2 DEF Searches, Kept
<1>4. /\ OnlyOf(t) /\ Len(searches'[t]) = Depth(t) - 1
      /\ \A k \in 1..(Depth(t) - 1) : searches'[t][k] = searches[t][k]
  BY <1>1, <1>2, PopEffect DEF SearchesOK
<1>5. CASE NullCount(t) = 0
  <2>1. \A k \in 1..Len(searches'[t]) : Passed(searches'[t][k])
    BY <1>2, <1>3, <1>4 DEF PassedInv
  <2>2. table' = table
    BY <1>5 DEF Purge
  <2>. QED
    BY <1>2, <1>4, <2>1, <2>2, PassedSearch
<1>6. CASE NullCount(t) # 0
  <2>1. PICK f \in Ascending(Kept(t)) :
          table' = [i \in 1..Cardinality(Kept(t)) |-> table[f[i]]]
    BY <1>6 DEF Purge, RemoveNulls
  <2> DEFINE c == Cardinality(Kept(t))
  <2>2. /\ Live' \subseteq 1..c
        /\ \A i \in 1..c : f[i] \in Kept(t) /\ table'[i] = table[f[i]]
        /\ \A i, j \in 1..c : i < j => f[i] < f[j]
    BY <2>1, RemoveNullsEffect
  <2>3. c \in Nat
    BY OneShotItemEffect
  <2>4. ASSUME ~dangling', NEW k \in 1..Len(searches'[t])
        PROVE  Passed(searches[t][k])'
    <3> DEFINE s == searches[t][k]
    <3>1. k \in 1..(Depth(t) - 1) /\ searches'[t][k] = s
      BY <1>3, <1>4
    <3>2. s \in Searches /\ s.at = "execute" /\ Bounded(s) /\ Passed(s)
      BY <1>1, <1>2, <1>3, <3>1, SearchTypes DEF SearchesOK, Suspended, PassedInv
    <3>3. \A i \in (1..Len(table)) \ Kept(t) : ~(i <= s.index)
      BY <1>6, <2>4, <3>1 DEF Purge
    <3> HIDE DEF s
    <3>4. Len(table) \in Nat /\ s.index \in 1..Len(table) /\ Kept(t) \subseteq 1..Len(table)
      BY <1>1, <1>3, <3>2, LiveItems DEF DataOK, Bounded, Searches
    <3>5. 1..s.index \subseteq Kept(t)
      BY <3>3, <3>4
    <3>6. s.index <= c /\ \A i \in 1..c : f[i] = s.index <=> i = s.index
      <4>1. s.index <= c
        BY <3>4, <3>5, AscendingKeepsPrefix
      <4>2. \A i \in 1..c : f[i] = s.index <=> i = s.index
        BY <3>4, <3>5, AscendingFixesPrefix
      <4>. QED
        BY <4>1, <4>2
    <3> HIDE DEF c
    <3>7. ASSUME NEW i \in Live', i >= s.index
          PROVE  table'[i].serial >= s.limit
      <4>1. i \in 1..c /\ s.index \in 1..c
        BY <2>2, <2>3, <3>4, <3>6
      <4>2. f[s.index] = s.index /\ f[i] >= s.index /\ f[i] \in Live
        <5>1. f[s.index] = s.index /\ f[i] \in Live
          BY <1>3, <2>2, <3>6, <4>1
        <5>2. i = s.index \/ s.index < i
          BY <2>3, <3>7, <4>1
        <5>3. f[i] \in Nat
          BY <5>1, Serials
        <5>. QED
          BY <2>2, <3>4, <4>1, <5>1, <5>2, <5>3
      <4>. QED
        BY <2>2, <3>2, <4>1, <4>2 DEF Passed
    <3>. QED
      BY <1>2, <3>1, <3>2, <3>7 DEF Passed
  <2> HIDE DEF c
  <2>5. ASSUME NEW u \in Threads, u # t, NEW k \in 1..Len(searches'[u])
        PROVE  Passed(searches[u][k])'
    <3>1. k \in 1..Len(searches[u]) /\ searches'[u][k] = searches[u][k]
      BY <1>4, <2>5 DEF OnlyOf
    <3>2. searches[u][k].at = "after"
      <4>1. searches[u][k].at \notin {"search", "execute"}
        BY <1>2, <2>5, <3>1 DEF MayLock, HoldsLock
      <4>2. searches[u][k] \in Searches
        BY <3>1, SearchTypes DEF Depth
      <4>. QED
        BY <4>1, <4>2 DEF Searches
    <3>. QED
      BY <3>1, <3>2 DEF Passed
  <2>. QED
    BY <2>4, <2>5 DEF PassedInv, Depth
<1>. QED
  BY <1>5, <1>6

LEMMA PassedNext == TableInv /\ PassedInv /\ [Next]_vars => PassedInv'
<1> SUFFICES ASSUME TableInv, PassedInv, [Next]_vars PROVE PassedInv'
  OBVIOUS
<1>1. CASE UNCHANGED vars
  BY <1>1 DEF vars, PassedInv, Passed, Live, Depth
<1>2. ASSUME NEW t \in Threads, NEW id \in EventIDs, NEW executor \in Executors,
             \/ \E flag \in {"none", "oneShot", "alwaysSkip"}, unique \in BOOLEAN :
                  Bind(t, id, executor, flag, unique)
             \/ Unbind(t, id, executor)
      PROVE  PassedInv'
  <2>1. CASE Unbind(t, id, executor)
    BY <2>1, PassedUnbind DEF Unbind, UnbindItems, InClient
  <2>. QED
    BY <1>2, <2>1, PassedBind
<1>3. ASSUME NEW t \in Threads, NEW id \in EventIDs, UnbindID(t, id) \/ ProcessEvent(t, id)
      PROVE  PassedInv'
  <2>1. CASE UnbindID(t, id)
    BY <2>1, PassedUnbind DEF UnbindID, UnbindItems, InClient
  <2>. QED
    BY <1>3, <2>1, PassedProcessEvent
<1>4. ASSUME NEW t \in Threads, UnbindAll(t)
      PROVE  PassedInv'
  BY <1>4, PassedUnbind DEF UnbindAll, UnbindItems, InClient
<1>5. ASSUME NEW t \in Threads, NEW slot \in 1..MaxBinds, UnbindSlot(t, slot)
      PROVE  PassedInv'
  BY <1>5, PassedUnbind DEF UnbindSlot, InClient
<1>6. ASSUME NEW t \in Threads, HandlerHandles(t) \/ NobodyHandles(t)
      PROVE  PassedInv'
  <2>1. ~dangling /\ Depth(t) > 0 /\ UNCHANGED <<table, binds>> /\ Top(t) \in Searches
    BY <1>6, SearchTypes DEF HandlerHandles, NobodyHandles, In
  <2>2. CASE HandlerHandles(t)
    <3> DEFINE slot == OneShotSlot(table[Top(t).index])
    <3>1. slot \in Nat
      <4>1. Bounded(Top(t)) /\ Top(t).at = "execute"
        BY <2>1, <2>2, SearchTypes DEF HandlerHandles, In, Top
      <4>2. table[Top(t).index] \in Items \cup {NullItem}
        BY <2>1, <4>1, LiveItems, TypeParts DEF TableInv, DataOK, Bounded, Searches
      <4>. QED
        BY <4>2 DEF OneShotSlot, Items, NullItem
    <3>2. SetTop(t, [Top(t) EXCEPT !.at = "after", !.slot = slot])
      BY <2>2 DEF HandlerHandles
    <3> HIDE DEF slot
    <3>3. /\ Top(t).nulls \in Nat
          /\ [Top(t) EXCEPT !.at = "after", !.slot = slot]
               = [Top(t) EXCEPT !.at = "after", !.nulls = Top(t).nulls, !.slot = slot]
      BY <2>1, <3>1 DEF Searches
    <3>. QED
      BY <2>1, <3>1, <3>2, <3>3, PassedOver
  <2>3. CASE NobodyHandles(t)
    <3> DEFINE n == Top(t).nulls + NullsBetween(1, Top(t).index - 1)
    <3>1. n \in Nat
      <4>1. 1 \in Int /\ Top(t).index - 1 \in Int /\ Top(t).nulls \in Nat
        BY <2>1 DEF Searches
      <4>2. NullsBetween(1, Top(t).index - 1) \in Nat
        BY <4>1, NullsBetweenType
      <4>. QED
        BY <4>1, <4>2
    <3>2. SetTop(t, [Top(t) EXCEPT !.at = "after", !.nulls = n])
      BY <2>3 DEF NobodyHandles
    <3> HIDE DEF n
    <3>3. /\ Top(t).slot \in Nat
          /\ [Top(t) EXCEPT !.at = "after", !.nulls = n]
               = [Top(t) EXCEPT !.at = "after", !.nulls = n, !.slot = Top(t).slot]
      BY <2>1, <3>1 DEF Searches
    <3>. QED
      BY <2>1, <3>1, <3>2, <3>3, PassedOver
  <2>. QED
    BY <1>6, <2>2, <2>3
<1>7. ASSUME NEW t \in Threads, SearchStep(t)
      PROVE  PassedInv'
  BY <1>6, <1>7, PassedExecute, PassedSkip, PassedLeave, PassedPurge DEF SearchStep
<1>. QED
  BY <1>1, <1>2, <1>3, <1>4, <1>5, <1>7 DEF Next
--------------------------------------------------------------------------------
(* The searches of a thread as offers.                                       *)

LEMMA OffersOfThread ==
  ASSUME searches \in [Threads -> Seq(Searches)], NEW t \in Threads
  PROVE  /\ Offers[t] = [k \in 1..Depth(t) |-> OfferOf(searches[t][k])]
         /\ Depth(t) \in Nat /\ Len(Offers[t]) = Depth(t)
         /\ \A k \in 1..Depth(t) : Offers[t][k] = OfferOf(searches[t][k])
         /\ Offers[t] = <<>> <=> Depth(t) = 0
<1>1. Offers[t] = [k \in 1..Depth(t) |-> OfferOf(searches[t][k])]
  BY DEF Offers
<1>2. Depth(t) \in Nat
  BY DEF Depth
<1> DEFINE q == Offers[t]
           n == Depth(t)
<1>3. q = [k \in 1..n |-> OfferOf(searches[t][k])] /\ n \in Nat
  BY <1>1, <1>2
<1> HIDE DEF q, n
<1>4. Len(q) = n /\ \A k \in 1..n : q[k] = OfferOf(searches[t][k])
  BY <1>3
<1>5. q = <<>> <=> n = 0
  <2> DEFINE E == {OfferOf(searches[t][k]) : k \in 1..n}
  <2>1. q \in Seq(E)
    <3>1. q \in [1..n -> E]
      BY <1>3
    <3>. QED
      BY <1>3, <3>1
  <2> HIDE DEF E
  <2>. QED
    BY <1>4, <2>1
<1>. QED
  BY <1>1, <1>2, <1>4, <1>5 DEF q, n

(* The offer an abstract step looks at.                                      *)
LEMMA InnermostOffer ==
  ASSUME TableInv, NEW t \in Threads
  PROVE  /\ Depth(t) > 0 => Abstract!Innermost(t) = OfferOf(Top(t))
         /\ \A place : Abstract!At(t, place) <=> Depth(t) > 0 /\ Top(t).at = place
         /\ Abstract!Offering(t) <=> HoldsLock(t)
<1>1. searches \in [Threads -> Seq(Searches)] /\ \A k \in 1..Depth(t) : searches[t][k] \in Searches
  BY SearchTypes, TypeParts DEF TableInv, SearchesOK
<1>2. /\ Depth(t) \in Nat /\ Len(Offers[t]) = Depth(t)
      /\ \A k \in 1..Depth(t) : Offers[t][k] = OfferOf(searches[t][k])
      /\ Offers[t] = <<>> <=> Depth(t) = 0
  BY <1>1, OffersOfThread
<1>3. Depth(t) > 0 => Abstract!Innermost(t) = OfferOf(Top(t))
  BY <1>2 DEF Abstract!Innermost, Top
<1>4. \A s : OfferOf(s).at = s.at
  BY DEF OfferOf
<1>5. \A place : Abstract!At(t, place) <=> Depth(t) > 0 /\ Top(t).at = place
  BY <1>2, <1>3, <1>4 DEF Abstract!At
<1>6. Abstract!Offering(t) <=> \E k \in 1..Depth(t) : searches[t][k].at # "after"
  BY <1>2, <1>4 DEF Abstract!Offering
<1>7. HoldsLock(t) <=> \E k \in 1..Depth(t) : searches[t][k].at # "after"
  BY <1>1 DEF HoldsLock, Depth, Searches
<1>. QED
  BY <1>3, <1>5, <1>6, <1>7

LEMMA SameClients ==
  ASSUME TableInv, NEW t \in Threads
  PROVE  /\ MayLock(t) <=> Abstract!Free(t)
         /\ InClient(t) => Abstract!InClient(t)
<1>1. \A u \in Threads : Abstract!Offering(u) <=> HoldsLock(u)
  BY InnermostOffer
<1>2. MayLock(t) <=> Abstract!Free(t)
  BY <1>1 DEF MayLock, Abstract!Free
<1>3. InClient(t) => Depth(t) = 0 \/ (Depth(t) > 0 /\ Top(t).at = "execute")
  BY SearchTypes DEF InClient
<1>4. Offers[t] = <<>> <=> Depth(t) = 0
  BY OffersOfThread, TypeParts DEF TableInv, SearchesOK
<1>. QED
  BY <1>2, <1>3, <1>4, InnermostOffer DEF Abstract!InClient

(* What the searches do is done to the offers.                               *)
LEMMA OffersFunction == Offers = [t \in Threads |-> Offers[t]]
BY DEF Offers

LEMMA OthersOffers ==
  ASSUME NEW t \in Threads, OnlyOf(t), NEW r, Offers'[t] = r
  PROVE  Offers' = [Offers EXCEPT ![t] = r]
BY DEF Offers, OnlyOf, Depth

LEMMA SetTopOffer ==
  ASSUME TableInv, NEW t \in Threads, Depth(t) > 0, NEW s \in Searches, SetTop(t, s)
  PROVE  Abstract!SetInnermost(t, OfferOf(s))
<1>1. searches \in [Threads -> Seq(Searches)]
  BY TypeParts DEF TableInv, SearchesOK
<1>2. /\ searches' \in [Threads -> Seq(Searches)] /\ OnlyOf(t)
      /\ Len(searches'[t]) = Depth(t) /\ searches'[t][Depth(t)] = s
      /\ \A k \in 1..(Depth(t) - 1) : searches'[t][k] = searches[t][k]
  BY <1>1, SetTopEffect
<1> DEFINE n == Depth(t)
           q == Offers[t]
<1>3. n \in Nat /\ q = [k \in 1..n |-> OfferOf(searches[t][k])] /\ Len(q) = n
  BY <1>1, OffersOfThread
<1>4. Offers'[t] = [k \in 1..n |-> OfferOf(searches'[t][k])]
  BY <1>2 DEF Offers, Depth
<1>5. n > 0
  OBVIOUS
<1>6. searches'[t][n] = s /\ \A k \in 1..(n - 1) : searches'[t][k] = searches[t][k]
  BY <1>2
<1> HIDE DEF n, q
<1>7. Offers'[t] = [q EXCEPT ![n] = OfferOf(s)]
  BY <1>3, <1>4, <1>5, <1>6
<1>8. Offers' = [Offers EXCEPT ![t] = [q EXCEPT ![n] = OfferOf(s)]]
  BY <1>2, <1>7, OthersOffers
<1>. QED
  BY <1>3, <1>8 DEF Abstract!SetInnermost, q

LEMMA PopOffer ==
  ASSUME TableInv, NEW t \in Threads, Depth(t) > 0, Pop(t)
  PROVE  Offers' = [Offers EXCEPT ![t] = SubSeq(@, 1, Len(@) - 1)]
<1>1. searches \in [Threads -> Seq(Searches)]
  BY TypeParts DEF TableInv, SearchesOK
<1>2. /\ searches' \in [Threads -> Seq(Searches)] /\ OnlyOf(t)
      /\ Len(searches'[t]) = Depth(t) - 1
      /\ \A k \in 1..(Depth(t) - 1) : searches'[t][k] = searches[t][k]
  BY <1>1, PopEffect
<1> DEFINE n == Depth(t)
           q == Offers[t]
<1>3. n \in Nat /\ q = [k \in 1..n |-> OfferOf(searches[t][k])] /\ Len(q) = n
  BY <1>1, OffersOfThread
<1>4. Offers'[t] = [k \in 1..(n - 1) |-> OfferOf(searches'[t][k])]
  BY <1>2 DEF Offers, Depth
<1>5. n > 0 /\ \A k \in 1..(n - 1) : searches'[t][k] = searches[t][k]
  BY <1>2
<1> HIDE DEF n, q
<1>6. Offers'[t] = [k \in 1..(n - 1) |-> q[k]]
  BY <1>3, <1>4, <1>5
<1>7. SubSeq(q, 1, n - 1) = [k \in 1..(n - 1) |-> q[k]]
  BY <1>3, <1>5
<1>8. Offers' = [Offers EXCEPT ![t] = SubSeq(q, 1, n - 1)]
  BY <1>2, <1>6, <1>7, OthersOffers
<1>. QED
  BY <1>3, <1>8 DEF q

LEMMA PushOffer ==
  ASSUME TableInv, NEW t \in Threads, NEW s \in Searches,
         searches' = [searches EXCEPT ![t] = Append(@, s)]
  PROVE  Offers' = [Offers EXCEPT ![t] = Append(@, OfferOf(s))]
<1>1. searches \in [Threads -> Seq(Searches)]
  BY TypeParts DEF TableInv, SearchesOK
<1>2. /\ searches' \in [Threads -> Seq(Searches)] /\ OnlyOf(t)
      /\ Len(searches'[t]) = Depth(t) + 1 /\ searches'[t][Depth(t) + 1] = s
      /\ \A k \in 1..Depth(t) : searches'[t][k] = searches[t][k]
  BY <1>1, PushEffect
<1> DEFINE n == Depth(t)
           q == Offers[t]
<1>3. n \in Nat /\ q = [k \in 1..n |-> OfferOf(searches[t][k])] /\ Len(q) = n
  BY <1>1, OffersOfThread
<1>4. Offers'[t] = [k \in 1..(n + 1) |-> OfferOf(searches'[t][k])]
  BY <1>2 DEF Offers, Depth
<1>5. searches'[t][n + 1] = s /\ \A k \in 1..n : searches'[t][k] = searches[t][k]
  BY <1>2
<1> HIDE DEF n, q
<1>6. Offers'[t] = Append(q, OfferOf(s))
  <2>1. Offers'[t] = [k \in 1..(n + 1) |-> IF k = n + 1 THEN OfferOf(s) ELSE q[k]]
    <3> DEFINE r(k) == IF k = n + 1 THEN OfferOf(s) ELSE q[k]
    <3>1. ASSUME NEW k \in 1..(n + 1)
          PROVE  OfferOf(searches'[t][k]) = r(k)
      <4>1. n \in Nat
        BY <1>3
      <4>2. CASE k = n + 1
        <5>1. searches'[t][k] = s
          BY <1>5, <4>2
        <5>2. r(k) = OfferOf(s)
          BY <4>2
        <5> HIDE DEF r
        <5>. QED
          BY <5>1, <5>2
      <4>3. CASE k # n + 1
        <5>1. k \in 1..n
          BY <4>1, <4>3
        <5>2. q[k] = OfferOf(searches[t][k]) /\ searches'[t][k] = searches[t][k]
          BY <1>3, <1>5, <5>1
        <5>. QED
          BY <4>3, <5>2
      <4>. QED
        BY <4>2, <4>3
    <3>. QED
      BY <1>4, <3>1
  <2>. QED
    BY <1>3, <2>1
<1>7. Offers' = [Offers EXCEPT ![t] = Append(q, OfferOf(s))]
  BY <1>2, <1>6, OthersOffers
<1>. QED
  BY <1>7 DEF q

LEMMA SameOffers ==
  ASSUME UNCHANGED searches
  PROVE  Offers' = Offers
BY DEF Offers, Depth

LEMMA SameItems ==
  ASSUME UNCHANGED table
  PROVE  BoundItems' = BoundItems
BY DEF BoundItems, Live

--------------------------------------------------------------------------------
(* Every step is a step of Bindings.                                         *)

(* Unbinding some bindings is nulling their items.                           *)
LEMMA NulledBound ==
  ASSUME TableInv, NEW B, table' = Nulled({i \in Live : table[i] \in B})
  PROVE  BoundItems' = BoundItems \ B
<1>1. /\ Live' = Live \ {i \in Live : table[i] \in B}
      /\ \A i \in Live' : table'[i] = table[i]
  BY NulledEffect, TypeParts DEF TableInv, DataOK
<1>. QED
  BY <1>1 DEF BoundItems

LEMMA OneOfSlot ==
  ASSUME TableInv, NEW slot, HaveSlot(slot) # {}
  PROVE  {LastOf(HaveSlot(slot))} = HaveSlot(slot)
<1>1. /\ HaveSlot(slot) \subseteq Live /\ Len(table) \in Nat /\ Live \subseteq 1..Len(table)
      /\ \A j \in Live : j \in Nat /\ table[j].slot \in Nat
  BY LiveItems, TypeParts DEF HaveSlot, TableInv, DataOK
<1>2. \A i, j \in HaveSlot(slot) : i = j
  BY <1>1 DEF HaveSlot, TableInv, OrderInv, SlotsAscend
<1>3. LastOf(HaveSlot(slot)) \in HaveSlot(slot)
  BY <1>1, LastOfProperties
<1>. QED
  BY <1>2, <1>3

LEMMA BindBinds ==
  ASSUME TableInv, NEW t \in Threads, NEW id \in EventIDs, NEW executor \in Executors,
         NEW flag \in {"none", "oneShot", "alwaysSkip"}, NEW unique \in BOOLEAN,
         Bind(t, id, executor, flag, unique)
  PROVE  Abstract!ClientStep(t)
<1> DEFINE slot == bindSlot + 1
           item == [id |-> id, executor |-> executor, flag |-> flag,
                    slot |-> slot, serial |-> binds + 1]
<1>1. DataOK /\ OrderInv /\ Len(table) \in Nat /\ binds \in Nat /\ bindSlot \in Nat
  BY TypeParts, Serials DEF TableInv
<1>2. slot \in 1..MaxBinds
  BY <1>1, Serials DEF OrderInv, Bind
<1>3. \A b \in BoundItems : b.slot # slot
  <2>1. \A i \in Live : table[i].slot # slot
    BY <1>1 DEF OrderInv, SlotsAscend
  <2>. QED
    BY <2>1 DEF BoundItems
<1>4. table' = Append(table, item) /\ ~IsNull(item)
  BY TableAssumption DEF Bind, IsNull, NullItem
<1>5. BoundItems' = BoundItems \cup {item}
  <2> HIDE DEF item
  <2>1. /\ Len(table') = Len(table) + 1 /\ table'[Len(table) + 1] = item
        /\ \A i \in 1..Len(table) : table'[i] = table[i]
    BY <1>1, <1>4 DEF DataOK
  <2>2. 1..(Len(table) + 1) = (1..Len(table)) \cup {Len(table) + 1}
    BY <1>1
  <2>3. Live' = Live \cup {Len(table) + 1}
    BY <1>1, <1>4, <2>1, <2>2 DEF Live
  <2>4. \A i \in Live : i \in 1..Len(table)
    BY DEF Live
  <2>. QED
    BY <2>1, <2>3, <2>4 DEF BoundItems
<1>6. Offers' = Offers /\ binds' = binds + 1 /\ InClient(t) /\ MayLock(t)
  BY SameOffers DEF Bind
<1>7. Abstract!Bind(id, executor, flag, slot)
  BY <1>3, <1>5, <1>6 DEF Abstract!Bind
<1> HIDE DEF slot
<1>. QED
  BY <1>2, <1>6, <1>7, SameClients DEF Abstract!ClientStep

LEMMA UnbindUnbinds ==
  ASSUME TableInv, NEW t \in Threads, NEW id \in EventIDs, NEW executor \in Executors,
         Unbind(t, id, executor)
  PROVE  Abstract!ClientStep(t)
<1> DEFINE B == {b \in BoundItems : b.id = id /\ b.executor = executor}
<1>1. Offers' = Offers /\ Abstract!InClient(t) /\ Abstract!Free(t)
  BY SameOffers, SameClients DEF Unbind, UnbindItems
<1>2. {i \in Live : Same(table[i], id, executor)} = {i \in Live : table[i] \in B}
  BY DEF BoundItems, Same
<1>3. BoundItems' = BoundItems \ B
  BY <1>2, NulledBound DEF Unbind, UnbindItems
<1>4. Abstract!Unbind(B)
  BY <1>1, <1>3 DEF Abstract!Unbind, Unbind, UnbindItems
<1>. QED
  BY <1>1, <1>4 DEF Abstract!ClientStep

LEMMA UnbindIDUnbinds ==
  ASSUME TableInv, NEW t \in Threads, NEW id \in EventIDs, UnbindID(t, id)
  PROVE  Abstract!ClientStep(t)
<1> DEFINE B == {b \in BoundItems : b.id = id}
<1>1. Offers' = Offers /\ Abstract!InClient(t) /\ Abstract!Free(t)
  BY SameOffers, SameClients DEF UnbindID, UnbindItems
<1>2. {i \in Live : table[i].id = id} = {i \in Live : table[i] \in B}
  BY DEF BoundItems
<1>3. BoundItems' = BoundItems \ B
  BY <1>2, NulledBound DEF UnbindID, UnbindItems
<1>4. Abstract!Unbind(B)
  BY <1>1, <1>3 DEF Abstract!Unbind, UnbindID, UnbindItems
<1>. QED
  BY <1>1, <1>4 DEF Abstract!ClientStep

LEMMA UnbindAllUnbinds ==
  ASSUME TableInv, NEW t \in Threads, UnbindAll(t)
  PROVE  Abstract!ClientStep(t)
<1>1. Offers' = Offers /\ Abstract!InClient(t) /\ Abstract!Free(t)
  BY SameOffers, SameClients DEF UnbindAll, UnbindItems
<1>2. Live' = {}
  BY NulledEffect, TypeParts DEF TableInv, DataOK, UnbindAll, UnbindItems, Live
<1>3. BoundItems' = BoundItems \ BoundItems
  BY <1>2 DEF BoundItems
<1>4. Abstract!Unbind(BoundItems)
  BY <1>1, <1>3 DEF Abstract!Unbind, UnbindAll, UnbindItems
<1>. QED
  BY <1>1, <1>4 DEF Abstract!ClientStep

LEMMA UnbindSlotUnbinds ==
  ASSUME TableInv, NEW t \in Threads, NEW slot \in 1..MaxBinds, UnbindSlot(t, slot)
  PROVE  Abstract!ClientStep(t)
<1> DEFINE B == {b \in BoundItems : b.slot = slot}
<1>1. Offers' = Offers /\ Abstract!InClient(t) /\ Abstract!Free(t)
  BY SameOffers, SameClients DEF UnbindSlot
<1>2. HaveSlot(slot) = {i \in Live : table[i] \in B}
  BY DEF HaveSlot, BoundItems
<1>3. table' = Nulled(HaveSlot(slot))
  BY OneOfSlot DEF UnbindSlot
<1>4. BoundItems' = BoundItems \ B
  BY <1>2, <1>3, NulledBound
<1>5. Abstract!Unbind(B)
  BY <1>1, <1>4 DEF Abstract!Unbind, UnbindSlot
<1>. QED
  BY <1>1, <1>5 DEF Abstract!ClientStep

LEMMA ProcessEventOffers ==
  ASSUME TableInv, NEW t \in Threads, NEW id \in EventIDs, ProcessEvent(t, id)
  PROVE  Abstract!ClientStep(t)
<1> DEFINE s == [id |-> id, at |-> "search", index |-> Len(table) + 1, size |-> Len(table),
                 nulls |-> 0, slot |-> 0, limit |-> binds + 1]
<1>1. s \in Searches
  <2>1. binds \in 0..MaxBinds
    BY TypeParts DEF TableInv, DataOK
  <2>. QED
    BY <2>1, Serials DEF Searches
<1>2. searches' = [searches EXCEPT ![t] = Append(@, s)]
  BY DEF ProcessEvent
<1>3. OfferOf(s) = [id |-> id, at |-> "search", limit |-> binds + 1, spent |-> {}]
  BY DEF OfferOf
<1> HIDE DEF s
<1>4. Offers' = [Offers EXCEPT ![t] = Append(@, OfferOf(s))]
  BY <1>1, <1>2, PushOffer
<1>5. Abstract!ProcessEvent(t, id)
  BY <1>3, <1>4, SameItems DEF Abstract!ProcessEvent, ProcessEvent
<1>. QED
  BY <1>5, SameClients DEF Abstract!ClientStep, ProcessEvent
(* What the iterator has not passed is what the limit leaves.                 *)
LEMMA RemainingAreCandidates ==
  ASSUME TableInv, PassedInv, NEW t \in Threads, In(t, "search")
  PROVE  Abstract!Candidates(t) = {table[i] : i \in Remaining(t)}
<1> DEFINE top == Top(t)
<1>1. Bounded(top) /\ Passed(top) /\ top \in Searches /\ top.at = "search" /\ Depth(t) > 0
  BY SearchTypes DEF In, PassedInv, Top
<1>2. Abstract!Innermost(t) = OfferOf(top)
  BY <1>1, InnermostOffer
<1>3. Abstract!Innermost(t).id = top.id /\ Abstract!Innermost(t).limit = top.limit
  BY <1>2 DEF OfferOf
<1> HIDE DEF top
<1>4. ASSUME NEW i \in Live
      PROVE  i < top.index <=> table[i].serial < top.limit
  <2>1. i < top.index => table[i].serial < top.limit
    BY <1>1 DEF Bounded
  <2>2. i >= top.index => table[i].serial >= top.limit
    BY <1>1 DEF Passed
  <2>3. i \in Nat /\ top.index \in Nat /\ top.limit \in Nat /\ table[i].serial \in Nat
    BY <1>1, Serials DEF Searches
  <2>. QED
    BY <2>1, <2>2, <2>3
<1>5. Remaining(t) = {i \in Live : table[i].id = top.id /\ table[i].serial < top.limit}
  BY <1>4 DEF Remaining, top
<1>. QED
  BY <1>3, <1>5 DEF Abstract!Candidates, BoundItems

LEMMA ExecuteOffers ==
  ASSUME TableInv, PassedInv, NEW t \in Threads, ExecuteEventHandler(t)
  PROVE  Abstract!Offer(t)
<1> DEFINE i == LastOf(Remaining(t))
           n == Top(t).nulls + NullsBetween(i + 1, Top(t).index - 1)
           limit == table[i].serial
           s == CallAt(Top(t), i, limit, n)
<1>1. Top(t) \in Searches /\ Top(t).at = "search" /\ In(t, "search") /\ Depth(t) > 0
  BY SearchTypes DEF ExecuteEventHandler, In
<1>2. /\ i \in Remaining(t) /\ \A j \in Remaining(t) : j \in Live /\ j <= i
  <2>1. Len(table) \in Nat /\ Live \subseteq 1..Len(table) /\ Remaining(t) \subseteq Live
    BY LiveItems, TypeParts DEF TableInv, DataOK, Remaining
  <2>. QED
    BY <2>1, LastOfProperties DEF ExecuteEventHandler
<1>3. SetTop(t, s)
  BY DEF ExecuteEventHandler, CallAt
<1> HIDE DEF i
<1>4. n \in Nat
  <2>1. i + 1 \in Int /\ Top(t).index - 1 \in Int /\ Top(t).nulls \in Nat
    BY <1>1, <1>2, Serials DEF Searches
  <2>2. NullsBetween(i + 1, Top(t).index - 1) \in Nat
    BY <2>1, NullsBetweenType
  <2>. QED
    BY <2>1, <2>2
<1>5. i \in Nat \ {0} /\ limit \in 1..(MaxBinds + 1)
  BY <1>2, LiveItems, Serials, TypeParts DEF TableInv, DataOK
<1>6. \A j \in Remaining(t) : table[j].serial <= table[i].serial
  <2>1. \A j \in Remaining(t) : j < i \/ j = i
    BY <1>2, Serials
  <2>. QED
    BY <1>2, <2>1, Serials DEF TableInv, OrderInv, SerialsAscend
<1>7. Abstract!Candidates(t) = {table[j] : j \in Remaining(t)}
  BY <1>1, RemainingAreCandidates
<1>8. Abstract!Innermost(t) = OfferOf(Top(t)) /\ Abstract!At(t, "search")
  BY <1>1, InnermostOffer
<1> HIDE DEF n
<1>9. s \in Searches
  <2> HIDE DEF limit
  <2>. QED
    BY <1>1, <1>4, <1>5, CallAtType
<1>10. OfferOf(s) = [OfferOf(Top(t)) EXCEPT !.at = "execute", !.limit = limit]
  <2>1. s.id = Top(t).id /\ s.at = "execute" /\ s.limit = limit /\ s.slot = Top(t).slot
    BY <1>1 DEF CallAt, Searches
  <2> HIDE DEF s, limit
  <2> DEFINE offer == OfferOf(Top(t))
             spent == offer.spent
  <2>2. OfferOf(s) = [id |-> Top(t).id, at |-> "execute", limit |-> limit, spent |-> spent]
    BY <2>1 DEF OfferOf
  <2>3. offer = [id |-> Top(t).id, at |-> Top(t).at, limit |-> Top(t).limit, spent |-> spent]
    BY DEF OfferOf
  <2> HIDE DEF spent, offer
  <2>4. [offer EXCEPT !.at = "execute", !.limit = limit]
          = [id |-> Top(t).id, at |-> "execute", limit |-> limit, spent |-> spent]
    <3> DEFINE moved == [offer EXCEPT !.at = "execute"]
    <3>1. moved = [id |-> Top(t).id, at |-> "execute", limit |-> Top(t).limit, spent |-> spent]
      BY <2>3
    <3>2. [offer EXCEPT !.at = "execute", !.limit = limit] = [moved EXCEPT !.limit = limit]
      OBVIOUS
    <3> HIDE DEF moved
    <3>. QED
      BY <3>1, <3>2
  <2>. QED
    BY <2>2, <2>4 DEF offer
<1> HIDE DEF s
<1>11. Abstract!SetInnermost(t, OfferOf(s))
  BY <1>1, <1>3, <1>9, SetTopOffer
<1>12. BoundItems' = BoundItems /\ binds' = binds
  BY SameItems DEF ExecuteEventHandler
<1>13. table[i] \in Abstract!Candidates(t)
       /\ \A c \in Abstract!Candidates(t) : c.serial <= table[i].serial
  BY <1>2, <1>6, <1>7
<1>14. Abstract!SetInnermost(t, [Abstract!Innermost(t) EXCEPT !.at = "execute",
                                                              !.limit = table[i].serial])
  BY <1>8, <1>10, <1>11
<1>. QED
  BY <1>8, <1>12, <1>13, <1>14 DEF Abstract!Offer

LEMMA SkipSkips ==
  ASSUME TableInv, NEW t \in Threads, HandlerSkips(t)
  PROVE  Abstract!Skip(t)
<1> DEFINE s == [Top(t) EXCEPT !.at = "search"]
<1>1. Top(t) \in Searches /\ Top(t).at = "execute" /\ Depth(t) > 0
  BY SearchTypes DEF HandlerSkips, In
<1>2. s \in Searches /\ OfferOf(s) = [OfferOf(Top(t)) EXCEPT !.at = "search"]
  BY <1>1 DEF Searches, OfferOf
<1>3. SetTop(t, s)
  BY DEF HandlerSkips
<1> HIDE DEF s
<1>4. Abstract!SetInnermost(t, OfferOf(s))
  BY <1>1, <1>2, <1>3, SetTopOffer
<1>5. Abstract!Innermost(t) = OfferOf(Top(t)) /\ Abstract!At(t, "execute")
  BY <1>1, InnermostOffer
<1>. QED
  BY <1>2, <1>4, <1>5, SameItems DEF Abstract!Skip, HandlerSkips

LEMMA NobodyGivesUp ==
  ASSUME TableInv, PassedInv, NEW t \in Threads, NobodyHandles(t)
  PROVE  Abstract!GiveUp(t)
<1> DEFINE n == Top(t).nulls + NullsBetween(1, Top(t).index - 1)
           s == [Top(t) EXCEPT !.at = "after", !.nulls = n]
<1>1. Top(t) \in Searches /\ Top(t).at = "search" /\ In(t, "search") /\ Depth(t) > 0
  BY SearchTypes DEF NobodyHandles, In
<1>2. n \in Nat
  <2>1. 1 \in Int /\ Top(t).index - 1 \in Int /\ Top(t).nulls \in Nat
    BY <1>1 DEF Searches
  <2>2. NullsBetween(1, Top(t).index - 1) \in Nat
    BY <2>1, NullsBetweenType
  <2>. QED
    BY <2>1, <2>2
<1>3. SetTop(t, s)
  BY DEF NobodyHandles
<1> HIDE DEF n
<1>4. s \in Searches /\ OfferOf(s) = [OfferOf(Top(t)) EXCEPT !.at = "after"]
  <2>1. /\ s \in Searches /\ s.id = Top(t).id /\ s.at = "after"
        /\ s.limit = Top(t).limit /\ s.slot = Top(t).slot
    BY <1>1, <1>2 DEF Searches
  <2> HIDE DEF s
  <2>. QED
    BY <2>1 DEF OfferOf
<1> HIDE DEF s
<1>5. Abstract!SetInnermost(t, OfferOf(s))
  BY <1>1, <1>3, <1>4, SetTopOffer
<1>6. Abstract!Innermost(t) = OfferOf(Top(t)) /\ Abstract!At(t, "search")
  BY <1>1, InnermostOffer
<1>7. Abstract!Candidates(t) = {}
  BY <1>1, RemainingAreCandidates DEF NobodyHandles
<1>. QED
  BY <1>4, <1>5, <1>6, <1>7, SameItems DEF Abstract!GiveUp, NobodyHandles

(* The item at the iterator is the binding that was asked, or a null item.    *)
LEMMA AskedItem ==
  ASSUME TableInv, OneShotInv, NEW t \in Threads, In(t, "execute")
  PROVE  /\ Top(t).index \in Live => Abstract!Asked(t) = {table[Top(t).index]}
         /\ Top(t).index \notin Live => /\ Abstract!Asked(t) = {}
                                        /\ table[Top(t).index] = NullItem
<1> DEFINE top == Top(t)
<1>1. /\ Bounded(top) /\ Called(top) /\ top \in Searches /\ top.at = "execute" /\ Depth(t) > 0
  BY SearchTypes DEF In, OneShotInv, Top
<1>2. Abstract!Innermost(t).limit = top.limit
  <2>1. Abstract!Innermost(t) = OfferOf(top)
    BY <1>1, InnermostOffer
  <2>. QED
    BY <2>1 DEF OfferOf
<1> HIDE DEF top
<1>3. Abstract!Asked(t) = {table[i] : i \in {j \in Live : j = top.index}}
  BY <1>1, <1>2 DEF Abstract!Asked, BoundItems, Called
<1>4. top.index \in 1..Len(table)
  BY <1>1, Serials DEF Bounded, Searches
<1>5. top.index \notin Live => table[top.index] = NullItem
  BY <1>4 DEF Live, IsNull
<1>. QED
  BY <1>3, <1>5 DEF top

LEMMA HandlerHandlesOffer ==
  ASSUME TableInv, OneShotInv, NEW t \in Threads, HandlerHandles(t)
  PROVE  Abstract!Handle(t)
<1> DEFINE item == table[Top(t).index]
           slot == OneShotSlot(item)
           s == [Top(t) EXCEPT !.at = "after", !.slot = slot]
           spent == {b.slot : b \in {a \in Abstract!Asked(t) : a.flag = "oneShot"}}
<1>1. Top(t) \in Searches /\ Top(t).at = "execute" /\ In(t, "execute") /\ Depth(t) > 0
  BY SearchTypes DEF HandlerHandles, In
<1>2. item.flag # "alwaysSkip"
  BY DEF HandlerHandles
<1>3. /\ slot \in Nat /\ \A b \in Abstract!Asked(t) : b.flag # "alwaysSkip"
      /\ spent = IF slot = 0 THEN {} ELSE {slot}
  <2>1. CASE Top(t).index \in Live
    <3>1. Abstract!Asked(t) = {item}
      BY <1>1, <2>1, AskedItem
    <3>2. item.slot \in Nat \ {0}
      BY <2>1, LiveItems, TypeParts DEF TableInv, DataOK
    <3> HIDE DEF item
    <3>3. slot = IF item.flag = "oneShot" THEN item.slot ELSE 0
      BY DEF OneShotSlot
    <3>4. spent = IF item.flag = "oneShot" THEN {item.slot} ELSE {}
      BY <3>1
    <3>. QED
      BY <1>2, <3>1, <3>2, <3>3, <3>4
  <2>2. CASE Top(t).index \notin Live
    <3>1. Abstract!Asked(t) = {} /\ item = NullItem
      BY <1>1, <2>2, AskedItem
    <3>2. slot = 0
      BY <3>1 DEF OneShotSlot, NullItem
    <3>. QED
      BY <3>1, <3>2
  <2>. QED
    BY <2>1, <2>2
<1>4. SetTop(t, s)
  BY DEF HandlerHandles
<1> HIDE DEF slot, spent
<1>5. s \in Searches /\ OfferOf(s) = [OfferOf(Top(t)) EXCEPT !.at = "after", !.spent = spent]
  <2>1. /\ s \in Searches /\ s.id = Top(t).id /\ s.at = "after"
        /\ s.limit = Top(t).limit /\ s.slot = slot
    BY <1>1, <1>3 DEF Searches
  <2> HIDE DEF s
  <2>2. OfferOf(s) = [id |-> Top(t).id, at |-> "after", limit |-> Top(t).limit, spent |-> spent]
    BY <1>3, <2>1 DEF OfferOf
  <2> DEFINE offer == OfferOf(Top(t))
             before == offer.spent
  <2>3. offer = [id |-> Top(t).id, at |-> Top(t).at, limit |-> Top(t).limit, spent |-> before]
    BY DEF OfferOf
  <2> HIDE DEF before, offer
  <2>4. [offer EXCEPT !.at = "after", !.spent = spent]
          = [id |-> Top(t).id, at |-> "after", limit |-> Top(t).limit, spent |-> spent]
    <3> DEFINE moved == [offer EXCEPT !.at = "after"]
    <3>1. moved = [id |-> Top(t).id, at |-> "after", limit |-> Top(t).limit, spent |-> before]
      BY <2>3
    <3>2. [offer EXCEPT !.at = "after", !.spent = spent] = [moved EXCEPT !.spent = spent]
      OBVIOUS
    <3> HIDE DEF moved
    <3>. QED
      BY <3>1, <3>2
  <2>. QED
    BY <2>1, <2>2, <2>4 DEF offer
<1> HIDE DEF s
<1>6. Abstract!SetInnermost(t, OfferOf(s))
  BY <1>1, <1>4, <1>5, SetTopOffer
<1>7. Abstract!Innermost(t) = OfferOf(Top(t)) /\ Abstract!At(t, "execute")
  BY <1>1, InnermostOffer
<1>8. BoundItems' = BoundItems /\ binds' = binds
  BY SameItems DEF HandlerHandles
<1>. QED
  BY <1>3, <1>5, <1>6, <1>7, <1>8 DEF Abstract!Handle, spent

(* The bindings that stay when the search of t returns.                      *)
LEMMA KeptBound ==
  ASSUME TableInv, NEW t \in Threads, Depth(t) > 0
  PROVE  {table[i] : i \in Kept(t)} = {b \in BoundItems : b.slot \notin OfferOf(Top(t)).spent}
<1> DEFINE slot == Top(t).slot
<1>1. slot \in Nat
  BY SearchTypes DEF Searches
<1>2. \A i \in Live : table[i].slot # 0
  BY LiveItems, TypeParts DEF TableInv, DataOK
<1>3. OneShotItem(t) = HaveSlot(slot)
  BY OneOfSlot DEF OneShotItem
<1>4. Kept(t) = {i \in Live : table[i].slot # slot}
  BY <1>3 DEF Kept, HaveSlot
<1>5. OfferOf(Top(t)).spent = IF slot = 0 THEN {} ELSE {slot}
  BY DEF OfferOf
<1> HIDE DEF slot
<1>. QED
  BY <1>2, <1>4, <1>5 DEF BoundItems

LEMMA LeaveReturns ==
  ASSUME TableInv, NEW t \in Threads, LeaveTable(t)
  PROVE  Abstract!Return(t)
<1>1. Top(t).at = "after" /\ Depth(t) > 0 /\ Pop(t) /\ Top(t).slot = 0
  BY DEF LeaveTable, In
<1>2. Abstract!Innermost(t) = OfferOf(Top(t)) /\ Abstract!At(t, "after")
  BY <1>1, InnermostOffer
<1>3. Abstract!Innermost(t).spent = {}
  BY <1>1, <1>2 DEF OfferOf
<1>4. Offers' = [Offers EXCEPT ![t] = SubSeq(@, 1, Len(@) - 1)]
  BY <1>1, PopOffer
<1>5. BoundItems' = {b \in BoundItems : b.slot \notin {}} /\ binds' = binds
  BY SameItems DEF LeaveTable
<1>. QED
  BY <1>2, <1>3, <1>4, <1>5 DEF Abstract!Return

LEMMA PurgeReturns ==
  ASSUME TableInv, NEW t \in Threads, Purge(t)
  PROVE  Abstract!Return(t)
<1>1. Top(t).at = "after" /\ Depth(t) > 0 /\ Pop(t) /\ MayLock(t) /\ binds' = binds
  BY DEF Purge, In
<1>2. Abstract!Innermost(t) = OfferOf(Top(t)) /\ Abstract!At(t, "after") /\ Abstract!Free(t)
  BY <1>1, InnermostOffer, SameClients
<1>3. Offers' = [Offers EXCEPT ![t] = SubSeq(@, 1, Len(@) - 1)]
  BY <1>1, PopOffer
<1>4. BoundItems' = {table[i] : i \in Kept(t)}
  <2>1. CASE NullCount(t) = 0
    <3>1. table' = table /\ OneShotItem(t) = {}
      <4>1. Top(t).nulls \in Nat
        BY <1>1, SearchTypes DEF Searches
      <4>. QED
        BY <2>1, <4>1, OneShotItemEffect DEF Purge
    <3>. QED
      BY <3>1, SameItems DEF Kept, BoundItems
  <2>2. CASE NullCount(t) # 0
    <3>1. PICK f \in Ascending(Kept(t)) :
            table' = [i \in 1..Cardinality(Kept(t)) |-> table[f[i]]]
      BY <2>2 DEF Purge, RemoveNulls
    <3> DEFINE c == Cardinality(Kept(t))
    <3>2. /\ Len(table') = c /\ Live' \subseteq 1..c
          /\ \A i \in 1..c : f[i] \in Kept(t) /\ table'[i] = table[f[i]]
      BY <3>1, RemoveNullsEffect
    <3>3. \A j \in Kept(t) : \E i \in 1..c : f[i] = j
      BY DEF Ascending
    <3> HIDE DEF c
    <3>4. \A j \in Kept(t) : ~IsNull(table[j])
      BY DEF Kept, Live
    <3>5. Live' = 1..c
      BY <3>2, <3>4 DEF Live
    <3>. QED
      BY <3>2, <3>3, <3>5 DEF BoundItems
  <2>. QED
    BY <2>1, <2>2
<1>5. BoundItems' = {b \in BoundItems : b.slot \notin Abstract!Innermost(t).spent}
  BY <1>1, <1>2, <1>4, KeptBound
<1>. QED
  BY <1>1, <1>2, <1>3, <1>5 DEF Abstract!Return

LEMMA StepImplementsBindings ==
  ASSUME TableInv, OneShotInv, PassedInv, [Next]_vars
  PROVE  [Abstract!Next]_Abstract!vars
<1>1. CASE UNCHANGED vars
  BY <1>1, SameItems, SameOffers DEF vars, Abstract!vars
<1>2. CASE Next
  <2>1. PICK t \in Threads :
          \/ \E id \in EventIDs, executor \in Executors :
               \/ \E flag \in {"none", "oneShot", "alwaysSkip"}, unique \in BOOLEAN :
                    Bind(t, id, executor, flag, unique)
               \/ Unbind(t, id, executor)
          \/ \E id \in EventIDs : UnbindID(t, id) \/ ProcessEvent(t, id)
          \/ UnbindAll(t)
          \/ \E slot \in 1..MaxBinds : UnbindSlot(t, slot)
          \/ SearchStep(t)
    BY <1>2 DEF Next
  <2>2. \/ Abstract!ClientStep(t) \/ Abstract!Offer(t) \/ Abstract!Skip(t)
        \/ Abstract!Handle(t) \/ Abstract!GiveUp(t) \/ Abstract!Return(t)
    <3>1. CASE SearchStep(t)
      BY <3>1, ExecuteOffers, SkipSkips, HandlerHandlesOffer, NobodyGivesUp, LeaveReturns,
         PurgeReturns DEF SearchStep
    <3>2. CASE ~SearchStep(t)
      BY <2>1, <3>2, BindBinds, UnbindUnbinds, UnbindIDUnbinds, ProcessEventOffers,
         UnbindAllUnbinds, UnbindSlotUnbinds
    <3>. QED
      BY <3>1, <3>2
  <2>. QED
    BY <2>2 DEF Abstract!Next
<1>. QED
  BY <1>1, <1>2

(* DoBind, DoUnbind and SearchEventTable keep a set of bindings and offer      *)
(* events as Bindings promises, for any number of threads, bindings and      *)
(* nested searches, with null items, purges and slots used again.            *)
THEOREM TableImplementsBindings == Spec => ImplementsBindings
<1>1. Init => Abstract!Init
  <2> SUFFICES ASSUME Init PROVE Abstract!Init
    OBVIOUS
  <2>1. BoundItems = {}
    BY DEF Init, BoundItems, Live
  <2>2. \A t \in Threads : Offers[t] = <<>>
    BY OffersOfThread DEF Init, Depth
  <2>. QED
    BY <2>1, <2>2 DEF Init, Abstract!Init, Offers
<1>2. Init => PassedInv
  BY DEF Init, PassedInv, Depth
<1>3. Spec => []OneShotInv
  BY OneShotInit, OneShotStep, TableHolds, PTL DEF Spec
<1>4. Spec => []PassedInv
  BY <1>2, PassedNext, TableHolds, PTL DEF Spec
<1>. QED
  BY <1>1, <1>3, <1>4, StepImplementsBindings, TableHolds, PTL
  DEF Spec, ImplementsBindings, Abstract!Spec
--------------------------------------------------------------------------------
(* Only a nested search erases under an iterator.                            *)

DepthBounded == \A t \in Threads : Depth(t) <= MaxDepth

LEMMA DepthOfOne ==
  ASSUME DepthBounded, NEW t \in Threads, OnlyOf(t), Len(searches'[t]) <= MaxDepth
  PROVE  DepthBounded'
BY DEF DepthBounded, OnlyOf, Depth

LEMMA SameDepth ==
  ASSUME TableInv, TableInv', DepthBounded, NEW t \in Threads, NEW s, SetTop(t, s)
  PROVE  DepthBounded'
<1> DEFINE q == searches[t]
           r == searches'[t]
<1>1. OnlyOf(t) /\ r = [q EXCEPT ![Depth(t)] = s]
  BY TypeParts DEF SetTop, OnlyOf, TableInv, SearchesOK
<1>2. q \in Seq(Searches) /\ r \in Seq(Searches)
  BY TypeParts, SearchTypes DEF TableInv, TypeOK, Searches
<1> HIDE DEF q, r
<1>3. DOMAIN r = DOMAIN q
  BY <1>1
<1>4. Len(r) = Len(q)
  BY <1>2, <1>3
<1>. QED
  BY <1>1, <1>4, DepthOfOne DEF q, r, DepthBounded, Depth

LEMMA ShorterDepth ==
  ASSUME TableInv, DepthBounded, NEW t \in Threads, Depth(t) > 0, Pop(t)
  PROVE  DepthBounded' /\ OnlyOf(t) /\ Len(searches'[t]) = Depth(t) - 1
<1>1. OnlyOf(t) /\ Len(searches'[t]) = Depth(t) - 1
  BY PopEffect, TypeParts DEF TableInv, SearchesOK
<1>2. Depth(t) \in Nat /\ MaxDepth \in Nat /\ Depth(t) <= MaxDepth
  BY SearchTypes, TableAssumption DEF DepthBounded
<1>. QED
  BY <1>1, <1>2, DepthOfOne

LEMMA DepthNext == TableInv /\ DepthBounded /\ [Next]_vars => DepthBounded'
<1> SUFFICES ASSUME TableInv, DepthBounded, [Next]_vars PROVE DepthBounded'
  OBVIOUS
<1>1. TableInv'
  BY TableStep
<1>2. CASE UNCHANGED searches
  BY <1>2 DEF DepthBounded, Depth
<1>3. ASSUME NEW t \in Threads, NEW id \in EventIDs, ProcessEvent(t, id)
      PROVE  DepthBounded'
  <2> DEFINE s == [id |-> id, at |-> "search", index |-> Len(table) + 1, size |-> Len(table),
                   nulls |-> 0, slot |-> 0, limit |-> binds + 1]
  <2>1. s \in Searches
    <3>1. binds \in 0..MaxBinds
      BY TypeParts DEF TableInv, DataOK
    <3>. QED
      BY <3>1, Serials DEF Searches
  <2>2. searches' = [searches EXCEPT ![t] = Append(@, s)]
    BY <1>3 DEF ProcessEvent
  <2> HIDE DEF s
  <2>3. OnlyOf(t) /\ Len(searches'[t]) = Depth(t) + 1
    BY <2>1, <2>2, PushEffect, TypeParts DEF TableInv, SearchesOK
  <2>4. Depth(t) \in Nat /\ MaxDepth \in Nat /\ Depth(t) < MaxDepth
    BY <1>3, SearchTypes, TableAssumption DEF ProcessEvent
  <2>. QED
    BY <2>3, <2>4, DepthOfOne
<1>4. ASSUME NEW t \in Threads, SearchStep(t)
      PROVE  DepthBounded'
  <2>1. CASE \E s : SetTop(t, s)
    BY <1>1, <2>1, SameDepth
  <2>2. CASE LeaveTable(t) \/ Purge(t)
    BY <2>2, ShorterDepth DEF LeaveTable, Purge, In
  <2>. QED
    BY <1>4, <2>1, <2>2 DEF SearchStep, ExecuteEventHandler, HandlerSkips, HandlerHandles,
                            NobodyHandles
<1>. QED
  BY <1>2, <1>3, <1>4 DEF Next, vars, Bind, Unbind, UnbindID, UnbindAll, UnbindSlot, UnbindItems

LEMMA OnlyPurgeErases ==
  ASSUME TableInv, [Next]_vars, Len(table') < Len(table)
  PROVE  \E t \in Threads : Purge(t)
<1>1. table \in Seq(Items \cup {NullItem}) /\ Len(table) \in Nat
  BY TypeParts, Serials DEF TableInv, DataOK
<1>2. UNCHANGED table => FALSE
  BY <1>1
<1>3. \A S : table' # Nulled(S)
  BY <1>1, NulledEffect
<1>4. \A item : table' # Append(table, item)
  <2>1. \A item : Len(Append(table, item)) = Len(table) + 1
    BY <1>1
  <2>. QED
    BY <1>1, <2>1
<1>. QED
  BY <1>2, <1>3, <1>4
  DEF Next, vars, Bind, Unbind, UnbindID, UnbindAll, UnbindSlot, UnbindItems, ProcessEvent,
      SearchStep, ExecuteEventHandler, HandlerSkips, HandlerHandles, NobodyHandles, LeaveTable

(* What DoUnbind says of entries, that none is erased while a search iterates, *)
(* is true as long as handlers process no event on their own handler: with     *)
(* one level of searches the lock keeps every other thread out.              *)
THEOREM UnnestedErasesSafely == MaxDepth <= 1 => (Spec => NoEraseWhileIterating)
<1> SUFFICES ASSUME MaxDepth <= 1 PROVE Spec => NoEraseWhileIterating
  OBVIOUS
<1>1. Init => DepthBounded
  BY TableAssumption DEF Init, DepthBounded, Depth
<1>2. ASSUME TableInv, DepthBounded, [Next]_vars, Len(table') < Len(table), NEW u \in Threads
      PROVE  ~HoldsLock(u)'
  <2>1. PICK t \in Threads : Purge(t)
    BY <1>2, OnlyPurgeErases
  <2>2. Depth(t) > 0 /\ Pop(t) /\ MayLock(t)
    BY <2>1 DEF Purge, In
  <2>3. OnlyOf(t) /\ Len(searches'[t]) = Depth(t) - 1
    BY <1>2, <2>2, ShorterDepth
  <2>4. Len(searches'[t]) = 0
    BY <1>2, <2>2, <2>3, SearchTypes, TableAssumption DEF DepthBounded
  <2>5. CASE u = t
    BY <2>4, <2>5 DEF HoldsLock
  <2>6. CASE u # t
    BY <2>2, <2>3, <2>6 DEF HoldsLock, MayLock, OnlyOf
  <2>. QED
    BY <2>5, <2>6
<1>3. TableInv /\ DepthBounded /\ [Next]_vars =>
        [Len(table') < Len(table) => \A t \in Threads : ~HoldsLock(t)']_vars
  BY <1>2
<1>4. Spec => []DepthBounded
  BY <1>1, DepthNext, TableHolds, PTL DEF Spec
<1>. QED
  BY <1>3, <1>4, TableHolds, PTL DEF Spec, NoEraseWhileIterating
================================================================================
