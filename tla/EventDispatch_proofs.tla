-------------------------- MODULE EventDispatch_proofs --------------------------
(***************************************************************************)
(* For any number of handlers and stacks: the pointers of EvtHandler and     *)
(* EvtHandlerStack are the chains that the calls promise, as long as client *)
(* code makes none of the calls that tear one apart; an event object meets   *)
(* the filters and the application once; no handler out of the chain is     *)
(* asked, and those that stay in it are asked in order, each once.          *)
(*                                                                         *)
(* StackTypeOK and ChainsAreItems are inductive together. A step is examined *)
(* in three parts: the chain it works on, the other chains, whose handlers   *)
(* are others, and the handlers in no chain. The walk of an event changes    *)
(* the chains only by these steps.                                           *)
(***************************************************************************)
EXTENDS EventDispatch, SequenceLemmas

StackInv == StackTypeOK /\ ChainsAreItems

--------------------------------------------------------------------------------

LEMMA StackInitInv == StackInit => StackInv
<1> SUFFICES ASSUME StackInit PROVE StackInv
  OBVIOUS
<1>. USE StackAssumption
<1>1. \A s \in Stacks : /\ items[s] = <<Base[s]>> /\ Base[s] \in Handlers
                        /\ Len(items[s]) = 1 /\ items[s][1] = Base[s]
                        /\ items[s] \in Seq(Handlers)
  BY DEF StackInit
<1>2. StackTypeOK
  BY <1>1 DEF StackInit, StackTypeOK
<1>3. \A s \in Stacks : Ends(s) /\ Linked(s)
  BY <1>1 DEF StackInit, Ends, Linked
<1>4. Disjoint
  <2>1. \A s \in Stacks : IsInjective(items[s])
    BY <1>1 DEF IsInjective
  <2>2. \A s \in Stacks : \A h \in Handlers : Holds(s, h) => h = Base[s]
    BY <1>1 DEF Holds, Contains
  <2>3. \A h \in Handlers : IsUnlinked(h)
    BY DEF StackInit, IsUnlinked
  <2>. QED
    BY <2>1, <2>2, <2>3 DEF Disjoint
<1>. QED
  BY <1>2, <1>3, <1>4 DEF StackInv, ChainsAreItems

(* What the invariant says of a handler's place in a chain.                  *)
LEMMA Places ==
  ASSUME StackInv, ~misused, NEW s \in Stacks
  PROVE  /\ items[s] \in Seq(Handlers) /\ Len(items[s]) \in Nat \ {0}
         /\ items[s][1] = top[s] /\ items[s][Len(items[s])] = Base[s]
         /\ top[s] \in Handlers /\ Base[s] \in Handlers
         /\ prev[top[s]] = Null /\ next[Base[s]] = Null
         /\ Injective(items[s])
         /\ \A i \in 1..Len(items[s]) : items[s][i] \in Handlers /\ Holds(s, items[s][i])
         /\ \A i \in 1..(Len(items[s]) - 1) : /\ next[items[s][i]] = items[s][i + 1]
                                              /\ prev[items[s][i + 1]] = items[s][i]
<1>1. items[s] \in Seq(Handlers) /\ top[s] \in Handlers /\ Base[s] \in Handlers
  BY StackAssumption DEF StackInv, StackTypeOK
<1>2. Ends(s) /\ Linked(s) /\ IsInjective(items[s])
  BY DEF StackInv, ChainsAreItems, Disjoint
<1>3. Len(items[s]) \in Nat \ {0}
  BY <1>1, <1>2 DEF Ends
<1>4. Injective(items[s])
  BY <1>1, <1>2 DEF IsInjective, Injective
<1>5. \A i \in 1..Len(items[s]) : items[s][i] \in Handlers /\ Holds(s, items[s][i])
  BY <1>1 DEF Holds, Contains
<1>. QED
  BY <1>1, <1>2, <1>3, <1>4, <1>5 DEF Ends, Linked

(* Two chains share no handler.                                             *)
LEMMA Apart ==
  ASSUME StackInv, ~misused, NEW r \in Stacks, NEW s \in Stacks, NEW h \in Handlers,
         Holds(r, h), Holds(s, h)
  PROVE  r = s
BY DEF StackInv, ChainsAreItems, Disjoint

--------------------------------------------------------------------------------

LEMMA PushType ==
  ASSUME StackTypeOK, NEW s \in Stacks, NEW h \in Handlers, Push(s, h)
  PROVE  StackTypeOK'
<1>1. <<h>> \o items[s] \in Seq(Handlers)
  BY DEF StackTypeOK
<1>. QED
  BY <1>1 DEF StackTypeOK, Push

LEMMA PopType ==
  ASSUME StackTypeOK, NEW s \in Stacks, Pop(s), items[s] # <<>>
  PROVE  StackTypeOK'
<1>1. Tail(items[s]) \in Seq(Handlers)
  BY DEF StackTypeOK
<1>2. next[top[s]] \in Handlers
  BY DEF StackTypeOK, Pop
<1>. QED
  BY <1>1, <1>2 DEF StackTypeOK, Pop

LEMMA UnlinkType ==
  ASSUME StackTypeOK, NEW h \in Handlers, Unlink(h)
  PROVE  StackTypeOK'
<1>1. \A s \in Stacks : RemoveFirst(items[s], h) \in Seq(Handlers)
  BY RemoveFirstType DEF StackTypeOK
<1>2. items' \in [Stacks -> Seq(Handlers)]
  BY <1>1 DEF Unlink
<1>3. next' \in [Handlers -> Handlers \cup {Null}]
  BY DEF StackTypeOK, Unlink
<1>4. prev' \in [Handlers -> Handlers \cup {Null}]
  BY DEF StackTypeOK, Unlink
<1>. QED
  BY <1>2, <1>3, <1>4 DEF StackTypeOK, Unlink

--------------------------------------------------------------------------------
(* A handler that is unlinked and no base is in no chain: Push keeps the      *)
(* chains apart.                                                             *)
LEMMA UnlinkedIsHeldByNone ==
  ASSUME StackInv, ~misused, NEW h \in Handlers, IsUnlinked(h), h \notin Bases,
         NEW s \in Stacks
  PROVE  ~Holds(s, h)
<1> SUFFICES ASSUME Holds(s, h) PROVE FALSE
  OBVIOUS
<1>1. PICK i \in 1..Len(items[s]) : items[s][i] = h
  BY DEF Holds, Contains
<1>2. i # Len(items[s])
  BY <1>1, Places DEF Bases
<1>3. next[h] = items[s][i + 1] /\ items[s][i + 1] \in Handlers
  BY <1>1, <1>2, Places
<1>. QED
  BY <1>3, StackAssumption DEF IsUnlinked

LEMMA PushKeepsChains ==
  ASSUME StackInv, NEW s \in Stacks, NEW h \in Handlers, Push(s, h), h \notin Bases
  PROVE  ChainsAreItems'
<1>1. ~misused /\ IsUnlinked(h)
  BY DEF Push
<1>2. \A r \in Stacks : ~Holds(r, h)
  BY <1>1, UnlinkedIsHeldByNone
<1> DEFINE q == items[s]
           n == Len(items[s])
<1>3. /\ q \in Seq(Handlers) /\ n = Len(q) /\ n \in Nat \ {0}
      /\ q[1] = top[s] /\ q[n] = Base[s]
      /\ \A i \in 1..n : q[i] \in Handlers /\ q[i] # h
      /\ \A i, j \in 1..n : q[i] = q[j] => i = j
      /\ next[q[n]] = Null
      /\ \A i \in 1..(n - 1) : next[q[i]] = q[i + 1] /\ prev[q[i + 1]] = q[i]
  BY <1>1, <1>2, Places DEF Injective
<1>4. /\ items' = [items EXCEPT ![s] = <<h>> \o q] /\ items \in [Stacks -> Seq(Handlers)]
      /\ next' = [next EXCEPT ![h] = top[s]] /\ next \in [Handlers -> Handlers \cup {Null}]
      /\ prev' = [prev EXCEPT ![top[s]] = h] /\ prev \in [Handlers -> Handlers \cup {Null}]
      /\ top' = [top EXCEPT ![s] = h] /\ top \in [Stacks -> Handlers]
  BY DEF Push, StackInv, StackTypeOK
<1>5. /\ items'[s] = <<h>> \o q
      /\ Len(items'[s]) = n + 1
      /\ items'[s][1] = h
      /\ \A i \in 1..n : items'[s][i + 1] = q[i]
      /\ \A i \in 2..(n + 1) : items'[s][i] = q[i - 1]
  BY <1>3, <1>4
<1>6. ASSUME NEW r \in Stacks, r # s
      PROVE  /\ items'[r] = items[r] /\ top'[r] = top[r]
             /\ \A i \in 1..Len(items[r]) : /\ items[r][i] # h /\ items[r][i] # top[s]
                                            /\ next'[items[r][i]] = next[items[r][i]]
                                            /\ prev'[items[r][i]] = prev[items[r][i]]
  <2>1. items'[r] = items[r] /\ top'[r] = top[r]
    BY <1>4, <1>6
  <2>2. ASSUME NEW i \in 1..Len(items[r])
        PROVE  items[r][i] # h /\ items[r][i] # top[s] /\ items[r][i] \in Handlers
    <3>1. Holds(r, items[r][i]) /\ items[r][i] \in Handlers
      BY <1>1, Places
    <3>2. Holds(s, top[s])
      BY <1>1, Places
    <3>. QED
      BY <3>1, <3>2, <1>1, <1>2, <1>6, Apart
  <2>. QED
    BY <2>1, <2>2, <1>4
<1>7. ASSUME NEW r \in Stacks
      PROVE  Ends(r)' /\ Linked(r)'
  <2>1. CASE r = s
    <3>1. Ends(s)'
      BY <1>3, <1>4, <1>5 DEF Ends
    <3>2. prev'[h] = Null /\ next'[h] = top[s] /\ prev'[top[s]] = h
      BY <1>1, <1>3, <1>4 DEF IsUnlinked
    <3>3. next'[q[n]] = Null
      BY <1>3, <1>4
    <3>4. ASSUME NEW i \in 1..n
          PROVE  next'[items'[s][i]] = items'[s][i + 1] /\ prev'[items'[s][i + 1]] = items'[s][i]
      <4>1. CASE i = 1
        BY <4>1, <3>2, <1>3, <1>5
      <4>2. CASE i # 1
        <5>1. i - 1 \in 1..(n - 1) /\ i \in 1..n /\ i \in 2..(n + 1)
          BY <4>2, <1>3
        <5>2. items'[s][i] = q[i - 1] /\ items'[s][i + 1] = q[i]
          BY <5>1, <1>5
        <5>3. next[q[i - 1]] = q[i] /\ prev[q[i]] = q[i - 1]
          <6>1. next[q[i - 1]] = q[(i - 1) + 1] /\ prev[q[(i - 1) + 1]] = q[i - 1]
            BY <5>1, <1>3
          <6>2. (i - 1) + 1 = i
            BY <5>1
          <6>. QED
            BY <6>1, <6>2
        <5>4. q[i] # q[1] /\ q[i - 1] # h /\ q[i] \in Handlers /\ q[i - 1] \in Handlers
          BY <5>1, <4>2, <1>3
        <5>. QED
          BY <5>2, <5>3, <5>4, <1>3, <1>4
      <4>. QED
        BY <4>1, <4>2
    <3>5. items'[s][Len(items'[s])] = q[n] /\ Len(items'[s]) - 1 = n
      BY <1>3, <1>5
    <3>6. Linked(s)'
      BY <3>2, <3>3, <3>4, <3>5, <1>5 DEF Linked
    <3>. QED
      BY <2>1, <3>1, <3>6
  <2>2. CASE r # s
    <3>1. items[r] \in Seq(Handlers) /\ Len(items[r]) \in Nat \ {0} /\ Ends(r) /\ Linked(r)
      BY <1>1, Places DEF StackInv, ChainsAreItems
    <3>. QED
      BY <2>2, <3>1, <1>6 DEF Ends, Linked
  <2>. QED
    BY <2>1, <2>2
<1>8. Disjoint'
  <2>1. \A r \in Stacks : \A x \in Handlers : Holds(r, x)' <=> Holds(r, x) \/ (r = s /\ x = h)
    <3> SUFFICES ASSUME NEW r \in Stacks, NEW x \in Handlers
                 PROVE  Holds(r, x)' <=> Holds(r, x) \/ (r = s /\ x = h)
      OBVIOUS
    <3>1. CASE r # s
      BY <3>1, <1>6 DEF Holds, Contains
    <3>2. CASE r = s
      <4>1. Holds(s, x)' => Holds(s, x) \/ x = h
        BY <1>3, <1>5 DEF Holds, Contains
      <4>2. ASSUME NEW i \in 1..n, q[i] = x
            PROVE  Holds(s, x)'
        <5>1. i + 1 \in 1..(n + 1) /\ items'[s][i + 1] = x
          BY <4>2, <1>3, <1>5
        <5>. QED
          BY <5>1, <1>5 DEF Holds, Contains
      <4>3. Holds(s, h)'
        BY <1>3, <1>5 DEF Holds, Contains
      <4>. QED
        BY <3>2, <4>1, <4>2, <4>3 DEF Holds, Contains
    <3>. QED
      BY <3>1, <3>2
  <2>2. ASSUME NEW r \in Stacks
        PROVE  IsInjective(items'[r])
    <3>1. CASE r # s
      BY <3>1, <1>1, <1>6 DEF StackInv, ChainsAreItems, Disjoint
    <3>2. CASE r = s
      <4>1. items'[s] \in Seq(Handlers)
        BY <1>3, <1>5
      <4>2. ASSUME NEW i \in 1..(n + 1), NEW j \in 1..(n + 1), items'[s][i] = items'[s][j]
            PROVE  i = j
        <5>1. CASE i = 1 \/ j = 1
          BY <5>1, <4>2, <1>3, <1>5
        <5>2. CASE i # 1 /\ j # 1
          <6>1. i \in 2..(n + 1) /\ j \in 2..(n + 1) /\ i - 1 \in 1..n /\ j - 1 \in 1..n
            BY <5>2, <1>3
          <6>2. q[i - 1] = q[j - 1]
            BY <6>1, <4>2, <1>5
          <6>. QED
            BY <6>1, <6>2, <1>3
        <5>. QED
          BY <5>1, <5>2
      <4>. QED
        BY <3>2, <4>1, <4>2, <1>5 DEF IsInjective
    <3>. QED
      BY <3>1, <3>2
  <2>3. ASSUME NEW r1 \in Stacks, NEW r2 \in Stacks, NEW x \in Handlers,
               Holds(r1, x)', Holds(r2, x)'
        PROVE  r1 = r2
    BY <2>1, <2>3, <1>1, <1>2, Apart
  <2>4. ASSUME NEW x \in Handlers, \A r \in Stacks : ~Holds(r, x)'
        PROVE  IsUnlinked(x)'
    <3>1. x # h /\ \A r \in Stacks : ~Holds(r, x)
      BY <2>1, <2>4
    <3>2. x # top[s]
      BY <3>1, <1>1, Places
    <3>3. IsUnlinked(x)
      BY <3>1, <1>1 DEF StackInv, ChainsAreItems, Disjoint
    <3>. QED
      BY <3>1, <3>2, <3>3, <1>4 DEF IsUnlinked
  <2>. QED
    BY <2>2, <2>3, <2>4 DEF Disjoint
<1>. QED
  BY <1>7, <1>8 DEF ChainsAreItems

--------------------------------------------------------------------------------
(* Taking h out of the chain of s, whoever does it, leaves the chains apart.  *)
LEMMA TakingOutKeepsDisjoint ==
  ASSUME StackInv, ~misused, NEW s \in Stacks, NEW h \in Handlers, Holds(s, h),
         \A r \in Stacks : r # s => items'[r] = items[r],
         items'[s] \in Seq(Handlers), Injective(items'[s]),
         \A x \in Handlers : Contains(items'[s], x) <=> Contains(items[s], x) /\ x # h,
         next'[h] = Null, prev'[h] = Null,
         \A x \in Handlers : ~Holds(s, x) => next'[x] = next[x] /\ prev'[x] = prev[x]
  PROVE  Disjoint'
<1>1. \A r \in Stacks : \A x \in Handlers : Holds(r, x)' <=> Holds(r, x) /\ ~(r = s /\ x = h)
  BY DEF Holds
<1>2. ASSUME NEW r \in Stacks
      PROVE  IsInjective(items'[r])
  <2>1. CASE r = s
    BY <2>1 DEF Injective, IsInjective
  <2>2. CASE r # s
    BY <2>2 DEF StackInv, ChainsAreItems, Disjoint
  <2>. QED
    BY <2>1, <2>2
<1>3. ASSUME NEW r1 \in Stacks, NEW r2 \in Stacks, NEW x \in Handlers,
             Holds(r1, x)', Holds(r2, x)'
      PROVE  r1 = r2
  BY <1>1, <1>3, Apart
<1>4. ASSUME NEW x \in Handlers, \A r \in Stacks : ~Holds(r, x)'
      PROVE  IsUnlinked(x)'
  <2>1. CASE x = h
    BY <2>1 DEF IsUnlinked
  <2>2. CASE x # h
    <3>1. \A r \in Stacks : ~Holds(r, x)
      BY <1>1, <1>4, <2>2
    <3>2. IsUnlinked(x)
      BY <3>1 DEF StackInv, ChainsAreItems, Disjoint
    <3>. QED
      BY <3>1, <3>2 DEF IsUnlinked
  <2>. QED
    BY <2>1, <2>2
<1>. QED
  BY <1>2, <1>3, <1>4 DEF Disjoint

(* A chain keeps its shape when neither it nor its pointers change.          *)
LEMMA UntouchedChain ==
  ASSUME StackInv, ~misused, NEW s \in Stacks, items'[s] = items[s], top'[s] = top[s],
         \A i \in 1..Len(items[s]) : /\ next'[items[s][i]] = next[items[s][i]]
                                     /\ prev'[items[s][i]] = prev[items[s][i]]
  PROVE  Ends(s)' /\ Linked(s)'
<1>1. items[s] \in Seq(Handlers) /\ Len(items[s]) \in Nat \ {0} /\ Ends(s) /\ Linked(s)
  BY Places DEF StackInv, ChainsAreItems
<1>. QED
  BY <1>1 DEF Ends, Linked

LEMMA PopKeepsChains ==
  ASSUME StackInv, NEW s \in Stacks, Pop(s)
  PROVE  ChainsAreItems'
<1>1. ~misused /\ top[s] # Base[s]
  BY DEF Pop
<1> DEFINE q == items[s]
           n == Len(items[s])
           t == top[s]
<1>2. /\ q \in Seq(Handlers) /\ n = Len(q) /\ n \in Nat /\ n >= 2
      /\ q[1] = t /\ q[n] = Base[s] /\ t \in Handlers
      /\ \A i \in 1..n : q[i] \in Handlers /\ Holds(s, q[i])
      /\ Injective(q)
      /\ next[q[n]] = Null /\ prev[t] = Null
      /\ \A i \in 1..(n - 1) : next[q[i]] = q[i + 1] /\ prev[q[i + 1]] = q[i]
  <2>1. n # 1
    BY <1>1, Places
  <2>. QED
    BY <1>1, <2>1, Places
<1>2a. n \in Nat /\ n >= 2
  BY <1>2
<1>3. next[t] = q[2] /\ q[2] \in Handlers /\ q[2] # t /\ Holds(s, t) /\ Holds(s, q[2])
  <2>1. 1 \in 1..(n - 1) /\ 2 \in 1..n /\ 1 \in 1..n
    <3> HIDE DEF n
    <3>. QED
      BY <1>2a
  <2>2. next[q[1]] = q[1 + 1]
    BY <2>1, <1>2
  <2>. QED
    BY <2>1, <2>2, <1>2 DEF Injective
<1>4. /\ items' = [items EXCEPT ![s] = Tail(q)] /\ items \in [Stacks -> Seq(Handlers)]
      /\ next' = [next EXCEPT ![t] = Null] /\ next \in [Handlers -> Handlers \cup {Null}]
      /\ prev' = [prev EXCEPT ![q[2]] = Null] /\ prev \in [Handlers -> Handlers \cup {Null}]
      /\ top' = [top EXCEPT ![s] = q[2]] /\ top \in [Stacks -> Handlers]
  BY <1>3 DEF Pop, StackInv, StackTypeOK
<1>5. /\ items'[s] \in Seq(Handlers)
      /\ Len(items'[s]) = n - 1
      /\ \A i \in 1..(n - 1) : items'[s][i] = q[i + 1]
  BY <1>2, <1>4
<1>6. \A x \in Handlers : ~Holds(s, x) => next'[x] = next[x] /\ prev'[x] = prev[x]
  BY <1>2, <1>3, <1>4
<1>7. Injective(items'[s])
  <2> SUFFICES ASSUME NEW i \in 1..(n - 1), NEW j \in 1..(n - 1), q[i + 1] = q[j + 1]
               PROVE  i = j
    BY <1>2, <1>5 DEF Injective
  <2>1. i + 1 \in 1..n /\ j + 1 \in 1..n
    BY <1>2
  <2>2. i + 1 = j + 1
    BY <2>1, <1>2 DEF Injective
  <2>. QED
    BY <2>2
<1>8. \A x \in Handlers : Contains(items'[s], x) <=> Contains(items[s], x) /\ x # t
  <2> SUFFICES ASSUME NEW x \in Handlers
               PROVE  Contains(items'[s], x) <=> Contains(items[s], x) /\ x # t
    OBVIOUS
  <2>1. ASSUME NEW i \in 1..(n - 1), items'[s][i] = x
        PROVE  Contains(q, x) /\ x # t
    <3>1. i + 1 \in 1..n /\ i + 1 # 1 /\ 1 \in 1..n
      BY <1>2a
    <3>1a. q[i + 1] = x
      BY <2>1, <1>5
    <3>. QED
      BY <3>1, <3>1a, <1>2 DEF Contains, Injective
  <2>2. ASSUME NEW i \in 1..n, q[i] = x, x # t
        PROVE  Contains(items'[s], x)
    <3>1. i # 1
      BY <2>2, <1>2
    <3>2. i - 1 \in 1..(n - 1) /\ (i - 1) + 1 = i
      BY <3>1, <1>2
    <3>3. items'[s][i - 1] = q[i]
      BY <3>2, <1>5
    <3>. QED
      BY <2>2, <3>2, <3>3, <1>5 DEF Contains
  <2>. QED
    BY <2>1, <2>2, <1>5 DEF Contains
<1>9. Disjoint'
  <2>1. next'[t] = Null /\ prev'[t] = Null /\ \A r \in Stacks : r # s => items'[r] = items[r]
    BY <1>2, <1>3, <1>4
  <2>. QED
    BY <2>1, <1>1, <1>2, <1>3, <1>5, <1>6, <1>7, <1>8, TakingOutKeepsDisjoint
<1>10. ASSUME NEW r \in Stacks
       PROVE  Ends(r)' /\ Linked(r)'
  <2>1. CASE r # s
    <3>1. ASSUME NEW i \in 1..Len(items[r])
          PROVE  items[r][i] \in Handlers /\ ~Holds(s, items[r][i])
      BY <2>1, <1>1, Places, Apart
    <3>2. items'[r] = items[r] /\ top'[r] = top[r]
      BY <2>1, <1>4
    <3>. QED
      BY <3>1, <3>2, <1>1, <1>6, UntouchedChain
  <2>2. CASE r = s
    <3>1. /\ items'[s][1] = q[2] /\ items'[s][n - 1] = q[n]
      <4>1. 1 \in 1..(n - 1) /\ n - 1 \in 1..(n - 1) /\ (n - 1) + 1 = n
        <5> HIDE DEF n
        <5>. QED
          BY <1>2a
      <4>2. items'[s][1] = q[1 + 1] /\ items'[s][n - 1] = q[(n - 1) + 1]
        BY <4>1, <1>5
      <4>. QED
        BY <4>1, <4>2
    <3>2. Ends(s)'
      <4>1. Len(items'[s]) = n - 1 /\ n - 1 # 0
        BY <1>2a, <1>5
      <4>2. items'[s] # <<>>
        BY <4>1, <1>5
      <4>3. top'[s] = q[2]
        BY <1>4
      <4>. QED
        BY <4>1, <4>2, <4>3, <3>1, <1>2 DEF Ends
    <3>3. prev'[q[2]] = Null /\ next'[q[n]] = Null
      BY <1>2, <1>3, <1>4
    <3>4. ASSUME NEW i \in 1..(n - 2)
          PROVE  next'[items'[s][i]] = items'[s][i + 1] /\ prev'[items'[s][i + 1]] = items'[s][i]
      <4>1. /\ i \in 1..(n - 1) /\ i + 1 \in 1..(n - 1) /\ 2 \in 1..n /\ 1 \in 1..n
            /\ i + 1 \in 1..n /\ (i + 1) + 1 \in 1..n /\ i + 1 # 1 /\ (i + 1) + 1 # 2
        BY <1>2
      <4>2. items'[s][i] = q[i + 1] /\ items'[s][i + 1] = q[(i + 1) + 1]
        BY <4>1, <1>5
      <4>3. next[q[i + 1]] = q[(i + 1) + 1] /\ prev[q[(i + 1) + 1]] = q[i + 1]
        BY <4>1, <1>2
      <4>4. q[i + 1] # t /\ q[(i + 1) + 1] # q[2]
        BY <4>1, <1>2 DEF Injective
      <4>5. q[i + 1] \in Handlers /\ q[(i + 1) + 1] \in Handlers
        BY <4>1, <1>2
      <4>. QED
        BY <4>2, <4>3, <4>4, <4>5, <1>4
    <3>5. Linked(s)'
      <4>1. Len(items'[s]) - 1 = n - 2 /\ items'[s][Len(items'[s])] = q[n]
        BY <3>1, <1>2, <1>5
      <4>. QED
        BY <4>1, <3>1, <3>3, <3>4 DEF Linked
    <3>. QED
      BY <2>2, <3>2, <3>5
  <2>. QED
    BY <2>1, <2>2
<1>. QED
  BY <1>9, <1>10 DEF ChainsAreItems

--------------------------------------------------------------------------------
(* In an injective sequence RemoveFirst removes at the one place of e.       *)
LEMMA RemoveFirstIsRemoveAt ==
  ASSUME NEW E, NEW q \in Seq(E), Injective(q), NEW k \in 1..Len(q)
  PROVE  RemoveFirst(q, q[k]) = RemoveAt(q, k)
<1>1. {i \in 1..Len(q) : q[i] = q[k]} = {k}
  BY DEF Injective
<1>2. Min({k}) = k
  BY DEF Min
<1>. QED
  BY <1>1, <1>2 DEF RemoveFirst, SelectInSeq

LEMMA UnlinkKeepsChains ==
  ASSUME StackInv, NEW h \in Handlers, Unlink(h),
         \A s \in Stacks : h # top[s] /\ h # Base[s]
  PROVE  ChainsAreItems'
<1>1. ~misused /\ ~IsUnlinked(h)
  BY DEF Unlink
<1>2. PICK s \in Stacks : Holds(s, h)
  BY <1>1 DEF StackInv, ChainsAreItems, Disjoint
<1> DEFINE q == items[s]
           n == Len(items[s])
<1>3. /\ q \in Seq(Handlers) /\ n = Len(q) /\ n \in Nat
      /\ q[1] = top[s] /\ q[n] = Base[s]
      /\ \A i \in 1..n : q[i] \in Handlers /\ Holds(s, q[i])
      /\ Injective(q)
      /\ next[q[n]] = Null /\ prev[q[1]] = Null
      /\ \A i \in 1..(n - 1) : next[q[i]] = q[i + 1] /\ prev[q[i + 1]] = q[i]
  BY <1>1, Places
<1>4. PICK k \in 1..n : q[k] = h
  BY <1>2 DEF Holds, Contains
<1>5. k # 1 /\ k # n
  BY <1>3, <1>4
<1>6. n \in Nat /\ k \in Nat /\ k >= 2 /\ k < n
  <2>1. n \in Nat
    BY <1>3
  <2> HIDE DEF n
  <2>. QED
    BY <2>1, <1>4, <1>5
<1>7. prev[h] = q[k - 1] /\ next[h] = q[k + 1] /\ q[k - 1] \in Handlers /\ q[k + 1] \in Handlers
  <2>1. k - 1 \in 1..(n - 1) /\ k \in 1..(n - 1) /\ k - 1 \in 1..n /\ k + 1 \in 1..n
        /\ (k - 1) + 1 = k
    <3> HIDE DEF n
    <3>. QED
      BY <1>6
  <2>2. prev[q[(k - 1) + 1]] = q[k - 1]
    BY <2>1, <1>3
  <2>. QED
    BY <2>1, <2>2, <1>3, <1>4
<1>8. /\ items' = [r \in Stacks |-> RemoveFirst(items[r], h)]
      /\ next' = [x \in Handlers |-> IF x = h THEN Null
                                     ELSE IF x = q[k - 1] THEN q[k + 1] ELSE next[x]]
      /\ prev' = [x \in Handlers |-> IF x = h THEN Null
                                     ELSE IF x = q[k + 1] THEN q[k - 1] ELSE prev[x]]
      /\ top' = top
  BY <1>7 DEF Unlink
<1>9. /\ items'[s] \in Seq(Handlers)
      /\ Len(items'[s]) = n - 1
      /\ \A i \in 1..(n - 1) : items'[s][i] = IF i < k THEN q[i] ELSE q[i + 1]
      /\ Injective(items'[s])
      /\ \A x \in Handlers : Contains(items'[s], x) <=> Contains(items[s], x) /\ x # h
  <2>1. items'[s] = RemoveFirst(q, h)
    BY <1>8
  <2>2. RemoveFirst(q, h) = RemoveAt(q, k)
    BY <1>3, <1>4, RemoveFirstIsRemoveAt
  <2>3. /\ RemoveAt(q, k) \in Seq(Handlers) /\ Len(RemoveAt(q, k)) = n - 1
        /\ \A i \in 1..(n - 1) : RemoveAt(q, k)[i] = IF i < k THEN q[i] ELSE q[i + 1]
    BY <1>3, RemoveAtProperties
  <2>4. /\ Injective(RemoveFirst(q, h))
        /\ \A x : Contains(RemoveFirst(q, h), x) <=> Contains(q, x) /\ x # h
    BY <1>3, RemoveFirstProperties
  <2>. QED
    BY <2>1, <2>2, <2>3, <2>4
<1>10. ASSUME NEW r \in Stacks, r # s
       PROVE  items'[r] = items[r]
  <2>1. ~Holds(r, h)
    BY <1>1, <1>2, <1>10, Apart
  <2>2. ~ \E i \in 1..Len(items[r]) : items[r][i] = h
    BY <2>1 DEF Holds, Contains
  <2>. QED
    BY <2>2, <1>8 DEF RemoveFirst
<1>11. ASSUME NEW x \in Handlers, ~Holds(s, x)
       PROVE  next'[x] = next[x] /\ prev'[x] = prev[x]
  <2>1. x # h /\ x # q[k - 1] /\ x # q[k + 1]
    <3>1. k - 1 \in 1..n /\ k + 1 \in 1..n
      <4> HIDE DEF n
      <4>. QED
        BY <1>6
    <3>. QED
      BY <3>1, <1>2, <1>3, <1>11
  <2>. QED
    BY <2>1, <1>8
<1>12. Disjoint'
  <2>1. next'[h] = Null /\ prev'[h] = Null
    BY <1>8
  <2>. QED
    BY <2>1, <1>1, <1>2, <1>9, <1>10, <1>11, TakingOutKeepsDisjoint
<1>13. ASSUME NEW r \in Stacks
       PROVE  Ends(r)' /\ Linked(r)'
  <2>1. CASE r # s
    <3>1. ASSUME NEW i \in 1..Len(items[r])
          PROVE  items[r][i] \in Handlers /\ ~Holds(s, items[r][i])
      BY <2>1, <1>1, Places, Apart
    <3>2. items'[r] = items[r] /\ top'[r] = top[r]
      BY <2>1, <1>8, <1>10
    <3>. QED
      BY <3>1, <3>2, <1>1, <1>11, UntouchedChain
  <2>2. CASE r = s
    <3>1. items'[s][1] = q[1] /\ items'[s][n - 1] = q[n]
      <4>1. /\ 1 \in 1..(n - 1) /\ 1 < k
            /\ n - 1 \in 1..(n - 1) /\ ~(n - 1 < k) /\ (n - 1) + 1 = n
        <5> HIDE DEF n
        <5>. QED
          BY <1>6
      <4>. QED
        BY <4>1, <1>9
    <3>2. Ends(s)'
      <4>1. Len(items'[s]) = n - 1 /\ n - 1 # 0
        BY <1>6, <1>9
      <4>2. items'[s] # <<>>
        BY <4>1, <1>9
      <4>. QED
        BY <4>1, <4>2, <3>1, <1>3, <1>8 DEF Ends
    <3>3. prev'[q[1]] = Null /\ next'[q[n]] = Null
      <4>1. 1 \in 1..n /\ n \in 1..n /\ k + 1 \in 1..n /\ k - 1 \in 1..n /\ k + 1 # 1 /\ k - 1 # n
        <5> HIDE DEF n
        <5>. QED
          BY <1>6
      <4>2. q[1] # q[k + 1] /\ q[n] # q[k - 1] /\ q[1] \in Handlers /\ q[n] \in Handlers
        BY <4>1, <1>3 DEF Injective
      <4>. QED
        BY <4>2, <1>3, <1>8
    <3>4. ASSUME NEW i \in 1..(n - 2)
          PROVE  next'[items'[s][i]] = items'[s][i + 1] /\ prev'[items'[s][i + 1]] = items'[s][i]
      <4>1. /\ i \in 1..(n - 1) /\ i + 1 \in 1..(n - 1) /\ i \in 1..n /\ i + 1 \in 1..n
            /\ (i + 1) + 1 \in 1..n /\ k - 1 \in 1..n /\ k + 1 \in 1..n /\ k \in 1..n
        <5> HIDE DEF n
        <5>. QED
          BY <1>6
      <4>2. CASE i = k - 1
        <5>1. i < k /\ ~(i + 1 < k) /\ (i + 1) + 1 = k + 1 /\ k - 1 # k /\ k + 1 # k
          BY <4>2, <1>6
        <5>2. items'[s][i] = q[k - 1] /\ items'[s][i + 1] = q[k + 1]
          BY <4>1, <4>2, <5>1, <1>9
        <5>3. q[k - 1] # h /\ q[k + 1] # h
          BY <4>1, <5>1, <1>3, <1>4 DEF Injective
        <5>. QED
          BY <5>2, <5>3, <1>7, <1>8
      <4>3. CASE i < k - 1
        <5>1. i < k /\ i + 1 < k /\ i # k - 1 /\ i # k /\ i + 1 # k + 1 /\ i + 1 # k
          BY <4>3, <1>6
        <5>2. items'[s][i] = q[i] /\ items'[s][i + 1] = q[i + 1]
          BY <4>1, <5>1, <1>9
        <5>3. q[i] # h /\ q[i] # q[k - 1] /\ q[i + 1] # h /\ q[i + 1] # q[k + 1]
          BY <4>1, <5>1, <1>3, <1>4 DEF Injective
        <5>4. next[q[i]] = q[i + 1] /\ prev[q[i + 1]] = q[i] /\ q[i] \in Handlers
              /\ q[i + 1] \in Handlers
          BY <4>1, <1>3
        <5>. QED
          BY <5>2, <5>3, <5>4, <1>8
      <4>4. CASE i > k - 1
        <5>1. ~(i < k) /\ ~(i + 1 < k) /\ i + 1 # k - 1 /\ i + 1 # k
              /\ (i + 1) + 1 # k + 1 /\ (i + 1) + 1 # k
          BY <4>4, <1>6
        <5>2. items'[s][i] = q[i + 1] /\ items'[s][i + 1] = q[(i + 1) + 1]
          BY <4>1, <5>1, <1>9
        <5>3. /\ q[i + 1] # h /\ q[i + 1] # q[k - 1]
              /\ q[(i + 1) + 1] # h /\ q[(i + 1) + 1] # q[k + 1]
          BY <4>1, <5>1, <1>3, <1>4 DEF Injective
        <5>4. /\ next[q[i + 1]] = q[(i + 1) + 1] /\ prev[q[(i + 1) + 1]] = q[i + 1]
              /\ q[i + 1] \in Handlers /\ q[(i + 1) + 1] \in Handlers
          BY <4>1, <1>3
        <5>. QED
          BY <5>2, <5>3, <5>4, <1>8
      <4>. QED
        BY <4>2, <4>3, <4>4, <1>6
    <3>5. Linked(s)'
      <4>1. Len(items'[s]) - 1 = n - 2 /\ items'[s][Len(items'[s])] = q[n]
        BY <3>1, <1>6, <1>9
      <4>. QED
        BY <4>1, <3>1, <3>3, <3>4 DEF Linked
    <3>. QED
      BY <2>2, <3>2, <3>5
  <2>. QED
    BY <2>1, <2>2
<1>. QED
  BY <1>12, <1>13 DEF ChainsAreItems

--------------------------------------------------------------------------------
LEMMA PushInv ==
  ASSUME StackInv, NEW s \in Stacks, NEW h \in Handlers, Push(s, h)
  PROVE  StackInv'
<1>1. StackTypeOK'
  BY PushType DEF StackInv
<1>2. CASE h \in Bases
  BY <1>1, <1>2 DEF Push, StackInv, ChainsAreItems
<1>3. CASE h \notin Bases
  BY <1>1, <1>3, PushKeepsChains DEF StackInv
<1>. QED
  BY <1>2, <1>3

LEMMA PopInv ==
  ASSUME StackInv, NEW s \in Stacks, Pop(s)
  PROVE  StackInv'
<1>1. items[s] # <<>>
  BY DEF Pop, StackInv, ChainsAreItems, Ends
<1>. QED
  BY <1>1, PopType, PopKeepsChains DEF StackInv

LEMMA UnlinkInv ==
  ASSUME StackInv, NEW h \in Handlers, Unlink(h)
  PROVE  StackInv'
<1>1. StackTypeOK'
  BY UnlinkType DEF StackInv
<1>2. CASE \E s \in Stacks : h = top[s] \/ h = Base[s]
  BY <1>1, <1>2 DEF Unlink, StackInv, ChainsAreItems
<1>3. CASE ~ \E s \in Stacks : h = top[s] \/ h = Base[s]
  BY <1>1, <1>3, UnlinkKeepsChains DEF StackInv
<1>. QED
  BY <1>2, <1>3

LEMMA StackNextInv == StackInv /\ [StackNext]_stackVars => StackInv'
<1> SUFFICES ASSUME StackInv, [StackNext]_stackVars PROVE StackInv'
  OBVIOUS
<1>1. ASSUME NEW s \in Stacks, Pop(s) PROVE StackInv'
  BY <1>1, PopInv
<1>2. ASSUME NEW s \in Stacks, NEW h \in Handlers, Push(s, h) PROVE StackInv'
  BY <1>2, PushInv
<1>3. ASSUME NEW s \in Stacks, NEW h \in Handlers, RemoveItem(s, h) PROVE StackInv'
  BY <1>3, PopInv, UnlinkInv DEF RemoveItem
<1>4. ASSUME NEW h \in Handlers, Unlink(h) PROVE StackInv'
  BY <1>4, UnlinkInv
<1>5. CASE UNCHANGED stackVars
  BY <1>5 DEF stackVars, StackInv, StackTypeOK, ChainsAreItems, Disjoint, Ends, Linked, Holds,
              Contains, IsUnlinked
<1>. QED
  BY <1>1, <1>2, <1>3, <1>4, <1>5 DEF StackNext

LEMMA StackCorrect == StackSpec => []StackInv
BY StackInitInv, StackNextInv, PTL DEF StackSpec

(* A walk changes the chains only by the operations of the stacks.           *)
LEMMA WalkStepsStack == [Next]_vars => [StackNext]_stackVars
<1> SUFFICES ASSUME [Next]_vars PROVE [StackNext]_stackVars
  OBVIOUS
<1>1. ASSUME NEW h \in Handlers, ChangeOf(h) PROVE StackNext
  BY <1>1 DEF ChangeOf, StackNext
<1>2. ASSUME NEW h \in Handlers, HandlerChanges(h) \/ ChangeBetween(h) PROVE StackNext
  BY <1>1, <1>2 DEF HandlerChanges, ChangeBetween
<1>3. ASSUME NEW h \in Handlers, ProcessEvent(h) PROVE UNCHANGED stackVars
  BY <1>3 DEF ProcessEvent
<1>4. CASE DispatchStep
  BY <1>4 DEF DispatchStep, FilterEvent, HandlerHandles, HandlerSkips, TryChain, ChainEnds,
              TryAfterNext, TryApp, NotToApp
<1>5. CASE UNCHANGED vars
  BY <1>5 DEF vars
<1>. QED
  BY <1>2, <1>3, <1>4, <1>5 DEF Next

(* DoProcessEvent and the handlers it calls do to the stacks what their own   *)
(* specification lets client code do, and nothing else.                      *)
THEOREM WalkImplementsStack == Spec => StackSpec
<1>1. Init => StackInit
  BY DEF Init
<1>. QED
  BY <1>1, WalkStepsStack, PTL DEF Spec, StackSpec

(* The pointers always point to handlers or nowhere (the fields of           *)
(* EvtHandler and EvtHandlerStack).                                          *)
THEOREM StackTypeCorrect == Spec => []StackTypeOK
<1>1. StackInv => StackTypeOK
  BY DEF StackInv
<1>. QED
  BY <1>1, WalkImplementsStack, StackCorrect, PTL

(* The chains of EvtHandlerStack are what its Push, Pop and Remove and        *)
(* EvtHandler::Unlink promise, for any handlers and stacks, while events are *)
(* processed.                                                                *)
THEOREM ChainsCorrect == Spec => []ChainsAreItems
<1>1. StackInv => ChainsAreItems
  BY DEF StackInv
<1>. QED
  BY <1>1, WalkImplementsStack, StackCorrect, PTL

--------------------------------------------------------------------------------
(* The private flags of an event object and what they remember.              *)
FlagInv ==
  /\ wasProcessed \in BOOLEAN /\ willBeProcessed \in BOOLEAN
  /\ locally \in BOOLEAN /\ resent \in BOOLEAN
  /\ wasProcessed => filterCalls = 1
  /\ ~wasProcessed => filterCalls = 0
  /\ willBeProcessed => appCalls \in {0, 1}
  /\ ~willBeProcessed => appCalls = 0
  /\ at = "filter" => ~wasProcessed
  /\ at = "here" /\ ~wasProcessed => locally /\ visited = <<root>>
  /\ at = "after" => ~locally
  /\ at # "none" /\ ~resent /\ willBeProcessed => appCalls = 1
  /\ at = "none" /\ verdict = "unhandled" /\ ~locally /\ ~idle /\ ~resent =>
       appCalls = 1 \/ cur = App

LEMMA FlagInit == Init => FlagInv
BY DEF Init, FlagInv

LEMMA FlagNext == FlagInv /\ [Next]_vars => FlagInv'
<1> SUFFICES ASSUME FlagInv, [Next]_vars PROVE FlagInv'
  OBVIOUS
<1>1. ASSUME NEW h \in Handlers, ProcessEvent(h) PROVE FlagInv'
  <2>1. /\ at' = (IF locally' \/ wasProcessed' THEN "here" ELSE "filter")
        /\ visited' = <<root'>>
        /\ locally' \in BOOLEAN
    BY <1>1 DEF ProcessEvent, StartWalk
  <2>2. \/ /\ wasProcessed' = FALSE /\ willBeProcessed' = FALSE
           /\ filterCalls' = 0 /\ appCalls' = 0 /\ resent' = FALSE
        \/ /\ UNCHANGED <<wasProcessed, willBeProcessed, filterCalls, appCalls>>
           /\ resent' = TRUE
    BY <1>1 DEF ProcessEvent
  <2>3. /\ at' = "here" \/ at' = "filter"
        /\ at' = "filter" => ~locally' /\ ~wasProcessed'
    BY <2>1
  <2>4. CASE resent' = FALSE
    BY <2>1, <2>2, <2>3, <2>4 DEF FlagInv
  <2>5. CASE resent' = TRUE
    <3>1. UNCHANGED <<wasProcessed, willBeProcessed, filterCalls, appCalls>>
      BY <2>2, <2>5
    <3>2. at' = "here" /\ ~wasProcessed' => locally'
      BY <2>1
    <3>. QED
      BY <2>1, <2>3, <2>5, <3>1, <3>2 DEF FlagInv
  <2>. QED
    BY <2>2, <2>4, <2>5
<1>2. CASE FilterEvent
  BY <1>2 DEF FilterEvent, Finish, walkVars, FlagInv
<1>3. CASE HandlerHandles
  BY <1>3 DEF HandlerHandles, Finish, eventVars, walkVars, FlagInv
<1>4. CASE HandlerSkips
  BY <1>4 DEF HandlerSkips, eventVars, walkVars, FlagInv
<1>5. CASE TryChain
  BY <1>5 DEF TryChain, Reach, eventVars, FlagInv
<1>6. CASE ChainEnds
  BY <1>6 DEF ChainEnds, Finish, eventVars, walkVars, FlagInv
<1>7. CASE TryAfterNext
  BY <1>7 DEF TryAfterNext, eventVars, walkVars, FlagInv
<1>8. CASE TryApp
  BY <1>8 DEF TryApp, PassesToApp, StartWalk, Reach, FlagInv
<1>9. CASE NotToApp
  BY <1>9 DEF NotToApp, PassesToApp, Finish, walkVars, FlagInv
<1>10. ASSUME NEW h \in Handlers, HandlerChanges(h) PROVE FlagInv'
  BY <1>10 DEF HandlerChanges, eventVars, FlagInv
<1>11. ASSUME NEW h \in Handlers, ChangeBetween(h) PROVE FlagInv'
  BY <1>11 DEF ChangeBetween, eventVars, FlagInv
<1>12. CASE UNCHANGED vars
  BY <1>12 DEF vars, eventVars, walkVars, FlagInv
<1>. QED
  BY <1>1, <1>2, <1>3, <1>4, <1>5, <1>6, <1>7, <1>8, <1>9, <1>10, <1>11, <1>12
     DEF Next, DispatchStep

(* The filters see an event object once, however often it is sent and        *)
(* whatever the chains become (DoProcessEvent, WasProcessed).                *)
THEOREM FiltersCorrect == Spec => []FiltersAskedFirst
<1>1. FlagInv => FiltersAskedFirst
  BY DEF FlagInv, FiltersAskedFirst
<1>. QED
  BY <1>1, FlagInit, FlagNext, PTL DEF Spec

(* The application is asked once for an event object, and before any but the  *)
(* idle event is given up (TryAfter, WillBeProcessedAgain, TryApp).           *)
THEOREM AppCorrect == Spec => []AppAskedOnce
<1>1. FlagInv => AppAskedOnce
  BY DEF FlagInv, AppAskedOnce
<1>. QED
  BY <1>1, FlagInit, FlagNext, PTL DEF Spec

--------------------------------------------------------------------------------
(* The chain the walk follows.                                               *)
WalkInv == StackInv /\ root \in Handlers /\ cur \in Handlers

LEMMA WalkInit == Init => WalkInv
BY StackInitInv, DispatchAssumption DEF Init, WalkInv

LEMMA WalkNext == WalkInv /\ [Next]_vars => WalkInv'
<1> SUFFICES ASSUME WalkInv, [Next]_vars PROVE WalkInv'
  OBVIOUS
<1>1. StackInv'
  BY WalkStepsStack, StackNextInv DEF WalkInv
<1>2. next \in [Handlers -> Handlers \cup {Null}] /\ App \in Handlers
  BY DispatchAssumption DEF WalkInv, StackInv, StackTypeOK
<1>3. root' \in Handlers /\ cur' \in Handlers
  <2>1. ASSUME NEW h \in Handlers, ProcessEvent(h) \/ HandlerChanges(h) \/ ChangeBetween(h)
        PROVE  root' \in Handlers /\ cur' \in Handlers
    BY <2>1 DEF ProcessEvent, HandlerChanges, ChangeBetween, StartWalk, WalkInv
  <2>2. CASE DispatchStep
    BY <1>2, <2>2 DEF DispatchStep, FilterEvent, HandlerHandles, HandlerSkips, TryChain, ChainEnds,
         TryAfterNext, TryApp, NotToApp, NextHandler, StartWalk, WalkInv
  <2>3. CASE UNCHANGED vars
    BY <2>3 DEF vars, WalkInv
  <2>. QED
    BY <2>1, <2>2, <2>3 DEF Next
<1>. QED
  BY <1>1, <1>3 DEF WalkInv

(* A handler that has a next one is in a chain, and the next one too.         *)
LEMMA NextInChain ==
  ASSUME StackInv, ~misused, NEW h \in Handlers, next[h] # Null
  PROVE  \E s \in Stacks : Holds(s, h) /\ Holds(s, next[h])
<1>1. PICK s \in Stacks : Holds(s, h)
  BY DEF StackInv, ChainsAreItems, Disjoint, IsUnlinked
<1>2. PICK i \in 1..Len(items[s]) : items[s][i] = h
  BY <1>1 DEF Holds, Contains
<1>3. i # Len(items[s]) /\ Len(items[s]) \in Nat
  BY <1>2, Places
<1>4. i \in 1..(Len(items[s]) - 1) /\ i + 1 \in 1..Len(items[s])
  BY <1>2, <1>3
<1>5. next[h] = items[s][i + 1] /\ Holds(s, items[s][i + 1])
  BY <1>2, <1>4, Places
<1>. QED
  BY <1>1, <1>5

(* TryChain goes from a handler to the next one of the same chain, whatever   *)
(* handlers have done to the chains (EvtHandler::GetNextHandler): a handler   *)
(* that was taken out before its turn is not asked.                          *)
THEOREM ChainCorrect == Spec => OnlyChainedAsked
<1>. DEFINE Chained == TryChain /\ ~lost => \E s \in Stacks : Holds(s, cur) /\ Holds(s, NextHandler)
<1>1. WalkInv => [Chained]_vars
  BY NextInChain DEF WalkInv, TryChain, NextHandler
<1>. HIDE DEF Chained
<1>2. Spec => []WalkInv
  BY WalkInit, WalkNext, PTL DEF Spec
<1>3. Spec => [][Chained]_vars
  BY <1>1, <1>2, PTL
<1>. QED
  BY <1>3 DEF OnlyChainedAsked, Chained

--------------------------------------------------------------------------------
(* The staying handlers are asked in order. While cur has not moved, the next *)
(* pointers of the chain as it was when the walk began skip the moved handlers *)
(* and nothing else, from the position of cur on.                             *)
FollowedBy(k) ==
  \/ /\ next[path[k]] = Null
     /\ \A m \in (k + 1)..Len(path) : path[m] \in moved
  \/ \E m \in (k + 1)..Len(path) :
       /\ next[path[k]] = path[m] /\ path[m] \notin moved
       /\ \A x \in (k + 1)..(m - 1) : path[x] \in moved

TurnAt(i) ==
  /\ path[i] = cur
  /\ Before(path, i) \ moved = Before(visited, Len(visited)) \ moved
  /\ \A k \in i..Len(path) : path[k] \notin moved => FollowedBy(k)

TurnOK ==
  /\ cur \notin moved /\ Len(visited) # 0 /\ visited[Len(visited)] = cur
  /\ \E i \in 1..Len(path) : TurnAt(i)

AskedOK ==
  \A j \in 1..Len(visited) : visited[j] \notin moved =>
    \E i \in 1..Len(path) :
      path[i] = visited[j] /\ Before(path, i) \ moved = Before(visited, j) \ moved

AllAsked == \A i \in 1..Len(path) : path[i] \in moved \/ Contains(visited, path[i])

OrderInv ==
  ~misused =>
    /\ path \in Seq(Handlers) /\ visited \in Seq(Handlers)
    /\ ~lost =>
         /\ AskedOK
         /\ at \in {"filter", "here", "next"} => TurnOK
         /\ at = "after" \/ (at = "none" /\ verdict = "unhandled") => AllAsked

(* The two pointers of EvtHandler name each other.                           *)
LEMMA Neighbours ==
  ASSUME StackInv, ~misused, NEW x \in Handlers, NEW y \in Handlers
  PROVE  next[x] = y <=> prev[y] = x
<1>. USE StackAssumption
<1>1. ASSUME next[x] = y PROVE prev[y] = x
  <2>1. PICK s \in Stacks : Holds(s, x)
    BY <1>1 DEF StackInv, ChainsAreItems, Disjoint, IsUnlinked
  <2>2. PICK i \in 1..Len(items[s]) : items[s][i] = x
    BY <2>1 DEF Holds, Contains
  <2>3. i # Len(items[s]) /\ Len(items[s]) \in Nat
    BY <1>1, <2>2, Places
  <2>4. i \in 1..(Len(items[s]) - 1)
    BY <2>2, <2>3
  <2>. QED
    BY <1>1, <2>2, <2>4, Places
<1>2. ASSUME prev[y] = x PROVE next[x] = y
  <2>1. PICK s \in Stacks : Holds(s, y)
    BY <1>2 DEF StackInv, ChainsAreItems, Disjoint, IsUnlinked
  <2>2. PICK i \in 1..Len(items[s]) : items[s][i] = y
    BY <2>1 DEF Holds, Contains
  <2>3. i # 1 /\ Len(items[s]) \in Nat
    BY <1>2, <2>2, Places
  <2>4. i - 1 \in 1..(Len(items[s]) - 1) /\ (i - 1) + 1 = i
    BY <2>2, <2>3
  <2>5. /\ prev[items[s][(i - 1) + 1]] = items[s][i - 1]
        /\ next[items[s][i - 1]] = items[s][(i - 1) + 1]
    BY <2>4, Places
  <2>. QED
    BY <1>2, <2>2, <2>4, <2>5
<1>. QED
  BY <1>1, <1>2

(* What a change does to the pointer of a handler that is not the one moved: *)
(* nothing, or it skips that one.                                            *)
LEMMA ChangeSkips ==
  ASSUME StackInv, ~misused, NEW h \in Handlers, ChangeOf(h), NEW x \in Handlers, x # h
  PROVE  \/ next[x] # h /\ next'[x] = next[x]
         \/ next[x] = h /\ next'[x] = next[h]
<1>. USE StackAssumption
<1>1. next \in [Handlers -> Handlers \cup {Null}] /\ prev \in [Handlers -> Handlers \cup {Null}]
  BY DEF StackInv, StackTypeOK
<1>2. ASSUME prev[h] = Null PROVE next[x] # h
  BY <1>1, <1>2, Neighbours
<1>3. ASSUME NEW s \in Stacks, Push(s, h)
      PROVE  next[x] # h /\ next'[x] = next[x]
  BY <1>1, <1>2, <1>3 DEF Push, IsUnlinked
<1>4. ASSUME NEW s \in Stacks, h = top[s], Pop(s)
      PROVE  next[x] # h /\ next'[x] = next[x]
  BY <1>1, <1>2, <1>4 DEF Pop
<1>5. ASSUME Unlink(h)
      PROVE  \/ next[x] # h /\ next'[x] = next[x]
             \/ next[x] = h /\ next'[x] = next[h]
  <2>1. next[x] = h <=> prev[h] = x
    BY Neighbours
  <2>2. next'[x] = IF x = prev[h] THEN next[h] ELSE next[x]
    BY <1>5 DEF Unlink
  <2>. QED
    BY <2>1, <2>2
<1>. QED
  BY <1>3, <1>4, <1>5 DEF ChangeOf, RemoveItem

(* The chain a walk begins with.                                             *)
LEMMA ChainFromProperties ==
  ASSUME StackInv, ~misused, NEW h \in Handlers
  PROVE  /\ ChainFrom(h) \in Seq(Handlers)
         /\ Len(ChainFrom(h)) \in Nat \ {0} /\ ChainFrom(h)[1] = h
         /\ next[ChainFrom(h)[Len(ChainFrom(h))]] = Null
         /\ \A k \in 1..(Len(ChainFrom(h)) - 1) : next[ChainFrom(h)[k]] = ChainFrom(h)[k + 1]
<1>1. CASE ~ \E s \in Stacks : Holds(s, h)
  <2>1. next[h] = Null
    BY <1>1 DEF StackInv, ChainsAreItems, Disjoint, IsUnlinked
  <2>2. ChainFrom(h) = <<h>>
    BY <1>1 DEF ChainFrom
  <2>. QED
    BY <2>1, <2>2
<1>2. CASE \E s \in Stacks : Holds(s, h)
  <2> DEFINE s == CHOOSE r \in Stacks : Holds(r, h)
             q == items[s]
             i == CHOOSE j \in DOMAIN q : q[j] = h
             n == Len(q)
  <2>1. s \in Stacks /\ Holds(s, h)
    BY <1>2
  <2> HIDE DEF s
  <2>2. /\ q \in Seq(Handlers) /\ n \in Nat \ {0} /\ next[q[n]] = Null
        /\ \A j \in 1..(n - 1) : next[q[j]] = q[j + 1]
    BY <2>1, Places
  <2>3. DOMAIN q = 1..n /\ \E j \in DOMAIN q : q[j] = h
    BY <2>1, <2>2 DEF Holds, Contains
  <2>4. i \in 1..n /\ q[i] = h
    BY <2>3
  <2>5. ChainFrom(h) = SubSeq(q, i, n)
    BY <1>2 DEF ChainFrom, s
  <2> HIDE DEF q, i, n
  <2>6. /\ SubSeq(q, i, n) \in Seq(Handlers)
        /\ Len(SubSeq(q, i, n)) = n - i + 1
        /\ \A j \in 1..(n - i + 1) : SubSeq(q, i, n)[j] = q[i + j - 1]
    <3>1. i \in 1..(n + 1) /\ n \in (i - 1)..Len(q)
      BY <2>2, <2>4 DEF n
    <3>. QED
      BY <2>2, <2>4, <3>1, SubSeqProperties DEF n
  <2> DEFINE c == SubSeq(q, i, n)
  <2>7. c[1] = q[i] /\ c[n - i + 1] = q[n]
    <3>1. 1 \in 1..(n - i + 1) /\ n - i + 1 \in 1..(n - i + 1)
          /\ i + 1 - 1 = i /\ i + (n - i + 1) - 1 = n
      BY <2>2, <2>4
    <3>. QED
      BY <2>6, <3>1
  <2>8. ASSUME NEW k \in 1..(n - i)
        PROVE  next[c[k]] = c[k + 1]
    <3>1. /\ k \in 1..(n - i + 1) /\ k + 1 \in 1..(n - i + 1)
          /\ i + k - 1 \in 1..(n - 1) /\ i + (k + 1) - 1 = (i + k - 1) + 1
      BY <2>2, <2>4
    <3>2. c[k] = q[i + k - 1] /\ c[k + 1] = q[(i + k - 1) + 1]
      BY <2>6, <3>1
    <3>. QED
      BY <2>2, <3>1, <3>2
  <2>9. n - i + 1 \in Nat \ {0} /\ (n - i + 1) - 1 = n - i
    BY <2>2, <2>4
  <2>. QED
    BY <2>2, <2>4, <2>5, <2>6, <2>7, <2>8, <2>9
<1>. QED
  BY <1>1, <1>2

(* No chain turns back on the handler it comes from.                         *)
LEMMA NextOfItself ==
  ASSUME StackInv, ~misused, NEW h \in Handlers
  PROVE  next[h] # h
<1> SUFFICES ASSUME next[h] = h PROVE FALSE
  OBVIOUS
<1>1. PICK s \in Stacks : Holds(s, h)
  BY StackAssumption DEF StackInv, ChainsAreItems, Disjoint, IsUnlinked
<1>2. PICK i \in 1..Len(items[s]) : items[s][i] = h
  BY <1>1 DEF Holds, Contains
<1>3. i # Len(items[s]) /\ Len(items[s]) \in Nat
  BY <1>2, Places, StackAssumption
<1>4. i \in 1..(Len(items[s]) - 1) /\ i + 1 \in 1..Len(items[s]) /\ i + 1 # i
  BY <1>2, <1>3
<1>5. items[s][i + 1] = h
  BY <1>2, <1>4, Places
<1>. QED
  BY <1>2, <1>4, <1>5, Places DEF Injective

LEMMA WalkBegins ==
  ASSUME StackInv, ~misused, NEW h \in Handlers, StartWalk(h), visited' = <<h>>,
         next' = next
  PROVE  /\ path' \in Seq(Handlers) /\ visited' \in Seq(Handlers)
         /\ AskedOK' /\ TurnOK'
<1>1. /\ path' \in Seq(Handlers) /\ Len(path') \in Nat \ {0} /\ path'[1] = h
      /\ next[path'[Len(path')]] = Null
      /\ \A k \in 1..(Len(path') - 1) : next[path'[k]] = path'[k + 1]
      /\ cur' = h /\ moved' = {}
  BY ChainFromProperties DEF StartWalk
<1>2. visited' \in Seq(Handlers) /\ Len(visited') = 1 /\ visited'[1] = h
  OBVIOUS
<1>3. Before(path', 1) = {} /\ Before(visited', 1) = {}
  BY DEF Before
<1>4. ASSUME NEW k \in 1..Len(path')
      PROVE  FollowedBy(k)'
  <2>1. CASE k = Len(path')
    <3>1. \A m \in (k + 1)..Len(path') : path'[m] \in moved'
      BY <2>1, <1>1
    <3>. QED
      BY <2>1, <3>1, <1>1 DEF FollowedBy
  <2>2. CASE k # Len(path')
    <3>1. k \in 1..(Len(path') - 1) /\ k + 1 \in (k + 1)..Len(path')
      BY <2>2, <1>1
    <3>2. \A x \in (k + 1)..((k + 1) - 1) : path'[x] \in moved'
      BY <1>1
    <3>3. next'[path'[k]] = path'[k + 1] /\ path'[k + 1] \notin moved'
      BY <3>1, <1>1
    <3>. QED
      BY <3>1, <3>2, <3>3 DEF FollowedBy
  <2>. QED
    BY <2>1, <2>2
<1>5. 1 \in 1..Len(path')
  BY <1>1
<1>6. TurnAt(1)'
  BY <1>1, <1>2, <1>3, <1>4 DEF TurnAt
<1>7. TurnOK'
  BY <1>1, <1>2, <1>5, <1>6 DEF TurnOK
<1>8. AskedOK'
  <2>1. \A j \in 1..Len(visited') : j = 1
    BY <1>2
  <2>2. path'[1] = visited'[1] /\ Before(path', 1) \ moved' = Before(visited', 1) \ moved'
    BY <1>1, <1>2, <1>3
  <2>. QED
    BY <2>1, <2>2, <1>5 DEF AskedOK
<1>. QED
  BY <1>1, <1>2, <1>7, <1>8

(* The next handler is the first after cur that has not moved.               *)
LEMMA TurnPasses ==
  ASSUME OrderInv, ~lost, ~misused, TryChain, next[cur] \in Handlers
  PROVE  OrderInv'
<1>1. /\ at = "next" /\ next[cur] # Null /\ cur' = next[cur]
      /\ visited' = Append(visited, next[cur])
      /\ at' \in {"filter", "here"}
      /\ UNCHANGED <<stackVars, path, moved, lost>>
  BY DEF TryChain, NextHandler, Reach
<1>2. next' = next /\ misused' = misused
  BY <1>1 DEF stackVars
<1>3. /\ path \in Seq(Handlers) /\ visited \in Seq(Handlers) /\ AskedOK /\ TurnOK
  BY <1>1 DEF OrderInv
<1> DEFINE n == Len(visited)
<1>4. /\ n \in Nat \ {0} /\ Len(path) \in Nat /\ cur \notin moved /\ visited[n] = cur
  BY <1>3 DEF TurnOK
<1>5. /\ visited' \in Seq(Handlers) /\ Len(visited') = n + 1 /\ visited'[n + 1] = cur'
      /\ \A j \in 1..n : visited'[j] = visited[j]
  BY <1>1, <1>3
<1> HIDE DEF n
<1>6. PICK i \in 1..Len(path) : TurnAt(i)
  BY <1>3 DEF TurnOK
<1>7. /\ path[i] = cur
      /\ Before(path, i) \ moved = Before(visited, n) \ moved
      /\ \A k \in i..Len(path) : path[k] \notin moved => FollowedBy(k)
  BY <1>6 DEF TurnAt, n
<1>8. PICK m \in (i + 1)..Len(path) :
        /\ path[m] = cur' /\ path[m] \notin moved
        /\ \A x \in (i + 1)..(m - 1) : path[x] \in moved
  <2>1. FollowedBy(i)
    BY <1>4, <1>7
  <2>. QED
    BY <2>1, <1>1, <1>7 DEF FollowedBy
<1>9. Before(visited', n + 1) = Before(visited, n) \cup {cur}
  <2>1. \A x : x \in Before(visited', n + 1) <=> \E j \in 1..n : x = visited[j]
    BY <1>4, <1>5 DEF Before
  <2>2. \A x : x \in Before(visited, n) <=> \E j \in 1..(n - 1) : x = visited[j]
    BY DEF Before
  <2>3. \A j \in 1..n : j = n \/ j \in 1..(n - 1)
    BY <1>4
  <2>4. n \in 1..n /\ \A j \in 1..(n - 1) : j \in 1..n
    BY <1>4
  <2>. QED
    BY <2>1, <2>2, <2>3, <2>4, <1>4
<1>10. Before(path, m) \ moved = (Before(path, i) \cup {cur}) \ moved
  <2>1. \A x : x \in Before(path, m) <=> \E j \in 1..(m - 1) : x = path[j]
    BY DEF Before
  <2>2. \A x : x \in Before(path, i) <=> \E j \in 1..(i - 1) : x = path[j]
    BY DEF Before
  <2>3. \A j \in 1..(m - 1) : j \in 1..(i - 1) \/ j = i \/ j \in (i + 1)..(m - 1)
    BY <1>4
  <2>4. i \in 1..(m - 1) /\ \A j \in 1..(i - 1) : j \in 1..(m - 1)
    BY <1>4
  <2>. QED
    BY <2>1, <2>2, <2>3, <2>4, <1>7, <1>8
<1>11. m \in 1..Len(path) /\ \A k \in m..Len(path) : k \in i..Len(path)
  BY <1>4
<1>12. Before(path, m) \ moved = Before(visited', n + 1) \ moved
  BY <1>7, <1>9, <1>10
<1>13. TurnAt(m)'
  <2>1. \A k \in m..Len(path) : path[k] \notin moved => FollowedBy(k)'
    BY <1>1, <1>2, <1>7, <1>11 DEF FollowedBy
  <2>. QED
    BY <2>1, <1>1, <1>5, <1>8, <1>12 DEF TurnAt
<1>14. TurnOK'
  BY <1>1, <1>4, <1>5, <1>8, <1>11, <1>13 DEF TurnOK
<1>15. AskedOK'
  <2> SUFFICES ASSUME NEW j \in 1..(n + 1), visited'[j] \notin moved
               PROVE  \E l \in 1..Len(path) : /\ path[l] = visited'[j]
                        /\ Before(path, l) \ moved = Before(visited', j) \ moved
    BY <1>1, <1>5 DEF AskedOK
  <2>1. CASE j = n + 1
    BY <2>1, <1>5, <1>8, <1>11, <1>12
  <2>2. CASE j # n + 1
    <3>1. j \in 1..n /\ \A k \in 1..(j - 1) : k \in 1..n
      BY <2>2, <1>4
    <3>2. visited'[j] = visited[j] /\ Before(visited', j) = Before(visited, j)
      BY <3>1, <1>5 DEF Before
    <3>. QED
      BY <3>1, <3>2, <1>3 DEF AskedOK, n
  <2>. QED
    BY <2>1, <2>2
<1>. QED
  BY <1>1, <1>3, <1>5, <1>14, <1>15 DEF OrderInv

(* A handler that moves is skipped, wherever it was.                         *)
LEMMA TurnKept ==
  ASSUME StackInv, OrderInv, NEW h \in Handlers, HandlerChanges(h)
  PROVE  OrderInv'
<1>0. /\ at = "here" /\ at' = at /\ ChangeOf(h)
      /\ lost' = (lost \/ h = cur)
      /\ moved' = (IF lost' THEN {} ELSE moved \cup {h})
      /\ path' = (IF lost' THEN <<>> ELSE path)
      /\ cur' = cur /\ visited' = visited
  BY DEF HandlerChanges
<1>2. ~misused
  BY <1>0 DEF ChangeOf, Push, Pop, RemoveItem, Unlink
<1> SUFFICES ASSUME ~lost', ~misused'
             PROVE  AskedOK' /\ TurnOK'
  <2>1. path' \in Seq(Handlers) /\ visited' \in Seq(Handlers)
    BY <1>0, <1>2 DEF OrderInv
  <2>. QED
    BY <1>0, <1>2, <2>1 DEF OrderInv
<1>1. /\ at = "here" /\ at' = at /\ ChangeOf(h) /\ moved' = moved \cup {h}
      /\ lost' = (lost \/ h = cur)
      /\ cur' = cur /\ path' = path /\ visited' = visited
  BY <1>0
<1>3. /\ path \in Seq(Handlers) /\ visited \in Seq(Handlers) /\ AskedOK /\ TurnOK /\ h # cur
  BY <1>1, <1>2 DEF OrderInv
<1>4. AskedOK'
  <2> SUFFICES ASSUME NEW j \in 1..Len(visited), visited[j] \notin moved'
               PROVE  \E i \in 1..Len(path) : /\ path[i] = visited[j]
                        /\ Before(path, i) \ moved' = Before(visited, j) \ moved'
    BY <1>1 DEF AskedOK
  <2>1. PICK i \in 1..Len(path) : /\ path[i] = visited[j]
               /\ Before(path, i) \ moved = Before(visited, j) \ moved
    BY <1>1, <1>3 DEF AskedOK
  <2>2. Before(path, i) \ moved' = Before(visited, j) \ moved'
    BY <2>1, <1>1
  <2>. QED
    BY <2>1, <2>2
<1>5. PICK i \in 1..Len(path) : TurnAt(i)
  BY <1>3 DEF TurnOK
<1>6. ASSUME NEW k \in i..Len(path), path[k] \notin moved'
      PROVE  FollowedBy(k)'
  <2>1. /\ path[k] \notin moved /\ path[k] # h /\ path[k] \in Handlers /\ FollowedBy(k)
        /\ Len(path) \in Nat
    BY <1>1, <1>3, <1>5, <1>6 DEF TurnAt
  <2>2. \/ next[path[k]] # h /\ next'[path[k]] = next[path[k]]
        \/ next[path[k]] = h /\ next'[path[k]] = next[h]
    BY <2>1, <1>1, <1>2, ChangeSkips
  <2>3. CASE /\ next[path[k]] = Null
             /\ \A m \in (k + 1)..Len(path) : path[m] \in moved
    <3>1. next'[path[k]] = Null
      BY <2>2, <2>3, StackAssumption
    <3>. QED
      BY <2>3, <3>1, <1>1 DEF FollowedBy
  <2>4. ASSUME NEW m \in (k + 1)..Len(path),
               next[path[k]] = path[m], path[m] \notin moved,
               \A x \in (k + 1)..(m - 1) : path[x] \in moved
        PROVE  FollowedBy(k)'
    <3>1. CASE path[m] # h
      BY <2>2, <2>4, <3>1, <1>1 DEF FollowedBy
    <3>2. CASE path[m] = h
      <4>1. next'[path[k]] = next[path[m]]
        BY <2>2, <2>4, <3>2
      <4>2. m \in i..Len(path)
        BY <2>1
      <4>3. FollowedBy(m)
        BY <2>4, <4>2, <1>5 DEF TurnAt
      <4>4. \A x \in (k + 1)..m : path[x] \in moved'
        <5>1. \A x \in (k + 1)..m : x = m \/ x \in (k + 1)..(m - 1)
          BY <2>1
        <5>. QED
          BY <5>1, <2>4, <3>2, <1>1
      <4>5. CASE /\ next[path[m]] = Null
                 /\ \A x \in (m + 1)..Len(path) : path[x] \in moved
        <5>1. \A x \in (k + 1)..Len(path) : x \in (k + 1)..m \/ x \in (m + 1)..Len(path)
          BY <2>1
        <5>2. \A x \in (k + 1)..Len(path) : path[x] \in moved'
          BY <5>1, <4>4, <4>5, <1>1
        <5>. QED
          BY <4>1, <4>5, <5>2, <1>1 DEF FollowedBy
      <4>6. ASSUME NEW p \in (m + 1)..Len(path),
                   next[path[m]] = path[p], path[p] \notin moved,
                   \A x \in (m + 1)..(p - 1) : path[x] \in moved
            PROVE  FollowedBy(k)'
        <5>1. /\ p \in (k + 1)..Len(path)
              /\ \A x \in (k + 1)..(p - 1) : x \in (k + 1)..m \/ x \in (m + 1)..(p - 1)
          BY <2>1
        <5>2. \A x \in (k + 1)..(p - 1) : path[x] \in moved'
          BY <5>1, <4>4, <4>6, <1>1
        <5>3. path[p] # h
          BY <2>1, <3>2, <4>6, <1>2, <1>3, NextOfItself
        <5>. QED
          BY <4>1, <4>6, <5>1, <5>2, <5>3, <1>1 DEF FollowedBy
      <4>. QED
        BY <4>3, <4>5, <4>6 DEF FollowedBy
    <3>. QED
      BY <3>1, <3>2
  <2>. QED
    BY <2>1, <2>3, <2>4 DEF FollowedBy
<1>7. TurnAt(i)'
  <2>1. Before(path, i) \ moved' = Before(visited, Len(visited)) \ moved'
    BY <1>1, <1>5 DEF TurnAt
  <2>. QED
    BY <2>1, <1>1, <1>5, <1>6 DEF TurnAt
<1>8. TurnOK'
  BY <1>1, <1>3, <1>7 DEF TurnOK
<1>. QED
  BY <1>4, <1>8

(* At the end of the chain every handler after cur has moved.                *)
LEMMA LastTurn ==
  ASSUME path \in Seq(Handlers), visited \in Seq(Handlers), TurnOK, next[cur] = Null
  PROVE  AllAsked
<1>1. PICK i \in 1..Len(path) : TurnAt(i)
  BY DEF TurnOK
<1>2. /\ path[i] = cur /\ cur \notin moved /\ visited[Len(visited)] = cur
      /\ Len(visited) \in Nat \ {0} /\ Len(path) \in Nat
      /\ Before(path, i) \ moved = Before(visited, Len(visited)) \ moved
      /\ FollowedBy(i)
  BY <1>1 DEF TurnAt, TurnOK
<1>3. \A m \in (i + 1)..Len(path) : path[m] \in moved
  <2>1. \A m \in (i + 1)..Len(path) : path[m] \in Handlers
    BY <1>2
  <2>. QED
    BY <2>1, <1>2, StackAssumption DEF FollowedBy
<1> SUFFICES ASSUME NEW j \in 1..Len(path), path[j] \notin moved
             PROVE  Contains(visited, path[j])
  BY DEF AllAsked
<1>4. j \in 1..(i - 1) \/ j = i
  BY <1>2, <1>3
<1>5. CASE j = i
  BY <1>2, <1>5 DEF Contains
<1>6. CASE j \in 1..(i - 1)
  <2>1. path[j] \in Before(visited, Len(visited))
    BY <1>2, <1>6 DEF Before
  <2>2. PICK k \in 1..(Len(visited) - 1) : visited[k] = path[j]
    BY <2>1 DEF Before
  <2>3. k \in 1..Len(visited)
    BY <1>2
  <2>. QED
    BY <2>2, <2>3 DEF Contains
<1>. QED
  BY <1>4, <1>5, <1>6

WalkOrderInv == WalkInv /\ OrderInv

LEMMA OrderInit == Init => OrderInv
<1> SUFFICES ASSUME Init PROVE OrderInv
  OBVIOUS
<1>1. at = "none" /\ verdict = "none" /\ path = <<>> /\ visited = <<>>
  BY DEF Init
<1>2. path \in Seq(Handlers) /\ visited \in Seq(Handlers) /\ AskedOK
  BY <1>1 DEF AskedOK
<1>. QED
  BY <1>1, <1>2 DEF OrderInv

(* Neither the turn nor what is remembered of the walk changes.              *)
LEMMA SameTurn ==
  ASSUME OrderInv, UNCHANGED <<stackVars, path, visited, moved, lost>>,
         \/ cur' = cur /\ at' \in {"filter", "here", "next"} /\ at \in {"filter", "here", "next"}
         \/ at' \notin {"filter", "here", "next"},
         at' = "after" \/ (at' = "none" /\ verdict' = "unhandled") =>
           \/ at = "after" \/ (at = "none" /\ verdict = "unhandled")
           \/ at = "next" /\ next[cur] = Null
  PROVE  OrderInv'
<1>1. /\ next' = next /\ misused' = misused /\ path' = path /\ visited' = visited
      /\ moved' = moved /\ lost' = lost
  BY DEF stackVars
<1> SUFFICES ASSUME ~lost, ~misused
             PROVE  /\ AskedOK'
                    /\ at' \in {"filter", "here", "next"} => TurnOK'
                    /\ at' = "after" \/ (at' = "none" /\ verdict' = "unhandled") => AllAsked'
  BY <1>1 DEF OrderInv
<1>2. path \in Seq(Handlers) /\ visited \in Seq(Handlers)
  BY DEF OrderInv
<1>3. AskedOK'
  BY <1>1 DEF OrderInv, AskedOK
<1>4. ASSUME at' \in {"filter", "here", "next"} PROVE TurnOK'
  <2>1. TurnOK /\ cur' = cur
    BY <1>4 DEF OrderInv
  <2>. QED
    BY <2>1, <1>1 DEF TurnOK, TurnAt, FollowedBy
<1>5. ASSUME at' = "after" \/ (at' = "none" /\ verdict' = "unhandled") PROVE AllAsked'
  <2>1. AllAsked
    BY <1>2, <1>5, LastTurn DEF OrderInv
  <2>. QED
    BY <2>1, <1>1 DEF AllAsked
<1>. QED
  BY <1>3, <1>4, <1>5

LEMMA OrderNext == WalkOrderInv /\ [Next]_vars => OrderInv'
<1> SUFFICES ASSUME WalkOrderInv, [Next]_vars PROVE OrderInv'
  OBVIOUS
<1>. USE DEF WalkOrderInv
<1>1. StackInv /\ OrderInv /\ cur \in Handlers /\ App \in Handlers
      /\ next \in [Handlers -> Handlers \cup {Null}]
  BY DispatchAssumption DEF WalkInv, StackInv, StackTypeOK
<1>2. ASSUME NEW h \in Handlers, ProcessEvent(h) PROVE OrderInv'
  <2>1. /\ ~misused /\ StartWalk(h) /\ visited' = <<h>> /\ next' = next
        /\ at' \in {"filter", "here"}
    BY <1>2 DEF ProcessEvent, stackVars
  <2>2. path' \in Seq(Handlers) /\ visited' \in Seq(Handlers) /\ AskedOK' /\ TurnOK'
    BY <2>1, <1>1, WalkBegins
  <2>. QED
    BY <2>1, <2>2 DEF OrderInv
<1>3. CASE FilterEvent
  BY <1>1, <1>3, SameTurn DEF FilterEvent, Finish, walkVars
<1>4. CASE HandlerHandles
  BY <1>1, <1>4, SameTurn DEF HandlerHandles, Finish, walkVars
<1>5. CASE HandlerSkips
  BY <1>1, <1>5, SameTurn DEF HandlerSkips, walkVars
<1>6. CASE TryChain
  <2>1. ~misused /\ next[cur] \in Handlers
    BY <1>1, <1>6 DEF TryChain, NextHandler
  <2>2. CASE ~lost
    BY <2>1, <2>2, <1>1, <1>6, TurnPasses
  <2>3. CASE lost
    <3>1. lost' /\ path' = path /\ visited' = <<>>
      BY <2>3, <1>6 DEF TryChain, Reach, NextHandler
    <3>2. path \in Seq(Handlers) /\ visited' \in Seq(Handlers)
      BY <3>1, <2>1, <1>1 DEF OrderInv
    <3>. QED
      BY <3>1, <3>2 DEF OrderInv
  <2>. QED
    BY <2>2, <2>3
<1>7. CASE ChainEnds
  BY <1>1, <1>7, SameTurn DEF ChainEnds, Finish, NextHandler, walkVars
<1>8. CASE TryAfterNext
  BY <1>1, <1>8, SameTurn DEF TryAfterNext, walkVars
<1>9. CASE TryApp
  <2>1. /\ StartWalk(App) /\ visited' = <<App>> /\ next' = next /\ misused' = misused
        /\ at' \in {"filter", "here"}
    BY <1>9 DEF TryApp, Reach, stackVars
  <2>2. CASE ~misused
    <3>1. path' \in Seq(Handlers) /\ visited' \in Seq(Handlers) /\ AskedOK' /\ TurnOK'
      BY <2>1, <2>2, <1>1, WalkBegins
    <3>. QED
      BY <2>1, <3>1 DEF OrderInv
  <2>. QED
    BY <2>1, <2>2 DEF OrderInv
<1>10. CASE NotToApp
  BY <1>1, <1>10, SameTurn DEF NotToApp, Finish, walkVars
<1>11. ASSUME NEW h \in Handlers, HandlerChanges(h) PROVE OrderInv'
  BY <1>1, <1>11, TurnKept
<1>12. ASSUME NEW h \in Handlers, ChangeBetween(h) PROVE OrderInv'
  <2>1. path' = <<>> /\ visited' = <<>> /\ at' = "none"
    BY <1>12 DEF ChangeBetween
  <2>2. path' \in Seq(Handlers) /\ visited' \in Seq(Handlers) /\ AskedOK' /\ AllAsked'
    BY <2>1 DEF AskedOK, AllAsked
  <2>. QED
    BY <2>1, <2>2 DEF OrderInv
<1>13. CASE UNCHANGED vars
  BY <1>13 DEF vars, walkVars, stackVars, OrderInv, AskedOK, AllAsked, TurnOK, TurnAt, FollowedBy
<1>. QED
  BY <1>2, <1>3, <1>4, <1>5, <1>6, <1>7, <1>8, <1>9, <1>10, <1>11, <1>12, <1>13
     DEF Next, DispatchStep

(* Whatever handlers do to the chains, the staying handlers of a chain are    *)
(* asked in its order, none is left out and none asked again, and all of them *)
(* before TryAfter (EvtHandler::TryChain).                                    *)
THEOREM StayingCorrect == Spec => []StayingAskedInOrder
<1>1. Init => WalkOrderInv
  BY WalkInit, OrderInit DEF WalkOrderInv
<1>2. WalkOrderInv /\ [Next]_vars => WalkOrderInv'
  BY WalkNext, OrderNext DEF WalkOrderInv
<1>3. WalkOrderInv => StayingAskedInOrder
  BY DEF WalkOrderInv, OrderInv, AskedOK, AllAsked, StayingAskedInOrder
<1>. QED
  BY <1>1, <1>2, <1>3, PTL DEF Spec
================================================================================
