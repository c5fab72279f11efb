-------------------------- MODULE Application_proofs --------------------------
(***************************************************************************)
(* The variables of Application keep their types, the loop that the        *)
(* application believes to be active is the innermost one that runs, and   *)
(* objects and coroutines have the owner they should: for any number of    *)
(* loops, addresses, nested handlers and calls.                            *)
(***************************************************************************)
EXTENDS Application, SequenceLemmas, TLAPS

(* Below every frame of the stack there is the main loop's, and nothing has  *)
(* happened yet before OnRun.                                              *)
Bottom ==
  /\ stack # <<>> => life = "run" /\ IsLoop(1)
  /\ life = "start" => stack = <<>> /\ active = NoLoop /\ alive = {} /\ inside = {}

LoopInv == ActiveIsInnermost /\ Bottom
Inv == TypeOK /\ LoopInv

--------------------------------------------------------------------------------
(* What the steps do to the stack.                                          *)

(* The first n frames are those of the same loops and the others are no loops. *)
Alike(s, t, n) ==
  /\ n \in 1..Len(s) /\ n <= Len(t)
  /\ \A i \in 1..n : /\ t[i].kind = s[i].kind
                     /\ s[i].kind = "loop" => t[i].of = s[i].of /\ t[i].prev = s[i].prev
  /\ \A i \in (n + 1)..Len(s) : s[i].kind # "loop"
  /\ \A i \in (n + 1)..Len(t) : t[i].kind # "loop"

SameLoops == stack' = stack \/ \E n \in Nat : Alike(stack, stack', n)

LEMMA AppendKeepsLoops ==
  ASSUME NEW s, StackOK(s), s # <<>>, NEW f, FrameOK(f), f.kind # "loop"
  PROVE  StackOK(Append(s, f)) /\ Alike(s, Append(s, f), Len(s))
<1>1. /\ Append(s, f) \in Seq(Frames) /\ Len(Append(s, f)) = Len(s) + 1
      /\ Len(s) \in Nat \ {0}
      /\ \A i \in 1..Len(s) : Append(s, f)[i] = s[i]
      /\ Append(s, f)[Len(s) + 1] = f
  BY DEF StackOK, FrameOK
<1>2. \A i \in 1..(Len(s) + 1) : FrameOK(Append(s, f)[i])
  <2>. TAKE i \in 1..(Len(s) + 1)
  <2>1. CASE i = Len(s) + 1
    BY <2>1, <1>1
  <2>2. CASE i # Len(s) + 1
    <3>1. i \in 1..Len(s)
      BY <2>2, <1>1
    <3>. QED
      BY <3>1, <1>1 DEF StackOK
  <2>. QED
    BY <2>1, <2>2
<1>. QED
  BY <1>1, <1>2 DEF StackOK, Alike

LEMMA GotoKeepsLoops ==
  ASSUME NEW s, StackOK(s), s # <<>>, NEW pc \in PCs
  PROVE  LET t == [s EXCEPT ![Len(s)].pc = pc]
         IN  StackOK(t) /\ t # <<>> /\ Alike(s, t, Len(s)) /\ Len(t) = Len(s)
<1> DEFINE t == [s EXCEPT ![Len(s)].pc = pc]
<1>1. Len(s) \in Nat \ {0} /\ s \in Seq(Frames) /\ \A i \in 1..Len(s) : s[i] \in Frames
  BY DEF StackOK
<1>2. [s[Len(s)] EXCEPT !.pc = pc] \in Frames
  BY <1>1 DEF Frames
<1>3. t \in Seq(Frames) /\ Len(t) = Len(s)
  BY <1>1, <1>2
<1>4. \A i \in 1..Len(s) : t[i] = IF i = Len(s) THEN [s[i] EXCEPT !.pc = pc] ELSE s[i]
  BY <1>1
<1>5. \A i \in 1..Len(s) : /\ t[i].kind = s[i].kind /\ t[i].of = s[i].of
                           /\ t[i].prev = s[i].prev /\ t[i] \in Frames
  BY <1>1, <1>2, <1>4 DEF Frames
<1> HIDE DEF t
<1>6. \A i \in 1..Len(t) : FrameOK(t[i])
  BY <1>3, <1>5 DEF StackOK, FrameOK
<1>7. StackOK(t)
  BY <1>3, <1>6 DEF StackOK
<1>8. Alike(s, t, Len(s))
  BY <1>1, <1>3, <1>5 DEF Alike
<1>. QED
  BY <1>1, <1>3, <1>7, <1>8 DEF t

LEMMA PopKeepsLoops ==
  ASSUME NEW s, StackOK(s), s # <<>>
  PROVE  /\ StackOK(Front(s)) /\ Len(Front(s)) = Len(s) - 1
         /\ \A i \in 1..(Len(s) - 1) : Front(s)[i] = s[i]
         /\ Last(s).kind # "loop" /\ s[1].kind = "loop" => Alike(s, Front(s), Len(s) - 1)
<1>1. s \in Seq(Frames) /\ Len(s) \in Nat \ {0}
  BY DEF StackOK
<1>2. /\ Front(s) \in Seq(Frames) /\ Len(Front(s)) = Len(s) - 1
      /\ \A i \in 1..(Len(s) - 1) : Front(s)[i] = s[i]
  BY <1>1, FrontProperties
<1>3. StackOK(Front(s))
  BY <1>1, <1>2 DEF StackOK
<1>4. ASSUME Last(s).kind # "loop", s[1].kind = "loop"
      PROVE  Alike(s, Front(s), Len(s) - 1)
  <2>1. Len(s) # 1
    BY <1>4 DEF Last
  <2>2. Len(s) - 1 \in 1..Len(s) /\ Len(s) - 1 <= Len(Front(s))
    BY <2>1, <1>1, <1>2
  <2>3. \A i \in (Len(s) - 1 + 1)..Len(s) : s[i].kind # "loop"
    BY <1>1, <1>4 DEF Last
  <2>4. \A i \in (Len(s) - 1 + 1)..Len(Front(s)) : Front(s)[i].kind # "loop"
    BY <1>1, <1>2
  <2>. QED
    BY <1>2, <2>2, <2>3, <2>4 DEF Alike
<1>. QED
  BY <1>2, <1>3, <1>4

LEMMA OrphanKeepsLoops ==
  ASSUME NEW s, StackOK(s), NEW D
  PROVE  /\ StackOK(Orphan(s, D)) /\ Len(Orphan(s, D)) = Len(s)
         /\ s # <<>> => Alike(s, Orphan(s, D), Len(s))
<1> DEFINE t == Orphan(s, D)
<1>1. s \in Seq(Frames) /\ Len(s) \in Nat /\ \A i \in 1..Len(s) : s[i] \in Frames
  BY DEF StackOK
<1>2. \A i \in 1..Len(s) : [s[i] EXCEPT !.of = Gone] \in Frames
  BY <1>1 DEF Frames
<1>3. t \in Seq(Frames) /\ Len(t) = Len(s)
  BY <1>1, <1>2 DEF Orphan
<1>4. ASSUME NEW i \in 1..Len(s)
      PROVE  /\ t[i].kind = s[i].kind /\ t[i].prev = s[i].prev
             /\ s[i].kind # "handler" => t[i].of = s[i].of
             /\ t[i] \in Frames
  <2>1. t[i] = IF s[i].kind = "handler" /\ s[i].of \in D THEN [s[i] EXCEPT !.of = Gone] ELSE s[i]
    BY DEF Orphan
  <2>2. /\ [s[i] EXCEPT !.of = Gone].kind = s[i].kind
        /\ [s[i] EXCEPT !.of = Gone].prev = s[i].prev
    BY <1>1 DEF Frames
  <2>. QED
    BY <1>1, <1>2, <2>1, <2>2
<1> HIDE DEF t
<1>5. \A i \in 1..Len(t) : FrameOK(t[i])
  BY <1>3, <1>4 DEF StackOK, FrameOK
<1>6. StackOK(t)
  BY <1>3, <1>5 DEF StackOK
<1>7. s # <<>> => Alike(s, t, Len(s))
  BY <1>1, <1>3, <1>4 DEF Alike
<1>. QED
  BY <1>3, <1>6, <1>7 DEF t

LEMMA AlikeTransitive ==
  ASSUME NEW r, NEW s, NEW t, NEW n \in Nat, Len(r) \in Nat, Len(t) \in Nat,
         Alike(r, s, n), Alike(s, t, Len(s)), Len(s) \in Nat
  PROVE  Alike(r, t, n)
<1>1. \A i \in 1..n : i \in 1..Len(s)
  BY DEF Alike
<1>2. \A i \in (n + 1)..Len(t) : t[i].kind # "loop"
  <2>. TAKE i \in (n + 1)..Len(t)
  <2>1. CASE i <= Len(s)
    BY <2>1 DEF Alike
  <2>2. CASE ~(i <= Len(s))
    BY <2>2 DEF Alike
  <2>. QED
    BY <2>1, <2>2
<1>3. n \in 1..Len(r) /\ n <= Len(t)
  BY DEF Alike
<1>4. \A i \in 1..n : /\ t[i].kind = r[i].kind
                     /\ r[i].kind = "loop" => t[i].of = r[i].of /\ t[i].prev = r[i].prev
  <2>. TAKE i \in 1..n
  <2>1. /\ s[i].kind = r[i].kind
        /\ r[i].kind = "loop" => s[i].of = r[i].of /\ s[i].prev = r[i].prev
    BY DEF Alike
  <2>2. /\ t[i].kind = s[i].kind
        /\ s[i].kind = "loop" => t[i].of = s[i].of /\ t[i].prev = s[i].prev
    BY <1>1 DEF Alike
  <2>. QED
    BY <2>1, <2>2
<1>5. \A i \in (n + 1)..Len(r) : r[i].kind # "loop"
  BY DEF Alike
<1>. QED
  BY <1>2, <1>3, <1>4, <1>5 DEF Alike

--------------------------------------------------------------------------------
(* The loops that run.                                                      *)

(* A step that starts, ends, creates and destroys no loop.                   *)
LEMMA SameLoopsKeepInv ==
  ASSUME Inv, SameLoops, StackOK(stack'), UNCHANGED <<life, active, alive, inside>>
  PROVE  LoopInv'
<1>1. CASE stack' = stack
  BY <1>1 DEF Inv, LoopInv, ActiveIsInnermost, Bottom, IsLoop, Encloses, NoLoopIn, Innermost
<1>2. CASE \E n \in Nat : Alike(stack, stack', n)
  <2>1. PICK n \in Nat : Alike(stack, stack', n)
    BY <1>2
  <2>2. /\ n \in 1..Len(stack) /\ n \in 1..Len(stack')
        /\ Len(stack) \in Nat /\ Len(stack') \in Nat /\ stack # <<>> /\ stack' # <<>>
    BY <2>1 DEF Alike, StackOK, Inv, TypeOK
  <2>3. \A i \in 1..n : /\ IsLoop(i)' <=> IsLoop(i)
                        /\ IsLoop(i) => stack'[i].of = stack[i].of /\ stack'[i].prev = stack[i].prev
    BY <2>1 DEF Alike, IsLoop
  <2>4. /\ \A i \in 1..Len(stack) : IsLoop(i) => i \in 1..n
        /\ \A i \in 1..Len(stack') : IsLoop(i)' => i \in 1..n
    BY <2>1, <2>2 DEF Alike, IsLoop
  <2>5. /\ inside \subseteq alive /\ stack # <<>>
        /\ \A l \in Loops : l \in inside <=> \E i \in 1..Len(stack) : IsLoop(i) /\ stack[i].of = l
        /\ \A i, j \in 1..Len(stack) : IsLoop(i) /\ IsLoop(j) /\ stack[i].of = stack[j].of => i = j
        /\ \A i \in 1..Len(stack) : IsLoop(i) => Encloses(i - 1, stack[i].prev)
        /\ active # NoLoop /\ Innermost(Len(stack), active)
        /\ life = "run" /\ IsLoop(1)
    BY <2>2 DEF Inv, LoopInv, ActiveIsInnermost, Bottom
  <2>6. \A l \in Loops : l \in inside' <=> \E i \in 1..Len(stack') : IsLoop(i)' /\ stack'[i].of = l
    <3>. TAKE l \in Loops
    <3>1. ASSUME NEW i \in 1..Len(stack), IsLoop(i), stack[i].of = l
          PROVE  \E k \in 1..Len(stack') : IsLoop(k)' /\ stack'[k].of = l
      BY <2>2, <2>3, <2>4, <3>1
    <3>2. ASSUME NEW i \in 1..Len(stack'), IsLoop(i)', stack'[i].of = l
          PROVE  \E k \in 1..Len(stack) : IsLoop(k) /\ stack[k].of = l
      BY <2>2, <2>3, <2>4, <3>2
    <3>. QED
      BY <2>5, <3>1, <3>2
  <2>7. ASSUME NEW i \in 1..Len(stack'), NEW j \in 1..Len(stack'), IsLoop(i)', IsLoop(j)',
               stack'[i].of = stack'[j].of
        PROVE  i = j
    <3>1. i \in 1..n /\ j \in 1..n /\ i \in 1..Len(stack) /\ j \in 1..Len(stack)
      BY <2>2, <2>4, <2>7
    <3>. QED
      BY <2>3, <2>5, <2>7, <3>1
  <2>8. ASSUME NEW i \in 1..Len(stack'), IsLoop(i)'
        PROVE  Encloses(i - 1, stack[i].prev)'
    <3>1. i \in 1..n /\ i \in 1..Len(stack) /\ IsLoop(i) /\ stack'[i].prev = stack[i].prev
      BY <2>2, <2>3, <2>4, <2>8
    <3>2. \A j \in 1..(i - 1) : j \in 1..n
      BY <3>1
    <3>3. Encloses(i - 1, stack[i].prev)
      BY <2>5, <3>1
    <3>4. CASE stack[i].prev = NoLoop
      BY <2>3, <3>1, <3>2, <3>3, <3>4 DEF Encloses, NoLoopIn
    <3>5. CASE stack[i].prev # NoLoop
      <4>1. PICK k \in 1..(i - 1) : /\ IsLoop(k) /\ stack[k].of = stack[i].prev
                                    /\ \A j \in (k + 1)..(i - 1) : ~IsLoop(j)
        BY <3>3, <3>5 DEF Encloses, Innermost
      <4>2. IsLoop(k)' /\ stack'[k].of = stack[i].prev
        BY <2>3, <3>2, <4>1
      <4>3. \A j \in (k + 1)..(i - 1) : ~IsLoop(j)'
        BY <2>3, <3>2, <4>1
      <4>4. Innermost(i - 1, stack[i].prev)'
        BY <3>1, <4>2, <4>3 DEF Innermost
      <4>. QED
        BY <3>1, <3>5, <4>4 DEF Encloses
    <3>. QED
      BY <3>4, <3>5
  <2>9. Innermost(Len(stack), active)'
    <3>1. PICK k \in 1..Len(stack) : /\ IsLoop(k) /\ stack[k].of = active
                                     /\ \A j \in (k + 1)..Len(stack) : ~IsLoop(j)
      BY <2>5 DEF Innermost
    <3>2. k \in 1..n /\ k \in 1..Len(stack') /\ IsLoop(k)' /\ stack'[k].of = active'
      BY <2>2, <2>3, <2>4, <3>1
    <3>3. \A j \in (k + 1)..Len(stack') : ~IsLoop(j)'
      <4>. SUFFICES ASSUME NEW j \in (k + 1)..Len(stack'), IsLoop(j)' PROVE FALSE
        OBVIOUS
      <4>1. j \in 1..n /\ j \in (k + 1)..Len(stack)
        BY <2>2, <2>4, <3>1
      <4>. QED
        BY <2>3, <3>1, <4>1
    <3>. QED
      BY <3>2, <3>3 DEF Innermost
  <2>10. IsLoop(1)'
    BY <2>2, <2>3, <2>5
  <2>11. Bottom'
    BY <2>5, <2>10 DEF Bottom
  <2>12. ActiveIsInnermost'
    BY <2>5, <2>6, <2>7, <2>8, <2>9 DEF ActiveIsInnermost
  <2>. QED
    BY <2>11, <2>12 DEF LoopInv
<1>. QED
  BY <1>1, <1>2 DEF SameLoops

(* Run pushes a loop that did not run before.                                *)
LEMMA EnterKeepsInv ==
  ASSUME Inv, NEW l \in Loops, l \notin inside, EnterLoop(l), l \in alive', alive \subseteq alive',
         life' = "run", life = "run" => stack # <<>>, life # "run" => stack = <<>> /\ active = NoLoop
  PROVE  LoopInv' /\ StackOK(stack')
<1>. USE ApplicationAssumption
<1> DEFINE f == RunFrame(l, active)
<1>0. PICK n \in Nat : n = Len(stack) /\ (n = 0 <=> stack = <<>>)
  BY DEF Inv, TypeOK, StackOK
<1>1. /\ f \in Frames /\ FrameOK(f) /\ f.kind = "loop" /\ f.of = l /\ f.prev = active
      /\ stack \in Seq(Frames) /\ active \in Loops \cup {NoLoop}
  BY DEF Inv, TypeOK, LoopsOK, StackOK, FrameOK, Frames, Kinds, PCs, RunFrame, Frame
<1>2. /\ stack' = Append(stack, f) /\ active' = l /\ inside' = inside \cup {l}
  BY DEF EnterLoop
<1> HIDE DEF f
<1>3. /\ stack' \in Seq(Frames) /\ Len(stack') = n + 1 /\ stack'[n + 1] = f
      /\ \A i \in 1..n : stack'[i] = stack[i]
  BY <1>0, <1>1, <1>2
<1>4. \A i \in 1..(n + 1) : i \in 1..n \/ i = n + 1
  BY <1>1
<1>5. StackOK(stack')
  BY <1>0, <1>1, <1>3, <1>4 DEF Inv, TypeOK, StackOK
<1>6. \A i \in 1..n : (IsLoop(i)' <=> IsLoop(i)) /\ stack'[i] = stack[i]
  BY <1>3 DEF IsLoop
<1>7. IsLoop(n + 1)' /\ stack'[n + 1].of = l /\ stack'[n + 1].prev = active
  BY <1>1, <1>3 DEF IsLoop
<1>8. /\ inside \subseteq alive
      /\ \A k \in Loops : k \in inside <=> \E i \in 1..n : IsLoop(i) /\ stack[i].of = k
      /\ \A i, j \in 1..n : IsLoop(i) /\ IsLoop(j) /\ stack[i].of = stack[j].of => i = j
      /\ \A i \in 1..n : IsLoop(i) => Encloses(i - 1, stack[i].prev)
      /\ stack # <<>> => active # NoLoop /\ Innermost(n, active) /\ IsLoop(1)
  BY <1>0 DEF Inv, LoopInv, ActiveIsInnermost, Bottom
<1>9. \A k \in Loops : k \in inside' <=> \E i \in 1..(n + 1) : IsLoop(i)' /\ stack'[i].of = k
  <2>. TAKE k \in Loops
  <2>1. CASE k = l
    <3>1. k \in inside' /\ n + 1 \in 1..(n + 1)
      BY <2>1, <1>2
    <3>2. \E i \in 1..(n + 1) : IsLoop(i)' /\ stack'[i].of = k
      BY <3>1, <2>1, <1>7, Zenon
    <3>. QED
      BY <3>1, <3>2
  <2>2. CASE k # l
    <3>1. k \in inside' <=> k \in inside
      BY <2>2, <1>2
    <3>2. (\E i \in 1..(n + 1) : IsLoop(i)' /\ stack'[i].of = k)
            <=> \E i \in 1..n : IsLoop(i) /\ stack[i].of = k
      BY <2>2, <1>1, <1>4, <1>6, <1>7
    <3>. QED
      BY <3>1, <3>2, <1>8
  <2>. QED
    BY <2>1, <2>2
<1>10. ASSUME NEW i \in 1..(n + 1), NEW j \in 1..(n + 1), IsLoop(i)', IsLoop(j)',
              stack'[i].of = stack'[j].of
       PROVE  i = j
  <2>1. \A k \in 1..n : IsLoop(k) => stack[k].of # l
    BY <1>8
  <2>. QED
    BY <2>1, <1>4, <1>6, <1>7, <1>8, <1>10
<1>11. ASSUME NEW m \in 0..n, NEW k, Encloses(m, k)
       PROVE  Encloses(m, k)'
  <2>1. \A i \in 1..m : i \in 1..n
    BY <1>1
  <2>2. CASE k = NoLoop
    BY <2>1, <2>2, <1>6, <1>11 DEF Encloses, NoLoopIn
  <2>3. CASE k # NoLoop
    <3>1. PICK i \in 1..m : IsLoop(i) /\ stack[i].of = k /\ \A j \in (i + 1)..m : ~IsLoop(j)
      BY <2>3, <1>11 DEF Encloses, Innermost
    <3>2. \A j \in (i + 1)..m : j \in 1..n
      BY <1>1
    <3>3. IsLoop(i)' /\ stack'[i].of = k /\ \A j \in (i + 1)..m : ~IsLoop(j)'
      BY <2>1, <3>1, <3>2, <1>6
    <3>. QED
      BY <2>3, <3>3 DEF Encloses, Innermost
  <2>. QED
    BY <2>2, <2>3
<1>12. ASSUME NEW i \in 1..(n + 1), IsLoop(i)'
       PROVE  Encloses(i - 1, stack[i].prev)'
  <2>1. CASE i \in 1..n
    BY <2>1, <1>1, <1>6, <1>8, <1>11, <1>12
  <2>2. CASE i = n + 1
    <3>1. Encloses(n, active)
      <4>1. CASE stack = <<>>
        BY <4>1, <1>0 DEF Encloses, NoLoopIn
      <4>2. CASE stack # <<>>
        BY <4>2, <1>8 DEF Encloses
      <4>. QED
        BY <4>1, <4>2
    <3>2. PICK k : k = active
      OBVIOUS
    <3>3. n \in 0..n /\ i - 1 = n
      BY <2>2, <1>1
    <3>4. Encloses(n, k)
      BY <3>1, <3>2
    <3>5. Encloses(n, k)'
      BY <3>3, <3>4, <1>11
    <3>6. stack'[i].prev = k
      BY <2>2, <3>2, <1>7
    <3>. QED
      BY <3>3, <3>5, <3>6
  <2>. QED
    BY <2>1, <2>2, <1>4
<1>13. Innermost(n + 1, l)'
  <2>1. \A j \in (n + 1 + 1)..(n + 1) : FALSE
    BY <1>1
  <2>. QED
    BY <2>1, <1>1, <1>7 DEF Innermost
<1>14. Len(stack') = n + 1 /\ active' = l /\ l # NoLoop /\ stack' # <<>>
  BY <1>0, <1>1, <1>2, <1>3
<1>15. inside' \subseteq alive'
  BY <1>2, <1>8
<1>16. ActiveIsInnermost'
  <2>1. Innermost(Len(stack), active)'
    BY <1>13, <1>14
  <2>. QED
    BY <2>1, <1>9, <1>10, <1>12, <1>14, <1>15 DEF ActiveIsInnermost
<1>17. IsLoop(1)'
  <2>1. CASE stack = <<>>
    BY <2>1, <1>0, <1>7
  <2>2. CASE stack # <<>>
    BY <2>2, <1>0, <1>1, <1>6, <1>8
  <2>. QED
    BY <2>1, <2>2
<1>18. Bottom'
  BY <1>17 DEF Bottom
<1>. QED
  BY <1>5, <1>16, <1>18 DEF LoopInv

(* The activator restores the loop around the one that is left; the main       *)
(* loop's leaves an empty stack.                                            *)
LEMMA LeaveKeepsInv ==
  ASSUME Inv, stack # <<>>, Top.kind = "loop", LeaveLoop, life' = life
  PROVE  LoopInv' /\ StackOK(stack') /\ LoopsOK'
<1>. USE ApplicationAssumption
<1>0. PICK n \in Nat : n = Len(stack) - 1
  BY DEF Inv, TypeOK, StackOK
<1>1. /\ Len(stack) = n + 1 /\ Top = stack[n + 1] /\ IsLoop(n + 1)
      /\ \A i \in 1..(n + 1) : FrameOK(stack[i])
  BY <1>0 DEF Inv, TypeOK, StackOK, Top, Last, IsLoop
<1>2. /\ StackOK(stack') /\ Len(stack') = n
      /\ \A i \in 1..n : stack'[i] = stack[i]
  BY <1>0, PopKeepsLoops DEF LeaveLoop, Pop, Inv, TypeOK
<1>3. PICK l \in Loops, k \in Loops \cup {NoLoop} : l = stack[n + 1].of /\ k = stack[n + 1].prev
  <2>1. FrameOK(stack[n + 1]) /\ stack[n + 1].kind = "loop"
    BY <1>1 DEF IsLoop
  <2>. QED
    BY <2>1 DEF FrameOK, Frames
<1>4. /\ inside' = inside \ {l} /\ alive' = alive
      /\ active' = IF k # NoLoop THEN k ELSE active
  BY <1>1, <1>3 DEF LeaveLoop
<1>5. \A i \in 1..(n + 1) : i \in 1..n \/ i = n + 1
  OBVIOUS
<1>6. \A i \in 1..n : (IsLoop(i)' <=> IsLoop(i)) /\ stack'[i] = stack[i] /\ i \in 1..(n + 1)
  BY <1>2 DEF IsLoop
<1>7. /\ inside \subseteq alive
      /\ \A c \in Loops : c \in inside <=> \E i \in 1..(n + 1) : IsLoop(i) /\ stack[i].of = c
      /\ \A i, j \in 1..(n + 1) : IsLoop(i) /\ IsLoop(j) /\ stack[i].of = stack[j].of => i = j
      /\ \A i \in 1..(n + 1) : IsLoop(i) => Encloses(i - 1, stack[i].prev)
      /\ life = "run" /\ IsLoop(1)
  BY <1>1 DEF Inv, LoopInv, ActiveIsInnermost, Bottom
<1>8. \A c \in Loops : c \in inside' <=> \E i \in 1..n : IsLoop(i)' /\ stack'[i].of = c
  <2>. TAKE c \in Loops
  <2>1. CASE c = l
    <3>1. \A i \in 1..n : IsLoop(i) => stack[i].of # l
      BY <1>1, <1>3, <1>6, <1>7
    <3>. QED
      BY <2>1, <3>1, <1>4, <1>6
  <2>2. CASE c # l
    <3>1. (\E i \in 1..n : IsLoop(i)' /\ stack'[i].of = c)
            <=> \E i \in 1..(n + 1) : IsLoop(i) /\ stack[i].of = c
      BY <2>2, <1>3, <1>5, <1>6
    <3>. QED
      BY <2>2, <3>1, <1>4, <1>7
  <2>. QED
    BY <2>1, <2>2
<1>9. ASSUME NEW i \in 1..n, NEW j \in 1..n, IsLoop(i)', IsLoop(j)', stack'[i].of = stack'[j].of
      PROVE  i = j
  BY <1>6, <1>7, <1>9
<1>10. ASSUME NEW m \in 0..n, NEW c, Encloses(m, c)
       PROVE  Encloses(m, c)'
  <2>1. \A i \in 1..m : i \in 1..n
    OBVIOUS
  <2>2. CASE c = NoLoop
    BY <2>1, <2>2, <1>6, <1>10 DEF Encloses, NoLoopIn
  <2>3. CASE c # NoLoop
    <3>1. PICK i \in 1..m : IsLoop(i) /\ stack[i].of = c /\ \A j \in (i + 1)..m : ~IsLoop(j)
      BY <2>3, <1>10 DEF Encloses, Innermost
    <3>2. \A j \in (i + 1)..m : j \in 1..n
      OBVIOUS
    <3>3. IsLoop(i)' /\ stack'[i].of = c /\ \A j \in (i + 1)..m : ~IsLoop(j)'
      BY <2>1, <3>1, <3>2, <1>6
    <3>. QED
      BY <2>3, <3>3 DEF Encloses, Innermost
  <2>. QED
    BY <2>2, <2>3
<1>11. ASSUME NEW i \in 1..n, IsLoop(i)'
       PROVE  Encloses(i - 1, stack[i].prev)'
  <2>1. PICK c : c = stack[i].prev
    OBVIOUS
  <2>2. i - 1 \in 0..n /\ Encloses(i - 1, c) /\ stack'[i].prev = c
    BY <2>1, <1>6, <1>7, <1>11
  <2>. QED
    BY <2>2, <1>10
<1>12. Encloses(n, k)
  <2>1. n + 1 \in 1..(n + 1) /\ n + 1 - 1 = n
    OBVIOUS
  <2>. QED
    BY <2>1, <1>1, <1>3, <1>7
<1>13. Encloses(n, k)'
  BY <1>10, <1>12
<1>14. stack' # <<>> => k # NoLoop /\ active' = k /\ Innermost(n, k)'
  <2>. SUFFICES ASSUME stack' # <<>> PROVE k # NoLoop /\ active' = k /\ Innermost(n, k)'
    OBVIOUS
  <2>1. 1 \in 1..n
    BY <1>2 DEF StackOK
  <2>2. k # NoLoop
    BY <2>1, <1>7, <1>12 DEF Encloses, NoLoopIn
  <2>. QED
    BY <2>2, <1>4, <1>13 DEF Encloses
<1>15. ActiveIsInnermost'
  <2>1. \A c \in Loops : c \in inside' <=> \E i \in 1..Len(stack') : IsLoop(i)' /\ stack'[i].of = c
    BY <1>2, <1>8
  <2>2. stack' # <<>> => active' # NoLoop /\ Innermost(Len(stack), active)'
    BY <1>2, <1>14
  <2>3. inside' \subseteq alive' /\ life' = "run"
    BY <1>4, <1>7
  <2>4. /\ \A i, j \in 1..Len(stack') : IsLoop(i)' /\ IsLoop(j)' /\ stack'[i].of = stack'[j].of => i = j
        /\ \A i \in 1..Len(stack') : IsLoop(i)' => Encloses(i - 1, stack[i].prev)'
    BY <1>2, <1>9, <1>11
  <2>. QED
    BY <2>1, <2>2, <2>3, <2>4 DEF ActiveIsInnermost
<1>16. Bottom'
  <2>1. stack' # <<>> => IsLoop(1)'
    <3>. SUFFICES ASSUME stack' # <<>> PROVE IsLoop(1)'
      OBVIOUS
    <3>1. 1 \in 1..n
      BY <1>2 DEF StackOK
    <3>. QED
      BY <3>1, <1>6, <1>7
  <2>. QED
    BY <2>1, <1>7 DEF Bottom
<1>17. LoopsOK'
  BY <1>3, <1>4 DEF Inv, TypeOK, LoopsOK, LeaveLoop
<1>. QED
  BY <1>2, <1>15, <1>16, <1>17 DEF LoopInv

--------------------------------------------------------------------------------
(* The parts of a step.                                                     *)

LEMMA Frameworks ==
  /\ \A o \in Slots \cup {Window} : \A g \in BOOLEAN :
       FrameOK(HandlerFrame(o, g)) /\ HandlerFrame(o, g).kind # "loop"
  /\ \A c \in Slots : FrameOK(ExecuteFrame(c)) /\ ExecuteFrame(c).kind # "loop"
  /\ \A l \in Loops : FrameOK(YieldFrame(l)) /\ YieldFrame(l).kind # "loop"
  /\ FrameOK(IdleFrame) /\ IdleFrame.kind # "loop"
BY DEF FrameOK, Frames, Kinds, PCs, Frame, HandlerFrame, ExecuteFrame, YieldFrame, IdleFrame

LEMMA GotoStep ==
  ASSUME Inv, stack # <<>>, NEW pc \in PCs, Goto(pc)
  PROVE  StackOK(stack') /\ SameLoops
<1>1. StackOK(stack) /\ Len(stack) \in Nat
  BY DEF Inv, TypeOK, StackOK
<1>. QED
  BY <1>1, GotoKeepsLoops DEF Goto, SameLoops

LEMMA PushStep ==
  ASSUME Inv, stack # <<>>, NEW f, FrameOK(f), f.kind # "loop", stack' = Append(stack, f)
  PROVE  StackOK(stack') /\ SameLoops
<1>1. StackOK(stack) /\ Len(stack) \in Nat
  BY DEF Inv, TypeOK, StackOK
<1>. QED
  BY <1>1, AppendKeepsLoops DEF SameLoops

LEMMA CallStep ==
  ASSUME Inv, stack # <<>>, NEW pc \in PCs, NEW f, FrameOK(f), f.kind # "loop", Call(pc, f)
  PROVE  StackOK(stack') /\ SameLoops
<1>1. StackOK(stack) /\ Len(stack) \in Nat
  BY DEF Inv, TypeOK, StackOK
<1>2. PICK t : t = [stack EXCEPT ![Len(stack)].pc = pc]
  OBVIOUS
<1>3. StackOK(t) /\ t # <<>> /\ Alike(stack, t, Len(stack)) /\ Len(t) = Len(stack)
  BY <1>1, <1>2, GotoKeepsLoops
<1>4. stack' = Append(t, f)
  BY <1>2 DEF Call
<1>5. StackOK(stack') /\ Alike(t, stack', Len(t))
  BY <1>3, <1>4, AppendKeepsLoops
<1>6. Len(stack') \in Nat
  BY <1>5 DEF StackOK
<1>7. Alike(stack, stack', Len(stack))
  BY <1>1, <1>3, <1>5, <1>6, AlikeTransitive
<1>. QED
  BY <1>1, <1>5, <1>7 DEF SameLoops

LEMMA PopStep ==
  ASSUME Inv, stack # <<>>, Top.kind # "loop", Pop
  PROVE  StackOK(stack') /\ SameLoops
<1>1. StackOK(stack) /\ Len(stack) \in Nat \ {0} /\ stack[1].kind = "loop"
  BY DEF Inv, TypeOK, StackOK, LoopInv, Bottom, IsLoop
<1>2. Len(stack) - 1 \in Nat
  BY <1>1
<1>. QED
  BY <1>1, <1>2, PopKeepsLoops DEF SameLoops, Pop, Top

LEMMA OrphanStep ==
  ASSUME Inv, NEW D, stack' = Orphan(stack, D)
  PROVE  StackOK(stack') /\ SameLoops
<1>1. StackOK(stack) /\ Len(stack) \in Nat
  BY DEF Inv, TypeOK, StackOK
<1>2. StackOK(stack') /\ Len(stack') = Len(stack)
  BY <1>1, OrphanKeepsLoops
<1>3. CASE stack = <<>>
  <2>1. stack' = <<>>
    BY <1>2, <1>3 DEF StackOK
  <2>. QED
    BY <1>2, <1>3, <2>1 DEF SameLoops
<1>4. CASE stack # <<>>
  BY <1>1, <1>2, <1>4, OrphanKeepsLoops DEF SameLoops
<1>. QED
  BY <1>3, <1>4

LEMMA NoStep ==
  ASSUME Inv, UNCHANGED stack
  PROVE  StackOK(stack') /\ SameLoops
BY DEF Inv, TypeOK, SameLoops, StackOK

LEMMA Same ==
  ASSUME Inv
  PROVE  /\ UNCHANGED loopVars => LoopsOK'
         /\ UNCHANGED errorVars => ErrorsOK'
         /\ UNCHANGED queueVars => QueuesOK'
         /\ UNCHANGED objectVars => ObjectsOK'
<1>. USE DEF Inv, TypeOK
<1>1. UNCHANGED loopVars => LoopsOK'
  BY DEF LoopsOK, loopVars
<1>2. UNCHANGED errorVars => ErrorsOK'
  BY DEF ErrorsOK, errorVars
<1>3. UNCHANGED queueVars => QueuesOK'
  BY DEF QueuesOK, queueVars
<1>4. UNCHANGED objectVars => ObjectsOK'
  BY DEF ObjectsOK, objectVars
<1>. QED
  BY <1>1, <1>2, <1>3, <1>4

LEMMA CountedStep ==
  ASSUME Inv, Counted \/ UNCHANGED calls
  PROVE  calls' \in 0..MaxCalls
BY ApplicationAssumption DEF Inv, TypeOK, Counted

LEMMA PostStep ==
  ASSUME Inv, NEW e \in Slots, Post(e),
         UNCHANGED <<active, alive, inside, exiting, throwing, stored, messages>>
  PROVE  LoopsOK' /\ ErrorsOK' /\ QueuesOK'
<1>. USE DEF Inv, TypeOK
<1>1. LoopsOK'
  BY DEF LoopsOK, Post
<1>2. ErrorsOK'
  BY DEF ErrorsOK, Post
<1>3. QueuesOK'
  BY DEF QueuesOK, Post
<1>. QED
  BY <1>1, <1>2, <1>3

LEMMA BuryStep ==
  ASSUME Inv, NEW D, Bury(D), UNCHANGED messages
  PROVE  QueuesOK' /\ where' \in [Slots -> Owners]
<1>1. pending \in Seq(Slots \cup {Gone}) /\ messages \in Nat /\ where \in [Slots -> Owners]
  BY DEF Inv, TypeOK, QueuesOK, ObjectsOK
<1>2. pending' \in Seq(Slots \cup {Gone})
  BY <1>1 DEF Bury
<1>3. where' \in [Slots -> Owners]
  BY <1>1 DEF Bury, Owners
<1>. QED
  BY <1>1, <1>2, <1>3 DEF QueuesOK

LEMMA Recorded ==
  ASSUME NEW s \in Seq([at : Slots, owns : BOOLEAN]), NEW r \in [at : Slots, owns : BOOLEAN]
  PROVE  Append(s, r) \in Seq([at : Slots, owns : BOOLEAN])
<1>1. PICK E : E = [at : Slots, owns : BOOLEAN]
  OBVIOUS
<1>2. s \in Seq(E) /\ r \in E
  BY <1>1
<1>3. Append(s, r) \in Seq(E)
  BY <1>2
<1>. QED
  BY <1>1, <1>3

LEMMA AbortStep ==
  ASSUME Inv, NEW c \in Slots, Abort(c)
  PROVE  ObjectsOK'
<1>1. ObjectsOK
  BY DEF Inv, TypeOK
<1>2. PICK r \in [at : Slots, owns : BOOLEAN] : r = [at |-> c, owns |-> FALSE]
  OBVIOUS
<1>3. scheduled' \in Seq([at : Slots, owns : BOOLEAN])
  <2>1. scheduled \in Seq([at : Slots, owns : BOOLEAN])
    BY <1>1 DEF ObjectsOK
  <2>2. scheduled' = scheduled \/ scheduled' = Append(scheduled, r)
    BY <1>2 DEF Abort
  <2>. QED
    BY <2>1, <2>2, Recorded
<1>4. where' \in [Slots -> Owners]
  BY <1>1 DEF ObjectsOK, Abort, Owners
<1>. QED
  BY <1>1, <1>3, <1>4 DEF ObjectsOK, Abort

LEMMA ExitStep ==
  ASSUME Inv, NEW L, Exit(L), UNCHANGED <<active, alive, inside>>
  PROVE  LoopsOK'
BY DEF Inv, TypeOK, LoopInv, ActiveIsInnermost, LoopsOK, Exit

--------------------------------------------------------------------------------
(* The steps that start, end, create and destroy no loop.                    *)

Quiet == TypeOK' /\ SameLoops /\ UNCHANGED <<life, active, alive, inside>>

LEMMA QuietParts ==
  ASSUME Inv, StackOK(stack'), SameLoops, LoopsOK', ErrorsOK', QueuesOK', ObjectsOK',
         Counted \/ UNCHANGED calls, UNCHANGED <<life, active, alive, inside>>
  PROVE  Quiet
BY CountedStep DEF Inv, TypeOK, Quiet

LEMMA QuietCalls ==
  ASSUME Inv, NEW o \in Slots,
         \/ New(o) \/ PostEvent(o) \/ ScheduleForDestruction(o) \/ RunCoroutine(o) \/ Terminate(o)
         \/ ThreadPosts(o) \/ DelayIsOver(o)
  PROVE  Quiet
<1>. USE DEF loopVars, errorVars, queueVars, objectVars
<1>a. ObjectsOK
  BY DEF Inv, TypeOK
<1>1. CASE New(o)
  <2>1. ObjectsOK'
    BY <1>a, <1>1 DEF New, ObjectsOK, Owners
  <2>. QED
    BY <1>1, <2>1, NoStep, Same, QuietParts DEF New
<1>2. CASE PostEvent(o)
  BY <1>2, NoStep, Same, PostStep, QuietParts DEF PostEvent
<1>3. CASE ScheduleForDestruction(o)
  <2>1. CASE UNCHANGED <<stack, pending>>
    <3>1. PICK r \in [at : Slots, owns : BOOLEAN] : r = [at |-> o, owns |-> TRUE]
      OBVIOUS
    <3>2. scheduled \in Seq([at : Slots, owns : BOOLEAN])
      BY <1>a DEF ObjectsOK
    <3>3. \/ scheduled' = Append(scheduled, r) /\ where' = [where EXCEPT ![o] = "list"]
          \/ UNCHANGED scheduled /\ Bury({o})
      BY <1>3, <3>1 DEF ScheduleForDestruction
    <3>4. scheduled' \in Seq([at : Slots, owns : BOOLEAN])
      BY <3>2, <3>3, Recorded
    <3>5. where' \in [Slots -> Owners]
      BY <1>3, <1>a, <3>3, BuryStep DEF ObjectsOK, Owners, ScheduleForDestruction
    <3>6. ObjectsOK'
      BY <1>3, <1>a, <3>4, <3>5 DEF ObjectsOK, ScheduleForDestruction
    <3>. QED
      BY <1>3, <2>1, <3>6, NoStep, Same, QuietParts DEF ScheduleForDestruction
  <2>2. CASE Bury({o}) /\ stack' = Orphan(stack, {o}) /\ UNCHANGED scheduled
    <3>1. QueuesOK' /\ where' \in [Slots -> Owners]
      BY <1>3, <2>2, BuryStep DEF ScheduleForDestruction
    <3>2. ObjectsOK'
      BY <1>3, <1>a, <2>2, <3>1 DEF ObjectsOK, ScheduleForDestruction
    <3>. QED
      BY <1>3, <2>2, <3>1, <3>2, OrphanStep, Same, QuietParts DEF ScheduleForDestruction
  <2>. QED
    BY <1>3, <2>1, <2>2 DEF ScheduleForDestruction
<1>4. CASE RunCoroutine(o)
  <2>1. ObjectsOK'
    BY <1>a, <1>4 DEF RunCoroutine, ObjectsOK, Owners
  <2>. QED
    BY <1>4, <2>1, NoStep, PostStep, QuietParts DEF RunCoroutine
<1>5. CASE Terminate(o)
  <2>1. CASE Abort(o)
    BY <1>5, <2>1, AbortStep, NoStep, Same, QuietParts DEF Terminate
  <2>2. CASE ~Delayed(o) /\ UNCHANGED <<where, coroutines, scheduled>>
    <3>1. ObjectsOK'
      BY <1>a, <1>5, <2>2 DEF Terminate, ObjectsOK
    <3>. QED
      BY <1>5, <3>1, NoStep, Same, QuietParts DEF Terminate
  <2>. QED
    BY <1>5, <2>1, <2>2 DEF Terminate
<1>6. CASE ThreadPosts(o)
  BY <1>6, NoStep, Same, PostStep, QuietParts DEF ThreadPosts
<1>7. CASE DelayIsOver(o)
  <2>1. ObjectsOK'
    BY <1>a, <1>7 DEF DelayIsOver, ObjectsOK, Owners
  <2>. QED
    BY <1>7, <2>1, NoStep, Same, QuietParts DEF DelayIsOver
<1>. QED
  BY <1>1, <1>2, <1>3, <1>4, <1>5, <1>6, <1>7

LEMMA QuietLoopCalls ==
  ASSUME Inv,
         \/ ExitMainLoop \/ Yield \/ Throw \/ MessageArrives
         \/ \E l \in Loops : ExitLoop(l) \/ RunRefused(l)
  PROVE  Quiet
<1>. USE DEF loopVars, errorVars, queueVars, objectVars
<1>1. CASE ExitMainLoop
  BY <1>1, ExitStep, NoStep, Same, QuietParts DEF ExitMainLoop
<1>2. CASE Yield
  <2>1. stack # <<>> /\ active \in Loops
    BY <1>2 DEF Yield, InHandler, Inv, TypeOK, LoopsOK, LoopInv, ActiveIsInnermost
  <2>. QED
    BY <1>2, <2>1, Frameworks, PushStep, Same, QuietParts DEF Yield
<1>3. CASE Throw
  <2>1. ErrorsOK'
    BY <1>3 DEF Inv, TypeOK, ErrorsOK, Throw
  <2>. QED
    BY <1>3, <2>1, NoStep, Same, QuietParts DEF Throw
<1>4. CASE MessageArrives
  <2>1. QueuesOK'
    BY <1>4 DEF Inv, TypeOK, QueuesOK, MessageArrives
  <2>. QED
    BY <1>4, <2>1, NoStep, Same, QuietParts DEF MessageArrives
<1>5. ASSUME NEW l \in Loops, ExitLoop(l) PROVE Quiet
  BY <1>5, ExitStep, NoStep, Same, QuietParts DEF ExitLoop
<1>6. ASSUME NEW l \in Loops, RunRefused(l) PROVE Quiet
  BY <1>6, NoStep, Same, QuietParts DEF RunRefused
<1>. QED
  BY <1>1, <1>2, <1>3, <1>4, <1>5, <1>6

LEMMA TopOK ==
  ASSUME Inv, stack # <<>>
  PROVE  FrameOK(Top)
BY DEF Inv, TypeOK, StackOK, Top, Last

(* Handlers and coroutines end, posted events are handled.                   *)
LEMMA QuietHandlers ==
  ASSUME Inv,
         HandlerReturns \/ ContinueCoroutine \/ DelayCoroutine \/ StopCoroutine \/ HandleEvent \/ RunExecute
  PROVE  Quiet
<1>. USE DEF loopVars, errorVars, queueVars, objectVars
<1>a. ObjectsOK /\ QueuesOK /\ ErrorsOK
  BY DEF Inv, TypeOK
<1>1. CASE HandlerReturns
  <2>1. stack # <<>> /\ Top.kind # "loop"
    BY <1>1 DEF HandlerReturns, InHandler
  <2>2. ErrorsOK'
    BY <1>a, <1>1 DEF ErrorsOK, HandlerReturns
  <2>. QED
    BY <1>1, <2>1, <2>2, NoStep, PopStep, Same, QuietParts DEF HandlerReturns
<1>2. ASSUME ContinueCoroutine \/ DelayCoroutine
      PROVE  Quiet
  <2>1. stack # <<>> /\ Top.kind # "loop" /\ Top.of \in Slots
    BY <1>2, TopOK DEF ContinueCoroutine, DelayCoroutine, InHandler, FrameOK
  <2>2. ObjectsOK'
    BY <1>a, <1>2, <2>1 DEF ObjectsOK, Owners, ContinueCoroutine, DelayCoroutine
  <2>3. CASE ContinueCoroutine
    BY <2>1, <2>2, <2>3, PopStep, PostStep, QuietParts DEF ContinueCoroutine
  <2>4. CASE DelayCoroutine
    BY <2>1, <2>2, <2>4, PopStep, Same, QuietParts DEF DelayCoroutine
  <2>. QED
    BY <1>2, <2>3, <2>4
<1>3. CASE StopCoroutine
  <2>1. stack # <<>> /\ Top.kind # "loop" /\ Top.of \in Slots
    BY <1>3, TopOK DEF StopCoroutine, InHandler, FrameOK
  <2>. QED
    BY <1>3, <2>1, PopStep, AbortStep, Same, QuietParts DEF StopCoroutine
<1>4. ASSUME HandleEvent \/ RunExecute
      PROVE  Quiet
  <2>1. stack # <<>> /\ pending \in Seq(Slots \cup {Gone}) /\ pending # <<>>
    BY <1>4, <1>a DEF HandleEvent, RunExecute, InPending, At, QueuesOK
  <2>2. Head(pending) \in Slots \cup {Gone} /\ Tail(pending) \in Seq(Slots \cup {Gone})
    BY <2>1
  <2>3. QueuesOK'
    BY <1>4, <1>a, <2>2 DEF HandleEvent, RunExecute, QueuesOK
  <2>4. CASE HandleEvent
    <3>1. \/ UNCHANGED stack
          \/ /\ Head(pending) \in Slots
             /\ \E g \in BOOLEAN : stack' = Append(stack, HandlerFrame(Head(pending), g))
      BY <2>2, <2>4 DEF HandleEvent
    <3>2. StackOK(stack') /\ SameLoops
      BY <2>1, <3>1, NoStep, PushStep, Frameworks
    <3>. QED
      BY <2>3, <2>4, <3>2, Same, QuietParts DEF HandleEvent
  <2>5. CASE RunExecute
    <3>1. PICK c \in Slots : c = Head(pending) /\ c \in coroutines
      BY <1>a, <2>5 DEF RunExecute, ObjectsOK
    <3>2. CASE Abort(c) /\ UNCHANGED stack
      BY <2>3, <2>5, <3>2, AbortStep, NoStep, Same, QuietParts DEF RunExecute
    <3>3. CASE /\ stack' = Append(stack, ExecuteFrame(c)) /\ where' = [where EXCEPT ![c] = "execute"]
               /\ UNCHANGED <<coroutines, stop, terminated, scheduled>>
      <4>1. ObjectsOK'
        BY <1>a, <3>3 DEF ObjectsOK, Owners
      <4>. QED
        BY <2>1, <2>3, <2>5, <3>3, <4>1, PushStep, Frameworks, Same, QuietParts DEF RunExecute
    <3>. QED
      BY <2>5, <3>1, <3>2, <3>3 DEF RunExecute
  <2>. QED
    BY <1>4, <2>4, <2>5
<1>. QED
  BY <1>1, <1>2, <1>3, <1>4

(* The steps of OnRun, YieldFor and DispatchIdle.                            *)
LEMMA QuietLoopSteps ==
  ASSUME Inv,
         \/ TestLoop \/ AfterIdle \/ AfterPending \/ DispatchMessage \/ WokenUp \/ AfterWait
         \/ \E c \in Slots : TimerFires(c)
  PROVE  Quiet
<1>. USE DEF loopVars, errorVars, queueVars, objectVars
<1>a. ObjectsOK /\ QueuesOK /\ ErrorsOK /\ LoopsOK
  BY DEF Inv, TypeOK
<1>b. {"test", "idled", "pending", "wait", "rethrow", "drain"} \subseteq PCs
  BY DEF PCs
<1>1. CASE TestLoop
  <2>1. stack # <<>>
    BY <1>1 DEF TestLoop, At
  <2>2. Goto("drain") \/ Goto("pending") \/ Call("idled", IdleFrame)
    BY <1>1 DEF TestLoop
  <2>3. StackOK(stack') /\ SameLoops
    BY <1>b, <2>1, <2>2, GotoStep, CallStep, Frameworks
  <2>. QED
    BY <1>1, <2>3, Same, QuietParts DEF TestLoop
<1>2. CASE AfterIdle
  <2>1. stack # <<>> /\ (Goto("test") \/ Goto("drain") \/ Goto("pending"))
    BY <1>2 DEF AfterIdle, At
  <2>2. StackOK(stack') /\ SameLoops
    BY <1>b, <2>1, GotoStep
  <2>. QED
    BY <1>2, <2>2, Same, QuietParts DEF AfterIdle
<1>3. CASE AfterPending
  <2>1. stack # <<>> /\ (Goto("drain") \/ Goto("wait"))
    BY <1>3 DEF AfterPending, At
  <2>2. StackOK(stack') /\ SameLoops
    BY <1>b, <2>1, GotoStep
  <2>. QED
    BY <1>3, <2>2, Same, QuietParts DEF AfterPending
<1>c. AfterDispatch \in PCs
  BY <1>b DEF AfterDispatch
<1>d. Dispatches => stack # <<>>
  BY DEF Dispatches, At
<1>4. CASE DispatchMessage
  <2>1. PICK o \in Slots \cup {Window} : Call(AfterDispatch, HandlerFrame(o, TRUE))
    BY <1>4 DEF DispatchMessage, Objects
  <2>2. StackOK(stack') /\ SameLoops
    BY <1>4, <1>c, <1>d, <2>1, CallStep, Frameworks DEF DispatchMessage
  <2>3. QueuesOK'
    BY <1>4, <1>a DEF DispatchMessage, QueuesOK
  <2>. QED
    BY <1>4, <2>2, <2>3, Same, QuietParts DEF DispatchMessage
<1>5. ASSUME NEW c \in Slots, TimerFires(c)
      PROVE  Quiet
  <2>1. StackOK(stack') /\ SameLoops
    BY <1>5, <1>c, <1>d, GotoStep DEF TimerFires
  <2>2. ObjectsOK'
    BY <1>5, <1>a DEF TimerFires, ObjectsOK, Owners
  <2>. QED
    BY <1>5, <2>1, <2>2, PostStep, QuietParts DEF TimerFires
<1>6. CASE WokenUp
  <2>1. StackOK(stack') /\ SameLoops
    BY <1>6, <1>b, GotoStep DEF WokenUp, At
  <2>2. LoopsOK'
    BY <1>6, <1>a DEF WokenUp, LoopsOK
  <2>. QED
    BY <1>6, <2>1, <2>2, Same, QuietParts DEF WokenUp
<1>7. CASE AfterWait
  <2>1. stack # <<>> /\ (UNCHANGED stack \/ Goto("drain") \/ Goto("test"))
    BY <1>7 DEF AfterWait, At
  <2>2. StackOK(stack') /\ SameLoops
    BY <1>b, <2>1, NoStep, GotoStep
  <2>3. ErrorsOK'
    BY <1>7, <1>a DEF AfterWait, ErrorsOK
  <2>. QED
    BY <1>7, <2>2, <2>3, Same, QuietParts DEF AfterWait
<1>. QED
  BY <1>1, <1>2, <1>3, <1>4, <1>5, <1>6, <1>7

LEMMA FinalizeStep ==
  ASSUME Inv, Finalize, UNCHANGED <<throwing, stored, messages>>
  PROVE  ErrorsOK' /\ QueuesOK' /\ ObjectsOK' /\ (Counted \/ UNCHANGED calls)
<1>1. QueuesOK' /\ where' \in [Slots -> Owners]
  BY BuryStep DEF Finalize
<1>2. scheduled' \in Seq([at : Slots, owns : BOOLEAN])
  BY DEF Finalize
<1>3. ObjectsOK'
  BY <1>1, <1>2 DEF Finalize, ObjectsOK, Inv, TypeOK
<1>4. ErrorsOK' /\ (Counted \/ UNCHANGED calls)
  BY DEF Finalize, ErrorsOK, Inv, TypeOK
<1>. QED
  BY <1>1, <1>3, <1>4

LEMMA QuietIdleSteps ==
  ASSUME Inv, AfterYieldPending \/ EndYield \/ IdleEvent \/ EndIdle
  PROVE  Quiet
<1>. USE DEF loopVars, errorVars, queueVars, objectVars
<1>a. {"rethrow", "finalize"} \subseteq PCs
  BY DEF PCs
<1>1. CASE AfterYieldPending
  <2>1. StackOK(stack') /\ SameLoops
    BY <1>1, <1>a, CallStep, Frameworks DEF AfterYieldPending, At
  <2>. QED
    BY <1>1, <2>1, Same, QuietParts DEF AfterYieldPending
<1>2. CASE EndYield
  <2>1. StackOK(stack') /\ SameLoops
    BY <1>2, PopStep DEF EndYield, At
  <2>2. ErrorsOK'
    BY <1>2 DEF EndYield, ErrorsOK, Inv, TypeOK
  <2>. QED
    BY <1>2, <2>1, <2>2, Same, QuietParts DEF EndYield
<1>3. CASE IdleEvent
  <2>1. stack # <<>> /\ (Goto("finalize") \/ \E o \in Slots \cup {Window} : Call("finalize", HandlerFrame(o, FALSE)))
    BY <1>3 DEF IdleEvent, At, Objects
  <2>2. StackOK(stack') /\ SameLoops
    BY <1>a, <2>1, GotoStep, CallStep, Frameworks
  <2>. QED
    BY <1>3, <2>2, Same, QuietParts DEF IdleEvent
<1>4. CASE EndIdle
  <2>1. stack # <<>> /\ Last(stack).kind # "loop" /\ stack[1].kind = "loop" /\ StackOK(stack)
    BY <1>4 DEF EndIdle, At, Top, Inv, TypeOK, LoopInv, Bottom, IsLoop
  <2>2. PICK s : s = Front(stack)
    OBVIOUS
  <2>3. StackOK(s) /\ Len(s) = Len(stack) - 1 /\ Alike(stack, s, Len(s))
    BY <2>1, <2>2, PopKeepsLoops
  <2>4. s # <<>> /\ Len(s) \in Nat /\ Len(stack) \in Nat
    BY <2>1, <2>3 DEF Alike, StackOK
  <2>5. stack' = Orphan(s, Owned)
    BY <1>4, <2>2 DEF EndIdle
  <2>6. StackOK(stack') /\ Alike(s, stack', Len(s))
    BY <2>3, <2>4, <2>5, OrphanKeepsLoops
  <2>7. Len(stack') \in Nat
    BY <2>6 DEF StackOK
  <2>8. Alike(stack, stack', Len(s))
    BY <2>3, <2>4, <2>6, <2>7, AlikeTransitive
  <2>9. SameLoops
    BY <2>4, <2>8 DEF SameLoops
  <2>. QED
    BY <1>4, <2>6, <2>9, FinalizeStep, Same, QuietParts DEF EndIdle
<1>. QED
  BY <1>1, <1>2, <1>3, <1>4

LEMMA QuietExceptions ==
  ASSUME Inv, LeaveGone \/ PassThrough \/ LeaveExecute \/ ConsumeException
  PROVE  Quiet
<1>. USE DEF loopVars, errorVars, queueVars, objectVars
<1>a. ObjectsOK /\ ErrorsOK /\ LoopsOK
  BY DEF Inv, TypeOK
<1>1. CASE LeaveGone
  <2>1. ErrorsOK'
    BY <1>1, <1>a DEF LeaveGone, ErrorsOK
  <2>. QED
    BY <1>1, <2>1, NoStep, Same, QuietParts DEF LeaveGone
<1>2. CASE PassThrough
  <2>1. StackOK(stack') /\ SameLoops
    BY <1>2, PopStep DEF PassThrough, Unwinding
  <2>. QED
    BY <1>2, <2>1, Same, QuietParts DEF PassThrough
<1>3. CASE LeaveExecute
  <2>1. StackOK(stack') /\ SameLoops
    BY <1>3, PopStep DEF LeaveExecute, Unwinding
  <2>2. ObjectsOK'
    BY <1>3, <1>a DEF LeaveExecute, ObjectsOK, Owners
  <2>. QED
    BY <1>3, <2>1, <2>2, Same, QuietParts DEF LeaveExecute
<1>4. CASE ConsumeException
  <2>1. StackOK(stack') /\ SameLoops
    BY <1>4, PopStep DEF ConsumeException, Unwinding
  <2>2. ErrorsOK'
    BY <1>4, <1>a DEF ConsumeException, ErrorsOK
  <2>3. UNCHANGED <<exiting, wake>> \/ \E L \in SUBSET Loops : Exit(L)
    BY <1>4, <1>a, ApplicationAssumption DEF ConsumeException, Exit, LoopsOK
  <2>4. LoopsOK'
    BY <1>4, <1>a, <2>3, ExitStep DEF ConsumeException, LoopsOK
  <2>. QED
    BY <1>4, <2>1, <2>2, <2>4, Same, QuietParts DEF ConsumeException
<1>. QED
  BY <1>1, <1>2, <1>3, <1>4

--------------------------------------------------------------------------------
(* The steps that start, end, create or destroy a loop.                      *)

LEMMA LoopParts ==
  ASSUME Inv, StackOK(stack'), LoopInv', LoopsOK', ErrorsOK', QueuesOK', ObjectsOK',
         Counted \/ UNCHANGED calls, life' \in {"run", "exit", "destroy", "done"}
  PROVE  Inv'
BY CountedStep DEF Inv, TypeOK

LEMMA LoopsAppear ==
  ASSUME Inv, OnRun \/ \E l \in Loops : CreateLoop(l) \/ RunLoop(l)
  PROVE  Inv'
<1>. USE ApplicationAssumption DEF loopVars, errorVars, queueVars, objectVars
<1>a. LoopsOK
  BY DEF Inv, TypeOK
<1>b. InHandler => stack # <<>> /\ life = "run"
  BY DEF InHandler, Inv, LoopInv, Bottom
<1>1. CASE OnRun
  <2>1. stack = <<>> /\ active = NoLoop /\ alive = {} /\ inside = {} /\ life # "run"
    BY <1>1 DEF OnRun, Inv, LoopInv, Bottom
  <2>2. LoopInv' /\ StackOK(stack')
    BY <1>1, <2>1, EnterKeepsInv DEF OnRun
  <2>3. LoopsOK'
    BY <1>1, <1>a, <2>1 DEF OnRun, EnterLoop, LoopsOK
  <2>. QED
    BY <1>1, <2>2, <2>3, Same, LoopParts DEF OnRun
<1>2. ASSUME NEW l \in Loops, CreateLoop(l)
      PROVE  Inv'
  <2>1. LoopsOK'
    BY <1>2, <1>a DEF CreateLoop, LoopsOK
  <2>2. LoopInv'
    BY <1>2, <1>b DEF CreateLoop, Inv, LoopInv, ActiveIsInnermost, Bottom, IsLoop, Encloses,
                      NoLoopIn, Innermost
  <2>. QED
    BY <1>2, <1>b, <2>1, <2>2, NoStep, Same, LoopParts DEF CreateLoop
<1>3. ASSUME NEW l \in Loops, RunLoop(l)
      PROVE  Inv'
  <2>1. LoopInv' /\ StackOK(stack')
    BY <1>3, <1>b, EnterKeepsInv DEF RunLoop
  <2>2. LoopsOK'
    BY <1>3, <1>a DEF RunLoop, EnterLoop, LoopsOK
  <2>. QED
    BY <1>3, <1>b, <2>1, <2>2, Same, LoopParts DEF RunLoop
<1>. QED
  BY <1>1, <1>2, <1>3

LEMMA LoopsVanish ==
  ASSUME Inv, OnRunReturns \/ EndLoop \/ CatchInLoop \/ \E l \in Loops : DestroyLoop(l)
  PROVE  Inv'
<1>. USE ApplicationAssumption DEF loopVars, errorVars, queueVars, objectVars
<1>a. LoopsOK /\ ErrorsOK
  BY DEF Inv, TypeOK
<1>b. stack # <<>> => life = "run"
  BY DEF Inv, LoopInv, Bottom
<1>c. stack = <<>> => inside = {}
  BY <1>a DEF Inv, LoopInv, ActiveIsInnermost, LoopsOK
<1>d. ASSUME NEW l \in Loops, Destroyed(l), l \notin inside, UNCHANGED <<stack, inside>>,
             \/ UNCHANGED life /\ life # "start"
             \/ life = "run" /\ stack = <<>> /\ life' = "exit"
      PROVE  LoopInv' /\ LoopsOK'
  <2>1. LoopsOK'
    BY <1>a, <1>d DEF Destroyed, LoopsOK
  <2>2. inside \subseteq alive' /\ (stack # <<>> => inside # {} /\ active' = active)
    BY <1>a, <1>d DEF Destroyed, Inv, LoopInv, ActiveIsInnermost, LoopsOK, Innermost
  <2>3. ActiveIsInnermost'
    BY <1>d, <2>2 DEF Destroyed, Inv, LoopInv, ActiveIsInnermost, IsLoop, Encloses, NoLoopIn, Innermost
  <2>4. Bottom'
    BY <1>d DEF Inv, LoopInv, Bottom, IsLoop
  <2>. QED
    BY <2>1, <2>3, <2>4 DEF LoopInv
<1>1. CASE OnRunReturns
  <2>1. LoopInv' /\ LoopsOK'
    BY <1>1, <1>c, <1>d DEF OnRunReturns
  <2>2. ErrorsOK'
    BY <1>1, <1>a DEF OnRunReturns, ErrorsOK
  <2>. QED
    BY <1>1, <2>1, <2>2, NoStep, Same, LoopParts DEF OnRunReturns
<1>2. CASE EndLoop
  <2>1. LoopInv' /\ StackOK(stack') /\ LoopsOK' /\ life = "run"
    BY <1>2, <1>b, LeaveKeepsInv DEF EndLoop, At
  <2>. QED
    BY <1>2, <2>1, Same, LoopParts DEF EndLoop
<1>3. CASE CatchInLoop
  <2>1. stack # <<>> /\ Top.kind = "loop" /\ life = "run"
    BY <1>3, <1>b DEF CatchInLoop, Unwinding
  <2>2. ErrorsOK'
    BY <1>3, <1>a DEF CatchInLoop, ErrorsOK
  <2>3. CASE Goto("test") /\ UNCHANGED loopVars
    <3>1. StackOK(stack') /\ SameLoops
      BY <2>1, <2>3, GotoStep DEF PCs
    <3>2. LoopInv'
      BY <1>3, <2>3, <3>1, SameLoopsKeepInv DEF CatchInLoop
    <3>. QED
      BY <1>3, <2>1, <2>2, <2>3, <3>1, <3>2, Same, LoopParts DEF CatchInLoop
  <2>4. CASE LeaveLoop
    <3>1. LoopInv' /\ StackOK(stack') /\ LoopsOK'
      BY <1>3, <2>1, <2>4, LeaveKeepsInv DEF CatchInLoop
    <3>. QED
      BY <1>3, <2>1, <2>2, <3>1, Same, LoopParts DEF CatchInLoop
  <2>. QED
    BY <1>3, <2>3, <2>4 DEF CatchInLoop
<1>4. ASSUME NEW l \in Loops, DestroyLoop(l)
      PROVE  Inv'
  <2>1. life \in {"run", "exit", "destroy"}
    BY <1>4, <1>b DEF DestroyLoop, InClient, InHandler
  <2>2. LoopInv' /\ LoopsOK'
    BY <1>4, <1>d, <2>1 DEF DestroyLoop
  <2>. QED
    BY <1>4, <2>1, <2>2, NoStep, Same, LoopParts DEF DestroyLoop
<1>. QED
  BY <1>1, <1>2, <1>3, <1>4

LEMMA Ends ==
  ASSUME Inv, OnExit \/ OnDestroy
  PROVE  Inv'
<1>. USE DEF loopVars, errorVars, queueVars, objectVars
<1>1. ErrorsOK' /\ QueuesOK' /\ ObjectsOK' /\ (Counted \/ UNCHANGED calls)
  BY FinalizeStep DEF OnExit, OnDestroy
<1>2. LoopInv'
  BY DEF OnExit, OnDestroy, Inv, LoopInv, ActiveIsInnermost, Bottom, IsLoop, Encloses, NoLoopIn,
         Innermost
<1>. QED
  BY <1>1, <1>2, NoStep, Same, LoopParts DEF OnExit, OnDestroy

--------------------------------------------------------------------------------

LEMMA QuietKeepsInv ==
  ASSUME Inv, Quiet
  PROVE  Inv'
BY SameLoopsKeepInv DEF Quiet, Inv, TypeOK

LEMMA StutterKeepsInv ==
  ASSUME Inv, UNCHANGED vars
  PROVE  Inv'
<1>. USE DEF vars
<1>. QED
  BY NoStep, Same, QuietParts, QuietKeepsInv DEF loopVars, errorVars, queueVars, objectVars

LEMMA InitInv == Init => Inv
<1>. SUFFICES ASSUME Init PROVE Inv
  OBVIOUS
<1>. USE ApplicationAssumption DEF Init
<1>1. StackOK(stack)
  BY DEF StackOK
<1>2. LoopsOK /\ ErrorsOK
  BY DEF LoopsOK, ErrorsOK
<1>5. QueuesOK
  BY DEF QueuesOK
<1>3. ObjectsOK
  BY DEF ObjectsOK, Owners
<1>4. LoopInv
  BY DEF LoopInv, ActiveIsInnermost, Bottom
<1>. QED
  BY <1>1, <1>2, <1>3, <1>4, <1>5 DEF Inv, TypeOK

LEMMA NextInv == Inv /\ [Next]_vars => Inv'
<1>. SUFFICES ASSUME Inv, [Next]_vars PROVE Inv'
  OBVIOUS
<1>1. CASE Steps
  BY <1>1, QuietHandlers, QuietLoopSteps, QuietIdleSteps, QuietExceptions, LoopsAppear, LoopsVanish,
     Ends, QuietKeepsInv DEF Steps
<1>2. CASE Calls
  BY <1>2, QuietCalls, QuietLoopCalls, QuietHandlers, LoopsAppear, LoopsVanish, QuietKeepsInv DEF Calls
<1>3. CASE MessageArrives \/ \E o \in Slots : DelayIsOver(o) \/ ThreadPosts(o)
  BY <1>3, QuietCalls, QuietLoopCalls, QuietKeepsInv
<1>4. CASE UNCHANGED vars
  BY <1>4, StutterKeepsInv
<1>. QED
  BY <1>1, <1>2, <1>3, <1>4 DEF Next

LEMMA Invariance == Spec => []Inv
BY InitInv, NextInv, PTL DEF Spec

(* Frames, queues and flags are those of loops, coroutines and objects that    *)
(* exist.                                                                   *)
THEOREM ApplicationTypeCorrect == Spec => []TypeOK
<1>1. Inv => TypeOK
  BY DEF Inv
<1>. QED
  BY <1>1, Invariance, PTL

(* However loops are nested, left and destroyed, and whatever exceptions end    *)
(* them, the active loop is the innermost one.                               *)
THEOREM ActiveCorrect == Spec => []ActiveIsInnermost
<1>1. Inv => ActiveIsInnermost
  BY DEF Inv, LoopInv
<1>. QED
  BY <1>1, Invariance, PTL

--------------------------------------------------------------------------------
(* Who owns the objects and the coroutines.                                  *)

Live == {"client", "list"}                          \* where an object can be
Carried == {"queue", "execute", "timer", "due"}     \* where a coroutine can be

KindsOwn == \A o \in Slots : o \in coroutines <=> where[o] \in Carried
ListOwn == \A i \in 1..Len(scheduled) : scheduled[i].owns => where[scheduled[i].at] = "list"
QueueOwn ==
  /\ \A i \in 1..Len(pending) : pending[i] \in Slots => where[pending[i]] \in Live \cup {"queue"}
  /\ \A i, j \in 1..Len(pending) :
       pending[i] = pending[j] /\ pending[i] \in Slots /\ where[pending[i]] = "queue" => i = j
  /\ \A c \in Slots : where[c] = "queue" => \E i \in 1..Len(pending) : pending[i] = c
ExecOwn ==
  /\ \A i \in 1..Len(stack) : stack[i].kind = "execute" => where[stack[i].of] = "execute"
  /\ \A i, j \in 1..Len(stack) :
       stack[i].kind = "execute" /\ stack[j].kind = "execute" /\ stack[i].of = stack[j].of => i = j
  /\ \A c \in Slots : where[c] = "execute" => \E i \in 1..Len(stack) : Executes(i, c)
HandlersOwn ==
  \A i \in 1..Len(stack) :
    stack[i].kind = "handler" /\ stack[i].of \in Slots => where[stack[i].of] \in Live
TermOwn == \A c \in terminated : c \in stop /\ where[c] # "execute"

OwnInv == KindsOwn /\ ListOwn /\ QueueOwn /\ ExecOwn /\ HandlersOwn /\ TermOwn

LEMMA OwnInit == Init => OwnInv
BY DEF Init, OwnInv, KindsOwn, ListOwn, QueueOwn, ExecOwn, HandlersOwn, TermOwn, Carried

LEMMA Types ==
  ASSUME Inv
  PROVE  /\ pending \in Seq(Slots \cup {Gone}) /\ Len(pending) \in Nat
         /\ stack \in Seq(Frames) /\ Len(stack) \in Nat
         /\ \A i \in 1..Len(stack) : FrameOK(stack[i])
         /\ where \in [Slots -> Owners] /\ coroutines \subseteq Slots
         /\ terminated \subseteq coroutines /\ stop \subseteq coroutines
         /\ scheduled \in Seq([at : Slots, owns : BOOLEAN])
         /\ Gone \notin Slots /\ Window \notin Slots
BY ApplicationAssumption DEF Inv, TypeOK, QueuesOK, StackOK, ObjectsOK

--------------------------------------------------------------------------------
(* The queue.                                                                *)

LEMMA QueueKept ==
  ASSUME Inv, OwnInv, UNCHANGED pending,
         \A o \in Slots : /\ where'[o] = "queue" <=> where[o] = "queue"
                          /\ where[o] \in Live => where'[o] \in Live
  PROVE  QueueOwn'
BY DEF OwnInv, QueueOwn

LEMMA QueueAppended ==
  ASSUME Inv, OwnInv, NEW e \in Slots, pending' = Append(pending, e),
         \A o \in Slots \ {e} : where'[o] = where[o],
         \/ where'[e] = where[e] /\ where[e] \in Live
         \/ where'[e] = "queue" /\ where[e] \notin Live \cup {"queue"}
  PROVE  QueueOwn'
<1>1. PICK n \in Nat : n = Len(pending)
  BY Types
<1>2. /\ Len(pending') = n + 1 /\ pending'[n + 1] = e
      /\ \A i \in 1..n : pending'[i] = pending[i]
  BY <1>1, Types
<1>3. \A i \in 1..(n + 1) : i \in 1..n \/ i = n + 1
  OBVIOUS
<1>4. /\ \A i \in 1..n : pending[i] \in Slots => where[pending[i]] \in Live \cup {"queue"}
      /\ \A i, j \in 1..n : pending[i] = pending[j] /\ pending[i] \in Slots
                              /\ where[pending[i]] = "queue" => i = j
      /\ \A c \in Slots : where[c] = "queue" => \E i \in 1..n : pending[i] = c
  BY <1>1 DEF OwnInv, QueueOwn
<1>5. "queue" \notin Live
  BY DEF Live
<1>6. where'[e] = "queue" => \A i \in 1..n : pending[i] # e
  BY <1>4, <1>5
<1>7. \A i \in 1..(n + 1) : pending'[i] \in Slots => where'[pending'[i]] \in Live \cup {"queue"}
  BY <1>2, <1>3, <1>4
<1>8. ASSUME NEW i \in 1..(n + 1), NEW j \in 1..(n + 1), pending'[i] = pending'[j],
             pending'[i] \in Slots, where'[pending'[i]] = "queue"
      PROVE  i = j
  BY <1>2, <1>3, <1>4, <1>6, <1>8
<1>9. ASSUME NEW c \in Slots, where'[c] = "queue"
      PROVE  \E i \in 1..(n + 1) : pending'[i] = c
  <2>1. CASE c = e
    <3>1. n + 1 \in 1..(n + 1)
      OBVIOUS
    <3>. QED
      BY <1>2, <2>1, <3>1
  <2>2. CASE c # e
    <3>1. PICK i \in 1..n : pending[i] = c
      BY <1>4, <1>9, <2>2
    <3>. QED
      BY <1>2, <3>1
  <2>. QED
    BY <2>1, <2>2
<1>. QED
  BY <1>2, <1>7, <1>8, <1>9 DEF QueueOwn

LEMMA QueueShortened ==
  ASSUME Inv, OwnInv, pending # <<>>, NEW e, e = Head(pending), pending' = Tail(pending),
         \A o \in Slots \ {e} : where'[o] = where[o],
         e \in Slots => \/ where'[e] = where[e] /\ where[e] \in Live
                        \/ where[e] = "queue" /\ where'[e] \notin Live \cup {"queue"}
  PROVE  QueueOwn'
<1>0. Len(pending) \in Nat \ {0}
  BY Types
<1>1. PICK n \in Nat : n = Len(pending) - 1
  BY <1>0
<1>2. /\ Len(pending) = n + 1 /\ Len(pending') = n /\ e = pending[1]
      /\ \A i \in 1..n : pending'[i] = pending[i + 1] /\ i + 1 \in 1..(n + 1) /\ i + 1 # 1
  BY <1>1, Types
<1>3. 1 \in 1..(n + 1) /\ \A i \in 1..(n + 1) : i = 1 \/ (i - 1 \in 1..n /\ i - 1 + 1 = i)
  OBVIOUS
<1>4. /\ \A i \in 1..(n + 1) : pending[i] \in Slots => where[pending[i]] \in Live \cup {"queue"}
      /\ \A i, j \in 1..(n + 1) : pending[i] = pending[j] /\ pending[i] \in Slots
                              /\ where[pending[i]] = "queue" => i = j
      /\ \A c \in Slots : where[c] = "queue" => \E i \in 1..(n + 1) : pending[i] = c
  BY <1>2 DEF OwnInv, QueueOwn
<1>5. "queue" \notin Live
  BY DEF Live
<1>6. \A i \in 1..n : pending'[i] \in Slots => where'[pending'[i]] = where[pending'[i]]
  <2>. SUFFICES ASSUME NEW i \in 1..n, pending'[i] \in Slots, pending'[i] = e
                PROVE  where'[e] = where[e]
    OBVIOUS
  <2>1. i + 1 \in 1..(n + 1) /\ pending[i + 1] = e /\ pending[1] = e /\ i + 1 # 1
    BY <1>2
  <2>2. e \in Slots
    OBVIOUS
  <2>3. where[e] # "queue"
    <3>. SUFFICES ASSUME where[e] = "queue" PROVE FALSE
      OBVIOUS
    <3>1. i + 1 = 1
      BY <1>3, <1>4, <2>1, <2>2
    <3>. QED
      BY <2>1, <3>1
  <2>. QED
    BY <2>2, <2>3
<1>7. \A i \in 1..n : pending'[i] \in Slots => where'[pending'[i]] \in Live \cup {"queue"}
  BY <1>2, <1>4, <1>6
<1>8. ASSUME NEW i \in 1..n, NEW j \in 1..n, pending'[i] = pending'[j],
             pending'[i] \in Slots, where'[pending'[i]] = "queue"
      PROVE  i = j
  <2>1. i + 1 = j + 1
    BY <1>2, <1>4, <1>6, <1>8
  <2>. QED
    BY <2>1
<1>9. ASSUME NEW c \in Slots, where'[c] = "queue"
      PROVE  \E i \in 1..n : pending'[i] = c
  <2>1. c # e /\ where[c] = "queue"
    BY <1>5, <1>9
  <2>2. PICK i \in 1..(n + 1) : pending[i] = c
    BY <1>4, <2>1
  <2>3. i - 1 \in 1..n /\ i - 1 + 1 = i
    BY <1>2, <1>3, <2>1, <2>2
  <2>. QED
    BY <1>2, <2>2, <2>3
<1>10. Len(pending') = n
  BY <1>2
<1>. QED
  BY <1>7, <1>8, <1>9, <1>10 DEF QueueOwn

LEMMA QueueBuried ==
  ASSUME Inv, OwnInv, NEW D \in SUBSET Slots, Bury(D), \A o \in D : where[o] \in Live
  PROVE  /\ QueueOwn'
         /\ \A o \in Slots : where'[o] = IF o \in D THEN "free" ELSE where[o]
<1>1. /\ Len(pending') = Len(pending)
      /\ \A i \in 1..Len(pending) : pending'[i] = IF pending[i] \in D THEN Gone ELSE pending[i]
      /\ \A o \in Slots : where'[o] = IF o \in D THEN "free" ELSE where[o]
  BY Types DEF Bury
<1>2. "queue" \notin Live /\ "free" # "queue" /\ Gone \notin Slots
  BY Types DEF Live
<1>3. \A i \in 1..Len(pending) : pending'[i] \in Slots =>
        pending'[i] = pending[i] /\ where'[pending[i]] = where[pending[i]]
  BY <1>1, <1>2
<1>4. ASSUME NEW c \in Slots, where'[c] = "queue"
      PROVE  \E i \in 1..Len(pending) : pending'[i] = c
  <2>1. c \notin D /\ where[c] = "queue"
    BY <1>1, <1>2, <1>4
  <2>2. PICK i \in 1..Len(pending) : pending[i] = c
    BY <2>1 DEF OwnInv, QueueOwn
  <2>3. pending'[i] = c
    BY <1>1, <2>1, <2>2
  <2>. QED
    BY <2>2, <2>3
<1>. QED
  BY <1>1, <1>3, <1>4 DEF OwnInv, QueueOwn

--------------------------------------------------------------------------------
(* The stack: its first n frames stay, the handlers of destroyed objects apart. *)

Stays(n) ==
  /\ n \in 0..Len(stack) /\ n <= Len(stack')
  /\ \A i \in 1..n : /\ stack'[i].kind = stack[i].kind
                     /\ \/ stack'[i].of = stack[i].of
                        \/ stack[i].kind = "handler" /\ stack'[i].of = Gone

LEMMA StackKept ==
  ASSUME Inv, OwnInv, NEW n, Stays(n), Len(stack') \in Nat,
         \A i \in (n + 1)..Len(stack) : stack[i].kind # "execute",
         \A i \in (n + 1)..Len(stack') :
           /\ stack'[i].kind # "execute"
           /\ stack'[i].kind = "handler" /\ stack'[i].of \in Slots => where[stack'[i].of] \in Live,
         \A o \in Slots : where'[o] = "execute" <=> where[o] = "execute",
         \A o \in Slots : where[o] \in Live =>
           \/ where'[o] \in Live
           \/ \A i \in 1..Len(stack') : stack'[i].kind = "handler" => stack'[i].of # o
  PROVE  ExecOwn' /\ HandlersOwn'
<1>1. n \in Nat /\ n <= Len(stack) /\ n <= Len(stack') /\ Len(stack) \in Nat
  BY Types DEF Stays
<1>2. /\ \A i \in 1..n : i \in 1..Len(stack) /\ i \in 1..Len(stack')
      /\ \A i \in 1..Len(stack) : i \in 1..n \/ i \in (n + 1)..Len(stack)
      /\ \A i \in 1..Len(stack') : i \in 1..n \/ i \in (n + 1)..Len(stack')
  BY <1>1
<1>3. /\ \A i \in 1..Len(stack) : stack[i].kind = "execute" =>
           i \in 1..n /\ stack'[i].kind = "execute" /\ stack'[i].of = stack[i].of
      /\ \A i \in 1..Len(stack') : stack'[i].kind = "execute" =>
           i \in 1..n /\ stack[i].kind = "execute" /\ stack'[i].of = stack[i].of
  BY <1>2 DEF Stays
<1>4. \A i \in 1..Len(stack) : stack[i].kind = "execute" => stack[i].of \in Slots
  BY Types DEF FrameOK
<1>5. ExecOwn'
  <2>1. \A i \in 1..Len(stack') : stack'[i].kind = "execute" => where'[stack'[i].of] = "execute"
    BY <1>2, <1>3, <1>4 DEF OwnInv, ExecOwn
  <2>2. ASSUME NEW i \in 1..Len(stack'), NEW j \in 1..Len(stack'), stack'[i].kind = "execute",
               stack'[j].kind = "execute", stack'[i].of = stack'[j].of
        PROVE  i = j
    BY <1>2, <1>3, <2>2 DEF OwnInv, ExecOwn
  <2>3. ASSUME NEW c \in Slots, where'[c] = "execute"
        PROVE  \E i \in 1..Len(stack') : Executes(i, c)'
    <3>1. PICK i \in 1..Len(stack) : Executes(i, c)
      BY <2>3 DEF OwnInv, ExecOwn
    <3>. QED
      BY <1>2, <1>3, <3>1 DEF Executes
  <2>. QED
    BY <2>1, <2>2, <2>3 DEF ExecOwn
<1>6. ASSUME NEW i \in 1..Len(stack'), stack'[i].kind = "handler", stack'[i].of \in Slots
      PROVE  where'[stack'[i].of] \in Live
  <2>1. where[stack'[i].of] \in Live
    <3>1. CASE i \in 1..n
      <4>1. stack[i].kind = "handler" /\ stack[i].of = stack'[i].of /\ i \in 1..Len(stack)
        BY <1>2, <1>6, <3>1, Types DEF Stays
      <4>. QED
        BY <1>6, <4>1 DEF OwnInv, HandlersOwn
    <3>2. CASE i \in (n + 1)..Len(stack')
      BY <1>6, <3>2
    <3>. QED
      BY <1>2, <3>1, <3>2
  <2>. QED
    BY <1>6, <2>1
<1>. QED
  BY <1>5, <1>6 DEF HandlersOwn

(* How the steps change the stack.                                           *)
LEMMA StaysUnchanged ==
  ASSUME Inv, UNCHANGED stack
  PROVE  Stays(Len(stack)) /\ Len(stack') = Len(stack)
BY Types DEF Stays

LEMMA StaysGoto ==
  ASSUME Inv, stack # <<>>, NEW pc \in PCs, NEW t, t = [stack EXCEPT ![Len(stack)].pc = pc]
  PROVE  /\ t \in Seq(Frames) /\ Len(t) = Len(stack)
         /\ \A i \in 1..Len(stack) : t[i].kind = stack[i].kind /\ t[i].of = stack[i].of
<1>1. Len(stack) \in Nat \ {0} /\ stack \in Seq(Frames) /\ \A i \in 1..Len(stack) : stack[i] \in Frames
  BY Types DEF FrameOK
<1>2. [stack[Len(stack)] EXCEPT !.pc = pc] \in Frames
  BY <1>1 DEF Frames
<1>3. t \in Seq(Frames) /\ Len(t) = Len(stack)
  BY <1>1, <1>2
<1>4. \A i \in 1..Len(stack) :
        t[i] = IF i = Len(stack) THEN [stack[i] EXCEPT !.pc = pc] ELSE stack[i]
  BY <1>1
<1>5. \A i \in 1..Len(stack) : t[i].kind = stack[i].kind /\ t[i].of = stack[i].of
  BY <1>1, <1>4 DEF Frames
<1>. QED
  BY <1>3, <1>5

LEMMA StaysPush ==
  ASSUME Inv, NEW f \in Frames, NEW pc \in PCs,
         stack' = Append(stack, f) \/ (stack # <<>> /\ Call(pc, f))
  PROVE  Stays(Len(stack)) /\ Len(stack') = Len(stack) + 1 /\ stack'[Len(stack) + 1] = f
<1>1. PICK t \in Seq(Frames) :
        /\ stack' = Append(t, f) /\ Len(t) = Len(stack)
        /\ \A i \in 1..Len(stack) : t[i].kind = stack[i].kind /\ t[i].of = stack[i].of
  <2>1. CASE stack' = Append(stack, f)
    BY <2>1, Types
  <2>2. CASE stack # <<>> /\ Call(pc, f)
    <3>1. PICK t : t = [stack EXCEPT ![Len(stack)].pc = pc]
      OBVIOUS
    <3>. QED
      BY <2>2, <3>1, StaysGoto DEF Call
  <2>. QED
    BY <2>1, <2>2
<1>2. PICK n \in Nat : n = Len(stack)
  BY Types
<1>3. Len(stack') = n + 1 /\ stack'[n + 1] = f /\ \A i \in 1..n : stack'[i] = t[i]
  BY <1>1, <1>2
<1>. QED
  BY <1>1, <1>2, <1>3 DEF Stays

LEMMA StaysPop ==
  ASSUME Inv, stack # <<>>, Pop
  PROVE  /\ Stays(Len(stack) - 1) /\ Len(stack') = Len(stack) - 1
         /\ \A i \in 1..(Len(stack) - 1) : stack'[i] = stack[i]
         /\ Len(stack) \in Nat \ {0} /\ Top = stack[Len(stack)]
<1>1. Len(stack) \in Nat \ {0} /\ StackOK(stack)
  BY Types DEF Inv, TypeOK
<1>2. stack' = Front(stack) /\ Len(stack') = Len(stack) - 1
      /\ \A i \in 1..(Len(stack) - 1) : stack'[i] = stack[i]
  BY <1>1, PopKeepsLoops DEF Pop
<1>. QED
  BY <1>1, <1>2 DEF Stays, Top, Last

(* A step that neither ends nor starts an Execute.                           *)
Moves ==
  \/ UNCHANGED stack
  \/ stack # <<>> /\ \E pc \in PCs : Goto(pc)
  \/ stack # <<>> /\ Top.kind # "execute" /\ Pop
  \/ \E f \in Frames, pc \in PCs :
       /\ stack' = Append(stack, f) \/ (stack # <<>> /\ Call(pc, f))
       /\ f.kind # "execute"
       /\ f.kind = "handler" /\ f.of \in Slots => where[f.of] \in Live

LEMMA MovesKeep ==
  ASSUME Inv, OwnInv, Moves,
         \A o \in Slots : where'[o] = "execute" <=> where[o] = "execute",
         \A o \in Slots : where[o] \in Live => where'[o] \in Live
  PROVE  ExecOwn' /\ HandlersOwn'
<1>0. Len(stack) \in Nat /\ \A i \in (Len(stack) + 1)..Len(stack) : FALSE
  BY Types
<1>1. CASE UNCHANGED stack
  BY <1>0, <1>1, StaysUnchanged, StackKept
<1>2. ASSUME stack # <<>>, NEW pc \in PCs, Goto(pc)
      PROVE  ExecOwn' /\ HandlersOwn'
  <2>1. Stays(Len(stack)) /\ Len(stack') = Len(stack)
    <3>1. stack' = [stack EXCEPT ![Len(stack)].pc = pc]
      BY <1>2 DEF Goto
    <3>. QED
      BY <1>0, <1>2, <3>1, StaysGoto DEF Stays
  <2>. QED
    BY <1>0, <2>1, StackKept
<1>3. CASE stack # <<>> /\ Top.kind # "execute" /\ Pop
  <2>1. /\ Stays(Len(stack) - 1) /\ Len(stack') = Len(stack) - 1
        /\ Len(stack) \in Nat \ {0} /\ Top = stack[Len(stack)]
    BY <1>3, StaysPop
  <2>2. /\ \A i \in (Len(stack) - 1 + 1)..Len(stack) : i = Len(stack)
        /\ \A i \in (Len(stack) - 1 + 1)..Len(stack') : FALSE
        /\ Len(stack') \in Nat
    BY <2>1
  <2>3. \A i \in (Len(stack) - 1 + 1)..Len(stack) : stack[i].kind # "execute"
    BY <1>3, <2>1, <2>2
  <2>. QED
    BY <2>1, <2>2, <2>3, StackKept
<1>4. ASSUME NEW f \in Frames, NEW pc \in PCs,
             stack' = Append(stack, f) \/ (stack # <<>> /\ Call(pc, f)),
             f.kind # "execute", f.kind = "handler" /\ f.of \in Slots => where[f.of] \in Live
      PROVE  ExecOwn' /\ HandlersOwn'
  <2>1. /\ Stays(Len(stack)) /\ Len(stack') = Len(stack) + 1 /\ stack'[Len(stack) + 1] = f
    BY <1>4, StaysPush
  <2>2. /\ \A i \in (Len(stack) + 1)..Len(stack') : stack'[i] = f
        /\ Len(stack') \in Nat
    BY <1>0, <2>1
  <2>. QED
    BY <1>0, <1>4, <2>1, <2>2, StackKept
<1>. QED
  BY <1>1, <1>2, <1>3, <1>4 DEF Moves

(* An Execute ends or starts.                                                *)
LEMMA ExecPopped ==
  ASSUME Inv, OwnInv, stack # <<>>, Top.kind = "execute", Pop, NEW c, c = Top.of,
         where'[c] \notin Live \cup {"execute"}, \A o \in Slots \ {c} : where'[o] = where[o]
  PROVE  ExecOwn' /\ HandlersOwn' /\ c \in Slots /\ where[c] = "execute"
<1>0. Len(stack) \in Nat \ {0}
  BY StaysPop
<1>1. PICK n \in Nat : n = Len(stack) - 1
  BY <1>0
<1>2. /\ Len(stack) = n + 1 /\ Len(stack') = n /\ stack[n + 1] = Top
      /\ \A i \in 1..n : stack'[i] = stack[i] /\ i \in 1..(n + 1) /\ i # n + 1
      /\ n + 1 \in 1..(n + 1)
  BY <1>1, StaysPop
<1>3. /\ \A i \in 1..(n + 1) : stack[i].kind = "execute" => where[stack[i].of] = "execute"
      /\ \A i, j \in 1..(n + 1) : stack[i].kind = "execute" /\ stack[j].kind = "execute"
                                  /\ stack[i].of = stack[j].of => i = j
      /\ \A o \in Slots : where[o] = "execute" =>
           \E i \in 1..(n + 1) : stack[i].kind = "execute" /\ stack[i].of = o
      /\ \A i \in 1..(n + 1) : stack[i].kind = "handler" /\ stack[i].of \in Slots
                                  => where[stack[i].of] \in Live
      /\ \A i \in 1..(n + 1) : stack[i].kind = "execute" => stack[i].of \in Slots
  BY <1>2, Types DEF OwnInv, ExecOwn, HandlersOwn, Executes, FrameOK
<1>4. c \in Slots /\ where[c] = "execute" /\ "execute" \notin Live
  BY <1>2, <1>3 DEF Live
<1>5. \A i \in 1..n : stack[i].kind = "execute" => stack[i].of # c
  BY <1>2, <1>3
<1>6. ASSUME NEW o \in Slots, where'[o] = "execute"
      PROVE  \E i \in 1..n : Executes(i, o)'
  <2>1. o # c /\ where[o] = "execute"
    BY <1>6
  <2>2. PICK i \in 1..(n + 1) : stack[i].kind = "execute" /\ stack[i].of = o
    BY <1>3, <2>1
  <2>3. i \in 1..n
    BY <1>2, <2>1, <2>2
  <2>. QED
    BY <1>2, <2>2, <2>3 DEF Executes
<1>7. ExecOwn'
  <2>1. \A i \in 1..n : stack'[i].kind = "execute" => where'[stack'[i].of] = "execute"
    BY <1>2, <1>3, <1>5
  <2>2. \A i, j \in 1..n : stack'[i].kind = "execute" /\ stack'[j].kind = "execute"
                           /\ stack'[i].of = stack'[j].of => i = j
    BY <1>2, <1>3
  <2>. QED
    BY <1>2, <1>6, <2>1, <2>2 DEF ExecOwn
<1>8. HandlersOwn'
  <2>1. \A i \in 1..n : stack[i].kind = "handler" => stack[i].of # c
    BY <1>2, <1>3, <1>4
  <2>. QED
    BY <1>2, <1>3, <2>1 DEF HandlersOwn
<1>. QED
  BY <1>4, <1>7, <1>8

LEMMA ExecPushed ==
  ASSUME Inv, OwnInv, NEW c \in Slots, stack' = Append(stack, ExecuteFrame(c)),
         where[c] = "queue", where' = [where EXCEPT ![c] = "execute"]
  PROVE  ExecOwn' /\ HandlersOwn'
<1>1. PICK n \in Nat : n = Len(stack)
  BY Types
<1>2. /\ Len(stack') = n + 1
      /\ stack'[n + 1].kind = "execute" /\ stack'[n + 1].of = c
      /\ \A i \in 1..n : stack'[i] = stack[i]
  BY <1>1, Types DEF ExecuteFrame, Frame
<1>3. \A i \in 1..(n + 1) : i \in 1..n \/ i = n + 1
  OBVIOUS
<1>4. \A o \in Slots : where'[o] = IF o = c THEN "execute" ELSE where[o]
  BY Types
<1>5. /\ \A i \in 1..n : stack[i].kind = "execute" => where[stack[i].of] = "execute"
      /\ \A i, j \in 1..n : stack[i].kind = "execute" /\ stack[j].kind = "execute"
                                  /\ stack[i].of = stack[j].of => i = j
      /\ \A o \in Slots : where[o] = "execute" =>
           \E i \in 1..n : stack[i].kind = "execute" /\ stack[i].of = o
      /\ \A i \in 1..n : stack[i].kind = "handler" /\ stack[i].of \in Slots
                                  => where[stack[i].of] \in Live
      /\ \A i \in 1..n : stack[i].kind = "execute" => stack[i].of \in Slots
  BY <1>1, Types DEF OwnInv, ExecOwn, HandlersOwn, Executes, FrameOK
<1>6. "queue" \notin Live
  BY DEF Live
<1>7. \A i \in 1..(n + 1) : stack'[i].kind = "execute" => where'[stack'[i].of] = "execute"
  BY <1>2, <1>3, <1>4, <1>5
<1>8. ASSUME NEW i \in 1..(n + 1), NEW j \in 1..(n + 1), stack'[i].kind = "execute",
             stack'[j].kind = "execute", stack'[i].of = stack'[j].of
      PROVE  i = j
  <2>1. \A k \in 1..n : stack[k].kind = "execute" => stack[k].of # c
    BY <1>5
  <2>. QED
    BY <1>2, <1>3, <1>5, <1>8, <2>1
<1>9. ASSUME NEW o \in Slots, where'[o] = "execute"
      PROVE  \E i \in 1..(n + 1) : stack'[i].kind = "execute" /\ stack'[i].of = o
  <2>1. CASE o = c
    <3>1. n + 1 \in 1..(n + 1)
      OBVIOUS
    <3>. QED
      BY <1>2, <2>1, <3>1
  <2>2. CASE o # c
    <3>1. PICK i \in 1..n : stack[i].kind = "execute" /\ stack[i].of = o
      BY <1>4, <1>5, <1>9, <2>2
    <3>. QED
      BY <1>2, <3>1
  <2>. QED
    BY <2>1, <2>2
<1>10. ExecOwn'
  BY <1>2, <1>7, <1>8, <1>9 DEF ExecOwn, Executes
<1>11. ASSUME NEW i \in 1..(n + 1), stack'[i].kind = "handler", stack'[i].of \in Slots
       PROVE  where'[stack'[i].of] \in Live
  BY <1>2, <1>3, <1>4, <1>5, <1>6, <1>11
<1>12. Len(stack') = n + 1
  BY <1>2
<1>13. HandlersOwn'
  BY <1>11, <1>12 DEF HandlersOwn
<1>. QED
  BY <1>10, <1>13

--------------------------------------------------------------------------------
(* The objects and coroutines themselves.                                    *)

Entries == [at : Slots, owns : BOOLEAN]

LEMMA Appended ==
  ASSUME NEW s \in Seq(Entries), NEW r \in Entries, NEW t, t = Append(s, r),
         NEW i \in 1..Len(t)
  PROVE  (i \in 1..Len(s) /\ t[i] = s[i]) \/ t[i] = r
<1>1. PICK n \in Nat : n = Len(s)
  OBVIOUS
<1>2. Len(t) = n + 1 /\ t[n + 1] = r /\ \A k \in 1..n : t[k] = s[k]
  BY <1>1
<1>3. i \in 1..n \/ i = n + 1
  BY <1>2
<1>. QED
  BY <1>1, <1>2, <1>3

LEMMA EntriesOK ==
  ASSUME Inv, NEW i \in 1..Len(scheduled)
  PROVE  scheduled[i] \in Entries /\ scheduled[i].at \in Slots
<1>1. PICK E : E = Entries
  OBVIOUS
<1>2. scheduled \in Seq(E)
  BY <1>1, Types DEF Entries
<1>3. scheduled[i] \in Entries
  BY <1>1, <1>2
<1>. QED
  BY <1>3 DEF Entries

(* One object or coroutine that the list does not own goes elsewhere.         *)
LEMMA OneMoves ==
  ASSUME Inv, OwnInv, NEW c \in Slots, where[c] # "list",
         \A o \in Slots \ {c} : where'[o] = where[o] /\ (o \in coroutines' <=> o \in coroutines),
         c \in coroutines' <=> where'[c] \in Carried,
         \/ UNCHANGED scheduled
         \/ \E at \in Slots : scheduled' = Append(scheduled, [at |-> at, owns |-> FALSE])
         \/ where'[c] = "list" /\ scheduled' = Append(scheduled, [at |-> c, owns |-> TRUE]),
         terminated' \subseteq terminated \cup {c},
         \A o \in terminated' \ {c} : o \in stop => o \in stop',
         c \in terminated' => c \in stop' /\ where'[c] # "execute"
  PROVE  KindsOwn' /\ ListOwn' /\ TermOwn'
<1>1. KindsOwn'
  BY DEF OwnInv, KindsOwn
<1>2. TermOwn'
  BY Types DEF OwnInv, TermOwn
<1>3. ASSUME NEW i \in 1..Len(scheduled), scheduled[i].owns
      PROVE  where'[scheduled[i].at] = "list"
  <2>1. where[scheduled[i].at] = "list"
    BY <1>3 DEF OwnInv, ListOwn
  <2>3. scheduled[i].at \in Slots
    BY <1>3, EntriesOK
  <2>. QED
    BY <2>1, <2>3
<1>4. ASSUME NEW i \in 1..Len(scheduled'), scheduled'[i].owns
      PROVE  where'[scheduled'[i].at] = "list"
  <2>1. CASE UNCHANGED scheduled
    BY <1>3, <1>4, <2>1
  <2>2. ASSUME NEW r \in Entries, scheduled' = Append(scheduled, r),
               r.owns => where'[r.at] = "list"
        PROVE  where'[scheduled'[i].at] = "list"
    <3>1. (i \in 1..Len(scheduled) /\ scheduled'[i] = scheduled[i]) \/ scheduled'[i] = r
      <4>1. scheduled \in Seq(Entries)
        BY Types DEF Entries
      <4>. QED
        BY <2>2, <4>1, Appended
    <3>. QED
      BY <1>3, <1>4, <2>2, <3>1
  <2>3. ASSUME NEW at \in Slots, NEW b \in BOOLEAN, scheduled' = Append(scheduled, [at |-> at, owns |-> b]),
               b => where'[at] = "list"
        PROVE  where'[scheduled'[i].at] = "list"
    <3>1. [at |-> at, owns |-> b] \in Entries
      BY DEF Entries
    <3>. QED
      BY <2>2, <2>3, <3>1
  <2>. QED
    BY <2>1, <2>3
<1>. QED
  BY <1>1, <1>2, <1>4 DEF ListOwn

LEMMA AbortMoves ==
  ASSUME Inv, OwnInv, NEW c \in Slots, where[c] # "list", Abort(c)
  PROVE  /\ KindsOwn' /\ ListOwn' /\ TermOwn'
         /\ where'[c] = "free" /\ \A o \in Slots \ {c} : where'[o] = where[o]
<1>1. where'[c] = "free" /\ \A o \in Slots \ {c} : where'[o] = where[o]
  BY Types DEF Abort
<1>2. /\ \/ UNCHANGED scheduled
         \/ scheduled' = Append(scheduled, [at |-> c, owns |-> FALSE])
      /\ c \notin coroutines' /\ c \notin terminated'
      /\ \A o \in Slots \ {c} : o \in coroutines' <=> o \in coroutines
      /\ terminated' \subseteq terminated
      /\ \A o \in terminated' : o # c /\ (o \in stop => o \in stop')
  BY DEF Abort
<1>3. "free" \notin Carried
  BY DEF Carried
<1>. QED
  BY <1>1, <1>2, <1>3, OneMoves

--------------------------------------------------------------------------------
(* The steps.                                                                *)

LEMMA StillOwn ==
  ASSUME Inv, OwnInv, UNCHANGED <<pending, where, coroutines, stop, terminated, scheduled>>, Moves
  PROVE  OwnInv'
<1>1. QueueOwn'
  BY QueueKept
<1>2. ExecOwn' /\ HandlersOwn'
  BY MovesKeep
<1>. QED
  BY <1>1, <1>2 DEF OwnInv, KindsOwn, ListOwn, TermOwn

LEMMA NoMove ==
  ASSUME UNCHANGED stack
  PROVE  Moves
BY DEF Moves

LEMMA OwnLoopCalls ==
  ASSUME Inv, OwnInv,
         \/ ExitMainLoop \/ Yield \/ Throw \/ MessageArrives \/ OnRun \/ OnRunReturns
         \/ \E l \in Loops : ExitLoop(l) \/ RunRefused(l) \/ CreateLoop(l) \/ DestroyLoop(l) \/ RunLoop(l)
  PROVE  OwnInv'
<1>. USE DEF queueVars, objectVars
<1>1. UNCHANGED <<pending, where, coroutines, stop, terminated, scheduled>>
  BY DEF ExitMainLoop, Yield, Throw, MessageArrives, OnRun, OnRunReturns, ExitLoop, RunRefused,
         CreateLoop, DestroyLoop, RunLoop
<1>2. CASE UNCHANGED stack
  BY <1>1, <1>2, NoMove, StillOwn
<1>3. ASSUME NEW f \in Frames, f.kind \in {"loop", "yield"}, stack' = Append(stack, f)
      PROVE  OwnInv'
  <2>1. Moves
    BY <1>3 DEF Moves, PCs
  <2>. QED
    BY <1>1, <2>1, StillOwn
<1>4. active \in Loops \cup {NoLoop} /\ (stack # <<>> => active \in Loops) /\ MainLoop \in Loops
  BY ApplicationAssumption DEF Inv, TypeOK, LoopsOK, LoopInv, ActiveIsInnermost
<1>5. CASE Yield
  <2>1. YieldFrame(active) \in Frames /\ YieldFrame(active).kind = "yield"
    BY <1>4, <1>5 DEF Yield, InHandler, YieldFrame, Frame, Frames, Kinds, PCs
  <2>. QED
    BY <1>3, <1>5, <2>1 DEF Yield
<1>6. ASSUME NEW l \in Loops, EnterLoop(l)
      PROVE  OwnInv'
  <2>1. RunFrame(l, active) \in Frames /\ RunFrame(l, active).kind = "loop"
    BY <1>4 DEF RunFrame, Frame, Frames, Kinds, PCs
  <2>. QED
    BY <1>3, <1>6, <2>1 DEF EnterLoop
<1>7. CASE OnRun
  BY <1>4, <1>6, <1>7 DEF OnRun
<1>8. ASSUME NEW l \in Loops, RunLoop(l) PROVE OwnInv'
  BY <1>6, <1>8 DEF RunLoop
<1>. QED
  BY <1>2, <1>5, <1>7, <1>8 DEF ExitMainLoop, Throw, MessageArrives, OnRunReturns, ExitLoop, RunRefused,
         CreateLoop, DestroyLoop

LEMMA OwnLoopSteps ==
  ASSUME Inv, OwnInv,
         \/ HandlerReturns \/ TestLoop \/ AfterIdle \/ AfterPending \/ DispatchMessage \/ WokenUp
         \/ AfterWait \/ EndLoop \/ AfterYieldPending \/ EndYield \/ IdleEvent
         \/ LeaveGone \/ PassThrough \/ ConsumeException \/ CatchInLoop
  PROVE  OwnInv'
<1>. USE DEF queueVars, objectVars
<1>1. UNCHANGED <<pending, where, coroutines, stop, terminated, scheduled>>
  BY DEF HandlerReturns, TestLoop, AfterIdle, AfterPending, DispatchMessage, WokenUp, AfterWait,
         EndLoop, AfterYieldPending, EndYield, IdleEvent, LeaveGone, PassThrough, ConsumeException,
         CatchInLoop
<1>2. CASE UNCHANGED stack
  BY <1>1, <1>2, NoMove, StillOwn
<1>3. ASSUME stack # <<>>, NEW pc \in PCs, Goto(pc) PROVE OwnInv'
  BY <1>1, <1>3, StillOwn DEF Moves
<1>4. ASSUME stack # <<>>, Top.kind # "execute", Pop PROVE OwnInv'
  BY <1>1, <1>4, StillOwn DEF Moves
<1>5. ASSUME stack # <<>>, NEW pc \in PCs, Call(pc, IdleFrame) PROVE OwnInv'
  <2>1. IdleFrame \in Frames /\ IdleFrame.kind = "idle"
    BY DEF IdleFrame, Frame, Frames, Kinds, PCs
  <2>2. Moves
    BY <1>5, <2>1 DEF Moves
  <2>. QED
    BY <1>1, <2>2, StillOwn
<1>6. ASSUME stack # <<>>, NEW pc \in PCs, NEW g \in BOOLEAN, NEW o \in Objects \cup {Window},
             Call(pc, HandlerFrame(o, g))
      PROVE  OwnInv'
  <2>1. /\ HandlerFrame(o, g) \in Frames
        /\ HandlerFrame(o, g).kind = "handler" /\ HandlerFrame(o, g).of = o
    BY DEF HandlerFrame, Frame, Frames, Kinds, PCs, Objects
  <2>2. o \in Slots => where[o] \in Live
    BY Types DEF Objects, Live
  <2>3. Moves
    BY <1>6, <2>1, <2>2 DEF Moves
  <2>. QED
    BY <1>1, <2>3, StillOwn
<1>7. {"test", "idled", "pending", "wait", "rethrow", "drain", "finalize"} \subseteq PCs
  BY DEF PCs
<1>8. CASE HandlerReturns
  BY <1>2, <1>4, <1>8 DEF HandlerReturns, InHandler
<1>9. CASE TestLoop
  <2>1. stack # <<>> /\ (Goto("drain") \/ Goto("pending") \/ Call("idled", IdleFrame))
    BY <1>9 DEF TestLoop, At
  <2>. QED
    BY <1>3, <1>5, <1>7, <2>1
<1>10. ASSUME AfterIdle \/ AfterPending \/ WokenUp \/ AfterWait PROVE OwnInv'
  <2>1. stack # <<>> /\ (UNCHANGED stack \/ \E pc \in PCs : Goto(pc))
    BY <1>7, <1>10 DEF AfterIdle, AfterPending, WokenUp, AfterWait, At
  <2>. QED
    BY <1>2, <1>3, <2>1
<1>11. CASE DispatchMessage
  <2>1. stack # <<>> /\ AfterDispatch \in PCs
    BY <1>7, <1>11 DEF DispatchMessage, Dispatches, At, AfterDispatch
  <2>2. PICK o \in Objects \cup {Window} : Call(AfterDispatch, HandlerFrame(o, TRUE))
    BY <1>11 DEF DispatchMessage
  <2>. QED
    BY <1>6, <2>1, <2>2
<1>12. ASSUME EndLoop \/ EndYield \/ PassThrough \/ ConsumeException PROVE OwnInv'
  <2>1. stack # <<>> /\ Top.kind # "execute" /\ Pop
    BY <1>12 DEF EndLoop, EndYield, PassThrough, ConsumeException, At, Unwinding, LeaveLoop
  <2>. QED
    BY <1>4, <2>1
<1>13. CASE AfterYieldPending
  BY <1>5, <1>7, <1>13 DEF AfterYieldPending, At
<1>14. CASE IdleEvent
  <2>1. stack # <<>>
    BY <1>14 DEF IdleEvent, At
  <2>2. \/ Goto("finalize")
        \/ \E o \in Objects \cup {Window} : Call("finalize", HandlerFrame(o, FALSE))
    BY <1>14 DEF IdleEvent
  <2>. QED
    BY <1>3, <1>6, <1>7, <2>1, <2>2
<1>15. CASE CatchInLoop
  <2>1. stack # <<>> /\ Top.kind # "execute" /\ (Goto("test") \/ Pop)
    BY <1>15 DEF CatchInLoop, Unwinding, LeaveLoop
  <2>. QED
    BY <1>3, <1>4, <1>7, <2>1
<1>16. CASE LeaveGone
  BY <1>2, <1>16 DEF LeaveGone
<1>. QED
  BY <1>8, <1>9, <1>10, <1>11, <1>12, <1>13, <1>14, <1>15, <1>16

LEMMA OwnPosts ==
  ASSUME Inv, OwnInv, \E o \in Slots : PostEvent(o) \/ ThreadPosts(o)
  PROVE  OwnInv'
<1>. USE DEF objectVars
<1>1. PICK o \in Slots : PostEvent(o) \/ ThreadPosts(o)
  OBVIOUS
<1>2. UNCHANGED <<stack, where, coroutines, stop, terminated, scheduled>>
  BY <1>1 DEF PostEvent, ThreadPosts
<1>3. pending' = Append(pending, o) /\ where[o] \in Live
  BY <1>1 DEF PostEvent, ThreadPosts, Post, Objects, Live
<1>4. QueueOwn'
  BY <1>2, <1>3, QueueAppended
<1>5. ExecOwn' /\ HandlersOwn'
  BY <1>2, NoMove, MovesKeep
<1>. QED
  BY <1>2, <1>4, <1>5 DEF OwnInv, KindsOwn, ListOwn, TermOwn

LEMMA OwnNew ==
  ASSUME Inv, OwnInv, NEW o \in Slots, New(o)
  PROVE  OwnInv'
<1>. USE DEF objectVars, queueVars
<1>1. /\ UNCHANGED <<stack, pending, coroutines, stop, terminated, scheduled>> /\ where[o] = "free"
      /\ where'[o] = "client" /\ \A x \in Slots \ {o} : where'[x] = where[x]
  BY Types DEF New
<1>2. {"free", "client"} \cap {"queue", "execute", "list"} = {} /\ "client" \in Live
      /\ "free" \notin Carried /\ "client" \notin Carried
  BY DEF Live, Carried
<1>3. o \notin terminated /\ o \notin coroutines
  BY <1>1, <1>2, Types DEF OwnInv, KindsOwn
<1>4. KindsOwn' /\ ListOwn' /\ TermOwn'
  BY <1>1, <1>2, <1>3, OneMoves
<1>5. QueueOwn'
  BY <1>1, <1>2, QueueKept
<1>6. ExecOwn' /\ HandlersOwn'
  BY <1>1, <1>2, NoMove, MovesKeep
<1>. QED
  BY <1>4, <1>5, <1>6 DEF OwnInv

(* A coroutine that goes from one owner to another, the stack and the queue    *)
(* apart.                                                                    *)
LEMMA OwnCarried ==
  ASSUME Inv, OwnInv, NEW c \in Slots,
         RunCoroutine(c) \/ Terminate(c) \/ TimerFires(c) \/ DelayIsOver(c)
  PROVE  OwnInv'
<1>. USE DEF objectVars, queueVars
<1>1. /\ {"free", "timer", "due"} \cap (Live \cup {"queue", "execute"}) = {}
      /\ "queue" \notin Live /\ "free" \notin Carried /\ {"queue", "due"} \subseteq Carried
      /\ "queue" # "execute" /\ "list" \notin {"free", "timer", "due"}
      /\ {"timer", "due"} \subseteq Carried
  BY DEF Live, Carried
<1>2. CASE RunCoroutine(c)
  <2>1. /\ UNCHANGED <<stack, stop, terminated, scheduled>> /\ where[c] = "free"
        /\ pending' = Append(pending, c) /\ coroutines' = coroutines \cup {c}
        /\ where'[c] = "queue" /\ \A x \in Slots \ {c} : where'[x] = where[x]
    BY <1>2, Types DEF RunCoroutine, Post
  <2>2. c \notin terminated
    BY <1>1, <2>1, Types DEF OwnInv, KindsOwn
  <2>3. KindsOwn' /\ ListOwn' /\ TermOwn'
    BY <1>1, <2>1, <2>2, OneMoves
  <2>4. QueueOwn'
    BY <1>1, <2>1, QueueAppended
  <2>5. ExecOwn' /\ HandlersOwn'
    BY <1>1, <2>1, NoMove, MovesKeep
  <2>. QED
    BY <2>3, <2>4, <2>5 DEF OwnInv
<1>3. CASE Terminate(c)
  <2>1. UNCHANGED <<stack, pending>> /\ c \in coroutines
    BY <1>3 DEF Terminate
  <2>2. CASE Delayed(c) /\ Abort(c)
    <3>1. where[c] \in {"timer", "due"}
      BY <2>2 DEF Delayed
    <3>2. KindsOwn' /\ ListOwn' /\ TermOwn' /\ where'[c] = "free"
          /\ \A x \in Slots \ {c} : where'[x] = where[x]
      BY <1>1, <2>2, <3>1, AbortMoves
    <3>3. QueueOwn'
      BY <1>1, <2>1, <3>1, <3>2, QueueKept
    <3>4. ExecOwn' /\ HandlersOwn'
      BY <1>1, <2>1, <3>1, <3>2, NoMove, MovesKeep
    <3>. QED
      BY <3>2, <3>3, <3>4 DEF OwnInv
  <2>3. CASE ~Delayed(c) /\ UNCHANGED <<where, coroutines, scheduled>>
    <3>1. stop' = stop \cup {c} /\ terminated' = IF where[c] = "execute" THEN terminated
                                                  ELSE terminated \cup {c}
      BY <1>3, <2>3 DEF Terminate, Abort
    <3>2. TermOwn'
      BY <2>3, <3>1 DEF OwnInv, TermOwn
    <3>3. QueueOwn'
      BY <2>1, <2>3, QueueKept
    <3>4. ExecOwn' /\ HandlersOwn'
      BY <2>1, <2>3, NoMove, MovesKeep
    <3>. QED
      BY <2>3, <3>2, <3>3, <3>4 DEF OwnInv, KindsOwn, ListOwn
  <2>. QED
    BY <1>3, <2>2, <2>3 DEF Terminate
<1>4. CASE DelayIsOver(c)
  <2>1. /\ UNCHANGED <<stack, pending, coroutines, stop, terminated, scheduled>> /\ where[c] = "timer"
        /\ where'[c] = "due" /\ \A x \in Slots \ {c} : where'[x] = where[x]
    BY <1>4, Types DEF DelayIsOver
  <2>2. c \in coroutines /\ (c \in terminated => c \in stop)
    BY <1>1, <2>1 DEF OwnInv, KindsOwn, TermOwn
  <2>3. KindsOwn' /\ ListOwn' /\ TermOwn'
    BY <1>1, <2>1, <2>2, OneMoves
  <2>4. QueueOwn'
    BY <1>1, <2>1, QueueKept
  <2>5. ExecOwn' /\ HandlersOwn'
    BY <1>1, <2>1, NoMove, MovesKeep
  <2>. QED
    BY <2>3, <2>4, <2>5 DEF OwnInv
<1>5. CASE TimerFires(c)
  <2>1. /\ UNCHANGED <<coroutines, stop, terminated, scheduled>> /\ where[c] = "due"
        /\ pending' = Append(pending, c)
        /\ where'[c] = "queue" /\ \A x \in Slots \ {c} : where'[x] = where[x]
    BY <1>5, Types DEF TimerFires, Post
  <2>2. c \in coroutines /\ (c \in terminated => c \in stop)
    BY <1>1, <2>1 DEF OwnInv, KindsOwn, TermOwn
  <2>3. KindsOwn' /\ ListOwn' /\ TermOwn'
    BY <1>1, <2>1, <2>2, OneMoves
  <2>4. QueueOwn'
    BY <1>1, <2>1, QueueAppended
  <2>5. Moves
    BY <1>5 DEF TimerFires, Dispatches, At, AfterDispatch, Moves, PCs
  <2>6. ExecOwn' /\ HandlersOwn'
    BY <1>1, <2>1, <2>5, MovesKeep
  <2>. QED
    BY <2>3, <2>4, <2>6 DEF OwnInv
<1>. QED
  BY <1>2, <1>3, <1>4, <1>5

(* An Execute returns or throws.                                             *)
LEMMA OwnExecuted ==
  ASSUME Inv, OwnInv, ContinueCoroutine \/ DelayCoroutine \/ StopCoroutine \/ LeaveExecute
  PROVE  OwnInv'
<1>. USE DEF objectVars, queueVars
<1>1. PICK c : c = Top.of
  OBVIOUS
<1>2. stack # <<>> /\ Top.kind = "execute" /\ Pop
  BY DEF ContinueCoroutine, DelayCoroutine, StopCoroutine, LeaveExecute, InHandler, Unwinding
<1>3. FrameOK(Top) /\ c \in Slots
  BY <1>1, <1>2, TopOK DEF FrameOK
<1>4. Len(stack) \in Nat \ {0} /\ Top = stack[Len(stack)]
  BY <1>2, StaysPop
<1>5. where[c] = "execute"
  <2>1. Len(stack) \in 1..Len(stack)
    BY <1>4
  <2>. QED
    BY <1>1, <1>2, <1>4, <2>1 DEF OwnInv, ExecOwn
<1>6. /\ "execute" \notin Live \cup {"queue", "free", "timer", "list"} /\ "queue" \notin Live
      /\ "free" \notin Carried /\ {"queue", "timer", "execute"} \subseteq Carried
      /\ {"free", "timer", "queue"} \cap (Live \cup {"execute"}) = {}
      /\ "queue" \notin {"free", "timer"}
  BY DEF Live, Carried
<1>7. c \in coroutines /\ c \notin terminated
  BY <1>3, <1>5, <1>6 DEF OwnInv, KindsOwn, TermOwn
<1>8. ASSUME \A o \in Slots \ {c} : where'[o] = where[o], where'[c] \in {"free", "timer", "queue"}
      PROVE  ExecOwn' /\ HandlersOwn'
  BY <1>1, <1>2, <1>6, <1>8, ExecPopped
<1>9. ASSUME \A o \in Slots \ {c} : where'[o] = where[o], where'[c] \in {"free", "timer"},
             UNCHANGED pending
      PROVE  QueueOwn'
  BY <1>5, <1>6, <1>9, QueueKept
<1>10. ASSUME ContinueCoroutine \/ DelayCoroutine PROVE OwnInv'
  <2>1. /\ UNCHANGED <<coroutines, terminated, scheduled>> /\ stop' = stop \ {c}
        /\ \A o \in Slots \ {c} : where'[o] = where[o]
        /\ \/ where'[c] = "timer" /\ UNCHANGED pending
           \/ where'[c] = "queue" /\ pending' = Append(pending, c)
    BY <1>1, <1>3, <1>10, Types DEF ContinueCoroutine, DelayCoroutine, Post
  <2>2. KindsOwn' /\ ListOwn' /\ TermOwn'
    BY <1>3, <1>5, <1>6, <1>7, <2>1, OneMoves
  <2>3. QueueOwn'
    BY <1>3, <1>5, <1>6, <1>9, <2>1, QueueAppended
  <2>. QED
    BY <1>8, <2>1, <2>2, <2>3 DEF OwnInv
<1>11. CASE StopCoroutine
  <2>1. Abort(c) /\ UNCHANGED pending
    BY <1>1, <1>11 DEF StopCoroutine
  <2>2. KindsOwn' /\ ListOwn' /\ TermOwn' /\ where'[c] = "free"
        /\ \A o \in Slots \ {c} : where'[o] = where[o]
    BY <1>3, <1>5, <1>6, <2>1, AbortMoves
  <2>. QED
    BY <1>8, <1>9, <2>1, <2>2 DEF OwnInv
<1>12. CASE LeaveExecute
  <2>1. /\ UNCHANGED <<pending, scheduled>> /\ coroutines' = coroutines \ {c} /\ stop' = stop \ {c}
        /\ terminated' = terminated \ {c}
        /\ where'[c] = "free" /\ \A o \in Slots \ {c} : where'[o] = where[o]
    BY <1>1, <1>3, <1>12, Types DEF LeaveExecute
  <2>2. KindsOwn' /\ ListOwn' /\ TermOwn'
    BY <1>3, <1>5, <1>6, <2>1, OneMoves
  <2>. QED
    BY <1>8, <1>9, <2>1, <2>2 DEF OwnInv
<1>. QED
  BY <1>10, <1>11, <1>12

(* The first posted event is handled.                                        *)
LEMMA OwnHandled ==
  ASSUME Inv, OwnInv, HandleEvent \/ RunExecute
  PROVE  OwnInv'
<1>. USE DEF objectVars
<1>1. PICK e : e = Head(pending)
  OBVIOUS
<1>2. /\ pending # <<>> /\ pending' = Tail(pending) /\ stack # <<>>
  BY DEF HandleEvent, RunExecute, InPending, At
<1>3. e \in Slots \cup {Gone} /\ (e \in Slots => where[e] \in Live \cup {"queue"})
  <2>1. 1 \in 1..Len(pending) /\ e = pending[1] /\ pending[1] \in Slots \cup {Gone}
    BY <1>1, <1>2, Types
  <2>. QED
    BY <2>1 DEF OwnInv, QueueOwn
<1>4. /\ "queue" \in Carried /\ "free" \notin Carried /\ "execute" \in Carried
      /\ Live \cap Carried = {} /\ {"free", "execute"} \cap (Live \cup {"queue"}) = {}
      /\ "queue" \notin Live \cup {"list", "execute", "free"} /\ "free" # "execute"
      /\ "list" \notin {"free", "execute"}
  BY DEF Live, Carried
<1>5. CASE HandleEvent
  <2>1. UNCHANGED <<where, coroutines, stop, terminated, scheduled>> /\ e \notin coroutines
    BY <1>1, <1>5 DEF HandleEvent
  <2>2. e \in Slots => where[e] \in Live
    BY <1>3, <1>4, <2>1 DEF OwnInv, KindsOwn
  <2>3. QueueOwn'
    BY <1>1, <1>2, <2>1, <2>2, QueueShortened
  <2>4. Moves
    <3>1. CASE UNCHANGED stack
      BY <3>1, NoMove
    <3>2. ASSUME NEW g \in BOOLEAN, e # Gone, stack' = Append(stack, HandlerFrame(e, g)) PROVE Moves
      <4>1. /\ HandlerFrame(e, g) \in Frames
            /\ HandlerFrame(e, g).kind = "handler" /\ HandlerFrame(e, g).of = e
        BY <1>3, <3>2 DEF HandlerFrame, Frame, Frames, Kinds, PCs
      <4>2. "test" \in PCs
        BY DEF PCs
      <4>. QED
        BY <2>2, <3>2, <4>1, <4>2 DEF Moves
    <3>. QED
      BY <1>1, <1>5, <3>1, <3>2 DEF HandleEvent
  <2>5. ExecOwn' /\ HandlersOwn'
    BY <2>1, <2>4, MovesKeep
  <2>. QED
    BY <2>1, <2>3, <2>5 DEF OwnInv, KindsOwn, ListOwn, TermOwn
<1>6. CASE RunExecute
  <2>1. e \in coroutines /\ e \in Slots
    BY <1>1, <1>6, Types DEF RunExecute
  <2>2. where[e] = "queue"
    BY <1>3, <1>4, <2>1 DEF OwnInv, KindsOwn
  <2>3. CASE Abort(e) /\ UNCHANGED stack
    <3>1. KindsOwn' /\ ListOwn' /\ TermOwn' /\ where'[e] = "free"
          /\ \A o \in Slots \ {e} : where'[o] = where[o]
      BY <1>4, <2>1, <2>2, <2>3, AbortMoves
    <3>2. QueueOwn'
      BY <1>1, <1>2, <1>4, <2>1, <2>2, <3>1, QueueShortened
    <3>3. ExecOwn' /\ HandlersOwn'
      BY <1>4, <2>2, <2>3, <3>1, NoMove, MovesKeep
    <3>. QED
      BY <3>1, <3>2, <3>3 DEF OwnInv
  <2>4. CASE /\ e \notin stop /\ stack' = Append(stack, ExecuteFrame(e))
             /\ where' = [where EXCEPT ![e] = "execute"]
             /\ UNCHANGED <<coroutines, stop, terminated, scheduled>>
    <3>1. where'[e] = "execute" /\ \A o \in Slots \ {e} : where'[o] = where[o]
      BY <2>1, <2>4, Types
    <3>2. e \notin terminated
      BY <2>4 DEF OwnInv, TermOwn
    <3>3. KindsOwn' /\ ListOwn' /\ TermOwn'
      BY <1>4, <2>1, <2>2, <2>4, <3>1, <3>2, OneMoves
    <3>4. QueueOwn'
      BY <1>1, <1>2, <1>4, <2>1, <2>2, <3>1, QueueShortened
    <3>5. ExecOwn' /\ HandlersOwn'
      BY <2>1, <2>2, <2>4, ExecPushed
    <3>. QED
      BY <3>3, <3>4, <3>5 DEF OwnInv
  <2>. QED
    BY <1>1, <1>6, <2>3, <2>4 DEF RunExecute
<1>. QED
  BY <1>5, <1>6

--------------------------------------------------------------------------------
(* Objects are destroyed.                                                    *)

LEMMA OrphanStays ==
  ASSUME Inv, NEW s, NEW n \in Nat, s \in Seq(Frames), Len(s) = n, n <= Len(stack),
         \A i \in 1..n : s[i] = stack[i], NEW D \in SUBSET Slots, stack' = Orphan(s, D)
  PROVE  /\ Stays(n) /\ Len(stack') = n
         /\ \A i \in 1..n : stack'[i].kind = "handler" => stack'[i].of \notin D
<1>1. /\ Len(stack') = n
      /\ \A i \in 1..n : stack'[i] = IF s[i].kind = "handler" /\ s[i].of \in D
                                     THEN [s[i] EXCEPT !.of = Gone] ELSE s[i]
  BY DEF Orphan
<1>2. ASSUME NEW i \in 1..n, s[i].kind = "handler", s[i].of \in D
      PROVE  stack'[i].kind = "handler" /\ stack'[i].of = Gone
  <2>1. s[i] \in Frames
    OBVIOUS
  <2>. QED
    BY <1>1, <1>2, <2>1 DEF Frames
<1>3. ASSUME NEW i \in 1..n, ~(s[i].kind = "handler" /\ s[i].of \in D)
      PROVE  stack'[i] = stack[i]
  BY <1>1, <1>3
<1>4. n \in 0..Len(stack) /\ n <= Len(stack')
  BY <1>1, Types
<1>5. Stays(n)
  BY <1>2, <1>3, <1>4 DEF Stays
<1>6. \A i \in 1..n : stack'[i].kind = "handler" => stack'[i].of \notin D
  BY <1>2, <1>3, Types
<1>. QED
  BY <1>1, <1>5, <1>6

LEMMA Buried ==
  ASSUME Inv, OwnInv, NEW D \in SUBSET Slots, Bury(D), \A o \in D : where[o] \in Live,
         UNCHANGED <<coroutines, stop, terminated>>,
         NEW n \in Nat, Stays(n), Len(stack') = n,
         \A i \in (n + 1)..Len(stack) : stack[i].kind # "execute",
         \A i \in 1..n : stack'[i].kind = "handler" => stack'[i].of \notin D
  PROVE  KindsOwn' /\ TermOwn' /\ QueueOwn' /\ ExecOwn' /\ HandlersOwn'
<1>1. QueueOwn' /\ \A o \in Slots : where'[o] = IF o \in D THEN "free" ELSE where[o]
  BY QueueBuried
<1>2. "free" \notin Carried /\ Live \cap Carried = {} /\ "free" # "execute" /\ "execute" \notin Live
  BY DEF Live, Carried
<1>3. KindsOwn'
  BY <1>1, <1>2 DEF OwnInv, KindsOwn
<1>4. TermOwn'
  BY <1>1, <1>2, Types DEF OwnInv, TermOwn
<1>5. \A o \in Slots : where'[o] = "execute" <=> where[o] = "execute"
  BY <1>1, <1>2
<1>6. \A i \in (n + 1)..Len(stack') : FALSE
  OBVIOUS
<1>7. ExecOwn' /\ HandlersOwn'
  BY <1>1, <1>5, <1>6, StackKept
<1>. QED
  BY <1>1, <1>3, <1>4, <1>7

LEMMA OwnScheduled ==
  ASSUME Inv, OwnInv, NEW o \in Slots, ScheduleForDestruction(o)
  PROVE  OwnInv'
<1>1. where[o] = "client" /\ UNCHANGED <<coroutines, stop, terminated>> /\ o \notin coroutines
  BY DEF ScheduleForDestruction, Objects
<1>2. "client" \in Live /\ "list" \in Live /\ "list" \notin Carried \cup {"queue", "execute", "client"}
      /\ "client" \notin {"queue", "execute"}
  BY DEF Live, Carried
<1>3. CASE /\ scheduled' = Append(scheduled, [at |-> o, owns |-> TRUE])
           /\ where' = [where EXCEPT ![o] = "list"] /\ UNCHANGED <<stack, pending>>
  <2>1. where'[o] = "list" /\ \A x \in Slots \ {o} : where'[x] = where[x]
    BY <1>3, Types
  <2>2. o \notin terminated
    BY <1>1, Types
  <2>3. KindsOwn' /\ ListOwn' /\ TermOwn'
    BY <1>1, <1>2, <1>3, <2>1, <2>2, OneMoves
  <2>4. QueueOwn'
    BY <1>1, <1>2, <1>3, <2>1, QueueKept
  <2>5. ExecOwn' /\ HandlersOwn'
    BY <1>1, <1>2, <1>3, <2>1, NoMove, MovesKeep
  <2>. QED
    BY <2>3, <2>4, <2>5 DEF OwnInv
<1>4. CASE Bury({o}) /\ stack' = Orphan(stack, {o}) /\ UNCHANGED scheduled
  <2>1. PICK n \in Nat : n = Len(stack)
    BY Types
  <2>5. stack \in Seq(Frames) /\ Len(stack) = n /\ n <= Len(stack) /\ {o} \in SUBSET Slots
        /\ \A i \in 1..n : stack[i] = stack[i]
    BY <2>1, Types
  <2>2. /\ Stays(n) /\ Len(stack') = n
        /\ \A i \in 1..n : stack'[i].kind = "handler" => stack'[i].of \notin {o}
    BY <1>4, <2>5, OrphanStays
  <2>3. \A i \in (n + 1)..Len(stack) : FALSE
    BY <2>1
  <2>4. KindsOwn' /\ TermOwn' /\ QueueOwn' /\ ExecOwn' /\ HandlersOwn'
    BY <1>1, <1>2, <1>4, <2>2, <2>3, Buried
  <2>6. ListOwn'
    <3>1. \A x \in Slots \ {o} : where'[x] = where[x]
      BY <1>4 DEF Bury
    <3>2. \A i \in 1..Len(scheduled) : scheduled[i].at \in Slots
      BY EntriesOK
    <3>. QED
      BY <1>1, <1>2, <1>4, <3>1, <3>2 DEF OwnInv, ListOwn
  <2>. QED
    BY <2>4, <2>6 DEF OwnInv
<1>. QED
  BY <1>3, <1>4 DEF ScheduleForDestruction

LEMMA OwnedAreListed ==
  ASSUME Inv, OwnInv
  PROVE  Owned \in SUBSET Slots /\ \A o \in Owned : where[o] = "list"
BY EntriesOK DEF Owned, OwnInv, ListOwn

LEMMA OwnFinalized ==
  ASSUME Inv, OwnInv, EndIdle \/ OnExit \/ OnDestroy
  PROVE  OwnInv'
<1>1. Bury(Owned) /\ scheduled' = <<>> /\ UNCHANGED <<coroutines, stop, terminated>>
  BY DEF EndIdle, OnExit, OnDestroy, Finalize
<1>2. Owned \in SUBSET Slots /\ \A o \in Owned : where[o] \in Live
  BY OwnedAreListed DEF Live
<1>3. ListOwn'
  BY <1>1 DEF ListOwn
<1>4. CASE EndIdle
  <2>1. stack # <<>> /\ Top.kind = "idle" /\ stack' = Orphan(Front(stack), Owned)
    BY <1>4 DEF EndIdle, At
  <2>2. Len(stack) \in Nat \ {0} /\ StackOK(stack) /\ Top = stack[Len(stack)]
    BY <2>1, Types DEF Inv, TypeOK, Top, Last
  <2>3. PICK n \in Nat : n = Len(stack) - 1
    BY <2>2
  <2>4. PICK s : s = Front(stack)
    OBVIOUS
  <2>5. s \in Seq(Frames) /\ Len(s) = n /\ \A i \in 1..n : s[i] = stack[i]
    BY <2>2, <2>3, <2>4, PopKeepsLoops DEF StackOK
  <2>6. n <= Len(stack) /\ Len(stack) = n + 1
    BY <2>2, <2>3
  <2>7. /\ Stays(n) /\ Len(stack') = n
        /\ \A i \in 1..n : stack'[i].kind = "handler" => stack'[i].of \notin Owned
    BY <1>2, <2>1, <2>4, <2>5, <2>6, OrphanStays
  <2>8. \A i \in (n + 1)..Len(stack) : stack[i].kind # "execute"
    <3>1. \A i \in (n + 1)..Len(stack) : i = Len(stack)
      BY <2>6
    <3>. QED
      BY <2>1, <2>2, <3>1
  <2>. QED
    BY <1>1, <1>2, <1>3, <2>7, <2>8, Buried DEF OwnInv
<1>5. ASSUME OnExit \/ OnDestroy PROVE OwnInv'
  <2>1. stack = <<>> /\ stack' = <<>>
    BY <1>5 DEF OnExit, OnDestroy, Inv, LoopInv, Bottom
  <2>2. Stays(0) /\ Len(stack') = 0 /\ (\A i \in (0 + 1)..Len(stack) : FALSE) /\ \A i \in 1..0 : FALSE
    BY <2>1 DEF Stays
  <2>. QED
    BY <1>1, <1>2, <1>3, <2>2, Buried DEF OwnInv
<1>. QED
  BY <1>4, <1>5

--------------------------------------------------------------------------------

LEMMA OwnNext == Inv /\ OwnInv /\ [Next]_vars => OwnInv'
<1>. SUFFICES ASSUME Inv, OwnInv, [Next]_vars PROVE OwnInv'
  OBVIOUS
<1>1. CASE Steps
  BY <1>1, OwnLoopSteps, OwnLoopCalls, OwnExecuted, OwnHandled, OwnCarried, OwnFinalized DEF Steps
<1>2. CASE Calls
  BY <1>2, OwnLoopCalls, OwnExecuted, OwnCarried, OwnNew, OwnPosts, OwnScheduled DEF Calls
<1>3. CASE MessageArrives \/ \E o \in Slots : DelayIsOver(o) \/ ThreadPosts(o)
  BY <1>3, OwnLoopCalls, OwnCarried, OwnPosts
<1>4. CASE UNCHANGED vars
  <2>1. UNCHANGED <<stack, pending, where, coroutines, stop, terminated, scheduled>>
    BY <1>4 DEF vars, queueVars, objectVars
  <2>. QED
    BY <2>1, NoMove, StillOwn
<1>. QED
  BY <1>1, <1>2, <1>3, <1>4 DEF Next

LEMMA OwnInvariance == Spec => [](Inv /\ OwnInv)
<1>1. Init => Inv /\ OwnInv
  BY InitInv, OwnInit
<1>2. Inv /\ OwnInv /\ [Next]_vars => (Inv /\ OwnInv)'
  BY NextInv, OwnNext
<1>. QED
  BY <1>1, <1>2, PTL DEF Spec

(* Whatever handlers, destructors and exceptions do with them, coroutines are  *)
(* owned once: by the queue, by one Execute or by their own timer.            *)
THEOREM CoroutinesHaveOneOwner == Spec => []OneOwner
<1>1. Inv /\ OwnInv => OneOwner
  <2>. SUFFICES ASSUME Inv, OwnInv, NEW c \in coroutines
                PROVE  /\ where[c] = "queue" <=> \E i \in 1..Len(pending) : Queued(i, c)
                       /\ \A i, j \in 1..Len(pending) : Queued(i, c) /\ Queued(j, c) => i = j
                       /\ where[c] = "execute" <=> \E i \in 1..Len(stack) : Executes(i, c)
                       /\ \A i, j \in 1..Len(stack) : Executes(i, c) /\ Executes(j, c) => i = j
    BY DEF OneOwner
  <2>1. c \in Slots /\ where[c] \notin Live
    BY Types DEF OwnInv, KindsOwn, Carried, Live
  <2>2. /\ where[c] = "queue" <=> \E i \in 1..Len(pending) : Queued(i, c)
        /\ \A i, j \in 1..Len(pending) : Queued(i, c) /\ Queued(j, c) => i = j
    BY <2>1 DEF OwnInv, QueueOwn, Queued
  <2>3. /\ where[c] = "execute" <=> \E i \in 1..Len(stack) : Executes(i, c)
        /\ \A i, j \in 1..Len(stack) : Executes(i, c) /\ Executes(j, c) => i = j
    BY <2>1 DEF OwnInv, ExecOwn, Executes
  <2>. QED
    BY <2>2, <2>3
<1>. QED
  BY <1>1, OwnInvariance, PTL

(* How an object or a coroutine comes to be where it is.                      *)
LEMMA WhereMoves ==
  ASSUME Inv, OwnInv, [Next]_vars, NEW o \in Slots
  PROVE  \/ where'[o] = where[o]
         \/ where'[o] \in {"client", "list", "queue", "timer", "due"}
         \/ where'[o] = "execute" /\ o \notin stop
         \/ /\ where'[o] = "free"
            /\ \/ where[o] \in Carried \/ stack = <<>> \/ Top.kind = "idle"
               \/ \E j \in 1..Len(scheduled) : scheduled[j] = [at |-> o, owns |-> FALSE]
<1>. DEFINE Moved == \/ where'[o] = where[o]
                     \/ where'[o] \in {"client", "list", "queue", "timer", "due"}
                     \/ where'[o] = "execute" /\ o \notin stop
                     \/ /\ where'[o] = "free"
                        /\ \/ where[o] \in Carried \/ stack = <<>> \/ Top.kind = "idle"
                           \/ \E j \in 1..Len(scheduled) : scheduled[j] = [at |-> o, owns |-> FALSE]
<1>. SUFFICES Moved
  OBVIOUS
<1>. USE DEF objectVars
<1>1. ASSUME NEW x, NEW v, where' = [where EXCEPT ![x] = v],
             v \in {"client", "list", "queue", "timer", "due"}
      PROVE  Moved
  BY <1>1, Types
<1>2. ASSUME NEW c \in coroutines, where' = [where EXCEPT ![c] = "free"]
      PROVE  Moved
  <2>1. where[c] \in Carried
    BY Types DEF OwnInv, KindsOwn
  <2>. QED
    BY <1>2, <2>1, Types
<1>3. CASE UNCHANGED where
  BY <1>3
<1>4. ASSUME NEW x \in Slots, New(x) \/ RunCoroutine(x) \/ TimerFires(x) \/ DelayIsOver(x)
      PROVE  Moved
  BY <1>1, <1>4 DEF New, RunCoroutine, TimerFires, DelayIsOver
<1>5. ASSUME NEW x \in Slots, Terminate(x) PROVE Moved
  BY <1>2, <1>3, <1>5 DEF Terminate, Abort
<1>6. ASSUME ContinueCoroutine \/ DelayCoroutine PROVE Moved
  BY <1>1, <1>6 DEF ContinueCoroutine, DelayCoroutine
<1>7. ASSUME StopCoroutine \/ LeaveExecute PROVE Moved
  <2>1. stack # <<>> /\ Top.kind = "execute" /\ where' = [where EXCEPT ![Top.of] = "free"]
    BY <1>7 DEF StopCoroutine, LeaveExecute, Abort, InHandler, Unwinding
  <2>2. FrameOK(Top) /\ Len(stack) \in 1..Len(stack) /\ Top = stack[Len(stack)]
    BY <2>1, TopOK, Types DEF Top, Last
  <2>3. Top.of \in Slots /\ where[Top.of] = "execute"
    BY <2>1, <2>2 DEF OwnInv, ExecOwn, FrameOK
  <2>4. Top.of \in coroutines
    BY <2>3 DEF OwnInv, KindsOwn, Carried
  <2>. QED
    BY <1>2, <2>1, <2>4
<1>8. CASE RunExecute
  <2>1. PICK c \in coroutines : c = Head(pending)
    BY <1>8 DEF RunExecute
  <2>2. CASE Abort(c)
    BY <1>2, <2>2 DEF Abort
  <2>3. CASE c \notin stop /\ where' = [where EXCEPT ![c] = "execute"]
    BY <2>3, Types
  <2>. QED
    BY <1>8, <2>1, <2>2, <2>3 DEF RunExecute
<1>9. ASSUME NEW x \in Slots, ScheduleForDestruction(x) PROVE Moved
  <2>1. CASE where' = [where EXCEPT ![x] = "list"]
    BY <1>1, <2>1
  <2>2. CASE IsScheduled(x) /\ Bury({x})
    <3>1. where'[o] = IF o = x THEN "free" ELSE where[o]
      BY <2>2 DEF Bury
    <3>2. PICK j \in 1..Len(scheduled) : scheduled[j].at = x
      BY <2>2 DEF IsScheduled
    <3>3. scheduled[j] \in Entries /\ where[x] # "list"
      BY <1>9, EntriesOK DEF ScheduleForDestruction
    <3>4. scheduled[j] = [at |-> x, owns |-> FALSE]
      BY <3>2, <3>3 DEF OwnInv, ListOwn, Entries
    <3>. QED
      BY <3>1, <3>4
  <2>. QED
    BY <1>9, <2>1, <2>2 DEF ScheduleForDestruction
<1>10. ASSUME EndIdle \/ OnExit \/ OnDestroy PROVE Moved
  <2>1. where'[o] = "free" \/ where'[o] = where[o]
    BY <1>10 DEF EndIdle, OnExit, OnDestroy, Finalize, Bury
  <2>2. Top.kind = "idle" \/ stack = <<>>
    BY <1>10 DEF EndIdle, At, OnExit, OnDestroy, Inv, LoopInv, Bottom
  <2>. QED
    BY <2>1, <2>2
<1>. HIDE DEF Moved
<1>11. CASE Steps
  <2>1. \/ \E x \in Slots : TimerFires(x)
        \/ StopCoroutine \/ LeaveExecute \/ RunExecute \/ EndIdle \/ OnExit \/ OnDestroy
        \/ UNCHANGED where
    BY <1>11 DEF Steps, HandlerReturns, TestLoop, AfterIdle, AfterPending, DispatchMessage, WokenUp,
         AfterWait, EndLoop, AfterYieldPending, EndYield, IdleEvent, LeaveGone, PassThrough,
         ConsumeException, CatchInLoop, OnRun, OnRunReturns, HandleEvent
  <2>. QED
    BY <1>3, <1>4, <1>7, <1>8, <1>10, <2>1
<1>12. CASE Calls
  <2>1. \/ \E x \in Slots : New(x) \/ RunCoroutine(x) \/ Terminate(x) \/ ScheduleForDestruction(x)
        \/ ContinueCoroutine \/ DelayCoroutine
        \/ UNCHANGED where
    BY <1>12 DEF Calls, PostEvent, ExitMainLoop, Yield, Throw, ExitLoop, RunRefused, CreateLoop,
         DestroyLoop, RunLoop
  <2>. QED
    BY <1>3, <1>4, <1>5, <1>6, <1>9, <2>1
<1>13. CASE MessageArrives \/ \E x \in Slots : DelayIsOver(x) \/ ThreadPosts(x)
  <2>1. (\E x \in Slots : DelayIsOver(x)) \/ UNCHANGED where
    BY <1>13 DEF MessageArrives, ThreadPosts
  <2>. QED
    BY <1>3, <1>4, <2>1
<1>14. CASE UNCHANGED vars
  BY <1>3, <1>14 DEF vars
<1>. QED
  BY <1>11, <1>12, <1>13, <1>14 DEF Next

(* Terminate, called while a coroutine waits for its turn or for its timer,    *)
(* lasts: RunExecute finds the instruction and never runs it again.           *)
THEOREM TerminatedStaysStopped == Spec => TerminatedNeverExecutes
<1>. DEFINE Stopped == \A c \in terminated : where[c] # "execute" => where'[c] # "execute"
<1>1. Inv /\ OwnInv /\ [Next]_vars => [Stopped]_vars
  <2>. SUFFICES ASSUME Inv, OwnInv, [Next]_vars, NEW c \in terminated, where[c] # "execute",
                       where'[c] = "execute"
                PROVE  FALSE
    OBVIOUS
  <2>1. c \in Slots /\ c \in stop
    BY Types DEF OwnInv, TermOwn
  <2>. QED
    BY <2>1, WhereMoves
<1>. HIDE DEF Stopped
<1>2. Spec => [][Stopped]_vars
  BY <1>1, OwnInvariance, PTL DEF Spec
<1>. QED
  BY <1>2 DEF TerminatedNeverExecutes, Stopped

(* An object is destroyed under its own handler by an idle event only, or by    *)
(* ScheduleForDestruction when a coroutine that died there left its address.   *)
THEOREM HandlersOutliveTheirCalls == Spec => NotDestroyedUnderHandler
<1>. DEFINE Safe ==
       \A i \in 1..Len(stack) :
         (stack[i].kind = "handler" /\ stack[i].of \in Slots /\ where'[stack[i].of] = "free") =>
           \/ Top.kind = "idle"
           \/ \E j \in 1..Len(scheduled) : scheduled[j] = [at |-> stack[i].of, owns |-> FALSE]
<1>1. Inv /\ OwnInv /\ [Next]_vars => [Safe]_vars
  <2>. SUFFICES ASSUME Inv, OwnInv, [Next]_vars, NEW i \in 1..Len(stack), stack[i].kind = "handler",
                       stack[i].of \in Slots, where'[stack[i].of] = "free"
                PROVE  \/ Top.kind = "idle"
                       \/ \E j \in 1..Len(scheduled) : scheduled[j] = [at |-> stack[i].of, owns |-> FALSE]
    OBVIOUS
  <2>1. where[stack[i].of] \in Live /\ stack # <<>>
    BY Types DEF OwnInv, HandlersOwn
  <2>2. where[stack[i].of] # "free" /\ where[stack[i].of] \notin Carried
    BY <2>1 DEF Live, Carried
  <2>. QED
    BY <2>1, <2>2, WhereMoves
<1>. HIDE DEF Safe
<1>2. Spec => [][Safe]_vars
  BY <1>1, OwnInvariance, PTL DEF Spec
<1>. QED
  BY <1>2 DEF NotDestroyedUnderHandler, Safe
================================================================================
