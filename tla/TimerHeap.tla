------------------------------ MODULE TimerHeap ------------------------------
(***************************************************************************)
(* _TimerHeap of runtime/lib/timer_impl.dart: a binary heap in an array.     *)
(* A heap is the sequence of the first _used entries of _list, so that the   *)
(* _indexOrNext of a timer is its place in the sequence; f gives the fields  *)
(* of the timers.                                                          *)
(***************************************************************************)
EXTENDS Integers, Sequences, SequencesExt

\* _Timer._compareTo() < 0
Before(f, a, b) ==
  f[a].wakeup < f[b].wakeup \/ (f[a].wakeup = f[b].wakeup /\ f[a].id < f[b].id)

\* _swap()
Swapped(h, i, j) == [h EXCEPT ![i] = h[j], ![j] = h[i]]

\* A loop: its state after n rounds from x, when a round turns s into step[s].
Rounds(step, x, n) ==
  LET round[k \in 0..n] == IF k = 0 THEN x ELSE step[round[k - 1]]
  IN  round[n]

\* _bubbleUp() of the entry at i; the parent of i is i \div 2, counted from 1.
UpStep(f) ==
  [s \in Seq(DOMAIN f) \X Nat |->
     IF s[2] > 1 /\ Before(f, s[1][s[2]], s[1][s[2] \div 2])
     THEN <<Swapped(s[1], s[2], s[2] \div 2), s[2] \div 2>>
     ELSE s]

BubbleUp(f, h, i) == Rounds(UpStep(f), <<h, i>>, Len(h))[1]

\* The earliest of entry i and its children.
Newest(f, h, i) ==
  CHOOSE j \in {i, 2 * i, 2 * i + 1} \cap DOMAIN h :
    \A k \in {i, 2 * i, 2 * i + 1} \cap DOMAIN h : ~Before(f, h[k], h[j]) /\ (k < j => Before(f, h[j], h[k]))

\* _bubbleDown() of the entry at i.
DownStep(f) ==
  [s \in Seq(DOMAIN f) \X Nat |->
     LET j == Newest(f, s[1], s[2]) IN IF j = s[2] THEN s ELSE <<Swapped(s[1], s[2], j), j>>]

BubbleDown(f, h, i) == Rounds(DownStep(f), <<h, i>>, Len(h))[1]

\* _TimerHeap.add()
HeapAdd(f, h, t) == BubbleUp(f, Append(h, t), Len(h) + 1)

\* Mutant: the entry that fills the gap only ever moves down.
HeapRemoveDown(f, h, t) ==
  LET i    == CHOOSE j \in DOMAIN h : h[j] = t
      last == h[Len(h)]
      rest == Front(h)
  IN  IF last = t THEN rest ELSE BubbleDown(f, [rest EXCEPT ![i] = last], i)

\* _TimerHeap.remove(): the last entry fills the gap.
HeapRemove(f, h, t) ==
  LET i    == CHOOSE j \in DOMAIN h : h[j] = t
      last == h[Len(h)]
      rest == Front(h)
      gap  == [rest EXCEPT ![i] = last]
  IN  IF last = t THEN rest
      ELSE IF Before(f, last, t) THEN BubbleUp(f, gap, i) ELSE BubbleDown(f, gap, i)

\* Timers of the set due as long as one is first: the heap that is left, and the
\* batch that removeFirst() returned.
PopStep(f, due) ==
  [s \in Seq(DOMAIN f) \X Seq(DOMAIN f) |->
     IF s[1] # <<>> /\ s[1][1] \in due THEN <<HeapRemove(f, s[1], s[1][1]), Append(s[2], s[1][1])>>
     ELSE s]

Popped(f, h, due) ==
  LET end == Rounds(PopStep(f, due), <<h, <<>>>>, Len(h)) IN [heap |-> end[1], batch |-> end[2]]

-----------------------------------------------------------------------------
(* Properties                                                              *)

IsHeap(f, h) == \A i \in 2..Len(h) : ~Before(f, h[i], h[i \div 2])

\* A removal from the middle can move the last entry up, into another branch:
\* that takes six entries.  Two of the timers here expire at the same time.
Samples == [t \in 1..6 |-> [wakeup |-> (t + 1) \div 2, id |-> t]]

SampleHeaps == {h \in UNION {[1..n -> DOMAIN Samples] : n \in 0..6} : IsInjective(h) /\ IsHeap(Samples, h)}

\* Adding and removing any timer at any place leaves a heap with exactly the
\* timers that belong there, and taking timers from the front yields them in order.
HeapOperationsCorrect ==
  \A h \in SampleHeaps :
    /\ \A t \in DOMAIN Samples \ ToSet(h) :
         LET g == HeapAdd(Samples, h, t)
         IN  IsHeap(Samples, g) /\ ToSet(g) = ToSet(h) \cup {t} /\ Len(g) = Len(h) + 1
    /\ \A t \in ToSet(h) :
         LET g == HeapRemove(Samples, h, t)
         IN  IsHeap(Samples, g) /\ ToSet(g) = ToSet(h) \ {t} /\ Len(g) = Len(h) - 1
    /\ \A n \in DOMAIN Samples :
         LET b == Popped(Samples, h, 1..n).batch
         IN  ToSet(b) = ToSet(h) \cap 1..n /\ \A i, j \in DOMAIN b : i < j => b[i] < b[j]
=============================================================================
