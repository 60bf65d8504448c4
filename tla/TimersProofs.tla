---------------------------- MODULE TimersProofs ----------------------------
(***************************************************************************)
(* Proofs about the timers: the heap of timer_impl.dart is a heap whatever  *)
(* is added and removed, for any number of timers, and the isolate and the  *)
(* event handler agree about the next wakeup.                               *)
(***************************************************************************)
EXTENDS Timers, FiniteSetTheorems, NaturalsInduction, WellFoundedInduction, TLAPS

-----------------------------------------------------------------------------
(* Induction                                                               *)

\* Every set of naturals that is not empty has a least element.
LEMMA LeastNat ==
  ASSUME NEW T \in SUBSET Nat, T # {}
  PROVE  \E x \in T : \A y \in T : x <= y
<1> DEFINE R == OpToRel(<, Nat)
<1>1. IsWellFoundedOn(R, Nat)
  BY NatLessThanWellFounded
<1>2. \A x, y \in Nat : x < y => <<x, y>> \in R
  BY DEF OpToRel
<1> HIDE DEF R
<1>3. PICK x \in T : \A y \in T : ~(<<y, x>> \in R)
  BY <1>1, WFMin
<1>4. \A y \in T : y \in Nat /\ x \in Nat /\ ~(y < x)
  BY <1>2, <1>3
<1>5. \A y \in T : x <= y
  BY <1>4
<1> QED
  BY <1>5

\* A set that holds 0 and each successor holds every natural number.
LEMMA SetInduction ==
  ASSUME NEW S, 0 \in S, \A n \in Nat : n \in S => n + 1 \in S
  PROVE  Nat \subseteq S
<1> SUFFICES ASSUME Nat \ S # {} PROVE FALSE
  OBVIOUS
<1>1. PICK x \in Nat \ S : \A y \in Nat \ S : x <= y
  BY LeastNat
<1> QED
  BY <1>1

\* The states of a loop, round by round.
LEMMA RoundsExist ==
  ASSUME NEW step, NEW x, NEW n \in Nat
  PROVE  \E r : /\ r[0] = x
                /\ \A k \in 0 .. n : k # 0 => r[k] = step[r[k - 1]]
                /\ Rounds(step, x, n) = r[n]
<1> DEFINE Part(g, m) == g = [k \in 0 .. m |-> IF k = 0 THEN x ELSE step[g[k - 1]]]
           S == {m \in Nat : \E g : Part(g, m)}
<1>1. 0 \in S
  <2>1. Part([k \in 0 .. 0 |-> x], 0)
    OBVIOUS
  <2> QED
    BY <2>1
<1>2. ASSUME NEW m \in Nat, m \in S  PROVE m + 1 \in S
  <2>1. PICK g : Part(g, m)
    BY <1>2
  <2> DEFINE h == [k \in 0 .. m + 1 |-> IF k = m + 1 THEN step[g[m]] ELSE g[k]]
  <2>2. \A k \in 0 .. m + 1 : h[k] = IF k = 0 THEN x ELSE step[h[k - 1]]
    <3> SUFFICES ASSUME NEW k \in 0 .. m + 1  PROVE h[k] = IF k = 0 THEN x ELSE step[h[k - 1]]
      OBVIOUS
    <3>1. CASE k = m + 1
      <4>1. h[k] = step[g[m]] /\ k - 1 = m /\ m \in 0 .. m + 1 /\ m # m + 1
        BY <3>1
      <4>2. h[m] = g[m]
        BY <4>1
      <4> QED
        BY <3>1, <4>1, <4>2
    <3>2. CASE k # m + 1
      <4>1. k \in 0 .. m /\ h[k] = g[k]
        BY <3>2
      <4>2. g[k] = IF k = 0 THEN x ELSE step[g[k - 1]]
        BY <2>1, <4>1
      <4>3. k # 0 => k - 1 \in 0 .. m + 1 /\ k - 1 # m + 1
        BY <3>2
      <4>4. k # 0 => h[k - 1] = g[k - 1]
        BY <4>3
      <4> QED
        BY <4>1, <4>2, <4>4
    <3> QED
      BY <3>1, <3>2
  <2>3. Part(h, m + 1)
    BY <2>2
  <2> HIDE DEF Part, h
  <2>4. \E y : Part(y, m + 1)
    BY <2>3
  <2> QED
    BY <2>4
<1>3. \E g : Part(g, n)
  <2> HIDE DEF Part
  <2>1. Nat \subseteq S
    BY <1>1, <1>2, SetInduction
  <2> QED
    BY <2>1
<1>4. Part(CHOOSE g : Part(g, n), n)
  <2> HIDE DEF Part
  <2> QED
    BY <1>3
<1>5. Rounds(step, x, n) = (CHOOSE g : Part(g, n))[n]
  BY DEF Rounds
<1> DEFINE r == CHOOSE g : Part(g, n)
<1> HIDE DEF r
<1>6. Rounds(step, x, n) = r[n] /\ Part(r, n)
  BY <1>4, <1>5 DEF r
<1>7. r[0] = x /\ \A k \in 0 .. n : k # 0 => r[k] = step[r[k - 1]]
  BY <1>6
<1> QED
  BY <1>6, <1>7

\* A loop keeps what each of its rounds keeps, and is over if a measure that was at most
\* the number of rounds decreases with each of them.
LEMMA LoopRule ==
  ASSUME NEW step, NEW n \in Nat, NEW I, NEW x \in I, NEW v \in [I -> Nat],
         \A s \in I : step[s] \in I,
         \A s \in I : step[s] = s \/ v[step[s]] < v[s],
         v[x] <= n
  PROVE  Rounds(step, x, n) \in I /\ step[Rounds(step, x, n)] = Rounds(step, x, n)
<1>1. PICK r : /\ r[0] = x
               /\ \A k \in 0 .. n : k # 0 => r[k] = step[r[k - 1]]
               /\ Rounds(step, x, n) = r[n]
  BY RoundsExist
<1> DEFINE S == {k \in Nat : k <= n => r[k] \in I /\ (step[r[k]] = r[k] \/ v[r[k]] + k <= n)}
<1>2. 0 \in S
  BY <1>1
<1>3. ASSUME NEW k \in Nat, k \in S  PROVE k + 1 \in S
  <2> SUFFICES ASSUME k + 1 <= n PROVE r[k + 1] \in I /\ (step[r[k + 1]] = r[k + 1] \/ v[r[k + 1]] + (k + 1) <= n)
    OBVIOUS
  <2>1. r[k] \in I /\ (step[r[k]] = r[k] \/ v[r[k]] + k <= n)
    BY <1>3
  <2>2. r[k + 1] = step[r[k]]
    <3>1. k + 1 \in 0 .. n /\ k + 1 # 0 /\ (k + 1) - 1 = k
      OBVIOUS
    <3> QED
      BY <1>1, <3>1
  <2>3. r[k + 1] \in I /\ v[r[k]] \in Nat /\ v[r[k + 1]] \in Nat
    BY <2>1, <2>2
  <2>4. CASE step[r[k]] = r[k]
    BY <2>1, <2>2, <2>4
  <2>5. CASE v[r[k + 1]] < v[r[k]] /\ v[r[k]] + k <= n
    BY <2>3, <2>5
  <2> QED
    BY <2>1, <2>2, <2>4, <2>5
<1>4. n \in S
  <2>1. Nat \subseteq S
    <3> HIDE DEF S
    <3> QED
      BY <1>2, <1>3, SetInduction
  <2> QED
    BY <2>1
<1>5. r[n] \in I /\ (step[r[n]] = r[n] \/ v[r[n]] + n <= n)
  BY <1>4
<1>6. v[r[n]] \in Nat /\ v[step[r[n]]] \in Nat
  BY <1>5
<1>7. step[r[n]] = r[n]
  BY <1>5, <1>6
<1> QED
  BY <1>1, <1>5, <1>7

-----------------------------------------------------------------------------
(* The order of timers                                                     *)

\* The fields by which timers are compared are numbers.
Comparable(f) == \A t \in DOMAIN f : f[t].wakeup \in Int /\ f[t].id \in Int

\* _compareTo() orders the timers, those with equal times and ids side by side.
LEMMA Order ==
  ASSUME NEW f, Comparable(f)
  PROVE  /\ \A a \in DOMAIN f : ~Before(f, a, a)
         /\ \A a, b \in DOMAIN f : Before(f, a, b) => ~Before(f, b, a)
         /\ \A a, b, c \in DOMAIN f : ~Before(f, b, a) /\ ~Before(f, c, b) => ~Before(f, c, a)
<1>1. \A a \in DOMAIN f : f[a].wakeup \in Int /\ f[a].id \in Int
  BY DEF Comparable
<1> QED
  BY <1>1 DEF Before

\* Places in the heap: the parent of a place comes before it.
LEMMA Parents ==
  /\ \A i \in Nat : i >= 2 => i \div 2 \in Nat /\ i \div 2 >= 1 /\ i \div 2 < i
  /\ \A i, j \in Nat : i \div 2 = j <=> i = 2 * j \/ i = 2 * j + 1
OBVIOUS

\* _swap() exchanges two entries.
LEMMA Swap ==
  ASSUME NEW D, NEW g \in Seq(D), NEW i \in 1 .. Len(g), NEW j \in 1 .. Len(g)
  PROVE  /\ Swapped(g, i, j) \in Seq(D) /\ Len(Swapped(g, i, j)) = Len(g)
         /\ \A k \in 1 .. Len(g) :
              Swapped(g, i, j)[k] = IF k = j THEN g[i] ELSE IF k = i THEN g[j] ELSE g[k]
BY DEF Swapped

\* g holds what h holds.
Rearranged(g, h) ==
  Len(g) = Len(h) /\ ToSet(g) = ToSet(h) /\ (IsInjective(h) => IsInjective(g))

\* The entries of a sequence.
LEMMA Entries ==
  ASSUME NEW D, NEW g \in Seq(D)
  PROVE  /\ DOMAIN g = 1 .. Len(g) /\ Len(g) \in Nat
         /\ \A k \in 1 .. Len(g) : g[k] \in D
         /\ ToSet(g) = {g[k] : k \in 1 .. Len(g)} /\ ToSet(g) \subseteq D
BY DEF ToSet

\* A swap rearranges.
LEMMA SwapRearranges ==
  ASSUME NEW D, NEW g \in Seq(D), NEW i \in 1 .. Len(g), NEW j \in 1 .. Len(g), NEW h, Rearranged(g, h)
  PROVE  Rearranged(Swapped(g, i, j), h)
<1> DEFINE s == Swapped(g, i, j)
<1>1. s \in Seq(D) /\ Len(s) = Len(g)
  BY Swap
<1>2. \A k \in 1 .. Len(g) : s[k] = IF k = j THEN g[i] ELSE IF k = i THEN g[j] ELSE g[k]
  BY Swap
<1> HIDE DEF s
<1>3. DOMAIN g = 1 .. Len(g) /\ DOMAIN s = 1 .. Len(g)
  BY <1>1
<1>4. ToSet(s) = ToSet(g)
  <2>1. \A k \in 1 .. Len(g) : \E m \in 1 .. Len(g) : s[k] = g[m]
    BY <1>2
  <2>2. \A k \in 1 .. Len(g) : \E m \in 1 .. Len(g) : g[k] = s[m]
    <3> SUFFICES ASSUME NEW k \in 1 .. Len(g) PROVE \E m \in 1 .. Len(g) : g[k] = s[m]
      OBVIOUS
    <3>1. s[j] = g[i] /\ (i # j => s[i] = g[j]) /\ (k # i /\ k # j => s[k] = g[k])
      BY <1>2
    <3> QED
      BY <3>1
  <2>3. ToSet(s) = {s[k] : k \in 1 .. Len(g)} /\ ToSet(g) = {g[k] : k \in 1 .. Len(g)}
    BY <1>3 DEF ToSet
  <2>4. \A e \in ToSet(s) : e \in ToSet(g)
    BY <2>1, <2>3
  <2>5. \A e \in ToSet(g) : e \in ToSet(s)
    BY <2>2, <2>3
  <2> QED
    BY <2>4, <2>5
<1>5. IsInjective(g) => IsInjective(s)
  BY <1>2, <1>3 DEF IsInjective
<1> QED
  BY <1>1, <1>4, <1>5 DEF Rearranged, s

-----------------------------------------------------------------------------
(* _bubbleUp()                                                             *)

\* A heap but for the entry at j, which may be less than its parent.
HeapButAbove(f, g, j) ==
  /\ \A i \in 2 .. Len(g) : i # j => ~Before(f, g[i], g[i \div 2])
  /\ \A i \in 2 .. Len(g) : i \div 2 = j /\ j > 1 => ~Before(f, g[i], g[j \div 2])

\* One round of _bubbleUp().
LEMMA UpKeeps ==
  ASSUME NEW f, Comparable(f), NEW g \in Seq(DOMAIN f), NEW j \in 2 .. Len(g),
         HeapButAbove(f, g, j), Before(f, g[j], g[j \div 2])
  PROVE  HeapButAbove(f, Swapped(g, j, j \div 2), j \div 2)
<1> DEFINE p == j \div 2
           s == Swapped(g, j, p)
<1>1. p \in 1 .. Len(g) /\ p < j /\ p \in Nat /\ p # j /\ j \in 1 .. Len(g)
  BY Parents
<1>2. Len(s) = Len(g) /\ \A k \in 1 .. Len(g) : s[k] = IF k = p THEN g[j] ELSE IF k = j THEN g[p] ELSE g[k]
  <2>1. PICK m : m = p
    OBVIOUS
  <2>2. m \in 1 .. Len(g) /\ j \in 1 .. Len(g)
    BY <1>1, <2>1
  <2>3. Len(Swapped(g, j, m)) = Len(g)
    BY ONLY g \in Seq(DOMAIN f), <2>2, Swap
  <2>4. \A k \in 1 .. Len(g) : Swapped(g, j, m)[k] = IF k = m THEN g[j] ELSE IF k = j THEN g[m] ELSE g[k]
    BY ONLY g \in Seq(DOMAIN f), <2>2 DEF Swapped
  <2> QED
    BY <2>1, <2>3, <2>4
<1>3. \A k \in 1 .. Len(g) : g[k] \in DOMAIN f
  OBVIOUS
<1>4. \A i \in 2 .. Len(g) : i \in 1 .. Len(g) /\ i \div 2 \in 1 .. Len(g) /\ i \div 2 < i /\ i \in Nat /\ i \div 2 # i
  BY Parents
<1> HIDE DEF s
<1>5. s[p] = g[j] /\ s[j] = g[p]
  BY <1>1, <1>2
<1>6. \A k \in 1 .. Len(g) : k # p /\ k # j => s[k] = g[k]
  BY <1>2
<1>7. ASSUME NEW i \in 2 .. Len(g), i # p  PROVE ~Before(f, s[i], s[i \div 2])
  <2>1. CASE i = j
    BY <1>1, <1>3, <1>5, <2>1, Order
  <2>2. CASE i # j /\ i \div 2 = p
    <3>1. s[i] = g[i] /\ ~Before(f, g[i], g[p]) /\ g[i] \in DOMAIN f
      BY <1>3, <1>4, <1>6, <1>7, <2>2 DEF HeapButAbove
    <3>2. ~Before(f, g[p], g[j])
      BY <1>1, <1>3, Order
    <3> QED
      BY <1>1, <1>3, <1>5, <2>2, <3>1, <3>2, Order
  <2>3. CASE i # j /\ i \div 2 = j
    <3>1. s[i] = g[i] /\ ~Before(f, g[i], g[p])
      BY <1>4, <1>6, <1>7, <2>3 DEF HeapButAbove
    <3> QED
      BY <1>5, <2>3, <3>1
  <2>4. CASE i # j /\ i \div 2 # p /\ i \div 2 # j
    BY <1>4, <1>6, <1>7, <2>4 DEF HeapButAbove
  <2> QED
    BY <2>1, <2>2, <2>3, <2>4
<1>8. ASSUME NEW i \in 2 .. Len(g), i \div 2 = p, p > 1  PROVE ~Before(f, s[i], s[p \div 2])
  <2>1. p \in 2 .. Len(g) /\ p \div 2 \in 1 .. Len(g) /\ p \div 2 # p /\ p \div 2 # j
    BY <1>1, <1>4, <1>8
  <2>2. s[p \div 2] = g[p \div 2] /\ ~Before(f, g[p], g[p \div 2])
    BY <1>1, <1>6, <2>1 DEF HeapButAbove
  <2>3. CASE i = j
    BY <1>5, <2>2, <2>3
  <2>4. CASE i # j
    <3>1. s[i] = g[i] /\ ~Before(f, g[i], g[p]) /\ g[i] \in DOMAIN f
      BY <1>3, <1>4, <1>6, <1>8, <2>4 DEF HeapButAbove
    <3> QED
      BY <1>1, <1>3, <2>1, <2>2, <3>1, Order
  <2> QED
    BY <2>3, <2>4
<1> QED
  BY <1>2, <1>7, <1>8 DEF HeapButAbove, s

\* _bubbleUp() makes a heap of the same entries.
LEMMA BubbleUpRight ==
  ASSUME NEW f, Comparable(f), NEW h \in Seq(DOMAIN f), NEW i \in 1 .. Len(h), HeapButAbove(f, h, i)
  PROVE  /\ BubbleUp(f, h, i) \in Seq(DOMAIN f)
         /\ IsHeap(f, BubbleUp(f, h, i))
         /\ Rearranged(BubbleUp(f, h, i), h)
<1> DEFINE D == DOMAIN f
           I == {s \in Seq(D) \X Nat : /\ s[2] \in 1 .. Len(h) /\ Rearranged(s[1], h)
                                       /\ HeapButAbove(f, s[1], s[2])}
           v == [s \in I |-> s[2]]
           step == UpStep(f)
           end == Rounds(step, <<h, i>>, Len(h))
<1>1. Len(h) \in Nat /\ <<h, i>> \in I
  BY DEF Rearranged
<1>2. v \in [I -> Nat] /\ v[<<h, i>>] <= Len(h)
  BY <1>1
<1>3. \A s \in Seq(D) \X Nat :
        step[s] = IF s[2] > 1 /\ Before(f, s[1][s[2]], s[1][s[2] \div 2])
                  THEN <<Swapped(s[1], s[2], s[2] \div 2), s[2] \div 2>> ELSE s
  BY DEF UpStep
<1> HIDE DEF step, v
<1>4. ASSUME NEW s \in I  PROVE step[s] \in I /\ (step[s] = s \/ v[step[s]] < v[s])
  <2> DEFINE g == s[1]
             j == s[2]
  <2>1. s \in Seq(D) \X Nat /\ g \in Seq(D) /\ j \in 1 .. Len(h) /\ j \in Nat /\ Len(g) = Len(h) /\ Rearranged(g, h) /\ HeapButAbove(f, g, j)
    BY DEF Rearranged
  <2>2. CASE ~(j > 1 /\ Before(f, g[j], g[j \div 2]))
    BY <1>3, <2>1, <2>2
  <2>3. CASE j > 1 /\ Before(f, g[j], g[j \div 2])
    <3>1. step[s] = <<Swapped(g, j, j \div 2), j \div 2>>
      BY <1>3, <2>1, <2>3
    <3>2. j \in 2 .. Len(g) /\ j \div 2 \in 1 .. Len(g) /\ j \div 2 < j /\ j \div 2 \in Nat
      BY <1>1, <2>1, <2>3, Parents
    <3> HIDE DEF g, j
    <3>3. Swapped(g, j, j \div 2) \in Seq(D) /\ Rearranged(Swapped(g, j, j \div 2), h)
      BY <2>1, <3>2, Swap, SwapRearranges
    <3>4. HeapButAbove(f, Swapped(g, j, j \div 2), j \div 2)
      BY <2>1, <2>3, <3>2, UpKeeps
    <3>5. step[s] \in I
      BY <2>1, <3>1, <3>2, <3>3, <3>4
    <3>6. v[step[s]] = j \div 2 /\ v[s] = j
      BY <3>1, <3>5 DEF v, j
    <3> QED
      BY <3>2, <3>5, <3>6
  <2> QED
    BY <2>2, <2>3
<1>5. end \in I /\ step[end] = end
  <2> HIDE DEF I
  <2> QED
    BY <1>1, <1>2, <1>4, LoopRule
<1>6. BubbleUp(f, h, i) = end[1]
  BY DEF BubbleUp, step
<1> HIDE DEF end
<1>7. end[1] \in Seq(D) /\ Rearranged(end[1], h) /\ HeapButAbove(f, end[1], end[2]) /\ end \in Seq(D) \X Nat /\ end[2] \in 1 .. Len(end[1])
  BY <1>5 DEF Rearranged
<1>8. ~(end[2] > 1 /\ Before(f, end[1][end[2]], end[1][end[2] \div 2]))
  <2> SUFFICES ASSUME end[2] > 1, Before(f, end[1][end[2]], end[1][end[2] \div 2]) PROVE FALSE
    OBVIOUS
  <2>1. end = <<Swapped(end[1], end[2], end[2] \div 2), end[2] \div 2>>
    BY <1>3, <1>5, <1>7
  <2>2. end[2] = end[2] \div 2
    BY <2>1
  <2> QED
    BY <1>7, <2>2, Parents
<1>9. IsHeap(f, end[1])
  <2> SUFFICES ASSUME NEW k \in 2 .. Len(end[1]) PROVE ~Before(f, end[1][k], end[1][k \div 2])
    BY DEF IsHeap
  <2>1. CASE k = end[2]
    BY <1>8, <2>1
  <2>2. CASE k # end[2]
    BY <1>7, <2>2 DEF HeapButAbove
  <2> QED
    BY <2>1, <2>2
<1> QED
  BY <1>6, <1>7, <1>9

-----------------------------------------------------------------------------
(* _bubbleDown()                                                           *)

\* A heap but for the entry at j, which may be greater than its children.
HeapButBelow(f, g, j) ==
  /\ \A i \in 2 .. Len(g) : i \div 2 # j => ~Before(f, g[i], g[i \div 2])
  /\ \A i \in 2 .. Len(g) : i \div 2 = j /\ j > 1 => ~Before(f, g[i], g[j \div 2])

\* The code's newest is there and none of the three is less.
LEMMA NewestRight ==
  ASSUME NEW f, Comparable(f), NEW g \in Seq(DOMAIN f), NEW j \in 1 .. Len(g)
  PROVE  /\ Newest(f, g, j) \in {j, 2 * j, 2 * j + 1} \cap 1 .. Len(g)
         /\ \A k \in {j, 2 * j, 2 * j + 1} \cap 1 .. Len(g) : ~Before(f, g[k], g[Newest(f, g, j)])
<1> DEFINE T == {j, 2 * j, 2 * j + 1} \cap 1 .. Len(g)
           Q(m) == \A k \in T : ~Before(f, g[k], g[m]) /\ (k < m => Before(f, g[m], g[k]))
<1>1. DOMAIN g = 1 .. Len(g) /\ j \in Nat /\ Len(g) \in Nat
  OBVIOUS
<1>2. \A k \in 1 .. Len(g) : g[k] \in DOMAIN f
  OBVIOUS
<1>3. Newest(f, g, j) = CHOOSE m \in T : Q(m)
  BY <1>1 DEF Newest
<1>4. \E m \in T : Q(m)
  <2> DEFINE a == j
             b == 2 * j
             c == 2 * j + 1
             m1 == IF b <= Len(g) /\ Before(f, g[b], g[a]) THEN b ELSE a
             m2 == IF c <= Len(g) /\ Before(f, g[c], g[m1]) THEN c ELSE m1
  <2>1. a \in T /\ a < b /\ b < c /\ (b \in T <=> b <= Len(g)) /\ (c \in T <=> c <= Len(g)) /\ (c \in T => b \in T)
    BY <1>1
  <2>2. m1 \in T /\ m2 \in T
    BY <2>1
  <2>3. \A k \in T : k = a \/ k = b \/ k = c
    OBVIOUS
  <2>4. \A k \in T : g[k] \in DOMAIN f
    BY <1>2
  <2> HIDE DEF a, b, c, T
  <2>5. ~Before(f, g[a], g[m1]) /\ (b \in T => ~Before(f, g[b], g[m1])) /\ (m1 = b => Before(f, g[b], g[a])) /\ (m1 = a \/ m1 = b)
    <3>1. CASE b <= Len(g) /\ Before(f, g[b], g[a])
      BY <2>1, <2>4, <3>1, Order
    <3>2. CASE ~(b <= Len(g) /\ Before(f, g[b], g[a]))
      <4>1. m1 = a /\ a # b
        BY <1>1, <2>1, <3>2 DEF a, b
      <4> QED
        BY <2>1, <2>4, <3>2, <4>1, Order
    <3> QED
      BY <3>1, <3>2
  <2>6. CASE m2 = m1 /\ ~(c <= Len(g) /\ Before(f, g[c], g[m1]))
    <3>1. a \in Nat /\ b \in Nat /\ c \in Nat
      BY <1>1 DEF a, b, c
    <3>2. ASSUME NEW k \in T PROVE ~Before(f, g[k], g[m1]) /\ (k < m1 => Before(f, g[m1], g[k]))
      <4>1. CASE k = a
        BY <2>1, <2>5, <3>1, <4>1
      <4>2. CASE k = b
        BY <2>1, <2>5, <3>1, <4>2
      <4>3. CASE k = c
        BY <2>1, <2>5, <2>6, <3>1, <4>3
      <4> QED
        BY <2>3, <4>1, <4>2, <4>3
    <3> QED
      BY <2>2, <2>6, <3>2
  <2>7. CASE m2 = c /\ c <= Len(g) /\ Before(f, g[c], g[m1])
    <3>1. c \in T /\ g[c] \in DOMAIN f /\ g[m1] \in DOMAIN f /\ g[a] \in DOMAIN f /\ (b \in T => g[b] \in DOMAIN f)
      BY <2>1, <2>2, <2>4, <2>7
    <3>2. \A x \in DOMAIN f : ~Before(f, x, g[m1]) => Before(f, g[c], x)
      <4> SUFFICES ASSUME NEW x \in DOMAIN f, ~Before(f, x, g[m1]), ~Before(f, g[c], x) PROVE FALSE
        OBVIOUS
      <4> QED
        BY <2>7, <3>1, Order
    <3>3. ASSUME NEW k \in T PROVE ~Before(f, g[k], g[c]) /\ (k < c => Before(f, g[c], g[k]))
      <4>1. CASE k = a
        BY <2>5, <3>1, <3>2, <4>1, Order
      <4>2. CASE k = b
        BY <2>5, <3>1, <3>2, <4>2, Order
      <4>3. CASE k = c
        <5>1. ~(c < c)
          BY <1>1 DEF c
        <5> QED
          BY <3>1, <4>3, <5>1, Order
      <4> QED
        BY <2>3, <4>1, <4>2, <4>3
    <3> QED
      BY <3>1, <3>3
  <2> QED
    BY <2>6, <2>7
<1> HIDE DEF T
<1>5. Newest(f, g, j) \in T /\ Q(Newest(f, g, j))
  BY <1>3, <1>4
<1> QED
  BY <1>5 DEF T

\* One round of _bubbleDown().
LEMMA DownKeeps ==
  ASSUME NEW f, Comparable(f), NEW g \in Seq(DOMAIN f), NEW j \in 1 .. Len(g), HeapButBelow(f, g, j),
         NEW n \in {2 * j, 2 * j + 1} \cap 1 .. Len(g),
         \A k \in {j, 2 * j, 2 * j + 1} \cap 1 .. Len(g) : ~Before(f, g[k], g[n])
  PROVE  HeapButBelow(f, Swapped(g, j, n), n)
<1> DEFINE s == Swapped(g, j, n)
<1>1. n \in 2 .. Len(g) /\ n \div 2 = j /\ j < n /\ n # j /\ j \in Nat /\ n \in Nat /\ Len(g) \in Nat
  BY Parents
<1>2. Len(s) = Len(g) /\ \A k \in 1 .. Len(g) : s[k] = IF k = n THEN g[j] ELSE IF k = j THEN g[n] ELSE g[k]
  BY Swap
<1>3. \A k \in 1 .. Len(g) : g[k] \in DOMAIN f
  OBVIOUS
<1>4. \A i \in 2 .. Len(g) : i \in 1 .. Len(g) /\ i \div 2 \in 1 .. Len(g) /\ i \div 2 < i /\ i \in Nat /\ i \div 2 # i
  BY Parents
<1>5. \A i \in 2 .. Len(g) : i \div 2 = j => i \in {2 * j, 2 * j + 1}
  BY <1>1, Parents
<1> HIDE DEF s
<1>6. s[n] = g[j] /\ s[j] = g[n]
  BY <1>1, <1>2
<1>7. \A k \in 1 .. Len(g) : k # n /\ k # j => s[k] = g[k]
  BY <1>2
<1>8. ASSUME NEW i \in 2 .. Len(g), i \div 2 # n  PROVE ~Before(f, s[i], s[i \div 2])
  <2>1. CASE i = n
    BY <1>1, <1>6, <2>1
  <2>2. CASE i = j
    <3>1. j > 1 /\ j \div 2 \in 1 .. Len(g) /\ j \div 2 # j /\ j \div 2 # n
      BY <1>1, <1>4, <2>2
    <3>2. s[j \div 2] = g[j \div 2] /\ ~Before(f, g[n], g[j \div 2])
      BY <1>1, <1>7, <3>1 DEF HeapButBelow
    <3> QED
      BY <1>6, <2>2, <3>2
  <2>3. CASE i # n /\ i # j /\ i \div 2 = j
    <3>1. s[i] = g[i] /\ i \in {j, 2 * j, 2 * j + 1} \cap 1 .. Len(g)
      BY <1>4, <1>5, <1>7, <2>3
    <3> QED
      BY <1>6, <2>3, <3>1
  <2>4. CASE i # n /\ i # j /\ i \div 2 # j
    <3>1. s[i] = g[i] /\ s[i \div 2] = g[i \div 2]
      BY <1>4, <1>7, <1>8, <2>4
    <3> QED
      BY <2>4, <3>1 DEF HeapButBelow
  <2> QED
    BY <2>1, <2>2, <2>3, <2>4
<1>9. ASSUME NEW i \in 2 .. Len(g), i \div 2 = n, n > 1  PROVE ~Before(f, s[i], s[n \div 2])
  <2>0. i > n /\ i \in 1 .. Len(g) /\ i \div 2 # j
    BY <1>1, <1>4, <1>9
  <2>1. i # n /\ i # j /\ s[i] = g[i] /\ ~Before(f, g[i], g[n])
    BY <1>1, <1>7, <1>9, <2>0 DEF HeapButBelow
  <2> QED
    BY <1>1, <1>6, <2>1
<1> QED
  BY <1>2, <1>8, <1>9 DEF HeapButBelow, s

\* _bubbleDown() makes a heap of the same entries.
LEMMA BubbleDownRight ==
  ASSUME NEW f, Comparable(f), NEW h \in Seq(DOMAIN f), NEW i \in 1 .. Len(h), HeapButBelow(f, h, i)
  PROVE  /\ BubbleDown(f, h, i) \in Seq(DOMAIN f)
         /\ IsHeap(f, BubbleDown(f, h, i))
         /\ Rearranged(BubbleDown(f, h, i), h)
<1> DEFINE D == DOMAIN f
           I == {s \in Seq(D) \X Nat : /\ s[2] \in 1 .. Len(h) /\ Rearranged(s[1], h)
                                       /\ HeapButBelow(f, s[1], s[2])}
           v == [s \in I |-> Len(h) - s[2]]
           step == DownStep(f)
           end == Rounds(step, <<h, i>>, Len(h))
<1>1. Len(h) \in Nat /\ <<h, i>> \in I
  BY DEF Rearranged
<1>2. v \in [I -> Nat] /\ v[<<h, i>>] <= Len(h)
  BY <1>1
<1>3. \A s \in Seq(D) \X Nat :
        step[s] = IF Newest(f, s[1], s[2]) = s[2] THEN s
                  ELSE <<Swapped(s[1], s[2], Newest(f, s[1], s[2])), Newest(f, s[1], s[2])>>
  BY DEF DownStep
<1> HIDE DEF step, v
<1>4. ASSUME NEW s \in I  PROVE step[s] \in I /\ (step[s] = s \/ v[step[s]] < v[s])
  <2> DEFINE g == s[1]
             j == s[2]
             n == Newest(f, g, j)
  <2>1. s \in Seq(D) \X Nat /\ g \in Seq(D) /\ j \in 1 .. Len(h) /\ j \in Nat /\ Len(g) = Len(h) /\ Rearranged(g, h) /\ HeapButBelow(f, g, j)
    BY DEF Rearranged
  <2>2. CASE n = j
    BY <1>3, <2>1, <2>2
  <2>3. CASE n # j
    <3>1. step[s] = <<Swapped(g, j, n), n>>
      BY <1>3, <2>1, <2>3
    <3> HIDE DEF g, j
    <3>2. n \in {j, 2 * j, 2 * j + 1} \cap 1 .. Len(g) /\ \A k \in {j, 2 * j, 2 * j + 1} \cap 1 .. Len(g) : ~Before(f, g[k], g[n])
      BY <2>1, NewestRight
    <3> HIDE DEF n
    <3>3. n \in {2 * j, 2 * j + 1} \cap 1 .. Len(g) /\ n \in 1 .. Len(h) /\ n > j /\ n \in Nat
      BY <2>1, <2>3, <3>2
    <3>4. Swapped(g, j, n) \in Seq(D) /\ Rearranged(Swapped(g, j, n), h)
      BY <2>1, <3>3, Swap, SwapRearranges
    <3>5. HeapButBelow(f, Swapped(g, j, n), n)
      BY <2>1, <3>2, <3>3, DownKeeps
    <3>6. step[s] \in I
      BY <2>1, <3>1, <3>3, <3>4, <3>5
    <3>7. v[step[s]] = Len(h) - n /\ v[s] = Len(h) - j
      BY <3>1, <3>6 DEF v, j
    <3> QED
      BY <1>1, <2>1, <3>3, <3>6, <3>7
  <2> QED
    BY <2>2, <2>3
<1>5. end \in I /\ step[end] = end
  <2> HIDE DEF I
  <2> QED
    BY <1>1, <1>2, <1>4, LoopRule
<1>6. BubbleDown(f, h, i) = end[1]
  BY DEF BubbleDown, step
<1> HIDE DEF end
<1>7. end[1] \in Seq(D) /\ Rearranged(end[1], h) /\ HeapButBelow(f, end[1], end[2]) /\ end \in Seq(D) \X Nat /\ end[2] \in 1 .. Len(end[1])
  BY <1>5 DEF Rearranged
<1>8. Newest(f, end[1], end[2]) = end[2]
  <2> SUFFICES ASSUME Newest(f, end[1], end[2]) # end[2] PROVE FALSE
    OBVIOUS
  <2>1. end = <<Swapped(end[1], end[2], Newest(f, end[1], end[2])), Newest(f, end[1], end[2])>>
    BY <1>3, <1>5, <1>7
  <2> DEFINE n == Newest(f, end[1], end[2])
  <2> HIDE DEF n
  <2>2. end[2] = n
    BY <2>1 DEF n
  <2> QED
    BY <2>2 DEF n
<1>9. IsHeap(f, end[1])
  <2> SUFFICES ASSUME NEW k \in 2 .. Len(end[1]) PROVE ~Before(f, end[1][k], end[1][k \div 2])
    BY DEF IsHeap
  <2>1. CASE k \div 2 = end[2]
    <3>0. k \in Nat /\ k \in 1 .. Len(end[1]) /\ end[2] \in Nat
      BY <1>7
    <3>1. k \in {end[2], 2 * end[2], 2 * end[2] + 1} \cap 1 .. Len(end[1])
      BY <2>1, <3>0, Parents
    <3>2. \A m \in {end[2], 2 * end[2], 2 * end[2] + 1} \cap 1 .. Len(end[1]) :
            ~Before(f, end[1][m], end[1][Newest(f, end[1], end[2])])
      BY <1>7, NewestRight
    <3> QED
      BY <1>8, <2>1, <3>1, <3>2
  <2>2. CASE k \div 2 # end[2]
    BY <1>7, <2>2 DEF HeapButBelow
  <2> QED
    BY <2>1, <2>2
<1> QED
  BY <1>6, <1>7, <1>9

-----------------------------------------------------------------------------
(* The operations of the heap                                              *)

\* add()
LEMMA HeapAddRight ==
  ASSUME NEW f, Comparable(f), NEW h \in Seq(DOMAIN f), IsHeap(f, h), NEW t \in DOMAIN f
  PROVE  /\ HeapAdd(f, h, t) \in Seq(DOMAIN f) /\ IsHeap(f, HeapAdd(f, h, t))
         /\ Len(HeapAdd(f, h, t)) = Len(h) + 1 /\ ToSet(HeapAdd(f, h, t)) = ToSet(h) \cup {t}
         /\ IsInjective(h) /\ t \notin ToSet(h) => IsInjective(HeapAdd(f, h, t))
<1> DEFINE a == Append(h, t)
           n == Len(h)
<1>1. a \in Seq(DOMAIN f) /\ Len(a) = n + 1 /\ n \in Nat /\ n + 1 \in 1 .. Len(a)
  OBVIOUS
<1>2. \A k \in 1 .. n + 1 : a[k] = IF k = n + 1 THEN t ELSE h[k]
  OBVIOUS
<1>3. HeapAdd(f, h, t) = BubbleUp(f, a, n + 1)
  BY DEF HeapAdd
<1> HIDE DEF a, n
<1>4. \A i \in 2 .. n + 1 : i \div 2 \in 1 .. n /\ i \div 2 < i /\ i \in Nat
  BY <1>1, Parents
<1>5. HeapButAbove(f, a, n + 1)
  <2>1. ASSUME NEW i \in 2 .. Len(a), i # n + 1  PROVE ~Before(f, a[i], a[i \div 2])
    <3>1. i \in 2 .. n /\ i \div 2 \in 1 .. n
      BY <1>1, <1>4, <2>1
    <3>2. a[i] = h[i] /\ a[i \div 2] = h[i \div 2]
      BY <1>1, <1>2, <3>1
    <3> QED
      BY <3>1, <3>2 DEF IsHeap, n
  <2>2. ASSUME NEW i \in 2 .. Len(a), i \div 2 = n + 1  PROVE FALSE
    BY <1>1, <1>4, <2>2
  <2> QED
    BY <2>1, <2>2 DEF HeapButAbove
<1>6. BubbleUp(f, a, n + 1) \in Seq(DOMAIN f) /\ IsHeap(f, BubbleUp(f, a, n + 1)) /\ Rearranged(BubbleUp(f, a, n + 1), a)
  BY <1>1, <1>5, BubbleUpRight
<1>7. DOMAIN a = 1 .. n + 1 /\ DOMAIN h = 1 .. n
  BY <1>1 DEF n
<1>8. ToSet(a) = ToSet(h) \cup {t}
  <2>1. ToSet(a) = {a[k] : k \in 1 .. n + 1} /\ ToSet(h) = {h[k] : k \in 1 .. n}
    BY <1>7 DEF ToSet
  <2>2. a[n + 1] = t /\ \A k \in 1 .. n : a[k] = h[k] /\ k \in 1 .. n + 1
    BY <1>1, <1>2
  <2>3. \A k \in 1 .. n + 1 : k = n + 1 \/ k \in 1 .. n
    BY <1>1
  <2>4. \A e \in ToSet(a) : e \in ToSet(h) \cup {t}
    BY <2>1, <2>2, <2>3
  <2>5. \A e \in ToSet(h) \cup {t} : e \in ToSet(a)
    BY <1>1, <2>1, <2>2
  <2> QED
    BY <2>4, <2>5
<1>9. IsInjective(h) /\ t \notin ToSet(h) => IsInjective(a)
  <2> SUFFICES ASSUME IsInjective(h), t \notin ToSet(h), NEW k \in 1 .. n + 1, NEW m \in 1 .. n + 1, a[k] = a[m] PROVE k = m
    BY <1>7 DEF IsInjective
  <2>1. \A j \in 1 .. n : h[j] # t
    BY <1>7 DEF ToSet
  <2>2. (k = n + 1 \/ k \in 1 .. n) /\ (m = n + 1 \/ m \in 1 .. n)
    BY <1>1
  <2> QED
    BY <1>2, <1>7, <2>1, <2>2 DEF IsInjective
<1> QED
  BY <1>1, <1>3, <1>6, <1>8, <1>9 DEF Rearranged, n

\* remove(): the gap is filled in either direction.
LEMMA HeapRemoveRight ==
  ASSUME NEW f, Comparable(f), NEW h \in Seq(DOMAIN f), IsHeap(f, h), IsInjective(h), NEW t \in ToSet(h)
  PROVE  /\ HeapRemove(f, h, t) \in Seq(DOMAIN f) /\ IsHeap(f, HeapRemove(f, h, t))
         /\ Len(HeapRemove(f, h, t)) = Len(h) - 1 /\ ToSet(HeapRemove(f, h, t)) = ToSet(h) \ {t}
         /\ IsInjective(HeapRemove(f, h, t))
<1> DEFINE n == Len(h)
           i == CHOOSE j \in DOMAIN h : h[j] = t
           last == h[n]
           rest == Front(h)
           gap == [rest EXCEPT ![i] = last]
<1>1. DOMAIN h = 1 .. n /\ n \in Nat /\ i \in 1 .. n /\ h[i] = t /\ n \in 1 .. n
  BY DEF ToSet
<1>2. \A k \in 1 .. n : h[k] \in DOMAIN f
  OBVIOUS
<1>3. rest \in Seq(DOMAIN f) /\ Len(rest) = n - 1 /\ (\A k \in 1 .. n - 1 : rest[k] = h[k])
  BY <1>1 DEF Front
<1>4. HeapRemove(f, h, t) = IF last = t THEN rest
                            ELSE IF Before(f, last, t) THEN BubbleUp(f, gap, i) ELSE BubbleDown(f, gap, i)
  BY DEF HeapRemove
<1> HIDE DEF n, i, rest
<1>5. \A k \in 2 .. n : k \div 2 \in 1 .. n /\ k \div 2 < k /\ k \in Nat /\ k \div 2 # k /\ k \in 1 .. n
  BY <1>1, Parents
<1>6. \A k \in 2 .. n : ~Before(f, h[k], h[k \div 2])
  BY DEF IsHeap, n
<1>7. \A k, m \in 1 .. n : h[k] = h[m] => k = m
  BY <1>1 DEF IsInjective
<1>8. ToSet(h) = {h[k] : k \in 1 .. n}
  BY <1>1 DEF ToSet
\* The entries after the removal, in whatever order.
<1>9. ASSUME NEW g \in Seq(DOMAIN f), Len(g) = n - 1,
             \A k \in 1 .. n - 1 : g[k] = IF k = i THEN h[n] ELSE h[k]
      PROVE  ToSet(g) = ToSet(h) \ {t} /\ IsInjective(g)
  <2>1. DOMAIN g = 1 .. n - 1
    BY <1>1, <1>9
  <2>2. ToSet(g) = {g[k] : k \in 1 .. n - 1}
    BY <2>1 DEF ToSet
  <2>3. \A k \in 1 .. n - 1 : k \in 1 .. n /\ k # n
    BY <1>1
  <2>4. ASSUME NEW k \in 1 .. n - 1  PROVE g[k] \in ToSet(h) /\ g[k] # t
    <3>1. CASE k = i
      BY <1>1, <1>7, <1>8, <1>9, <2>3, <3>1
    <3>2. CASE k # i
      BY <1>1, <1>7, <1>8, <1>9, <2>3, <3>2
    <3> QED
      BY <3>1, <3>2
  <2>5. ASSUME NEW k \in 1 .. n, h[k] # t  PROVE \E m \in 1 .. n - 1 : h[k] = g[m]
    <3>1. CASE k = n
      <4>1. i \in 1 .. n - 1
        BY <1>1, <2>5, <3>1
      <4> QED
        BY <1>9, <3>1, <4>1
    <3>2. CASE k # n
      <4>1. k \in 1 .. n - 1 /\ k # i
        BY <1>1, <2>5, <3>2
      <4> QED
        BY <1>9, <4>1
    <3> QED
      BY <3>1, <3>2
  <2>6. ToSet(g) = ToSet(h) \ {t}
    <3>1. \A e \in ToSet(g) : e \in ToSet(h) \ {t}
      BY <2>2, <2>4
    <3>2. \A e \in ToSet(h) \ {t} : e \in ToSet(g)
      BY <1>8, <2>2, <2>5
    <3> QED
      BY <3>1, <3>2
  <2>7. \A k, m \in 1 .. n - 1 : g[k] = g[m] => k = m
    BY <1>1, <1>7, <1>9, <2>3
  <2> QED
    BY <2>1, <2>6, <2>7 DEF IsInjective
<1>10. CASE last = t
  <2>1. i = n
    BY <1>1, <1>7, <1>10
  <2>2. \A k \in 1 .. n - 1 : rest[k] = IF k = i THEN h[n] ELSE h[k]
    BY <1>1, <1>3, <2>1
  <2>3. IsHeap(f, rest)
    <3> SUFFICES ASSUME NEW k \in 2 .. n - 1 PROVE ~Before(f, rest[k], rest[k \div 2])
      BY <1>3 DEF IsHeap
    <3>1. k \in 2 .. n /\ k \in 1 .. n - 1 /\ k \div 2 \in 1 .. n - 1
      BY <1>1, <1>5
    <3> QED
      BY <1>3, <1>6, <3>1
  <2>4. ToSet(rest) = ToSet(h) \ {t} /\ IsInjective(rest)
    BY <1>3, <1>9, <2>2
  <2>5. HeapRemove(f, h, t) = rest
    BY <1>4, <1>10
  <2> QED
    BY <1>3, <2>3, <2>4, <2>5 DEF n
<1>11. CASE last # t
  <2>1. i \in 1 .. n - 1 /\ i # n /\ i \in Nat
    BY <1>1, <1>11
  <2>2. gap \in Seq(DOMAIN f) /\ Len(gap) = n - 1 /\ (\A k \in 1 .. n - 1 : gap[k] = IF k = i THEN h[n] ELSE h[k])
    BY <1>1, <1>2, <1>3, <2>1
  <2> HIDE DEF gap
  <2>3. ToSet(gap) = ToSet(h) \ {t} /\ IsInjective(gap)
    BY <1>9, <2>2
  <2>4. gap[i] = last /\ \A k \in 1 .. n - 1 : k # i => gap[k] = h[k]
    BY <2>1, <2>2
  <2>5. \A k \in 2 .. n - 1 : k \in 2 .. n /\ k \in 1 .. n - 1 /\ k \div 2 \in 1 .. n - 1
    BY <1>1, <1>5
  <2>6. \A k \in 2 .. n - 1 : k # i /\ k \div 2 # i => ~Before(f, gap[k], gap[k \div 2])
    BY <1>6, <2>4, <2>5
  <2>7. \A k \in 2 .. n - 1 : k \div 2 = i /\ i > 1 => ~Before(f, gap[k], gap[i \div 2])
    <3> SUFFICES ASSUME NEW k \in 2 .. n - 1, k \div 2 = i, i > 1 PROVE ~Before(f, gap[k], gap[i \div 2])
      OBVIOUS
    <3>1. i \in 2 .. n - 1 /\ i \div 2 # i /\ i \div 2 \in 1 .. n - 1 /\ k # i /\ i \in 1 .. n /\ k \in 1 .. n /\ i \div 2 \in 1 .. n
      BY <1>1, <1>5, <2>1, <2>5
    <3>2. gap[k] = h[k] /\ gap[i \div 2] = h[i \div 2]
      BY <2>4, <2>5, <3>1
    <3>3. ~Before(f, h[k], h[i]) /\ ~Before(f, h[i], h[i \div 2])
      BY <1>6, <2>5, <3>1
    <3> QED
      BY <1>2, <3>1, <3>2, <3>3, Order
  <2>8. \A k \in 2 .. n - 1 : k \div 2 = i => gap[k] = h[k] /\ ~Before(f, gap[k], t) /\ gap[k] \in DOMAIN f
    BY <1>1, <1>2, <1>5, <1>6, <2>4, <2>5
  <2>9. t \in DOMAIN f /\ last \in DOMAIN f
    BY <1>1, <1>2
  <2> HIDE DEF last
  <2>10. CASE Before(f, last, t)
    <3>1. HeapButAbove(f, gap, i)
      <4>1. ASSUME NEW k \in 2 .. n - 1, k # i, k \div 2 = i PROVE ~Before(f, gap[k], gap[k \div 2])
        <5>1. ~Before(f, gap[k], t) /\ ~Before(f, t, last) /\ gap[k] \in DOMAIN f /\ gap[k \div 2] = last
          BY <2>4, <2>8, <2>9, <2>10, <4>1, Order
        <5> QED
          BY <2>9, <5>1, Order
      <4> QED
        BY <2>2, <2>6, <2>7, <4>1 DEF HeapButAbove
    <3>2. HeapRemove(f, h, t) = BubbleUp(f, gap, i)
      BY <1>4, <1>11, <2>10 DEF gap
    <3>3. BubbleUp(f, gap, i) \in Seq(DOMAIN f) /\ IsHeap(f, BubbleUp(f, gap, i)) /\ Rearranged(BubbleUp(f, gap, i), gap)
      BY <2>1, <2>2, <3>1, BubbleUpRight
    <3> QED
      BY <2>2, <2>3, <3>2, <3>3 DEF Rearranged, n
  <2>11. CASE ~Before(f, last, t)
    <3>1. HeapButBelow(f, gap, i)
      <4>1. ASSUME NEW k \in 2 .. n - 1, k = i, k \div 2 # i PROVE ~Before(f, gap[k], gap[k \div 2])
        <5>1. k \div 2 \in 1 .. n - 1 /\ k \div 2 \in 1 .. n /\ k \in 2 .. n
          BY <1>1, <2>5, <4>1
        <5>2. gap[k] = last /\ gap[k \div 2] = h[k \div 2] /\ ~Before(f, t, h[k \div 2]) /\ h[k \div 2] \in DOMAIN f
          BY <1>1, <1>2, <1>6, <2>4, <4>1, <5>1
        <5> QED
          BY <2>9, <2>11, <5>2, Order
      <4> QED
        BY <2>2, <2>6, <2>7, <4>1 DEF HeapButBelow
    <3>2. HeapRemove(f, h, t) = BubbleDown(f, gap, i)
      BY <1>4, <1>11, <2>11 DEF gap
    <3>3. BubbleDown(f, gap, i) \in Seq(DOMAIN f) /\ IsHeap(f, BubbleDown(f, gap, i)) /\ Rearranged(BubbleDown(f, gap, i), gap)
      BY <2>1, <2>2, <3>1, BubbleDownRight
    <3> QED
      BY <2>2, <2>3, <3>2, <3>3 DEF Rearranged, n
  <2> QED
    BY <2>10, <2>11
<1> QED
  BY <1>10, <1>11

\* The first entry of a heap is least.
LEMMA FirstIsLeast ==
  ASSUME NEW f, Comparable(f), NEW h \in Seq(DOMAIN f), IsHeap(f, h)
  PROVE  \A t \in ToSet(h) : ~Before(f, t, h[1])
<1> DEFINE T == {k \in 1 .. Len(h) : Before(f, h[k], h[1])}
<1>1. DOMAIN h = 1 .. Len(h) /\ Len(h) \in Nat /\ \A k \in 1 .. Len(h) : h[k] \in DOMAIN f
  OBVIOUS
<1>2. T = {}
  <2> SUFFICES ASSUME T # {} PROVE FALSE
    OBVIOUS
  <2>1. T \in SUBSET Nat
    OBVIOUS
  <2>2. PICK k \in T : \A m \in T : k <= m
    BY <2>1, LeastNat
  <2>3. k \in 1 .. Len(h) /\ Before(f, h[k], h[1]) /\ 1 \in 1 .. Len(h) /\ k \in Nat
    BY <1>1, <2>2
  <2>4. k # 1
    BY <1>1, <2>3, Order
  <2>5. k \in 2 .. Len(h) /\ k \div 2 \in 1 .. Len(h) /\ k \div 2 < k /\ k \div 2 \in Nat
    BY <1>1, <2>3, <2>4, Parents
  <2>6. k \div 2 \notin T
    BY <2>2, <2>3, <2>5
  <2>7. ~Before(f, h[k \div 2], h[1]) /\ ~Before(f, h[k], h[k \div 2])
    BY <2>5, <2>6 DEF IsHeap
  <2> QED
    BY <1>1, <2>3, <2>5, <2>7, Order
<1> QED
  BY <1>1, <1>2 DEF ToSet

\* What is popped, and what is left.
PopInv(f, h, due, g, b) ==
  /\ IsHeap(f, g) /\ IsInjective(g) /\ IsInjective(b)
  /\ ToSet(g) \cap ToSet(b) = {} /\ ToSet(g) \cup ToSet(b) = ToSet(h)
  /\ ToSet(b) \subseteq due
  /\ \A i, j \in 1 .. Len(b) : i < j => ~Before(f, b[j], b[i])
  /\ \A x \in ToSet(g), y \in ToSet(b) : ~Before(f, x, y)
  /\ Len(g) + Len(b) = Len(h)

\* One removeFirst().
LEMMA PopKeeps ==
  ASSUME NEW f, Comparable(f), NEW h, NEW due, NEW g \in Seq(DOMAIN f), NEW b \in Seq(DOMAIN f),
         PopInv(f, h, due, g, b), g # <<>>, g[1] \in due
  PROVE  /\ HeapRemove(f, g, g[1]) \in Seq(DOMAIN f) /\ Append(b, g[1]) \in Seq(DOMAIN f)
         /\ Len(HeapRemove(f, g, g[1])) = Len(g) - 1
         /\ PopInv(f, h, due, HeapRemove(f, g, g[1]), Append(b, g[1]))
<1> DEFINE t == g[1]
           r == HeapRemove(f, g, t)
           c == Append(b, t)
<1>1. DOMAIN g = 1 .. Len(g) /\ 1 \in DOMAIN g /\ t \in DOMAIN f /\ Len(g) \in Nat
  OBVIOUS
<1>2. t \in ToSet(g)
  BY <1>1 DEF ToSet
<1>3. r \in Seq(DOMAIN f) /\ IsHeap(f, r) /\ Len(r) = Len(g) - 1 /\ ToSet(r) = ToSet(g) \ {t} /\ IsInjective(r)
  BY <1>2, HeapRemoveRight DEF PopInv
<1>4. \A x \in ToSet(g) : ~Before(f, x, t)
  BY FirstIsLeast DEF PopInv
<1> HIDE DEF t, r
<1>5. c \in Seq(DOMAIN f) /\ Len(c) = Len(b) + 1 /\ Len(b) \in Nat /\ (\A k \in 1 .. Len(b) + 1 : c[k] = IF k = Len(b) + 1 THEN t ELSE b[k])
  BY <1>1
<1> HIDE DEF c
<1>6. DOMAIN b = 1 .. Len(b) /\ DOMAIN c = 1 .. Len(b) + 1
  BY <1>5
<1>7. ToSet(b) = {b[k] : k \in 1 .. Len(b)} /\ ToSet(c) = {c[k] : k \in 1 .. Len(b) + 1}
  BY <1>6 DEF ToSet
<1>8. \A k \in 1 .. Len(b) + 1 : k = Len(b) + 1 \/ k \in 1 .. Len(b)
  BY <1>5
<1>9. c[Len(b) + 1] = t /\ (\A k \in 1 .. Len(b) : c[k] = b[k] /\ k \in 1 .. Len(b) + 1) /\ Len(b) + 1 \in 1 .. Len(b) + 1
  BY <1>5
<1>10. ToSet(c) = ToSet(b) \cup {t}
  <2>1. \A e \in ToSet(c) : e \in ToSet(b) \cup {t}
    BY <1>7, <1>8, <1>9
  <2>2. \A e \in ToSet(b) \cup {t} : e \in ToSet(c)
    BY <1>7, <1>9
  <2> QED
    BY <2>1, <2>2
<1>11. t \notin ToSet(b) /\ \A k \in 1 .. Len(b) : b[k] \in ToSet(b) /\ b[k] # t
  BY <1>2, <1>7 DEF PopInv
<1>12. IsInjective(c)
  <2> SUFFICES ASSUME NEW k \in 1 .. Len(b) + 1, NEW m \in 1 .. Len(b) + 1, c[k] = c[m] PROVE k = m
    BY <1>6 DEF IsInjective
  <2> QED
    BY <1>6, <1>8, <1>9, <1>11 DEF IsInjective, PopInv
<1>13. ASSUME NEW i \in 1 .. Len(c), NEW j \in 1 .. Len(c), i < j  PROVE ~Before(f, c[j], c[i])
  <2>1. i \in 1 .. Len(b) /\ c[i] = b[i] /\ b[i] \in ToSet(b)
    BY <1>5, <1>8, <1>9, <1>11, <1>13
  <2>2. CASE j = Len(b) + 1
    BY <1>2, <1>9, <2>1, <2>2 DEF PopInv
  <2>3. CASE j \in 1 .. Len(b)
    BY <1>9, <1>13, <2>1, <2>3 DEF PopInv
  <2> QED
    BY <1>5, <1>8, <2>2, <2>3
<1>14. ASSUME NEW x \in ToSet(r), NEW y \in ToSet(c)  PROVE ~Before(f, x, y)
  BY <1>3, <1>4, <1>10 DEF PopInv
<1>15. ToSet(r) \cap ToSet(c) = {} /\ ToSet(r) \cup ToSet(c) = ToSet(h) /\ ToSet(c) \subseteq due
  BY <1>2, <1>3, <1>10, <1>11 DEF PopInv, t
<1>16. Len(r) + Len(c) = Len(h)
  <2>1. Len(g) + Len(b) = Len(h)
    BY DEF PopInv
  <2> QED
    BY ONLY <1>1, <1>3, <1>5, <2>1
<1> QED
  BY <1>3, <1>5, <1>12, <1>13, <1>14, <1>15, <1>16 DEF PopInv, r, c, t

\* The batch is in order, nothing that is left precedes it, and the first that is left
\* is not due.
LEMMA PoppedRight ==
  ASSUME NEW f, Comparable(f), NEW h \in Seq(DOMAIN f), IsHeap(f, h), IsInjective(h), NEW due
  PROVE  /\ Popped(f, h, due).heap \in Seq(DOMAIN f) /\ Popped(f, h, due).batch \in Seq(DOMAIN f)
         /\ PopInv(f, h, due, Popped(f, h, due).heap, Popped(f, h, due).batch)
         /\ Popped(f, h, due).heap # <<>> => Popped(f, h, due).heap[1] \notin due
<1> DEFINE D == DOMAIN f
           I == {s \in Seq(D) \X Seq(D) : PopInv(f, h, due, s[1], s[2])}
           v == [s \in I |-> Len(s[1])]
           step == PopStep(f, due)
           end == Rounds(step, <<h, <<>>>>, Len(h))
<1>1. Len(h) \in Nat /\ <<h, <<>>>> \in I
  <2>1. <<>> \in Seq(D) /\ Len(<<>>) = 0 /\ ToSet(<<>>) = {} /\ IsInjective(<<>>)
    BY DEF ToSet, IsInjective
  <2>2. PopInv(f, h, due, h, <<>>)
    BY <2>1 DEF PopInv
  <2> HIDE DEF D
  <2>3. PICK e : e = <<>>
    OBVIOUS
  <2>4. <<h, e>> \in I
    BY <2>1, <2>2, <2>3 DEF D
  <2> QED
    BY <2>3, <2>4
<1>2. v \in [I -> Nat] /\ v[<<h, <<>>>>] <= Len(h)
  BY <1>1
<1>3. \A s \in Seq(D) \X Seq(D) :
        step[s] = IF s[1] # <<>> /\ s[1][1] \in due
                  THEN <<HeapRemove(f, s[1], s[1][1]), Append(s[2], s[1][1])>> ELSE s
  BY DEF PopStep
<1> HIDE DEF step, v
<1>4. ASSUME NEW s \in I  PROVE step[s] \in I /\ (step[s] = s \/ v[step[s]] < v[s])
  <2>1. s \in Seq(D) \X Seq(D) /\ s[1] \in Seq(D) /\ s[2] \in Seq(D) /\ PopInv(f, h, due, s[1], s[2])
    OBVIOUS
  <2>2. CASE ~(s[1] # <<>> /\ s[1][1] \in due)
    BY <1>3, <2>1, <2>2
  <2>3. CASE s[1] # <<>> /\ s[1][1] \in due
    <3>1. step[s] = <<HeapRemove(f, s[1], s[1][1]), Append(s[2], s[1][1])>>
      BY <1>3, <2>1, <2>3
    <3> DEFINE g == s[1]
               b == s[2]
               r == HeapRemove(f, g, g[1])
               c == Append(b, g[1])
    <3>2. r \in Seq(D) /\ c \in Seq(D) /\ Len(r) = Len(g) - 1 /\ PopInv(f, h, due, r, c)
      <4> HIDE DEF g, b
      <4>1. g \in Seq(D) /\ b \in Seq(D) /\ PopInv(f, h, due, g, b) /\ g # <<>> /\ g[1] \in due
        BY <2>1, <2>3 DEF g, b
      <4> QED
        BY <4>1, PopKeeps
    <3> HIDE DEF r, c
    <3>3. step[s] = <<r, c>>
      BY <3>1 DEF r, c
    <3>4. step[s] \in I
      BY <3>2, <3>3
    <3>5. v[step[s]] = Len(r) /\ v[s] = Len(g) /\ Len(g) \in Nat
      BY <2>1, <3>3, <3>4 DEF v
    <3> QED
      BY <3>2, <3>4, <3>5
  <2> QED
    BY <2>2, <2>3
<1>5. end \in I /\ step[end] = end
  <2> HIDE DEF I
  <2> QED
    BY <1>1, <1>2, <1>4, LoopRule
<1>6. Popped(f, h, due).heap = end[1] /\ Popped(f, h, due).batch = end[2]
  BY DEF Popped, step
<1> HIDE DEF end
<1>7. end \in Seq(D) \X Seq(D) /\ end[1] \in Seq(D) /\ end[2] \in Seq(D) /\ PopInv(f, h, due, end[1], end[2])
  BY <1>5
<1>8. end[1] # <<>> => end[1][1] \notin due
  <2> SUFFICES ASSUME end[1] # <<>>, end[1][1] \in due PROVE FALSE
    OBVIOUS
  <2>1. end = <<HeapRemove(f, end[1], end[1][1]), Append(end[2], end[1][1])>>
    BY <1>3, <1>5, <1>7
  <2>2. end[1] = HeapRemove(f, end[1], end[1][1])
    BY <2>1
  <2>3. Len(HeapRemove(f, end[1], end[1][1])) = Len(end[1]) - 1
    <3>1. PICK g, b : g = end[1] /\ b = end[2]
      OBVIOUS
    <3>2. g \in Seq(D) /\ b \in Seq(D) /\ PopInv(f, h, due, g, b) /\ g # <<>> /\ g[1] \in due
      BY <1>7, <3>1
    <3>3. Len(HeapRemove(f, g, g[1])) = Len(g) - 1
      BY <3>2, PopKeeps
    <3> QED
      BY <3>1, <3>3
  <2>4. Len(end[1]) \in Nat
    BY <1>7
  <2> QED
    BY <2>2, <2>3, <2>4
<1> QED
  BY <1>6, <1>7, <1>8

-----------------------------------------------------------------------------
(* The heaps of up to six timers                                           *)

\* The samples are ordered as their numbers are.
LEMMA SamplesOrdered ==
  /\ DOMAIN Samples = 1 .. 6 /\ Comparable(Samples)
  /\ \A a, b \in 1 .. 6 : Before(Samples, a, b) <=> a < b
<1>1. DOMAIN Samples = 1 .. 6 /\ \A t \in 1 .. 6 : Samples[t].wakeup = (t + 1) \div 2 /\ Samples[t].id = t
  BY DEF Samples
<1>2. Comparable(Samples)
  BY <1>1 DEF Comparable
<1>3. \A a, b \in 1 .. 6 : Before(Samples, a, b) <=> a < b
  <2> SUFFICES ASSUME NEW a \in 1 .. 6, NEW b \in 1 .. 6 PROVE Before(Samples, a, b) <=> a < b
    OBVIOUS
  <2>1. Before(Samples, a, b) <=>
          (a + 1) \div 2 < (b + 1) \div 2 \/ ((a + 1) \div 2 = (b + 1) \div 2 /\ a < b)
    BY <1>1 DEF Before
  <2>2. a \in Int /\ b \in Int
    OBVIOUS
  <2> QED
    BY <2>1, <2>2
<1> QED
  BY <1>1, <1>2, <1>3

\* Every operation on them is right.
THEOREM HeapOperationsAreCorrect == HeapOperationsCorrect
<1> SUFFICES ASSUME NEW h \in SampleHeaps
             PROVE /\ \A t \in DOMAIN Samples \ ToSet(h) :
                        LET g == HeapAdd(Samples, h, t)
                        IN  IsHeap(Samples, g) /\ ToSet(g) = ToSet(h) \cup {t} /\ Len(g) = Len(h) + 1
                   /\ \A t \in ToSet(h) :
                        LET g == HeapRemove(Samples, h, t)
                        IN  IsHeap(Samples, g) /\ ToSet(g) = ToSet(h) \ {t} /\ Len(g) = Len(h) - 1
                   /\ \A n \in DOMAIN Samples :
                        LET b == Popped(Samples, h, 1 .. n).batch
                        IN  ToSet(b) = ToSet(h) \cap 1 .. n /\ \A i, j \in DOMAIN b : i < j => b[i] < b[j]
  BY DEF HeapOperationsCorrect
<1> DEFINE D == DOMAIN Samples
<1>1. h \in Seq(D) /\ IsInjective(h) /\ IsHeap(Samples, h)
  <2>1. PICK n \in 0 .. 6 : h \in [1 .. n -> D]
    BY DEF SampleHeaps
  <2> HIDE DEF D
  <2>2. h \in Seq(D)
    BY <2>1
  <2> QED
    BY <2>2 DEF SampleHeaps
<1>2. Comparable(Samples) /\ D = 1 .. 6
  BY SamplesOrdered
<1>3. ASSUME NEW n \in D
      PROVE  LET b == Popped(Samples, h, 1 .. n).batch
             IN  ToSet(b) = ToSet(h) \cap 1 .. n /\ \A i, j \in DOMAIN b : i < j => b[i] < b[j]
  <2>1. PICK g, b : g = Popped(Samples, h, 1 .. n).heap /\ b = Popped(Samples, h, 1 .. n).batch
    OBVIOUS
  <2>2. g \in Seq(D) /\ b \in Seq(D) /\ PopInv(Samples, h, 1 .. n, g, b) /\ (g # <<>> => g[1] \notin 1 .. n)
    BY <1>1, <1>2, <2>1, PoppedRight
  <2>3. ToSet(g) \cap 1 .. n = {}
    <3> SUFFICES ASSUME NEW t \in ToSet(g), t \in 1 .. n PROVE FALSE
      OBVIOUS
    <3>1. g # <<>> /\ g[1] \in 1 .. 6 /\ t \in 1 .. 6
      BY <1>2, <2>2 DEF ToSet
    <3>2. ~Before(Samples, t, g[1])
      BY <1>2, <2>2, FirstIsLeast DEF PopInv
    <3>3. ~(t < g[1])
      BY <3>1, <3>2, SamplesOrdered
    <3>4. g[1] \in 1 .. n
      BY ONLY <1>2, <3>1, <3>3, n \in D, t \in 1 .. n
    <3> QED
      BY <2>2, <3>1, <3>4
  <2>4. ToSet(b) = ToSet(h) \cap 1 .. n
    BY <2>2, <2>3 DEF PopInv
  <2>5. ASSUME NEW i \in DOMAIN b, NEW j \in DOMAIN b, i < j  PROVE b[i] < b[j]
    <3>1. DOMAIN b = 1 .. Len(b) /\ b[i] \in 1 .. 6 /\ b[j] \in 1 .. 6
      BY <1>2, <2>2
    <3>2. ~Before(Samples, b[j], b[i])
      BY <2>2, <2>5, <3>1 DEF PopInv
    <3>3. ~(b[j] < b[i])
      BY <3>1, <3>2, SamplesOrdered
    <3>4. b[i] # b[j]
      BY <2>2, <2>5, <3>1 DEF PopInv, IsInjective
    <3> QED
      BY <3>1, <3>3, <3>4
  <2> QED
    BY <2>1, <2>4, <2>5
<1>4. ASSUME NEW t \in D
      PROVE  /\ IsHeap(Samples, HeapAdd(Samples, h, t)) /\ ToSet(HeapAdd(Samples, h, t)) = ToSet(h) \cup {t}
             /\ Len(HeapAdd(Samples, h, t)) = Len(h) + 1
  <2>1. PICK f : f = Samples
    OBVIOUS
  <2>2. Comparable(f) /\ h \in Seq(DOMAIN f) /\ IsHeap(f, h) /\ t \in DOMAIN f
    BY <1>1, <1>2, <2>1
  <2>3. IsHeap(f, HeapAdd(f, h, t)) /\ ToSet(HeapAdd(f, h, t)) = ToSet(h) \cup {t} /\ Len(HeapAdd(f, h, t)) = Len(h) + 1
    BY ONLY <2>2, HeapAddRight
  <2> QED
    BY <2>1, <2>3
<1>5. ASSUME NEW t \in ToSet(h)
      PROVE  /\ IsHeap(Samples, HeapRemove(Samples, h, t)) /\ ToSet(HeapRemove(Samples, h, t)) = ToSet(h) \ {t}
             /\ Len(HeapRemove(Samples, h, t)) = Len(h) - 1
  BY <1>1, <1>2, HeapRemoveRight
<1> QED
  BY <1>3, <1>4, <1>5
-----------------------------------------------------------------------------
(* The invariants                                                          *)

Events == {"ZERO_EVENT", "TIMEOUT_EVENT"}
Fields == [active : BOOLEAN, ms : Nat, repeating : BOOLEAN, id : Nat, wakeup : Nat]

\* h, z and b are queues of timers with the fields f: no timer is in two places, none in
\* a queue is the one that runs, r, and the time of a zero timer has come.
Queues(f, h, z, b, r, time) ==
  /\ f \in [DOMAIN f -> Fields] /\ DOMAIN f \subseteq Timers
  /\ h \in Seq(DOMAIN f) /\ IsInjective(h) /\ IsHeap(f, h)
  /\ z \in Seq(DOMAIN f) /\ IsInjective(z)
  /\ b \in Seq(DOMAIN f) /\ IsInjective(b)
  /\ ToSet(h) \cap ToSet(z) = {} /\ ToSet(h) \cap ToSet(b) = {} /\ ToSet(z) \cap ToSet(b) = {}
  /\ r \notin ToSet(h) \cup ToSet(z) \cup ToSet(b)
  /\ \A t \in ToSet(z) : f[t].wakeup <= time

ZeroEvents(q) == {i \in DOMAIN q : q[i][2] = "ZERO_EVENT"}

\* As many zero events in q as zero timers in z, all for port p.
Matching(q, p, z) ==
  Cardinality(ZeroEvents(q)) = Len(z) /\ \A i \in ZeroEvents(q) : q[i][1] = p

TypeInv ==
  /\ idCount \in Nat /\ now \in Nat
  /\ port \in Ports \cup {None} /\ scheduledWakeupTime \in Nat \cup {NoTime}
  /\ phase \in {"idle", "next", "callback", "microtasks", "dead"}
  /\ queue \in Seq(Ports \X Events)
  /\ pipe \in Seq(Ports \X (Nat \cup {NO_TIMER}))
  /\ timeouts_ \in Seq(Ports \X Nat) /\ timer_fd_ \in Nat \cup {NoTime}
  /\ phase \in {"idle", "dead"} => pendingTimers = <<>>
  /\ phase # "callback" => running = None

TimersInv ==
  /\ TypeInv
  /\ Queues(timer, heap, zeroTimers, pendingTimers, running, now)
  /\ Matching(queue, port, zeroTimers)

\* p has a message in the pipe; p has a timeout.
InPipe(p) == \E i \in DOMAIN pipe : pipe[i][1] = p
Waits(p) == \E i \in DOMAIN timeouts_ : timeouts_[i][1] = p

\* A queue with one timeout of each port.
OneEach(q) == \A i, j \in DOMAIN q : q[i][1] = q[j][1] => i = j

\* The event handler has one timeout of a port.  Messages of the isolate's earlier ports
\* come before those of its port, which has no timeout before they are read; and the last
\* word of each earlier port is that it waits for nothing.
PipeInv ==
  /\ OneEach(timeouts_)
  /\ \A i, j \in DOMAIN pipe : pipe[i][1] # port /\ pipe[j][1] = port => i < j
  /\ Waits(port) => \A i \in DOMAIN pipe : pipe[i][1] = port
  /\ \A p \in Ports \ {port} : InPipe(p) \/ Waits(p) => LastWord(p, NO_TIMER)

\* p is woken at this time or before, or has been.
Known(p, time) ==
  Contains(queue, <<p, "TIMEOUT_EVENT">>) \/ LastWord(p, time) \/ ActedOn(p, time)

\* The time that the isolate asked for last is known.
AskedInv == scheduledWakeupTime # NoTime => port # None /\ Known(port, scheduledWakeupTime)

\* Outside _runTimers() it is that of the first timer of the heap.
FirstInv == phase = "idle" /\ heap # <<>> => scheduledWakeupTime = timer[heap[1]].wakeup

\* As long as the isolate lives: nobody tells the event handler that it has ended.
WakeInv == phase # "dead" => PipeInv /\ AskedInv /\ FirstInv

-----------------------------------------------------------------------------
(* The queues of timers                                                    *)

\* A sequence and what is appended to it.
LEMMA Appended ==
  ASSUME NEW D, NEW s \in Seq(D), NEW e \in D
  PROVE  /\ Append(s, e) \in Seq(D) /\ Len(Append(s, e)) = Len(s) + 1
         /\ ToSet(Append(s, e)) = ToSet(s) \cup {e}
         /\ IsInjective(s) /\ e \notin ToSet(s) => IsInjective(Append(s, e))
<1> DEFINE n == Len(s)
           a == Append(s, e)
<1>1. n \in Nat /\ a \in Seq(D) /\ Len(a) = n + 1 /\ DOMAIN s = 1 .. n /\ DOMAIN a = 1 .. n + 1
  OBVIOUS
<1>2. a[n + 1] = e /\ \A k \in 1 .. n : a[k] = s[k] /\ k \in 1 .. n + 1
  OBVIOUS
<1> HIDE DEF n, a
<1>3. \A k \in 1 .. n + 1 : k = n + 1 \/ k \in 1 .. n
  BY <1>1
<1>4. ToSet(a) = {a[k] : k \in 1 .. n + 1} /\ ToSet(s) = {s[k] : k \in 1 .. n}
  BY <1>1 DEF ToSet
<1>5. \A x \in ToSet(a) : x \in ToSet(s) \cup {e}
  BY <1>2, <1>3, <1>4
<1>6. \A x \in ToSet(s) \cup {e} : x \in ToSet(a)
  <2>1. n + 1 \in 1 .. n + 1
    BY <1>1
  <2> QED
    BY <1>2, <1>4, <2>1
<1>7. ASSUME IsInjective(s), e \notin ToSet(s)  PROVE IsInjective(a)
  <2> SUFFICES ASSUME NEW k \in 1 .. n + 1, NEW m \in 1 .. n + 1, a[k] = a[m] PROVE k = m
    BY <1>1 DEF IsInjective
  <2>1. \A j \in 1 .. n : s[j] # e
    BY <1>4, <1>7
  <2> QED
    BY <1>1, <1>2, <1>3, <1>7, <2>1 DEF IsInjective
<1> QED
  BY <1>1, <1>5, <1>6, <1>7 DEF a, n

\* A sequence without its first entry.
LEMMA Shortened ==
  ASSUME NEW D, NEW s \in Seq(D), s # <<>>
  PROVE  /\ Tail(s) \in Seq(D) /\ Len(Tail(s)) = Len(s) - 1 /\ s[1] \in D /\ s[1] \in ToSet(s)
         /\ ToSet(Tail(s)) \subseteq ToSet(s)
         /\ IsInjective(s) => IsInjective(Tail(s)) /\ s[1] \notin ToSet(Tail(s))
<1> DEFINE n == Len(s)
           a == Tail(s)
<1>1. n \in Nat /\ n >= 1 /\ a \in Seq(D) /\ Len(a) = n - 1 /\ DOMAIN s = 1 .. n /\ DOMAIN a = 1 .. n - 1
  OBVIOUS
<1>2. \A k \in 1 .. n - 1 : a[k] = s[k + 1] /\ k + 1 \in 1 .. n /\ k + 1 # 1
  OBVIOUS
<1>3. s[1] \in D
  OBVIOUS
<1> HIDE DEF n, a
<1>4. 1 \in 1 .. n
  BY <1>1
<1>5. s[1] \in ToSet(s) /\ ToSet(a) \subseteq ToSet(s)
  BY <1>1, <1>2, <1>4 DEF ToSet
<1>6. ASSUME IsInjective(s)  PROVE IsInjective(a) /\ s[1] \notin ToSet(a)
  <2>1. IsInjective(a)
    <3> SUFFICES ASSUME NEW k \in 1 .. n - 1, NEW m \in 1 .. n - 1, a[k] = a[m] PROVE k = m
      BY <1>1 DEF IsInjective
    <3>1. k + 1 = m + 1
      <4>1. k + 1 \in DOMAIN s /\ m + 1 \in DOMAIN s /\ s[k + 1] = s[m + 1]
        BY <1>1, <1>2
      <4>2. \A x, y \in DOMAIN s : s[x] = s[y] => x = y
        BY <1>6 DEF IsInjective
      <4> QED
        BY ONLY <4>1, <4>2, Zenon
    <3> QED
      BY <1>1, <3>1
  <2>2. \A k \in 1 .. n - 1 : a[k] # s[1]
    BY <1>1, <1>2, <1>4, <1>6 DEF IsInjective
  <2> QED
    BY <1>1, <2>1, <2>2 DEF ToSet
<1> QED
  BY <1>1, <1>3, <1>5, <1>6 DEF a, n

\* Times and ids are numbers.
LEMMA QueuesComparable ==
  ASSUME NEW f, f \in [DOMAIN f -> Fields]
  PROVE  Comparable(f)
BY DEF Comparable, Fields

\* The queues only depend on the times and ids of the timers that are in them.
LEMMA QueuesFrame ==
  ASSUME NEW f, NEW h, NEW z, NEW b, NEW r, NEW time \in Nat, Queues(f, h, z, b, r, time),
         NEW g, g \in [DOMAIN g -> Fields], DOMAIN g \subseteq Timers,
         NEW s, s \notin ToSet(h) \cup ToSet(z) \cup ToSet(b),
         NEW later \in Nat, time <= later,
         ToSet(h) \cup ToSet(z) \cup ToSet(b) \subseteq DOMAIN g,
         \A t \in ToSet(h) \cup ToSet(z) : g[t].wakeup = f[t].wakeup /\ g[t].id = f[t].id
  PROVE  Queues(g, h, z, b, s, later)
<1>1. h \in Seq(DOMAIN f) /\ z \in Seq(DOMAIN f) /\ b \in Seq(DOMAIN f) /\ IsHeap(f, h)
  BY DEF Queues
<1>2. \A k \in 1 .. Len(h) : h[k] \in ToSet(h)
  BY <1>1 DEF ToSet
<1>3. IsHeap(g, h)
  <2> SUFFICES ASSUME NEW i \in 2 .. Len(h) PROVE ~Before(g, h[i], h[i \div 2])
    BY DEF IsHeap
  <2>1. i \in 1 .. Len(h) /\ i \div 2 \in 1 .. Len(h)
    BY <1>1, Parents
  <2>2. ~Before(f, h[i], h[i \div 2])
    BY <1>1 DEF IsHeap
  <2> QED
    BY <1>2, <2>1, <2>2 DEF Before
<1>4. h \in Seq(DOMAIN g) /\ z \in Seq(DOMAIN g) /\ b \in Seq(DOMAIN g)
  <2>1. ASSUME NEW q \in Seq(DOMAIN f), ToSet(q) \subseteq DOMAIN g  PROVE q \in Seq(DOMAIN g)
    <3>1. DOMAIN q = 1 .. Len(q) /\ Len(q) \in Nat /\ \A k \in 1 .. Len(q) : q[k] \in DOMAIN g
      BY <2>1 DEF ToSet
    <3>2. q \in [1 .. Len(q) -> DOMAIN g]
      BY <2>1, <3>1
    <3> QED
      BY <3>1, <3>2
  <2> QED
    BY <1>1, <2>1
<1>5. \A t \in ToSet(z) : g[t].wakeup <= later
  <2> SUFFICES ASSUME NEW t \in ToSet(z) PROVE g[t].wakeup <= later
    OBVIOUS
  <2>1. g[t].wakeup = f[t].wakeup /\ f[t].wakeup <= time
    BY DEF Queues
  <2>2. t \in DOMAIN g /\ g[t] \in Fields
    OBVIOUS
  <2>3. g[t].wakeup \in Nat
    BY <2>2 DEF Fields
  <2> QED
    BY <2>1, <2>3
<1> QED
  BY <1>3, <1>4, <1>5 DEF Queues

\* A timer joins the heap, or the list of zero timers.
LEMMA QueuesAdd ==
  ASSUME NEW f, NEW h, NEW z, NEW b, NEW r, NEW time, Queues(f, h, z, b, r, time),
         NEW t \in DOMAIN f, t \notin ToSet(h) \cup ToSet(z) \cup ToSet(b) \cup {r}
  PROVE  /\ Queues(f, HeapAdd(f, h, t), z, b, r, time)
         /\ f[t].wakeup <= time => Queues(f, h, Append(z, t), b, r, time)
<1> DEFINE g == HeapAdd(f, h, t)
           y == Append(z, t)
<1>1. g \in Seq(DOMAIN f) /\ IsHeap(f, g) /\ ToSet(g) = ToSet(h) \cup {t} /\ IsInjective(g)
  BY HeapAddRight, QueuesComparable DEF Queues
<1>2. y \in Seq(DOMAIN f) /\ ToSet(y) = ToSet(z) \cup {t} /\ IsInjective(y)
  BY Appended DEF Queues
<1> HIDE DEF g, y
<1>3. Queues(f, g, z, b, r, time)
  BY <1>1 DEF Queues
<1>4. f[t].wakeup <= time => Queues(f, h, y, b, r, time)
  BY <1>2 DEF Queues
<1> QED
  BY <1>3, <1>4 DEF g, y

\* A timer leaves the heap.
LEMMA QueuesRemove ==
  ASSUME NEW f, NEW h, NEW z, NEW b, NEW r, NEW time, Queues(f, h, z, b, r, time), NEW t \in ToSet(h)
  PROVE  Queues(f, HeapRemove(f, h, t), z, b, r, time) /\ ToSet(HeapRemove(f, h, t)) = ToSet(h) \ {t}
<1> DEFINE g == HeapRemove(f, h, t)
<1>1. g \in Seq(DOMAIN f) /\ IsHeap(f, g) /\ ToSet(g) = ToSet(h) \ {t} /\ IsInjective(g)
  BY HeapRemoveRight, QueuesComparable DEF Queues
<1> HIDE DEF g
<1>2. Queues(f, g, z, b, r, time)
  BY <1>1 DEF Queues
<1> QED
  BY <1>1, <1>2 DEF g

\* A batch leaves the heap, alone or together with the first zero timer.
LEMMA QueuesPop ==
  ASSUME NEW f, NEW h, NEW z, NEW r, NEW time, Queues(f, h, z, <<>>, r, time), NEW due
  PROVE  /\ Queues(f, Popped(f, h, due).heap, z, Popped(f, h, due).batch, r, time)
         /\ z # <<>> => Queues(f, Popped(f, h, due).heap, Tail(z), Append(Popped(f, h, due).batch, z[1]), r, time)
<1>1. PICK g, b : g = Popped(f, h, due).heap /\ b = Popped(f, h, due).batch
  OBVIOUS
<1>2. g \in Seq(DOMAIN f) /\ b \in Seq(DOMAIN f) /\ PopInv(f, h, due, g, b)
  BY <1>1, PoppedRight, QueuesComparable DEF Queues
<1>3. IsHeap(f, g) /\ IsInjective(g) /\ IsInjective(b) /\ ToSet(g) \cap ToSet(b) = {} /\ ToSet(g) \cup ToSet(b) = ToSet(h)
  BY <1>2 DEF PopInv
<1>4. Queues(f, g, z, b, r, time)
  BY <1>2, <1>3 DEF Queues
<1>5. ASSUME z # <<>>  PROVE Queues(f, g, Tail(z), Append(b, z[1]), r, time)
  <2> DEFINE y == Tail(z)
             c == Append(b, z[1])
  <2>1. y \in Seq(DOMAIN f) /\ z[1] \in DOMAIN f /\ z[1] \in ToSet(z) /\ ToSet(y) \subseteq ToSet(z)
          /\ IsInjective(y) /\ z[1] \notin ToSet(y)
    BY <1>5, Shortened DEF Queues
  <2>2. z[1] \notin ToSet(b)
    BY <1>4, <2>1 DEF Queues
  <2>3. c \in Seq(DOMAIN f) /\ ToSet(c) = ToSet(b) \cup {z[1]} /\ IsInjective(c)
    BY <1>2, <1>3, <2>1, <2>2, Appended
  <2> HIDE DEF y, c
  <2>4. Queues(f, g, y, c, r, time)
    BY <1>4, <2>1, <2>3 DEF Queues
  <2> QED
    BY <2>4 DEF y, c
<1> QED
  BY <1>1, <1>4, <1>5

\* The first timer of the batch is taken.
LEMMA QueuesNext ==
  ASSUME NEW f, NEW h, NEW z, NEW b, NEW r, NEW time, Queues(f, h, z, b, r, time), b # <<>>
  PROVE  /\ Queues(f, h, z, Tail(b), b[1], time) /\ b[1] \in DOMAIN f
<1> DEFINE c == Tail(b)
<1>1. c \in Seq(DOMAIN f) /\ b[1] \in DOMAIN f /\ b[1] \in ToSet(b) /\ ToSet(c) \subseteq ToSet(b)
        /\ IsInjective(c) /\ b[1] \notin ToSet(c)
  BY Shortened DEF Queues
<1> HIDE DEF c
<1>2. Queues(f, h, z, c, b[1], time)
  BY <1>1 DEF Queues
<1> QED
  BY <1>1, <1>2 DEF c

-----------------------------------------------------------------------------
(* Zero events                                                             *)

\* The events of a queue are finitely many.
LEMMA ZeroEventsFinite ==
  ASSUME NEW q \in Seq(Ports \X Events)
  PROVE  /\ IsFiniteSet(ZeroEvents(q)) /\ Cardinality(ZeroEvents(q)) \in Nat
         /\ Cardinality(ZeroEvents(q)) = 0 <=> ZeroEvents(q) = {}
<1>1. Len(q) \in Nat /\ DOMAIN q = 1 .. Len(q)
  OBVIOUS
<1>2. IsFiniteSet(1 .. Len(q))
  BY <1>1, FS_Interval, 1 \in Int, Len(q) \in Int
<1>3. ZeroEvents(q) \in SUBSET (1 .. Len(q))
  BY <1>1 DEF ZeroEvents
<1>4. IsFiniteSet(ZeroEvents(q))
  BY <1>2, <1>3, FS_Subset
<1> QED
  BY <1>4, FS_CardinalityType, FS_EmptySet

\* An event is put at the end.
LEMMA MatchingAppended ==
  ASSUME NEW q \in Seq(Ports \X Events), NEW p \in Ports, NEW x, NEW D, NEW z \in Seq(D),
         Matching(q, x, z)
  PROVE  /\ x = p \/ z = <<>> => \A t \in D : Matching(Append(q, <<p, "ZERO_EVENT">>), p, Append(z, t))
         /\ Matching(Append(q, <<p, "TIMEOUT_EVENT">>), x, z)
<1> DEFINE n == Len(q)
           S == ZeroEvents(q)
<1>1. n \in Nat /\ DOMAIN q = 1 .. n /\ Len(z) \in Nat
  OBVIOUS
<1>2. IsFiniteSet(S) /\ Cardinality(S) \in Nat /\ Cardinality(S) = Len(z) /\ (Cardinality(S) = 0 <=> S = {})
  BY ZeroEventsFinite DEF Matching
<1>3. S \subseteq 1 .. n /\ \A i \in 1 .. n : i \in S <=> q[i][2] = "ZERO_EVENT"
  BY <1>1 DEF ZeroEvents
<1>4. \A i \in S : q[i][1] = x
  BY DEF Matching
<1>5. ASSUME NEW e \in Events
      PROVE  LET a == Append(q, <<p, e>>) IN
             /\ DOMAIN a = 1 .. n + 1 /\ a[n + 1] = <<p, e>> /\ \A k \in 1 .. n : a[k] = q[k]
  <2>1. <<p, e>> \in Ports \X Events
    OBVIOUS
  <2> QED
    BY <2>1
<1> HIDE DEF n, S
<1>6. n + 1 \notin S /\ \A k \in 1 .. n + 1 : k = n + 1 \/ k \in 1 .. n
  BY <1>1, <1>3
<1>7. n + 1 \in 1 .. n + 1 /\ \A k \in S : k \in 1 .. n /\ k \in 1 .. n + 1
  <2>1. \A k \in 1 .. n : k \in 1 .. n + 1
    BY <1>1
  <2> QED
    BY <1>1, <1>3, <2>1
<1>8. ASSUME x = p \/ z = <<>>, NEW t \in D  PROVE Matching(Append(q, <<p, "ZERO_EVENT">>), p, Append(z, t))
  <2>1. PICK a : a = Append(q, <<p, "ZERO_EVENT">>)
    OBVIOUS
  <2>2. DOMAIN a = 1 .. n + 1 /\ a[n + 1] = <<p, "ZERO_EVENT">> /\ \A k \in 1 .. n : a[k] = q[k]
    BY <1>5, <2>1 DEF Events
  <2>3. \A k \in 1 .. n + 1 : a[k][2] = "ZERO_EVENT" <=> k \in S \cup {n + 1}
    BY <1>3, <1>6, <2>2
  <2>4. ZeroEvents(a) = S \cup {n + 1}
    <3>1. \A k \in ZeroEvents(a) : k \in S \cup {n + 1}
      BY <2>2, <2>3 DEF ZeroEvents
    <3>2. \A k \in S \cup {n + 1} : k \in 1 .. n + 1
      BY <1>7
    <3>3. \A k \in S \cup {n + 1} : k \in ZeroEvents(a)
      BY <2>2, <2>3, <3>2 DEF ZeroEvents
    <3> QED
      BY <3>1, <3>3
  <2>5. Cardinality(ZeroEvents(a)) = Len(z) + 1
    BY <1>2, <1>6, <2>4, FS_AddElement
  <2>6. z = <<>> => S = {}
    BY <1>2
  <2>7. \A i \in ZeroEvents(a) : a[i][1] = p
    <3>1. \A i \in S : a[i] = q[i] /\ q[i][1] = x
      BY <1>4, <1>7, <2>2
    <3>2. a[n + 1][1] = p
      BY <2>2
    <3> QED
      BY <1>8, <2>4, <2>6, <3>1, <3>2
  <2>8. Len(Append(z, t)) = Len(z) + 1
    OBVIOUS
  <2> QED
    BY <2>1, <2>5, <2>7, <2>8 DEF Matching
<1>9. Matching(Append(q, <<p, "TIMEOUT_EVENT">>), x, z)
  <2>1. PICK a : a = Append(q, <<p, "TIMEOUT_EVENT">>)
    OBVIOUS
  <2>2. DOMAIN a = 1 .. n + 1 /\ a[n + 1] = <<p, "TIMEOUT_EVENT">> /\ \A k \in 1 .. n : a[k] = q[k]
    BY <1>5, <2>1 DEF Events
  <2>3. \A k \in 1 .. n + 1 : a[k][2] = "ZERO_EVENT" <=> k \in S
    BY <1>3, <1>6, <2>2
  <2>4. ZeroEvents(a) = S
    <3>1. \A k \in ZeroEvents(a) : k \in S
      BY <2>2, <2>3 DEF ZeroEvents
    <3>2. \A k \in S : k \in 1 .. n + 1
      BY <1>7
    <3>3. \A k \in S : k \in ZeroEvents(a)
      BY <2>2, <2>3, <3>2 DEF ZeroEvents
    <3> QED
      BY <3>1, <3>3
  <2>5. \A i \in ZeroEvents(a) : a[i][1] = x
    BY <1>3, <1>4, <2>2, <2>4
  <2> QED
    BY <1>2, <2>1, <2>4, <2>5 DEF Matching
<1> QED
  BY <1>8, <1>9

\* The first message is taken from the queue.
LEMMA MatchingShortened ==
  ASSUME NEW q \in Seq(Ports \X Events), q # <<>>, NEW x, NEW D, NEW z \in Seq(D), Matching(q, x, z)
  PROVE  /\ q[1][2] = "ZERO_EVENT" => z # <<>> /\ Matching(Tail(q), x, Tail(z))
         /\ q[1][2] # "ZERO_EVENT" => Matching(Tail(q), x, z)
<1> DEFINE n == Len(q)
           S == ZeroEvents(q)
           r == Tail(q)
           R == ZeroEvents(r)
<1>1. n \in Nat /\ n >= 1 /\ DOMAIN q = 1 .. n /\ Len(z) \in Nat
  OBVIOUS
<1>2. r \in Seq(Ports \X Events) /\ DOMAIN r = 1 .. n - 1 /\ \A k \in 1 .. n - 1 : r[k] = q[k + 1] /\ k + 1 \in 1 .. n
  OBVIOUS
<1>3. IsFiniteSet(S) /\ Cardinality(S) \in Nat /\ Cardinality(S) = Len(z) /\ (Cardinality(S) = 0 <=> S = {})
  BY ZeroEventsFinite DEF Matching
<1>4. S \subseteq 1 .. n /\ \A i \in 1 .. n : i \in S <=> q[i][2] = "ZERO_EVENT"
  BY <1>1 DEF ZeroEvents
<1>5. \A i \in S : q[i][1] = x
  BY DEF Matching
<1> HIDE DEF r
<1>6. IsFiniteSet(R)
  BY <1>2, ZeroEventsFinite
<1>7. R \subseteq 1 .. n - 1 /\ \A i \in 1 .. n - 1 : i \in R <=> r[i][2] = "ZERO_EVENT"
  BY <1>2 DEF ZeroEvents
<1> HIDE DEF n, S, R
<1>8. \A i \in 1 .. n - 1 : i \in R <=> i + 1 \in S
  BY <1>2, <1>4, <1>7
<1>9. \A i \in S \ {1} : i - 1 \in R /\ (i - 1) + 1 = i
  <2> SUFFICES ASSUME NEW i \in S \ {1} PROVE i - 1 \in R /\ (i - 1) + 1 = i
    OBVIOUS
  <2>1. i \in 1 .. n /\ i - 1 \in 1 .. n - 1 /\ (i - 1) + 1 = i
    BY <1>1, <1>4
  <2> QED
    BY <1>8, <2>1
<1>10. ExistsBijection(R, S \ {1})
  <2> DEFINE g == [i \in R |-> i + 1]
  <2>1. \A i \in R : i \in Nat /\ i + 1 \in S \ {1}
    BY <1>1, <1>7, <1>8
  <2>2. g \in [R -> S \ {1}]
    BY <2>1
  <2>3. \A i, j \in R : g[i] = g[j] => i = j
    BY <2>1
  <2>4. \A j \in S \ {1} : \E i \in R : g[i] = j
    BY <1>9
  <2>5. g \in Bijection(R, S \ {1})
    BY <2>2, <2>3, <2>4 DEF Bijection, Injection, Surjection, IsInjective
  <2> QED
    BY <2>5 DEF ExistsBijection
<1>11. Cardinality(S \ {1}) = Cardinality(R)
  BY <1>6, <1>10, FS_Bijection
<1>12. \A i \in R : r[i][1] = x
  BY <1>2, <1>5, <1>7, <1>8
<1>13. ASSUME q[1][2] = "ZERO_EVENT"  PROVE z # <<>> /\ Matching(r, x, Tail(z))
  <2>1. 1 \in S
    BY <1>1, <1>4, <1>13
  <2>2. Cardinality(R) = Len(z) - 1
    BY <1>3, <1>11, <2>1, FS_RemoveElement
  <2>3. Len(z) # 0
    BY <1>3, <2>1
  <2>4. z # <<>> /\ Len(Tail(z)) = Len(z) - 1
    BY <2>3
  <2> QED
    BY <1>12, <2>2, <2>4 DEF Matching, R
<1>14. ASSUME q[1][2] # "ZERO_EVENT"  PROVE Matching(r, x, z)
  <2>1. 1 \notin S
    BY <1>1, <1>4, <1>14
  <2>2. S \ {1} = S
    BY <2>1
  <2> QED
    BY <1>3, <1>11, <1>12, <2>2 DEF Matching, R
<1> QED
  BY <1>13, <1>14 DEF r

\* Without a zero timer the port does not matter; with one there is a port.
LEMMA MatchingPort ==
  ASSUME NEW q \in Seq(Ports \X Events), NEW x, NEW D, NEW z \in Seq(D), Matching(q, x, z)
  PROVE  /\ z = <<>> => \A p : Matching(q, p, z)
         /\ z # <<>> => x \in Ports
<1>1. Len(z) \in Nat /\ (Len(z) = 0 <=> z = <<>>)
  OBVIOUS
<1>2. Cardinality(ZeroEvents(q)) = Len(z) /\ (Len(z) = 0 <=> ZeroEvents(q) = {})
  BY ZeroEventsFinite DEF Matching
<1>3. z = <<>> => \A p : Matching(q, p, z)
  BY <1>1, <1>2 DEF Matching
<1>4. ASSUME z # <<>>  PROVE x \in Ports
  <2>1. PICK i \in ZeroEvents(q) : TRUE
    BY <1>1, <1>2, <1>4
  <2>2. q[i][1] = x /\ i \in DOMAIN q
    BY DEF Matching, ZeroEvents
  <2>3. q[i] \in Ports \X Events
    BY <2>2
  <2> QED
    BY <2>2, <2>3
<1> QED
  BY <1>3, <1>4

\* The invariant implies the property.
LEMMA MatchingEnough ==
  ASSUME Matching(queue, port, zeroTimers)
  PROVE  ZeroEventsMatch
<1>1. \A i \in DOMAIN queue : queue[i][2] = "ZERO_EVENT" => queue[i][1] = port
  BY DEF Matching, ZeroEvents
<1>2. {i \in DOMAIN queue : queue[i][2] = "ZERO_EVENT" /\ queue[i][1] = port} = ZeroEvents(queue)
  BY <1>1 DEF ZeroEvents
<1> QED
  BY <1>1, <1>2 DEF Matching, ZeroEventsMatch

-----------------------------------------------------------------------------
(* The event handler                                                       *)

\* The next timeout is one of those that are least.
LEMMA NextTimeoutRight ==
  ASSUME NEW q \in Seq(Ports \X Nat), q # <<>>
  PROVE  NextTimeout(q) \in DOMAIN q /\ \A j \in DOMAIN q : q[NextTimeout(q)][2] <= q[j][2]
<1> DEFINE T == {q[i][2] : i \in DOMAIN q}
           Best(i) == \A j \in DOMAIN q : q[i][2] < q[j][2] \/ (q[i][2] = q[j][2] /\ i <= j)
<1>1. DOMAIN q = 1 .. Len(q) /\ Len(q) \in Nat /\ 1 \in DOMAIN q
  OBVIOUS
<1>2. \A i \in DOMAIN q : q[i][2] \in Nat
  OBVIOUS
<1>3. T \in SUBSET Nat /\ T # {}
  BY <1>1, <1>2
<1>4. PICK m \in T : \A y \in T : m <= y
  BY <1>3, LeastNat
<1> DEFINE U == {i \in DOMAIN q : q[i][2] = m}
<1>5. U \in SUBSET Nat /\ U # {}
  BY <1>1, <1>4
<1>6. PICK i \in U : \A j \in U : i <= j
  BY <1>5, LeastNat
<1>7. i \in DOMAIN q /\ Best(i)
  <2>1. i \in DOMAIN q /\ q[i][2] = m /\ m \in Nat
    BY <1>3, <1>6
  <2>2. \A j \in DOMAIN q : m <= q[j][2] /\ q[j][2] \in Nat /\ (q[j][2] = m => i <= j)
    BY <1>2, <1>4, <1>6
  <2>3. \A j \in DOMAIN q : m < q[j][2] \/ (m = q[j][2] /\ i <= j)
    BY <2>1, <2>2
  <2> QED
    BY <2>1, <2>3
<1>8. NextTimeout(q) = CHOOSE k \in DOMAIN q : Best(k)
  BY DEF NextTimeout
<1> HIDE DEF Best
<1>9. NextTimeout(q) \in DOMAIN q /\ Best(NextTimeout(q))
  BY <1>7, <1>8
<1> QED
  BY <1>2, <1>9 DEF Best

\* An entry is taken from the queue.
LEMMA EntryRemoved ==
  ASSUME NEW D, NEW q \in Seq(D), NEW i \in DOMAIN q
  PROVE  /\ RemoveAt(q, i) \in Seq(D) /\ DOMAIN RemoveAt(q, i) = 1 .. Len(q) - 1
         /\ \A k \in 1 .. Len(q) - 1 : RemoveAt(q, i)[k] = IF k < i THEN q[k] ELSE q[k + 1]
<1>1. i \in 1 .. Len(q) /\ Len(q) \in Nat
  OBVIOUS
<1>2. SubSeq(q, 1, i - 1) \in Seq(D) /\ Len(SubSeq(q, 1, i - 1)) = i - 1
        /\ \A k \in 1 .. i - 1 : SubSeq(q, 1, i - 1)[k] = q[k]
  BY <1>1
<1>3. SubSeq(q, i + 1, Len(q)) \in Seq(D) /\ Len(SubSeq(q, i + 1, Len(q))) = Len(q) - i
        /\ \A k \in 1 .. Len(q) - i : SubSeq(q, i + 1, Len(q))[k] = q[i + k]
  BY <1>1
<1>4. PICK a, b : a = SubSeq(q, 1, i - 1) /\ b = SubSeq(q, i + 1, Len(q))
  OBVIOUS
<1>5. RemoveAt(q, i) = a \o b
  BY <1>4 DEF RemoveAt
<1>6. /\ a \in Seq(D) /\ b \in Seq(D) /\ Len(a) = i - 1 /\ Len(b) = Len(q) - i
      /\ a \o b \in Seq(D) /\ Len(a \o b) = Len(q) - 1
  <2>1. a \in Seq(D) /\ b \in Seq(D) /\ Len(a) = i - 1 /\ Len(b) = Len(q) - i
    BY <1>2, <1>3, <1>4
  <2> QED
    BY ONLY <1>1, <2>1
<1>7. ASSUME NEW k \in 1 .. Len(q) - 1  PROVE (a \o b)[k] = IF k < i THEN q[k] ELSE q[k + 1]
  <2>1. CASE k < i
    <3>1. k \in 1 .. i - 1 /\ k \in 1 .. Len(a)
      BY <1>1, <1>2, <1>4, <2>1
    <3>2. (a \o b)[k] = a[k]
      BY <1>2, <1>3, <1>4, <3>1
    <3> QED
      BY <1>2, <1>4, <2>1, <3>1, <3>2
  <2>2. CASE ~(k < i)
    <3>1. k - (i - 1) \in 1 .. Len(q) - i /\ i + (k - (i - 1)) = k + 1
      BY <1>1, <2>2
    <3>2. (a \o b)[k] = b[k - (i - 1)]
      <4>1. k \in Len(a) + 1 .. Len(a) + Len(b) /\ k - Len(a) = k - (i - 1)
        BY <1>1, <1>6, <2>2
      <4>2. (a \o b)[k] = b[k - Len(a)]
        <5>1. a \in Seq(D) /\ b \in Seq(D) /\ Len(a) \in Nat /\ Len(b) \in Nat /\ k \in Nat
          BY <1>6
        <5>2. \A x \in 1 .. Len(a) + Len(b) : (a \o b)[x] = IF x <= Len(a) THEN a[x] ELSE b[x - Len(a)]
          BY ONLY <5>1
        <5> QED
          BY ONLY <4>1, <5>1, <5>2
      <4> QED
        BY <4>1, <4>2
    <3>3. b[k - (i - 1)] = q[k + 1]
      BY <1>3, <1>4, <3>1
    <3> QED
      BY <2>2, <3>2, <3>3
  <2> QED
    BY <2>1, <2>2
<1>8. DOMAIN (a \o b) = 1 .. Len(q) - 1
  BY <1>6
<1> QED
  BY <1>5, <1>6, <1>7, <1>8

\* u is the queue q after UpdateTimeout() for p: one timeout of each port, at most the one that
\* is asked for is new, and there is none of p after a cancel.
Updated(q, p, time, u) ==
  /\ u \in Seq(Ports \X Nat)
  /\ \A j \in DOMAIN u : \/ time \in Nat /\ u[j] = <<p, time>>
                         \/ \E i \in DOMAIN q : q[i] = u[j]
  /\ time \in Nat => \E j \in DOMAIN u : u[j] = <<p, time>>
  /\ OneEach(q) => OneEach(u) /\ (time = NO_TIMER => \A j \in DOMAIN u : u[j][1] # p)

\* UpdateTimeout() does that.
LEMMA UpdateTimeoutRight ==
  ASSUME NEW q \in Seq(Ports \X Nat), NEW p \in Ports, NEW time \in Nat \cup {NO_TIMER}
  PROVE  Updated(q, p, time, UpdateTimeout(q, p, time))
<1> DEFINE n == Len(q)
           i == CHOOSE j \in DOMAIN q : q[j][1] = p
           found == \E j \in DOMAIN q : q[j][1] = p
<1>1. n \in Nat /\ DOMAIN q = 1 .. n /\ \A j \in 1 .. n : q[j] \in Ports \X Nat
  OBVIOUS
<1>2. found => i \in 1 .. n /\ q[i][1] = p
  BY <1>1
<1>3. (time < 0 <=> time = NO_TIMER) /\ (time >= 0 <=> time \in Nat) /\ (time \in Nat <=> time # NO_TIMER)
  BY DEF NO_TIMER
<1>4. PICK u : u = UpdateTimeout(q, p, time)
  OBVIOUS
<1>5. /\ found /\ time = NO_TIMER => u = RemoveAt(q, i)
      /\ found /\ time # NO_TIMER => u = [q EXCEPT ![i] = <<p, time>>]
      /\ ~found /\ time = NO_TIMER => u = q
      /\ ~found /\ time # NO_TIMER => u = <<<<p, time>>>> \o q
  BY <1>3, <1>4 DEF UpdateTimeout
<1> HIDE DEF found, i, n
<1> DEFINE Goal == /\ u \in Seq(Ports \X Nat)
                   /\ \A j \in DOMAIN u : \/ time \in Nat /\ u[j] = <<p, time>>
                                          \/ \E k \in DOMAIN q : q[k] = u[j]
                   /\ time \in Nat => \E j \in DOMAIN u : u[j] = <<p, time>>
                   /\ OneEach(q) => OneEach(u) /\ (time = NO_TIMER => \A j \in DOMAIN u : u[j][1] # p)
<1>6. ASSUME found, time = NO_TIMER  PROVE Goal
  <2>1. u \in Seq(Ports \X Nat) /\ DOMAIN u = 1 .. n - 1 /\ \A k \in 1 .. n - 1 : u[k] = IF k < i THEN q[k] ELSE q[k + 1]
    <3>1. u = RemoveAt(q, i) /\ i \in DOMAIN q
      BY <1>1, <1>2, <1>5, <1>6
    <3> QED
      BY <3>1, EntryRemoved DEF n
  <2>2. \A k \in 1 .. n - 1 : k \in 1 .. n /\ k + 1 \in 1 .. n
    BY <1>1
  <2>3. \A j \in DOMAIN u : \E k \in DOMAIN q : q[k] = u[j]
    BY <1>1, <2>1, <2>2
  <2>4. ASSUME OneEach(q)  PROVE OneEach(u) /\ \A j \in DOMAIN u : u[j][1] # p
    <3>1. ASSUME NEW j \in DOMAIN u, NEW k \in DOMAIN u, u[j][1] = u[k][1]  PROVE j = k
      <4>1. PICK x \in 1 .. n : u[j] = q[x] /\ x = IF j < i THEN j ELSE j + 1
        BY <2>1, <2>2
      <4>2. PICK y \in 1 .. n : u[k] = q[y] /\ y = IF k < i THEN k ELSE k + 1
        BY <2>1, <2>2
      <4>3. x = y
        BY <1>1, <2>4, <3>1, <4>1, <4>2 DEF OneEach
      <4>4. i \in 1 .. n /\ j \in 1 .. n - 1 /\ k \in 1 .. n - 1
        BY <1>2, <1>6, <2>1
      <4> QED
        BY ONLY <1>1, <4>1, <4>2, <4>3, <4>4, SMTT(20)
    <3>2. ASSUME NEW j \in DOMAIN u  PROVE u[j][1] # p
      <4>1. PICK x \in 1 .. n : u[j] = q[x] /\ x = IF j < i THEN j ELSE j + 1
        BY <2>1, <2>2
      <4>2. x # i
        BY <1>1, <1>2, <1>6, <2>1, <4>1, SMTT(20)
      <4> QED
        BY <1>1, <1>2, <1>6, <2>4, <4>1, <4>2 DEF OneEach
    <3> QED
      BY <3>1, <3>2 DEF OneEach
  <2> QED
    BY <1>3, <1>6, <2>1, <2>3, <2>4
<1>7. ASSUME found, time # NO_TIMER  PROVE Goal
  <2>1. u = [q EXCEPT ![i] = <<p, time>>] /\ <<p, time>> \in Ports \X Nat
    BY <1>3, <1>5, <1>7
  <2>2. u \in Seq(Ports \X Nat) /\ DOMAIN u = 1 .. n /\ \A k \in 1 .. n : u[k] = IF k = i THEN <<p, time>> ELSE q[k]
    BY <1>1, <1>2, <1>7, <2>1
  <2>3. \A k \in 1 .. n : u[k][1] = q[k][1]
    BY <1>2, <1>7, <2>2
  <2>4. OneEach(q) => OneEach(u)
    BY <1>1, <2>2, <2>3 DEF OneEach
  <2> QED
    <3>1. u[i] = <<p, time>> /\ i \in DOMAIN u /\ DOMAIN q = 1 .. n
      BY <1>1, <1>2, <1>7, <2>2
    <3>2. \A j \in DOMAIN u : u[j] = <<p, time>> \/ u[j] = q[j]
      BY <2>2
    <3> QED
      BY <1>3, <1>7, <2>2, <2>4, <3>1, <3>2
<1>8. ASSUME ~found, time = NO_TIMER  PROVE Goal
  BY <1>3, <1>5, <1>8 DEF found
<1>9. ASSUME ~found, time # NO_TIMER  PROVE Goal
  <2>1. PICK e : e = <<p, time>>
    OBVIOUS
  <2>2. e \in Ports \X Nat /\ e[1] = p /\ u = <<e>> \o q
    BY <1>3, <1>5, <1>9, <2>1
  <2>3. u \in Seq(Ports \X Nat) /\ DOMAIN u = 1 .. n + 1 /\ u[1] = e /\ \A k \in 1 .. n : u[k + 1] = q[k]
    BY <1>1, <2>2 DEF n
  <2>4. \A k \in 1 .. n + 1 : k = 1 \/ (k - 1 \in 1 .. n /\ u[k] = q[k - 1])
    <3> SUFFICES ASSUME NEW k \in 1 .. n + 1, k # 1 PROVE k - 1 \in 1 .. n /\ u[k] = q[k - 1]
      OBVIOUS
    <3>1. k - 1 \in 1 .. n /\ (k - 1) + 1 = k
      BY <1>1
    <3> QED
      BY <2>3, <3>1
  <2>5. \A k \in 1 .. n : q[k][1] # p
    BY <1>1, <1>9 DEF found
  <2>6. ASSUME OneEach(q)  PROVE OneEach(u)
    <3> SUFFICES ASSUME NEW j \in 1 .. n + 1, NEW k \in 1 .. n + 1, u[j][1] = u[k][1] PROVE j = k
      BY <2>3 DEF OneEach
    <3>1. CASE j = 1 \/ k = 1
      BY <2>2, <2>3, <2>4, <2>5, <3>1
    <3>2. CASE j # 1 /\ k # 1
      <4>1. j - 1 \in DOMAIN q /\ k - 1 \in DOMAIN q /\ u[j] = q[j - 1] /\ u[k] = q[k - 1]
        BY <1>1, <2>4, <3>2
      <4>2. j - 1 = k - 1
        BY <2>6, <4>1 DEF OneEach
      <4> QED
        BY <1>1, <4>2
    <3> QED
      BY <3>1, <3>2
  <2>7. 1 \in DOMAIN u
    BY <1>1, <2>3
  <2> QED
    <3>1. \A j \in DOMAIN u : u[j] = <<p, time>> \/ \E k \in DOMAIN q : q[k] = u[j]
      BY <1>1, <2>1, <2>3, <2>4
    <3> QED
      BY <1>3, <1>9, <2>1, <2>3, <2>6, <2>7, <3>1
<1>10. Goal
  BY <1>6, <1>7, <1>8, <1>9
<1> QED
  BY <1>4, <1>10 DEF Updated

-----------------------------------------------------------------------------
(* The invariant of the queues                                             *)

\* _createTimerHandler() opens a port that no one knows yet.
LEMMA OpenPortRight ==
  ASSUME TypeInv, HasPort
  PROVE  OpenPort \in Ports /\ (port # None => OpenPort = port) /\ (port = None => OpenPort \notin PortsInUse)
<1>1. CASE port # None
  BY <1>1 DEF OpenPort, TypeInv
<1>2. CASE port = None
  <2>1. Ports \ PortsInUse # {} /\ OpenPort = CHOOSE p \in Ports \ PortsInUse : TRUE
    BY <1>2 DEF HasPort, OpenPort
  <2>2. OpenPort \in Ports \ PortsInUse
    BY <2>1
  <2> QED
    BY <1>2, <2>2
<1> QED
  BY <1>1, <1>2

\* What is sent is a message.
LEMMA SendDataTypes ==
  ASSUME TypeInv, NEW p \in Ports, NEW time \in Nat \cup {NO_TIMER}, SendData(p, time)
  PROVE  pipe' \in Seq(Ports \X (Nat \cup {NO_TIMER}))
<1>1. <<p, time>> \in Ports \X (Nat \cup {NO_TIMER}) /\ pipe' = Append(pipe, <<p, time>>)
  BY DEF SendData
<1>2. pipe \in Seq(Ports \X (Nat \cup {NO_TIMER}))
  BY DEF TypeInv
<1> QED
  BY <1>1, <1>2

\* What is left of the port.
PortTypes ==
  /\ port \in Ports \cup {None} /\ scheduledWakeupTime \in Nat \cup {NoTime}
  /\ pipe \in Seq(Ports \X (Nat \cup {NO_TIMER}))

\* _notifyEventHandler() keeps the port as long as there are zero timers.
LEMMA NotifyTypes ==
  ASSUME TypeInv, NEW f, NEW h, NEW z, NEW scheduled \in Nat \cup {NoTime},
         h # <<>> => f[h[1]].wakeup \in Nat, z # <<>> => port # None,
         NotifyEventHandler(f, h, z, scheduled)
  PROVE  PortTypes' /\ (port' = port \/ z = <<>>)
<1>1. PortTypes
  BY DEF PortTypes, TypeInv
<1>2. CASE scheduledWakeupTime' = scheduled /\ UNCHANGED <<port, pipe>>
  BY <1>1, <1>2 DEF PortTypes
<1>3. CASE SendData(port, NO_TIMER) /\ scheduledWakeupTime' = NoTime /\ port # None /\ (port' = port \/ (port' = None /\ z = <<>>))
  <2>1. pipe' \in Seq(Ports \X (Nat \cup {NO_TIMER}))
    BY <1>1, <1>3, SendDataTypes DEF PortTypes
  <2> QED
    BY <1>1, <1>3, <2>1 DEF PortTypes
<1>4. CASE /\ h # <<>> /\ HasPort /\ port' = OpenPort /\ SendData(OpenPort, f[h[1]].wakeup)
           /\ scheduledWakeupTime' = f[h[1]].wakeup
  <2>1. OpenPort \in Ports /\ (port # None => OpenPort = port)
    BY <1>4, OpenPortRight
  <2>2. PICK time \in Nat : time = f[h[1]].wakeup
    BY <1>4
  <2>3. pipe' \in Seq(Ports \X (Nat \cup {NO_TIMER}))
    BY <1>4, <2>1, <2>2, SendDataTypes
  <2> QED
    BY <1>4, <2>1, <2>2, <2>3 DEF PortTypes
<1> QED
  BY <1>2, <1>3, <1>4 DEF NotifyEventHandler

\* _enqueue()
LEMMA EnqueueKeeps ==
  ASSUME TypeInv, NEW f, NEW t \in DOMAIN f, NEW r,
         Queues(f, heap, zeroTimers, pendingTimers, r, now), Matching(queue, port, zeroTimers),
         t \notin ToSet(heap) \cup ToSet(zeroTimers) \cup ToSet(pendingTimers) \cup {r},
         f[t].ms = 0 => f[t].wakeup <= now, Enqueue(f, t)
  PROVE  /\ Queues(f, heap', zeroTimers', pendingTimers, r, now) /\ Matching(queue', port', zeroTimers')
         /\ PortTypes' /\ queue' \in Seq(Ports \X Events)
<1>0. None \notin Timers \cup Ports
  BY TimersAssumption
<1>1. /\ queue \in Seq(Ports \X Events) /\ port \in Ports \cup {None} /\ zeroTimers \in Seq(DOMAIN f) /\ PortTypes
      /\ scheduledWakeupTime \in Nat \cup {NoTime}
  BY DEF TypeInv, Queues, PortTypes
<1>2. zeroTimers # <<>> => port \in Ports /\ port # None
  <2>1. PICK D : zeroTimers \in Seq(D)
    BY <1>1
  <2>2. zeroTimers # <<>> => port \in Ports
    BY ONLY <1>1, <2>1, Matching(queue, port, zeroTimers), MatchingPort
  <2> QED
    BY <1>0, <2>2
<1>3. ASSUME f[t].ms = 0
      PROVE  /\ Queues(f, heap', zeroTimers', pendingTimers, r, now) /\ Matching(queue', port', zeroTimers')
             /\ PortTypes' /\ queue' \in Seq(Ports \X Events)
  <2>1. /\ HasPort /\ port' = OpenPort
        /\ scheduledWakeupTime' = IF port = None THEN NoTime ELSE scheduledWakeupTime
        /\ zeroTimers' = Append(zeroTimers, t)
        /\ queue' = Append(queue, <<OpenPort, "ZERO_EVENT">>)
        /\ UNCHANGED <<heap, pipe>>
    BY <1>3 DEF Enqueue
  <2>2. OpenPort \in Ports /\ (port # None => OpenPort = port)
    BY <2>1, OpenPortRight
  <2>3. Queues(f, heap, Append(zeroTimers, t), pendingTimers, r, now)
    BY <1>3, QueuesAdd
  <2>4. port = OpenPort \/ zeroTimers = <<>>
    BY <1>2, <2>2
  <2>5. Matching(Append(queue, <<OpenPort, "ZERO_EVENT">>), OpenPort, Append(zeroTimers, t))
    <3>1. PICK p \in Ports : p = OpenPort
      BY <2>2
    <3> QED
      BY <1>1, <2>4, <3>1, MatchingAppended
  <2>6. queue' \in Seq(Ports \X Events)
    <3>1. <<OpenPort, "ZERO_EVENT">> \in Ports \X Events
      BY <2>2 DEF Events
    <3> QED
      BY <1>1, <2>1, <3>1
  <2>7. PortTypes'
    BY <1>1, <2>1, <2>2 DEF PortTypes
  <2> QED
    BY <2>1, <2>3, <2>5, <2>6, <2>7
<1>4. ASSUME f[t].ms # 0
      PROVE  /\ Queues(f, heap', zeroTimers', pendingTimers, r, now) /\ Matching(queue', port', zeroTimers')
             /\ PortTypes' /\ queue' \in Seq(Ports \X Events)
  <2>1. /\ heap' = HeapAdd(f, heap, t)
        /\ \/ NotifyEventHandler(f, heap', zeroTimers, scheduledWakeupTime)
           \/ UNCHANGED <<port, scheduledWakeupTime, pipe>>
        /\ UNCHANGED <<zeroTimers, queue>>
    BY <1>4 DEF Enqueue
  <2>2. Queues(f, heap', zeroTimers', pendingTimers, r, now)
    BY <2>1, QueuesAdd
  <2>3. heap' # <<>> => f[heap'[1]].wakeup \in Nat
    <3>1. heap' # <<>> => heap'[1] \in DOMAIN f
      BY <2>2 DEF Queues
    <3>2. \A u \in DOMAIN f : f[u] \in Fields
      BY DEF Queues
    <3> QED
      BY <3>1, <3>2 DEF Fields
  <2>4. PortTypes' /\ (port' = port \/ zeroTimers = <<>>)
    <3>1. CASE NotifyEventHandler(f, heap', zeroTimers, scheduledWakeupTime)
      BY <1>1, <1>2, <2>3, <3>1, NotifyTypes
    <3>2. CASE UNCHANGED <<port, scheduledWakeupTime, pipe>>
      BY <1>1, <3>2 DEF PortTypes
    <3> QED
      BY <2>1, <3>1, <3>2
  <2>5. Matching(queue, port', zeroTimers)
    BY <1>1, <2>4, MatchingPort
  <2> QED
    BY <1>1, <2>1, <2>2, <2>4, <2>5
<1> QED
  BY <1>3, <1>4


\* The queues as the actions see them.
LEMMA InvFacts ==
  ASSUME TimersInv
  PROVE  /\ None \notin Timers \cup Ports
         /\ timer \in [DOMAIN timer -> Fields] /\ DOMAIN timer \subseteq Timers
         /\ \A t \in DOMAIN timer : /\ timer[t].wakeup \in Nat /\ timer[t].id \in Nat /\ timer[t].ms \in Nat
                                    /\ timer[t].active \in BOOLEAN /\ timer[t].repeating \in BOOLEAN
         /\ ToSet(heap) \subseteq DOMAIN timer /\ ToSet(zeroTimers) \subseteq DOMAIN timer
         /\ ToSet(pendingTimers) \subseteq DOMAIN timer
         /\ zeroTimers # <<>> => port # None
<1>1. None \notin Timers \cup Ports
  BY TimersAssumption
<1>2. timer \in [DOMAIN timer -> Fields] /\ DOMAIN timer \subseteq Timers
  BY DEF TimersInv, Queues
<1>3. \A t \in DOMAIN timer : timer[t] \in Fields
  BY <1>2
<1>4. ToSet(heap) \subseteq DOMAIN timer /\ ToSet(zeroTimers) \subseteq DOMAIN timer /\ ToSet(pendingTimers) \subseteq DOMAIN timer
  BY DEF TimersInv, Queues, ToSet
<1>5. zeroTimers # <<>> => port \in Ports
  <2>1. PICK D : zeroTimers \in Seq(D)
    BY DEF TimersInv, Queues
  <2>2. queue \in Seq(Ports \X Events) /\ Matching(queue, port, zeroTimers)
    BY DEF TimersInv, TypeInv
  <2>3. \A q \in Seq(Ports \X Events) : \A x : Matching(q, x, zeroTimers) /\ zeroTimers # <<>> => x \in Ports
    BY ONLY <2>1, MatchingPort
  <2> QED
    BY ONLY <2>2, <2>3
<1> QED
  BY <1>1, <1>2, <1>3, <1>4, <1>5 DEF Fields

\* new _Timer()
LEMMA CreateTimerKeeps ==
  ASSUME TimersInv, NEW d \in Int, NEW rep \in BOOLEAN, CreateTimer(d, rep)
  PROVE  TimersInv'
<1>1. PICK t : t = CHOOSE u \in NewTimers : TRUE
  OBVIOUS
<1>2. PICK ms : ms = IF d < 0 THEN 0 ELSE d
  OBVIOUS
<1>3. PICK new : new = [active |-> TRUE, ms |-> ms, repeating |-> rep, id |-> idCount,
                        wakeup |-> IF ms = 0 THEN now ELSE now + 1 + ms]
  OBVIOUS
<1>4. PICK f : f = [u \in DOMAIN timer \cup {t} |-> IF u = t THEN new ELSE timer[u]]
  OBVIOUS
<1>5. /\ ProgramRuns /\ NewTimers # {}
      /\ timer' = f /\ idCount' = NextId
      /\ Enqueue(f, t)
      /\ UNCHANGED <<pendingTimers, running, phase, now, timeouts_, timer_fd_>>
  BY <1>1, <1>2, <1>3, <1>4 DEF CreateTimer
<1>6. t \in Timers /\ t \notin DOMAIN timer /\ t # running
  BY <1>1, <1>5 DEF NewTimers
<1>7. TypeInv /\ now \in Nat /\ idCount \in Nat
  BY DEF TimersInv, TypeInv
<1>8. new \in Fields /\ (new.ms = 0 => new.wakeup <= now)
  <2>1. ms \in Nat
    BY <1>2
  <2> QED
    BY <1>3, <1>7, <2>1 DEF Fields
<1>9. f \in [DOMAIN f -> Fields] /\ DOMAIN f = DOMAIN timer \cup {t} /\ f[t] = new /\ \A u \in DOMAIN timer : f[u] = timer[u]
  <2>1. \A u \in DOMAIN timer : timer[u] \in Fields
    BY InvFacts
  <2> QED
    BY <1>4, <1>6, <1>8, <2>1
<1>10. Queues(f, heap, zeroTimers, pendingTimers, running, now)
  <2>1. Queues(timer, heap, zeroTimers, pendingTimers, running, now)
    BY DEF TimersInv
  <2>2. running \notin ToSet(heap) \cup ToSet(zeroTimers) \cup ToSet(pendingTimers)
    BY <2>1 DEF Queues
  <2>3. DOMAIN f \subseteq Timers /\ ToSet(heap) \cup ToSet(zeroTimers) \cup ToSet(pendingTimers) \subseteq DOMAIN f
    BY <1>6, <1>9, InvFacts
  <2>4. \A u \in ToSet(heap) \cup ToSet(zeroTimers) : f[u].wakeup = timer[u].wakeup /\ f[u].id = timer[u].id
    BY <1>9, InvFacts
  <2>5. now <= now
    BY <1>7
  <2> QED
    BY <1>7, <1>9, <2>1, <2>2, <2>3, <2>4, <2>5, QueuesFrame
<1>11. t \in DOMAIN f /\ t \notin ToSet(heap) \cup ToSet(zeroTimers) \cup ToSet(pendingTimers) \cup {running}
  BY <1>6, <1>9, InvFacts
<1>12. /\ Queues(f, heap', zeroTimers', pendingTimers, running, now) /\ Matching(queue', port', zeroTimers')
       /\ PortTypes' /\ queue' \in Seq(Ports \X Events)
  <2>1. Matching(queue, port, zeroTimers) /\ (f[t].ms = 0 => f[t].wakeup <= now)
    BY <1>8, <1>9 DEF TimersInv
  <2> QED
    BY <1>5, <1>7, <1>10, <1>11, <2>1, EnqueueKeeps
<1>13. idCount' \in Nat
  BY <1>5, <1>7, TimersAssumption DEF NextId
<1>14. TypeInv'
  BY <1>5, <1>7, <1>12, <1>13 DEF TypeInv, PortTypes
<1> QED
  BY <1>5, <1>12, <1>14 DEF TimersInv

\* cancel()
LEMMA CancelTimerKeeps ==
  ASSUME TimersInv, NEW t, CancelTimer(t)
  PROVE  TimersInv'
<1> DEFINE h == HeapRemove(timer, heap, t)
<1>1. /\ t \in DOMAIN timer
      /\ timer' = IF Contains(zeroTimers \o pendingTimers, t) THEN [timer EXCEPT ![t].active = FALSE] ELSE Without(t)
      /\ UNCHANGED <<zeroTimers, idCount, pendingTimers, running, phase, queue, now, timeouts_, timer_fd_>>
  BY DEF CancelTimer
<1>2. \/ ~Contains(heap, t) /\ UNCHANGED <<heap, port, scheduledWakeupTime, pipe>>
      \/ /\ Contains(heap, t) /\ heap' = h
         /\ \/ NotifyEventHandler(timer', h, zeroTimers, scheduledWakeupTime)
            \/ UNCHANGED <<port, scheduledWakeupTime, pipe>>
  BY DEF CancelTimer
<1> HIDE DEF h
<1>3. TypeInv /\ now \in Nat /\ Queues(timer, heap, zeroTimers, pendingTimers, running, now)
  BY DEF TimersInv, TypeInv
<1>4. heap \in Seq(DOMAIN timer) /\ zeroTimers \in Seq(DOMAIN timer) /\ pendingTimers \in Seq(DOMAIN timer)
  BY <1>3 DEF Queues
<1>5. Contains(heap, t) <=> t \in ToSet(heap)
  BY <1>4 DEF Contains, ToSet
<1>6. Contains(zeroTimers \o pendingTimers, t) <=> t \in ToSet(zeroTimers) \cup ToSet(pendingTimers)
  <2>1. \A D : \A a, b \in Seq(D) : Contains(a \o b, t) <=> t \in ToSet(a) \cup ToSet(b)
    <3> SUFFICES ASSUME NEW D, NEW a \in Seq(D), NEW b \in Seq(D)
                 PROVE  Contains(a \o b, t) <=> t \in ToSet(a) \cup ToSet(b)
      OBVIOUS
    <3>1. Len(a) \in Nat /\ Len(b) \in Nat /\ Len(a \o b) = Len(a) + Len(b) /\ DOMAIN a = 1 .. Len(a) /\ DOMAIN b = 1 .. Len(b)
      OBVIOUS
    <3>2. \A x \in 1 .. Len(a) + Len(b) : (a \o b)[x] = IF x <= Len(a) THEN a[x] ELSE b[x - Len(a)]
      OBVIOUS
    <3>3. ASSUME NEW x \in 1 .. Len(a)  PROVE x \in 1 .. Len(a) + Len(b) /\ (a \o b)[x] = a[x]
      BY <3>1, <3>2
    <3>4. ASSUME NEW x \in 1 .. Len(b)  PROVE Len(a) + x \in 1 .. Len(a) + Len(b) /\ (a \o b)[Len(a) + x] = b[x]
      <4>1. Len(a) + x \in 1 .. Len(a) + Len(b) /\ ~(Len(a) + x <= Len(a)) /\ (Len(a) + x) - Len(a) = x
        BY <3>1
      <4> QED
        BY <3>2, <4>1
    <3>5. ASSUME NEW x \in 1 .. Len(a) + Len(b)
          PROVE  \/ x \in 1 .. Len(a) /\ (a \o b)[x] = a[x]
                 \/ x - Len(a) \in 1 .. Len(b) /\ (a \o b)[x] = b[x - Len(a)]
      BY <3>1, <3>2
    <3>6. t \in ToSet(a) \cup ToSet(b) => Contains(a \o b, t)
      BY <3>1, <3>3, <3>4 DEF Contains, ToSet
    <3>7. Contains(a \o b, t) => t \in ToSet(a) \cup ToSet(b)
      BY <3>1, <3>5 DEF Contains, ToSet
    <3> QED
      BY <3>6, <3>7
  <2> QED
    BY <1>4, <2>1
<1>7. ToSet(heap') = ToSet(heap) \ {t} /\ Queues(timer, heap', zeroTimers, pendingTimers, running, now)
  <2>1. CASE t \in ToSet(heap)
    BY <1>2, <1>3, <1>5, <2>1, QueuesRemove DEF h
  <2>2. CASE t \notin ToSet(heap)
    BY <1>2, <1>3, <1>5, <2>2
  <2> QED
    BY <2>1, <2>2
<1>8. /\ timer' \in [DOMAIN timer' -> Fields] /\ DOMAIN timer' \subseteq Timers
      /\ \A u \in DOMAIN timer \ {t} : u \in DOMAIN timer' /\ timer'[u] = timer[u]
      /\ t \in ToSet(zeroTimers) \cup ToSet(pendingTimers) =>
           t \in DOMAIN timer' /\ timer'[t].wakeup = timer[t].wakeup /\ timer'[t].id = timer[t].id
  <2>1. \A u \in DOMAIN timer : timer[u] \in Fields /\ u \in Timers
    BY InvFacts
  <2>2. CASE t \in ToSet(zeroTimers) \cup ToSet(pendingTimers)
    <3>1. timer' = [timer EXCEPT ![t].active = FALSE]
      BY <1>1, <1>6, <2>2
    <3>2. [timer[t] EXCEPT !.active = FALSE] \in Fields
      BY <1>1, <2>1 DEF Fields
    <3>3. [timer[t] EXCEPT !.active = FALSE].wakeup = timer[t].wakeup /\ [timer[t] EXCEPT !.active = FALSE].id = timer[t].id
      BY <1>1, <2>1 DEF Fields
    <3>4. DOMAIN timer' = DOMAIN timer /\ timer'[t] = [timer[t] EXCEPT !.active = FALSE] /\ \A u \in DOMAIN timer \ {t} : timer'[u] = timer[u]
      BY <1>1, <3>1
    <3>5. timer' \in [DOMAIN timer' -> Fields]
      <4>1. \A u \in DOMAIN timer : timer'[u] \in Fields
        BY <2>1, <3>2, <3>4
      <4>2. timer' = [u \in DOMAIN timer' |-> timer'[u]]
        BY <3>1
      <4> QED
        BY <3>4, <4>1, <4>2
    <3> QED
      BY <1>1, <2>1, <3>3, <3>4, <3>5
  <2>3. CASE t \notin ToSet(zeroTimers) \cup ToSet(pendingTimers)
    BY <1>1, <1>6, <2>1, <2>3 DEF Without
  <2> QED
    BY <2>2, <2>3
<1>9. Queues(timer', heap', zeroTimers', pendingTimers', running', now')
  <2>1. ToSet(heap') \cup ToSet(zeroTimers) \cup ToSet(pendingTimers) \subseteq DOMAIN timer'
    BY <1>7, <1>8, InvFacts
  <2>2. \A u \in ToSet(heap') \cup ToSet(zeroTimers) : timer'[u].wakeup = timer[u].wakeup /\ timer'[u].id = timer[u].id
    BY <1>7, <1>8, InvFacts
  <2>3. running \notin ToSet(heap') \cup ToSet(zeroTimers) \cup ToSet(pendingTimers) /\ now <= now
    BY <1>3, <1>7 DEF Queues
  <2>4. Queues(timer', heap', zeroTimers, pendingTimers, running, now)
    BY <1>3, <1>7, <1>8, <2>1, <2>2, <2>3, QueuesFrame
  <2> QED
    BY <1>1, <2>4
<1>10. PortTypes' /\ (port' = port \/ zeroTimers = <<>>)
  <2>1. PortTypes
    BY <1>3 DEF TypeInv, PortTypes
  <2>2. CASE NotifyEventHandler(timer', heap', zeroTimers, scheduledWakeupTime)
    <3>1. heap' # <<>> => timer'[heap'[1]].wakeup \in Nat
      <4>1. heap' # <<>> => heap'[1] \in DOMAIN timer'
        BY <1>9 DEF Queues
      <4> QED
        BY <1>8, <4>1 DEF Fields
    <3>2. (zeroTimers # <<>> => port # None) /\ scheduledWakeupTime \in Nat \cup {NoTime}
      BY <1>3, InvFacts DEF TypeInv
    <3> QED
      BY <1>3, <2>2, <3>1, <3>2, NotifyTypes
  <2>3. CASE UNCHANGED <<port, scheduledWakeupTime, pipe>>
    BY <2>1, <2>3 DEF PortTypes
  <2> QED
    BY <1>2, <2>2, <2>3
<1>11. Matching(queue', port', zeroTimers')
  <2>1. Matching(queue, port, zeroTimers) /\ queue \in Seq(Ports \X Events)
    BY <1>3 DEF TimersInv, TypeInv
  <2>2. Matching(queue, port', zeroTimers)
    BY <1>4, <1>10, <2>1, MatchingPort
  <2> QED
    BY <1>1, <2>2
<1>12. TypeInv'
  BY <1>1, <1>3, <1>10 DEF TypeInv, PortTypes
<1> QED
  BY <1>9, <1>11, <1>12 DEF TimersInv


\* The first message is taken from the queue.
LEMMA MessageTaken ==
  ASSUME TimersInv, queue # <<>>, queue' = Tail(queue)
  PROVE  /\ queue' \in Seq(Ports \X Events) /\ queue[1] \in Ports \X Events
         /\ queue[1][2] = "ZERO_EVENT" => zeroTimers # <<>> /\ Matching(queue', port, Tail(zeroTimers))
         /\ queue[1][2] # "ZERO_EVENT" => Matching(queue', port, zeroTimers)
<1>1. queue \in Seq(Ports \X Events) /\ Matching(queue, port, zeroTimers) /\ zeroTimers \in Seq(DOMAIN timer)
  BY DEF TimersInv, TypeInv, Queues
<1>2. queue' \in Seq(Ports \X Events) /\ queue[1] \in Ports \X Events
  BY <1>1, Shortened
<1> QED
  BY <1>1, <1>2, MatchingShortened

\* _runTimers() up to its loop.
LEMMA RunTimersKeeps ==
  ASSUME TimersInv, phase = "idle", NEW h, NEW z, NEW b, NEW scheduled \in Nat \cup {NoTime},
         RunTimers(h, z, b, scheduled), Queues(timer, h, z, b, running, now),
         Matching(queue', port, z), queue' \in Seq(Ports \X Events),
         z # <<>> => port # None, UNCHANGED <<timer, running, now, timeouts_, timer_fd_>>
  PROVE  TimersInv'
<1>1. /\ heap' = h /\ zeroTimers' = z /\ pendingTimers' = b
      /\ idCount' = IF h = <<>> /\ z = <<>> THEN 0 ELSE idCount
      /\ \/ b = <<>> /\ NotifyEventHandler(timer, h, z, scheduled) /\ UNCHANGED phase
         \/ /\ b # <<>> /\ phase' = "next"
            /\ scheduledWakeupTime' = scheduled /\ UNCHANGED <<port, pipe>>
  BY DEF RunTimers
<1>2. TypeInv /\ PortTypes
  BY DEF TimersInv, TypeInv, PortTypes
<1>3. PortTypes' /\ (port' = port \/ z = <<>>)
  <2>1. CASE NotifyEventHandler(timer, h, z, scheduled)
    <3>1. h # <<>> => h[1] \in DOMAIN timer
      BY DEF Queues
    <3>2. h # <<>> => timer[h[1]].wakeup \in Nat
      BY <3>1, InvFacts
    <3> QED
      BY <1>2, <2>1, <3>2, NotifyTypes
  <2>2. CASE scheduledWakeupTime' = scheduled /\ UNCHANGED <<port, pipe>>
    BY <1>2, <2>2 DEF PortTypes
  <2> QED
    BY <1>1, <2>1, <2>2
<1>4. Matching(queue', port', z)
  <2>1. z \in Seq(DOMAIN timer)
    BY DEF Queues
  <2>2. PICK q : q = queue'
    OBVIOUS
  <2>3. Matching(q, port', z)
    BY <1>3, <2>1, <2>2, MatchingPort
  <2> QED
    BY <2>2, <2>3
<1>5. TypeInv'
  <2>1. idCount' \in Nat /\ now' \in Nat /\ timeouts_' \in Seq(Ports \X Nat) /\ timer_fd_' \in Nat \cup {NoTime}
    BY <1>1, <1>2 DEF TypeInv
  <2>2. phase' \in {"idle", "next", "callback", "microtasks", "dead"}
    BY <1>1
  <2>3. (phase' \in {"idle", "dead"} => pendingTimers' = <<>>) /\ (phase' # "callback" => running' = None)
    BY <1>1, <1>2 DEF TypeInv
  <2> QED
    BY <1>3, <2>1, <2>2, <2>3 DEF TypeInv, PortTypes
<1> QED
  BY <1>1, <1>4, <1>5 DEF TimersInv

\* _handleMessage() of either event.
LEMMA HandleEventKeeps ==
  ASSUME TimersInv, HandleZeroEvent \/ HandleTimeoutEvent
  PROVE  TimersInv'
<1>1. Queues(timer, heap, zeroTimers, <<>>, running, now) /\ phase = "idle" /\ queue # <<>> /\ queue' = Tail(queue)
        /\ scheduledWakeupTime \in Nat \cup {NoTime} /\ UNCHANGED <<timer, running, now, timeouts_, timer_fd_>>
  BY DEF TimersInv, TypeInv, HandleZeroEvent, HandleTimeoutEvent, NextMessage
<1>2. queue' \in Seq(Ports \X Events)
  BY <1>1, MessageTaken
<1>3. zeroTimers # <<>> => port # None
  BY InvFacts
<1>4. CASE HandleZeroEvent
  <2>1. PICK p : p = Popped(timer, heap, {t \in DOMAIN timer : Before(timer, t, zeroTimers[1])})
    OBVIOUS
  <2>2. /\ queue[1] = <<port, "ZERO_EVENT">>
        /\ RunTimers(p.heap, Tail(zeroTimers), Append(p.batch, zeroTimers[1]), scheduledWakeupTime)
    BY <1>4, <2>1 DEF HandleZeroEvent, NextMessage
  <2>3. zeroTimers # <<>> /\ Matching(queue', port, Tail(zeroTimers))
    BY <1>1, <2>2, MessageTaken
  <2>4. Queues(timer, p.heap, Tail(zeroTimers), Append(p.batch, zeroTimers[1]), running, now)
    BY <1>1, <2>1, <2>3, QueuesPop
  <2> QED
    BY <1>1, <1>2, <1>3, <2>2, <2>3, <2>4, RunTimersKeeps
<1>5. CASE HandleTimeoutEvent
  <2>1. PICK p : p = Popped(timer, heap, IF zeroTimers # <<>> THEN {t \in DOMAIN timer : Before(timer, t, zeroTimers[1])}
                                         ELSE {t \in DOMAIN timer : timer[t].wakeup <= now})
    OBVIOUS
  <2>2. queue[1] = <<port, "TIMEOUT_EVENT">> /\ RunTimers(p.heap, zeroTimers, p.batch, NoTime)
    BY <1>5, <2>1 DEF HandleTimeoutEvent, NextMessage
  <2>3. Matching(queue', port, zeroTimers)
    BY <1>1, <2>2, MessageTaken
  <2>4. Queues(timer, p.heap, zeroTimers, p.batch, running, now)
    BY <1>1, <2>1, QueuesPop
  <2> QED
    BY <1>1, <1>2, <1>3, <2>2, <2>3, <2>4, RunTimersKeeps
<1> QED
  BY <1>4, <1>5

\* The next turn of the loop of _runTimers().
LEMMA NextPendingKeeps ==
  ASSUME TimersInv, NextPending
  PROVE  TimersInv'
<1>1. PICK t : t = pendingTimers[1]
  OBVIOUS
<1>2. PICK again : again = (timer[t].active /\ timer[t].repeating)
  OBVIOUS
<1>3. /\ phase \in {"next", "microtasks"} /\ pendingTimers # <<>>
      /\ pendingTimers' = Tail(pendingTimers)
      /\ timer' = IF again THEN timer ELSE Without(t)
      /\ running' = IF again THEN t ELSE None
      /\ phase' = IF timer[t].active THEN "callback" ELSE "next"
      /\ UNCHANGED <<heap, zeroTimers, idCount, port, scheduledWakeupTime, queue, now, eventVars>>
  BY <1>1, <1>2 DEF NextPending
<1>4. TypeInv /\ now \in Nat /\ Queues(timer, heap, zeroTimers, pendingTimers, running, now)
  BY DEF TimersInv, TypeInv
<1>5. Queues(timer, heap, zeroTimers, pendingTimers', t, now) /\ t \in DOMAIN timer
  BY <1>1, <1>3, <1>4, QueuesNext
<1>6. t \notin ToSet(heap) \cup ToSet(zeroTimers) \cup ToSet(pendingTimers')
  BY <1>5 DEF Queues
<1>7. pendingTimers' \in Seq(DOMAIN timer)
  BY <1>5 DEF Queues
<1>8. ToSet(pendingTimers') \subseteq DOMAIN timer
  BY <1>7 DEF ToSet
<1>9. Queues(timer', heap, zeroTimers, pendingTimers', running', now)
  <2>1. CASE again
    BY <1>3, <1>5, <2>1
  <2>2. CASE ~again
    <3>1. timer' = Without(t) /\ running' = None
      BY <1>3, <2>2
    <3>2. timer' \in [DOMAIN timer' -> Fields] /\ DOMAIN timer' = DOMAIN timer \ {t} /\ \A u \in DOMAIN timer' : timer'[u] = timer[u]
      BY <3>1, InvFacts DEF Without
    <3>3. None \notin ToSet(heap) \cup ToSet(zeroTimers) \cup ToSet(pendingTimers')
      BY <1>8, InvFacts
    <3>4. DOMAIN timer' \subseteq Timers /\ ToSet(heap) \cup ToSet(zeroTimers) \cup ToSet(pendingTimers') \subseteq DOMAIN timer'
      BY <1>6, <1>8, <3>2, InvFacts
    <3>5. \A u \in ToSet(heap) \cup ToSet(zeroTimers) : timer'[u].wakeup = timer[u].wakeup /\ timer'[u].id = timer[u].id
      BY <3>2, <3>4
    <3>6. now <= now
      BY <1>4
    <3>7. PICK b : b = pendingTimers'
      OBVIOUS
    <3>8. Queues(timer', heap, zeroTimers, b, None, now)
      BY <1>4, <1>5, <3>2, <3>3, <3>4, <3>5, <3>6, <3>7, QueuesFrame
    <3> QED
      BY <3>1, <3>7, <3>8
  <2> QED
    BY <1>2, <2>1, <2>2
<1>10. TypeInv'
  <2>1. timer[t].active \in BOOLEAN
    BY <1>5, InvFacts
  <2>2. phase' \in {"callback", "next"} /\ (phase' # "callback" => running' = None)
    BY <1>2, <1>3, <2>1
  <2> QED
    BY <1>3, <1>4, <2>2 DEF TypeInv, eventVars
<1>11. Matching(queue', port', zeroTimers')
  BY <1>3 DEF TimersInv
<1> QED
  BY <1>3, <1>9, <1>10, <1>11 DEF TimersInv

\* The callback returns.
LEMMA CallbackReturnsKeeps ==
  ASSUME TimersInv, CallbackReturns
  PROVE  TimersInv'
<1>1. PICK t : t = running
  OBVIOUS
<1>2. PICK f : f = [timer EXCEPT ![t].id = idCount,
                                 ![t].wakeup = IF timer[t].ms > 0 THEN @ + timer[t].ms ELSE now]
  OBVIOUS
<1>3. /\ phase = "callback" /\ phase' = "microtasks" /\ running' = None
      /\ IF t \in DOMAIN timer
         THEN timer' = f /\ idCount' = NextId /\ Enqueue(f, t)
         ELSE UNCHANGED <<timer, heap, zeroTimers, idCount, port, scheduledWakeupTime, queue, pipe>>
      /\ UNCHANGED <<pendingTimers, now, timeouts_, timer_fd_>>
  BY <1>1, <1>2 DEF CallbackReturns
<1>4. TypeInv /\ now \in Nat /\ idCount \in Nat /\ Queues(timer, heap, zeroTimers, pendingTimers, running, now)
  BY DEF TimersInv, TypeInv
<1>5. None \notin ToSet(heap) \cup ToSet(zeroTimers) \cup ToSet(pendingTimers) /\ now <= now
  BY <1>4, InvFacts
<1>6. t \notin ToSet(heap) \cup ToSet(zeroTimers) \cup ToSet(pendingTimers)
  BY <1>1, <1>4 DEF Queues
<1>7. CASE t \notin DOMAIN timer
  <2>1. Queues(timer, heap, zeroTimers, pendingTimers, None, now)
    BY <1>4, <1>5, InvFacts, QueuesFrame
  <2>2. TypeInv'
    BY <1>3, <1>4, <1>7 DEF TypeInv
  <2>3. Queues(timer, heap, zeroTimers, pendingTimers, None, now)'
    BY <1>3, <1>7, <2>1
  <2> QED
    BY <1>3, <1>7, <2>1, <2>2 DEF TimersInv
<1>8. CASE t \in DOMAIN timer
  <2>1. timer' = f /\ idCount' = NextId /\ Enqueue(f, t)
    BY <1>3, <1>8
  <2>2. PICK new : new = [timer[t] EXCEPT !.id = idCount, !.wakeup = IF timer[t].ms > 0 THEN @ + timer[t].ms ELSE now]
    OBVIOUS
  <2>3. new \in Fields /\ (new.ms = 0 => new.wakeup <= now)
    <3>1. timer[t] \in Fields /\ timer[t].ms \in Nat /\ timer[t].wakeup \in Nat
      BY <1>8, InvFacts
    <3>2. PICK w : w = IF timer[t].ms > 0 THEN timer[t].wakeup + timer[t].ms ELSE now
      OBVIOUS
    <3>3. w \in Nat /\ (timer[t].ms = 0 => w = now)
      BY <1>4, <3>1, <3>2
    <3>4. new = [timer[t] EXCEPT !.id = idCount, !.wakeup = w]
      BY <2>2, <3>1, <3>2 DEF Fields
    <3>5. new \in Fields
      BY <1>4, <3>1, <3>3, <3>4 DEF Fields
    <3>6. new.ms = timer[t].ms /\ new.wakeup = w
      BY <3>1, <3>4 DEF Fields
    <3> QED
      BY <1>4, <3>3, <3>5, <3>6
  <2>4. DOMAIN f = DOMAIN timer /\ f[t] = new /\ \A u \in DOMAIN timer \ {t} : f[u] = timer[u]
    <3>1. timer[t] \in Fields
      BY <1>8, InvFacts
    <3> QED
      BY <1>2, <1>8, <2>2, <3>1 DEF Fields
  <2>5. f \in [DOMAIN f -> Fields] /\ DOMAIN f \subseteq Timers
    <3>1. \A u \in DOMAIN timer : f[u] \in Fields
      BY <2>3, <2>4, InvFacts
    <3>2. f = [u \in DOMAIN f |-> f[u]]
      BY <1>2
    <3> QED
      BY <2>4, <3>1, <3>2, InvFacts
  <2>6. Queues(f, heap, zeroTimers, pendingTimers, None, now)
    <3>1. ToSet(heap) \cup ToSet(zeroTimers) \cup ToSet(pendingTimers) \subseteq DOMAIN f
      BY <2>4, InvFacts
    <3>2. \A u \in ToSet(heap) \cup ToSet(zeroTimers) : f[u].wakeup = timer[u].wakeup /\ f[u].id = timer[u].id
      BY <1>6, <2>4, InvFacts
    <3> QED
      BY <1>4, <1>5, <2>5, <3>1, <3>2, QueuesFrame
  <2>7. /\ Queues(f, heap', zeroTimers', pendingTimers, None, now) /\ Matching(queue', port', zeroTimers')
        /\ PortTypes' /\ queue' \in Seq(Ports \X Events)
    <3>1. t # None /\ t \in DOMAIN f
      BY <1>8, <2>4, InvFacts
    <3>2. Matching(queue, port, zeroTimers) /\ (f[t].ms = 0 => f[t].wakeup <= now)
      BY <2>3, <2>4 DEF TimersInv
    <3> QED
      BY <1>4, <1>6, <2>1, <2>6, <3>1, <3>2, EnqueueKeeps
  <2>8. idCount' \in Nat
    BY <1>4, <2>1, TimersAssumption DEF NextId
  <2>9. TypeInv'
    BY <1>3, <1>4, <2>7, <2>8 DEF TypeInv, PortTypes
  <2> QED
    BY <1>3, <2>1, <2>7, <2>9 DEF TimersInv
<1> QED
  BY <1>7, <1>8


\* An uncaught error.
LEMMA ThrowKeeps ==
  ASSUME TimersInv, Throw
  PROVE  TimersInv'
<1>1. TypeInv /\ now \in Nat /\ Queues(timer, heap, zeroTimers, pendingTimers, running, now)
  BY DEF TimersInv, TypeInv
<1>2. <<>> \in Seq(DOMAIN timer) /\ ToSet(<<>>) = {} /\ IsInjective(<<>>)
  BY DEF ToSet, IsInjective
<1>3. pendingTimers' = <<>> /\ running' = None /\ UNCHANGED <<now, eventVars>>
  BY DEF Throw
<1>4. CASE NonFatal
  <2>1. phase' = "idle" /\ UNCHANGED <<timer, heap, zeroTimers, idCount, port, scheduledWakeupTime, queue>>
    BY <1>4 DEF Throw
  <2>2. None \notin ToSet(heap) \cup ToSet(zeroTimers)
    BY InvFacts
  <2>3. Queues(timer, heap, zeroTimers, <<>>, None, now)
    BY <1>1, <1>2, <2>2 DEF Queues
  <2>4. TypeInv'
    BY <1>1, <1>3, <2>1 DEF TypeInv, eventVars
  <2>5. Matching(queue, port, zeroTimers)
    BY DEF TimersInv
  <2> QED
    BY <1>3, <2>1, <2>3, <2>4, <2>5 DEF TimersInv
<1>5. CASE ~NonFatal
  <2>1. /\ phase' = "dead" /\ timer' = <<>> /\ heap' = <<>> /\ zeroTimers' = <<>> /\ idCount' = 0
        /\ port' = None /\ scheduledWakeupTime' = NoTime /\ queue' = <<>>
    BY <1>5 DEF Throw
  <2>2. Queues(<<>>, <<>>, <<>>, <<>>, None, now)
    <3>1. <<>> \in [DOMAIN <<>> -> Fields] /\ DOMAIN <<>> = {} /\ <<>> \in Seq(DOMAIN <<>>) /\ Len(<<>>) = 0
      OBVIOUS
    <3>2. IsHeap(<<>>, <<>>)
      BY <3>1 DEF IsHeap
    <3> QED
      BY <1>2, <3>1, <3>2 DEF Queues
  <2>3. Matching(<<>>, None, <<>>)
    <3>1. ZeroEvents(<<>>) = {} /\ Len(<<>>) = 0
      BY DEF ZeroEvents
    <3> QED
      BY <3>1, FS_EmptySet DEF Matching
  <2>4. TypeInv'
    BY <1>1, <1>3, <2>1 DEF TypeInv, eventVars
  <2> QED
    BY <1>3, <2>1, <2>2, <2>3, <2>4 DEF TimersInv
<1> QED
  BY <1>4, <1>5

\* The end of _handleMessage().
LEMMA TimersRunKeeps ==
  ASSUME TimersInv, TimersRun
  PROVE  TimersInv'
<1>1. /\ phase \in {"next", "microtasks"} /\ pendingTimers = <<>> /\ phase' = "idle"
      /\ NotifyEventHandler(timer, heap, zeroTimers, scheduledWakeupTime)
      /\ UNCHANGED <<timer, heap, zeroTimers, idCount, pendingTimers, running, queue, now, timeouts_, timer_fd_>>
  BY DEF TimersRun
<1>2. /\ TypeInv /\ Queues(timer, heap, zeroTimers, pendingTimers, running, now)
      /\ queue \in Seq(Ports \X Events) /\ Matching(queue, port, zeroTimers)
      /\ scheduledWakeupTime \in Nat \cup {NoTime} /\ zeroTimers \in Seq(DOMAIN timer)
  BY DEF TimersInv, TypeInv, Queues
<1>3. heap # <<>> => heap[1] \in DOMAIN timer
  BY <1>2 DEF Queues
<1>4. PortTypes' /\ (port' = port \/ zeroTimers = <<>>)
  BY <1>1, <1>2, <1>3, InvFacts, NotifyTypes
<1>5. Matching(queue, port', zeroTimers)
  BY <1>2, <1>4, MatchingPort
<1>6. TypeInv'
  BY <1>1, <1>2, <1>4 DEF TypeInv, PortTypes
<1> QED
  BY <1>1, <1>2, <1>5, <1>6 DEF TimersInv

\* The next timeout, or none.
LEMMA TimerFdTypes ==
  ASSUME NEW q \in Seq(Ports \X Nat)
  PROVE  TimerFdFor(q) \in Nat \cup {NoTime}
<1>1. CASE q = <<>>
  BY <1>1 DEF TimerFdFor
<1>2. CASE q # <<>>
  <2>1. NextTimeout(q) \in DOMAIN q
    BY <1>2, NextTimeoutRight
  <2>2. q[NextTimeout(q)] \in Ports \X Nat
    BY <2>1
  <2> QED
    BY <1>2, <2>2 DEF TimerFdFor
<1> QED
  BY <1>1, <1>2

\* The event handler's thread.
LEMMA EventHandlerKeeps ==
  ASSUME TimersInv, HandleInterrupt \/ HandleTimerFd
  PROVE  TimersInv'
<1>1. /\ TypeInv /\ Queues(timer, heap, zeroTimers, pendingTimers, running, now)
      /\ pipe \in Seq(Ports \X (Nat \cup {NO_TIMER})) /\ timeouts_ \in Seq(Ports \X Nat)
      /\ queue \in Seq(Ports \X Events) /\ Matching(queue, port, zeroTimers)
      /\ zeroTimers \in Seq(DOMAIN timer)
  BY DEF TimersInv, TypeInv, Queues
<1>2. CASE HandleInterrupt
  <2>1. /\ pipe # <<>> /\ pipe' = Tail(pipe)
        /\ timeouts_' = UpdateTimeout(timeouts_, pipe[1][1], pipe[1][2]) /\ timer_fd_' = TimerFdFor(timeouts_')
        /\ UNCHANGED <<timerVars, queue, now>>
    BY <1>2 DEF HandleInterrupt, HandleInterruptFd
  <2>2. pipe' \in Seq(Ports \X (Nat \cup {NO_TIMER})) /\ pipe[1] \in Ports \X (Nat \cup {NO_TIMER})
    BY <1>1, <2>1, Shortened
  <2>3. pipe[1][1] \in Ports /\ pipe[1][2] \in Nat \cup {NO_TIMER}
    BY <2>2
  <2>4. timeouts_' \in Seq(Ports \X Nat)
    BY <1>1, <2>1, <2>3, UpdateTimeoutRight DEF Updated
  <2>5. timer_fd_' \in Nat \cup {NoTime}
    BY <2>1, <2>4, TimerFdTypes
  <2>6. TypeInv'
    BY <1>1, <2>1, <2>2, <2>4, <2>5 DEF TypeInv, timerVars
  <2> QED
    BY <1>1, <2>1, <2>6 DEF TimersInv, timerVars
<1>3. CASE HandleTimerFd
  <2>1. /\ timeouts_ # <<>> /\ queue' = Posted(CurrentPort, "TIMEOUT_EVENT")
        /\ timeouts_' = UpdateTimeout(timeouts_, CurrentPort, NO_TIMER)
        /\ timer_fd_' = NoTime /\ UNCHANGED <<pipe, timerVars, now>>
    BY <1>3 DEF HandleTimerFd, RemoveCurrent
  <2>2. CurrentPort \in Ports
    <3>1. NextTimeout(timeouts_) \in DOMAIN timeouts_
      BY <1>1, <2>1, NextTimeoutRight
    <3>2. timeouts_[NextTimeout(timeouts_)] \in Ports \X Nat
      BY <1>1, <3>1
    <3> QED
      BY <3>2 DEF CurrentPort
  <2>3. timeouts_' \in Seq(Ports \X Nat)
    BY <1>1, <2>1, <2>2, UpdateTimeoutRight DEF Updated
  <2>4. queue' \in Seq(Ports \X Events) /\ Matching(queue', port, zeroTimers)
    <3>1. CASE CurrentPort # port
      BY <1>1, <2>1, <3>1 DEF Posted
    <3>2. CASE CurrentPort = port
      <4>1. PICK p \in Ports : p = CurrentPort
        BY <2>2
      <4>2. queue' = Append(queue, <<p, "TIMEOUT_EVENT">>) /\ <<p, "TIMEOUT_EVENT">> \in Ports \X Events
        BY <2>1, <3>2, <4>1 DEF Posted, Events
      <4>3. Matching(Append(queue, <<p, "TIMEOUT_EVENT">>), port, zeroTimers)
        BY <1>1, MatchingAppended
      <4> QED
        BY <1>1, <4>2, <4>3
    <3> QED
      BY <3>1, <3>2
  <2>5. TypeInv'
    BY <1>1, <2>1, <2>3, <2>4 DEF TypeInv, timerVars
  <2> QED
    BY <1>1, <2>1, <2>4, <2>5 DEF TimersInv, timerVars
<1> QED
  BY <1>2, <1>3

\* Every step keeps the invariant.
LEMMA TimersInvStep == TimersInv /\ [Next]_vars => TimersInv'
<1> SUFFICES ASSUME TimersInv, [Next]_vars PROVE TimersInv'
  OBVIOUS
<1>1. /\ TypeInv /\ now \in Nat /\ Queues(timer, heap, zeroTimers, pendingTimers, running, now)
      /\ Matching(queue, port, zeroTimers)
  BY DEF TimersInv, TypeInv
<1>2. ASSUME NEW r \in Requests, CreateTimer(r[1], r[2])  PROVE TimersInv'
  <2>1. r \in Int \X BOOLEAN
    BY TimersAssumption
  <2>2. r[1] \in Int /\ r[2] \in BOOLEAN
    BY <2>1
  <2> QED
    BY <1>2, <2>2, CreateTimerKeeps
<1>3. ASSUME NEW t \in Timers, CancelTimer(t)  PROVE TimersInv'
  BY <1>3, CancelTimerKeeps
<1>4. CASE HandleZeroEvent \/ HandleTimeoutEvent
  BY <1>4, HandleEventKeeps
<1>5. CASE DropMessage
  <2>1. queue # <<>> /\ queue' = Tail(queue) /\ queue[1][1] # port /\ UNCHANGED <<timerVars, now, eventVars>>
    BY <1>5 DEF DropMessage
  <2>2. 1 \in DOMAIN queue /\ \A i \in ZeroEvents(queue) : queue[i][1] = port
    BY <1>1, <2>1 DEF TypeInv, Matching
  <2>3. queue[1][2] # "ZERO_EVENT"
    BY <2>1, <2>2 DEF ZeroEvents
  <2>4. queue' \in Seq(Ports \X Events) /\ Matching(queue', port, zeroTimers)
    BY <2>1, <2>3, MessageTaken
  <2>5. TypeInv'
    BY <1>1, <2>1, <2>4 DEF TypeInv, timerVars, eventVars
  <2> QED
    BY <1>1, <2>1, <2>4, <2>5 DEF TimersInv, timerVars
<1>6. CASE NextPending
  BY <1>6, NextPendingKeeps
<1>7. CASE CallbackReturns
  BY <1>7, CallbackReturnsKeeps
<1>8. CASE TimersRun
  BY <1>8, TimersRunKeeps
<1>9. CASE Throw
  BY <1>9, ThrowKeeps
<1>10. CASE HandleInterrupt \/ HandleTimerFd
  BY <1>10, EventHandlerKeeps
<1>11. CASE Tick
  <2>1. now' = now + 1 /\ UNCHANGED <<timerVars, queue, eventVars>>
    BY <1>11 DEF Tick
  <2>2. running \notin ToSet(heap) \cup ToSet(zeroTimers) \cup ToSet(pendingTimers) /\ now + 1 \in Nat /\ now <= now + 1
    BY <1>1 DEF Queues
  <2>3. Queues(timer, heap, zeroTimers, pendingTimers, running, now + 1)
    BY <1>1, <2>2, InvFacts, QueuesFrame
  <2>4. TypeInv'
    BY <1>1, <2>1, <2>2 DEF TypeInv, timerVars, eventVars
  <2> QED
    BY <1>1, <2>1, <2>3, <2>4 DEF TimersInv, timerVars
<1>12. CASE UNCHANGED vars
  BY <1>1, <1>12 DEF TimersInv, TypeInv, vars, timerVars, eventVars
<1> QED
  BY <1>2, <1>3, <1>4, <1>5, <1>6, <1>7, <1>8, <1>9, <1>10, <1>11, <1>12 DEF Next, IsolateStep

\* It holds at the start.
LEMMA TimersInvInit == Init => TimersInv
<1> SUFFICES ASSUME Init PROVE TimersInv
  OBVIOUS
<1>1. TypeInv
  BY DEF Init, IsolateInit, EventInit, TypeInv
<1>2. <<>> \in [DOMAIN <<>> -> Fields] /\ DOMAIN <<>> = {} /\ <<>> \in Seq(DOMAIN <<>>) /\ Len(<<>>) = 0
  OBVIOUS
<1>3. ToSet(<<>>) = {} /\ IsInjective(<<>>) /\ IsHeap(<<>>, <<>>) /\ ZeroEvents(<<>>) = {}
  BY <1>2 DEF ToSet, IsInjective, IsHeap, ZeroEvents
<1>4. Queues(timer, heap, zeroTimers, pendingTimers, running, now)
  BY <1>2, <1>3 DEF Init, IsolateInit, Queues
<1>5. Matching(queue, port, zeroTimers)
  BY <1>2, <1>3, FS_EmptySet DEF Init, IsolateInit, Matching
<1> QED
  BY <1>1, <1>4, <1>5 DEF TimersInv

\* The queues of timers, whatever programs create and cancel.
THEOREM TimersInvHolds == Spec => []TimersInv
BY TimersInvInit, TimersInvStep, PTL DEF Spec

\* The heap of the isolate is one, for any number of timers.
THEOREM HeapStaysOrderedHolds == Spec => []HeapStaysOrdered
<1>1. TimersInv => HeapStaysOrdered
  BY HeapOperationsAreCorrect DEF TimersInv, Queues, HeapStaysOrdered
<1> QED
  BY <1>1, TimersInvHolds, PTL

\* Each zero timer has exactly one event under way on the port that is open.
THEOREM ZeroEventsMatchHolds == Spec => []ZeroEventsMatch
<1>1. TimersInv => ZeroEventsMatch
  BY MatchingEnough DEF TimersInv
<1> QED
  BY <1>1, TimersInvHolds, PTL


\* A batch that _queueFromZeroEvent() and _queueFromTimeoutEvent() may hand over.
GoodBatch(b, h) ==
  \A i \in DOMAIN b :
    /\ timer[b[i]].wakeup <= now
    /\ \A j \in 1 .. i - 1 : ~Before(timer, b[i], b[j])
    /\ \A k \in DOMAIN h : ~Before(timer, h[k], b[i])

\* What is popped is due and in order, if those in the set due are.
LEMMA PoppedIsGood ==
  ASSUME TimersInv, NEW due, \A t \in due \cap DOMAIN timer : timer[t].wakeup <= now
  PROVE  GoodBatch(Popped(timer, heap, due).batch, Popped(timer, heap, due).heap)
<1>1. PICK g, b : g = Popped(timer, heap, due).heap /\ b = Popped(timer, heap, due).batch
  OBVIOUS
<1>2. heap \in Seq(DOMAIN timer) /\ IsHeap(timer, heap) /\ IsInjective(heap) /\ Comparable(timer)
  BY QueuesComparable DEF TimersInv, Queues
<1>3. g \in Seq(DOMAIN timer) /\ b \in Seq(DOMAIN timer) /\ PopInv(timer, heap, due, g, b)
  BY <1>1, <1>2, PoppedRight
<1> SUFFICES ASSUME NEW i \in DOMAIN b
             PROVE  /\ timer[b[i]].wakeup <= now
                    /\ \A j \in 1 .. i - 1 : ~Before(timer, b[i], b[j])
                    /\ \A k \in DOMAIN g : ~Before(timer, g[k], b[i])
  BY <1>1 DEF GoodBatch
<1>4. i \in 1 .. Len(b) /\ b[i] \in ToSet(b) /\ b[i] \in DOMAIN timer /\ Len(b) \in Nat
  BY <1>3 DEF ToSet
<1>5. timer[b[i]].wakeup <= now
  BY <1>3, <1>4 DEF PopInv
<1>6. ASSUME NEW j \in 1 .. i - 1  PROVE ~Before(timer, b[i], b[j])
  <2>1. j \in 1 .. Len(b) /\ j < i
    BY <1>4
  <2> QED
    BY <1>3, <1>4, <2>1 DEF PopInv
<1>7. ASSUME NEW k \in DOMAIN g  PROVE ~Before(timer, g[k], b[i])
  <2>1. g[k] \in ToSet(g)
    BY <1>3 DEF ToSet
  <2> QED
    BY <1>3, <1>4, <2>1 DEF PopInv
<1> QED
  BY <1>5, <1>6, <1>7

\* The zero timer whose event it is goes last.
LEMMA ZeroBatchIsGood ==
  ASSUME TimersInv, zeroTimers # <<>>
  PROVE  LET p == Popped(timer, heap, {t \in DOMAIN timer : Before(timer, t, zeroTimers[1])})
         IN  GoodBatch(p.batch, p.heap) /\ GoodBatch(Append(p.batch, zeroTimers[1]), p.heap)
<1>1. PICK z : z = zeroTimers[1]
  OBVIOUS
<1>2. PICK due : due = {t \in DOMAIN timer : Before(timer, t, z)}
  OBVIOUS
<1>3. PICK g, b : g = Popped(timer, heap, due).heap /\ b = Popped(timer, heap, due).batch
  OBVIOUS
<1>4. z \in DOMAIN timer /\ timer[z].wakeup <= now /\ now \in Nat
  <2>1. zeroTimers \in Seq(DOMAIN timer) /\ now \in Nat /\ \A t \in ToSet(zeroTimers) : timer[t].wakeup <= now
    BY DEF TimersInv, TypeInv, Queues
  <2> QED
    BY <1>1, <2>1, Shortened
<1>5. heap \in Seq(DOMAIN timer) /\ IsHeap(timer, heap) /\ IsInjective(heap) /\ Comparable(timer)
  BY QueuesComparable DEF TimersInv, Queues
<1>6. /\ g \in Seq(DOMAIN timer) /\ b \in Seq(DOMAIN timer) /\ PopInv(timer, heap, due, g, b)
      /\ (g # <<>> => g[1] \notin due)
  BY <1>3, <1>5, PoppedRight
<1>7. GoodBatch(b, g)
  <2>1. ASSUME NEW t \in due  PROVE timer[t].wakeup <= now
    <3>1. t \in DOMAIN timer /\ Before(timer, t, z)
      BY <1>2
    <3>2. timer[t].wakeup \in Nat /\ timer[z].wakeup \in Nat
      BY <1>4, <3>1, InvFacts
    <3>3. timer[t].wakeup <= timer[z].wakeup
      BY <3>1, <3>2 DEF Before
    <3> QED
      BY <1>4, <3>2, <3>3
  <2> QED
    BY <1>3, <2>1, PoppedIsGood
<1>8. \A k \in DOMAIN g : ~Before(timer, g[k], z)
  <2> SUFFICES ASSUME NEW k \in DOMAIN g PROVE ~Before(timer, g[k], z)
    OBVIOUS
  <2>1. g # <<>> /\ g[k] \in ToSet(g) /\ g[k] \in DOMAIN timer /\ g[1] \in DOMAIN timer
    BY <1>6 DEF ToSet
  <2>2. ~Before(timer, g[1], z)
    BY <1>2, <1>6, <2>1
  <2>3. ~Before(timer, g[k], g[1])
    BY <1>5, <1>6, <2>1, FirstIsLeast DEF PopInv
  <2> QED
    BY <1>4, <1>5, <2>1, <2>2, <2>3, Order
<1>9. \A j \in 1 .. Len(b) : ~Before(timer, z, b[j])
  <2> SUFFICES ASSUME NEW j \in 1 .. Len(b) PROVE ~Before(timer, z, b[j])
    OBVIOUS
  <2>1. b[j] \in ToSet(b) /\ b[j] \in DOMAIN timer
    BY <1>6 DEF ToSet
  <2>2. Before(timer, b[j], z)
    BY <1>2, <1>6, <2>1 DEF PopInv
  <2> QED
    BY <1>4, <1>5, <2>1, <2>2, Order
<1>10. PICK c : c = Append(b, z)
  OBVIOUS
<1>11. GoodBatch(c, g)
  <2> SUFFICES ASSUME NEW i \in DOMAIN c
               PROVE  /\ timer[c[i]].wakeup <= now
                      /\ \A j \in 1 .. i - 1 : ~Before(timer, c[i], c[j])
                      /\ \A k \in DOMAIN g : ~Before(timer, g[k], c[i])
    BY DEF GoodBatch
  <2>1. /\ Len(b) \in Nat /\ DOMAIN b = 1 .. Len(b) /\ DOMAIN c = 1 .. Len(b) + 1
        /\ c[Len(b) + 1] = z /\ \A j \in 1 .. Len(b) : c[j] = b[j]
    BY <1>4, <1>6, <1>10
  <2>2. \A j \in 1 .. i - 1 : j \in 1 .. Len(b)
    BY <2>1
  <2>3. CASE i = Len(b) + 1
    BY <1>4, <1>8, <1>9, <2>1, <2>2, <2>3
  <2>4. CASE i \in 1 .. Len(b)
    BY <1>7, <2>1, <2>2, <2>4 DEF GoodBatch
  <2> QED
    BY <2>1, <2>3, <2>4
<1> QED
  BY <1>1, <1>2, <1>3, <1>7, <1>10, <1>11

\* Only the two events start a batch.
LEMMA BatchStep ==
  ASSUME TimersInv, Next, phase = "idle", phase' = "next"
  PROVE  GoodBatch(pendingTimers', heap')
<1>1. HandleZeroEvent \/ HandleTimeoutEvent
  BY DEF Next, IsolateStep, CreateTimer, CancelTimer, DropMessage, NextPending, CallbackReturns, TimersRun,
         Throw, HandleInterrupt, HandleTimerFd, Tick, timerVars
<1>2. CASE HandleZeroEvent
  <2>1. PICK p : p = Popped(timer, heap, {t \in DOMAIN timer : Before(timer, t, zeroTimers[1])})
    OBVIOUS
  <2>2. queue # <<>> /\ queue[1] = <<port, "ZERO_EVENT">> /\ queue' = Tail(queue)
          /\ heap' = p.heap /\ pendingTimers' = Append(p.batch, zeroTimers[1])
    BY <1>2, <2>1 DEF HandleZeroEvent, NextMessage, RunTimers
  <2>3. zeroTimers # <<>>
    BY <2>2, MessageTaken
  <2>4. GoodBatch(Append(p.batch, zeroTimers[1]), p.heap)
    BY <2>1, <2>3, ZeroBatchIsGood
  <2> QED
    BY <2>2, <2>4
<1>3. CASE HandleTimeoutEvent
  <2>1. PICK due : due = IF zeroTimers # <<>> THEN {t \in DOMAIN timer : Before(timer, t, zeroTimers[1])}
                         ELSE {t \in DOMAIN timer : timer[t].wakeup <= now}
    OBVIOUS
  <2>2. PICK p : p = Popped(timer, heap, due)
    OBVIOUS
  <2>3. heap' = p.heap /\ pendingTimers' = p.batch
    BY <1>3, <2>1, <2>2 DEF HandleTimeoutEvent, RunTimers
  <2>4. GoodBatch(p.batch, p.heap)
    <3>1. CASE zeroTimers # <<>>
      BY <2>1, <2>2, <3>1, ZeroBatchIsGood
    <3>2. CASE zeroTimers = <<>>
      <4>1. \A t \in due \cap DOMAIN timer : timer[t].wakeup <= now
        BY <2>1, <3>2
      <4> QED
        BY <2>2, <4>1, PoppedIsGood
    <3> QED
      BY <3>1, <3>2
  <2> QED
    BY <2>3, <2>4
<1> QED
  BY <1>1, <1>2, <1>3

\* Batches are due and in order, and nothing that is left in the heap precedes them: for any
\* program, with errors that are fatal or not.
THEOREM BatchIsDueInOrderHolds == Spec => BatchIsDueInOrder
<1> DEFINE Good == phase = "idle" /\ phase' = "next" =>
                     \A i \in DOMAIN pendingTimers' :
                       /\ timer[pendingTimers'[i]].wakeup <= now
                       /\ \A j \in 1 .. i - 1 : ~Before(timer, pendingTimers'[i], pendingTimers'[j])
                       /\ \A k \in DOMAIN heap' : ~Before(timer, heap'[k], pendingTimers'[i])
<1>1. TimersInv /\ [Next]_vars => [Good]_vars
  <2> SUFFICES ASSUME TimersInv, Next PROVE Good
    OBVIOUS
  <2> QED
    BY BatchStep DEF GoodBatch
<1>2. BatchIsDueInOrder <=> [][Good]_vars
  BY DEF BatchIsDueInOrder
<1> QED
  BY <1>1, <1>2, TimersInvHolds, PTL DEF Spec


-----------------------------------------------------------------------------
(* The next wakeup                                                         *)

\* A message at the end of the pipe is the last word of its port, and of no other.
LEMMA Sent ==
  ASSUME TypeInv, NEW p \in Ports, NEW time \in Nat \cup {NO_TIMER}, pipe' = Append(pipe, <<p, time>>)
  PROVE  /\ LastWord(p, time)'
         /\ \A q, word : q # p /\ LastWord(q, word) => LastWord(q, word)'
         /\ DOMAIN pipe = 1 .. Len(pipe) /\ DOMAIN pipe' = 1 .. Len(pipe) + 1 /\ Len(pipe) \in Nat
         /\ pipe'[Len(pipe) + 1] = <<p, time>> /\ \A i \in 1 .. Len(pipe) : pipe'[i] = pipe[i]
<1>1. PICK n : n = Len(pipe)
  OBVIOUS
<1>2. PICK e : e = <<p, time>>
  OBVIOUS
<1>3. e \in Ports \X (Nat \cup {NO_TIMER}) /\ pipe \in Seq(Ports \X (Nat \cup {NO_TIMER})) /\ e[1] = p
  BY <1>2 DEF TypeInv
<1>4. /\ n \in Nat /\ DOMAIN pipe = 1 .. n /\ DOMAIN pipe' = 1 .. n + 1 /\ Len(pipe') = n + 1
      /\ pipe'[n + 1] = e /\ \A i \in 1 .. n : pipe'[i] = pipe[i]
  BY <1>1, <1>2, <1>3
<1>5. LastWord(p, time)'
  <2>1. n + 1 \in DOMAIN pipe' /\ \A j \in (n + 1) + 1 .. Len(pipe') : pipe'[j][1] # p
    BY <1>4
  <2> QED
    BY <1>2, <1>4, <2>1 DEF LastWord
<1>6. ASSUME NEW q, NEW word, q # p, LastWord(q, word)  PROVE LastWord(q, word)'
  <2>1. PICK i \in DOMAIN pipe : pipe[i] = <<q, word>> /\ \A j \in i + 1 .. Len(pipe) : pipe[j][1] # q
    BY <1>6 DEF LastWord
  <2>2. i \in DOMAIN pipe' /\ pipe'[i] = <<q, word>>
    BY <1>4, <2>1
  <2>3. ASSUME NEW j \in i + 1 .. Len(pipe')  PROVE pipe'[j][1] # q
    <3>1. j = n + 1 \/ (j \in 1 .. n /\ j \in i + 1 .. Len(pipe))
      BY <1>1, <1>4
    <3> QED
      BY <1>3, <1>4, <1>6, <2>1, <3>1
  <2> QED
    BY <2>2, <2>3 DEF LastWord
<1> QED
  BY <1>1, <1>2, <1>4, <1>5, <1>6

\* Ports of messages and timeouts are ports.
LEMMA PortsOfMessages ==
  ASSUME TimersInv
  PROVE  /\ \A i \in DOMAIN pipe : pipe[i][1] \in Ports /\ pipe[i][2] \in Nat \cup {NO_TIMER} /\ pipe[i][1] # None
         /\ \A i \in DOMAIN timeouts_ : timeouts_[i][1] \in Ports /\ timeouts_[i][2] \in Nat
         /\ ~InPipe(None) /\ ~Waits(None)
<1>1. pipe \in Seq(Ports \X (Nat \cup {NO_TIMER})) /\ timeouts_ \in Seq(Ports \X Nat) /\ None \notin Ports
  BY TimersAssumption DEF TimersInv, TypeInv
<1>2. (\A i \in DOMAIN pipe : pipe[i] \in Ports \X (Nat \cup {NO_TIMER})) /\ \A i \in DOMAIN timeouts_ : timeouts_[i] \in Ports \X Nat
  BY <1>1
<1> QED
  BY <1>1, <1>2 DEF InPipe, Waits

\* A port that no one knows yet.
LEMMA Unknown ==
  ASSUME NEW p, p \notin PortsInUse
  PROVE  ~InPipe(p) /\ ~Waits(p)
BY DEF PortsInUse, InPipe, Waits

\* The isolate sends for its port, old or new.
LEMMA SendKeepsPipe ==
  ASSUME TimersInv, PipeInv, NEW p \in Ports, NEW time \in Nat \cup {NO_TIMER}, pipe' = Append(pipe, <<p, time>>),
         p = port \/ (port = None /\ p \notin PortsInUse), port' = p \/ (p = port /\ port' = None /\ time = NO_TIMER),
         UNCHANGED timeouts_
  PROVE  PipeInv'
<1>1. TypeInv
  BY DEF TimersInv
<1>2. PICK n : n = Len(pipe)
  OBVIOUS
<1>3. /\ LastWord(p, time)' /\ \A q, word : q # p /\ LastWord(q, word) => LastWord(q, word)'
      /\ DOMAIN pipe = 1 .. n /\ DOMAIN pipe' = 1 .. n + 1 /\ n \in Nat
      /\ pipe'[n + 1][1] = p /\ \A i \in 1 .. n : pipe'[i] = pipe[i]
  BY <1>1, <1>2, Sent
<1>4. None \notin Ports /\ p # None
  BY TimersAssumption
<1>5. \A i \in 1 .. n + 1 : i = n + 1 \/ (i \in 1 .. n /\ i < n + 1)
  BY <1>3
<1>6. p # port => ~InPipe(p) /\ ~Waits(p)
  BY Unknown
<1>7. OneEach(timeouts_')
  BY DEF PipeInv
<1>8. ASSUME NEW i \in DOMAIN pipe', NEW j \in DOMAIN pipe', pipe'[i][1] # port', pipe'[j][1] = port'  PROVE i < j
  <2>1. port' = p
    <3>1. pipe'[j][1] \in Ports
      BY <1>3, <1>5, PortsOfMessages
    <3> QED
      BY <1>4, <1>8, <3>1
  <2>2. i \in 1 .. n /\ i < n + 1
    BY <1>3, <1>5, <1>8, <2>1
  <2>3. CASE j = n + 1
    BY <2>2, <2>3
  <2>4. CASE j \in 1 .. n
    <3>1. pipe[j][1] = p /\ pipe[i][1] # p /\ i \in DOMAIN pipe /\ j \in DOMAIN pipe
      BY <1>3, <1>8, <2>1, <2>2, <2>4
    <3>2. InPipe(p)
      BY <3>1 DEF InPipe
    <3> QED
      BY <1>6, <3>1, <3>2 DEF PipeInv
  <2> QED
    BY <1>3, <1>5, <2>3, <2>4
<1>9. ASSUME Waits(port)', NEW i \in DOMAIN pipe'  PROVE pipe'[i][1] = port'
  <2>1. Waits(port')
    BY <1>9 DEF Waits
  <2>2. port' = p /\ port = p
    BY <1>6, <2>1, PortsOfMessages
  <2>3. \A k \in DOMAIN pipe : pipe[k][1] = p
    BY <2>1, <2>2 DEF PipeInv
  <2> QED
    BY <1>3, <1>5, <2>2, <2>3
<1>10. ASSUME NEW q \in Ports \ {port'}, InPipe(q)' \/ Waits(q)'  PROVE LastWord(q, NO_TIMER)'
  <2>1. CASE q = p
    BY <1>3, <1>10, <2>1
  <2>2. CASE q # p
    <3>1. InPipe(q) \/ Waits(q)
      BY <1>3, <1>5, <1>10, <2>2 DEF InPipe, Waits
    <3>2. q # port
      BY <1>4, <2>2
    <3>3. LastWord(q, NO_TIMER)
      BY <3>1, <3>2 DEF PipeInv
    <3> QED
      BY <1>3, <2>2, <3>3
  <2> QED
    BY <2>1, <2>2
<1> QED
  BY <1>7, <1>8, <1>9, <1>10 DEF PipeInv

\* The isolate opens a port.
LEMMA OpenKeepsPipe ==
  ASSUME TimersInv, PipeInv, port = None, port' \in Ports, port' \notin PortsInUse, UNCHANGED <<pipe, timeouts_>>
  PROVE  PipeInv'
<1>1. ~InPipe(port') /\ ~Waits(port')
  BY Unknown
<1>2. OneEach(timeouts_')
  BY DEF PipeInv
<1>3. ASSUME NEW i \in DOMAIN pipe', NEW j \in DOMAIN pipe', pipe'[j][1] = port'  PROVE FALSE
  BY <1>1, <1>3 DEF InPipe
<1>4. ~Waits(port)'
  BY <1>1 DEF Waits
<1>5. ASSUME NEW q \in Ports \ {port'}, InPipe(q)' \/ Waits(q)'  PROVE LastWord(q, NO_TIMER)'
  <2>1. InPipe(q) \/ Waits(q)
    BY <1>5 DEF InPipe, Waits
  <2>2. q # port
    BY TimersAssumption
  <2>3. LastWord(q, NO_TIMER)
    BY <2>1, <2>2 DEF PipeInv
  <2> QED
    BY <2>3 DEF LastWord
<1> QED
  BY <1>2, <1>3, <1>4, <1>5 DEF PipeInv


\* _notifyEventHandler() leaves the time of the first timer as the last word.
LEMMA NotifyKeeps ==
  ASSUME TimersInv, PipeInv, NEW f, NEW h, NEW z, NEW scheduled,
         scheduled = NoTime \/ (scheduled = scheduledWakeupTime /\ AskedInv /\ UNCHANGED queue),
         h # <<>> => f[h[1]].wakeup \in Nat, z # <<>> => port # None,
         NotifyEventHandler(f, h, z, scheduled), UNCHANGED <<timeouts_, timer_fd_>>
  PROVE  PipeInv' /\ AskedInv' /\ (h # <<>> => scheduledWakeupTime' = f[h[1]].wakeup)
<1>1. TypeInv /\ port \in Ports \cup {None}
  BY DEF TimersInv, TypeInv
<1>2. CASE scheduledWakeupTime' = scheduled /\ UNCHANGED <<port, pipe>> /\ (h # <<>> => scheduled = f[h[1]].wakeup)
  <2>1. PipeInv'
    BY <1>2 DEF PipeInv, OneEach, InPipe, Waits, LastWord
  <2>2. AskedInv'
    BY <1>2 DEF AskedInv, Known, LastWord, ActedOn
  <2> QED
    BY <1>2, <2>1, <2>2
<1>3. CASE /\ SendData(port, NO_TIMER) /\ scheduledWakeupTime' = NoTime /\ port # None
           /\ (port' = port \/ port' = None) /\ h = <<>>
  <2>1. PICK p \in Ports : p = port
    BY <1>1, <1>3
  <2>2. pipe' = Append(pipe, <<p, NO_TIMER>>)
    BY <1>3, <2>1 DEF SendData
  <2>3. PipeInv'
    BY <1>3, <2>1, <2>2, SendKeepsPipe
  <2> QED
    BY <1>3, <2>3 DEF AskedInv
<1>4. CASE /\ h # <<>> /\ HasPort /\ port' = OpenPort /\ SendData(OpenPort, f[h[1]].wakeup)
           /\ scheduledWakeupTime' = f[h[1]].wakeup
  <2>1. PICK p : p = OpenPort
    OBVIOUS
  <2>2. p \in Ports /\ (p = port \/ (port = None /\ p \notin PortsInUse)) /\ p # None
    BY <1>1, <1>4, <2>1, OpenPortRight, TimersAssumption
  <2>3. PICK time \in Nat : time = f[h[1]].wakeup
    BY <1>4
  <2>4. pipe' = Append(pipe, <<p, time>>) /\ port' = p
    BY <1>4, <2>1, <2>3 DEF SendData
  <2>5. PipeInv'
    BY <2>2, <2>4, SendKeepsPipe
  <2>6. LastWord(p, time)'
    BY <1>1, <2>2, <2>4, Sent
  <2>7. LastWord(port, scheduledWakeupTime)'
    BY <1>4, <2>3, <2>4, <2>6 DEF LastWord
  <2>8. AskedInv'
    BY <2>2, <2>4, <2>7 DEF AskedInv, Known
  <2> QED
    BY <1>4, <2>5, <2>8
<1> QED
  BY <1>2, <1>3, <1>4 DEF NotifyEventHandler

\* Two heaps of which each holds the first of the other wake up at the same time.
LEMMA SameFirst ==
  ASSUME NEW f, Comparable(f), NEW g \in Seq(DOMAIN f), NEW h \in Seq(DOMAIN f), IsHeap(f, g), IsHeap(f, h),
         g[1] \in ToSet(h), h[1] \in ToSet(g)
  PROVE  f[g[1]].wakeup = f[h[1]].wakeup
<1>1. ~Before(f, g[1], h[1]) /\ ~Before(f, h[1], g[1])
  BY FirstIsLeast
<1>2. g[1] \in DOMAIN f /\ h[1] \in DOMAIN f
  BY DEF ToSet
<1>3. f[g[1]].wakeup \in Int /\ f[h[1]].wakeup \in Int
  BY <1>2 DEF Comparable
<1> QED
  BY <1>1, <1>3 DEF Before

\* _enqueue()
LEMMA EnqueueKeepsWake ==
  ASSUME TimersInv, PipeInv, AskedInv, FirstInv, NEW f, NEW t \in DOMAIN f, NEW r,
         Queues(f, heap, zeroTimers, pendingTimers, r, now),
         \A u \in ToSet(heap) : f[u].wakeup = timer[u].wakeup,
         t \notin ToSet(heap) \cup ToSet(zeroTimers) \cup ToSet(pendingTimers) \cup {r},
         Enqueue(f, t), UNCHANGED <<timeouts_, timer_fd_>>
  PROVE  PipeInv' /\ AskedInv' /\ (phase = "idle" /\ heap' # <<>> => scheduledWakeupTime' = f[heap'[1]].wakeup)
<1>1. TypeInv /\ port \in Ports \cup {None} /\ heap \in Seq(DOMAIN f) /\ (zeroTimers # <<>> => port # None)
  BY InvFacts DEF TimersInv, TypeInv, Queues
<1>2. heap # <<>> => heap[1] \in ToSet(heap) /\ f[heap[1]].wakeup = timer[heap[1]].wakeup
  BY <1>1, Shortened
<1>3. ASSUME f[t].ms = 0
      PROVE  PipeInv' /\ AskedInv' /\ (phase = "idle" /\ heap' # <<>> => scheduledWakeupTime' = f[heap'[1]].wakeup)
  <2>1. /\ HasPort /\ port' = OpenPort
        /\ scheduledWakeupTime' = IF port = None THEN NoTime ELSE scheduledWakeupTime
        /\ queue' = Append(queue, <<OpenPort, "ZERO_EVENT">>)
        /\ UNCHANGED <<heap, pipe>>
    BY <1>3 DEF Enqueue
  <2>2. OpenPort \in Ports /\ (port # None => OpenPort = port) /\ (port = None => OpenPort \notin PortsInUse)
    BY <1>1, <2>1, OpenPortRight
  <2>3. PipeInv'
    <3>1. CASE port = None
      BY <2>1, <2>2, <3>1, OpenKeepsPipe
    <3>2. CASE port # None
      BY <2>1, <2>2, <3>2 DEF PipeInv, OneEach, InPipe, Waits, LastWord
    <3> QED
      BY <3>1, <3>2
  <2>4. AskedInv'
    <3>1. CASE port = None
      BY <2>1, <3>1 DEF AskedInv
    <3>2. CASE port # None
      <4>1. \A m : Contains(queue, m) => Contains(queue', m)
        <5>1. queue \in Seq(Ports \X Events) /\ <<OpenPort, "ZERO_EVENT">> \in Ports \X Events
          BY <1>1, <2>2 DEF TypeInv, Events
        <5>2. Len(queue') = Len(queue) + 1 /\ Len(queue) \in Nat /\ \A i \in 1 .. Len(queue) : queue'[i] = queue[i]
          BY <2>1, <5>1
        <5> QED
          BY <5>2 DEF Contains
      <4> QED
        BY <2>1, <2>2, <3>2, <4>1 DEF AskedInv, Known, LastWord, ActedOn
    <3> QED
      BY <3>1, <3>2
  <2>5. ASSUME phase = "idle", heap' # <<>>  PROVE scheduledWakeupTime' = f[heap'[1]].wakeup
    <3>1. scheduledWakeupTime = f[heap[1]].wakeup /\ heap # <<>>
      BY <1>2, <2>1, <2>5 DEF FirstInv
    <3>2. heap[1] \in DOMAIN f /\ f[heap[1]] \in Fields
      BY <1>1, <3>1 DEF Queues
    <3>3. scheduledWakeupTime \in Nat
      BY <3>1, <3>2 DEF Fields
    <3>4. scheduledWakeupTime # NoTime
      BY <3>3, TimersAssumption
    <3>5. port # None
      BY <3>4 DEF AskedInv
    <3> QED
      BY <2>1, <3>1, <3>5
  <2> QED
    BY <2>3, <2>4, <2>5
<1>4. ASSUME f[t].ms # 0
      PROVE  PipeInv' /\ AskedInv' /\ (phase = "idle" /\ heap' # <<>> => scheduledWakeupTime' = f[heap'[1]].wakeup)
  <2>1. heap' = HeapAdd(f, heap, t) /\ UNCHANGED <<zeroTimers, queue>>
    BY <1>4 DEF Enqueue
  <2>2. IF heap'[1] = t /\ ~handlingCallbacks
        THEN NotifyEventHandler(f, heap', zeroTimers, scheduledWakeupTime)
        ELSE UNCHANGED <<port, scheduledWakeupTime, pipe>>
    BY <1>4 DEF Enqueue
  <2>3. Comparable(f) /\ IsHeap(f, heap)
    BY QueuesComparable DEF Queues
  <2>4. PICK g : g = heap'
    OBVIOUS
  <2>5. g \in Seq(DOMAIN f) /\ IsHeap(f, g) /\ ToSet(g) = ToSet(heap) \cup {t} /\ Len(g) = Len(heap) + 1
    <3>1. Comparable(f) /\ heap \in Seq(DOMAIN f) /\ IsHeap(f, heap) /\ t \in DOMAIN f
      BY <1>1, <2>3
    <3>2. /\ HeapAdd(f, heap, t) \in Seq(DOMAIN f) /\ IsHeap(f, HeapAdd(f, heap, t))
          /\ Len(HeapAdd(f, heap, t)) = Len(heap) + 1 /\ ToSet(HeapAdd(f, heap, t)) = ToSet(heap) \cup {t}
      BY ONLY <3>1, HeapAddRight
    <3> QED
      BY <2>1, <2>4, <3>2
  <2>6. g # <<>> /\ g[1] \in DOMAIN f /\ g[1] \in ToSet(g)
    <3>1. Len(heap) \in Nat
      BY <1>1
    <3>2. g # <<>>
      BY <2>5, <3>1
    <3> QED
      BY <2>5, <3>2, Shortened
  <2>7. f[g[1]] \in Fields
    BY <2>6 DEF Queues
  <2>8. CASE heap'[1] = t /\ ~handlingCallbacks
    <3>1. f[heap'[1]].wakeup \in Nat
      BY <2>4, <2>7 DEF Fields
    <3> QED
      BY <1>1, <2>1, <2>2, <2>8, <3>1, NotifyKeeps
  <2>9. CASE ~(heap'[1] = t /\ ~handlingCallbacks)
    <3>1. UNCHANGED <<port, scheduledWakeupTime, pipe, queue, timeouts_, timer_fd_>>
      BY <2>1, <2>2, <2>9
    <3>2. PipeInv' /\ AskedInv'
      BY <3>1 DEF PipeInv, OneEach, InPipe, Waits, LastWord, AskedInv, Known, ActedOn
    <3>3. ASSUME phase = "idle"  PROVE scheduledWakeupTime' = f[heap'[1]].wakeup
      <4>1. heap'[1] # t
        BY <2>9, <3>3 DEF handlingCallbacks
      <4>2. g[1] \in ToSet(heap)
        BY <2>4, <2>5, <2>6, <4>1
      <4>3. heap # <<>>
        BY <1>1, <4>2 DEF ToSet
      <4>4. heap[1] \in ToSet(g)
        BY <1>2, <2>5, <4>3
      <4>5. f[g[1]].wakeup = f[heap[1]].wakeup
        BY <1>1, <2>3, <2>5, <4>2, <4>4, SameFirst
      <4> QED
        BY <1>2, <2>4, <3>1, <3>3, <4>3, <4>5 DEF FirstInv
    <3> QED
      BY <3>2, <3>3
  <2> QED
    BY <2>8, <2>9
<1> QED
  BY <1>3, <1>4


\* A message of the pipe is read: what is not the last word of its port stays.
LEMMA MessageRead ==
  ASSUME TypeInv, pipe # <<>>, pipe' = Tail(pipe)
  PROVE  /\ \A i \in DOMAIN pipe' : i \in Nat /\ i + 1 \in DOMAIN pipe /\ pipe'[i] = pipe[i + 1]
         /\ 1 \in DOMAIN pipe
         /\ \A q, word : LastWord(q, word) => LastWord(q, word)' \/ (pipe[1] = <<q, word>> /\ ~InPipe(q)')
<1>1. PICK n : n = Len(pipe)
  OBVIOUS
<1>2. pipe \in Seq(Ports \X (Nat \cup {NO_TIMER}))
  BY DEF TypeInv
<1>3. /\ n \in Nat /\ n >= 1 /\ DOMAIN pipe = 1 .. n /\ DOMAIN pipe' = 1 .. n - 1 /\ Len(pipe') = n - 1
      /\ \A i \in 1 .. n - 1 : pipe'[i] = pipe[i + 1] /\ i + 1 \in 1 .. n /\ i \in Nat
  BY <1>1, <1>2
<1>4. ASSUME NEW q, NEW word, LastWord(q, word)
      PROVE  LastWord(q, word)' \/ (pipe[1] = <<q, word>> /\ ~InPipe(q)')
  <2>1. PICK i \in 1 .. n : pipe[i] = <<q, word>> /\ \A j \in i + 1 .. n : pipe[j][1] # q
    BY <1>1, <1>3, <1>4 DEF LastWord
  <2>2. CASE i = 1
    <3>1. \A j \in 1 .. n - 1 : j + 1 \in i + 1 .. n
      BY <1>3, <2>2
    <3>2. ~InPipe(q)'
      BY <1>3, <2>1, <3>1 DEF InPipe
    <3> QED
      BY <2>1, <2>2, <3>2
  <2>3. CASE i # 1
    <3>1. i - 1 \in 1 .. n - 1 /\ (i - 1) + 1 = i
      BY <1>3, <2>3
    <3>2. i - 1 \in DOMAIN pipe' /\ pipe'[i - 1] = <<q, word>>
      BY <1>3, <2>1, <3>1
    <3>3. ASSUME NEW j \in (i - 1) + 1 .. Len(pipe')  PROVE pipe'[j][1] # q
      <4>1. j \in 1 .. n - 1 /\ j + 1 \in i + 1 .. n
        BY <1>3, <3>1
      <4> QED
        BY <1>3, <2>1, <4>1
    <3> QED
      BY <3>2, <3>3 DEF LastWord
  <2> QED
    BY <2>2, <2>3
<1> QED
  BY <1>3, <1>4

\* The event handler reads a message.
LEMMA InterruptKeepsWake ==
  ASSUME TimersInv, PipeInv, AskedInv, HandleInterrupt
  PROVE  PipeInv' /\ AskedInv'
<1>1. /\ TypeInv /\ timeouts_ \in Seq(Ports \X Nat) /\ scheduledWakeupTime \in Nat \cup {NoTime}
  BY DEF TimersInv, TypeInv
<1>2. PICK p, time : p = pipe[1][1] /\ time = pipe[1][2]
  OBVIOUS
<1>3. PICK u : u = UpdateTimeout(timeouts_, p, time)
  OBVIOUS
<1>4. /\ pipe # <<>> /\ pipe' = Tail(pipe) /\ timeouts_' = u /\ timer_fd_' = TimerFdFor(u)
      /\ UNCHANGED <<port, queue, scheduledWakeupTime>>
  BY <1>2, <1>3 DEF HandleInterrupt, HandleInterruptFd, timerVars
<1>5. /\ 1 \in DOMAIN pipe
      /\ \A i \in DOMAIN pipe' : i \in Nat /\ i + 1 \in DOMAIN pipe /\ pipe'[i] = pipe[i + 1]
      /\ \A q, word : LastWord(q, word) => LastWord(q, word)' \/ (pipe[1] = <<q, word>> /\ ~InPipe(q)')
  BY <1>1, <1>4, MessageRead
<1>6. p \in Ports /\ time \in Nat \cup {NO_TIMER}
  BY <1>2, <1>5, PortsOfMessages
<1>7. /\ u \in Seq(Ports \X Nat) /\ OneEach(u)
      /\ \A j \in DOMAIN u : \/ time \in Nat /\ u[j] = <<p, time>>
                             \/ \E i \in DOMAIN timeouts_ : timeouts_[i] = u[j]
      /\ time \in Nat => \E j \in DOMAIN u : u[j] = <<p, time>>
      /\ time = NO_TIMER => \A j \in DOMAIN u : u[j][1] # p
  <2>1. OneEach(timeouts_)
    BY DEF PipeInv
  <2>2. Updated(timeouts_, p, time, u)
    BY <1>1, <1>3, <1>6, UpdateTimeoutRight
  <2> QED
    BY <2>1, <2>2 DEF Updated
<1>8. ASSUME NEW q, Waits(q)'  PROVE (Waits(q) \/ q = p) /\ (q = p => time # NO_TIMER)
  <2>1. PICK j \in DOMAIN u : u[j][1] = q
    BY <1>4, <1>8 DEF Waits
  <2> QED
    BY <1>7, <2>1 DEF Waits
<1>9. \A q : InPipe(q)' => InPipe(q)
  BY <1>5 DEF InPipe
<1>10. InPipe(p)
  BY <1>2, <1>5 DEF InPipe
<1>11. ASSUME NEW i \in DOMAIN pipe', NEW j \in DOMAIN pipe', pipe'[i][1] # port', pipe'[j][1] = port'  PROVE i < j
  <2>1. i + 1 < j + 1
    BY <1>4, <1>5, <1>11 DEF PipeInv
  <2>2. i \in Nat /\ j \in Nat
    BY <1>5
  <2> QED
    BY <2>1, <2>2
<1>12. ASSUME Waits(port)', NEW i \in DOMAIN pipe'  PROVE pipe'[i][1] = port'
  <2>1. i + 1 \in DOMAIN pipe /\ pipe'[i] = pipe[i + 1] /\ i \in Nat
    BY <1>5
  <2>2. PICK q : q = port
    OBVIOUS
  <2>3. Waits(q)'
    BY <1>4, <1>12, <2>2 DEF Waits
  <2>4. Waits(port) \/ port = p
    BY <1>8, <2>2, <2>3
  <2>5. CASE Waits(port)
    BY <1>4, <2>1, <2>5 DEF PipeInv
  <2>6. CASE port = p
    <3>1. pipe[i + 1][1] # port => i + 1 < 1
      BY <1>2, <1>5, <2>1, <2>6 DEF PipeInv
    <3> QED
      BY <1>4, <2>1, <3>1
  <2> QED
    BY <2>4, <2>5, <2>6
<1>13. ASSUME NEW q \in Ports \ {port'}, InPipe(q)' \/ Waits(q)'  PROVE LastWord(q, NO_TIMER)'
  <2>1. InPipe(q) \/ Waits(q)
    BY <1>8, <1>9, <1>10, <1>13
  <2>2. LastWord(q, NO_TIMER)
    BY <1>4, <2>1 DEF PipeInv
  <2>3. ASSUME pipe[1] = <<q, NO_TIMER>>, ~InPipe(q)'  PROVE FALSE
    <3>1. Waits(q)' /\ q = p /\ time = NO_TIMER
      BY <1>2, <1>13, <2>3
    <3> QED
      BY <1>8, <3>1
  <2> QED
    BY <1>5, <2>2, <2>3
<1>14. PipeInv'
  BY <1>4, <1>7, <1>11, <1>12, <1>13 DEF PipeInv
<1>15. ASSUME scheduledWakeupTime # NoTime  PROVE Known(port, scheduledWakeupTime)'
  <2>1. PICK q, s : q = port /\ s = scheduledWakeupTime
    OBVIOUS
  <2>2. s \in Nat /\ Known(q, s)
    BY <1>1, <1>15, <2>1 DEF AskedInv
  <2>3. Known(q, s)'
    <3>1. CASE Contains(queue, <<q, "TIMEOUT_EVENT">>)
      BY <1>4, <3>1 DEF Known
    <3>2. CASE LastWord(q, s)
      <4>1. CASE LastWord(q, s)'
        BY <4>1 DEF Known
      <4>2. CASE pipe[1] = <<q, s>> /\ ~InPipe(q)'
        <5>1. p = q /\ time = s
          BY <1>2, <4>2
        <5>2. PICK j \in DOMAIN u : u[j] = <<q, s>>
          BY <1>7, <2>2, <5>1
        <5>3. u # <<>> /\ DOMAIN u = 1 .. Len(u)
          BY <1>7, <5>2
        <5>4. Contains(u, <<q, s>>)
          BY <5>2, <5>3 DEF Contains
        <5>5. NextTimeout(u) \in DOMAIN u /\ u[NextTimeout(u)][2] <= u[j][2]
          BY <1>7, <5>2, <5>3, NextTimeoutRight
        <5>6. u[NextTimeout(u)] \in Ports \X Nat
          BY <1>7, <5>5
        <5>7. TimerFdFor(u) \in Nat /\ TimerFdFor(u) <= s
          BY <5>2, <5>3, <5>5, <5>6 DEF TimerFdFor
        <5>8. TimerFdFor(u) # NoTime
          BY <5>7, TimersAssumption
        <5>9. ActedOn(q, s)'
          BY <1>4, <4>2, <5>4, <5>7, <5>8 DEF ActedOn, InPipe
        <5> QED
          BY <5>9 DEF Known
      <4> QED
        BY <1>5, <3>2, <4>1, <4>2
    <3>3. CASE ActedOn(q, s)
      <4>1. Contains(timeouts_, <<q, s>>) /\ \A i \in DOMAIN pipe : pipe[i][1] # q
        BY <3>3 DEF ActedOn
      <4>2. Waits(port)
        BY <1>1, <2>1, <4>1 DEF Waits, Contains
      <4>3. pipe[1][1] = port
        BY <1>5, <4>2 DEF PipeInv
      <4> QED
        BY <1>5, <2>1, <4>1, <4>3
    <3> QED
      BY <2>2, <3>1, <3>2, <3>3 DEF Known
  <2> QED
    BY <1>4, <2>1, <2>3 DEF Known, LastWord, ActedOn
<1> QED
  BY <1>4, <1>14, <1>15 DEF AskedInv

\* The timerfd expires: for the isolate's port, which gets its event, or for an earlier port,
\* before the event handler has a timeout of the isolate's port.
LEMMA TimerFdKeepsWake ==
  ASSUME TimersInv, PipeInv, AskedInv, HandleTimerFd
  PROVE  PipeInv' /\ AskedInv'
<1>1. /\ TypeInv /\ timeouts_ \in Seq(Ports \X Nat) /\ queue \in Seq(Ports \X Events)
  BY DEF TimersInv, TypeInv
<1>2. PICK c : c = CurrentPort
  OBVIOUS
<1>3. PICK u : u = UpdateTimeout(timeouts_, c, NO_TIMER)
  OBVIOUS
<1>4. /\ timeouts_ # <<>> /\ queue' = Posted(c, "TIMEOUT_EVENT") /\ timeouts_' = u
      /\ UNCHANGED <<pipe, port, scheduledWakeupTime>>
  BY <1>2, <1>3 DEF HandleTimerFd, RemoveCurrent, timerVars
<1>5. c \in Ports /\ Waits(c)
  <2>1. NextTimeout(timeouts_) \in DOMAIN timeouts_
    BY <1>1, <1>4, NextTimeoutRight
  <2> QED
    BY <1>2, <2>1, PortsOfMessages DEF CurrentPort, Waits
<1>6. u \in Seq(Ports \X Nat) /\ OneEach(u) /\ \A j \in DOMAIN u : \E i \in DOMAIN timeouts_ : timeouts_[i] = u[j]
  <2>1. PICK time : time = NO_TIMER
    OBVIOUS
  <2>2. time \notin Nat /\ time \in Nat \cup {NO_TIMER} /\ u = UpdateTimeout(timeouts_, c, time)
    BY <1>3, <2>1 DEF NO_TIMER
  <2>3. OneEach(timeouts_)
    BY DEF PipeInv
  <2>4. Updated(timeouts_, c, time, u)
    BY <1>1, <1>5, <2>2, UpdateTimeoutRight
  <2> QED
    BY <2>2, <2>3, <2>4 DEF Updated
<1>7. \A q : Waits(q)' => Waits(q)
  BY <1>4, <1>6 DEF Waits
<1>8. PipeInv'
  <2>1. OneEach(timeouts_')
    BY <1>4, <1>6
  <2>2. ASSUME NEW i \in DOMAIN pipe', NEW j \in DOMAIN pipe', pipe'[i][1] # port', pipe'[j][1] = port'  PROVE i < j
    BY <1>4, <2>2 DEF PipeInv
  <2>3. ASSUME Waits(port)', NEW i \in DOMAIN pipe'  PROVE pipe'[i][1] = port'
    <3>1. PICK q : q = port
      OBVIOUS
    <3>2. Waits(q)'
      BY <1>4, <2>3, <3>1 DEF Waits
    <3>3. Waits(port)
      BY <1>7, <3>1, <3>2
    <3> QED
      BY <1>4, <3>3 DEF PipeInv
  <2>4. ASSUME NEW q \in Ports \ {port'}, InPipe(q)' \/ Waits(q)'  PROVE LastWord(q, NO_TIMER)'
    <3>1. InPipe(q) \/ Waits(q)
      BY <1>4, <1>7, <2>4 DEF InPipe
    <3>2. LastWord(q, NO_TIMER)
      BY <1>4, <3>1 DEF PipeInv
    <3> QED
      BY <1>4, <3>2 DEF LastWord
  <2> QED
    BY <2>1, <2>2, <2>3, <2>4 DEF PipeInv
<1>9. CASE c = port
  <2>1. queue' = Append(queue, <<c, "TIMEOUT_EVENT">>) /\ <<c, "TIMEOUT_EVENT">> \in Ports \X Events
    BY <1>4, <1>5, <1>9 DEF Posted, Events
  <2>2. PICK e : e = <<c, "TIMEOUT_EVENT">>
    OBVIOUS
  <2>3. Len(queue') = Len(queue) + 1 /\ Len(queue) + 1 \in 1 .. Len(queue) + 1 /\ queue'[Len(queue) + 1] = e
    BY <1>1, <2>1, <2>2
  <2>4. Contains(queue', e)
    BY <2>3 DEF Contains
  <2>5. Contains(queue', <<port', "TIMEOUT_EVENT">>)
    BY <1>4, <1>9, <2>2, <2>4
  <2>6. port' # None
    BY <1>4, <1>5, <1>9, TimersAssumption
  <2> QED
    BY <1>8, <2>5, <2>6 DEF AskedInv, Known
<1>10. CASE c # port
  <2>1. LastWord(c, NO_TIMER)
    BY <1>5, <1>10 DEF PipeInv
  <2>2. PICK i \in DOMAIN pipe : pipe[i][1] = c
    BY <2>1 DEF LastWord
  <2>3. ~Waits(port)
    BY <1>10, <2>2 DEF PipeInv
  <2>4. \A s : ~ActedOn(port, s)
    <3> SUFFICES ASSUME NEW s, ActedOn(port, s) PROVE FALSE
      OBVIOUS
    <3>1. Contains(timeouts_, <<port, s>>)
      BY DEF ActedOn
    <3>2. Waits(port)
      BY <1>1, <3>1 DEF Waits, Contains
    <3> QED
      BY <2>3, <3>2
  <2>5. queue' = queue
    BY <1>4, <1>10 DEF Posted
  <2>6. AskedInv'
    BY <1>4, <2>4, <2>5 DEF AskedInv, Known, LastWord
  <2> QED
    BY <1>8, <2>6
<1> QED
  BY <1>9, <1>10


\* A message that is still in the queue when another one is taken.
LEMMA StillQueued ==
  ASSUME TypeInv, queue # <<>>, queue' = Tail(queue), NEW m, m # queue[1], Contains(queue, m)
  PROVE  Contains(queue', m)
<1>1. queue \in Seq(Ports \X Events)
  BY DEF TypeInv
<1>2. PICK i \in 1 .. Len(queue) : queue[i] = m
  BY DEF Contains
<1>3. Len(queue) \in Nat /\ Len(queue') = Len(queue) - 1 /\ \A k \in 1 .. Len(queue) - 1 : queue'[k] = queue[k + 1]
  BY <1>1
<1>4. i - 1 \in 1 .. Len(queue) - 1 /\ (i - 1) + 1 = i
  BY <1>2, <1>3
<1> QED
  BY <1>2, <1>3, <1>4 DEF Contains

\* What the isolate does not send or receive leaves what it asked for as it is.
LEMMA QuietKeeps ==
  ASSUME PipeInv, AskedInv, UNCHANGED <<port, scheduledWakeupTime, pipe, timeouts_, timer_fd_>>,
         Contains(queue, <<port, "TIMEOUT_EVENT">>) => Contains(queue', <<port, "TIMEOUT_EVENT">>)
  PROVE  PipeInv' /\ AskedInv'
<1>1. PipeInv'
  BY DEF PipeInv, OneEach, InPipe, Waits, LastWord
<1>2. AskedInv'
  BY DEF AskedInv, Known, LastWord, ActedOn
<1> QED
  BY <1>1, <1>2

\* cancel()
LEMMA CancelKeepsWake ==
  ASSUME TimersInv, PipeInv, AskedInv, FirstInv, NEW t, CancelTimer(t)
  PROVE  PipeInv' /\ AskedInv' /\ FirstInv'
<1>1. /\ t \in DOMAIN timer
      /\ timer' = IF Contains(zeroTimers \o pendingTimers, t) THEN [timer EXCEPT ![t].active = FALSE] ELSE Without(t)
      /\ UNCHANGED <<zeroTimers, phase, queue, timeouts_, timer_fd_>>
  BY DEF CancelTimer
<1>2. \/ ~Contains(heap, t) /\ UNCHANGED <<heap, port, scheduledWakeupTime, pipe>>
      \/ /\ Contains(heap, t) /\ heap' = HeapRemove(timer, heap, t)
         /\ IF heap[1] = t /\ ~handlingCallbacks
            THEN NotifyEventHandler(timer', heap', zeroTimers, scheduledWakeupTime)
            ELSE UNCHANGED <<port, scheduledWakeupTime, pipe>>
  BY DEF CancelTimer
<1>3. TimersInv'
  BY CancelTimerKeeps
<1>4. Queues(timer, heap, zeroTimers, pendingTimers, running, now) /\ Queues(timer', heap', zeroTimers', pendingTimers', running', now')
  BY <1>3 DEF TimersInv
<1>5. heap \in Seq(DOMAIN timer) /\ IsHeap(timer, heap) /\ Comparable(timer)
  BY <1>4, QueuesComparable DEF Queues
<1>6. \A u \in DOMAIN timer \cap DOMAIN timer' : timer'[u].wakeup = timer[u].wakeup
  <2>1. CASE timer' = Without(t)
    BY <2>1 DEF Without
  <2>2. CASE timer' = [timer EXCEPT ![t].active = FALSE]
    <3>1. timer[t] \in Fields
      BY <1>1, InvFacts
    <3>2. [timer[t] EXCEPT !.active = FALSE].wakeup = timer[t].wakeup
      BY <3>1 DEF Fields
    <3>3. \A u \in DOMAIN timer : timer'[u] = IF u = t THEN [timer[t] EXCEPT !.active = FALSE] ELSE timer[u]
      BY <1>1, <2>2
    <3> QED
      BY <3>2, <3>3
  <2> QED
    BY <1>1, <2>1, <2>2
<1>7. PICK g, f : g = heap' /\ f = timer'
  OBVIOUS
<1>8. g \in Seq(DOMAIN f) /\ (g # <<>> => g[1] \in DOMAIN f /\ g[1] \in ToSet(g) /\ f[g[1]].wakeup \in Nat)
  <2>1. g \in Seq(DOMAIN f) /\ f \in [DOMAIN f -> Fields]
    BY <1>4, <1>7 DEF Queues
  <2>2. g # <<>> => g[1] \in DOMAIN f /\ g[1] \in ToSet(g)
    BY <2>1, Shortened
  <2>3. g # <<>> => f[g[1]] \in Fields
    BY <2>1, <2>2
  <2> QED
    BY <2>1, <2>2, <2>3 DEF Fields
<1>9. CASE ~Contains(heap, t)
  <2>1. UNCHANGED <<heap, port, scheduledWakeupTime, pipe, timeouts_, timer_fd_, queue, phase>>
    BY <1>1, <1>2, <1>9
  <2>2. PipeInv' /\ AskedInv'
    BY <2>1, QuietKeeps
  <2>3. ASSUME phase = "idle", heap # <<>>  PROVE scheduledWakeupTime' = timer'[heap'[1]].wakeup
    <3>1. heap[1] \in DOMAIN timer \cap DOMAIN timer'
      BY <1>5, <1>7, <1>8, <2>1, <2>3
    <3> QED
      BY <1>6, <2>1, <2>3, <3>1 DEF FirstInv
  <2> QED
    BY <2>1, <2>2, <2>3 DEF FirstInv
<1>10. CASE Contains(heap, t)
  <2>1. t \in ToSet(heap)
    BY <1>5, <1>10 DEF Contains, ToSet
  <2>2. g = HeapRemove(timer, heap, t)
    BY <1>2, <1>7, <1>10
  <2>3. g \in Seq(DOMAIN timer) /\ IsHeap(timer, g) /\ ToSet(g) = ToSet(heap) \ {t}
    <3>1. IsInjective(heap)
      BY <1>4 DEF Queues
    <3> QED
      BY <1>5, <2>1, <2>2, <3>1, HeapRemoveRight
  <2>4. CASE heap[1] = t /\ ~handlingCallbacks
    <3>1. NotifyEventHandler(f, g, zeroTimers, scheduledWakeupTime)
      BY <1>2, <1>7, <1>10, <2>4
    <3>2. PipeInv' /\ AskedInv' /\ (g # <<>> => scheduledWakeupTime' = f[g[1]].wakeup)
      BY <1>1, <1>8, <3>1, InvFacts, NotifyKeeps
    <3> QED
      BY <1>7, <3>2 DEF FirstInv
  <2>5. CASE ~(heap[1] = t /\ ~handlingCallbacks)
    <3>1. UNCHANGED <<port, scheduledWakeupTime, pipe, timeouts_, timer_fd_, queue, phase>>
      BY <1>1, <1>2, <1>10, <2>5
    <3>2. PipeInv' /\ AskedInv'
      BY <3>1, QuietKeeps
    <3>3. ASSUME phase = "idle", g # <<>>  PROVE scheduledWakeupTime = f[g[1]].wakeup
      <4>1. heap[1] # t /\ heap # <<>>
        BY <1>5, <2>1, <2>5, <3>3 DEF handlingCallbacks, ToSet
      <4>2. heap[1] \in ToSet(g) /\ g[1] \in ToSet(heap)
        BY <1>5, <1>8, <2>3, <3>3, <4>1, Shortened
      <4>3. timer[g[1]].wakeup = timer[heap[1]].wakeup
        BY <1>5, <2>3, <4>2, SameFirst
      <4>4. g[1] \in DOMAIN timer \cap DOMAIN timer'
        BY <1>7, <1>8, <2>3, <3>3
      <4> QED
        BY <1>6, <1>7, <3>3, <4>1, <4>3, <4>4 DEF FirstInv
    <3> QED
      BY <1>7, <3>1, <3>2, <3>3 DEF FirstInv
  <2> QED
    BY <2>4, <2>5
<1> QED
  BY <1>9, <1>10

\* new _Timer()
LEMMA CreateKeepsWake ==
  ASSUME TimersInv, PipeInv, AskedInv, FirstInv, NEW d \in Int, NEW rep \in BOOLEAN, CreateTimer(d, rep)
  PROVE  PipeInv' /\ AskedInv' /\ FirstInv'
<1>1. PICK t : t = CHOOSE u \in NewTimers : TRUE
  OBVIOUS
<1>2. PICK new : new = [active |-> TRUE, ms |-> IF d < 0 THEN 0 ELSE d, repeating |-> rep, id |-> idCount,
                        wakeup |-> IF (IF d < 0 THEN 0 ELSE d) = 0 THEN now ELSE now + 1 + (IF d < 0 THEN 0 ELSE d)]
  OBVIOUS
<1>3. PICK f : f = [u \in DOMAIN timer \cup {t} |-> IF u = t THEN new ELSE timer[u]]
  OBVIOUS
<1>4. /\ NewTimers # {} /\ timer' = f /\ Enqueue(f, t)
      /\ UNCHANGED <<pendingTimers, running, phase, now, timeouts_, timer_fd_>>
  BY <1>1, <1>2, <1>3 DEF CreateTimer
<1>5. t \in Timers /\ t \notin DOMAIN timer /\ t # running
  BY <1>1, <1>4 DEF NewTimers
<1>6. DOMAIN f = DOMAIN timer \cup {t} /\ \A u \in DOMAIN timer : f[u] = timer[u]
  BY <1>3, <1>5
<1>7. Queues(timer, heap, zeroTimers, pendingTimers, running, now) /\ now \in Nat
  BY DEF TimersInv, TypeInv
<1>8. f \in [DOMAIN f -> Fields]
  <2>1. TimersInv'
    BY CreateTimerKeeps
  <2> QED
    BY <1>4, <2>1 DEF TimersInv, Queues
<1>9. Queues(f, heap, zeroTimers, pendingTimers, running, now)
  <2>1. running \notin ToSet(heap) \cup ToSet(zeroTimers) \cup ToSet(pendingTimers) /\ now <= now
    BY <1>7 DEF Queues
  <2>2. DOMAIN f \subseteq Timers /\ ToSet(heap) \cup ToSet(zeroTimers) \cup ToSet(pendingTimers) \subseteq DOMAIN f
    BY <1>5, <1>6, InvFacts
  <2>3. \A u \in ToSet(heap) \cup ToSet(zeroTimers) : f[u].wakeup = timer[u].wakeup /\ f[u].id = timer[u].id
    BY <1>6, InvFacts
  <2> QED
    BY <1>7, <1>8, <2>1, <2>2, <2>3, QueuesFrame
<1>10. t \in DOMAIN f /\ t \notin ToSet(heap) \cup ToSet(zeroTimers) \cup ToSet(pendingTimers) \cup {running}
  BY <1>5, <1>6, InvFacts
<1>11. \A u \in ToSet(heap) : f[u].wakeup = timer[u].wakeup
  BY <1>6, InvFacts
<1>12. PipeInv' /\ AskedInv' /\ (phase = "idle" /\ heap' # <<>> => scheduledWakeupTime' = f[heap'[1]].wakeup)
  BY <1>4, <1>9, <1>10, <1>11, EnqueueKeepsWake
<1> QED
  BY <1>4, <1>12 DEF FirstInv

\* The callback returns.
LEMMA ReturnKeepsWake ==
  ASSUME TimersInv, PipeInv, AskedInv, FirstInv, CallbackReturns
  PROVE  PipeInv' /\ AskedInv' /\ FirstInv'
<1>1. PICK t : t = running
  OBVIOUS
<1>2. PICK f : f = [timer EXCEPT ![t].id = idCount,
                                 ![t].wakeup = IF timer[t].ms > 0 THEN @ + timer[t].ms ELSE now]
  OBVIOUS
<1>3. /\ phase = "callback" /\ phase' = "microtasks"
      /\ IF t \in DOMAIN timer
         THEN timer' = f /\ Enqueue(f, t)
         ELSE UNCHANGED <<timer, heap, zeroTimers, idCount, port, scheduledWakeupTime, queue, pipe>>
      /\ UNCHANGED <<pendingTimers, now, timeouts_, timer_fd_>>
  BY <1>1, <1>2 DEF CallbackReturns
<1>4. Queues(timer, heap, zeroTimers, pendingTimers, running, now) /\ now \in Nat
  BY DEF TimersInv, TypeInv
<1>5. CASE t \notin DOMAIN timer
  <2>1. PipeInv' /\ AskedInv'
    BY <1>3, <1>5, QuietKeeps
  <2> QED
    BY <1>3, <2>1 DEF FirstInv
<1>6. CASE t \in DOMAIN timer
  <2>1. timer' = f /\ Enqueue(f, t)
    BY <1>3, <1>6
  <2>2. DOMAIN f = DOMAIN timer /\ \A u \in DOMAIN timer \ {t} : f[u] = timer[u]
    BY <1>2, <1>6
  <2>3. f \in [DOMAIN f -> Fields]
    <3>1. TimersInv'
      BY CallbackReturnsKeeps
    <3> QED
      BY <2>1, <3>1 DEF TimersInv, Queues
  <2>4. t \notin ToSet(heap) \cup ToSet(zeroTimers) \cup ToSet(pendingTimers) /\ t # None
    BY <1>1, <1>4, <1>6, InvFacts DEF Queues
  <2>5. Queues(f, heap, zeroTimers, pendingTimers, None, now)
    <3>1. None \notin ToSet(heap) \cup ToSet(zeroTimers) \cup ToSet(pendingTimers) /\ now <= now
      BY <1>4, InvFacts
    <3>2. DOMAIN f \subseteq Timers /\ ToSet(heap) \cup ToSet(zeroTimers) \cup ToSet(pendingTimers) \subseteq DOMAIN f
      BY <2>2, InvFacts
    <3>3. \A u \in ToSet(heap) \cup ToSet(zeroTimers) : f[u].wakeup = timer[u].wakeup /\ f[u].id = timer[u].id
      BY <2>2, <2>4, InvFacts
    <3> QED
      BY <1>4, <2>3, <3>1, <3>2, <3>3, QueuesFrame
  <2>6. \A u \in ToSet(heap) : f[u].wakeup = timer[u].wakeup
    BY <2>2, <2>4, InvFacts
  <2>7. PipeInv' /\ AskedInv'
    BY <1>3, <1>6, <2>1, <2>2, <2>4, <2>5, <2>6, EnqueueKeepsWake
  <2> QED
    BY <1>3, <2>7 DEF FirstInv
<1> QED
  BY <1>5, <1>6

\* _handleMessage() of either event.
LEMMA EventKeepsWake ==
  ASSUME TimersInv, PipeInv, AskedInv, HandleZeroEvent \/ HandleTimeoutEvent
  PROVE  PipeInv' /\ AskedInv' /\ FirstInv'
<1>1. /\ TypeInv /\ phase = "idle" /\ queue # <<>> /\ queue' = Tail(queue)
      /\ UNCHANGED <<timer, timeouts_, timer_fd_>>
  BY DEF TimersInv, HandleZeroEvent, HandleTimeoutEvent, NextMessage
<1>2. TimersInv'
  BY HandleEventKeeps
<1>3. CASE HandleZeroEvent
  <2>1. PICK b : b = Popped(timer, heap, {t \in DOMAIN timer : Before(timer, t, zeroTimers[1])}).batch
    OBVIOUS
  <2>2. queue[1] = <<port, "ZERO_EVENT">> /\ RunTimers(heap', zeroTimers', Append(b, zeroTimers[1]), scheduledWakeupTime)
    BY <1>3, <2>1 DEF HandleZeroEvent, NextMessage, RunTimers
  <2>3. pendingTimers' = Append(b, zeroTimers[1])
    BY <2>2 DEF RunTimers
  <2>4. Append(b, zeroTimers[1]) # <<>>
    <3>1. Queues(timer, heap, zeroTimers, <<>>, running, now) /\ zeroTimers # <<>>
      BY <1>1, <2>2, MessageTaken DEF TimersInv, TypeInv
    <3>2. b \in Seq(DOMAIN timer) /\ zeroTimers[1] \in DOMAIN timer
      <4>1. b \in Seq(DOMAIN timer)
        <5>1. PICK p : p = Popped(timer, heap, {t \in DOMAIN timer : Before(timer, t, zeroTimers[1])})
          OBVIOUS
        <5>2. Queues(timer, p.heap, zeroTimers, p.batch, running, now) /\ b = p.batch
          BY <2>1, <3>1, <5>1, QueuesPop
        <5> QED
          BY <5>2 DEF Queues
      <4>2. zeroTimers \in Seq(DOMAIN timer)
        BY <3>1 DEF Queues
      <4> QED
        BY <3>1, <4>1, <4>2, Shortened
    <3> QED
      BY <3>2
  <2>5. phase' = "next" /\ scheduledWakeupTime' = scheduledWakeupTime /\ UNCHANGED <<port, pipe>>
    BY <2>2, <2>4 DEF RunTimers
  <2>6. Contains(queue, <<port, "TIMEOUT_EVENT">>) => Contains(queue', <<port, "TIMEOUT_EVENT">>)
    BY <1>1, <2>2, StillQueued
  <2>7. PipeInv' /\ AskedInv'
    BY <1>1, <2>5, <2>6, QuietKeeps
  <2> QED
    BY <2>5, <2>7 DEF FirstInv
<1>4. CASE HandleTimeoutEvent
  <2>1. RunTimers(heap', zeroTimers', pendingTimers', NoTime) /\ UNCHANGED zeroTimers
    BY <1>4 DEF HandleTimeoutEvent, RunTimers
  <2>2. CASE NotifyEventHandler(timer, heap', zeroTimers, NoTime)
    <3>1. heap' # <<>> => heap'[1] \in DOMAIN timer
      BY <1>1, <1>2 DEF TimersInv, Queues
    <3>2. heap' # <<>> => timer[heap'[1]].wakeup \in Nat
      BY <3>1, InvFacts
    <3>3. PipeInv' /\ AskedInv' /\ (heap' # <<>> => scheduledWakeupTime' = timer[heap'[1]].wakeup)
      BY <1>1, <2>2, <3>2, InvFacts, NotifyKeeps
    <3> QED
      BY <1>1, <3>3 DEF FirstInv
  <2>3. CASE phase' = "next" /\ scheduledWakeupTime' = NoTime /\ UNCHANGED <<port, pipe>>
    <3>1. PipeInv'
      BY <1>1, <2>3 DEF PipeInv, OneEach, InPipe, Waits, LastWord
    <3> QED
      BY <2>3, <3>1 DEF AskedInv, FirstInv
  <2> QED
    BY <2>1, <2>2, <2>3 DEF RunTimers
<1> QED
  BY <1>3, <1>4

\* Every step keeps what is known of the next wakeup, if errors are fatal.
LEMMA WakeInvStep ==
  ASSUME ~NonFatal
  PROVE  TimersInv /\ WakeInv /\ [Next]_vars => WakeInv'
<1> SUFFICES ASSUME TimersInv, WakeInv, [Next]_vars, phase' # "dead" PROVE PipeInv' /\ AskedInv' /\ FirstInv'
  BY DEF WakeInv
<1>1. phase # "dead"
  BY DEF Next, IsolateStep, CreateTimer, CancelTimer, HandleZeroEvent, HandleTimeoutEvent, DropMessage, NextMessage,
         ProgramRuns, NextPending, CallbackReturns, TimersRun, Throw, HandleInterrupt, HandleTimerFd, Tick, timerVars, vars
<1>2. PipeInv /\ AskedInv /\ FirstInv /\ TypeInv
  BY <1>1 DEF WakeInv, TimersInv
<1>3. ASSUME NEW r \in Requests, CreateTimer(r[1], r[2])  PROVE PipeInv' /\ AskedInv' /\ FirstInv'
  <2>1. r \in Int \X BOOLEAN
    BY TimersAssumption
  <2>2. r[1] \in Int /\ r[2] \in BOOLEAN
    BY <2>1
  <2> QED
    BY <1>2, <1>3, <2>2, CreateKeepsWake
<1>4. ASSUME NEW t \in Timers, CancelTimer(t)  PROVE PipeInv' /\ AskedInv' /\ FirstInv'
  BY <1>2, <1>4, CancelKeepsWake
<1>5. CASE HandleZeroEvent \/ HandleTimeoutEvent
  BY <1>2, <1>5, EventKeepsWake
<1>6. CASE DropMessage
  <2>1. queue # <<>> /\ queue' = Tail(queue) /\ queue[1][1] # port /\ UNCHANGED <<timerVars, now, eventVars>>
    BY <1>6 DEF DropMessage
  <2>2. queue[1] # <<port, "TIMEOUT_EVENT">>
    BY <2>1
  <2>3. Contains(queue, <<port, "TIMEOUT_EVENT">>) => Contains(queue', <<port, "TIMEOUT_EVENT">>)
    BY <1>2, <2>1, <2>2, StillQueued
  <2>4. PipeInv' /\ AskedInv'
    BY <1>2, <2>1, <2>3, QuietKeeps DEF timerVars, eventVars
  <2> QED
    BY <1>2, <2>1, <2>4 DEF FirstInv, timerVars
<1>7. CASE NextPending
  <2>1. phase' # "idle" /\ UNCHANGED <<port, scheduledWakeupTime, pipe, timeouts_, timer_fd_, queue>>
    BY <1>7 DEF NextPending, eventVars
  <2>2. PipeInv' /\ AskedInv'
    BY <1>2, <2>1, QuietKeeps
  <2> QED
    BY <2>1, <2>2 DEF FirstInv
<1>8. CASE CallbackReturns
  BY <1>2, <1>8, ReturnKeepsWake
<1>9. CASE TimersRun
  <2>1. /\ NotifyEventHandler(timer, heap, zeroTimers, scheduledWakeupTime)
        /\ UNCHANGED <<timer, heap, queue, timeouts_, timer_fd_>>
    BY <1>9 DEF TimersRun
  <2>2. heap # <<>> => heap[1] \in DOMAIN timer
    BY DEF TimersInv, Queues
  <2>3. heap # <<>> => timer[heap[1]].wakeup \in Nat
    BY <2>2, InvFacts
  <2>4. PipeInv' /\ AskedInv' /\ (heap # <<>> => scheduledWakeupTime' = timer[heap[1]].wakeup)
    BY <1>2, <2>1, <2>3, InvFacts, NotifyKeeps
  <2> QED
    BY <2>1, <2>4 DEF FirstInv
<1>10. CASE Throw
  BY <1>10 DEF Throw
<1>11. CASE HandleInterrupt
  <2>1. PipeInv' /\ AskedInv'
    BY <1>2, <1>11, InterruptKeepsWake
  <2> QED
    BY <1>2, <1>11, <2>1 DEF FirstInv, HandleInterrupt, timerVars
<1>12. CASE HandleTimerFd
  <2>1. PipeInv' /\ AskedInv'
    BY <1>2, <1>12, TimerFdKeepsWake
  <2> QED
    BY <1>2, <1>12, <2>1 DEF FirstInv, HandleTimerFd, timerVars
<1>13. CASE Tick \/ UNCHANGED vars
  <2>1. UNCHANGED <<timerVars, queue, eventVars>>
    BY <1>13 DEF Tick, vars
  <2>2. PipeInv' /\ AskedInv'
    BY <1>2, <2>1, QuietKeeps DEF timerVars, eventVars
  <2> QED
    BY <1>2, <2>1, <2>2 DEF FirstInv, timerVars
<1> QED
  BY <1>3, <1>4, <1>5, <1>6, <1>7, <1>8, <1>9, <1>10, <1>11, <1>12, <1>13 DEF Next, IsolateStep

\* The earliest timer of the heap is never forgotten, for any number of timers and ports, if an
\* uncaught error ends the isolate.  One that it survives leaves _handleMessage() without
\* _notifyEventHandler(): then the heap may be ahead of what the event handler knows.
THEOREM NextWakeupIsKnownHolds ==
  ASSUME ~NonFatal
  PROVE  Spec => []NextWakeupIsKnown
<1>1. Init => WakeInv
  <2> SUFFICES ASSUME Init PROVE PipeInv /\ AskedInv /\ FirstInv
    BY DEF WakeInv
  <2>1. pipe = <<>> /\ timeouts_ = <<>> /\ scheduledWakeupTime = NoTime /\ heap = <<>> /\ DOMAIN pipe = {} /\ DOMAIN timeouts_ = {}
    BY DEF Init, IsolateInit, EventInit
  <2>2. PipeInv
    BY <2>1 DEF PipeInv, OneEach, InPipe, Waits
  <2> QED
    BY <2>1, <2>2 DEF AskedInv, FirstInv
<1>2. TimersInv /\ WakeInv => NextWakeupIsKnown
  <2> SUFFICES ASSUME TimersInv, WakeInv, phase = "idle", heap # <<>>
               PROVE  Known(port, timer[heap[1]].wakeup)
    BY DEF NextWakeupIsKnown, Known
  <2>1. scheduledWakeupTime = timer[heap[1]].wakeup /\ AskedInv
    BY DEF WakeInv, FirstInv
  <2>2. heap[1] \in DOMAIN timer
    BY DEF TimersInv, Queues
  <2>3. timer[heap[1]].wakeup \in Nat
    BY <2>2, InvFacts
  <2>4. scheduledWakeupTime # NoTime
    BY <2>1, <2>3, TimersAssumption
  <2> QED
    BY <2>1, <2>4 DEF AskedInv
<1>3. TimersInv /\ WakeInv /\ [Next]_vars => WakeInv'
  BY WakeInvStep
<1> QED
  BY <1>1, <1>2, <1>3, TimersInvHolds, PTL DEF Spec
=============================================================================
