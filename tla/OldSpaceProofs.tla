--------------------------- MODULE OldSpaceProofs ---------------------------
(***************************************************************************)
(* Theorems about OldSpace: its safety properties hold for any set of pages, *)
(* any number of slots and any limit on the capacity.                        *)
(***************************************************************************)
EXTENDS OldSpace, FiniteSetTheorems, NaturalsInduction, WellFoundedInduction, TLAPS

Attempts == {"try1", "lock1", "try2", "lock2", "force", "finish"}
Places == Attempts \cup {"run", "scavenge", "collect", "mark", "done", "forward", "forwarding",
                         "destroy", "gone"}
PageOrNull == Pages \cup {NULL}
Objects == Pages \X Slots

SweeperType ==
  [at : {"none", "next", "sweep", "notify", "end"}, page : PageOrNull, prev_page : PageOrNull,
   next_page : PageOrNull, last_ : PageOrNull, current : Nat, in_use : BOOLEAN]

MutatorType == [at : Places, then : {"run", "try2", "finish"}, missed : BOOLEAN]

HeapTypeOK ==
  /\ mapped \in SUBSET Pages /\ IsFiniteSet(mapped)
  /\ pages_ \in PageOrNull /\ pages_tail_ \in PageOrNull
  /\ next \in [Pages -> PageOrNull]
  /\ capacity \in 0 .. MaxPages
  /\ freelist \in SUBSET Objects /\ live \in SUBSET Objects /\ marked \in SUBSET Objects

\* The variables have the types of the fields that they stand for.
TypeOK ==
  /\ HeapTypeOK
  /\ tasks \in Nat
  /\ sweeper \in SweeperType
  /\ mutator \in MutatorType
  /\ waiting \in BOOLEAN

-----------------------------------------------------------------------------
(* The inductive invariant                                                  *)

\* tasks_ is held by those who need it, and only an attempt to allocate can have missed.
TaskInv ==
  /\ tasks = (IF sweeper.at # "none" THEN 1 ELSE 0)
             + (IF mutator.at \in {"mark", "done", "forwarding"} THEN 1 ELSE 0)
  /\ mutator.at \in {"mark", "forwarding", "gone"} => sweeper.at = "none"
  /\ mutator.missed => mutator.at \in Attempts

\* The list of pages, from the first to the last, is q.
IsList(q) ==
  /\ \A a, b \in 1 .. capacity : q[a] = q[b] => a = b
  /\ mapped = {q[k] : k \in 1 .. capacity}
  /\ pages_ = IF capacity = 0 THEN NULL ELSE q[1]
  /\ pages_tail_ = IF capacity = 0 THEN NULL ELSE q[capacity]
  /\ \A k \in 1 .. capacity : next[q[k]] = IF k = capacity THEN NULL ELSE q[k + 1]

\* The pages that the sweeper has still to do are those from i to j of the list: it
\* stands at page i or goes there next, and knows the page before it.
SweeperPosition(q, i, j) ==
  /\ sweeper.at \in {"none", "end"} => i > j
  /\ sweeper.at \in {"next", "sweep", "notify"} /\ i <= j =>
       sweeper.last_ = q[j] /\ sweeper.prev_page = (IF i = 1 THEN NULL ELSE q[i - 1])
  /\ sweeper.at = "next" => sweeper.page = IF i > j THEN NULL ELSE q[i]
  /\ sweeper.at = "sweep" => i <= j /\ sweeper.page = q[i] /\ (i < j => sweeper.next_page = q[i + 1])
  /\ sweeper.at = "notify" =>
       IF i > j THEN sweeper.page = sweeper.last_
       ELSE sweeper.page # sweeper.last_ /\ sweeper.next_page = q[i]
  /\ sweeper.at # "sweep" => sweeper.current = 1 /\ ~sweeper.in_use
  /\ sweeper.current \in 1 .. SlotsPerPage + 1

\* What the sweeper has not looked at yet.
Unswept(q, i, j) ==
  {slot \in Objects : \E k \in i .. j : slot[1] = q[k] /\ (k = i => slot[2] >= sweeper.current)}

\* There the mark bits tell what is live, and nothing is free; elsewhere no mark is left.
\* A page that is kept although nothing in it was found in use has a mark ahead.
MarksAreRight(q, i, j) ==
  /\ marked \subseteq Unswept(q, i, j)
  /\ freelist \cap Unswept(q, i, j) = {}
  /\ live \cap Unswept(q, i, j) \subseteq marked
  /\ sweeper.at = "sweep" /\ ~sweeper.in_use /\ sweeper.current > 1 =>
       IF sweeper.current <= SlotsPerPage THEN <<sweeper.page, sweeper.current>> \in marked
       ELSE \A slot \in live \cup freelist : slot[1] # sweeper.page
  /\ sweeper.in_use => sweeper.current > 1

SweepInv ==
  mutator.at # "gone" =>
    \E q \in [1 .. capacity -> Pages], i \in 1 .. capacity + 1, j \in 0 .. capacity :
      IsList(q) /\ SweeperPosition(q, i, j) /\ MarksAreRight(q, i, j)

\* The capacity is the number of pages; after the destructor there is nothing left.
SpaceInv ==
  /\ mutator.at # "gone" => capacity = Cardinality(mapped)
  /\ mutator.at = "gone" => live = {} /\ freelist = {} /\ marked = {}

OldSpaceInv == TypeOK /\ TaskInv /\ SpaceInv /\ LiveObjectsSurvive /\ SweepInv

-----------------------------------------------------------------------------
(* Numbers and lists                                                        *)

\* Every set of naturals that is not empty has a least element.
LEMMA LeastNat ==
  ASSUME NEW T \in SUBSET Nat, T # {}
  PROVE  \E x \in T : \A y \in T : x <= y
<1> DEFINE R == OpToRel(<, Nat)
<1>1. IsWellFoundedOn(R, Nat)
  BY NatLessThanWellFounded
<1>2. \A x, y \in Nat : x < y => <<x, y>> \in R
  BY DEF OpToRel
<1> HIDE DEF R
<1>3. PICK x \in T : \A y \in T : ~(<<y, x>> \in R)
  BY <1>1, WFMin
<1>4. \A y \in T : y \in Nat /\ x \in Nat /\ ~(y < x)
  BY <1>2, <1>3
<1>5. \A y \in T : x <= y
  BY <1>4
<1> QED
  BY <1>5

\* Induction over the naturals, for a set.
LEMMA SetInduction ==
  ASSUME NEW S, 0 \in S, \A n \in Nat : n \in S => n + 1 \in S
  PROVE  Nat \subseteq S
<1> SUFFICES ASSUME Nat \ S # {} PROVE FALSE
  OBVIOUS
<1>1. PICK x \in Nat \ S : \A y \in Nat \ S : x <= y
  BY LeastNat
<1> QED
  BY <1>1

\* The block that SweepPage() frees ends at the next mark or at the end of the page.
LEMMA FreeEndFound ==
  ASSUME TypeOK, sweeper.current \in 1 .. SlotsPerPage
  PROVE  /\ FreeEnd \in sweeper.current .. SlotsPerPage + 1
         /\ FreeEnd > SlotsPerPage \/ <<sweeper.page, FreeEnd>> \in marked
         /\ \A j \in sweeper.current .. FreeEnd - 1 : <<sweeper.page, j>> \notin marked
<1> DEFINE T == {i \in sweeper.current .. SlotsPerPage + 1 :
                   i > SlotsPerPage \/ <<sweeper.page, i>> \in marked}
<1>0. SlotsPerPage \in Nat
  BY OldSpaceAssumption
<1>1. T \in SUBSET Nat /\ SlotsPerPage + 1 \in T
  BY <1>0
<1>2. PICK x \in T : \A y \in T : x <= y
  BY <1>1, LeastNat
<1>3. \A j \in sweeper.current .. x - 1 : <<sweeper.page, j>> \notin marked
  BY <1>0, <1>2
<1>4. \E i \in sweeper.current .. SlotsPerPage + 1 :
        /\ i > SlotsPerPage \/ <<sweeper.page, i>> \in marked
        /\ \A j \in sweeper.current .. i - 1 : <<sweeper.page, j>> \notin marked
  BY <1>2, <1>3
<1> QED
  BY <1>4 DEF FreeEnd

\* AllocatePage() puts a page behind the others.
LEMMA ListGrows ==
  ASSUME TypeOK, NEW q \in [1 .. capacity -> Pages], IsList(q),
         NEW page \in Pages, AllocatePage(page)
  PROVE  \E r \in [1 .. capacity' -> Pages] :
           /\ IsList(r)'
           /\ \A k \in 1 .. capacity : r[k] = q[k]
           /\ r[capacity + 1] = page
<1>1. PICK r : r = [k \in 1 .. capacity + 1 |-> IF k = capacity + 1 THEN page ELSE q[k]]
  OBVIOUS
<1>2. capacity \in Nat /\ capacity' = capacity + 1 /\ MaxPages \in Nat
  BY OldSpaceAssumption DEF TypeOK, HeapTypeOK, AllocatePage
<1>3. r \in [1 .. capacity' -> Pages] /\ (\A k \in 1 .. capacity : r[k] = q[k]) /\ r[capacity + 1] = page
  BY <1>1, <1>2
<1>4. \A k \in 1 .. capacity : q[k] \in mapped /\ q[k] # page
  BY DEF IsList, AllocatePage
<1>5. IsList(r)'
  <2>1. \A a, b \in 1 .. capacity' : r[a] = r[b] => a = b
    BY <1>2, <1>3, <1>4 DEF IsList
  <2>2. mapped' = {r[k] : k \in 1 .. capacity'}
    <3>1. \A k \in 1 .. capacity' : k \in 1 .. capacity \/ k = capacity + 1
      BY <1>2
    <3> QED
      BY <1>2, <1>3, <3>1 DEF IsList, AllocatePage
  <2>3. pages_' = r[1] /\ pages_tail_' = r[capacity'] /\ capacity' # 0
    BY <1>2, <1>3, OldSpaceAssumption DEF IsList, AllocatePage
  <2>4. ASSUME NEW k \in 1 .. capacity'
        PROVE  next'[r[k]] = IF k = capacity' THEN NULL ELSE r[k + 1]
    <3>0. r[k] \in Pages /\ k \in Nat
      BY <1>2, <1>3
    <3>1. CASE k = capacity'
      <4>1. r[k] = page /\ ~(page = pages_tail_ /\ pages_ # NULL)
        BY <1>2, <1>3, <1>4, <3>1 DEF IsList
      <4> QED
        BY <3>0, <3>1, <4>1 DEF AllocatePage
    <3>2. CASE k = capacity /\ k # capacity'
      <4>1. r[k] = pages_tail_ /\ pages_ # NULL /\ r[k + 1] = page
        BY <1>2, <1>3, <3>2, OldSpaceAssumption DEF IsList
      <4> QED
        BY <3>0, <3>2, <4>1 DEF AllocatePage
    <3>3. CASE k < capacity
      <4>1. r[k] = q[k] /\ r[k + 1] = q[k + 1] /\ q[k] # pages_tail_ /\ q[k] # page /\ next[q[k]] = q[k + 1]
        BY <1>2, <1>3, <1>4, <3>0, <3>3 DEF IsList
      <4> QED
        BY <1>2, <3>0, <3>3, <4>1 DEF AllocatePage
    <3> QED
      BY <1>2, <3>0, <3>1, <3>2, <3>3
  <2> QED
    BY <2>1, <2>2, <2>3, <2>4 DEF IsList
<1> QED
  BY <1>3, <1>5

\* FreePage() takes a page out, if it is given the page before it.
LEMMA ListShrinks ==
  ASSUME TypeOK, NEW q \in [1 .. capacity -> Pages], IsList(q), NEW i \in 1 .. capacity,
         FreePage(q[i], IF i = 1 THEN NULL ELSE q[i - 1])
  PROVE  \E r \in [1 .. capacity' -> Pages] :
           /\ IsList(r)'
           /\ \A k \in 1 .. capacity - 1 : r[k] = IF k < i THEN q[k] ELSE q[k + 1]
<1>1. PICK r : r = [k \in 1 .. capacity - 1 |-> IF k < i THEN q[k] ELSE q[k + 1]]
  OBVIOUS
<1>2. capacity \in Nat /\ capacity' = capacity - 1 /\ i \in Nat
  BY OldSpaceAssumption DEF TypeOK, HeapTypeOK, FreePage
<1>3. r \in [1 .. capacity' -> Pages] /\ \A k \in 1 .. capacity - 1 : r[k] = IF k < i THEN q[k] ELSE q[k + 1]
  BY <1>1, <1>2
<1>4. NULL \notin Pages
  BY OldSpaceAssumption
<1>5. IsList(r)'
  <2>1. \A a, b \in 1 .. capacity' : r[a] = r[b] => a = b
    BY <1>2, <1>3, SMTT(20) DEF IsList
  <2>2. mapped' = {r[k] : k \in 1 .. capacity'}
    <3>1. ASSUME NEW p \in mapped, p # q[i]  PROVE \E k \in 1 .. capacity' : p = r[k]
      <4>1. PICK a \in 1 .. capacity : p = q[a]
        BY DEF IsList
      <4>2. CASE a < i
        <5>1. a \in 1 .. capacity' /\ r[a] = p
          BY <1>2, <1>3, <4>1, <4>2
        <5> QED
          BY <5>1
      <4>3. CASE a > i
        <5>1. a - 1 \in 1 .. capacity' /\ r[a - 1] = p
          BY <1>2, <1>3, <4>1, <4>3
        <5> QED
          BY <5>1
      <4> QED
        BY <1>2, <3>1, <4>1, <4>2, <4>3
    <3>2. ASSUME NEW k \in 1 .. capacity'  PROVE r[k] \in mapped /\ r[k] # q[i]
      <4>1. k \in 1 .. capacity /\ k + 1 \in 1 .. capacity
        BY <1>2
      <4>2. q[k] \in mapped /\ q[k + 1] \in mapped /\ (k # i => q[k] # q[i]) /\ (k + 1 # i => q[k + 1] # q[i])
        BY <4>1 DEF IsList
      <4> QED
        BY <1>2, <1>3, <3>2, <4>1, <4>2
    <3>3. mapped' = mapped \ {q[i]}
      BY DEF FreePage
    <3> QED
      BY <3>1, <3>2, <3>3
  <2>3. pages_' = IF capacity' = 0 THEN NULL ELSE r[1]
    <3>1. CASE i = 1
      <4>1. pages_' = next[q[1]] /\ next[q[1]] = IF 1 = capacity THEN NULL ELSE q[2]
        BY <1>2, <3>1 DEF FreePage, IsList
      <4> QED
        BY <1>2, <1>3, <3>1, <4>1
    <3>2. CASE i # 1
      <4>1. q[i - 1] \in Pages /\ pages_' = pages_ /\ pages_ = q[1]
        BY <1>2, <1>4, <3>2 DEF FreePage, IsList
      <4> QED
        BY <1>2, <1>3, <3>2, <4>1
    <3> QED
      BY <3>1, <3>2
  <2>4. pages_tail_' = IF capacity' = 0 THEN NULL ELSE r[capacity']
    <3>1. pages_tail_ = q[capacity] /\ capacity \in 1 .. capacity
      BY <1>2 DEF IsList
    <3>2. CASE i = capacity
      BY <1>2, <1>3, <3>1, <3>2 DEF FreePage
    <3>3. CASE i # capacity
      <4>1. q[i] # pages_tail_
        BY <1>2, <3>1, <3>3 DEF IsList
      <4> QED
        BY <1>2, <1>3, <3>1, <3>3, <4>1 DEF FreePage
    <3> QED
      BY <3>2, <3>3
  <2>5. ASSUME NEW k \in 1 .. capacity'
        PROVE  next'[r[k]] = IF k = capacity' THEN NULL ELSE r[k + 1]
    <3>0. k \in Nat /\ k \in 1 .. capacity /\ k + 1 \in 1 .. capacity /\ r[k] \in Pages
      BY <1>2, <1>3
    <3>1. CASE k < i - 1
      <4>1. r[k] = q[k] /\ r[k + 1] = q[k + 1] /\ next[q[k]] = q[k + 1] /\ k # capacity'
        BY <1>2, <1>3, <3>0, <3>1 DEF IsList
      <4>2. q[k] # q[i] /\ q[k] # (IF i = 1 THEN NULL ELSE q[i - 1])
        BY <1>2, <3>0, <3>1 DEF IsList
      <4> QED
        BY <3>0, <4>1, <4>2 DEF FreePage
    <3>2. CASE k = i - 1
      <4>1. r[k] = q[i - 1] /\ i # 1 /\ q[i - 1] # q[i]
        BY <1>2, <1>3, <3>0, <3>2 DEF IsList
      <4>2. next'[r[k]] = next[q[i]]
        BY <3>0, <4>1 DEF FreePage
      <4>3. next[q[i]] = IF i = capacity THEN NULL ELSE q[i + 1]
        BY DEF IsList
      <4>4. CASE i = capacity
        BY <1>2, <3>2, <4>2, <4>3, <4>4
      <4>5. CASE i # capacity
        <5>1. k # capacity' /\ k + 1 = i /\ i \in 1 .. capacity - 1
          BY <1>2, <3>2, <4>5
        <5>2. r[k + 1] = q[i + 1]
          BY <1>2, <1>3, <5>1
        <5> QED
          BY <4>2, <4>3, <4>5, <5>1, <5>2
      <4> QED
        BY <4>4, <4>5
    <3>3. CASE k >= i
      <4>1. r[k] = q[k + 1] /\ q[k + 1] # q[i] /\ q[k + 1] # (IF i = 1 THEN NULL ELSE q[i - 1])
        BY <1>2, <1>3, <1>4, <3>0, <3>3 DEF IsList
      <4>2. next'[r[k]] = next[q[k + 1]]
        BY <3>0, <4>1 DEF FreePage
      <4>3. next[q[k + 1]] = IF k + 1 = capacity THEN NULL ELSE q[k + 2]
        BY <1>2, <3>0 DEF IsList
      <4>4. CASE k = capacity'
        BY <1>2, <4>2, <4>3, <4>4
      <4>5. CASE k # capacity'
        BY <1>2, <1>3, <3>0, <3>3, <4>2, <4>3, <4>5
      <4> QED
        BY <4>4, <4>5
    <3> QED
      BY <1>2, <3>0, <3>1, <3>2, <3>3
  <2> QED
    BY <2>1, <2>2, <2>3, <2>4, <2>5 DEF IsList
<1> QED
  BY <1>3, <1>5

-----------------------------------------------------------------------------
(* Allocation beside the sweeper                                            *)

\* The part of the invariant that is about memory.
HeapInv == HeapTypeOK /\ SpaceInv /\ LiveObjectsSurvive /\ SweepInv

\* An object in an element of the free list is behind the sweeper.
LEMMA FreeListKeeps ==
  ASSUME OldSpaceInv, mutator.at # "gone", mutator'.at # "gone",
         TryAllocateInFreeList, UNCHANGED <<marked, sweeper>>
  PROVE  HeapInv'
<1>1. PICK slot \in freelist : /\ freelist' = freelist \ {slot} /\ live' = live \union {slot}
                               /\ UNCHANGED heapVars
  BY DEF TryAllocateInFreeList
<1>2. UNCHANGED <<mapped, pages_, pages_tail_, next, capacity>>
  BY <1>1 DEF heapVars
<1>3. HeapTypeOK'
  BY <1>1, <1>2 DEF OldSpaceInv, TypeOK, HeapTypeOK
<1>4. SpaceInv' /\ LiveObjectsSurvive'
  BY <1>1, <1>2 DEF OldSpaceInv, SpaceInv, LiveObjectsSurvive
<1>5. PICK q \in [1 .. capacity -> Pages], i \in 1 .. capacity + 1, j \in 0 .. capacity :
        IsList(q) /\ SweeperPosition(q, i, j) /\ MarksAreRight(q, i, j)
  BY DEF OldSpaceInv, SweepInv
<1>6. IsList(q)' /\ SweeperPosition(q, i, j)'
  BY <1>2, <1>5 DEF IsList, SweeperPosition
<1>7. Unswept(q, i, j)' = Unswept(q, i, j)
  BY DEF Unswept
<1>8. MarksAreRight(q, i, j)'
  BY <1>1, <1>5, <1>7 DEF MarksAreRight
<1>9. SweepInv'
  BY <1>2, <1>6, <1>8 DEF SweepInv
<1> QED
  BY <1>3, <1>4, <1>9 DEF HeapInv

\* A fresh page is behind the last one that the sweeper does.
LEMMA FreshPageKeeps ==
  ASSUME OldSpaceInv, mutator.at # "gone", mutator'.at # "gone",
         TryAllocateInFreshPage, UNCHANGED <<marked, sweeper>>
  PROVE  HeapInv'
<1>1. PICK page \in Pages : /\ AllocatePage(page)
                            /\ live' = live \union {<<page, 1>>}
                            /\ freelist' = freelist \union (SlotsOf(page) \ {<<page, 1>>})
  BY DEF TryAllocateInFreshPage
<1>2. capacity \in Nat /\ capacity' = capacity + 1 /\ MaxPages \in Nat /\ capacity < MaxPages
      /\ mapped' = mapped \cup {page} /\ page \notin mapped
  BY <1>1, OldSpaceAssumption DEF OldSpaceInv, TypeOK, HeapTypeOK, AllocatePage
<1>3. SlotsOf(page) \subseteq Objects /\ <<page, 1>> \in Objects
  BY OldSpaceAssumption DEF SlotsOf, Slots, Objects
<1>4. HeapTypeOK'
  <2>1. IsFiniteSet(mapped') /\ mapped' \in SUBSET Pages
    BY <1>2, FS_AddElement DEF OldSpaceInv, TypeOK, HeapTypeOK
  <2>2. pages_' \in PageOrNull /\ pages_tail_' \in PageOrNull /\ next' \in [Pages -> PageOrNull]
    BY <1>1 DEF OldSpaceInv, TypeOK, HeapTypeOK, AllocatePage, PageOrNull
  <2>3. freelist' \in SUBSET Objects /\ live' \in SUBSET Objects /\ marked' \in SUBSET Objects
    BY <1>1, <1>3 DEF OldSpaceInv, TypeOK, HeapTypeOK
  <2>4. capacity' \in 0 .. MaxPages
    BY <1>2
  <2> QED
    BY <2>1, <2>2, <2>3, <2>4 DEF HeapTypeOK
<1>5. SpaceInv'
  <2>1. Cardinality(mapped') = Cardinality(mapped) + 1
    BY <1>2, FS_AddElement DEF OldSpaceInv, TypeOK, HeapTypeOK
  <2> QED
    BY <1>2, <2>1 DEF OldSpaceInv, SpaceInv
<1>6. \A slot \in live \cup freelist : slot[1] # page
  BY <1>2 DEF OldSpaceInv, LiveObjectsSurvive
<1>7. \A slot \in SlotsOf(page) : slot[1] = page
  BY DEF SlotsOf
<1>8. LiveObjectsSurvive'
  <2>1. live' \intersect freelist' = {}
    BY <1>1, <1>6, <1>7 DEF OldSpaceInv, LiveObjectsSurvive
  <2>2. \A slot \in live' \cup freelist' : slot[1] \in mapped'
    BY <1>1, <1>2, <1>7 DEF OldSpaceInv, LiveObjectsSurvive
  <2> QED
    BY <2>1, <2>2 DEF LiveObjectsSurvive
<1>9. PICK q \in [1 .. capacity -> Pages], i \in 1 .. capacity + 1, j \in 0 .. capacity :
        IsList(q) /\ SweeperPosition(q, i, j) /\ MarksAreRight(q, i, j)
  BY DEF OldSpaceInv, SweepInv
<1>10. PICK r \in [1 .. capacity' -> Pages] :
         IsList(r)' /\ (\A k \in 1 .. capacity : r[k] = q[k]) /\ r[capacity + 1] = page
  BY <1>1, <1>9, ListGrows DEF OldSpaceInv
<1>11. i \in 1 .. capacity' + 1 /\ j \in 0 .. capacity' /\ i \in Nat /\ j \in Nat
  BY <1>2
<1>12. SweeperPosition(r, i, j)'
  BY <1>2, <1>9, <1>10, <1>11 DEF SweeperPosition
<1>13. Unswept(r, i, j)' = Unswept(q, i, j)
  <2>1. \A k \in i .. j : r[k] = q[k]
    BY <1>2, <1>10, <1>11
  <2> QED
    BY <2>1 DEF Unswept
<1>14. \A slot \in Unswept(q, i, j) : slot[1] # page
  <2>1. \A k \in i .. j : q[k] \in mapped
    BY <1>2, <1>9, <1>11 DEF IsList
  <2> QED
    BY <1>2, <2>1 DEF Unswept
<1>15. sweeper.at = "sweep" => sweeper.page # page
  <2>1. sweeper.at = "sweep" => sweeper.page = q[i] /\ i \in 1 .. capacity
    BY <1>2, <1>9, <1>11 DEF SweeperPosition
  <2> QED
    BY <1>2, <1>9, <2>1 DEF IsList
<1>16. MarksAreRight(r, i, j)'
  <2>1. freelist' \cap Unswept(q, i, j) = {} /\ live' \cap Unswept(q, i, j) \subseteq marked
    BY <1>1, <1>7, <1>9, <1>14 DEF MarksAreRight
  <2>2. \A slot \in live' \cup freelist' : slot \in live \cup freelist \/ slot[1] = page
    BY <1>1, <1>7
  <2> QED
    BY <1>9, <1>13, <1>15, <2>1, <2>2 DEF MarksAreRight
<1>17. SweepInv'
  BY <1>10, <1>11, <1>12, <1>16 DEF SweepInv
<1> QED
  BY <1>4, <1>5, <1>8, <1>17 DEF HeapInv

\* A step that leaves memory alone, or at most drops objects.
LEMMA OtherStepsKeep ==
  ASSUME OldSpaceInv, mutator.at = "gone" <=> mutator'.at = "gone",
         live' \subseteq live,
         UNCHANGED <<mapped, pages_, pages_tail_, next, capacity, freelist, marked, sweeper>>
  PROVE  HeapInv'
<1>1. HeapTypeOK' /\ SpaceInv' /\ LiveObjectsSurvive'
  BY DEF OldSpaceInv, TypeOK, HeapTypeOK, SpaceInv, LiveObjectsSurvive
<1>2. SweepInv'
  <2> SUFFICES ASSUME mutator'.at # "gone"
               PROVE  \E q \in [1 .. capacity -> Pages], i \in 1 .. capacity + 1, j \in 0 .. capacity :
                        IsList(q)' /\ SweeperPosition(q, i, j)' /\ MarksAreRight(q, i, j)'
    BY DEF SweepInv
  <2>1. PICK q \in [1 .. capacity -> Pages], i \in 1 .. capacity + 1, j \in 0 .. capacity :
          IsList(q) /\ SweeperPosition(q, i, j) /\ MarksAreRight(q, i, j)
    BY DEF OldSpaceInv, SweepInv
  <2>2. IsList(q)' /\ SweeperPosition(q, i, j)'
    BY <2>1 DEF IsList, SweeperPosition
  <2>3. Unswept(q, i, j)' = Unswept(q, i, j)
    BY DEF Unswept
  <2>4. MarksAreRight(q, i, j)'
    BY <2>1, <2>3 DEF MarksAreRight
  <2> QED
    BY <2>2, <2>4
<1> QED
  BY <1>1, <1>2 DEF HeapInv

-----------------------------------------------------------------------------
(* The steps of the sweeper                                                 *)

\* Where the lists and the position of the sweeper are, the rest is about marks.
LEMMA PositionFound ==
  ASSUME OldSpaceInv, mutator.at # "gone"
  PROVE  \E q \in [1 .. capacity -> Pages], i \in 1 .. capacity + 1, j \in 0 .. capacity :
           /\ IsList(q) /\ SweeperPosition(q, i, j) /\ MarksAreRight(q, i, j)
           /\ capacity \in Nat /\ i \in Nat /\ j \in Nat /\ i >= 1 /\ j <= capacity
           /\ i > j => Unswept(q, i, j) = {}
<1>1. PICK q \in [1 .. capacity -> Pages], i \in 1 .. capacity + 1, j \in 0 .. capacity :
        IsList(q) /\ SweeperPosition(q, i, j) /\ MarksAreRight(q, i, j)
  BY DEF OldSpaceInv, SweepInv
<1>2. capacity \in Nat
  BY OldSpaceAssumption DEF OldSpaceInv, TypeOK, HeapTypeOK
<1>3. i \in Nat /\ j \in Nat /\ i >= 1 /\ j <= capacity
  BY <1>2
<1>4. ASSUME i > j  PROVE Unswept(q, i, j) = {}
  <2>1. i .. j = {}
    BY <1>3, <1>4
  <2> QED
    BY <2>1 DEF Unswept
<1> QED
  BY <1>1, <1>2, <1>3, <1>4

\* The collection that starts the sweeper has marked what is live and has given up the
\* free list.
LEMMA MarkKeeps ==
  ASSUME OldSpaceInv, Mark
  PROVE  HeapInv'
<1>0. mutator.at = "mark" /\ mutator'.at = "done"
  BY DEF Mark, At, Entries, Go, OldSpaceInv, TypeOK, MutatorType
<1>1. /\ UNCHANGED <<mapped, pages_, pages_tail_, next, capacity, live>>
      /\ marked' = live /\ freelist' = {}
  BY DEF Mark
<1>2. /\ sweeper'.at = "next" /\ sweeper'.page = pages_ /\ sweeper'.last_ = pages_tail_
      /\ sweeper'.prev_page = NULL /\ sweeper'.current = 1 /\ sweeper'.in_use = FALSE
  BY DEF Mark, StartSweep, NoSweeper
<1>3. HeapTypeOK'
  BY <1>1 DEF OldSpaceInv, TypeOK, HeapTypeOK
<1>4. SpaceInv' /\ LiveObjectsSurvive'
  BY <1>0, <1>1 DEF OldSpaceInv, SpaceInv, LiveObjectsSurvive
<1>5. PICK q \in [1 .. capacity -> Pages] : IsList(q)
  BY <1>0 DEF OldSpaceInv, SweepInv
<1>6. capacity \in Nat /\ SlotsPerPage \in Nat
  BY OldSpaceAssumption DEF OldSpaceInv, TypeOK, HeapTypeOK
<1>7. IsList(q)'
  BY <1>1, <1>5 DEF IsList
<1>8. SweeperPosition(q, 1, capacity)'
  BY <1>1, <1>2, <1>5, <1>6 DEF SweeperPosition, IsList
<1>9. live \subseteq Unswept(q, 1, capacity)'
  <2> SUFFICES ASSUME NEW slot \in live PROVE slot \in Unswept(q, 1, capacity)'
    OBVIOUS
  <2>1. slot \in Objects /\ slot[2] >= 1
    BY DEF OldSpaceInv, TypeOK, HeapTypeOK, Objects, Slots
  <2>2. slot[1] \in mapped
    BY DEF OldSpaceInv, LiveObjectsSurvive
  <2>3. PICK k \in 1 .. capacity : slot[1] = q[k]
    BY <1>5, <2>2 DEF IsList
  <2> QED
    BY <1>1, <1>2, <2>1, <2>3 DEF Unswept
<1>10. MarksAreRight(q, 1, capacity)'
  BY <1>1, <1>2, <1>9 DEF MarksAreRight
<1>11. 1 \in 1 .. capacity' + 1 /\ capacity \in 0 .. capacity' /\ q \in [1 .. capacity' -> Pages]
  BY <1>1, <1>6
<1>12. SweepInv'
  BY <1>1, <1>7, <1>8, <1>10, <1>11 DEF SweepInv
<1> QED
  BY <1>3, <1>4, <1>12 DEF HeapInv

\* The head of the loop reads the next page.
LEMMA SweepNextPageKeeps ==
  ASSUME OldSpaceInv, mutator.at # "gone", SweepNextPage
  PROVE  HeapInv'
<1>1. UNCHANGED <<mapped, pages_, pages_tail_, next, capacity, freelist, live, marked, mutator>>
  BY DEF SweepNextPage
<1>2. HeapTypeOK' /\ SpaceInv' /\ LiveObjectsSurvive'
  BY <1>1 DEF OldSpaceInv, TypeOK, HeapTypeOK, SpaceInv, LiveObjectsSurvive
<1>3. PICK q \in [1 .. capacity -> Pages], i \in 1 .. capacity + 1, j \in 0 .. capacity :
        /\ IsList(q) /\ SweeperPosition(q, i, j) /\ MarksAreRight(q, i, j)
        /\ capacity \in Nat /\ i \in Nat /\ j \in Nat /\ i >= 1 /\ j <= capacity
        /\ i > j => Unswept(q, i, j) = {}
  BY PositionFound
<1>4. sweeper.at = "next" /\ sweeper \in SweeperType /\ sweeper.current = 1 /\ ~sweeper.in_use
  BY <1>3 DEF SweepNextPage, SweeperPosition, OldSpaceInv, TypeOK
<1>5. IsList(q)'
  BY <1>1, <1>3 DEF IsList
<1>6. SweeperPosition(q, i, j)'
  <2>1. CASE i > j
    <3>1. sweeper' = [sweeper EXCEPT !.at = "end"]
      BY <1>3, <1>4, <2>1 DEF SweepNextPage, SweeperPosition
    <3> QED
      BY <1>3, <1>4, <2>1, <3>1 DEF SweeperPosition, SweeperType
  <2>2. CASE i <= j
    <3>1. sweeper.page = q[i] /\ q[i] \in Pages /\ i \in 1 .. capacity
      BY <1>3, <1>4, <2>2 DEF SweeperPosition
    <3>2. sweeper' = [sweeper EXCEPT !.at = "sweep", !.next_page = next[q[i]]]
      BY <3>1, OldSpaceAssumption DEF SweepNextPage
    <3>3. i < j => next[q[i]] = q[i + 1]
      BY <1>3, <3>1 DEF IsList
    <3> QED
      BY <1>3, <1>4, <2>2, <3>1, <3>2, <3>3 DEF SweeperPosition, SweeperType
  <2> QED
    BY <1>3, <2>1, <2>2
<1>7. sweeper'.current = 1 /\ sweeper'.in_use = sweeper.in_use
  BY <1>4 DEF SweepNextPage, SweeperType
<1>8. Unswept(q, i, j)' = Unswept(q, i, j)
  BY <1>4, <1>7 DEF Unswept
<1>9. MarksAreRight(q, i, j)'
  BY <1>1, <1>3, <1>4, <1>7, <1>8 DEF MarksAreRight
<1>10. SweepInv'
  BY <1>1, <1>5, <1>6, <1>9 DEF SweepInv
<1> QED
  BY <1>2, <1>10 DEF HeapInv

\* The mark of an object that is kept is cleared.
LEMMA SweepMarkedKeeps ==
  ASSUME OldSpaceInv, mutator.at # "gone", SweepPage,
         <<sweeper.page, sweeper.current>> \in marked
  PROVE  HeapInv'
<1> DEFINE here == <<sweeper.page, sweeper.current>>
<1>1. /\ UNCHANGED <<mapped, pages_, pages_tail_, next, capacity, freelist, live, mutator>>
      /\ marked' = marked \ {here} /\ sweeper.at = "sweep" /\ sweeper.current <= SlotsPerPage
      /\ sweeper' = [sweeper EXCEPT !.current = @ + 1, !.in_use = TRUE]
  BY DEF SweepPage
<1>2. HeapTypeOK' /\ SpaceInv' /\ LiveObjectsSurvive'
  BY <1>1 DEF OldSpaceInv, TypeOK, HeapTypeOK, SpaceInv, LiveObjectsSurvive
<1>3. PICK q \in [1 .. capacity -> Pages], i \in 1 .. capacity + 1, j \in 0 .. capacity :
        /\ IsList(q) /\ SweeperPosition(q, i, j) /\ MarksAreRight(q, i, j)
        /\ capacity \in Nat /\ i \in Nat /\ j \in Nat /\ i >= 1 /\ j <= capacity
        /\ i > j => Unswept(q, i, j) = {}
  BY PositionFound
<1>4. sweeper \in SweeperType /\ SlotsPerPage \in Nat
  BY OldSpaceAssumption DEF OldSpaceInv, TypeOK
<1>5. /\ sweeper'.current = sweeper.current + 1 /\ sweeper'.in_use /\ sweeper'.at = "sweep"
      /\ sweeper'.page = sweeper.page /\ sweeper'.last_ = sweeper.last_
      /\ sweeper'.prev_page = sweeper.prev_page /\ sweeper'.next_page = sweeper.next_page
      /\ sweeper.current \in 1 .. SlotsPerPage
  BY <1>1, <1>3, <1>4 DEF SweeperType, SweeperPosition
<1>6. IsList(q)' /\ SweeperPosition(q, i, j)'
  <2>1. IsList(q)'
    BY <1>1, <1>3 DEF IsList
  <2>2. SweeperPosition(q, i, j)'
    BY <1>1, <1>3, <1>4, <1>5 DEF SweeperPosition
  <2> QED
    BY <2>1, <2>2
<1>7. sweeper.page = q[i] /\ i <= j /\ i \in 1 .. capacity
  BY <1>1, <1>3 DEF SweeperPosition
<1>8. Unswept(q, i, j)' = Unswept(q, i, j) \ {here}
  <2>1. \A k \in i .. j : q[k] = q[i] => k = i
    BY <1>3, <1>7 DEF IsList
  <2>2. \A slot \in Objects : slot[2] \in Nat /\ (slot = here <=> slot[1] = q[i] /\ slot[2] = sweeper.current)
    BY <1>7, OldSpaceAssumption DEF Objects, Slots
  <2>3. \A slot \in Objects : slot[2] >= sweeper.current + 1 <=> slot[2] >= sweeper.current /\ slot[2] # sweeper.current
    BY <1>5, <2>2
  <2> QED
    BY <1>5, <1>7, <2>1, <2>2, <2>3 DEF Unswept
<1>9. MarksAreRight(q, i, j)'
  BY <1>1, <1>3, <1>5, <1>8 DEF MarksAreRight
<1>10. SweepInv'
  BY <1>1, <1>6, <1>9 DEF SweepInv
<1> QED
  BY <1>2, <1>10 DEF HeapInv

\* A block without a mark holds nothing that is live, and goes to the free list.
LEMMA SweepBlockKeeps ==
  ASSUME OldSpaceInv, mutator.at # "gone", SweepPage,
         <<sweeper.page, sweeper.current>> \notin marked
  PROVE  HeapInv'
<1>1. /\ UNCHANGED <<mapped, pages_, pages_tail_, next, capacity, live, marked, mutator>>
      /\ FreeBlock /\ sweeper.at = "sweep" /\ sweeper.current <= SlotsPerPage
      /\ sweeper' = [sweeper EXCEPT !.current = FreeEnd]
  BY DEF SweepPage
<1>3. PICK q \in [1 .. capacity -> Pages], i \in 1 .. capacity + 1, j \in 0 .. capacity :
        /\ IsList(q) /\ SweeperPosition(q, i, j) /\ MarksAreRight(q, i, j)
        /\ capacity \in Nat /\ i \in Nat /\ j \in Nat /\ i >= 1 /\ j <= capacity
        /\ i > j => Unswept(q, i, j) = {}
  BY PositionFound
<1>4. sweeper \in SweeperType /\ SlotsPerPage \in Nat /\ SlotsPerPage # 0 /\ sweeper.current \in 1 .. SlotsPerPage
  BY <1>1, <1>3, OldSpaceAssumption DEF OldSpaceInv, TypeOK, SweeperPosition, SweeperType
<1>5. PICK end : end = FreeEnd
  OBVIOUS
<1>6. /\ end \in sweeper.current .. SlotsPerPage + 1
      /\ end > SlotsPerPage \/ <<sweeper.page, end>> \in marked
      /\ \A n \in sweeper.current .. end - 1 : <<sweeper.page, n>> \notin marked
  BY <1>4, <1>5, FreeEndFound DEF OldSpaceInv
<1>7. end > sweeper.current /\ end \in Nat /\ end > 1
  BY <1>4, <1>6
<1>8. /\ sweeper'.current = end /\ sweeper'.in_use = sweeper.in_use /\ sweeper'.at = "sweep"
      /\ sweeper'.page = sweeper.page /\ sweeper'.last_ = sweeper.last_
      /\ sweeper'.prev_page = sweeper.prev_page /\ sweeper'.next_page = sweeper.next_page
  BY <1>1, <1>4, <1>5 DEF SweeperType
<1>9. sweeper.page = q[i] /\ i <= j /\ i \in 1 .. capacity /\ q[i] \in Pages /\ q[i] \in mapped
  BY <1>1, <1>3 DEF SweeperPosition, IsList
<1> DEFINE block == {sweeper.page} \X (sweeper.current .. end - 1)
<1>10. freelist' = IF sweeper.current = 1 /\ end > SlotsPerPage THEN freelist ELSE freelist \cup block
  BY <1>1, <1>5 DEF FreeBlock
<1>11. \A slot \in block : /\ slot \in Objects /\ slot[1] = q[i] /\ slot[2] \in sweeper.current .. end - 1
                           /\ slot \notin marked
  <2> SUFFICES ASSUME NEW n \in sweeper.current .. end - 1
               PROVE  /\ <<sweeper.page, n>> \in Objects /\ <<sweeper.page, n>>[1] = q[i]
                      /\ <<sweeper.page, n>>[2] = n /\ <<sweeper.page, n>> \notin marked
    OBVIOUS
  <2>1. n \in 1 .. SlotsPerPage
    BY <1>4, <1>6, <1>7
  <2> QED
    BY <1>6, <1>9, <2>1 DEF Objects, Slots
<1>12. \A slot \in Objects : slot[1] = q[i] /\ slot[2] \in sweeper.current .. end - 1 => slot \in block
  BY <1>9 DEF Objects
<1>13. \A slot \in Objects : slot[2] \in 1 .. SlotsPerPage
  BY DEF Objects, Slots
<1>14. \A k \in i .. j : q[k] = q[i] => k = i
  BY <1>3, <1>9 DEF IsList
<1>15. Unswept(q, i, j)' = Unswept(q, i, j) \ block
  <2>1. \A slot \in Objects : slot[1] = q[i] => (slot[2] >= end <=> slot[2] >= sweeper.current /\ slot \notin block)
    <3> SUFFICES ASSUME NEW slot \in Objects, slot[1] = q[i]
                 PROVE  slot[2] >= end <=> slot[2] >= sweeper.current /\ slot \notin block
      OBVIOUS
    <3>1. slot \in block <=> slot[2] \in sweeper.current .. end - 1
      BY <1>11, <1>12
    <3> HIDE DEF block
    <3> QED
      BY <1>4, <1>7, <1>13, <3>1
  <2>2. \A slot \in block : slot[1] = q[i]
    BY <1>11
  <2> HIDE DEF block
  <2> QED
    BY <1>8, <1>9, <1>14, <2>1, <2>2 DEF Unswept
<1>16. block \subseteq Unswept(q, i, j)
  <2>1. i \in i .. j
    BY <1>9
  <2> QED
    BY <1>4, <1>7, <1>11, <2>1 DEF Unswept
<1> HIDE DEF block
<1>17. live \cap block = {}
  BY <1>3, <1>11, <1>16 DEF MarksAreRight
<1>18. HeapTypeOK'
  BY <1>1, <1>10, <1>11 DEF OldSpaceInv, TypeOK, HeapTypeOK
<1>19. SpaceInv'
  BY <1>1 DEF OldSpaceInv, SpaceInv
<1>20. LiveObjectsSurvive'
  BY <1>1, <1>9, <1>10, <1>11, <1>17 DEF OldSpaceInv, LiveObjectsSurvive
<1>21. IsList(q)' /\ SweeperPosition(q, i, j)'
  BY <1>1, <1>3, <1>4, <1>6, <1>7, <1>8 DEF IsList, SweeperPosition
<1>22. MarksAreRight(q, i, j)'
  <2>1. /\ marked' \subseteq Unswept(q, i, j)'
        /\ freelist' \cap Unswept(q, i, j)' = {}
        /\ live' \cap Unswept(q, i, j)' \subseteq marked'
    BY <1>1, <1>3, <1>10, <1>11, <1>15 DEF MarksAreRight
  <2>2. ASSUME ~sweeper.in_use, end > SlotsPerPage
        PROVE  \A slot \in live \cup freelist' : slot[1] # sweeper.page
    <3>1. sweeper.current = 1
      BY <1>1, <1>3, <1>4, <2>2 DEF MarksAreRight
    <3>2. freelist' = freelist
      BY <1>10, <2>2, <3>1
    <3>3. \A slot \in Objects : slot[1] = q[i] => slot \in Unswept(q, i, j) /\ slot \in block
      <4>1. i \in i .. j
        BY <1>9
      <4>2. \A slot \in Objects : slot[2] >= 1 /\ slot[2] \in 1 .. end - 1
        BY <1>4, <1>7, <1>13, <2>2
      <4> QED
        BY <1>12, <3>1, <4>1, <4>2 DEF Unswept
    <3>4. \A slot \in live \cup freelist : slot \in Objects
      BY DEF OldSpaceInv, TypeOK, HeapTypeOK
    <3> QED
      BY <1>3, <1>9, <1>17, <3>2, <3>3, <3>4 DEF MarksAreRight
  <2>3. sweeper'.at = "sweep" /\ ~sweeper'.in_use /\ sweeper'.current > 1 =>
          IF sweeper'.current <= SlotsPerPage THEN <<sweeper'.page, sweeper'.current>> \in marked'
          ELSE \A slot \in live' \cup freelist' : slot[1] # sweeper'.page
    BY <1>1, <1>4, <1>6, <1>7, <1>8, <2>2
  <2>4. sweeper'.in_use => sweeper'.current > 1
    BY <1>7, <1>8
  <2> QED
    BY <2>1, <2>3, <2>4 DEF MarksAreRight
<1>23. SweepInv'
  BY <1>1, <1>21, <1>22 DEF SweepInv
<1> QED
  BY <1>18, <1>19, <1>20, <1>23 DEF HeapInv

\* The sweeper leaves a page that is in use.
LEMMA SweepPageKeptKeeps ==
  ASSUME OldSpaceInv, mutator.at # "gone", SweepPageEnds, sweeper.in_use
  PROVE  HeapInv'
<1>1. /\ UNCHANGED <<mapped, pages_, pages_tail_, next, capacity, freelist, live, marked, mutator>>
      /\ sweeper.at = "sweep" /\ sweeper.current > SlotsPerPage
  BY DEF SweepPageEnds
<1>2. HeapTypeOK' /\ SpaceInv' /\ LiveObjectsSurvive'
  BY <1>1 DEF OldSpaceInv, TypeOK, HeapTypeOK, SpaceInv, LiveObjectsSurvive
<1>3. PICK q \in [1 .. capacity -> Pages], i \in 1 .. capacity + 1, j \in 0 .. capacity :
        /\ IsList(q) /\ SweeperPosition(q, i, j) /\ MarksAreRight(q, i, j)
        /\ capacity \in Nat /\ i \in Nat /\ j \in Nat /\ i >= 1 /\ j <= capacity
        /\ i > j => Unswept(q, i, j) = {}
  BY PositionFound
<1>4. sweeper \in SweeperType /\ SlotsPerPage \in Nat
  BY OldSpaceAssumption DEF OldSpaceInv, TypeOK
<1>5. /\ sweeper'.at = "notify" /\ sweeper'.current = 1 /\ ~sweeper'.in_use
      /\ sweeper'.prev_page = sweeper.page /\ sweeper'.page = sweeper.page
      /\ sweeper'.last_ = sweeper.last_ /\ sweeper'.next_page = sweeper.next_page
  BY <1>4 DEF SweepPageEnds, SweeperType
<1>6. /\ sweeper.page = q[i] /\ i <= j /\ i \in 1 .. capacity /\ j \in 1 .. capacity
      /\ sweeper.last_ = q[j] /\ (i < j => sweeper.next_page = q[i + 1])
  BY <1>1, <1>3 DEF SweeperPosition
<1>7. i < j => q[i] # q[j]
  BY <1>3, <1>6 DEF IsList
<1>8. IsList(q)'
  BY <1>1, <1>3 DEF IsList
<1>9. SweeperPosition(q, i + 1, j)'
  BY <1>3, <1>4, <1>5, <1>6, <1>7 DEF SweeperPosition
<1>10. Unswept(q, i + 1, j)' = Unswept(q, i, j)
  <2>1. \A slot \in Objects : slot[2] >= 1 /\ ~(slot[2] >= sweeper.current)
    BY <1>1, <1>4 DEF Objects, Slots, SweeperType
  <2>2. \A k \in i .. j : k = i \/ k \in i + 1 .. j
    BY <1>3
  <2>3. \A k \in i + 1 .. j : k \in i .. j /\ k # i
    BY <1>3
  <2> QED
    BY <1>5, <2>1, <2>2, <2>3 DEF Unswept
<1>11. MarksAreRight(q, i + 1, j)'
  BY <1>1, <1>3, <1>5, <1>10 DEF MarksAreRight
<1>12. i + 1 \in 1 .. capacity + 1
  BY <1>3, <1>6
<1>13. SweepInv'
  BY <1>1, <1>8, <1>9, <1>11, <1>12 DEF SweepInv
<1> QED
  BY <1>2, <1>13 DEF HeapInv

\* A page in which nothing was found in use holds nothing, and leaves the list.
LEMMA SweepPageFreedKeeps ==
  ASSUME OldSpaceInv, mutator.at # "gone", SweepPageEnds, ~sweeper.in_use
  PROVE  HeapInv'
<1>1. /\ UNCHANGED <<freelist, live, marked, mutator>>
      /\ FreePage(sweeper.page, sweeper.prev_page)
      /\ sweeper.at = "sweep" /\ sweeper.current > SlotsPerPage
  BY DEF SweepPageEnds
<1>3. PICK q \in [1 .. capacity -> Pages], i \in 1 .. capacity + 1, j \in 0 .. capacity :
        /\ IsList(q) /\ SweeperPosition(q, i, j) /\ MarksAreRight(q, i, j)
        /\ capacity \in Nat /\ i \in Nat /\ j \in Nat /\ i >= 1 /\ j <= capacity
        /\ i > j => Unswept(q, i, j) = {}
  BY PositionFound
<1>4. sweeper \in SweeperType /\ SlotsPerPage \in Nat /\ SlotsPerPage # 0
  BY OldSpaceAssumption DEF OldSpaceInv, TypeOK
<1>5. /\ sweeper'.at = "notify" /\ sweeper'.current = 1 /\ ~sweeper'.in_use
      /\ sweeper'.prev_page = sweeper.prev_page /\ sweeper'.page = sweeper.page
      /\ sweeper'.last_ = sweeper.last_ /\ sweeper'.next_page = sweeper.next_page
  BY <1>4 DEF SweepPageEnds, SweeperType
<1>6. /\ sweeper.page = q[i] /\ i <= j /\ i \in 1 .. capacity /\ j \in 1 .. capacity
      /\ sweeper.last_ = q[j] /\ (i < j => sweeper.next_page = q[i + 1])
      /\ sweeper.prev_page = IF i = 1 THEN NULL ELSE q[i - 1]
  BY <1>1, <1>3 DEF SweeperPosition
<1>7. i < j => q[i] # q[j]
  BY <1>3, <1>6 DEF IsList
<1>8. PICK r \in [1 .. capacity' -> Pages] :
        IsList(r)' /\ \A k \in 1 .. capacity - 1 : r[k] = IF k < i THEN q[k] ELSE q[k + 1]
  BY <1>1, <1>3, <1>6, ListShrinks DEF OldSpaceInv
<1>9. capacity' = capacity - 1 /\ mapped' = mapped \ {q[i]} /\ q[i] \in mapped
  BY <1>1, <1>3, <1>6 DEF FreePage, IsList
<1>10. \A slot \in live \cup freelist : slot[1] # q[i]
  BY <1>1, <1>3, <1>4, <1>6 DEF MarksAreRight, SweeperType
<1>11. HeapTypeOK'
  <2>1. mapped' \in SUBSET Pages /\ IsFiniteSet(mapped')
    BY <1>9, FS_RemoveElement DEF OldSpaceInv, TypeOK, HeapTypeOK
  <2>2. pages_' \in PageOrNull /\ pages_tail_' \in PageOrNull /\ next' \in [Pages -> PageOrNull]
    BY <1>1, <1>3, <1>4, <1>6 DEF OldSpaceInv, TypeOK, HeapTypeOK, FreePage, PageOrNull, SweeperType
  <2>3. capacity' \in 0 .. MaxPages
    BY <1>3, <1>6, <1>9, OldSpaceAssumption DEF OldSpaceInv, TypeOK, HeapTypeOK
  <2> QED
    BY <1>1, <2>1, <2>2, <2>3 DEF OldSpaceInv, TypeOK, HeapTypeOK
<1>12. SpaceInv'
  <2>1. IsFiniteSet(mapped)
    BY DEF OldSpaceInv, TypeOK, HeapTypeOK
  <2>2. Cardinality(mapped \ {q[i]}) = Cardinality(mapped) - 1
    BY <1>9, <2>1, FS_RemoveElement
  <2> QED
    BY <1>1, <1>9, <2>2 DEF OldSpaceInv, SpaceInv
<1>13. LiveObjectsSurvive'
  BY <1>1, <1>9, <1>10 DEF OldSpaceInv, LiveObjectsSurvive
<1>14. j - 1 \in Nat /\ i \in 1 .. capacity' + 1 /\ j - 1 \in 0 .. capacity'
  BY <1>3, <1>6, <1>9
<1>15. /\ i <= j - 1 => r[j - 1] = q[j] /\ r[i] = q[i + 1]
       /\ i # 1 /\ i <= j - 1 => r[i - 1] = q[i - 1]
  <2>1. ASSUME i <= j - 1  PROVE r[j - 1] = q[j] /\ r[i] = q[i + 1]
    <3>1. j - 1 \in 1 .. capacity - 1 /\ i \in 1 .. capacity - 1 /\ ~(j - 1 < i) /\ ~(i < i) /\ (j - 1) + 1 = j
      BY <1>3, <1>6, <2>1
    <3> QED
      BY <1>8, <3>1
  <2>2. ASSUME i # 1, i <= j - 1 PROVE r[i - 1] = q[i - 1]
    <3>1. i - 1 \in 1 .. capacity - 1 /\ i - 1 < i
      BY <1>3, <1>6, <2>2
    <3> QED
      BY <1>8, <3>1
  <2> QED
    BY <2>1, <2>2
<1>16. SweeperPosition(r, i, j - 1)'
  <2>1. CASE i = j
    BY <1>3, <1>4, <1>5, <1>6, <2>1 DEF SweeperPosition
  <2>2. CASE i < j
    <3>1. i <= j - 1 /\ ~(i > j - 1)
      BY <1>3, <2>2
    <3> QED
      BY <1>4, <1>5, <1>6, <1>7, <1>15, <2>2, <3>1 DEF SweeperPosition
  <2> QED
    BY <1>3, <1>6, <2>1, <2>2
<1>17. Unswept(r, i, j - 1)' = Unswept(q, i, j)
  <2>1. \A slot \in Objects : slot[2] >= 1 /\ ~(slot[2] >= sweeper.current)
    BY <1>1, <1>4 DEF Objects, Slots, SweeperType
  <2>2. \A k \in i .. j : k = i \/ (k - 1 \in i .. j - 1 /\ q[k] = r[k - 1])
    <3> SUFFICES ASSUME NEW k \in i .. j, k # i PROVE k - 1 \in i .. j - 1 /\ q[k] = r[k - 1]
      OBVIOUS
    <3>1. k - 1 \in i .. j - 1 /\ k - 1 \in 1 .. capacity - 1 /\ ~(k - 1 < i) /\ (k - 1) + 1 = k
      BY <1>3, <1>6
    <3> QED
      BY <1>8, <3>1
  <2>3. \A k \in i .. j - 1 : k + 1 \in i .. j /\ k + 1 # i /\ r[k] = q[k + 1]
    <3> SUFFICES ASSUME NEW k \in i .. j - 1 PROVE k + 1 \in i .. j /\ k + 1 # i /\ r[k] = q[k + 1]
      OBVIOUS
    <3>1. k + 1 \in i .. j /\ k \in 1 .. capacity - 1 /\ ~(k < i) /\ k + 1 # i
      BY <1>3, <1>6
    <3> QED
      BY <1>8, <3>1
  <2>4. \A slot \in Objects : slot \in Unswept(q, i, j) <=> \E k \in i .. j - 1 : slot[1] = r[k]
    BY <2>1, <2>2, <2>3 DEF Unswept
  <2>5. \A slot \in Objects : slot \in Unswept(r, i, j - 1)' <=> \E k \in i .. j - 1 : slot[1] = r[k]
    BY <1>5, <2>1 DEF Unswept
  <2>6. Unswept(q, i, j) \subseteq Objects /\ Unswept(r, i, j - 1)' \subseteq Objects
    BY DEF Unswept
  <2> QED
    BY <2>4, <2>5, <2>6
<1>18. MarksAreRight(r, i, j - 1)'
  BY <1>1, <1>3, <1>5, <1>17 DEF MarksAreRight
<1>19. SweepInv'
  BY <1>8, <1>14, <1>16, <1>18 DEF SweepInv
<1> QED
  BY <1>11, <1>12, <1>13, <1>19 DEF HeapInv

\* The sweeper goes on to the page that it has read before it left the last one.
LEMMA SweepNotifiesKeeps ==
  ASSUME OldSpaceInv, mutator.at # "gone", SweepNotifies
  PROVE  HeapInv'
<1>1. UNCHANGED <<mapped, pages_, pages_tail_, next, capacity, freelist, live, marked, mutator>>
      /\ sweeper.at = "notify"
  BY DEF SweepNotifies
<1>2. HeapTypeOK' /\ SpaceInv' /\ LiveObjectsSurvive'
  BY <1>1 DEF OldSpaceInv, TypeOK, HeapTypeOK, SpaceInv, LiveObjectsSurvive
<1>3. PICK q \in [1 .. capacity -> Pages], i \in 1 .. capacity + 1, j \in 0 .. capacity :
        /\ IsList(q) /\ SweeperPosition(q, i, j) /\ MarksAreRight(q, i, j)
        /\ capacity \in Nat /\ i \in Nat /\ j \in Nat /\ i >= 1 /\ j <= capacity
        /\ i > j => Unswept(q, i, j) = {}
  BY PositionFound
<1>4. sweeper \in SweeperType /\ SlotsPerPage \in Nat /\ sweeper.current = 1 /\ ~sweeper.in_use
  BY <1>1, <1>3, OldSpaceAssumption DEF SweeperPosition, OldSpaceInv, TypeOK
<1>5. IsList(q)'
  BY <1>1, <1>3 DEF IsList
<1>6. SweeperPosition(q, i, j)'
  <2>1. CASE i > j
    <3>1. sweeper' = [sweeper EXCEPT !.at = "end"]
      BY <1>1, <1>3, <2>1 DEF SweepNotifies, SweeperPosition
    <3> QED
      BY <1>3, <1>4, <2>1, <3>1 DEF SweeperPosition, SweeperType
  <2>2. CASE i <= j
    <3>1. ~(i > j)
      BY <1>3, <2>2
    <3>2. sweeper.page # sweeper.last_ /\ sweeper.next_page = q[i]
      BY <1>1, <1>3, <3>1 DEF SweeperPosition
    <3>3. sweeper' = [sweeper EXCEPT !.at = "next", !.page = q[i], !.next_page = NULL]
      BY <3>2 DEF SweepNotifies
    <3> QED
      BY <1>1, <1>3, <1>4, <2>2, <3>3 DEF SweeperPosition, SweeperType
  <2> QED
    BY <1>3, <2>1, <2>2
<1>7. sweeper'.current = 1 /\ sweeper'.in_use = sweeper.in_use /\ sweeper'.at # "sweep"
  BY <1>4 DEF SweepNotifies, SweeperType
<1>8. Unswept(q, i, j)' = Unswept(q, i, j)
  BY <1>4, <1>7 DEF Unswept
<1>9. MarksAreRight(q, i, j)'
  BY <1>1, <1>3, <1>4, <1>7, <1>8 DEF MarksAreRight
<1>10. SweepInv'
  BY <1>1, <1>5, <1>6, <1>9 DEF SweepInv
<1> QED
  BY <1>2, <1>10 DEF HeapInv

\* The sweeper ends when it has nothing left to do.
LEMMA SweepEndsKeeps ==
  ASSUME OldSpaceInv, mutator.at # "gone", SweepEnds
  PROVE  HeapInv'
<1>1. UNCHANGED <<mapped, pages_, pages_tail_, next, capacity, freelist, live, marked, mutator>>
      /\ sweeper.at = "end" /\ sweeper' = NoSweeper
  BY DEF SweepEnds
<1>2. HeapTypeOK' /\ SpaceInv' /\ LiveObjectsSurvive'
  BY <1>1 DEF OldSpaceInv, TypeOK, HeapTypeOK, SpaceInv, LiveObjectsSurvive
<1>3. PICK q \in [1 .. capacity -> Pages], i \in 1 .. capacity + 1, j \in 0 .. capacity :
        /\ IsList(q) /\ SweeperPosition(q, i, j) /\ MarksAreRight(q, i, j)
        /\ capacity \in Nat /\ i \in Nat /\ j \in Nat /\ i >= 1 /\ j <= capacity
        /\ i > j => Unswept(q, i, j) = {}
  BY PositionFound
<1>4. i > j /\ Unswept(q, i, j) = {} /\ i .. j = {} /\ SlotsPerPage \in Nat
  BY <1>1, <1>3, OldSpaceAssumption DEF SweeperPosition
<1>5. sweeper'.at = "none" /\ sweeper'.current = 1 /\ ~sweeper'.in_use
  BY <1>1 DEF NoSweeper
<1>6. IsList(q)' /\ SweeperPosition(q, i, j)'
  BY <1>1, <1>3, <1>4, <1>5 DEF IsList, SweeperPosition
<1>7. Unswept(q, i, j)' = {}
  BY <1>4 DEF Unswept
<1>8. MarksAreRight(q, i, j)'
  BY <1>1, <1>3, <1>4, <1>5, <1>7 DEF MarksAreRight
<1>9. SweepInv'
  BY <1>1, <1>6, <1>8 DEF SweepInv
<1> QED
  BY <1>2, <1>9 DEF HeapInv

\* While no task is under way no mark is left.
LEMMA NoTaskNoMark ==
  ASSUME OldSpaceInv, tasks = 0
  PROVE  marked = {}
<1>1. CASE mutator.at = "gone"
  BY <1>1 DEF OldSpaceInv, SpaceInv
<1>2. CASE mutator.at # "gone"
  <2>1. sweeper.at = "none"
    BY DEF OldSpaceInv, TaskInv
  <2>2. PICK q \in [1 .. capacity -> Pages], i \in 1 .. capacity + 1, j \in 0 .. capacity :
          /\ IsList(q) /\ SweeperPosition(q, i, j) /\ MarksAreRight(q, i, j)
          /\ i > j => Unswept(q, i, j) = {}
    BY <1>2, PositionFound
  <2> QED
    BY <2>1, <2>2 DEF SweeperPosition, MarksAreRight
<1> QED
  BY <1>1, <1>2

\* The destructor leaves nothing.
LEMMA DestroyKeeps ==
  ASSUME OldSpaceInv, Destroy
  PROVE  HeapInv'
<1>1. mutator'.at = "gone" /\ marked = {}
  BY NoTaskNoMark DEF Destroy, Go, OldSpaceInv, TypeOK, MutatorType
<1>2. HeapTypeOK'
  BY FS_EmptySet DEF Destroy, OldSpaceInv, TypeOK, HeapTypeOK, PageOrNull
<1>3. SpaceInv' /\ LiveObjectsSurvive' /\ SweepInv'
  BY <1>1 DEF Destroy, SpaceInv, LiveObjectsSurvive, SweepInv
<1> QED
  BY <1>2, <1>3 DEF HeapInv

-----------------------------------------------------------------------------
(* The tasks                                                                *)

ControlInv ==
  /\ tasks \in Nat /\ sweeper \in SweeperType /\ mutator \in MutatorType /\ waiting \in BOOLEAN
  /\ TaskInv

\* The places where the isolate's thread holds no task.
Taskless == Places \ {"mark", "done", "forwarding", "gone"}

\* The part of the invariant about the thread, the sweeper and tasks_ on its own.
LEMMA ControlOfInv ==
  ASSUME OldSpaceInv
  PROVE  ControlInv
BY DEF OldSpaceInv, TypeOK, ControlInv

\* The invariant is its part about control and its part about pages and slots.
LEMMA InvOfParts ==
  ASSUME ControlInv', HeapInv'
  PROVE  OldSpaceInv'
BY DEF OldSpaceInv, TypeOK, ControlInv, HeapInv

\* A guard At(at) says where the thread is and that it neither waits nor missed.
LEMMA AtMeans ==
  ASSUME NEW at, At(at)
  PROVE  /\ ~waiting /\ ~mutator.missed
         /\ mutator.at = at \/ mutator.at = "run"
         /\ at \notin Entries => mutator.at = at
BY DEF At

\* Go() changes the place of the thread and nothing else.
LEMMA Goes ==
  ASSUME mutator \in MutatorType, NEW at \in Places, Go(at)
  PROVE  mutator' \in MutatorType /\ mutator'.at = at /\ mutator'.missed = mutator.missed
BY DEF Go, MutatorType

\* Place() is a place of the thread, with nothing missed.
LEMMA Placed ==
  ASSUME NEW at \in Places, NEW then \in {"run", "try2", "finish"}
  PROVE  Place(at, then) \in MutatorType /\ Place(at, then).at = at /\ Place(at, then).missed = FALSE
BY DEF Place, MutatorType

\* After a failed attempt of AllocateOld() the thread is at a place without a task.
LEMMA FailurePlaced ==
  ASSUME NEW at \in Attempts
  PROVE  /\ AfterFailure(at) \in MutatorType /\ AfterFailure(at).at \in Taskless
         /\ AfterFailure(at).missed = FALSE
<1>1. at \in {"try1", "lock1", "try2", "lock2", "force", "finish"}
  BY DEF Attempts
<1>2. PICK place \in Taskless, then \in {"run", "try2", "finish"} : AfterFailure(at) = Place(place, then)
  BY <1>1 DEF AfterFailure, Taskless, Places, Attempts
<1>3. place \in Places
  BY DEF Taskless
<1>4. Place(place, then) \in MutatorType /\ Place(place, then).at = place /\ Place(place, then).missed = FALSE
  BY <1>3, Placed
<1> QED
  BY <1>2, <1>4, Zenon

\* A step of the thread between two places without a task, while the sweeper does nothing.
LEMMA TasklessStep ==
  ASSUME ControlInv, mutator.at \in Taskless, mutator' \in MutatorType, mutator'.at \in Taskless,
         mutator'.missed => mutator'.at \in Attempts, waiting' \in BOOLEAN,
         UNCHANGED <<tasks, sweeper>>
  PROVE  ControlInv'
BY DEF ControlInv, TaskInv, Taskless

\* An attempt of AllocateOld() on the free list keeps the invariant.
LEMMA AllocateOldStep ==
  ASSUME OldSpaceInv, NEW at \in Attempts, AllocateOld(at)
  PROVE  OldSpaceInv'
<1>1. ControlInv /\ mutator \in MutatorType /\ mutator.at \in Taskless
  BY ControlOfInv, AtMeans DEF AllocateOld, ControlInv, Attempts, Places, Taskless
<1>2. ~mutator.missed /\ waiting' \in BOOLEAN /\ UNCHANGED <<marked, tasks, sweeper>>
  BY <1>1, AtMeans DEF AllocateOld, ControlInv
<1>3. "run" \in Taskless /\ "run" \in Places /\ at \in Taskless /\ at \in Places
  BY DEF Attempts, Places, Taskless
<1>4. CASE TryAllocateInFreeList /\ Go("run")
  <2>1. mutator' \in MutatorType /\ mutator'.at = "run" /\ ~mutator'.missed
    BY <1>1, <1>2, <1>3, <1>4, Goes
  <2>2. ControlInv'
    BY <1>1, <1>2, <1>3, <2>1, TasklessStep
  <2>3. mutator.at # "gone" /\ mutator'.at # "gone"
    BY <1>1, <2>1 DEF Taskless
  <2>4. HeapInv'
    BY <1>2, <1>4, <2>3, FreeListKeeps
  <2> QED
    BY <2>2, <2>4, InvOfParts
<1>5. CASE /\ mutator' = [mutator EXCEPT !.at = at, !.missed = TRUE]
           /\ UNCHANGED <<mapped, pages_, pages_tail_, next, capacity, freelist, live>>
  <2>1. mutator' \in MutatorType /\ mutator'.at = at
    BY <1>1, <1>3, <1>5 DEF MutatorType
  <2>2. ControlInv'
    BY <1>1, <1>2, <1>3, <2>1, TasklessStep
  <2>3. mutator.at # "gone" /\ mutator'.at # "gone"
    BY <1>1, <1>3, <2>1 DEF Taskless
  <2>4. HeapInv'
    BY <1>2, <1>5, <2>3, OtherStepsKeep
  <2> QED
    BY <2>2, <2>4, InvOfParts
<1> QED
  BY <1>4, <1>5 DEF AllocateOld

\* An allocation on a fresh page keeps the invariant.
LEMMA AllocateOldFreshStep ==
  ASSUME OldSpaceInv, AllocateOldFresh
  PROVE  OldSpaceInv'
<1>1. ControlInv /\ mutator \in MutatorType /\ mutator.at \in Attempts /\ mutator.at \in Taskless
  BY ControlOfInv DEF AllocateOldFresh, ControlInv, TaskInv, Attempts, Places, Taskless
<1>2. UNCHANGED <<marked, tasks, sweeper>> /\ waiting \in BOOLEAN
  BY <1>1 DEF AllocateOldFresh, ControlInv
<1>3. "run" \in Taskless /\ "run" \in Places /\ mutator.at # "gone"
  BY <1>1 DEF Attempts, Places, Taskless
<1>4. CASE TryAllocateInFreshPage /\ mutator' = Place("run", "run") /\ UNCHANGED waiting
  <2>1. mutator' \in MutatorType /\ mutator'.at = "run" /\ ~mutator'.missed
    BY <1>3, <1>4, Placed
  <2>2. ControlInv'
    BY <1>1, <1>2, <1>3, <1>4, <2>1, TasklessStep
  <2>3. HeapInv'
    BY <1>2, <1>3, <1>4, <2>1, FreshPageKeeps
  <2> QED
    BY <2>2, <2>3, InvOfParts
<1>5. CASE Refused /\ waiting' = TRUE /\ mutator' = [mutator EXCEPT !.missed = FALSE]
  <2>1. mutator' \in MutatorType /\ mutator'.at = mutator.at /\ ~mutator'.missed
    BY <1>1, <1>5 DEF MutatorType
  <2>2. ControlInv'
    BY <1>1, <1>2, <1>5, <2>1, TasklessStep
  <2>3. HeapInv'
    BY <1>2, <1>3, <1>5, <2>1, OtherStepsKeep DEF Refused
  <2> QED
    BY <2>2, <2>3, InvOfParts
<1>6. CASE Refused /\ mutator' = AfterFailure(mutator.at) /\ UNCHANGED waiting
  <2>1. mutator' \in MutatorType /\ mutator'.at \in Taskless /\ ~mutator'.missed
    BY <1>1, <1>6, FailurePlaced
  <2>2. ControlInv'
    BY <1>1, <1>2, <1>6, <2>1, TasklessStep
  <2>3. mutator'.at # "gone"
    BY <2>1 DEF Taskless
  <2>4. HeapInv'
    BY <1>2, <1>3, <1>6, <2>3, OtherStepsKeep DEF Refused
  <2> QED
    BY <2>2, <2>4, InvOfParts
<1> QED
  BY <1>4, <1>5, <1>6 DEF AllocateOldFresh

\* A scavenge, which may promote into the old space, keeps the invariant.
LEMMA ScavengeStep ==
  ASSUME OldSpaceInv, Scavenge
  PROVE  OldSpaceInv'
<1>1. /\ ControlInv /\ mutator \in MutatorType /\ waiting \in BOOLEAN
      /\ ~mutator.missed /\ (mutator.at = "scavenge" \/ mutator.at = "run")
  BY ControlOfInv, AtMeans DEF Scavenge, ControlInv
<1>2. "collect" \in Places /\ "collect" \in Taskless /\ mutator.at \in Taskless
  BY <1>1 DEF Places, Taskless
<1>3. mutator' \in MutatorType /\ mutator'.at = "collect" /\ ~mutator'.missed
  BY <1>1, <1>2, Goes DEF Scavenge
<1>4. UNCHANGED <<marked, tasks, sweeper, waiting>>
  BY DEF Scavenge
<1>5. ControlInv'
  BY <1>1, <1>2, <1>3, <1>4, TasklessStep
<1>6. mutator.at # "gone" /\ mutator'.at # "gone"
  BY <1>1, <1>3
<1>7. CASE TryAllocateInFreeList
  BY <1>4, <1>6, <1>7, FreeListKeeps, <1>5, InvOfParts
<1>8. CASE TryAllocateInFreshPage
  BY <1>4, <1>6, <1>8, FreshPageKeeps, <1>5, InvOfParts
<1>9. CASE UNCHANGED <<mapped, pages_, pages_tail_, next, capacity, freelist, live>>
  BY <1>4, <1>6, <1>9, OtherStepsKeep, <1>5, InvOfParts
<1> QED
  BY <1>7, <1>8, <1>9 DEF Scavenge

\* The steps of the thread that leave memory alone.
LEMMA QuietSteps ==
  ASSUME OldSpaceInv, Drop \/ WaitForTasks \/ MarkSweepBegins \/ MarkSweepEnds \/ ForwardList \/ ForwardListEnds
  PROVE  OldSpaceInv'
<1>0. MarkSweepEnds \/ ForwardListEnds => waiting' \in BOOLEAN
  BY DEF MarkSweepEnds, ForwardListEnds, Notify
<1>1. ControlInv /\ mutator \in MutatorType /\ waiting \in BOOLEAN /\ tasks \in Nat
  BY ControlOfInv DEF ControlInv
<1>2. /\ mutator.at # "gone"
      /\ UNCHANGED <<mapped, pages_, pages_tail_, next, capacity, freelist, marked, sweeper>>
      /\ live' \subseteq live
  BY AtMeans DEF Drop, WaitForTasks, MarkSweepBegins, MarkSweepEnds, ForwardList, ForwardListEnds
<1>3. CASE Drop
  <2>1. mutator.at = "run" /\ UNCHANGED <<tasks, sweeper, mutator, waiting>>
    BY <1>3, AtMeans DEF Drop
  <2>2. ControlInv'
    BY <1>1, <2>1 DEF ControlInv, TaskInv
  <2> QED
    BY <1>2, <2>1, <2>2, OtherStepsKeep, InvOfParts
<1>4. CASE WaitForTasks
  <2>1. PICK at \in {"collect", "finish", "forward", "destroy"} : At(at) /\ Go(at)
    BY <1>4 DEF WaitForTasks
  <2>2. at \in Places /\ at \in Taskless /\ ~mutator.missed /\ mutator.at \in Taskless
    BY <2>1, AtMeans DEF Places, Taskless, Attempts
  <2>3. mutator' \in MutatorType /\ mutator'.at = at /\ ~mutator'.missed
    BY <1>1, <2>1, <2>2, Goes
  <2>4. waiting' \in BOOLEAN /\ UNCHANGED <<tasks, sweeper>>
    BY <1>4 DEF WaitForTasks
  <2>5. ControlInv'
    BY <1>1, <2>2, <2>3, <2>4, TasklessStep
  <2>6. mutator'.at # "gone"
    BY <2>2, <2>3 DEF Taskless
  <2> QED
    BY <1>2, <2>5, <2>6, OtherStepsKeep, InvOfParts
<1>5. CASE MarkSweepBegins
  <2>1. /\ mutator.at = "collect" /\ ~mutator.missed /\ tasks = 0 /\ tasks' = 1 /\ UNCHANGED waiting
        /\ Go("mark") /\ "mark" \in Places
    BY <1>5, AtMeans DEF MarkSweepBegins, Entries, Places
  <2>2. mutator' \in MutatorType /\ mutator'.at = "mark" /\ ~mutator'.missed
    BY <1>1, <2>1, Goes
  <2>3. ControlInv'
    BY <1>1, <1>2, <2>1, <2>2 DEF ControlInv, TaskInv
  <2> QED
    BY <1>2, <2>2, <2>3, OtherStepsKeep, InvOfParts
<1>6. CASE MarkSweepEnds
  <2>1. /\ mutator.at = "done" /\ ~mutator.missed /\ tasks' = tasks - 1 /\ waiting' \in BOOLEAN
        /\ mutator' = Place(mutator.then, "run") /\ mutator.then \in {"run", "try2", "finish"}
    BY <1>0, <1>1, <1>6, AtMeans DEF MarkSweepEnds, Entries, MutatorType
  <2>2. mutator.then \in Places /\ mutator.then \in Taskless
    BY <2>1 DEF Places, Attempts, Taskless
  <2>3. mutator' \in MutatorType /\ mutator'.at = mutator.then /\ ~mutator'.missed
    BY <2>1, <2>2, Placed
  <2>4. mutator'.at \notin {"mark", "done", "forwarding", "gone"}
    BY <2>2, <2>3 DEF Taskless
  <2>5. ControlInv'
    BY <1>1, <1>2, <2>1, <2>3, <2>4 DEF ControlInv, TaskInv
  <2> QED
    BY <1>2, <2>4, <2>5, OtherStepsKeep, InvOfParts
<1>7. CASE ForwardList
  <2>1. /\ mutator.at \in {"run", "forward"} /\ ~mutator.missed /\ tasks = 0 /\ tasks' = 1 /\ UNCHANGED waiting
        /\ Go("forwarding") /\ "forwarding" \in Places
    BY <1>7, AtMeans DEF ForwardList, Places
  <2>2. mutator' \in MutatorType /\ mutator'.at = "forwarding" /\ ~mutator'.missed
    BY <1>1, <2>1, Goes
  <2>3. ControlInv'
    BY <1>1, <1>2, <2>1, <2>2 DEF ControlInv, TaskInv
  <2> QED
    BY <1>2, <2>2, <2>3, OtherStepsKeep, InvOfParts
<1>8. CASE ForwardListEnds
  <2>1. /\ mutator.at = "forwarding" /\ ~mutator.missed /\ tasks' = 0 /\ waiting' \in BOOLEAN
        /\ Go("run") /\ "run" \in Places
    BY <1>0, <1>8, AtMeans DEF ForwardListEnds, Entries, Places
  <2>2. mutator' \in MutatorType /\ mutator'.at = "run" /\ ~mutator'.missed
    BY <1>1, <2>1, Goes
  <2>3. ControlInv'
    BY <1>1, <1>2, <2>1, <2>2 DEF ControlInv, TaskInv
  <2> QED
    BY <1>2, <2>2, <2>3, OtherStepsKeep, InvOfParts
<1> QED
  BY <1>3, <1>4, <1>5, <1>6, <1>7, <1>8

\* Marking keeps the invariant: it counts the task of the sweeper to come.
LEMMA MarkStep ==
  ASSUME OldSpaceInv, Mark
  PROVE  OldSpaceInv'
<1>1. ControlInv /\ mutator \in MutatorType /\ tasks \in Nat
  BY ControlOfInv DEF ControlInv
<1>2. mutator.at = "mark" /\ ~mutator.missed /\ Go("done") /\ "done" \in Places /\ tasks' = tasks + 1
  BY AtMeans DEF Mark, Entries, StartSweep, Places
<1>3. mutator' \in MutatorType /\ mutator'.at = "done" /\ ~mutator'.missed
  BY <1>1, <1>2, Goes
<1>4. sweeper' \in SweeperType /\ sweeper'.at = "next"
  BY DEF OldSpaceInv, TypeOK, HeapTypeOK, Mark, StartSweep, NoSweeper, SweeperType, PageOrNull
<1>5. waiting' \in BOOLEAN
  BY DEF Mark, StartSweep, Notify
<1>6. ControlInv'
  BY <1>1, <1>2, <1>3, <1>4, <1>5 DEF ControlInv, TaskInv
<1> QED
  BY <1>6, MarkKeeps, InvOfParts

\* The destructor keeps the invariant: no sweeper is left when it runs.
LEMMA DestroyStep ==
  ASSUME OldSpaceInv, Destroy
  PROVE  OldSpaceInv'
<1>1. ControlInv /\ mutator \in MutatorType
  BY ControlOfInv DEF ControlInv
<1>2. /\ mutator.at \in {"run", "destroy"} /\ ~mutator.missed /\ tasks = 0 /\ Go("gone")
      /\ "gone" \in Places /\ UNCHANGED <<tasks, sweeper, waiting>>
  BY AtMeans DEF Destroy, Places
<1>3. mutator' \in MutatorType /\ mutator'.at = "gone" /\ ~mutator'.missed
  BY <1>1, <1>2, Goes
<1>4. ControlInv'
  BY <1>1, <1>2, <1>3 DEF ControlInv, TaskInv
<1> QED
  BY <1>4, DestroyKeeps, InvOfParts

\* Every step of the sweeper keeps the invariant.
LEMMA SweeperSteps ==
  ASSUME OldSpaceInv, SweeperStep
  PROVE  OldSpaceInv'
<1>1. /\ ControlInv /\ sweeper \in SweeperType /\ tasks \in Nat /\ waiting \in BOOLEAN
      /\ next \in [Pages -> PageOrNull] /\ UNCHANGED mutator
  BY ControlOfInv DEF ControlInv, OldSpaceInv, TypeOK, HeapTypeOK, SweeperStep, SweepNextPage,
     SweepPage, SweepPageEnds, SweepNotifies, SweepEnds
<1>2. sweeper.at # "none" /\ mutator.at # "gone"
  BY <1>1 DEF ControlInv, TaskInv, SweeperStep, SweepNextPage, SweepPage, SweepPageEnds,
     SweepNotifies, SweepEnds
<1>3. CASE SweepNextPage
  <2>1. sweeper' \in SweeperType /\ sweeper'.at # "none"
    <3>1. sweeper.page # NULL => next[sweeper.page] \in PageOrNull
      BY <1>1 DEF SweeperType, PageOrNull
    <3> QED
      BY <1>1, <1>3, <3>1 DEF SweepNextPage, SweeperType, PageOrNull
  <2>2. ControlInv'
    BY <1>1, <1>2, <1>3, <2>1 DEF SweepNextPage, ControlInv, TaskInv
  <2> QED
    BY <1>2, <1>3, <2>2, SweepNextPageKeeps, InvOfParts
<1>4. CASE SweepPage
  <2>1. sweeper' \in SweeperType /\ sweeper'.at # "none"
    <3>1. sweeper.current \in 1 .. SlotsPerPage
      <4>1. PICK q \in [1 .. capacity -> Pages], i \in 1 .. capacity + 1, j \in 0 .. capacity :
              SweeperPosition(q, i, j)
        BY <1>2 DEF OldSpaceInv, SweepInv
      <4> QED
        BY <1>1, <1>4, <4>1, OldSpaceAssumption DEF SweepPage, SweeperPosition
    <3>2. FreeEnd \in Nat
      BY <3>1, FreeEndFound, OldSpaceAssumption DEF OldSpaceInv
    <3>3. \/ sweeper' = [sweeper EXCEPT !.current = sweeper.current + 1, !.in_use = TRUE]
          \/ sweeper' = [sweeper EXCEPT !.current = FreeEnd]
      BY <1>1, <1>4 DEF SweepPage, SweeperType
    <3>4. CASE sweeper' = [sweeper EXCEPT !.current = sweeper.current + 1, !.in_use = TRUE]
      <4>1. sweeper.current + 1 \in Nat /\ TRUE \in BOOLEAN
        BY <1>1 DEF SweeperType
      <4> QED
        BY <1>1, <1>2, <3>4, <4>1 DEF SweeperType
    <3>5. CASE sweeper' = [sweeper EXCEPT !.current = FreeEnd]
      BY <1>1, <1>2, <3>2, <3>5 DEF SweeperType
    <3> QED
      BY <3>3, <3>4, <3>5
  <2>2. ControlInv'
    BY <1>1, <1>2, <1>4, <2>1 DEF SweepPage, ControlInv, TaskInv
  <2> QED
    BY <1>2, <1>4, <2>2, SweepMarkedKeeps, SweepBlockKeeps, InvOfParts
<1>5. CASE SweepPageEnds
  <2>1. sweeper' \in SweeperType /\ sweeper'.at # "none"
    BY <1>1, <1>5 DEF SweepPageEnds, SweeperType
  <2>2. ControlInv'
    BY <1>1, <1>2, <1>5, <2>1 DEF SweepPageEnds, ControlInv, TaskInv
  <2> QED
    BY <1>2, <1>5, <2>2, SweepPageKeptKeeps, SweepPageFreedKeeps, InvOfParts
<1>6. CASE SweepNotifies
  <2>1. sweeper' \in SweeperType /\ sweeper'.at # "none"
    BY <1>1, <1>6 DEF SweepNotifies, SweeperType, PageOrNull
  <2>2. waiting' \in BOOLEAN
    BY <1>6 DEF SweepNotifies, Notify
  <2>3. ControlInv'
    BY <1>1, <1>2, <1>6, <2>1, <2>2 DEF SweepNotifies, ControlInv, TaskInv
  <2> QED
    BY <1>2, <1>6, <2>3, SweepNotifiesKeeps, InvOfParts
<1>7. CASE SweepEnds
  <2>1. sweeper' \in SweeperType /\ sweeper'.at = "none"
    BY <1>7 DEF SweepEnds, NoSweeper, SweeperType, PageOrNull
  <2>2. waiting' \in BOOLEAN
    BY <1>7 DEF SweepEnds, Notify
  <2>3. ControlInv'
    BY <1>1, <1>2, <1>7, <2>1, <2>2 DEF SweepEnds, ControlInv, TaskInv
  <2> QED
    BY <1>2, <1>7, <2>3, SweepEndsKeeps, InvOfParts
<1> QED
  BY <1>3, <1>4, <1>5, <1>6, <1>7 DEF SweeperStep

-----------------------------------------------------------------------------
(* The theorems                                                             *)

\* The invariant holds in a new heap.
LEMMA InitInv ==
  ASSUME Init
  PROVE  OldSpaceInv
<1>1. NULL \in PageOrNull /\ SlotsPerPage \in Nat /\ MaxPages \in Nat /\ 0 .. 0 = {0}
  BY OldSpaceAssumption DEF PageOrNull
<1>2. HeapTypeOK
  BY <1>1, FS_EmptySet DEF Init, HeapTypeOK
<1>3. mutator \in MutatorType /\ mutator.at = "run" /\ ~mutator.missed
  BY DEF Init, Place, MutatorType, Places
<1>4. /\ sweeper \in SweeperType /\ sweeper.at = "none" /\ sweeper.current = 1 /\ ~sweeper.in_use
      /\ tasks = 0 /\ waiting \in BOOLEAN
  BY <1>1 DEF Init, NoSweeper, SweeperType
<1>5. TypeOK /\ TaskInv
  BY <1>2, <1>3, <1>4 DEF TypeOK, TaskInv
<1>6. SpaceInv /\ LiveObjectsSurvive
  BY <1>3, FS_EmptySet DEF Init, SpaceInv, LiveObjectsSurvive
<1>7. SweepInv
  <2>1. PICK q : q = [k \in 1 .. capacity |-> NULL]
    OBVIOUS
  <2>2. 1 .. capacity = {} /\ capacity = 0
    BY DEF Init
  <2>3. q \in [1 .. capacity -> Pages] /\ 1 \in 1 .. capacity + 1 /\ 0 \in 0 .. capacity
    BY <2>1, <2>2
  <2>4. IsList(q)
    BY <2>2 DEF IsList, Init
  <2>5. SweeperPosition(q, 1, 0)
    BY <1>1, <1>4 DEF SweeperPosition
  <2>6. MarksAreRight(q, 1, 0)
    BY <1>4 DEF MarksAreRight, Init
  <2> QED
    BY <2>3, <2>4, <2>5, <2>6 DEF SweepInv
<1> QED
  BY <1>5, <1>6, <1>7 DEF OldSpaceInv

\* A step that changes nothing keeps the invariant.
LEMMA StutterKeeps ==
  ASSUME OldSpaceInv, UNCHANGED vars
  PROVE  OldSpaceInv'
<1>1. HeapInv'
  BY OtherStepsKeep DEF vars
<1>2. ControlInv'
  BY ControlOfInv DEF vars, ControlInv, TaskInv
<1> QED
  BY <1>1, <1>2, InvOfParts

\* Every step of the two threads keeps the invariant, for any numbers of pages and slots.
THEOREM OldSpaceInvHolds == Spec => []OldSpaceInv
<1>1. Init => OldSpaceInv
  BY InitInv
<1>2. OldSpaceInv /\ [Next]_vars => OldSpaceInv'
  <2> SUFFICES ASSUME OldSpaceInv, [Next]_vars PROVE OldSpaceInv'
    OBVIOUS
  <2>1. CASE UNCHANGED vars
    BY <2>1, StutterKeeps
  <2>2. CASE Drop
    BY <2>2, QuietSteps
  <2>3. CASE MutatorStep
    <3>1. CASE \E at \in {"try1", "lock1", "try2", "lock2", "force", "finish"} : AllocateOld(at)
      BY <3>1, AllocateOldStep DEF Attempts
    <3>2. CASE AllocateOldFresh
      BY <3>2, AllocateOldFreshStep
    <3>3. CASE WaitForTasks \/ MarkSweepBegins \/ MarkSweepEnds \/ ForwardList \/ ForwardListEnds
      BY <3>3, QuietSteps
    <3>4. CASE Scavenge
      BY <3>4, ScavengeStep
    <3>5. CASE Mark
      BY <3>5, MarkStep
    <3>6. CASE Destroy
      BY <3>6, DestroyStep
    <3> QED
      BY <2>3, <3>1, <3>2, <3>3, <3>4, <3>5, <3>6 DEF MutatorStep
  <2>4. CASE SweeperStep
    BY <2>4, SweeperSteps
  <2> QED
    BY <2>1, <2>2, <2>3, <2>4 DEF Next
<1> QED
  BY <1>1, <1>2, PTL DEF Spec

\* Memory is never taken from a reachable object: FreePage() and SweepPage() beside
\* TryAllocate() keep it, because whatever is allocated while the sweeper runs is in front
\* of the slot it stands at or behind the page it ends with.
THEOREM LiveObjectsSurviveHolds == Spec => []LiveObjectsSurvive
<1>1. OldSpaceInv => LiveObjectsSurvive
  BY DEF OldSpaceInv
<1> QED
  BY <1>1, OldSpaceInvHolds, PTL

\* tasks_ keeps the collector, the sweeper, a ForwardList and the destructor apart, and no
\* mark bit is left when it is 0.
THEOREM TasksCoverWorkHolds == Spec => []TasksCoverWork
<1>1. OldSpaceInv => TasksCoverWork
  BY NoTaskNoMark DEF OldSpaceInv, TaskInv, TasksCoverWork
<1> QED
  BY <1>1, OldSpaceInvHolds, PTL

\* What the list reaches in n steps are its first n + 1 pages: the set of these solves
\* the equation of PagesWithin, and nothing else does.
LEMMA PagesReached ==
  ASSUME TypeOK, NEW q \in [1 .. capacity -> Pages], IsList(q)
  PROVE  \A n \in Nat : PagesWithin[n] = {q[k] : k \in {k \in 1 .. capacity : k <= n + 1}}
<1> DEFINE First(n) == {q[k] : k \in {k \in 1 .. capacity : k <= n + 1}}
           Step(X) == X \union ({next[p] : p \in X} \ {NULL})
           H == [n \in Nat |-> First(n)]
<1>0. capacity \in Nat /\ NULL \notin Pages
  BY OldSpaceAssumption DEF TypeOK, HeapTypeOK
<1>1. First(0) = {pages_} \ {NULL}
  <2>1. CASE capacity = 0
    BY <1>0, <2>1 DEF IsList
  <2>2. CASE capacity # 0
    <3>1. {k \in 1 .. capacity : k <= 0 + 1} = {1} /\ q[1] \in Pages /\ pages_ = q[1]
      BY <1>0, <2>2 DEF IsList
    <3> QED
      BY <1>0, <3>1
  <2> QED
    BY <2>1, <2>2
<1>2. \A n \in Nat \ {0} : First(n) = Step(First(n - 1))
  <2> SUFFICES ASSUME NEW n \in Nat \ {0} PROVE First(n) = Step(First(n - 1))
    OBVIOUS
  <2>1. ASSUME NEW k \in 1 .. capacity, k <= n + 1  PROVE q[k] \in Step(First(n - 1))
    <3>1. CASE k <= n
      BY <1>0, <3>1
    <3>2. CASE k = n + 1
      <4>1. n \in 1 .. capacity /\ n <= (n - 1) + 1 /\ next[q[n]] = q[k] /\ q[k] \in Pages
        BY <1>0, <2>1, <3>2 DEF IsList
      <4>2. q[n] \in First(n - 1)
        BY <4>1
      <4> QED
        BY <1>0, <4>1, <4>2
    <3> QED
      BY <2>1, <3>1, <3>2
  <2>2. ASSUME NEW x \in Step(First(n - 1))  PROVE x \in First(n)
    <3>1. CASE x \in First(n - 1)
      <4>1. PICK k \in 1 .. capacity : k <= (n - 1) + 1 /\ x = q[k]
        BY <3>1
      <4> QED
        BY <1>0, <4>1
    <3>2. CASE x # NULL /\ \E p \in First(n - 1) : x = next[p]
      <4>1. PICK k \in 1 .. capacity : k <= (n - 1) + 1 /\ x = next[q[k]]
        BY <3>2
      <4>2. k + 1 \in 1 .. capacity /\ k + 1 <= n + 1 /\ x = q[k + 1]
        BY <1>0, <3>2, <4>1 DEF IsList
      <4> QED
        BY <4>2
    <3> QED
      BY <2>2, <3>1, <3>2
  <2> QED
    BY <2>1, <2>2
<1> HIDE DEF First
<1>3. H = [n \in Nat |-> IF n = 0 THEN {pages_} \ {NULL} ELSE Step(H[n - 1])]
  BY <1>1, <1>2
<1> HIDE DEF H
<1>4. PagesWithin = [n \in Nat |-> IF n = 0 THEN {pages_} \ {NULL} ELSE Step(PagesWithin[n - 1])]
  BY <1>3 DEF PagesWithin
<1> DEFINE S == {n \in Nat : PagesWithin[n] = First(n)}
<1>5. 0 \in S
  BY <1>1, <1>4
<1>6. ASSUME NEW n \in Nat, n \in S  PROVE n + 1 \in S
  <2>1. PagesWithin[n + 1] = Step(PagesWithin[(n + 1) - 1]) /\ n + 1 \in Nat \ {0} /\ (n + 1) - 1 = n
    BY <1>4
  <2>2. First(n + 1) = Step(First(n))
    BY <1>2, <2>1
  <2> QED
    BY <1>6, <2>1, <2>2
<1>7. Nat \subseteq S
  <2> HIDE DEF S
  <2> QED
    BY <1>5, <1>6, SetInduction
<1> QED
  BY <1>7 DEF First

\* The list of pages is whole at every moment, although AllocatePage() and FreePage() take
\* pages_lock_ each for itself and the sweeper remembers the page before from an earlier look.
THEOREM PageListIsWholeHolds == Spec => []PageListIsWhole
<1>1. OldSpaceInv => PageListIsWhole
  <2> SUFFICES ASSUME OldSpaceInv, mutator.at # "gone"
               PROVE  /\ PagesWithin[MaxPages] = mapped
                      /\ capacity = Cardinality(mapped)
                      /\ IF mapped = {} THEN pages_tail_ = NULL
                         ELSE pages_tail_ \in mapped /\ next[pages_tail_] = NULL
    BY DEF PageListIsWhole
  <2>1. PICK q \in [1 .. capacity -> Pages] : IsList(q)
    BY DEF OldSpaceInv, SweepInv
  <2>2. capacity \in Nat /\ MaxPages \in Nat /\ capacity <= MaxPages
    BY OldSpaceAssumption DEF OldSpaceInv, TypeOK, HeapTypeOK
  <2>3. {k \in 1 .. capacity : k <= MaxPages + 1} = 1 .. capacity
    BY <2>2
  <2>4. PagesWithin[MaxPages] = mapped
    BY <2>1, <2>2, <2>3, PagesReached DEF OldSpaceInv, IsList
  <2>5. capacity = Cardinality(mapped)
    BY DEF OldSpaceInv, SpaceInv
  <2>6. CASE capacity = 0
    <3>1. 1 .. capacity = {}
      BY <2>6
    <3>2. mapped = {} /\ pages_tail_ = NULL
      BY <2>1, <2>6, <3>1 DEF IsList
    <3> QED
      BY <2>4, <2>5, <3>2
  <2>7. CASE capacity # 0
    <3>1. capacity \in 1 .. capacity
      BY <2>2, <2>7
    <3>2. pages_tail_ \in mapped /\ next[pages_tail_] = NULL
      BY <2>1, <2>7, <3>1 DEF IsList
    <3> QED
      BY <2>4, <2>5, <3>2
  <2> QED
    BY <2>6, <2>7
<1> QED
  BY <1>1, OldSpaceInvHolds, PTL
=============================================================================
