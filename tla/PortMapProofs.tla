---------------------------- MODULE PortMapProofs ----------------------------
(***************************************************************************)
(* Theorems about PortMap: the table of ports is a directory of open ports,  *)
(* for any set of port numbers, however they collide, and any capacity.      *)
(***************************************************************************)
EXTENDS PortMap, FiniteSetTheorems, NaturalsInduction, WellFoundedInduction, TLAPS

OpenSlots == [port : Ports, handler : Handlers, state : PortState]
AnySlot == OpenSlots \cup {FreeSlot, DeletedSlot}

\* How many slots a probe for p passes before it comes to slot i of n.
Distance(p, i, n) == (i - p) % n

-----------------------------------------------------------------------------
(* The inductive invariant                                                  *)

\* A table of n slots: no port is entered twice, and no free slot is between the hash of
\* a port and the slot it was entered in.
Table(m, n) ==
  /\ m \in [0 .. n - 1 -> AnySlot]
  /\ \A i, j \in 0 .. n - 1 : m[i].port = m[j].port /\ m[i].port # 0 => i = j
  /\ \A i, j \in 0 .. n - 1 :
       m[i].port # 0 /\ Distance(m[i].port, j, n) < Distance(m[i].port, i, n) => m[j].handler # NULL

\* What is entered in a table, wherever it is; and the slots that are marked as deleted.
Content(m) == {m[i] : i \in {i \in DOMAIN m : m[i].port # 0}}
Markers(m) == {i \in DOMAIN m : m[i].handler = Deleted}

LivePorts(m, h) == {e \in Content(m) : e.handler = h /\ e.state = "live"}

\* What MaintainInvariants() maintains.
SpaceInv ==
  /\ \E c \in Nat \ {0} : capacity_ = 4 * c
  /\ used_ = Cardinality(Content(map_)) /\ used_ <= (capacity_ \div 4) * 3
  /\ deleted_ = Cardinality(Markers(map_)) /\ deleted_ <= capacity_ - used_ - deleted_

\* A handler that is gone has no port, and a native one has at most one.
HandlersInv ==
  /\ live_ports_ \in [Handlers -> Int] /\ gone \in SUBSET Handlers
  /\ \A h \in Handlers :
       live_ports_[h] = (IF h \in Natives THEN 1 ELSE 0) + Cardinality(LivePorts(map_, h))
  /\ \A e \in Content(map_) : e.handler \notin gone
  /\ \A e, f \in Content(map_) : e.handler = f.handler /\ e.handler \in Natives => e = f

PortMapInv == Table(map_, capacity_) /\ SpaceInv /\ HandlersInv

-----------------------------------------------------------------------------
(* Numbers                                                                  *)

\* Every set of naturals that is not empty has a least element.
LEMMA LeastNat ==
  ASSUME NEW T \in SUBSET Nat, T # {}
  PROVE  \E x \in T : \A y \in T : x <= y
<1> DEFINE R == OpToRel(<, Nat)
<1>1. IsWellFoundedOn(R, Nat)
  BY NatLessThanWellFounded
<1>2. \A x, y \in Nat : x < y => <<x, y>> \in R
  BY DEF OpToRel
<1> HIDE DEF R
<1>3. PICK x \in T : \A y \in T : ~(<<y, x>> \in R)
  BY <1>1, WFMin
<1>4. \A y \in T : y \in Nat /\ x \in Nat /\ ~(y < x)
  BY <1>2, <1>3
<1>5. \A y \in T : x <= y
  BY <1>4
<1> QED
  BY <1>5

\* Induction over the naturals, for a set.
LEMMA SetInduction ==
  ASSUME NEW S, 0 \in S, \A n \in Nat : n \in S => n + 1 \in S
  PROVE  Nat \subseteq S
<1> SUFFICES ASSUME Nat \ S # {} PROVE FALSE
  OBVIOUS
<1>1. PICK x \in Nat \ S : \A y \in Nat \ S : x <= y
  BY LeastNat
<1> QED
  BY <1>1

\* A remainder is one of 0 to n - 1.
LEMMA ModRange ==
  ASSUME NEW a \in Int, NEW n \in Nat \ {0}
  PROVE  a % n \in 0 .. n - 1 /\ a \div n \in Int
OBVIOUS

\* A number is its quotient times n, and the remainder.
LEMMA ModDiv ==
  ASSUME NEW a \in Int, NEW n \in Nat \ {0}
  PROVE  a = n * (a \div n) + (a % n)
OBVIOUS

\* The only multiple of n that is less than n away from 0 is 0.
LEMMA SmallMultiple ==
  ASSUME NEW n \in Nat \ {0}, NEW m \in Int, n * m < n, n * m > -n
  PROVE  m = 0
OBVIOUS

\* As many steps as Distance() from the hash lead to the slot.
LEMMA ProbeReaches ==
  ASSUME NEW n \in Nat \ {0}, NEW p \in Nat, NEW i \in 0 .. n - 1
  PROVE  Distance(p, i, n) \in 0 .. n - 1 /\ (p + Distance(p, i, n)) % n = i
<1> DEFINE k == Distance(p, i, n)
           r == (p + k) % n
           s == (i - p) \div n
           t == (p + k) \div n
<1>1. k \in 0 .. n - 1 /\ s \in Int /\ i - p = n * s + k
  BY ModRange, ModDiv, i - p \in Int DEF Distance
<1> HIDE DEF k, s
<1>2. r \in 0 .. n - 1 /\ t \in Int /\ p + k = n * t + r
  <2>1. p + k \in Int
    BY <1>1
  <2> QED
    BY <2>1, ModRange, ModDiv
<1> HIDE DEF r, t
<1>3. i - r = n * s + n * t
  BY <1>1, <1>2
<1>4. n * (s + t) = n * s + n * t
  BY <1>1, <1>2
<1>5. s + t = 0
  <2>1. i - r < n /\ i - r > -n /\ s + t \in Int
    BY <1>1, <1>2
  <2>2. n * (s + t) < n /\ n * (s + t) > -n
    BY <1>3, <1>4, <2>1
  <2> QED
    BY <2>1, <2>2, SmallMultiple
<1>6. i = r
  BY <1>2, <1>3, <1>4, <1>5
<1> QED
  BY <1>1, <1>6 DEF r, k

\* No two slots are at the same distance from a hash.
LEMMA DistanceTells ==
  ASSUME NEW n \in Nat \ {0}, NEW p \in Nat, NEW i \in 0 .. n - 1, NEW j \in 0 .. n - 1,
         Distance(p, i, n) = Distance(p, j, n)
  PROVE  i = j
BY ProbeReaches

\* A probe ends at the nearest slot where it may stop.
LEMMA ProbeFinds ==
  ASSUME NEW n \in Nat \ {0}, NEW p \in Nat, NEW stops \in SUBSET (0 .. n - 1), stops # {}
  PROVE  /\ Probe(n, p, stops) \in stops
         /\ \A j \in stops : Distance(p, Probe(n, p, stops), n) <= Distance(p, j, n)
<1> DEFINE steps == {(j - p) % n : j \in stops}
<1>1. steps = {Distance(p, j, n) : j \in stops}
  BY DEF Distance
<1>2. steps \in SUBSET Nat /\ steps # {}
  <2>1. \A j \in stops : Distance(p, j, n) \in Nat
    BY ProbeReaches
  <2> QED
    BY <1>1, <2>1
<1>3. \E x \in steps : \A y \in steps : x <= y
  BY <1>2, LeastNat
<1> DEFINE least == Min(steps)
<1>4. least \in steps /\ \A y \in steps : least <= y
  BY <1>3 DEF Min
<1>5. Probe(n, p, stops) = (p + least) % n
  BY <1>2 DEF Probe
<1> HIDE DEF steps, least
<1>6. PICK j \in stops : least = Distance(p, j, n)
  BY <1>1, <1>4
<1>7. Probe(n, p, stops) = j
  BY <1>5, <1>6, ProbeReaches
<1> QED
  BY <1>1, <1>4, <1>6, <1>7

-----------------------------------------------------------------------------
(* Tables                                                                   *)

\* A slot is open, free or marked as deleted; its port and handler tell which.
LEMMA SlotFacts ==
  ASSUME NEW e \in AnySlot
  PROVE  /\ e.port \in Nat
         /\ e.port # 0 <=> e \in OpenSlots
         /\ e.port # 0 => e.port \in Ports /\ e.handler \in Handlers /\ e.handler # NULL /\ e.handler # Deleted
         /\ e.port = 0 => e.handler \in {NULL, Deleted}
         /\ e.handler = NULL <=> e = FreeSlot
<1>1. CASE e \in OpenSlots
  <2>1. e.port \in Ports /\ e.handler \in Handlers
    BY <1>1 DEF OpenSlots
  <2>2. e # FreeSlot
    BY <2>1, PortMapAssumption DEF FreeSlot, Entry
  <2> QED
    BY <1>1, <2>1, <2>2, PortMapAssumption
<1>2. CASE e = FreeSlot
  <2>1. e.port = 0 /\ e.handler = NULL
    BY <1>2 DEF FreeSlot, Entry
  <2>2. e \notin OpenSlots
    BY <2>1, PortMapAssumption DEF OpenSlots
  <2> QED
    BY <1>2, <2>1, <2>2
<1>3. CASE e = DeletedSlot
  <2>1. e.port = 0 /\ e.handler = Deleted
    BY <1>3 DEF DeletedSlot, Entry
  <2>2. e \notin OpenSlots /\ e # FreeSlot
    BY <2>1, PortMapAssumption DEF OpenSlots, FreeSlot, Entry
  <2> QED
    BY <2>1, <2>2, PortMapAssumption
<1> QED
  BY <1>1, <1>2, <1>3 DEF AnySlot

\* The fields of an entry.
LEMMA EntryFacts ==
  ASSUME NEW p, NEW h, NEW s
  PROVE  Entry(p, h, s).port = p /\ Entry(p, h, s).handler = h /\ Entry(p, h, s).state = s
BY DEF Entry

\* What is entered can be counted by slots or by entries.
LEMMA CountSlots ==
  ASSUME NEW n \in Nat, NEW m, Table(m, n), NEW X \in SUBSET OpenSlots
  PROVE  /\ IsFiniteSet(Content(m)) /\ IsFiniteSet(Content(m) \cap X)
         /\ Cardinality({i \in DOMAIN m : m[i] \in X}) = Cardinality(Content(m) \cap X)
<1> DEFINE S(Y) == {i \in DOMAIN m : m[i] \in Y}
<1>1. DOMAIN m = 0 .. n - 1 /\ \A i \in 0 .. n - 1 : m[i] \in AnySlot
  BY DEF Table
<1>2. IsFiniteSet(0 .. n - 1)
  BY FS_Interval, n - 1 \in Int
<1>3. ASSUME NEW Y \in SUBSET OpenSlots
      PROVE  IsFiniteSet(Content(m) \cap Y) /\ Cardinality(Content(m) \cap Y) = Cardinality(S(Y))
  <2>1. IsFiniteSet(S(Y))
    BY <1>1, <1>2, FS_Subset
  <2>2. \A i \in S(Y) : m[i].port # 0 /\ m[i] \in Content(m) \cap Y
    BY <1>1, SlotFacts DEF Content
  <2>3. \A e \in Content(m) \cap Y : \E i \in S(Y) : m[i] = e
    BY DEF Content
  <2>4. \A i, j \in S(Y) : m[i] = m[j] => i = j
    BY <1>1, <2>2 DEF Table
  <2> DEFINE f == [i \in S(Y) |-> m[i]]
  <2>5. f \in Bijection(S(Y), Content(m) \cap Y)
    <3> HIDE DEF S
    <3> QED
      BY <2>2, <2>3, <2>4 DEF Bijection, Injection, Surjection, IsInjective
  <2>6. ExistsBijection(S(Y), Content(m) \cap Y)
    BY <2>5 DEF ExistsBijection
  <2> QED
    BY <2>1, <2>6, FS_Bijection
<1>4. Content(m) \cap OpenSlots = Content(m)
  BY <1>1, SlotFacts DEF Content
<1> QED
  BY <1>3, <1>4

\* A table with fewer entries than slots has a slot without an entry.
LEMMA UnusedExists ==
  ASSUME NEW n \in Nat, NEW m, Table(m, n), Cardinality(Content(m)) < n
  PROVE  \E i \in 0 .. n - 1 : m[i].port = 0
<1> SUFFICES ASSUME \A i \in 0 .. n - 1 : m[i].port # 0 PROVE FALSE
  OBVIOUS
<1>1. DOMAIN m = 0 .. n - 1 /\ \A i \in 0 .. n - 1 : m[i] \in AnySlot
  BY DEF Table
<1>2. {i \in DOMAIN m : m[i] \in OpenSlots} = 0 .. n - 1
  BY <1>1, SlotFacts
<1>3. Content(m) \cap OpenSlots = Content(m)
  BY <1>1, SlotFacts DEF Content
<1>4. Cardinality(0 .. n - 1) = n
  BY FS_Interval, n - 1 \in Int
<1>5. Cardinality(0 .. n - 1) = Cardinality(Content(m))
  BY <1>2, <1>3, CountSlots
<1> QED
  BY <1>4, <1>5

Absent(m, n, p) == \A i \in 0 .. n - 1 : m[i].port # p
HasRoom(m, n) == \E i \in 0 .. n - 1 : m[i].port = 0
Added(m, n, e) == [m EXCEPT ![UnusedSlot(m, n, e.port)] = e]

\* A new port is entered in the first slot that is free or deleted.
LEMMA EntryAdded ==
  ASSUME NEW n \in Nat \ {0}, NEW m, Table(m, n), NEW e \in OpenSlots,
         Absent(m, n, e.port), HasRoom(m, n)
  PROVE  /\ UnusedSlot(m, n, e.port) \in 0 .. n - 1 /\ m[UnusedSlot(m, n, e.port)].port = 0
         /\ Table(Added(m, n, e), n) /\ Content(Added(m, n, e)) = Content(m) \cup {e}
<1> DEFINE k == UnusedSlot(m, n, e.port)
<1> HIDE DEF k
<1>1. m \in [0 .. n - 1 -> AnySlot] /\ DOMAIN m = 0 .. n - 1
  BY DEF Table
<1>2. e \in AnySlot /\ e.port \in Nat /\ e.port # 0 /\ e.handler # NULL
  BY SlotFacts DEF AnySlot
<1> DEFINE unused == {i \in 0 .. n - 1 : m[i].port = 0}
           d == Distance(e.port, k, n)
<1>3. k = Probe(n, e.port, unused) /\ unused # {} /\ unused \in SUBSET (0 .. n - 1)
  BY <1>1 DEF UnusedSlot, HasRoom, k
<1>4. k \in unused /\ \A j \in unused : d <= Distance(e.port, j, n)
  <2> HIDE DEF unused
  <2> QED
    BY <1>2, <1>3, ProbeFinds
<1>5. k \in 0 .. n - 1 /\ m[k].port = 0
  BY <1>4
<1>6. \A j \in 0 .. n - 1 : Distance(e.port, j, n) < d => m[j].handler # NULL
  <2> SUFFICES ASSUME NEW j \in 0 .. n - 1, Distance(e.port, j, n) < d PROVE m[j].handler # NULL
    OBVIOUS
  <2>1. Distance(e.port, j, n) \in 0 .. n - 1 /\ Distance(e.port, k, n) \in 0 .. n - 1
    BY <1>2, <1>5, ProbeReaches
  <2>2. ~(d <= Distance(e.port, j, n))
    BY <2>1
  <2>3. m[j].port # 0 /\ m[j] \in AnySlot
    BY <1>1, <1>4, <2>2
  <2> QED
    BY <2>3, SlotFacts
<1> DEFINE m2 == Added(m, n, e)
<1>7. m2 \in [0 .. n - 1 -> AnySlot] /\ m2[k] = e /\ \A i \in 0 .. n - 1 : i # k => m2[i] = m[i]
  BY <1>1, <1>2, <1>5 DEF Added, k
<1> HIDE DEF m2
<1>8. \A i, j \in 0 .. n - 1 : m2[i].port = m2[j].port /\ m2[i].port # 0 => i = j
  BY <1>5, <1>7 DEF Table, Absent
<1>9. \A i, j \in 0 .. n - 1 :
         m2[i].port # 0 /\ Distance(m2[i].port, j, n) < Distance(m2[i].port, i, n) => m2[j].handler # NULL
  <2> SUFFICES ASSUME NEW i \in 0 .. n - 1, NEW j \in 0 .. n - 1, j # k,
                      m2[i].port # 0, Distance(m2[i].port, j, n) < Distance(m2[i].port, i, n)
               PROVE  m[j].handler # NULL
    BY <1>2, <1>7
  <2>1. CASE i = k
    BY <1>6, <1>7, <2>1
  <2>2. CASE i # k
    BY <1>7, <2>2 DEF Table
  <2> QED
    BY <2>1, <2>2
<1>10. Table(m2, n)
  BY <1>7, <1>8, <1>9 DEF Table
<1>11. Content(m2) = Content(m) \cup {e}
  BY <1>1, <1>2, <1>5, <1>7 DEF Content
<1> QED
  BY <1>5, <1>10, <1>11 DEF k, m2

\* Slots may be marked as deleted, and entries may change their handler or state.
LEMMA SlotsChanged ==
  ASSUME NEW n \in Nat \ {0}, NEW m, Table(m, n), NEW m2 \in [0 .. n - 1 -> AnySlot],
         \A i \in 0 .. n - 1 : (m2[i].port = m[i].port \/ m2[i].port = 0) /\ (m[i].handler # NULL => m2[i].handler # NULL)
  PROVE  Table(m2, n)
<1>1. \A i, j \in 0 .. n - 1 : m2[i].port = m2[j].port /\ m2[i].port # 0 => i = j
  BY DEF Table
<1>2. \A i, j \in 0 .. n - 1 :
        m2[i].port # 0 /\ Distance(m2[i].port, j, n) < Distance(m2[i].port, i, n) => m2[j].handler # NULL
  BY DEF Table
<1> QED
  BY <1>1, <1>2 DEF Table

-----------------------------------------------------------------------------
(* Rehashing                                                                *)

\* The rounds of the loop of Rehash(), of which there is such a function.
Rounds(fill, m, old, new) ==
  fill = [i \in 0 .. old |->
            IF i = 0 THEN [j \in 0 .. new - 1 |-> FreeSlot]
            ELSE IF m[i - 1].port = 0 THEN fill[i - 1]
            ELSE [fill[i - 1] EXCEPT ![UnusedSlot(fill[i - 1], new, m[i - 1].port)] = m[i - 1]]]

\* Rehash() fills the new table slot by slot of the old one.
LEMMA RehashRounds ==
  ASSUME NEW m, NEW old \in Nat, NEW new
  PROVE  \E fill : Rounds(fill, m, old, new) /\ Rehashed(m, old, new) = fill[old]
<1> DEFINE Step(f, i) == IF m[i - 1].port = 0 THEN f
                         ELSE [f EXCEPT ![UnusedSlot(f, new, m[i - 1].port)] = m[i - 1]]
           start == [j \in 0 .. new - 1 |-> FreeSlot]
           Part(g, n) == g = [i \in 0 .. n |-> IF i = 0 THEN start ELSE Step(g[i - 1], i)]
           S == {n \in Nat : \E g : Part(g, n)}
<1>1. 0 \in S
  <2> HIDE DEF Step, start
  <2>1. Part([i \in 0 .. 0 |-> start], 0)
    OBVIOUS
  <2> QED
    BY <2>1
<1>2. ASSUME NEW n \in Nat, n \in S  PROVE n + 1 \in S
  <2>1. PICK g : Part(g, n)
    BY <1>2
  <2> DEFINE h == [i \in 0 .. n + 1 |-> IF i = n + 1 THEN Step(g[n], n + 1) ELSE g[i]]
  <2> HIDE DEF Step, start
  <2>2. \A i \in 0 .. n + 1 : h[i] = IF i = 0 THEN start ELSE Step(h[i - 1], i)
    <3> SUFFICES ASSUME NEW i \in 0 .. n + 1  PROVE h[i] = IF i = 0 THEN start ELSE Step(h[i - 1], i)
      OBVIOUS
    <3>1. CASE i = n + 1
      <4>1. h[i] = Step(g[n], n + 1) /\ i - 1 = n /\ n \in 0 .. n + 1 /\ n # n + 1
        BY <3>1
      <4>2. h[n] = g[n]
        BY <4>1
      <4> QED
        BY <3>1, <4>1, <4>2
    <3>2. CASE i # n + 1
      <4>1. i \in 0 .. n /\ h[i] = g[i]
        BY <3>2
      <4>2. g[i] = IF i = 0 THEN start ELSE Step(g[i - 1], i)
        BY <2>1, <4>1
      <4>3. i # 0 => i - 1 \in 0 .. n + 1 /\ i - 1 # n + 1
        BY <3>2
      <4>4. i # 0 => h[i - 1] = g[i - 1]
        BY <4>3
      <4> QED
        BY <4>1, <4>2, <4>4
    <3> QED
      BY <3>1, <3>2
  <2>3. Part(h, n + 1)
    BY <2>2
  <2> HIDE DEF Part, h
  <2>4. \E x : Part(x, n + 1)
    BY <2>3
  <2> QED
    BY <2>4
<1>3. \E g : Part(g, old)
  <2> HIDE DEF Part
  <2>1. Nat \subseteq S
    BY <1>1, <1>2, SetInduction
  <2> QED
    BY <2>1
<1>4. Part(CHOOSE g : Part(g, old), old)
  <2> HIDE DEF Part
  <2> QED
    BY <1>3
<1>5. Rehashed(m, old, new) = (CHOOSE g : Part(g, old))[old]
  BY DEF Rehashed
<1> QED
  BY <1>4, <1>5 DEF Rounds

\* Rehash() keeps what is entered, and only that.
LEMMA RehashKeeps ==
  ASSUME NEW old \in Nat, NEW new \in Nat \ {0}, NEW m, Table(m, old), Cardinality(Content(m)) < new
  PROVE  /\ Table(Rehashed(m, old, new), new)
         /\ Content(Rehashed(m, old, new)) = Content(m)
         /\ Markers(Rehashed(m, old, new)) = {}
<1>1. PICK fill : Rounds(fill, m, old, new) /\ Rehashed(m, old, new) = fill[old]
  BY RehashRounds
<1>2. m \in [0 .. old - 1 -> AnySlot] /\ DOMAIN m = 0 .. old - 1
  BY DEF Table
<1>3. IsFiniteSet(Content(m))
  BY CountSlots
<1> DEFINE Done(i) == {m[j] : j \in {j \in 0 .. i - 1 : m[j].port # 0}}
           Good(i) == Table(fill[i], new) /\ Content(fill[i]) = Done(i) /\ Markers(fill[i]) = {}
           S == {i \in Nat : i <= old => Good(i)}
<1>4. 0 \in S
  <2>1. fill[0] = [j \in 0 .. new - 1 |-> FreeSlot]
    BY <1>1 DEF Rounds
  <2>2. FreeSlot.port = 0 /\ FreeSlot.handler = NULL /\ FreeSlot \in AnySlot /\ NULL # Deleted
    BY EntryFacts, PortMapAssumption DEF FreeSlot, AnySlot
  <2>3. Table(fill[0], new)
    BY <2>1, <2>2 DEF Table
  <2>4. Content(fill[0]) = {} /\ Markers(fill[0]) = {}
    BY <2>1, <2>2 DEF Content, Markers
  <2>5. Done(0) = {}
    OBVIOUS
  <2> QED
    BY <2>3, <2>4, <2>5
<1>5. ASSUME NEW i \in Nat, i \in S  PROVE i + 1 \in S
  <2> SUFFICES ASSUME i + 1 <= old PROVE Good(i + 1)
    OBVIOUS
  <2>1. Good(i)
    BY <1>5
  <2>2. i \in 0 .. old - 1 /\ m[i] \in AnySlot /\ i + 1 \in 0 .. old /\ i + 1 # 0 /\ (i + 1) - 1 = i
    BY <1>2
  <2>3. fill[i + 1] = IF m[i].port = 0 THEN fill[i]
                      ELSE [fill[i] EXCEPT ![UnusedSlot(fill[i], new, m[i].port)] = m[i]]
    BY <1>1, <2>2 DEF Rounds
  <2>4. \A j \in 0 .. i : j = i \/ j \in 0 .. i - 1
    OBVIOUS
  <2>5. CASE m[i].port = 0
    <3>1. Done(i + 1) = Done(i)
      BY <2>2, <2>4, <2>5
    <3> QED
      BY <2>1, <2>3, <2>5, <3>1
  <2>6. CASE m[i].port # 0
    <3>1. m[i] \in OpenSlots
      BY <2>2, <2>6, SlotFacts
    <3>2. Done(i + 1) = Done(i) \cup {m[i]}
      BY <2>2, <2>4, <2>6
    <3>3. \A e \in Done(i) : e.port # m[i].port
      <4> SUFFICES ASSUME NEW j \in 0 .. i - 1, m[j].port # 0 PROVE m[j].port # m[i].port
        OBVIOUS
      <4>1. j \in 0 .. old - 1 /\ j # i
        BY <2>2
      <4> QED
        BY <2>2, <4>1 DEF Table
    <3>4. fill[i] \in [0 .. new - 1 -> AnySlot] /\ DOMAIN fill[i] = 0 .. new - 1
      BY <2>1 DEF Table
    <3>5. Absent(fill[i], new, m[i].port)
      BY <2>1, <2>6, <3>3, <3>4 DEF Content, Absent
    <3>6. HasRoom(fill[i], new)
      <4>1. Done(i) \subseteq Content(m)
        BY <1>2, <2>2 DEF Content
      <4>2. Cardinality(Content(fill[i])) <= Cardinality(Content(m))
        BY <1>3, <2>1, <4>1, FS_Subset
      <4>3. IsFiniteSet(Content(fill[i]))
        BY <1>3, <2>1, <4>1, FS_Subset
      <4>4. Cardinality(Content(fill[i])) < new
        BY <1>3, <4>2, <4>3, FS_CardinalityType
      <4> QED
        BY <2>1, <4>4, UnusedExists DEF HasRoom
    <3> DEFINE k == UnusedSlot(fill[i], new, m[i].port)
    <3>7. /\ k \in 0 .. new - 1
          /\ Table(Added(fill[i], new, m[i]), new)
          /\ Content(Added(fill[i], new, m[i])) = Content(fill[i]) \cup {m[i]}
      BY <2>1, <3>1, <3>5, <3>6, EntryAdded
    <3>8. fill[i + 1] = Added(fill[i], new, m[i]) /\ fill[i + 1] = [fill[i] EXCEPT ![k] = m[i]]
      BY <2>3, <2>6 DEF Added
    <3> HIDE DEF k
    <3>9. Markers(fill[i + 1]) = {}
      BY <2>1, <2>2, <2>6, <3>4, <3>7, <3>8, SlotFacts DEF Markers
    <3> QED
      BY <2>1, <3>2, <3>7, <3>8, <3>9
  <2> QED
    BY <2>5, <2>6
<1>6. Good(old)
  <2>1. Nat \subseteq S
    <3> HIDE DEF S
    <3> QED
      BY <1>4, <1>5, SetInduction
  <2> QED
    BY <2>1
<1>7. Done(old) = Content(m)
  BY <1>2 DEF Content
<1> QED
  BY <1>1, <1>6, <1>7

-----------------------------------------------------------------------------
(* Lookups and MaintainInvariants()                                         *)

\* What is entered in a table: finitely many open slots, one for each port.
LEMMA ContentFacts ==
  ASSUME NEW n \in Nat, NEW m, Table(m, n)
  PROVE  /\ Content(m) \subseteq OpenSlots /\ IsFiniteSet(Content(m))
         /\ \A e, f \in Content(m) : e.port = f.port => e = f
         /\ \A e \in Content(m) : \E i \in 0 .. n - 1 : m[i] = e /\ e.port # 0
         /\ \A i \in 0 .. n - 1 : m[i].port # 0 => m[i] \in Content(m)
<1>1. m \in [0 .. n - 1 -> AnySlot] /\ DOMAIN m = 0 .. n - 1
  BY DEF Table
<1>2. IsFiniteSet(Content(m))
  BY CountSlots
<1>3. /\ \A e \in Content(m) : \E i \in 0 .. n - 1 : m[i] = e /\ e.port # 0
      /\ \A i \in 0 .. n - 1 : m[i].port # 0 => m[i] \in Content(m)
  BY <1>1 DEF Content
<1>4. Content(m) \subseteq OpenSlots
  BY <1>1, <1>3, SlotFacts
<1>5. \A e, f \in Content(m) : e.port = f.port => e = f
  BY <1>3 DEF Table
<1> QED
  BY <1>2, <1>3, <1>4, <1>5

\* The markers of deleted entries can be counted.
LEMMA MarkersFinite ==
  ASSUME NEW n \in Nat, NEW m, Table(m, n)
  PROVE  IsFiniteSet(Markers(m)) /\ Cardinality(Markers(m)) \in Nat
<1>1. IsFiniteSet(0 .. n - 1)
  BY FS_Interval, n - 1 \in Int
<1>2. Markers(m) \in SUBSET (0 .. n - 1)
  BY DEF Markers, Table
<1>3. IsFiniteSet(Markers(m))
  BY <1>1, <1>2, FS_Subset
<1> QED
  BY <1>3, FS_CardinalityType

\* The bounds of MaintainInvariants() leave a free slot.
LEMMA FreeExists ==
  ASSUME PortMapInv
  PROVE  /\ \E i \in DOMAIN map_ : map_[i].handler = NULL
         /\ used_ = Cardinality({i \in DOMAIN map_ : map_[i].port # 0})
<1>1. PICK c \in Nat \ {0} : capacity_ = 4 * c
  BY DEF PortMapInv, SpaceInv
<1>2. capacity_ \in Nat \ {0} /\ capacity_ \div 4 = c
  BY <1>1
<1>3. DOMAIN map_ = 0 .. capacity_ - 1 /\ \A i \in 0 .. capacity_ - 1 : map_[i] \in AnySlot
  BY DEF PortMapInv, Table
<1> DEFINE used == {i \in DOMAIN map_ : map_[i].port # 0}
<1>4. used = {i \in DOMAIN map_ : map_[i] \in OpenSlots}
  BY <1>3, SlotFacts
<1>5. Content(map_) \cap OpenSlots = Content(map_)
  BY <1>2, ContentFacts DEF PortMapInv
<1>6. Cardinality(used) = Cardinality(Content(map_))
  <2>1. OpenSlots \in SUBSET OpenSlots /\ capacity_ \in Nat /\ Table(map_, capacity_)
    BY <1>2 DEF PortMapInv
  <2>2. Cardinality({i \in DOMAIN map_ : map_[i] \in OpenSlots}) = Cardinality(Content(map_) \cap OpenSlots)
    BY <2>1, CountSlots
  <2> HIDE DEF used
  <2> QED
    BY <1>4, <1>5, <2>2
<1>7. used \in SUBSET (0 .. capacity_ - 1) /\ Markers(map_) \in SUBSET (0 .. capacity_ - 1)
  BY <1>3 DEF Markers
<1>8. used \cap Markers(map_) = {}
  BY <1>3, SlotFacts DEF Markers
<1> HIDE DEF used
<1>9. IsFiniteSet(0 .. capacity_ - 1) /\ Cardinality(0 .. capacity_ - 1) = capacity_
  BY <1>2, FS_Interval, capacity_ - 1 \in Int
<1>10. IsFiniteSet(used) /\ IsFiniteSet(Markers(map_))
  BY <1>7, <1>9, FS_Subset
<1>11. Cardinality(used \cup Markers(map_)) = Cardinality(used) + Cardinality(Markers(map_)) - Cardinality({})
  BY <1>8, <1>10, FS_Union
<1>12. Cardinality(used) \in Nat /\ Cardinality(Markers(map_)) \in Nat /\ Cardinality({}) = 0
  BY <1>10, FS_CardinalityType, FS_EmptySet
<1>13. used_ = Cardinality(used) /\ deleted_ = Cardinality(Markers(map_))
       /\ used_ <= (capacity_ \div 4) * 3 /\ deleted_ <= capacity_ - used_ - deleted_
  BY <1>6 DEF PortMapInv, SpaceInv
<1>14. used_ + deleted_ < capacity_
  BY <1>1, <1>2, <1>12, <1>13
<1>15. used \cup Markers(map_) # 0 .. capacity_ - 1
  <2> SUFFICES ASSUME used \cup Markers(map_) = 0 .. capacity_ - 1 PROVE FALSE
    OBVIOUS
  <2>1. Cardinality(used \cup Markers(map_)) = capacity_
    BY <1>9
  <2>2. capacity_ = used_ + deleted_
    BY <1>11, <1>12, <1>13, <2>1
  <2> QED
    BY <1>2, <1>12, <1>13, <1>14, <2>2
<1>16. PICK i \in 0 .. capacity_ - 1 : i \notin used /\ i \notin Markers(map_)
  BY <1>7, <1>15
<1>17. map_[i].handler = NULL
  BY <1>3, <1>16, SlotFacts DEF used, Markers
<1> QED
  BY <1>3, <1>13, <1>17 DEF used

\* A table has slots.
LEMMA CapacityFacts ==
  ASSUME SpaceInv
  PROVE  capacity_ \in Nat \ {0}
BY DEF SpaceInv

\* FindPort() finds what is there, and nothing else.
LEMMA PortFound ==
  ASSUME PortMapInv, NEW p \in Ports
  PROVE  /\ \A i \in 0 .. capacity_ - 1 : map_[i].port = p => FindPort(p) = i
         /\ (\A i \in 0 .. capacity_ - 1 : map_[i].port # p) => FindPort(p) = -1
<1> DEFINE stops == {j \in DOMAIN map_ : map_[j].handler = NULL \/ map_[j].port = p}
           k == Probe(capacity_, p, stops)
<1>1. capacity_ \in Nat \ {0} /\ p \in Nat /\ p # 0
  BY CapacityFacts, PortMapAssumption DEF PortMapInv
<1>2. DOMAIN map_ = 0 .. capacity_ - 1 /\ Table(map_, capacity_)
  BY DEF PortMapInv, Table
<1>3. stops # {} /\ stops \in SUBSET (0 .. capacity_ - 1)
  BY <1>2, FreeExists
<1>4. k \in stops /\ \A j \in stops : Distance(p, k, capacity_) <= Distance(p, j, capacity_)
  <2> HIDE DEF stops
  <2> QED
    BY <1>1, <1>3, ProbeFinds
<1>5. FindPort(p) = IF k >= 0 /\ map_[k].port = p THEN k ELSE -1
  BY DEF FindPort
<1> HIDE DEF k
<1>6. k \in 0 .. capacity_ - 1 /\ k >= 0 /\ (map_[k].handler = NULL \/ map_[k].port = p)
  BY <1>1, <1>3, <1>4
<1>7. ASSUME NEW i \in 0 .. capacity_ - 1, map_[i].port = p  PROVE k = i
  <2>1. Distance(p, k, capacity_) <= Distance(p, i, capacity_)
    BY <1>2, <1>4, <1>7
  <2>2. Distance(p, k, capacity_) \in 0 .. capacity_ - 1 /\ Distance(p, i, capacity_) \in 0 .. capacity_ - 1
    BY <1>1, <1>6, ProbeReaches
  <2>3. CASE Distance(p, k, capacity_) < Distance(p, i, capacity_)
    <3>1. map_[k].handler # NULL
      BY <1>1, <1>2, <1>6, <1>7, <2>3 DEF Table
    <3> QED
      BY <1>1, <1>2, <1>6, <1>7, <3>1 DEF Table
  <2>4. CASE Distance(p, k, capacity_) = Distance(p, i, capacity_)
    BY <1>1, <1>6, <2>4, DistanceTells
  <2> QED
    BY <2>1, <2>2, <2>3, <2>4
<1> QED
  BY <1>5, <1>6, <1>7

\* What a lookup answers.
LookupRight ==
  /\ \A e \in Content(map_) : e.port \in Ports /\ e.handler \in Handlers /\ Lookup(e.port) = e
  /\ \A p \in Ports : (\A e \in Content(map_) : e.port # p) => Lookup(p) = FreeSlot

\* Every lookup answers what is entered in the table, and nothing else.
LEMMA LookupIsRight == PortMapInv => LookupRight
<1> SUFFICES ASSUME PortMapInv PROVE LookupRight
  OBVIOUS
<1>1. capacity_ \in Nat \ {0} /\ Table(map_, capacity_)
  BY CapacityFacts DEF PortMapInv
<1>2. ASSUME NEW p \in Ports
      PROVE  \/ Lookup(p) \in Content(map_) /\ Lookup(p).port = p
             \/ Lookup(p) = FreeSlot /\ \A e \in Content(map_) : e.port # p
  <2>0. p # 0
    BY PortMapAssumption
  <2>1. CASE \E i \in 0 .. capacity_ - 1 : map_[i].port = p
    <3>1. PICK i \in 0 .. capacity_ - 1 : map_[i].port = p
      BY <2>1
    <3>2. FindPort(p) = i /\ ~(i < 0)
      BY <1>1, <3>1, PortFound
    <3>3. Lookup(p) = map_[i]
      BY <3>2 DEF Lookup
    <3> QED
      BY <1>1, <2>0, <3>1, <3>3, ContentFacts
  <2>2. CASE \A i \in 0 .. capacity_ - 1 : map_[i].port # p
    <3>1. FindPort(p) = -1
      BY <2>2, PortFound
    <3>2. Lookup(p) = FreeSlot
      BY <3>1 DEF Lookup
    <3> QED
      BY <1>1, <2>2, <3>2, ContentFacts
  <2> QED
    BY <2>1, <2>2
<1>3. \A e \in Content(map_) : e.port \in Ports /\ e.handler \in Handlers
  BY <1>1, ContentFacts DEF OpenSlots
<1>4. \A e, f \in Content(map_) : e.port = f.port => e = f
  BY <1>1, ContentFacts
<1> QED
  BY <1>2, <1>3, <1>4 DEF LookupRight

\* After an operation the table has room again, and the same content.
LEMMA Maintained ==
  ASSUME SpaceInv, NEW m, Table(m, capacity_), NEW used, used = Cardinality(Content(m)),
         used <= (capacity_ \div 4) * 3 + 1, NEW deleted, deleted = Cardinality(Markers(m)),
         MaintainInvariants(m, used, deleted)
  PROVE  Table(map_, capacity_)' /\ SpaceInv' /\ Content(map_') = Content(m)
<1>1. PICK c \in Nat \ {0} : capacity_ = 4 * c
  BY DEF SpaceInv
<1>2. capacity_ \in Nat \ {0} /\ capacity_ \div 4 = c
  BY <1>1
<1>3. used \in Nat /\ deleted \in Nat
  BY <1>2, ContentFacts, MarkersFinite, FS_CardinalityType
<1> DEFINE grow  == used > (capacity_ \div 4) * 3
           flush == ~grow /\ capacity_ - used - deleted < deleted
<1>4. CASE grow
  <2>1. map_' = Rehashed(m, capacity_, capacity_ * 2) /\ capacity_' = capacity_ * 2 /\ used_' = used /\ deleted_' = 0
    BY <1>4 DEF MaintainInvariants
  <2>2. capacity_ * 2 \in Nat \ {0} /\ used < capacity_ * 2 /\ capacity_' = 4 * (2 * c) /\ 2 * c \in Nat \ {0}
    BY <1>1, <1>2, <1>3, <2>1
  <2>3. Table(map_', capacity_') /\ Content(map_') = Content(m) /\ Markers(map_') = {}
    BY <1>2, <2>1, <2>2, RehashKeeps
  <2>4. used_' <= (capacity_' \div 4) * 3 /\ deleted_' <= capacity_' - used_' - deleted_'
    BY <1>1, <1>2, <1>3, <2>1, <2>2
  <2>5. deleted_' = Cardinality(Markers(map_'))
    BY <2>1, <2>3, FS_EmptySet
  <2> QED
    BY <2>1, <2>2, <2>3, <2>4, <2>5 DEF SpaceInv
<1>5. CASE flush
  <2>1. map_' = Rehashed(m, capacity_, capacity_) /\ capacity_' = capacity_ /\ used_' = used /\ deleted_' = 0
    BY <1>5 DEF MaintainInvariants
  <2>2. used < capacity_ /\ used <= (capacity_ \div 4) * 3
    BY <1>1, <1>2, <1>3, <1>5
  <2>3. Table(map_', capacity_') /\ Content(map_') = Content(m) /\ Markers(map_') = {}
    BY <1>2, <2>1, <2>2, RehashKeeps
  <2>4. used_' <= (capacity_' \div 4) * 3 /\ deleted_' <= capacity_' - used_' - deleted_'
    BY <1>1, <1>2, <1>3, <2>1, <2>2
  <2>5. deleted_' = Cardinality(Markers(map_'))
    BY <2>1, <2>3, FS_EmptySet
  <2> QED
    BY <1>1, <2>1, <2>3, <2>4, <2>5 DEF SpaceInv
<1>6. CASE ~grow /\ ~flush
  <2>1. map_' = m /\ capacity_' = capacity_ /\ used_' = used /\ deleted_' = deleted
    BY <1>6 DEF MaintainInvariants
  <2>2. used_' <= (capacity_' \div 4) * 3 /\ deleted_' <= capacity_' - used_' - deleted_'
    BY <1>1, <1>2, <1>3, <1>6, <2>1
  <2> QED
    BY <1>1, <2>1, <2>2 DEF SpaceInv
<1> QED
  BY <1>4, <1>5, <1>6

-----------------------------------------------------------------------------
(* What each operation does to the content of the table                     *)

\* CreatePort() enters its port and keeps the table and its counters, also if it grows.
LEMMA CreatePortContent ==
  ASSUME PortMapInv, NEW h \in Handlers, NEW p \in Ports, CreatePort(h, p)
  PROVE  /\ Table(map_, capacity_)' /\ SpaceInv'
         /\ Content(map_') = Content(map_) \cup {Entry(p, h, "new")}
         /\ \A e \in Content(map_) : e.port # p
<1> DEFINE slot == UnusedSlot(map_, capacity_, p)
           entry == Entry(p, h, "new")
           after == [map_ EXCEPT ![slot] = entry]
<1>1. capacity_ \in Nat \ {0} /\ capacity_ \in Nat /\ Table(map_, capacity_) /\ SpaceInv
  BY CapacityFacts DEF PortMapInv
<1>2. /\ FindPort(p) < 0
      /\ MaintainInvariants(after, used_ + 1, IF map_[slot].handler = Deleted THEN deleted_ - 1 ELSE deleted_)
  BY DEF CreatePort
<1>3. entry \in OpenSlots /\ entry.port = p
  BY DEF Entry, OpenSlots, PortState
<1>4. \A k \in 0 .. capacity_ - 1 : map_[k].port # p
  <2> SUFFICES ASSUME NEW k \in 0 .. capacity_ - 1, map_[k].port = p PROVE FALSE
    OBVIOUS
  <2>1. FindPort(p) = k
    BY PortFound
  <2> QED
    BY <1>1, <1>2, <2>1
<1>5. DOMAIN map_ = 0 .. capacity_ - 1 /\ \A k \in 0 .. capacity_ - 1 : map_[k] \in AnySlot
  BY <1>1 DEF Table
<1>6. \E k \in 0 .. capacity_ - 1 : map_[k].port = 0
  <2>1. PICK k \in 0 .. capacity_ - 1 : map_[k].handler = NULL
    BY <1>5, FreeExists
  <2> QED
    BY <1>5, <2>1, SlotFacts
<1>7. entry \notin Content(map_) /\ \A f \in Content(map_) : f.port # p
  BY <1>1, <1>3, <1>4, ContentFacts
<1> HIDE DEF entry
<1>8. slot = UnusedSlot(map_, capacity_, entry.port)
  BY <1>3
<1> HIDE DEF slot
<1>9. /\ slot \in 0 .. capacity_ - 1 /\ map_[slot].port = 0
      /\ Table(after, capacity_) /\ Content(after) = Content(map_) \cup {entry}
  <2>1. Absent(map_, capacity_, entry.port) /\ HasRoom(map_, capacity_)
    BY <1>3, <1>4, <1>6 DEF Absent, HasRoom
  <2>2. entry \in OpenSlots /\ Table(map_, capacity_) /\ capacity_ \in Nat \ {0}
    BY <1>1, <1>3
  <2>3. after = Added(map_, capacity_, entry)
    BY <1>8 DEF Added
  <2> HIDE DEF after
  <2> QED
    BY <1>8, <2>1, <2>2, <2>3, EntryAdded
<1>10. Markers(after) = Markers(map_) \ {slot}
  <2>1. entry.handler # Deleted
    BY <1>3, PortMapAssumption DEF OpenSlots
  <2>2. DOMAIN after = DOMAIN map_ /\ after[slot] = entry /\ \A k \in DOMAIN map_ : k # slot => after[k] = map_[k]
    BY <1>5, <1>9
  <2> HIDE DEF after
  <2> QED
    BY <2>1, <2>2 DEF Markers
<1> HIDE DEF after
<1>11. used_ = Cardinality(Content(map_)) /\ used_ <= (capacity_ \div 4) * 3 /\ deleted_ = Cardinality(Markers(map_))
  BY <1>1 DEF SpaceInv
<1>12. IsFiniteSet(Content(map_)) /\ IsFiniteSet(Markers(map_)) /\ used_ \in Nat
  BY <1>1, <1>11, ContentFacts, MarkersFinite, FS_CardinalityType
<1>13. Cardinality(Content(after)) = used_ + 1
  <2>1. entry \notin Content(map_) /\ Content(after) = Content(map_) \cup {entry}
    BY <1>7, <1>9
  <2>2. IsFiniteSet(Content(map_)) /\ used_ = Cardinality(Content(map_))
    BY <1>11, <1>12
  <2>3. Cardinality(Content(map_) \cup {entry}) =
          IF entry \in Content(map_) THEN Cardinality(Content(map_)) ELSE Cardinality(Content(map_)) + 1
    BY <2>2, FS_AddElement
  <2> QED
    BY <2>1, <2>2, <2>3
<1>14. Cardinality(Markers(after)) = IF map_[slot].handler = Deleted THEN deleted_ - 1 ELSE deleted_
  <2>1. slot \in Markers(map_) <=> map_[slot].handler = Deleted
    BY <1>5, <1>9 DEF Markers
  <2> QED
    BY <1>10, <1>11, <1>12, <2>1, FS_RemoveElement
<1>15. used_ + 1 <= (capacity_ \div 4) * 3 + 1
  BY <1>1, <1>11, <1>12
<1>16. Table(map_, capacity_)' /\ SpaceInv' /\ Content(map_') = Content(after)
  BY <1>1, <1>2, <1>9, <1>13, <1>14, <1>15, Maintained
<1> QED
  BY <1>7, <1>9, <1>16 DEF entry

\* SetPortState() changes one entry, and live_ports_ if the port becomes live.
LEMMA SetPortStateContent ==
  ASSUME PortMapInv, NEW p \in Ports, NEW s \in {"live", "control"}, SetPortState(p, s)
  PROVE  /\ Table(map_, capacity_)' /\ SpaceInv'
         /\ \E e \in Content(map_) :
              /\ e.port = p /\ e.state = "new" /\ e.handler \notin Natives
              /\ Content(map_') = (Content(map_) \ {e}) \cup {Entry(p, e.handler, s)}
              /\ live_ports_' = IF s = "live" THEN [live_ports_ EXCEPT ![e.handler] = @ + 1] ELSE live_ports_
<1> DEFINE i == FindPort(p)
           e == map_[i]
           f == Entry(p, e.handler, s)
<1>1. capacity_ \in Nat \ {0} /\ capacity_ \in Nat /\ Table(map_, capacity_) /\ SpaceInv
  BY CapacityFacts DEF PortMapInv
<1>2. /\ i >= 0 /\ e.state = "new" /\ e.handler \notin Natives
      /\ map_' = [map_ EXCEPT ![i].state = s] /\ UNCHANGED <<capacity_, used_, deleted_, gone>>
      /\ live_ports_' = IF s = "live" THEN [live_ports_ EXCEPT ![e.handler] = @ + 1] ELSE live_ports_
  BY DEF SetPortState
<1>3. i \in 0 .. capacity_ - 1 /\ e.port = p
  <2> HIDE DEF i
  <2>1. CASE \A k \in 0 .. capacity_ - 1 : map_[k].port # p
    BY <1>2, <2>1, PortFound DEF i
  <2>2. CASE \E k \in 0 .. capacity_ - 1 : map_[k].port = p
    BY <2>2, PortFound DEF i
  <2> QED
    BY <2>1, <2>2
<1>4. DOMAIN map_ = 0 .. capacity_ - 1 /\ \A k \in 0 .. capacity_ - 1 : map_[k] \in AnySlot
  BY <1>1 DEF Table
<1> HIDE DEF i
<1>5. e \in Content(map_) /\ e \in OpenSlots /\ p # 0
  BY <1>1, <1>3, ContentFacts, PortMapAssumption
<1>6. f \in OpenSlots /\ f.port = p /\ f = [e EXCEPT !.state = s] /\ f.handler = e.handler
  BY <1>3, <1>5 DEF Entry, OpenSlots, PortState
<1> HIDE DEF f
<1>7. map_' = [map_ EXCEPT ![i] = f]
  BY <1>2, <1>6
<1>8. /\ map_' \in [0 .. capacity_ - 1 -> AnySlot] /\ map_'[i] = f
      /\ \A k \in 0 .. capacity_ - 1 : k # i => map_'[k] = map_[k]
  BY <1>1, <1>3, <1>6, <1>7 DEF Table, AnySlot
<1>9. \A k \in 0 .. capacity_ - 1 : map_'[k].port = map_[k].port /\ map_'[k].handler = map_[k].handler
  BY <1>3, <1>6, <1>8
<1>10. Table(map_', capacity_)
  BY <1>1, <1>8, <1>9, SlotsChanged
<1>11. Content(map_') = (Content(map_) \ {e}) \cup {f}
  <2>1. ASSUME NEW g \in Content(map_')  PROVE g = f \/ (g \in Content(map_) /\ g # e)
    <3>1. PICK k \in 0 .. capacity_ - 1 : map_'[k] = g /\ g.port # 0
      BY <1>1, <1>10, ContentFacts
    <3>2. CASE k = i
      BY <1>8, <3>1, <3>2
    <3>3. CASE k # i
      <4>1. map_[k] = g /\ map_[k].port # 0
        BY <1>8, <3>1, <3>3
      <4>2. g \in Content(map_)
        BY <1>1, <3>1, <4>1, ContentFacts
      <4>3. g # e
        BY <1>1, <1>3, <3>1, <3>3, <4>1 DEF Table
      <4> QED
        BY <4>2, <4>3
    <3> QED
      BY <3>2, <3>3
  <2>2. ASSUME NEW g \in Content(map_), g # e  PROVE g \in Content(map_')
    <3>1. PICK k \in 0 .. capacity_ - 1 : map_[k] = g /\ g.port # 0
      BY <1>1, ContentFacts
    <3>2. map_'[k] = g /\ map_'[k].port # 0
      BY <1>8, <2>2, <3>1
    <3> QED
      BY <1>1, <1>10, <3>1, <3>2, ContentFacts
  <2>3. f \in Content(map_')
    <3>1. map_'[i].port # 0
      BY <1>5, <1>6, <1>8
    <3>2. map_'[i] \in Content(map_')
      BY <1>1, <1>3, <1>10, <3>1, ContentFacts
    <3> QED
      BY <1>8, <3>2
  <2> QED
    BY <2>1, <2>2, <2>3
<1>12. Cardinality(Content(map_')) = Cardinality(Content(map_))
  <2>1. IsFiniteSet(Content(map_)) /\ Cardinality(Content(map_)) \in Nat
    BY <1>1, ContentFacts, FS_CardinalityType
  <2>2. f \notin Content(map_) \ {e}
    <3>1. \A g \in Content(map_) : g.port = e.port => g = e
      BY <1>1, <1>5, ContentFacts
    <3>2. f.port = e.port
      BY <1>3, <1>6
    <3> QED
      BY <3>1, <3>2
  <2>3. IsFiniteSet(Content(map_) \ {e}) /\ Cardinality(Content(map_) \ {e}) = Cardinality(Content(map_)) - 1
    BY <1>5, <2>1, FS_RemoveElement
  <2>4. Cardinality((Content(map_) \ {e}) \cup {f}) = Cardinality(Content(map_) \ {e}) + 1
    BY <2>2, <2>3, FS_AddElement
  <2> QED
    BY <1>11, <2>1, <2>3, <2>4
<1>13. Markers(map_') = Markers(map_)
  BY <1>4, <1>8, <1>9 DEF Markers
<1>14. SpaceInv'
  BY <1>1, <1>2, <1>12, <1>13 DEF SpaceInv
<1> QED
  BY <1>2, <1>3, <1>5, <1>10, <1>11, <1>14 DEF f

\* ClosePort() takes one entry out, and counts it down if it was live.
LEMMA ClosePortContent ==
  ASSUME PortMapInv, NEW p \in Ports, ClosePort(p)
  PROVE  /\ Table(map_, capacity_)' /\ SpaceInv'
         /\ \E e \in Content(map_) :
              /\ e.port = p /\ Content(map_') = Content(map_) \ {e}
              /\ live_ports_' = [live_ports_ EXCEPT ![e.handler] =
                                   IF e.state = "live" THEN live_ports_[e.handler] - 1 ELSE live_ports_[e.handler]]
              /\ gone' = gone \/ (gone' = gone \cup {e.handler} /\ e.handler \in Natives)
<1> DEFINE i == FindPort(p)
           e == map_[i]
           m == [map_ EXCEPT ![i] = DeletedSlot]
<1>1. capacity_ \in Nat \ {0} /\ capacity_ \in Nat /\ Table(map_, capacity_) /\ SpaceInv
  BY CapacityFacts DEF PortMapInv
<1>2. /\ i >= 0
      /\ MaintainInvariants(m, used_ - 1, deleted_ + 1)
      /\ live_ports_' = [live_ports_ EXCEPT ![e.handler] =
                           IF e.state = "live" THEN live_ports_[e.handler] - 1 ELSE live_ports_[e.handler]]
      /\ gone' = gone \/ (gone' = gone \cup {e.handler} /\ e.handler \in Natives)
  BY DEF ClosePort
<1>3. i \in 0 .. capacity_ - 1 /\ e.port = p
  <2> HIDE DEF i
  <2>1. CASE \A k \in 0 .. capacity_ - 1 : map_[k].port # p
    BY <1>2, <2>1, PortFound DEF i
  <2>2. CASE \E k \in 0 .. capacity_ - 1 : map_[k].port = p
    BY <2>2, PortFound DEF i
  <2> QED
    BY <2>1, <2>2
<1>4. DOMAIN map_ = 0 .. capacity_ - 1 /\ \A k \in 0 .. capacity_ - 1 : map_[k] \in AnySlot
  BY <1>1 DEF Table
<1> HIDE DEF i
<1>5. e \in Content(map_) /\ e \in OpenSlots /\ p # 0
  BY <1>1, <1>3, ContentFacts, PortMapAssumption
<1>6. DeletedSlot \in AnySlot /\ DeletedSlot.port = 0 /\ DeletedSlot.handler = Deleted /\ Deleted # NULL
  BY EntryFacts, PortMapAssumption DEF DeletedSlot, AnySlot
<1>7. m \in [0 .. capacity_ - 1 -> AnySlot] /\ m[i] = DeletedSlot /\ \A k \in 0 .. capacity_ - 1 : k # i => m[k] = map_[k]
  BY <1>1, <1>3, <1>6 DEF Table
<1> HIDE DEF m
<1>8. Table(m, capacity_)
  <2>1. \A k \in 0 .. capacity_ - 1 : (m[k].port = map_[k].port \/ m[k].port = 0) /\ (map_[k].handler # NULL => m[k].handler # NULL)
    BY <1>6, <1>7
  <2> QED
    BY <1>1, <1>7, <2>1, SlotsChanged
<1>9. Content(m) = Content(map_) \ {e}
  <2>1. ASSUME NEW g \in Content(m)  PROVE g \in Content(map_) /\ g # e
    <3>1. PICK k \in 0 .. capacity_ - 1 : m[k] = g /\ g.port # 0
      BY <1>1, <1>8, ContentFacts
    <3>2. k # i /\ map_[k] = g
      BY <1>6, <1>7, <3>1
    <3>3. g \in Content(map_)
      BY <1>1, <3>1, <3>2, ContentFacts
    <3>4. g # e
      BY <1>1, <1>3, <3>1, <3>2 DEF Table
    <3> QED
      BY <3>3, <3>4
  <2>2. ASSUME NEW g \in Content(map_), g # e  PROVE g \in Content(m)
    <3>1. PICK k \in 0 .. capacity_ - 1 : map_[k] = g /\ g.port # 0
      BY <1>1, ContentFacts
    <3>2. m[k] = g /\ m[k].port # 0
      BY <1>7, <2>2, <3>1
    <3> QED
      BY <1>1, <1>8, <3>1, <3>2, ContentFacts
  <2> QED
    BY <2>1, <2>2
<1>10. Markers(m) = Markers(map_) \cup {i} /\ i \notin Markers(map_)
  <2>1. e.handler # Deleted
    BY <1>5, PortMapAssumption DEF OpenSlots
  <2>2. DOMAIN m = DOMAIN map_
    BY <1>4, <1>7
  <2> QED
    BY <1>3, <1>4, <1>6, <1>7, <2>1, <2>2 DEF Markers
<1>11. used_ = Cardinality(Content(map_)) /\ used_ <= (capacity_ \div 4) * 3 /\ deleted_ = Cardinality(Markers(map_))
  BY <1>1 DEF SpaceInv
<1>12. IsFiniteSet(Content(map_)) /\ IsFiniteSet(Markers(map_)) /\ used_ \in Nat
  BY <1>1, <1>11, ContentFacts, MarkersFinite, FS_CardinalityType
<1>13. Cardinality(Content(m)) = used_ - 1
  BY <1>5, <1>9, <1>11, <1>12, FS_RemoveElement
<1>14. Cardinality(Markers(m)) = deleted_ + 1
  BY <1>10, <1>11, <1>12, FS_AddElement
<1>15. used_ - 1 <= (capacity_ \div 4) * 3 + 1
  BY <1>1, <1>11, <1>12
<1>16. Table(map_, capacity_)' /\ SpaceInv' /\ Content(map_') = Content(m)
  BY <1>1, <1>2, <1>8, <1>13, <1>14, <1>15, Maintained
<1> QED
  BY <1>2, <1>3, <1>5, <1>9, <1>16

\* ClosePorts() takes out every entry of its handler, and counts down the live ones.
LEMMA ClosePortsContent ==
  ASSUME PortMapInv, NEW h \in Handlers, ClosePorts(h)
  PROVE  /\ Table(map_, capacity_)' /\ SpaceInv'
         /\ Content(map_') = {e \in Content(map_) : e.handler # h}
         /\ \E e \in Content(map_) : e.handler = h
         /\ live_ports_' = [live_ports_ EXCEPT ![h] = @ - Cardinality(LivePorts(map_, h))]
<1> DEFINE mine == {i \in DOMAIN map_ : map_[i].handler = h}
           live == {i \in mine : map_[i].state = "live"}
           m == [i \in DOMAIN map_ |-> IF i \in mine THEN DeletedSlot ELSE map_[i]]
           H == {e \in OpenSlots : e.handler = h}
           L == {e \in OpenSlots : e.handler = h /\ e.state = "live"}
<1>1. capacity_ \in Nat \ {0} /\ capacity_ \in Nat /\ Table(map_, capacity_) /\ SpaceInv
  BY CapacityFacts DEF PortMapInv
<1>2. /\ mine # {}
      /\ MaintainInvariants(m, used_ - Cardinality(mine), deleted_ + Cardinality(mine))
      /\ live_ports_' = [live_ports_ EXCEPT ![h] = @ - Cardinality(live)]
  BY DEF ClosePorts
<1>3. DOMAIN map_ = 0 .. capacity_ - 1 /\ \A k \in 0 .. capacity_ - 1 : map_[k] \in AnySlot
  BY <1>1 DEF Table
<1>4. h # NULL /\ h # Deleted
  BY PortMapAssumption
<1>5. \A k \in 0 .. capacity_ - 1 : map_[k].handler = h => map_[k] \in OpenSlots /\ map_[k].port # 0
  BY <1>3, <1>4, SlotFacts
<1>6. mine = {i \in DOMAIN map_ : map_[i] \in H} /\ live = {i \in DOMAIN map_ : map_[i] \in L}
  BY <1>3, <1>5
<1>7. DeletedSlot \in AnySlot /\ DeletedSlot.port = 0 /\ DeletedSlot.handler = Deleted /\ Deleted # NULL
  BY EntryFacts, PortMapAssumption DEF DeletedSlot, AnySlot
<1>8. /\ m \in [0 .. capacity_ - 1 -> AnySlot] /\ mine \subseteq 0 .. capacity_ - 1
      /\ \A k \in 0 .. capacity_ - 1 : /\ k \in mine => m[k] = DeletedSlot /\ map_[k].handler = h
                                       /\ k \notin mine => m[k] = map_[k] /\ map_[k].handler # h
  BY <1>3, <1>7
<1>9. H \in SUBSET OpenSlots /\ L \in SUBSET OpenSlots
  OBVIOUS
<1>10. Cardinality(mine) = Cardinality(Content(map_) \cap H) /\ Cardinality(live) = Cardinality(Content(map_) \cap L)
  <2>1. Cardinality({i \in DOMAIN map_ : map_[i] \in H}) = Cardinality(Content(map_) \cap H)
    BY <1>1, <1>9, CountSlots
  <2>2. Cardinality({i \in DOMAIN map_ : map_[i] \in L}) = Cardinality(Content(map_) \cap L)
    BY <1>1, <1>9, CountSlots
  <2> HIDE DEF mine, live
  <2> QED
    BY <1>6, <2>1, <2>2
<1>11. Content(map_) \subseteq OpenSlots /\ Content(map_) \cap L = LivePorts(map_, h)
  BY <1>1, ContentFacts DEF LivePorts
<1>12. \E e \in Content(map_) : e.handler = h
  BY <1>1, <1>2, <1>3, <1>5, ContentFacts
<1> HIDE DEF mine, live, m
<1>13. Table(m, capacity_)
  <2>1. \A k \in 0 .. capacity_ - 1 : (m[k].port = map_[k].port \/ m[k].port = 0) /\ (map_[k].handler # NULL => m[k].handler # NULL)
    BY <1>7, <1>8
  <2> QED
    BY <1>1, <1>8, <2>1, SlotsChanged
<1>14. Content(m) = Content(map_) \ H
  <2>1. ASSUME NEW g \in Content(m)  PROVE g \in Content(map_) /\ g \notin H
    <3>1. PICK k \in 0 .. capacity_ - 1 : m[k] = g /\ g.port # 0
      BY <1>1, <1>13, ContentFacts
    <3>2. map_[k] = g /\ g.handler # h
      BY <1>7, <1>8, <3>1
    <3> QED
      BY <1>1, <3>1, <3>2, ContentFacts
  <2>2. ASSUME NEW g \in Content(map_), g \notin H  PROVE g \in Content(m)
    <3>1. PICK k \in 0 .. capacity_ - 1 : map_[k] = g /\ g.port # 0
      BY <1>1, ContentFacts
    <3>2. g.handler # h
      BY <1>11, <2>2
    <3>3. m[k] = g /\ m[k].port # 0
      BY <1>8, <3>1, <3>2
    <3> QED
      BY <1>1, <1>13, <3>1, <3>3, ContentFacts
  <2> QED
    BY <2>1, <2>2
<1>15. Markers(m) = Markers(map_) \cup mine /\ Markers(map_) \cap mine = {}
  <2>1. DOMAIN m = 0 .. capacity_ - 1
    BY <1>8
  <2> QED
    BY <1>3, <1>4, <1>7, <1>8, <2>1 DEF Markers
<1>16. /\ used_ = Cardinality(Content(map_)) /\ used_ <= (capacity_ \div 4) * 3
       /\ deleted_ = Cardinality(Markers(map_))
  BY <1>1 DEF SpaceInv
<1>17. IsFiniteSet(Content(map_)) /\ IsFiniteSet(Markers(map_)) /\ IsFiniteSet(mine) /\ used_ \in Nat
  <2>1. IsFiniteSet(0 .. capacity_ - 1)
    BY <1>1, FS_Interval, capacity_ - 1 \in Int
  <2>2. IsFiniteSet(mine)
    BY <1>8, <2>1, FS_Subset
  <2> QED
    BY <1>1, <1>16, <2>2, ContentFacts, MarkersFinite, FS_CardinalityType
<1>18. Cardinality(Content(m)) = used_ - Cardinality(mine)
  <2> HIDE DEF H
  <2>1. Cardinality(Content(map_) \ H) = Cardinality(Content(map_)) - Cardinality(Content(map_) \cap H)
    BY <1>17, FS_Difference
  <2> QED
    BY <1>10, <1>14, <1>16, <2>1
<1>19. Cardinality(Markers(m)) = deleted_ + Cardinality(mine)
  <2>1. Cardinality(Markers(m)) = Cardinality(Markers(map_)) + Cardinality(mine) - Cardinality({})
    BY <1>15, <1>17, FS_Union
  <2>2. Cardinality(mine) \in Nat /\ Cardinality(Markers(map_)) \in Nat /\ Cardinality({}) = 0
    BY <1>17, FS_CardinalityType, FS_EmptySet
  <2> QED
    BY <1>16, <2>1, <2>2
<1>20. used_ - Cardinality(mine) <= (capacity_ \div 4) * 3 + 1
  <2>1. Cardinality(mine) \in Nat
    BY <1>17, FS_CardinalityType
  <2> QED
    BY <1>1, <1>16, <1>17, <2>1
<1>21. Table(map_, capacity_)' /\ SpaceInv' /\ Content(map_') = Content(m)
  BY <1>1, <1>2, <1>13, <1>18, <1>19, <1>20, Maintained
<1>22. Content(m) = {e \in Content(map_) : e.handler # h}
  BY <1>11, <1>14
<1> QED
  BY <1>2, <1>10, <1>11, <1>12, <1>21, <1>22

-----------------------------------------------------------------------------
(* The invariant                                                            *)

\* The live ports of a handler can be counted.
LEMMA LivePortsFinite ==
  ASSUME PortMapInv, NEW h \in Handlers
  PROVE  IsFiniteSet(LivePorts(map_, h)) /\ Cardinality(LivePorts(map_, h)) \in Nat
<1>1. IsFiniteSet(Content(map_))
  BY CapacityFacts, ContentFacts DEF PortMapInv
<1>2. IsFiniteSet(LivePorts(map_, h))
  BY <1>1, FS_Subset DEF LivePorts
<1> QED
  BY <1>2, FS_CardinalityType

\* CreatePort() keeps the invariant.
LEMMA CreatePortStep ==
  ASSUME PortMapInv, NEW h \in Handlers, NEW p \in Ports, CreatePort(h, p)
  PROVE  PortMapInv'
<1> DEFINE new == Entry(p, h, "new")
<1>1. /\ Table(map_, capacity_)' /\ SpaceInv' /\ Content(map_') = Content(map_) \cup {new}
      /\ new.handler = h /\ new.state = "new"
  BY CreatePortContent, EntryFacts
<1>2. UNCHANGED <<live_ports_, gone>> /\ h \notin gone
  BY DEF CreatePort
<1>3. h \in Natives => \A e \in Content(map_) : e.handler # h
  BY DEF CreatePort, Content
<1> HIDE DEF new
<1>4. \A g \in Handlers : LivePorts(map_', g) = LivePorts(map_, g)
  BY <1>1 DEF LivePorts
<1>5. HandlersInv'
  BY <1>1, <1>2, <1>3, <1>4 DEF PortMapInv, HandlersInv
<1> QED
  BY <1>1, <1>5 DEF PortMapInv

\* SetPortState() keeps the invariant.
LEMMA SetPortStateStep ==
  ASSUME PortMapInv, NEW p \in Ports, NEW s \in {"live", "control"}, SetPortState(p, s)
  PROVE  PortMapInv'
<1>1. PICK e \in Content(map_) :
        /\ e.port = p /\ e.state = "new" /\ e.handler \notin Natives
        /\ Content(map_') = (Content(map_) \ {e}) \cup {Entry(p, e.handler, s)}
        /\ live_ports_' = IF s = "live" THEN [live_ports_ EXCEPT ![e.handler] = @ + 1] ELSE live_ports_
  BY SetPortStateContent
<1>2. Table(map_, capacity_)' /\ SpaceInv'
  BY SetPortStateContent
<1>3. /\ Content(map_) \subseteq OpenSlots /\ e.handler \in Handlers
      /\ \A f, g \in Content(map_) : f.port = g.port => f = g
  BY CapacityFacts, ContentFacts DEF PortMapInv, OpenSlots
<1> DEFINE f == Entry(p, e.handler, s)
<1>4. f.port = p /\ f.handler = e.handler /\ f.state = s
  BY EntryFacts
<1>5. gone' = gone
  BY DEF SetPortState
<1> HIDE DEF f
<1>6. ASSUME NEW g \in Handlers
      PROVE  live_ports_'[g] = (IF g \in Natives THEN 1 ELSE 0) + Cardinality(LivePorts(map_', g)) /\ live_ports_'[g] \in Int
  <2>1. live_ports_[g] = (IF g \in Natives THEN 1 ELSE 0) + Cardinality(LivePorts(map_, g))
        /\ live_ports_ \in [Handlers -> Int]
    BY DEF PortMapInv, HandlersInv
  <2>2. IsFiniteSet(LivePorts(map_, g)) /\ Cardinality(LivePorts(map_, g)) \in Nat
    BY LivePortsFinite
  <2>3. CASE s = "live" /\ g = e.handler
    <3>1. LivePorts(map_', g) = LivePorts(map_, g) \cup {f}
      BY <1>1, <1>4, <2>3 DEF LivePorts, f
    <3>2. f \notin LivePorts(map_, g)
      BY <1>1, <1>3, <1>4, <2>3 DEF LivePorts
    <3>3. Cardinality(LivePorts(map_', g)) = Cardinality(LivePorts(map_, g)) + 1
      BY <2>2, <3>1, <3>2, FS_AddElement
    <3>4. live_ports_'[g] = live_ports_[g] + 1
      BY <1>1, <2>1, <2>3
    <3> QED
      BY <2>1, <2>2, <3>3, <3>4
  <2>4. CASE ~(s = "live" /\ g = e.handler)
    <3>1. LivePorts(map_', g) = LivePorts(map_, g)
      BY <1>1, <1>4, <2>4 DEF LivePorts, f
    <3>2. live_ports_'[g] = live_ports_[g]
      BY <1>1, <2>1, <2>4
    <3> QED
      BY <2>1, <3>1, <3>2
  <2> QED
    BY <2>3, <2>4
<1>7. live_ports_' \in [Handlers -> Int]
  <2>1. live_ports_ \in [Handlers -> Int] /\ live_ports_[e.handler] + 1 \in Int
    BY <1>3 DEF PortMapInv, HandlersInv
  <2> QED
    BY <1>1, <2>1
<1>8. /\ \A g \in Content(map_') : g.handler \notin gone
      /\ \A x, y \in Content(map_') : x.handler = y.handler /\ x.handler \in Natives => x = y
  BY <1>1, <1>4 DEF PortMapInv, HandlersInv, f
<1>9. HandlersInv'
  BY <1>5, <1>6, <1>7, <1>8 DEF PortMapInv, HandlersInv
<1> QED
  BY <1>2, <1>9 DEF PortMapInv

\* ClosePort() keeps the invariant, whether it deletes a native handler or not.
LEMMA ClosePortStep ==
  ASSUME PortMapInv, NEW p \in Ports, ClosePort(p)
  PROVE  PortMapInv'
<1>1. PICK e \in Content(map_) :
        /\ e.port = p /\ Content(map_') = Content(map_) \ {e}
        /\ live_ports_' = [live_ports_ EXCEPT ![e.handler] =
                             IF e.state = "live" THEN live_ports_[e.handler] - 1 ELSE live_ports_[e.handler]]
        /\ gone' = gone \/ (gone' = gone \cup {e.handler} /\ e.handler \in Natives)
  BY ClosePortContent
<1>2. Table(map_, capacity_)' /\ SpaceInv'
  BY ClosePortContent
<1>3. Content(map_) \subseteq OpenSlots /\ e.handler \in Handlers
  BY CapacityFacts, ContentFacts DEF PortMapInv, OpenSlots
<1>4. ASSUME NEW g \in Handlers
      PROVE  live_ports_'[g] = (IF g \in Natives THEN 1 ELSE 0) + Cardinality(LivePorts(map_', g)) /\ live_ports_'[g] \in Int
  <2>1. live_ports_[g] = (IF g \in Natives THEN 1 ELSE 0) + Cardinality(LivePorts(map_, g))
        /\ live_ports_ \in [Handlers -> Int]
    BY DEF PortMapInv, HandlersInv
  <2>2. IsFiniteSet(LivePorts(map_, g)) /\ Cardinality(LivePorts(map_, g)) \in Nat
    BY LivePortsFinite
  <2>3. CASE e.state = "live" /\ g = e.handler
    <3>1. LivePorts(map_', g) = LivePorts(map_, g) \ {e} /\ e \in LivePorts(map_, g)
      BY <1>1, <2>3 DEF LivePorts
    <3>2. Cardinality(LivePorts(map_', g)) = Cardinality(LivePorts(map_, g)) - 1
      BY <2>2, <3>1, FS_RemoveElement
    <3>3. live_ports_'[g] = live_ports_[g] - 1
      BY <1>1, <2>1, <2>3
    <3> QED
      BY <2>1, <2>2, <3>2, <3>3
  <2>4. CASE ~(e.state = "live" /\ g = e.handler)
    <3>1. LivePorts(map_', g) = LivePorts(map_, g)
      BY <1>1, <2>4 DEF LivePorts
    <3>2. live_ports_'[g] = live_ports_[g]
      BY <1>1, <2>1, <2>4
    <3> QED
      BY <2>1, <3>1, <3>2
  <2> QED
    BY <2>3, <2>4
<1>5. live_ports_' \in [Handlers -> Int]
  BY <1>1, <1>3 DEF PortMapInv, HandlersInv
<1>6. /\ \A g \in Content(map_') : g.handler \notin gone'
      /\ \A x, y \in Content(map_') : x.handler = y.handler /\ x.handler \in Natives => x = y
  BY <1>1 DEF PortMapInv, HandlersInv
<1>7. gone' \in SUBSET Handlers
  BY <1>1, <1>3 DEF PortMapInv, HandlersInv
<1>8. HandlersInv'
  BY <1>4, <1>5, <1>6, <1>7 DEF HandlersInv
<1> QED
  BY <1>2, <1>8 DEF PortMapInv

\* ClosePorts() keeps the invariant.
LEMMA ClosePortsStep ==
  ASSUME PortMapInv, NEW h \in Handlers, ClosePorts(h)
  PROVE  PortMapInv'
<1>1. /\ Table(map_, capacity_)' /\ SpaceInv'
      /\ Content(map_') = {e \in Content(map_) : e.handler # h}
      /\ live_ports_' = [live_ports_ EXCEPT ![h] = @ - Cardinality(LivePorts(map_, h))]
  BY ClosePortsContent
<1>2. gone' = gone \cup {h} /\ h \notin Natives
  BY DEF ClosePorts
<1>3. ASSUME NEW g \in Handlers
      PROVE  live_ports_'[g] = (IF g \in Natives THEN 1 ELSE 0) + Cardinality(LivePorts(map_', g)) /\ live_ports_'[g] \in Int
  <2>1. live_ports_[g] = (IF g \in Natives THEN 1 ELSE 0) + Cardinality(LivePorts(map_, g))
        /\ live_ports_ \in [Handlers -> Int]
    BY DEF PortMapInv, HandlersInv
  <2>2. Cardinality(LivePorts(map_, g)) \in Nat
    BY LivePortsFinite
  <2>3. CASE g = h
    <3>1. LivePorts(map_', g) = {}
      BY <1>1, <2>3 DEF LivePorts
    <3>2. Cardinality(LivePorts(map_', g)) = 0
      BY <3>1, FS_EmptySet
    <3>3. live_ports_'[g] = live_ports_[g] - Cardinality(LivePorts(map_, g))
      BY <1>1, <2>1, <2>3
    <3> QED
      BY <1>2, <2>1, <2>2, <2>3, <3>2, <3>3
  <2>4. CASE g # h
    <3>1. LivePorts(map_', g) = LivePorts(map_, g)
      BY <1>1, <2>4 DEF LivePorts
    <3>2. live_ports_'[g] = live_ports_[g]
      BY <1>1, <2>1, <2>4
    <3> QED
      BY <2>1, <3>1, <3>2
  <2> QED
    BY <2>3, <2>4
<1>4. live_ports_' \in [Handlers -> Int]
  BY <1>1, <1>3 DEF PortMapInv, HandlersInv
<1>5. /\ \A g \in Content(map_') : g.handler \notin gone'
      /\ \A x, y \in Content(map_') : x.handler = y.handler /\ x.handler \in Natives => x = y
  BY <1>1, <1>2 DEF PortMapInv, HandlersInv
<1>6. gone' \in SUBSET Handlers
  BY <1>2 DEF PortMapInv, HandlersInv
<1>7. HandlersInv'
  BY <1>3, <1>4, <1>5, <1>6 DEF HandlersInv
<1> QED
  BY <1>1, <1>7 DEF PortMapInv

\* The invariant holds in the table that InitOnce() allocates, which is empty.
LEMMA InitInv ==
  ASSUME Init
  PROVE  PortMapInv /\ Content(map_) = {}
<1>1. /\ InitialCapacity \in Nat /\ InitialCapacity >= 4
      /\ InitialCapacity = 4 * (InitialCapacity \div 4) /\ InitialCapacity \div 4 \in Nat \ {0}
  BY PortMapAssumption
<1>2. FreeSlot.port = 0 /\ FreeSlot.handler = NULL /\ FreeSlot \in AnySlot /\ NULL # Deleted
  BY EntryFacts, PortMapAssumption DEF FreeSlot, AnySlot
<1>3. map_ = [i \in 0 .. InitialCapacity - 1 |-> FreeSlot] /\ capacity_ = InitialCapacity
  BY DEF Init
<1>4. Table(map_, capacity_)
  BY <1>2, <1>3 DEF Table
<1>5. Content(map_) = {} /\ Markers(map_) = {}
  BY <1>2, <1>3 DEF Content, Markers
<1>6. used_ = 0 /\ deleted_ = 0 /\ Cardinality({}) = 0
  BY FS_EmptySet DEF Init
<1>7. SpaceInv
  <2>1. PICK c \in Nat \ {0} : capacity_ = 4 * c /\ capacity_ \div 4 = c
    BY <1>1, <1>3
  <2>2. 0 <= (capacity_ \div 4) * 3 /\ 0 <= capacity_ - 0 - 0
    BY <2>1
  <2> QED
    BY <1>5, <1>6, <2>1, <2>2 DEF SpaceInv
<1>8. \A h \in Handlers : LivePorts(map_, h) = {}
  BY <1>5 DEF LivePorts
<1>9. HandlersInv
  <2>1. live_ports_ = [h \in Handlers |-> IF h \in Natives THEN 1 ELSE 0] /\ gone = {}
    BY DEF Init
  <2>2. \A h \in Handlers : live_ports_[h] = (IF h \in Natives THEN 1 ELSE 0) + Cardinality(LivePorts(map_, h))
    BY <1>6, <1>8, <2>1
  <2> QED
    BY <1>5, <2>1, <2>2 DEF HandlersInv
<1> QED
  BY <1>4, <1>5, <1>7, <1>9 DEF PortMapInv

-----------------------------------------------------------------------------
(* The theorems                                                             *)

\* A step that changes nothing keeps the invariant.
LEMMA StutterKeeps ==
  ASSUME PortMapInv, UNCHANGED vars
  PROVE  PortMapInv'
BY DEF vars, PortMapInv, Table, SpaceInv, HandlersInv

\* Every step keeps the invariant.
LEMMA NextKeeps ==
  ASSUME PortMapInv, [Next]_vars
  PROVE  PortMapInv'
<1>1. CASE \E h \in Handlers, p \in Ports : CreatePort(h, p)
  BY <1>1, CreatePortStep
<1>2. CASE \E p \in Ports : SetPortState(p, "live") \/ SetPortState(p, "control")
  BY <1>2, SetPortStateStep
<1>3. CASE \E p \in Ports : ClosePort(p)
  BY <1>3, ClosePortStep
<1>4. CASE \E h \in Handlers : ClosePorts(h)
  BY <1>4, ClosePortsStep
<1>5. CASE UNCHANGED vars
  BY <1>5, StutterKeeps
<1> QED
  BY <1>1, <1>2, <1>3, <1>4, <1>5 DEF Next

\* Every operation leaves a table in which each port can be found and there is room.
THEOREM PortMapInvHolds == Spec => []PortMapInv
<1>1. Init => PortMapInv
  BY InitInv
<1>2. PortMapInv /\ [Next]_vars => PortMapInv'
  BY NextKeeps
<1> QED
  BY <1>1, <1>2, PTL DEF Spec

\* "Prevent endless loops" of FindPort(): in every table that the operations can leave
\* there is a free slot, and used_ and deleted_ are exact.
THEOREM ProbesEndHolds == Spec => []ProbesEnd
<1>1. PortMapInv => ProbesEnd
  BY FreeExists DEF ProbesEnd, PortMapInv, SpaceInv, Markers
<1> QED
  BY <1>1, PortMapInvHolds, PTL

\* live_ports_ is the number of the ports that keep an isolate alive, through closing,
\* rehashing and the end of handlers.
THEOREM LivePortsAreCountedHolds == Spec => []LivePortsAreCounted
<1>1. PortMapInv => LivePortsAreCounted
  <2> SUFFICES ASSUME PortMapInv, NEW h \in Handlers
               PROVE  live_ports_[h] = (IF h \in Natives THEN 1 ELSE 0)
                        + Cardinality({i \in DOMAIN map_ : map_[i].handler = h /\ map_[i].state = "live"})
    BY DEF LivePortsAreCounted
  <2> DEFINE L == {e \in OpenSlots : e.handler = h /\ e.state = "live"}
  <2>1. capacity_ \in Nat /\ Table(map_, capacity_)
    BY CapacityFacts DEF PortMapInv
  <2>2. DOMAIN map_ = 0 .. capacity_ - 1 /\ \A i \in 0 .. capacity_ - 1 : map_[i] \in AnySlot
    BY <2>1 DEF Table
  <2>3. {i \in DOMAIN map_ : map_[i].handler = h /\ map_[i].state = "live"} = {i \in DOMAIN map_ : map_[i] \in L}
    BY <2>2, SlotFacts, PortMapAssumption
  <2>4. Content(map_) \cap L = LivePorts(map_, h)
    BY <2>1, ContentFacts DEF LivePorts
  <2>5. L \in SUBSET OpenSlots
    OBVIOUS
  <2> HIDE DEF L
  <2>6. Cardinality({i \in DOMAIN map_ : map_[i] \in L}) = Cardinality(LivePorts(map_, h))
    BY <2>1, <2>4, <2>5, CountSlots
  <2> QED
    BY <2>3, <2>6 DEF PortMapInv, HandlersInv
<1> QED
  BY <1>1, PortMapInvHolds, PTL

-----------------------------------------------------------------------------
(* The directory                                                            *)

owner == [p \in Ports |-> Lookup(p).handler]
portState == [p \in Ports |-> Lookup(p).state]

\* The same of lookups after a step.
LEMMA LookupStays == PortMapInv' => LookupRight'
BY LookupIsRight, PTL

\* CreatePort() is Create() of the directory.
LEMMA CreatePortRefines ==
  ASSUME PortMapInv, PortMapInv', NEW h \in Handlers, NEW p \in Ports, CreatePort(h, p)
  PROVE  Directory!Create(p, h)
<1> DEFINE e == Entry(p, h, "new")
<1>1. Content(map_') = Content(map_) \cup {e} /\ \A f \in Content(map_) : f.port # p
  BY CreatePortContent
<1>2. e.port = p /\ e.handler = h /\ e.state = "new" /\ FreeSlot.handler = NULL /\ FreeSlot.state = "new"
  BY EntryFacts DEF FreeSlot
<1>3. LookupRight /\ LookupRight'
  BY LookupIsRight, LookupStays
<1> HIDE DEF e
<1>4. Lookup(p) = FreeSlot /\ Lookup(p)' = e
  BY <1>1, <1>2, <1>3 DEF LookupRight
<1>5. ASSUME NEW x \in Ports, x # p  PROVE Lookup(x)' = Lookup(x)
  <2>1. CASE \E f \in Content(map_) : f.port = x
    BY <1>1, <1>3, <2>1 DEF LookupRight
  <2>2. CASE \A f \in Content(map_) : f.port # x
    <3>1. \A f \in Content(map_') : f.port # x
      BY <1>1, <1>2, <1>5, <2>2
    <3> QED
      BY <1>3, <2>2, <3>1 DEF LookupRight
  <2> QED
    BY <2>1, <2>2
<1>6. owner[p] = NULL /\ owner' = [owner EXCEPT ![p] = h] /\ portState' = portState
  BY <1>2, <1>4, <1>5 DEF owner, portState
<1>7. h \notin gone /\ gone' = gone
  BY DEF CreatePort
<1> QED
  BY <1>6, <1>7 DEF Directory!Create, owner, portState

\* SetPortState() is the change of state of one port of the directory.
LEMMA SetPortStateRefines ==
  ASSUME PortMapInv, PortMapInv', NEW p \in Ports, NEW s \in {"live", "control"}, SetPortState(p, s)
  PROVE  Directory!SetState(p, s)
<1>1. PICK e \in Content(map_) :
        /\ e.port = p /\ e.state = "new"
        /\ Content(map_') = (Content(map_) \ {e}) \cup {Entry(p, e.handler, s)}
  BY SetPortStateContent
<1> DEFINE f == Entry(p, e.handler, s)
<1>2. f.port = p /\ f.handler = e.handler /\ f.state = s
  BY EntryFacts
<1>3. LookupRight /\ LookupRight'
  BY LookupIsRight, LookupStays
<1> HIDE DEF f
<1>4. Lookup(p) = e /\ Lookup(p)' = f /\ e.handler \in Handlers
  BY <1>1, <1>2, <1>3 DEF LookupRight, f
<1>5. ASSUME NEW x \in Ports, x # p  PROVE Lookup(x)' = Lookup(x)
  <2>1. CASE \E g \in Content(map_) : g.port = x
    BY <1>1, <1>3, <1>5, <2>1 DEF LookupRight
  <2>2. CASE \A g \in Content(map_) : g.port # x
    <3>1. \A g \in Content(map_') : g.port # x
      BY <1>1, <1>2, <1>5, <2>2 DEF f
    <3> QED
      BY <1>3, <2>2, <3>1 DEF LookupRight
  <2> QED
    BY <2>1, <2>2
<1>6. /\ owner[p] # NULL /\ portState[p] = "new"
      /\ owner' = owner /\ portState' = [portState EXCEPT ![p] = s]
  BY <1>1, <1>2, <1>4, <1>5, PortMapAssumption DEF owner, portState
<1>7. gone' = gone
  BY DEF SetPortState
<1> QED
  BY <1>6, <1>7 DEF Directory!SetState, owner, portState

\* Ports P of the handler h leave the table, and nothing else changes.
LEMMA Closes ==
  ASSUME PortMapInv, PortMapInv', NEW P \in SUBSET Ports, P # {}, NEW h \in Handlers,
         \A p \in P : \E e \in Content(map_) : e.port = p /\ e.handler = h,
         Content(map_') = {e \in Content(map_) : e.port \notin P},
         gone' = gone \/ gone' = gone \cup {h}
  PROVE  Directory!Close(P, h)
<1>1. LookupRight /\ LookupRight' /\ FreeSlot.handler = NULL /\ FreeSlot.state = "new"
  BY LookupIsRight, LookupStays, EntryFacts DEF FreeSlot
<1>2. ASSUME NEW p \in P  PROVE Lookup(p).handler = h /\ Lookup(p)' = FreeSlot
  BY <1>1, <1>2 DEF LookupRight
<1>3. ASSUME NEW p \in Ports, p \notin P  PROVE Lookup(p)' = Lookup(p)
  <2>1. CASE \E e \in Content(map_) : e.port = p
    BY <1>1, <1>3, <2>1 DEF LookupRight
  <2>2. CASE \A e \in Content(map_) : e.port # p
    BY <1>1, <2>2 DEF LookupRight
  <2> QED
    BY <2>1, <2>2
<1>4. \A p \in P : owner[p] = h
  BY <1>2 DEF owner
<1>5. owner' = [p \in Ports |-> IF p \in P THEN NULL ELSE owner[p]]
  BY <1>1, <1>2, <1>3 DEF owner
<1>6. portState' = [p \in Ports |-> IF p \in P THEN "new" ELSE portState[p]]
  BY <1>1, <1>2, <1>3 DEF portState
<1>7. \A p \in Ports : owner'[p] \notin gone'
  <2>1. gone' \subseteq Handlers /\ \A e \in Content(map_') : e.handler \notin gone'
    BY DEF PortMapInv, HandlersInv
  <2>2. NULL \notin gone'
    BY <2>1, PortMapAssumption
  <2>3. \A p \in Ports : Lookup(p)' = FreeSlot \/ Lookup(p)' \in Content(map_')
    BY <1>1 DEF LookupRight
  <2> QED
    BY <1>1, <2>1, <2>2, <2>3 DEF owner
<1>8. gone' \in {gone, gone \cup {h}}
  OBVIOUS
<1> QED
  BY <1>4, <1>5, <1>6, <1>7, <1>8 DEF Directory!Close, owner, portState

\* ClosePort() takes one port off the directory.
LEMMA ClosePortRefines ==
  ASSUME PortMapInv, PortMapInv', NEW p \in Ports, ClosePort(p)
  PROVE  owner[p] # NULL /\ Directory!Close({p}, owner[p])
<1>1. PICK e \in Content(map_) :
        /\ e.port = p /\ Content(map_') = Content(map_) \ {e}
        /\ gone' = gone \/ gone' = gone \cup {e.handler}
  BY ClosePortContent
<1>2. LookupRight
  BY LookupIsRight
<1>3. Lookup(p) = e /\ e.handler \in Handlers /\ owner[p] = e.handler
  BY <1>1, <1>2 DEF LookupRight, owner
<1>4. Content(map_') = {f \in Content(map_) : f.port \notin {p}}
  BY <1>1, <1>2 DEF LookupRight
<1>5. Directory!Close({p}, e.handler)
  BY <1>1, <1>3, <1>4, Closes
<1> QED
  BY <1>3, <1>5, PortMapAssumption

\* ClosePorts() takes all ports of the handler off the directory.
LEMMA ClosePortsRefines ==
  ASSUME PortMapInv, PortMapInv', NEW h \in Handlers, ClosePorts(h)
  PROVE  Directory!Close({p \in Ports : owner[p] = h}, h)
<1> DEFINE P == {p \in Ports : owner[p] = h}
<1>1. Content(map_') = {e \in Content(map_) : e.handler # h} /\ \E e \in Content(map_) : e.handler = h
  BY ClosePortsContent
<1>2. LookupRight /\ FreeSlot.handler = NULL /\ h # NULL
  BY LookupIsRight, EntryFacts, PortMapAssumption DEF FreeSlot
<1>3. \A e \in Content(map_) : e.port \in P <=> e.handler = h
  BY <1>2 DEF LookupRight, owner
<1>4. \A p \in P : \E e \in Content(map_) : e.port = p /\ e.handler = h
  BY <1>2 DEF LookupRight, owner
<1>5. P # {} /\ P \in SUBSET Ports
  BY <1>1, <1>3
<1> HIDE DEF P
<1>6. Content(map_') = {e \in Content(map_) : e.port \notin P}
  BY <1>1, <1>3
<1>7. gone' = gone \cup {h}
  BY DEF ClosePorts
<1>8. Directory!Close(P, h)
  BY <1>4, <1>5, <1>6, <1>7, Closes
<1> QED
  BY <1>8 DEF P

\* Lookups in the table behave as those of a directory: open ports are found wherever
\* collisions, closed neighbours and rehashing have put them, and closed ones are not.
THEOREM ImplementsPortDirectoryHolds == Spec => ImplementsPortDirectory
<1>1. Init => Directory!Init
  <2> SUFFICES ASSUME Init PROVE Directory!Init
    OBVIOUS
  <2>1. PortMapInv /\ Content(map_) = {}
    BY InitInv
  <2>2. LookupRight
    BY <2>1, LookupIsRight
  <2>3. FreeSlot.handler = NULL /\ FreeSlot.state = "new"
    BY EntryFacts DEF FreeSlot
  <2>4. gone = {}
    BY DEF Init
  <2>5. \A p \in Ports : Lookup(p) = FreeSlot
    BY <2>1, <2>2 DEF LookupRight
  <2> QED
    BY <2>3, <2>4, <2>5 DEF Directory!Init
<1>2. PortMapInv /\ PortMapInv' /\ [Next]_vars => [Directory!Next]_(Directory!vars)
  <2> SUFFICES ASSUME PortMapInv, PortMapInv', [Next]_vars PROVE [Directory!Next]_(Directory!vars)
    OBVIOUS
  <2>1. ASSUME NEW h \in Handlers, NEW p \in Ports, CreatePort(h, p)  PROVE Directory!Next
    BY <2>1, CreatePortRefines DEF Directory!Next
  <2>2. ASSUME NEW p \in Ports, NEW s \in {"live", "control"}, SetPortState(p, s)  PROVE Directory!Next
    BY <2>2, SetPortStateRefines DEF Directory!Next
  <2>3. ASSUME NEW p \in Ports, ClosePort(p)  PROVE Directory!Next
    BY <2>3, ClosePortRefines DEF Directory!Next, owner
  <2>4. ASSUME NEW h \in Handlers, ClosePorts(h)  PROVE Directory!Next
    BY <2>4, ClosePortsRefines DEF Directory!Next, owner
  <2>5. CASE UNCHANGED vars
    BY <2>5 DEF vars, Directory!vars, Lookup, FindPort
  <2> QED
    BY <2>1, <2>2, <2>3, <2>4, <2>5 DEF Next
<1> QED
  BY <1>1, <1>2, PortMapInvHolds, PTL DEF Spec, ImplementsPortDirectory, Directory!Spec
=============================================================================
