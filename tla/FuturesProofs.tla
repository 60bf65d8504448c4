---------------------------- MODULE FuturesProofs ----------------------------
(***************************************************************************)
(* Proofs about futures: for any completers and any number of futures,      *)
(* whatever callbacks do in the middle of a propagation, each future is     *)
(* completed once, by whoever is in charge of it, and its listeners are     *)
(* called in the order in which they subscribed.                            *)
(***************************************************************************)
EXTENDS Futures, FiniteSetTheorems, SequenceTheorems, TLAPS

-----------------------------------------------------------------------------
(* The invariant                                                           *)

AllKinds == {"then", "thenOnError", "catchError", "catchErrorTest", "whenComplete", "timeout",
             "chain", "resume", "onTimeout"}
CallbackKinds == {"then", "thenOnError", "catchError", "catchErrorTest", "whenComplete"}
States == {"INCOMPLETE", "PENDING_COMPLETE", "CHAINED", "VALUE", "ERROR"}

\* Listeners, calls and microtasks when there are n futures and those of C are complete:
\* nothing is propagated from a future that is not.  Only a call of onTimeout() has no source.
ListenerOf(n, C) ==
  {l \in [kind : AllKinds, result : 1..n, origin : 0..n] : l.kind = "resume" => l.origin \in C}

CallOf(n, C) ==
  {c \in [source : C \cup {0}, listeners : Seq(ListenerOf(n, C)), user : BOOLEAN] :
     \/ c.source \in C /\ (c.user => Len(c.listeners) = 1 /\ c.listeners[1].kind \in CallbackKinds)
     \/ c.source = 0 /\ c.user /\ Len(c.listeners) = 1 /\ c.listeners[1].kind = "onTimeout"}

MicrotaskOf(n, C) ==
  [op : {"complete"}, future : 1..n, with : Outcome]
    \cup [op : {"chain"}, future : 1..n, with : C]
    \cup [op : {"propagate"}, future : C, with : ListenerOf(n, C)]
    \cup {Rethrow}

\* Of two listeners, both of the program, the first subscribed before the second.
Earlier(l, m) == IsUser(l) /\ IsUser(m) => l.result < m.result
AllEarlier(s, t) == \A i \in DOMAIN s, j \in DOMAIN t : Earlier(s[i], t[j])

\* The newest listener of a future is first.
ListsInOrder(ls) ==
  \A f \in DOMAIN ls : \A i, j \in DOMAIN ls[f] : i < j => Earlier(ls[f][j], ls[f][i])

IsPropagation(m) == m.op = "propagate"

\* The listeners of a future that is complete are called from the innermost call outwards,
\* then from the microtasks; each subscribed before those that come after it.
LineInOrder(st, q) ==
  /\ \A k \in DOMAIN st : \A i, j \in DOMAIN st[k].listeners :
       i < j => Earlier(st[k].listeners[i], st[k].listeners[j])
  /\ \A j, k \in DOMAIN st :
       j < k /\ st[j].source = st[k].source => AllEarlier(st[k].listeners, st[j].listeners)
  /\ \A k \in DOMAIN st, i \in DOMAIN q :
       IsPropagation(q[i]) /\ q[i].future = st[k].source => AllEarlier(st[k].listeners, <<q[i].with>>)
  /\ \A i, j \in DOMAIN q :
       i < j /\ IsPropagation(q[i]) /\ IsPropagation(q[j]) /\ q[i].future = q[j].future =>
         Earlier(q[i].with, q[j].with)

\* The data of an isolate with n futures of which those of C are complete.
Data(n, C, ls, st, q) ==
  /\ ls \in Seq(Seq(ListenerOf(n, C))) /\ Len(ls) = n
  /\ st \in Seq(CallOf(n, C))
  /\ q \in Seq(MicrotaskOf(n, C))
  /\ ListsInOrder(ls) /\ LineInOrder(st, q)

TypeInv ==
  /\ state \in Seq(States) /\ Len(state) >= Cardinality(Completers) /\ Len(state) <= MaxFutures
  /\ result \in Seq(Outcome \cup {0}) /\ Len(result) = Len(state)
  /\ priority \in 0..Len(queue)
  /\ timers \subseteq Futures
  /\ phase \in {"event", "loop", "stalled", "dead"}

-----------------------------------------------------------------------------
(* Counting                                                                *)

\* Where those are in one list, and their number.
Hits(s, f) == {i \in DOMAIN s : InCharge(s[i], f)}
Count(s, f) == Cardinality(Hits(s, f))

\* Two finite sets whose elements match have the same size.
LEMMA Matched ==
  ASSUME NEW A, NEW B, IsFiniteSet(A), NEW g \in [A -> B],
         \A x, y \in A : g[x] = g[y] => x = y,
         \A b \in B : \E x \in A : g[x] = b
  PROVE  IsFiniteSet(B) /\ Cardinality(B) = Cardinality(A)
<1>1. g \in Bijection(A, B)
  BY DEF Bijection, Injection, Surjection, IsInjective
<1>2. ExistsBijection(A, B)
  BY <1>1 DEF ExistsBijection
<1> QED
  BY <1>2, FS_Bijection

\* What Places() holds.
LEMMA PlacesAre ==
  ASSUME NEW lists, NEW f
  PROVE  /\ \A p \in Places(lists, f) :
              /\ p = <<p[1], p[2]>> /\ p[1] \in DOMAIN lists /\ p[2] \in DOMAIN lists[p[1]]
              /\ InCharge(lists[p[1]][p[2]], f)
         /\ \A i \in DOMAIN lists : \A j \in DOMAIN lists[i] :
              InCharge(lists[i][j], f) => <<i, j>> \in Places(lists, f)
BY DEF Places

\* The places can be counted.
LEMMA HitsFinite ==
  ASSUME NEW S, NEW s \in Seq(S), NEW f
  PROVE  IsFiniteSet(Hits(s, f)) /\ Count(s, f) \in Nat
<1>1. IsFiniteSet(1..Len(s))
  BY FS_Interval
<1>2. Hits(s, f) \in SUBSET (1..Len(s))
  BY DEF Hits
<1>3. IsFiniteSet(Hits(s, f))
  BY <1>1, <1>2, FS_Subset
<1> QED
  BY <1>3, FS_CardinalityType DEF Count

\* So can those of a sequence of lists.
LEMMA PlacesFinite ==
  ASSUME NEW S, NEW lists \in Seq(Seq(S)), NEW f
  PROVE  IsFiniteSet(Places(lists, f)) /\ Cardinality(Places(lists, f)) \in Nat
<1> DEFINE D == DOMAIN lists
           row == [i \in D |-> {i} \X DOMAIN lists[i]]
           rows == {row[i] : i \in D}
<1>1. D = 1..Len(lists) /\ IsFiniteSet(D)
  BY FS_Interval
<1>2. IsFiniteSet(rows)
  <2>1. row \in Surjection(D, rows)
    BY DEF Surjection
  <2> QED
    BY <1>1, <2>1, FS_Surjection
<1>3. ASSUME NEW r \in rows  PROVE IsFiniteSet(r)
  <2>1. PICK i \in D : r = {i} \X DOMAIN lists[i]
    BY <1>3
  <2>2. lists[i] \in Seq(S) /\ DOMAIN lists[i] = 1..Len(lists[i]) /\ Len(lists[i]) \in Nat
    BY <1>1
  <2>3. IsFiniteSet({i}) /\ IsFiniteSet(1..Len(lists[i]))
    <3>1. IsFiniteSet({i})
      BY FS_Singleton
    <3>2. \A n \in Nat : IsFiniteSet(1..n)
      BY FS_Interval
    <3> QED
      BY <2>2, <3>1, <3>2
  <2> QED
    BY <2>1, <2>2, <2>3, FS_Product
<1>4. IsFiniteSet(UNION rows)
  BY <1>2, <1>3, FS_UNION
<1>5. Places(lists, f) \in SUBSET UNION rows
  BY DEF Places
<1> QED
  BY <1>4, <1>5, FS_Subset, FS_CardinalityType

\* tt has one entry more than ss, behind the first k.
Inserted(ss, tt, k) ==
  /\ k \in 0..Len(ss) /\ Len(tt) = Len(ss) + 1
  /\ \A i \in 1..k : tt[i] = ss[i]
  /\ \A i \in k + 1..Len(ss) : tt[i + 1] = ss[i]

\* The listeners of a list that is inserted come to the others.
LEMMA ListInserted ==
  ASSUME NEW S, NEW ss \in Seq(Seq(S)), NEW tt \in Seq(Seq(S)), NEW f,
         NEW k \in Nat, Inserted(ss, tt, k)
  PROVE  Cardinality(Places(tt, f)) = Cardinality(Places(ss, f)) + Count(tt[k + 1], f)
<1> DEFINE P == Places(tt, f)
           A == {p \in P : p[1] # k + 1}
           B == {p \in P : p[1] = k + 1}
           H == Hits(tt[k + 1], f)
<1>0. /\ DOMAIN tt = 1..Len(ss) + 1 /\ DOMAIN ss = 1..Len(ss) /\ Len(ss) \in Nat /\ k \in Nat /\ k <= Len(ss)
      /\ \A i \in 1..k : tt[i] = ss[i]
      /\ \A i \in k + 1..Len(ss) : tt[i + 1] = ss[i]
  BY DEF Inserted
<1>1. IsFiniteSet(P) /\ IsFiniteSet(A) /\ IsFiniteSet(B)
  BY PlacesFinite, FS_Subset
<1>2. P = A \cup B /\ A \cap B = {}
  OBVIOUS
<1>3. Cardinality(P) = Cardinality(A) + Cardinality(B)
  <2>1. Cardinality(A) \in Nat /\ Cardinality(B) \in Nat /\ Cardinality({}) = 0
    BY <1>1, FS_CardinalityType, FS_EmptySet
  <2>2. Cardinality(A \cup B) = Cardinality(A) + Cardinality(B) - Cardinality(A \cap B)
    BY <1>1, FS_Union
  <2> HIDE DEF A, B, P
  <2>3. Cardinality(A \cap B) = 0 /\ Cardinality(P) = Cardinality(A \cup B)
    BY <1>2, <2>1, Zenon
  <2> QED
    BY <2>1, <2>2, <2>3
<1> HIDE DEF P
<1>4. Cardinality(H) = Cardinality(B)
  <2> DEFINE g == [p \in B |-> p[2]]
  <2>1. k + 1 \in DOMAIN tt
    BY <1>0
  <2>2. \A p \in B : p = <<k + 1, p[2]>> /\ p[2] \in H
    BY PlacesAre DEF Hits, P
  <2>3. \A j \in H : <<k + 1, j>> \in B
    BY <2>1, PlacesAre DEF Hits, P
  <2>4. \A j \in H : \E p \in B : p[2] = j
    BY <2>3
  <2> HIDE DEF B, H
  <2>5. g \in [B -> H] /\ (\A x, y \in B : g[x] = g[y] => x = y) /\ (\A j \in H : \E p \in B : g[p] = j)
    BY <2>2, <2>4
  <2> HIDE DEF g
  <2> QED
    BY <1>1, <2>5, Matched
<1>5. Cardinality(Places(ss, f)) = Cardinality(A)
  <2> DEFINE Q == Places(ss, f)
             to(a) == IF a <= k THEN a ELSE a - 1
             g == [p \in A |-> <<to(p[1]), p[2]>>]
  <2>0. \A a \in 1..Len(ss) + 1 : a # k + 1 => to(a) \in 1..Len(ss) /\ ss[to(a)] = tt[a]
    <3> SUFFICES ASSUME NEW a \in 1..Len(ss) + 1, a # k + 1  PROVE to(a) \in 1..Len(ss) /\ ss[to(a)] = tt[a]
      OBVIOUS
    <3>1. CASE a <= k
      BY <1>0, <3>1
    <3>2. CASE a > k
      <4>1. a - 1 \in k + 1..Len(ss) /\ (a - 1) + 1 = a /\ to(a) = a - 1 /\ a - 1 \in 1..Len(ss)
        BY <1>0, <3>2
      <4>2. tt[(a - 1) + 1] = ss[a - 1]
        BY <1>0, <4>1
      <4> HIDE DEF to
      <4> QED
        BY <4>1, <4>2
    <3> QED
      BY <1>0, <3>1, <3>2
  <2>a. \A a, c \in 1..Len(ss) + 1 : a # k + 1 /\ c # k + 1 /\ to(a) = to(c) => a = c
    BY <1>0
  <2>1. ASSUME NEW p \in A
        PROVE  \E a, b : a \in 1..Len(ss) + 1 /\ p = <<a, b>> /\ a # k + 1 /\ g[p] = <<to(a), b>> /\ g[p] \in Q
    <3>1. /\ p = <<p[1], p[2]>> /\ p[1] \in DOMAIN tt /\ p[2] \in DOMAIN tt[p[1]]
          /\ InCharge(tt[p[1]][p[2]], f) /\ p[1] # k + 1
      BY PlacesAre DEF P
    <3>2. PICK a, b : a \in 1..Len(ss) + 1 /\ a = p[1] /\ b = p[2]
      BY <1>0, <3>1
    <3>3. to(a) \in DOMAIN ss /\ ss[to(a)] = tt[a]
      BY <1>0, <2>0, <3>1, <3>2
    <3>4. <<to(a), b>> \in Q
      BY <3>1, <3>2, <3>3, PlacesAre
    <3>5. p = <<a, b>> /\ a # k + 1 /\ g[p] = <<to(a), b>>
      BY <3>1, <3>2
    <3> QED
      BY <3>2, <3>4, <3>5
  <2>2. ASSUME NEW x \in A, NEW y \in A, g[x] = g[y]  PROVE x = y
    <3>1. PICK a, b : a \in 1..Len(ss) + 1 /\ x = <<a, b>> /\ a # k + 1 /\ g[x] = <<to(a), b>>
      BY <2>1
    <3>2. PICK c, d : c \in 1..Len(ss) + 1 /\ y = <<c, d>> /\ c # k + 1 /\ g[y] = <<to(c), d>>
      BY <2>1
    <3>3. to(a) = to(c) /\ b = d
      BY <2>2, <3>1, <3>2
    <3>4. a = c
      BY <2>a, <3>1, <3>2, <3>3
    <3> QED
      BY <3>1, <3>2, <3>3, <3>4
  <2>3. ASSUME NEW q \in Q  PROVE \E p \in A : g[p] = q
    <3>1. /\ q = <<q[1], q[2]>> /\ q[1] \in DOMAIN ss /\ q[2] \in DOMAIN ss[q[1]]
          /\ InCharge(ss[q[1]][q[2]], f)
      BY PlacesAre
    <3>2. PICK a, b : a \in 1..Len(ss) /\ a = q[1] /\ b = q[2]
      BY <1>0, <3>1
    <3>3. PICK c \in 1..Len(ss) + 1 : c # k + 1 /\ to(c) = a
      <4>1. a <= k => a \in 1..Len(ss) + 1 /\ a # k + 1 /\ to(a) = a
        BY <1>0, <3>2
      <4>2. ~(a <= k) => a + 1 \in 1..Len(ss) + 1 /\ a + 1 # k + 1 /\ to(a + 1) = a
        <5>1. a \in Nat /\ a >= 1 /\ a <= Len(ss)
          BY <1>0, <3>2
        <5> QED
          BY <1>0, <5>1
      <4> QED
        BY <4>1, <4>2
    <3>4. tt[c] = ss[a] /\ c \in DOMAIN tt
      BY <1>0, <2>0, <3>3
    <3>5. <<c, b>> \in P
      BY <3>1, <3>2, <3>4, PlacesAre DEF P
    <3>6. <<c, b>> \in A /\ g[<<c, b>>] = q
      BY <3>1, <3>2, <3>3, <3>5
    <3> QED
      BY <3>6
  <2>4. g \in [A -> Q]
    BY <2>1
  <2> HIDE DEF g, A, Q
  <2>5. Cardinality(Q) = Cardinality(A)
    BY <1>1, <2>2, <2>3, <2>4, Matched
  <2> QED
    BY <2>5 DEF Q
<1>6. Cardinality(A) \in Nat /\ Cardinality(B) \in Nat
  BY <1>1, FS_CardinalityType
<1> HIDE DEF A, B, H
<1>7. Cardinality(P) = Cardinality(Places(ss, f)) + Cardinality(H)
  BY <1>3, <1>4, <1>5, <1>6
<1> QED
  BY <1>7 DEF P, H, Count

\* tt differs from ss in entry k only.
Replaced(ss, tt, k) ==
  k \in 1..Len(ss) /\ Len(tt) = Len(ss) /\ \A i \in 1..Len(ss) : i # k => tt[i] = ss[i]

\* Another list in the place of one.
LEMMA ListReplaced ==
  ASSUME NEW S, NEW ss \in Seq(Seq(S)), NEW tt \in Seq(Seq(S)), NEW f,
         NEW k \in Nat, Replaced(ss, tt, k)
  PROVE  Cardinality(Places(tt, f)) + Count(ss[k], f) = Cardinality(Places(ss, f)) + Count(tt[k], f)
<1> DEFINE n == Len(ss) - 1
           uu == [i \in 1..n |-> IF i < k THEN ss[i] ELSE ss[i + 1]]
<1> USE DEF Replaced
<1>0. n \in Nat /\ Len(ss) = n + 1 /\ k - 1 \in 0..n /\ (k - 1) + 1 = k /\ k \in 1..n + 1
  OBVIOUS
<1>1. \A i \in 1..n + 1 : ss[i] \in Seq(S) /\ tt[i] \in Seq(S)
  BY <1>0
<1>2. uu \in Seq(Seq(S)) /\ Len(uu) = n
  <2>1. ASSUME NEW i \in 1..n  PROVE (IF i < k THEN ss[i] ELSE ss[i + 1]) \in Seq(S)
    <3>1. i \in 1..n + 1 /\ i + 1 \in 1..n + 1
      BY <1>0
    <3> QED
      BY <1>1, <3>1, Zenon
  <2>2. uu \in [1..n -> Seq(S)]
    BY <2>1, Zenon
  <2> HIDE DEF uu, n
  <2> QED
    BY <1>0, <2>2
<1>3. \A i \in 1..k - 1 : ss[i] = uu[i] /\ tt[i] = uu[i]
  BY <1>0
<1>4. \A i \in k..n : ss[i + 1] = uu[i] /\ tt[i + 1] = uu[i]
  BY <1>0
<1> HIDE DEF uu, n
<1>a. PICK m \in 0..Len(uu) : m = k - 1 /\ m + 1 = k
  BY <1>0, <1>2
<1>b. Inserted(uu, ss, m) /\ Inserted(uu, tt, m)
  BY <1>0, <1>2, <1>3, <1>4, <1>a DEF Inserted
<1>5. ASSUME NEW vv \in Seq(Seq(S)), Inserted(uu, vv, m)
      PROVE  Cardinality(Places(vv, f)) = Cardinality(Places(uu, f)) + Count(vv[m + 1], f)
  BY ONLY m \in Nat, vv \in Seq(Seq(S)), <1>2, <1>5, ListInserted
<1>6. /\ Cardinality(Places(ss, f)) = Cardinality(Places(uu, f)) + Count(ss[m + 1], f)
      /\ Cardinality(Places(tt, f)) = Cardinality(Places(uu, f)) + Count(tt[m + 1], f)
  BY <1>b, <1>5, Zenon
<1>7. /\ Cardinality(Places(uu, f)) \in Nat /\ Cardinality(Places(ss, f)) \in Nat
      /\ Cardinality(Places(tt, f)) \in Nat
  BY <1>2, PlacesFinite
<1>8. Count(ss[k], f) \in Nat /\ Count(tt[k], f) \in Nat
  BY <1>0, <1>1, HitsFinite
<1> QED
  BY <1>a, <1>6, <1>7, <1>8

\* Is this one?
One(l, f) == IF InCharge(l, f) THEN 1 ELSE 0

\* A list with one listener more at its front.
LEMMA CountCons ==
  ASSUME NEW S, NEW s \in Seq(S), NEW t \in Seq(S), NEW f,
         Inserted(s, t, 0)
  PROVE  Count(t, f) = Count(s, f) + One(t[1], f)
<1> DEFINE g == [i \in Hits(s, f) |-> i + 1]
           B == Hits(t, f) \ {1}
<1>1. DOMAIN s = 1..Len(s) /\ DOMAIN t = 1..Len(s) + 1 /\ Len(s) \in Nat
        /\ \A i \in 1..Len(s) : t[i + 1] = s[i]
  BY DEF Inserted
<1>2. IsFiniteSet(Hits(s, f)) /\ IsFiniteSet(Hits(t, f))
  BY HitsFinite
<1>3. \A i \in Hits(s, f) : i \in Nat /\ i + 1 \in B
  BY <1>1 DEF Hits
<1>4. ASSUME NEW j \in B  PROVE \E i \in Hits(s, f) : i + 1 = j
  <2>1. j \in 1..Len(s) + 1 /\ j # 1 /\ InCharge(t[j], f)
    BY <1>1 DEF Hits
  <2>2. j - 1 \in 1..Len(s) /\ (j - 1) + 1 = j
    BY <1>1, <2>1
  <2>3. t[(j - 1) + 1] = s[j - 1]
    BY <1>1, <2>2
  <2>4. j - 1 \in Hits(s, f)
    BY <1>1, <2>1, <2>2, <2>3 DEF Hits
  <2> QED
    BY <2>2, <2>4
<1> HIDE DEF B
<1>5. g \in [Hits(s, f) -> B] /\ (\A x, y \in Hits(s, f) : g[x] = g[y] => x = y)
        /\ \A j \in B : \E i \in Hits(s, f) : g[i] = j
  BY <1>3, <1>4
<1> HIDE DEF g
<1>6. IsFiniteSet(B) /\ Cardinality(B) = Count(s, f)
  BY <1>2, <1>5, Matched DEF Count
<1>7. CASE InCharge(t[1], f)
  <2>1. Hits(t, f) = B \cup {1} /\ 1 \notin B
    BY <1>1, <1>7 DEF Hits, B
  <2>2. Cardinality(B \cup {1}) = Cardinality(B) + 1
    BY <1>6, <2>1, FS_AddElement
  <2> QED
    BY <1>6, <1>7, <2>1, <2>2 DEF Count, One
<1>8. CASE ~InCharge(t[1], f)
  <2>1. Hits(t, f) = B
    BY <1>1, <1>8 DEF Hits, B
  <2>2. Count(s, f) \in Nat
    BY HitsFinite
  <2> QED
    BY <1>6, <1>8, <2>1, <2>2 DEF Count, One
<1> QED
  BY <1>7, <1>8

\* Lists of no and of one listener, the rest of a list, and a list turned round.
LEMMA CountFacts ==
  ASSUME NEW S, NEW f
  PROVE  /\ Count(<<>>, f) = 0
         /\ \A l \in S : Count(<<l>>, f) = One(l, f)
         /\ \A s \in Seq(S), l \in S : Count(<<l>> \o s, f) = Count(s, f) + One(l, f)
         /\ \A s \in Seq(S) : s # <<>> => Count(s, f) = Count(Tail(s), f) + One(s[1], f)
         /\ \A s \in Seq(S) : Count(Reverse(s), f) = Count(s, f)
<1>1. Count(<<>>, f) = 0
  <2>1. Hits(<<>>, f) = {}
    BY DEF Hits
  <2> QED
    BY <2>1, FS_EmptySet DEF Count
<1>2. ASSUME NEW s \in Seq(S), NEW l \in S  PROVE Count(<<l>> \o s, f) = Count(s, f) + One(l, f)
  <2> DEFINE t == <<l>> \o s
  <2>1. t \in Seq(S) /\ Inserted(s, t, 0) /\ t[1] = l
    BY DEF Inserted
  <2> HIDE DEF t
  <2>2. Count(t, f) = Count(s, f) + One(t[1], f)
    BY <2>1, CountCons
  <2> QED
    BY <2>1, <2>2 DEF t
<1>3. ASSUME NEW l \in S  PROVE Count(<<l>>, f) = One(l, f)
  <2>1. <<>> \in Seq(S) /\ <<l>> \in Seq(S) /\ <<l>>[1] = l /\ Inserted(<<>>, <<l>>, 0)
    BY DEF Inserted
  <2>2. Count(<<l>>, f) = Count(<<>>, f) + One(<<l>>[1], f)
    BY <2>1, CountCons
  <2> QED
    BY <1>1, <2>1, <2>2 DEF One
<1>4. ASSUME NEW s \in Seq(S), s # <<>>  PROVE Count(s, f) = Count(Tail(s), f) + One(s[1], f)
  <2>1. Tail(s) \in Seq(S) /\ Inserted(Tail(s), s, 0)
    BY <1>4 DEF Inserted
  <2> QED
    BY <2>1, CountCons
<1>5. ASSUME NEW s \in Seq(S)  PROVE Count(Reverse(s), f) = Count(s, f)
  <2> DEFINE n == Len(s)
             g == [i \in Hits(s, f) |-> (n - i) + 1]
  <2>1. n \in Nat /\ DOMAIN s = 1..n /\ Reverse(s) = [i \in 1..n |-> s[(n - i) + 1]]
    BY DEF Reverse
  <2> HIDE DEF n
  <2>2. \A i \in 1..n : (n - i) + 1 \in 1..n /\ (n - ((n - i) + 1)) + 1 = i
    BY <2>1
  <2>3. \A i \in Hits(s, f) : i \in 1..n /\ (n - i) + 1 \in Hits(Reverse(s), f)
    BY <2>1, <2>2 DEF Hits
  <2>4. \A j \in Hits(Reverse(s), f) : j \in 1..n /\ (n - j) + 1 \in Hits(s, f)
    BY <2>1, <2>2 DEF Hits
  <2>5. \A x, y \in 1..n : (n - x) + 1 = (n - y) + 1 => x = y
    BY <2>1
  <2>6. g \in [Hits(s, f) -> Hits(Reverse(s), f)]
    BY <2>3
  <2>7. \A x, y \in Hits(s, f) : g[x] = g[y] => x = y
    BY <2>3, <2>5
  <2>8. \A j \in Hits(Reverse(s), f) : \E i \in Hits(s, f) : g[i] = j
    <3> SUFFICES ASSUME NEW j \in Hits(Reverse(s), f)  PROVE \E i \in Hits(s, f) : g[i] = j
      OBVIOUS
    <3>1. (n - j) + 1 \in Hits(s, f) /\ g[(n - j) + 1] = j
      BY <2>2, <2>4
    <3> QED
      BY <3>1
  <2> HIDE DEF g
  <2> QED
    BY <2>6, <2>7, <2>8, HitsFinite, Matched DEF Count
<1> QED
  BY <1>1, <1>2, <1>3, <1>4, <1>5

\* One listener.
LEMMA CountOne ==
  ASSUME NEW l, NEW f
  PROVE  Count(<<l>>, f) = One(l, f)
<1>1. l \in {l}
  OBVIOUS
<1> QED
  BY <1>1, CountFacts

\* One more at the front.
LEMMA CountFront ==
  ASSUME NEW S, NEW s \in Seq(S), NEW l \in S, NEW f, NEW t, t = <<l>> \o s
  PROVE  Count(t, f) = Count(s, f) + One(l, f)
<1>1. t \in Seq(S) /\ Inserted(s, t, 0) /\ t[1] = l
  BY DEF Inserted
<1>2. Count(t, f) = Count(s, f) + One(t[1], f)
  BY <1>1, CountCons
<1> QED
  BY <1>1, <1>2

-----------------------------------------------------------------------------
(* Listeners, calls and microtasks                                         *)

\* The lists of listeners in calls and in microtasks.
Calls(st) == [k \in DOMAIN st |-> st[k].listeners]
Tasks(q) == [i \in DOMAIN q |-> Serves(q[i])]

\* The number of listeners in charge of f, and of timers.
Total(ls, st, q, ts, f) ==
  Cardinality(Places(ls, f)) + Cardinality(Places(Calls(st), f)) + Cardinality(Places(Tasks(q), f))
    + Cardinality(ts \cap {f})

\* What is a listener, a call or a microtask stays one when futures are created and completed.
LEMMA Wider ==
  ASSUME NEW n \in Nat, NEW m \in Nat, n <= m, NEW C, NEW D, C \subseteq D
  PROVE  /\ ListenerOf(n, C) \subseteq ListenerOf(m, D)
         /\ CallOf(n, C) \subseteq CallOf(m, D)
         /\ MicrotaskOf(n, C) \subseteq MicrotaskOf(m, D)
         /\ Seq(Seq(ListenerOf(n, C))) \subseteq Seq(Seq(ListenerOf(m, D)))
         /\ Seq(CallOf(n, C)) \subseteq Seq(CallOf(m, D))
         /\ Seq(MicrotaskOf(n, C)) \subseteq Seq(MicrotaskOf(m, D))
<1>0. 1..n \subseteq 1..m /\ 0..n \subseteq 0..m
  OBVIOUS
<1>1. ListenerOf(n, C) \subseteq ListenerOf(m, D)
  BY <1>0 DEF ListenerOf
<1>2. Seq(ListenerOf(n, C)) \subseteq Seq(ListenerOf(m, D))
  BY <1>1, SeqMonotonic
<1>3. CallOf(n, C) \subseteq CallOf(m, D)
  BY <1>2 DEF CallOf
<1>4. MicrotaskOf(n, C) \subseteq MicrotaskOf(m, D)
  <2> HIDE DEF ListenerOf
  <2> QED
    BY <1>0, <1>1 DEF MicrotaskOf
<1> QED
  BY <1>1, <1>2, <1>3, <1>4, SeqMonotonic

\* What Listener() and Call() make.
LEMMA Made ==
  ASSUME NEW n \in Nat, NEW C \in SUBSET (1..n)
  PROVE  /\ \A kind \in AllKinds \ {"resume"}, f \in 1..n :
              /\ Listener(kind, f) \in ListenerOf(n, C)
              /\ Listener(kind, f).kind = kind /\ Listener(kind, f).result = f
         /\ \A source \in C, ls \in Seq(ListenerOf(n, C)) :
              /\ Call(source, ls) \in CallOf(n, C)
              /\ Call(source, ls).source = source /\ Call(source, ls).listeners = ls
              /\ Call(source, ls).user = FALSE
BY DEF Listener, Call, ListenerOf, CallOf

\* The listener of a chain.
LEMMA MadeChain ==
  ASSUME NEW n \in Nat, NEW C \in SUBSET (1..n), NEW f \in 1..n, NEW l, l = Listener("chain", f)
  PROVE  l \in ListenerOf(n, C) /\ InCharge(l, f) /\ ~IsUser(l)
BY DEF ListenerOf, Listener, AllKinds, InCharge, IsUser

\* A call of its own.
LEMMA MadeCall ==
  ASSUME NEW n \in Nat, NEW C \in SUBSET (1..n), NEW source \in C, NEW ls \in Seq(ListenerOf(n, C))
  PROVE  /\ Call(source, ls) \in CallOf(n, C)
         /\ Call(source, ls).source = source /\ Call(source, ls).listeners = ls
BY DEF Call, CallOf

\* What a microtask is.
LEMMA MicrotaskIs ==
  ASSUME NEW n \in Nat, NEW C \in SUBSET (1..n), NEW m \in MicrotaskOf(n, C)
  PROVE  /\ m.op \in {"complete", "chain", "propagate", "throw"}
         /\ m.op = "complete" => m.future \in 1..n /\ m.with \in Outcome
         /\ m.op = "chain" => m.future \in 1..n /\ m.with \in C
         /\ m.op = "propagate" => m.future \in C /\ m.with \in ListenerOf(n, C)
         /\ Serves(m) \in Seq(ListenerOf(n, C))
<1>1. CASE m \in [op : {"complete"}, future : 1..n, with : Outcome]
  <2>1. m.op = "complete" /\ m.future \in 1..n /\ m.with \in Outcome
    BY <1>1
  <2>2. Serves(m) = <<Listener("chain", m.future)>>
    BY <2>1 DEF Serves
  <2>3. Listener("chain", m.future) \in ListenerOf(n, C)
    BY <2>1, Made DEF AllKinds
  <2> QED
    BY <2>1, <2>2, <2>3
<1>2. CASE m \in [op : {"chain"}, future : 1..n, with : C]
  <2>1. m.op = "chain" /\ m.future \in 1..n /\ m.with \in C
    BY <1>2
  <2>2. Serves(m) = <<Listener("chain", m.future)>>
    BY <2>1 DEF Serves
  <2>3. Listener("chain", m.future) \in ListenerOf(n, C)
    BY <2>1, Made DEF AllKinds
  <2> QED
    BY <2>1, <2>2, <2>3
<1>3. CASE m \in [op : {"propagate"}, future : C, with : ListenerOf(n, C)]
  <2>1. m.op = "propagate" /\ m.future \in C /\ m.with \in ListenerOf(n, C)
    BY <1>3
  <2>2. Serves(m) = <<m.with>>
    BY <2>1 DEF Serves
  <2> QED
    BY <2>1, <2>2
<1>4. CASE m = Rethrow
  <2>1. m.op = "throw"
    BY <1>4 DEF Rethrow
  <2>2. Serves(m) = <<>>
    BY <2>1 DEF Serves
  <2> QED
    BY <2>1, <2>2
<1> QED
  BY <1>1, <1>2, <1>3, <1>4 DEF MicrotaskOf

\* The lists are lists of listeners.
LEMMA ListsAre ==
  ASSUME NEW n \in Nat, NEW C \in SUBSET (1..n)
  PROVE  /\ \A st \in Seq(CallOf(n, C)) :
              /\ Calls(st) \in Seq(Seq(ListenerOf(n, C))) /\ Len(Calls(st)) = Len(st)
              /\ \A k \in 1..Len(st) : Calls(st)[k] = st[k].listeners
         /\ \A q \in Seq(MicrotaskOf(n, C)) :
              /\ Tasks(q) \in Seq(Seq(ListenerOf(n, C))) /\ Len(Tasks(q)) = Len(q)
              /\ \A i \in 1..Len(q) : Tasks(q)[i] = Serves(q[i])
<1>1. ASSUME NEW st \in Seq(CallOf(n, C))
      PROVE  /\ Calls(st) \in Seq(Seq(ListenerOf(n, C))) /\ Len(Calls(st)) = Len(st)
             /\ \A k \in 1..Len(st) : Calls(st)[k] = st[k].listeners
  <2>1. DOMAIN st = 1..Len(st) /\ Len(st) \in Nat /\ \A k \in 1..Len(st) : st[k] \in CallOf(n, C)
    OBVIOUS
  <2>2. \A k \in 1..Len(st) : st[k].listeners \in Seq(ListenerOf(n, C))
    BY <2>1 DEF CallOf
  <2>3. Calls(st) = [k \in 1..Len(st) |-> st[k].listeners]
    BY <2>1 DEF Calls
  <2> QED
    BY <2>1, <2>2, <2>3
<1>2. ASSUME NEW q \in Seq(MicrotaskOf(n, C))
      PROVE  /\ Tasks(q) \in Seq(Seq(ListenerOf(n, C))) /\ Len(Tasks(q)) = Len(q)
             /\ \A i \in 1..Len(q) : Tasks(q)[i] = Serves(q[i])
  <2>1. DOMAIN q = 1..Len(q) /\ Len(q) \in Nat /\ \A i \in 1..Len(q) : q[i] \in MicrotaskOf(n, C)
    OBVIOUS
  <2>2. \A i \in 1..Len(q) : Serves(q[i]) \in Seq(ListenerOf(n, C))
    BY <2>1, MicrotaskIs
  <2>3. Tasks(q) = [i \in 1..Len(q) |-> Serves(q[i])]
    BY <2>1 DEF Tasks
  <2> QED
    BY <2>1, <2>2, <2>3
<1> QED
  BY <1>1, <1>2

\* A call more: its listeners come to the others.
LEMMA TotalPushed ==
  ASSUME NEW n \in Nat, NEW C \in SUBSET (1..n), NEW ls, NEW ts, NEW f,
         NEW st \in Seq(CallOf(n, C)), NEW q \in Seq(MicrotaskOf(n, C)),
         Cardinality(Places(ls, f)) \in Nat, Cardinality(ts \cap {f}) \in Nat, NEW c \in CallOf(n, C)
  PROVE  Total(ls, Append(st, c), q, ts, f) = Total(ls, st, q, ts, f) + Count(c.listeners, f)
<1>1. /\ Calls(st) \in Seq(Seq(ListenerOf(n, C))) /\ Len(Calls(st)) = Len(st)
      /\ Tasks(q) \in Seq(Seq(ListenerOf(n, C))) /\ Len(Tasks(q)) = Len(q)
  BY ListsAre
<1>2. Cardinality(Places(Calls(st), f)) \in Nat /\ Cardinality(Places(Tasks(q), f)) \in Nat
  BY <1>1, PlacesFinite
<1>3. PICK tt \in Seq(CallOf(n, C)), k \in Nat :
        /\ tt = Append(st, c) /\ k = Len(st) /\ Len(tt) = k + 1
        /\ tt[k + 1] = c /\ \A i \in 1..k : tt[i] = st[i]
  <2>1. /\ Append(st, c) \in Seq(CallOf(n, C)) /\ Len(st) \in Nat /\ Len(Append(st, c)) = Len(st) + 1
        /\ Append(st, c)[Len(st) + 1] = c /\ \A i \in 1..Len(st) : Append(st, c)[i] = st[i]
    OBVIOUS
  <2> QED
    BY <2>1, Zenon
<1>4. /\ Calls(tt) \in Seq(Seq(ListenerOf(n, C))) /\ Len(Calls(tt)) = Len(tt)
      /\ \A i \in 1..Len(tt) : Calls(tt)[i] = tt[i].listeners
  BY ListsAre
<1>5. \A i \in 1..Len(st) : Calls(st)[i] = st[i].listeners
  BY ListsAre
<1>6. Inserted(Calls(st), Calls(tt), k) /\ Calls(tt)[k + 1] = c.listeners
  <2>1. ASSUME NEW i \in 1..k  PROVE Calls(tt)[i] = Calls(st)[i]
    <3>1. i \in 1..Len(tt) /\ i \in 1..Len(st) /\ tt[i] = st[i]
      BY <1>3
    <3> QED
      BY <1>4, <1>5, <3>1
  <2>2. Calls(tt)[k + 1] = c.listeners
    BY <1>3, <1>4
  <2>3. Len(Calls(tt)) = Len(Calls(st)) + 1 /\ k = Len(Calls(st))
    BY <1>1, <1>3, <1>4
  <2> QED
    BY <2>1, <2>2, <2>3 DEF Inserted
<1>7. Cardinality(Places(Calls(tt), f)) = Cardinality(Places(Calls(st), f)) + Count(Calls(tt)[k + 1], f)
  BY ONLY k \in Nat, <1>1, <1>4, <1>6, ListInserted
<1>8. Count(c.listeners, f) \in Nat
  BY HitsFinite DEF CallOf
<1> QED
  BY <1>2, <1>3, <1>6, <1>7, <1>8 DEF Total

\* A microtask more.
LEMMA TotalScheduled ==
  ASSUME NEW n \in Nat, NEW C \in SUBSET (1..n), NEW ls, NEW ts, NEW f,
         NEW st \in Seq(CallOf(n, C)), NEW q \in Seq(MicrotaskOf(n, C)),
         Cardinality(Places(ls, f)) \in Nat, Cardinality(ts \cap {f}) \in Nat,
         NEW r \in Seq(MicrotaskOf(n, C)), NEW k \in Nat, Inserted(q, r, k)
  PROVE  Total(ls, st, r, ts, f) = Total(ls, st, q, ts, f) + Count(Serves(r[k + 1]), f)
<1>1. /\ Calls(st) \in Seq(Seq(ListenerOf(n, C))) /\ Len(Calls(st)) = Len(st)
      /\ Tasks(q) \in Seq(Seq(ListenerOf(n, C))) /\ Len(Tasks(q)) = Len(q)
  BY ListsAre
<1>2. Cardinality(Places(Calls(st), f)) \in Nat /\ Cardinality(Places(Tasks(q), f)) \in Nat
  BY <1>1, PlacesFinite
<1>3. /\ k <= Len(q) /\ Len(r) = Len(q) + 1 /\ Len(q) \in Nat
      /\ \A i \in 1..k : r[i] = q[i]
      /\ \A i \in k + 1..Len(q) : r[i + 1] = q[i]
  BY DEF Inserted
<1>4. Tasks(r) \in Seq(Seq(ListenerOf(n, C))) /\ Len(Tasks(r)) = Len(r)
  BY ListsAre
<1>5. (\A i \in 1..Len(r) : Tasks(r)[i] = Serves(r[i])) /\ (\A i \in 1..Len(q) : Tasks(q)[i] = Serves(q[i]))
  BY ListsAre
<1>6. \A i \in 1..k : Tasks(r)[i] = Tasks(q)[i]
  BY <1>3, <1>5
<1>7. \A i \in k + 1..Len(q) : Tasks(r)[i + 1] = Tasks(q)[i]
  <2> SUFFICES ASSUME NEW i \in k + 1..Len(q)  PROVE Tasks(r)[i + 1] = Tasks(q)[i]
    OBVIOUS
  <2>a. r[i + 1] = q[i]
    BY <1>3
  <2>b. i \in 1..Len(q) /\ i + 1 \in 1..Len(q) + 1
    BY <1>3
  <2>1. i \in 1..Len(q) /\ i + 1 \in 1..Len(r) /\ r[i + 1] = q[i]
    BY <1>3, <2>a, <2>b
  <2> QED
    BY <1>5, <2>1
<1>8. Inserted(Tasks(q), Tasks(r), k)
  BY <1>1, <1>3, <1>4, <1>6, <1>7 DEF Inserted
<1>9. Cardinality(Places(Tasks(r), f)) = Cardinality(Places(Tasks(q), f)) + Count(Tasks(r)[k + 1], f)
  BY ONLY k \in Nat, <1>1, <1>4, <1>8, ListInserted
<1>10. Tasks(r)[k + 1] = Serves(r[k + 1]) /\ Tasks(r)[k + 1] \in Seq(ListenerOf(n, C))
  BY <1>3, <1>4, <1>5
<1>11. Count(Serves(r[k + 1]), f) \in Nat
  BY <1>10, HitsFinite
<1>12. \A a, b, c, d, e, x \in Nat : c = d + x => (a + b + c) + e = ((a + b + d) + e) + x
  OBVIOUS
<1> QED
  BY ONLY Cardinality(Places(ls, f)) \in Nat, Cardinality(ts \cap {f}) \in Nat,
          <1>2, <1>9, <1>10, <1>11, <1>12 DEF Total

\* A timer more.
LEMMA TimerCount ==
  ASSUME NEW T, NEW f
  PROVE  /\ Cardinality(T \cap {f}) \in Nat
         /\ \A g : g \notin T =>
              Cardinality((T \cup {g}) \cap {f}) = Cardinality(T \cap {f}) + (IF g = f THEN 1 ELSE 0)
<1>1. Cardinality({f}) = 1 /\ Cardinality({}) = 0
  BY FS_Singleton, FS_EmptySet
<1>2. f \in T => T \cap {f} = {f}
  OBVIOUS
<1>3. f \notin T => T \cap {f} = {}
  OBVIOUS
<1>4. Cardinality(T \cap {f}) \in Nat
  BY <1>1, <1>2, <1>3
<1>5. ASSUME NEW g, g \notin T
      PROVE  Cardinality((T \cup {g}) \cap {f}) = Cardinality(T \cap {f}) + (IF g = f THEN 1 ELSE 0)
  <2>1. CASE g = f
    <3>1. (T \cup {g}) \cap {f} = {f} /\ T \cap {f} = {}
      BY <1>5, <2>1
    <3> QED
      BY <1>1, <2>1, <3>1
  <2>2. CASE g # f
    <3>1. (T \cup {g}) \cap {f} = T \cap {f}
      BY <2>2
    <3> QED
      BY <1>4, <2>2, <3>1
  <2> QED
    BY <2>1, <2>2
<1> QED
  BY <1>4, <1>5

\* The number is a number.
LEMMA TotalIsNat ==
  ASSUME NEW n \in Nat, NEW C \in SUBSET (1..n), NEW f,
         NEW ls \in Seq(Seq(ListenerOf(n, C))), NEW ts,
         NEW st \in Seq(CallOf(n, C)), NEW q \in Seq(MicrotaskOf(n, C))
  PROVE  /\ Total(ls, st, q, ts, f) \in Nat
         /\ Cardinality(Places(ls, f)) \in Nat /\ Cardinality(ts \cap {f}) \in Nat
<1> DEFINE L == Seq(ListenerOf(n, C))
<1>1. Calls(st) \in Seq(L) /\ Tasks(q) \in Seq(L)
  BY ListsAre
<1>2. /\ Cardinality(Places(ls, f)) \in Nat /\ Cardinality(Places(Calls(st), f)) \in Nat
      /\ Cardinality(Places(Tasks(q), f)) \in Nat
  BY <1>1, PlacesFinite
<1>3. Cardinality(ts \cap {f}) \in Nat
  BY TimerCount
<1> QED
  BY <1>2, <1>3 DEF Total

\* What then becomes of the number.
Shifted(ls, tt, k, st, q, ts, f) ==
  Total(tt, st, q, ts, f) + Count(ls[k], f) = Total(ls, st, q, ts, f) + Count(tt[k], f)

\* Another list of listeners of one future.
LEMMA TotalReplaced ==
  ASSUME NEW n \in Nat, NEW C \in SUBSET (1..n), NEW f,
         NEW ls \in Seq(Seq(ListenerOf(n, C))), NEW ts,
         NEW st \in Seq(CallOf(n, C)), NEW q \in Seq(MicrotaskOf(n, C)),
         NEW tt \in Seq(Seq(ListenerOf(n, C))), NEW k \in Nat, Replaced(ls, tt, k)
  PROVE  Shifted(ls, tt, k, st, q, ts, f)
<1> DEFINE L == Seq(ListenerOf(n, C))
<1>1. Calls(st) \in Seq(L) /\ Tasks(q) \in Seq(L)
  BY ListsAre
<1>2. /\ Cardinality(Places(ls, f)) \in Nat /\ Cardinality(Places(Calls(st), f)) \in Nat
      /\ Cardinality(Places(Tasks(q), f)) \in Nat
  BY <1>1, PlacesFinite
<1>3. Cardinality(ts \cap {f}) \in Nat
  BY TimerCount
<1>4. ls[k] \in Seq(ListenerOf(n, C)) /\ tt[k] \in Seq(ListenerOf(n, C))
  BY DEF Replaced
<1>5. Count(ls[k], f) \in Nat /\ Count(tt[k], f) \in Nat
  BY <1>4, HitsFinite
<1>6. Cardinality(Places(tt, f)) + Count(ls[k], f) = Cardinality(Places(ls, f)) + Count(tt[k], f)
  BY ONLY ls \in Seq(Seq(ListenerOf(n, C))), tt \in Seq(Seq(ListenerOf(n, C))), k \in Nat,
          Replaced(ls, tt, k), ListReplaced
<1>7. Cardinality(Places(tt, f)) \in Nat
  BY PlacesFinite
<1>8. \A a, b, u, v, w, x, y \in Nat : a + x = b + y => (a + u + v + w) + x = (b + u + v + w) + y
  OBVIOUS
<1>9. PICK a \in Nat, b \in Nat, u \in Nat, v \in Nat, w \in Nat, x \in Nat, y \in Nat :
        /\ a = Cardinality(Places(tt, f)) /\ b = Cardinality(Places(ls, f))
        /\ u = Cardinality(Places(Calls(st), f)) /\ v = Cardinality(Places(Tasks(q), f))
        /\ w = Cardinality(ts \cap {f}) /\ x = Count(ls[k], f) /\ y = Count(tt[k], f)
  BY <1>2, <1>3, <1>5, <1>7, Zenon
<1>10. Total(tt, st, q, ts, f) = a + u + v + w /\ Total(ls, st, q, ts, f) = b + u + v + w
  BY <1>9 DEF Total
<1>11. a + x = b + y
  BY <1>6, <1>9
<1>12. (a + u + v + w) + x = (b + u + v + w) + y
  BY <1>8, <1>11
<1> QED
  BY <1>9, <1>10, <1>12, Zenon DEF Shifted

\* One more list, with no listeners.
LEMMA TotalCreated ==
  ASSUME NEW n \in Nat, NEW C \in SUBSET (1..n), NEW f,
         NEW ls \in Seq(Seq(ListenerOf(n, C))), NEW ts,
         NEW st \in Seq(CallOf(n, C)), NEW q \in Seq(MicrotaskOf(n, C))
  PROVE  Total(Append(ls, <<>>), st, q, ts, f) = Total(ls, st, q, ts, f)
<1> DEFINE L == Seq(ListenerOf(n, C))
<1>1. Calls(st) \in Seq(L) /\ Tasks(q) \in Seq(L)
  BY ListsAre
<1>2. /\ Cardinality(Places(ls, f)) \in Nat /\ Cardinality(Places(Calls(st), f)) \in Nat
      /\ Cardinality(Places(Tasks(q), f)) \in Nat
  BY <1>1, PlacesFinite
<1>3. Cardinality(ts \cap {f}) \in Nat
  BY TimerCount
<1>4. PICK tt \in Seq(L), k \in Nat :
        /\ tt = Append(ls, <<>>) /\ k = Len(ls) /\ Len(tt) = k + 1
        /\ tt[k + 1] = <<>> /\ \A i \in 1..k : tt[i] = ls[i]
  <2>1. /\ Append(ls, <<>>) \in Seq(L) /\ Len(ls) \in Nat /\ Len(Append(ls, <<>>)) = Len(ls) + 1
        /\ Append(ls, <<>>)[Len(ls) + 1] = <<>> /\ \A i \in 1..Len(ls) : Append(ls, <<>>)[i] = ls[i]
    OBVIOUS
  <2> QED
    BY <2>1, Zenon
<1>5. Inserted(ls, tt, k)
  BY <1>4 DEF Inserted
<1>6. Cardinality(Places(tt, f)) = Cardinality(Places(ls, f)) + Count(tt[k + 1], f)
  BY ONLY k \in Nat, tt \in Seq(L), ls \in Seq(L), <1>5, ListInserted
<1>7. Cardinality(Places(tt, f)) = Cardinality(Places(ls, f))
  BY <1>2, <1>4, <1>6, CountFacts
<1> QED
  BY <1>4, <1>7 DEF Total

\* us has one element more than ts.
Added(ts, us, g) == g \notin ts /\ us = ts \cup {g}

\* One more timer.
LEMMA TotalTimer ==
  ASSUME NEW n \in Nat, NEW C \in SUBSET (1..n), NEW f,
         NEW ls \in Seq(Seq(ListenerOf(n, C))), NEW ts,
         NEW st \in Seq(CallOf(n, C)), NEW q \in Seq(MicrotaskOf(n, C)),
         NEW us, NEW g, Added(ts, us, g)
  PROVE  Total(ls, st, q, us, f) = Total(ls, st, q, ts, f) + (IF g = f THEN 1 ELSE 0)
<1> DEFINE L == Seq(ListenerOf(n, C))
<1>1. Calls(st) \in Seq(L) /\ Tasks(q) \in Seq(L)
  BY ListsAre
<1>2. /\ Cardinality(Places(ls, f)) \in Nat /\ Cardinality(Places(Calls(st), f)) \in Nat
      /\ Cardinality(Places(Tasks(q), f)) \in Nat
  BY <1>1, PlacesFinite
<1>3. Cardinality(ts \cap {f}) \in Nat
  BY TimerCount
<1>4. Cardinality(us \cap {f}) = Cardinality(ts \cap {f}) + (IF g = f THEN 1 ELSE 0)
  <2>1. Cardinality((ts \cup {g}) \cap {f}) = Cardinality(ts \cap {f}) + (IF g = f THEN 1 ELSE 0)
    BY TimerCount DEF Added
  <2> QED
    BY <2>1 DEF Added
<1> QED
  BY ONLY <1>2, <1>3, <1>4 DEF Total

-----------------------------------------------------------------------------
(* The order                                                               *)

\* The listeners of the call c come before all others of its source.
OnTop(c, st, q) ==
  /\ \A i, j \in DOMAIN c.listeners : i < j => Earlier(c.listeners[i], c.listeners[j])
  /\ \A k \in DOMAIN st : st[k].source = c.source => AllEarlier(c.listeners, st[k].listeners)
  /\ \A i \in DOMAIN q :
       IsPropagation(q[i]) /\ q[i].future = c.source => AllEarlier(c.listeners, <<q[i].with>>)

\* A call can be made when its listeners come before all others, and they do until it returns.
LEMMA CallOrder ==
  ASSUME NEW S, NEW st \in Seq(S), NEW c \in S, NEW q
  PROVE  LineInOrder(Append(st, c), q) <=> LineInOrder(st, q) /\ OnTop(c, st, q)
<1> DEFINE tt == Append(st, c)
<1>1. PICK n \in Nat : n = Len(st)
  OBVIOUS
<1>2. /\ DOMAIN st = 1..n /\ DOMAIN tt = 1..n + 1 /\ tt[n + 1] = c
      /\ \A k \in 1..n : tt[k] = st[k]
  BY <1>1
<1> HIDE DEF tt
<1>3. ASSUME LineInOrder(tt, q)  PROVE LineInOrder(st, q) /\ OnTop(c, st, q)
  <2>1. n + 1 \in DOMAIN tt /\ \A k \in DOMAIN st : k \in DOMAIN tt /\ k < n + 1 /\ tt[k] = st[k]
    BY <1>2
  <2>2. LineInOrder(st, q)
    BY <1>3, <2>1 DEF LineInOrder
  <2>3. OnTop(c, st, q)
    BY <1>2, <1>3, <2>1 DEF LineInOrder, OnTop
  <2> QED
    BY <2>2, <2>3
<1>4. ASSUME LineInOrder(st, q), OnTop(c, st, q)  PROVE LineInOrder(tt, q)
  <2>1. \A k \in DOMAIN tt : (k \in DOMAIN st /\ tt[k] = st[k]) \/ (k = n + 1 /\ tt[k] = c)
    <3>1. \A k \in 1..n + 1 : k \in 1..n \/ k = n + 1
      OBVIOUS
    <3> QED
      BY <1>2, <3>1, Zenon
  <2>2. \A k \in DOMAIN tt : \A i, j \in DOMAIN tt[k].listeners :
          i < j => Earlier(tt[k].listeners[i], tt[k].listeners[j])
    BY <1>4, <2>1 DEF LineInOrder, OnTop
  <2>3. \A j, k \in DOMAIN tt : j < k => j \in DOMAIN st /\ tt[j] = st[j]
    BY <1>2
  <2>4. \A j, k \in DOMAIN tt :
          j < k /\ tt[j].source = tt[k].source => AllEarlier(tt[k].listeners, tt[j].listeners)
    BY <1>4, <2>1, <2>3 DEF LineInOrder, OnTop
  <2>5. \A k \in DOMAIN tt, i \in DOMAIN q :
          IsPropagation(q[i]) /\ q[i].future = tt[k].source => AllEarlier(tt[k].listeners, <<q[i].with>>)
    BY <1>4, <2>1 DEF LineInOrder, OnTop
  <2> QED
    BY <1>4, <2>2, <2>4, <2>5 DEF LineInOrder
<1> QED
  BY <1>3, <1>4 DEF tt

\* A microtask that calls no listener of the program has no place in the order.
LEMMA TaskOrder ==
  ASSUME NEW T, NEW q \in Seq(T), NEW r \in Seq(T), NEW k \in Nat, NEW st,
         Inserted(q, r, k), LineInOrder(st, q), IsPropagation(r[k + 1]) => ~IsUser(r[k + 1].with)
  PROVE  LineInOrder(st, r)
<1> DEFINE old(i) == IF i <= k THEN i ELSE i - 1
<1>1. /\ k <= Len(q) /\ Len(q) \in Nat /\ DOMAIN q = 1..Len(q) /\ DOMAIN r = 1..Len(q) + 1
      /\ \A i \in 1..k : r[i] = q[i]
      /\ \A i \in k + 1..Len(q) : r[i + 1] = q[i]
  BY DEF Inserted
<1>2. ASSUME NEW i \in DOMAIN r, i # k + 1
      PROVE  old(i) \in DOMAIN q /\ r[i] = q[old(i)]
  <2>1. CASE i <= k
    BY <1>1, <2>1
  <2>2. CASE i > k
    <3>0. i \in 1..Len(q) + 1 /\ i # k + 1
      BY <1>1, <1>2
    <3>a. Len(q) \in Nat
      BY <1>1
    <3>b. old(i) = i - 1
      BY <2>2, <3>0
    <3>c. i - 1 \in k + 1..Len(q) /\ (i - 1) + 1 = i /\ i - 1 \in 1..Len(q)
      BY ONLY k \in Nat, <2>2, <3>0, <3>a
    <3>1. i - 1 \in k + 1..Len(q) /\ (i - 1) + 1 = i /\ i - 1 \in 1..Len(q) /\ old(i) = i - 1
      BY <3>b, <3>c
    <3>2. r[(i - 1) + 1] = q[i - 1]
      BY <1>1, <3>1
    <3> HIDE DEF old
    <3> QED
      BY <1>1, <3>1, <3>2
  <2> QED
    BY <1>1, <2>1, <2>2
<1>3. \A i, j \in DOMAIN r : i # k + 1 /\ j # k + 1 /\ i < j => old(i) < old(j)
  BY <1>1
<1> HIDE DEF old
<1>4. ASSUME NEW x  PROVE IsPropagation(r[k + 1]) => Earlier(r[k + 1].with, x) /\ Earlier(x, r[k + 1].with)
  BY DEF Earlier
<1>5. \A a \in DOMAIN st, i \in DOMAIN r :
        IsPropagation(r[i]) /\ r[i].future = st[a].source => AllEarlier(st[a].listeners, <<r[i].with>>)
  <2> SUFFICES ASSUME NEW a \in DOMAIN st, NEW i \in DOMAIN r, IsPropagation(r[i]), r[i].future = st[a].source
               PROVE  AllEarlier(st[a].listeners, <<r[i].with>>)
    OBVIOUS
  <2>1. CASE i = k + 1
    BY <1>4, <2>1 DEF AllEarlier
  <2>2. CASE i # k + 1
    BY <1>2, <2>2 DEF LineInOrder
  <2> QED
    BY <2>1, <2>2
<1>6. \A i, j \in DOMAIN r :
        i < j /\ IsPropagation(r[i]) /\ IsPropagation(r[j]) /\ r[i].future = r[j].future =>
          Earlier(r[i].with, r[j].with)
  <2> SUFFICES ASSUME NEW i \in DOMAIN r, NEW j \in DOMAIN r,
                      i < j, IsPropagation(r[i]), IsPropagation(r[j]), r[i].future = r[j].future
               PROVE  Earlier(r[i].with, r[j].with)
    OBVIOUS
  <2>1. CASE i = k + 1 \/ j = k + 1
    BY <1>4, <2>1
  <2>2. CASE i # k + 1 /\ j # k + 1
    <3>1. old(i) \in DOMAIN q /\ old(j) \in DOMAIN q /\ old(i) < old(j) /\ r[i] = q[old(i)] /\ r[j] = q[old(j)]
      BY <1>2, <1>3, <2>2
    <3> QED
      BY <3>1 DEF LineInOrder
  <2> QED
    BY <2>1, <2>2
<1> QED
  BY <1>5, <1>6 DEF LineInOrder

\* A listener that subscribed after all that wait is called last.
LEMMA LateOrder ==
  ASSUME NEW T, NEW q \in Seq(T), NEW m \in T, NEW st, LineInOrder(st, q),
         \A k \in DOMAIN st : \A i \in DOMAIN st[k].listeners : Earlier(st[k].listeners[i], m.with),
         \A i \in DOMAIN q : IsPropagation(q[i]) => Earlier(q[i].with, m.with)
  PROVE  LineInOrder(st, Append(q, m))
<1> DEFINE r == Append(q, m)
<1>1. PICK n \in Nat : n = Len(q)
  OBVIOUS
<1>2. /\ DOMAIN q = 1..n /\ DOMAIN r = 1..n + 1 /\ r[n + 1] = m
      /\ \A k \in 1..n : r[k] = q[k]
  BY <1>1
<1> HIDE DEF r
<1>3. \A k \in DOMAIN r : (k \in DOMAIN q /\ r[k] = q[k]) \/ (k = n + 1 /\ r[k] = m)
  <2>1. \A k \in 1..n + 1 : k \in 1..n \/ k = n + 1
    OBVIOUS
  <2> QED
    BY <1>2, <2>1, Zenon
<1>4. \A j, k \in DOMAIN r : j < k => j \in DOMAIN q /\ r[j] = q[j]
  BY <1>2
<1>5. \A k \in DOMAIN st, i \in DOMAIN r :
        IsPropagation(r[i]) /\ r[i].future = st[k].source => AllEarlier(st[k].listeners, <<r[i].with>>)
  <2> SUFFICES ASSUME NEW k \in DOMAIN st, NEW i \in DOMAIN r, IsPropagation(r[i]), r[i].future = st[k].source
               PROVE  AllEarlier(st[k].listeners, <<r[i].with>>)
    OBVIOUS
  <2>1. CASE r[i] = m
    BY <2>1 DEF AllEarlier
  <2>2. CASE i \in DOMAIN q /\ r[i] = q[i]
    BY <2>2 DEF LineInOrder
  <2> QED
    BY <1>3, <2>1, <2>2
<1>6. \A i, j \in DOMAIN r :
        i < j /\ IsPropagation(r[i]) /\ IsPropagation(r[j]) /\ r[i].future = r[j].future =>
          Earlier(r[i].with, r[j].with)
  BY <1>3, <1>4 DEF LineInOrder
<1> QED
  BY <1>5, <1>6 DEF LineInOrder, r

\* The next microtask is taken from the queue; its listener comes before the others.
LEMMA NextOrder ==
  ASSUME NEW T, NEW q \in Seq(T), q # <<>>, NEW st, LineInOrder(st, q)
  PROVE  /\ LineInOrder(st, Tail(q))
         /\ \A c : IsPropagation(q[1]) /\ c.source = q[1].future /\ c.listeners = <<q[1].with>> =>
                     OnTop(c, <<>>, Tail(q))
<1> DEFINE r == Tail(q)
<1>1. /\ DOMAIN r = 1..Len(q) - 1 /\ DOMAIN q = 1..Len(q) /\ Len(q) \in Nat /\ Len(q) >= 1
      /\ \A i \in 1..Len(q) - 1 : r[i] = q[i + 1]
  OBVIOUS
<1> HIDE DEF r
<1>2. /\ \A i \in DOMAIN r : i + 1 \in DOMAIN q /\ r[i] = q[i + 1] /\ 1 < i + 1
      /\ \A i, j \in DOMAIN r : i < j => i + 1 < j + 1
      /\ 1 \in DOMAIN q
  BY <1>1
<1>3. LineInOrder(st, r)
  <2>1. \A k \in DOMAIN st, i \in DOMAIN r :
          IsPropagation(r[i]) /\ r[i].future = st[k].source => AllEarlier(st[k].listeners, <<r[i].with>>)
    BY <1>2 DEF LineInOrder
  <2>2. \A i, j \in DOMAIN r :
          i < j /\ IsPropagation(r[i]) /\ IsPropagation(r[j]) /\ r[i].future = r[j].future =>
            Earlier(r[i].with, r[j].with)
    BY <1>2 DEF LineInOrder
  <2> QED
    BY <2>1, <2>2 DEF LineInOrder
<1>4. ASSUME NEW c, IsPropagation(q[1]), c.source = q[1].future, c.listeners = <<q[1].with>>
      PROVE  OnTop(c, <<>>, r)
  <2>1. DOMAIN c.listeners = {1} /\ c.listeners[1] = q[1].with
    BY <1>4
  <2>2. ASSUME NEW i \in DOMAIN r, IsPropagation(r[i]), r[i].future = c.source
        PROVE  AllEarlier(c.listeners, <<r[i].with>>)
    <3>1. Earlier(q[1].with, r[i].with)
      BY <1>2, <1>4, <2>2 DEF LineInOrder
    <3> QED
      BY <2>1, <3>1 DEF AllEarlier
  <2>3. \A i, j \in DOMAIN c.listeners : i < j => Earlier(c.listeners[i], c.listeners[j])
    BY <2>1
  <2> QED
    BY <2>2, <2>3 DEF OnTop
<1> QED
  BY <1>3, <1>4 DEF r

-----------------------------------------------------------------------------
(* Steps on the data of an isolate                                         *)

\* The listeners of s have come to those that were there.
Gains(ls, st, q, ms, tt, r, s) ==
  \A ts, f : Total(ms, tt, r, ts, f) = Total(ls, st, q, ts, f) + Count(s, f)

\* tt is st with c at its end; z is s with v in place f.
IsAppend(tt, st, c) == tt = Append(st, c)
IsUpdate(z, s, f, v) == z = [s EXCEPT ![f] = v]

\* What the data are made of.
LEMMA DataAre ==
  ASSUME NEW n \in Nat, NEW C \in SUBSET (1..n), NEW ls, NEW st, NEW q, Data(n, C, ls, st, q)
  PROVE  /\ ls \in Seq(Seq(ListenerOf(n, C))) /\ Len(ls) = n /\ DOMAIN ls = 1..n
         /\ st \in Seq(CallOf(n, C)) /\ q \in Seq(MicrotaskOf(n, C))
         /\ ListsInOrder(ls) /\ LineInOrder(st, q)
         /\ \A ts, f : /\ Cardinality(Places(ls, f)) \in Nat /\ Cardinality(ts \cap {f}) \in Nat
                       /\ Total(ls, st, q, ts, f) \in Nat
<1>1. /\ ls \in Seq(Seq(ListenerOf(n, C))) /\ Len(ls) = n
      /\ st \in Seq(CallOf(n, C)) /\ q \in Seq(MicrotaskOf(n, C))
      /\ ListsInOrder(ls) /\ LineInOrder(st, q)
  BY DEF Data
<1>2. DOMAIN ls = 1..n
  BY <1>1
<1>3. ASSUME NEW ts, NEW f
      PROVE  /\ Cardinality(Places(ls, f)) \in Nat /\ Cardinality(ts \cap {f}) \in Nat
             /\ Total(ls, st, q, ts, f) \in Nat
  BY <1>1, TotalIsNat
<1> QED
  BY <1>1, <1>2, <1>3

\* A call is made.
LEMMA Pushed ==
  ASSUME NEW n \in Nat, NEW C \in SUBSET (1..n), NEW ls, NEW st, NEW q, Data(n, C, ls, st, q),
         NEW c \in CallOf(n, C), OnTop(c, st, q),
         NEW tt, IsAppend(tt, st, c)
  PROVE  /\ Data(n, C, ls, tt, q)
         /\ Gains(ls, st, q, ls, tt, q, c.listeners)
<1>1. st \in Seq(CallOf(n, C)) /\ LineInOrder(st, q) /\ q \in Seq(MicrotaskOf(n, C))
  BY DEF Data
<1>2. Append(st, c) \in Seq(CallOf(n, C)) /\ LineInOrder(Append(st, c), q)
  BY <1>1, CallOrder
<1>3. Data(n, C, ls, Append(st, c), q)
  BY <1>2 DEF Data
<1>4. ASSUME NEW ts, NEW f
      PROVE  Total(ls, Append(st, c), q, ts, f) = Total(ls, st, q, ts, f) + Count(c.listeners, f)
  <2>1. Cardinality(Places(ls, f)) \in Nat /\ Cardinality(ts \cap {f}) \in Nat
    BY DataAre
  <2> QED
    BY <1>1, <2>1, TotalPushed
<1> QED
  BY <1>3, <1>4 DEF IsAppend, Gains

\* The innermost call returns.
LEMMA Popped ==
  ASSUME NEW n \in Nat, NEW C \in SUBSET (1..n), NEW ls, NEW st, NEW q, Data(n, C, ls, st, q), st # <<>>
  PROVE  /\ Data(n, C, ls, Front(st), q)
         /\ Last(st) \in CallOf(n, C) /\ OnTop(Last(st), Front(st), q) /\ st = Append(Front(st), Last(st))
         /\ Gains(ls, Front(st), q, ls, st, q, Last(st).listeners)
<1>1. st \in Seq(CallOf(n, C)) /\ LineInOrder(st, q) /\ q \in Seq(MicrotaskOf(n, C))
  BY DEF Data
<1>2. Front(st) \in Seq(CallOf(n, C)) /\ Last(st) \in CallOf(n, C)
  BY <1>1 DEF Front, Last
<1>3. st = Append(Front(st), Last(st))
  <2>1. Len(st) \in Nat /\ Len(st) >= 1 /\ DOMAIN st = 1..Len(st)
    BY <1>1
  <2>2. Len(Front(st)) = Len(st) - 1 /\ \A i \in 1..Len(st) - 1 : Front(st)[i] = st[i]
    BY <1>1, <2>1 DEF Front
  <2>3. Last(st) = st[Len(st)]
    BY DEF Last
  <2>4. Append(Front(st), Last(st)) \in Seq(CallOf(n, C)) /\ Len(Append(Front(st), Last(st))) = Len(st)
    <3>1. Len(Append(Front(st), Last(st))) = Len(Front(st)) + 1
      BY <1>2
    <3> QED
      BY <1>2, <2>1, <2>2, <3>1
  <2>5. \A i \in 1..Len(st) : Append(Front(st), Last(st))[i] = st[i]
    BY <1>2, <2>1, <2>2, <2>3
  <2> QED
    BY <1>1, <2>4, <2>5, SeqEqual
<1>4. LineInOrder(Front(st), q) /\ OnTop(Last(st), Front(st), q)
  BY <1>1, <1>2, <1>3, CallOrder
<1>5. Data(n, C, ls, Front(st), q)
  BY <1>2, <1>4 DEF Data
<1>6. ASSUME NEW ts, NEW f
      PROVE  Total(ls, st, q, ts, f) = Total(ls, Front(st), q, ts, f) + Count(Last(st).listeners, f)
  <2>1. Cardinality(Places(ls, f)) \in Nat /\ Cardinality(ts \cap {f}) \in Nat
    BY DataAre
  <2>2. Total(ls, Append(Front(st), Last(st)), q, ts, f)
          = Total(ls, Front(st), q, ts, f) + Count(Last(st).listeners, f)
    BY <1>1, <1>2, <2>1, TotalPushed
  <2> QED
    BY <1>3, <2>2
<1> QED
  BY <1>2, <1>3, <1>4, <1>5, <1>6 DEF Gains

\* A microtask is scheduled that calls no listener of the program.
LEMMA Scheduled ==
  ASSUME NEW n \in Nat, NEW C \in SUBSET (1..n), NEW ls, NEW st, NEW q, Data(n, C, ls, st, q),
         NEW r \in Seq(MicrotaskOf(n, C)), NEW k \in Nat, Inserted(q, r, k),
         IsPropagation(r[k + 1]) => ~IsUser(r[k + 1].with)
  PROVE  /\ Data(n, C, ls, st, r)
         /\ Gains(ls, st, q, ls, st, r, Serves(r[k + 1]))
<1>1. st \in Seq(CallOf(n, C)) /\ LineInOrder(st, q) /\ q \in Seq(MicrotaskOf(n, C))
  BY DEF Data
<1>2. LineInOrder(st, r)
  BY <1>1, TaskOrder
<1>3. Data(n, C, ls, st, r)
  BY <1>2 DEF Data
<1>4. ASSUME NEW ts, NEW f
      PROVE  Total(ls, st, r, ts, f) = Total(ls, st, q, ts, f) + Count(Serves(r[k + 1]), f)
  <2>1. Cardinality(Places(ls, f)) \in Nat /\ Cardinality(ts \cap {f}) \in Nat
    BY DataAre
  <2> QED
    BY ONLY n \in Nat, C \in SUBSET (1..n), r \in Seq(MicrotaskOf(n, C)), k \in Nat, Inserted(q, r, k),
            <1>1, <2>1, TotalScheduled, SMTT(20)
<1> QED
  BY <1>3, <1>4 DEF Gains

\* A microtask is scheduled that calls the newest listener.
LEMMA ScheduledLate ==
  ASSUME NEW n \in Nat, NEW C \in SUBSET (1..n), NEW ls, NEW st, NEW q, Data(n, C, ls, st, q),
         NEW m \in MicrotaskOf(n, C),
         \A k \in DOMAIN st : \A i \in DOMAIN st[k].listeners : Earlier(st[k].listeners[i], m.with),
         \A i \in DOMAIN q : IsPropagation(q[i]) => Earlier(q[i].with, m.with),
         NEW r, IsAppend(r, q, m)
  PROVE  /\ Data(n, C, ls, st, r)
         /\ Gains(ls, st, q, ls, st, r, Serves(m))
<1>1. st \in Seq(CallOf(n, C)) /\ LineInOrder(st, q) /\ q \in Seq(MicrotaskOf(n, C))
  BY DEF Data
<1>2. LineInOrder(st, Append(q, m)) /\ Append(q, m) \in Seq(MicrotaskOf(n, C))
  BY <1>1, LateOrder
<1>3. Data(n, C, ls, st, Append(q, m))
  BY <1>2 DEF Data
<1>4. ASSUME NEW ts, NEW f
      PROVE  Total(ls, st, Append(q, m), ts, f) = Total(ls, st, q, ts, f) + Count(Serves(m), f)
  <2>1. Cardinality(Places(ls, f)) \in Nat /\ Cardinality(ts \cap {f}) \in Nat
    BY DataAre
  <2>2. Inserted(q, Append(q, m), Len(q)) /\ Append(q, m)[Len(q) + 1] = m /\ Len(q) \in Nat
    BY <1>1 DEF Inserted
  <2>3. PICK rr \in Seq(MicrotaskOf(n, C)), k \in Nat : rr = Append(q, m) /\ k = Len(q)
    BY <1>2, <2>2, Zenon
  <2>4. Inserted(q, rr, k) /\ rr[k + 1] = m
    BY <2>2, <2>3
  <2>5. Total(ls, st, rr, ts, f) = Total(ls, st, q, ts, f) + Count(Serves(rr[k + 1]), f)
    BY <1>1, <2>1, <2>4, TotalScheduled
  <2> QED
    BY <2>3, <2>4, <2>5
<1> QED
  BY <1>3, <1>4 DEF IsAppend, Gains

\* The next microtask is taken.
LEMMA Taken ==
  ASSUME NEW n \in Nat, NEW C \in SUBSET (1..n), NEW ls, NEW st, NEW q, Data(n, C, ls, st, q), q # <<>>
  PROVE  /\ Data(n, C, ls, st, Tail(q)) /\ q[1] \in MicrotaskOf(n, C)
         /\ Gains(ls, st, Tail(q), ls, st, q, Serves(q[1]))
<1>1. st \in Seq(CallOf(n, C)) /\ LineInOrder(st, q) /\ q \in Seq(MicrotaskOf(n, C))
  BY DEF Data
<1>2. LineInOrder(st, Tail(q))
  BY <1>1, NextOrder
<1>3. Tail(q) \in Seq(MicrotaskOf(n, C)) /\ q[1] \in MicrotaskOf(n, C) /\ Inserted(Tail(q), q, 0)
  BY <1>1 DEF Inserted
<1>4. Data(n, C, ls, st, Tail(q))
  BY <1>2, <1>3 DEF Data
<1>5. ASSUME NEW ts, NEW f
      PROVE  Total(ls, st, q, ts, f) = Total(ls, st, Tail(q), ts, f) + Count(Serves(q[1]), f)
  <2>1. Cardinality(Places(ls, f)) \in Nat /\ Cardinality(ts \cap {f}) \in Nat
    BY DataAre
  <2>2. PICK r \in Seq(MicrotaskOf(n, C)), k \in Nat : r = Tail(q) /\ k = 0
    BY <1>3
  <2>3. Inserted(r, q, k) /\ q[k + 1] = q[1]
    BY <1>3, <2>2
  <2>4. Total(ls, st, q, ts, f) = Total(ls, st, r, ts, f) + Count(Serves(q[k + 1]), f)
    BY <1>1, <2>1, <2>3, TotalScheduled
  <2> QED
    BY <2>2, <2>3, <2>4
<1> QED
  BY <1>3, <1>4, <1>5 DEF Gains

\* A listener is added to those of a future; those of the program subscribe in order.
LEMMA Subscribed ==
  ASSUME NEW n \in Nat, NEW C \in SUBSET (1..n), NEW ls, NEW st, NEW q, Data(n, C, ls, st, q),
         NEW k \in 1..n, NEW l \in ListenerOf(n, C), \A i \in DOMAIN ls[k] : Earlier(ls[k][i], l),
         NEW tt, IsUpdate(tt, ls, k, <<l>> \o ls[k])
  PROVE  /\ Data(n, C, tt, st, q)
         /\ Gains(ls, st, q, tt, st, q, <<l>>)
<1> DEFINE s == <<l>> \o ls[k]
<1>1. /\ ls \in Seq(Seq(ListenerOf(n, C))) /\ Len(ls) = n /\ DOMAIN ls = 1..n
      /\ st \in Seq(CallOf(n, C)) /\ q \in Seq(MicrotaskOf(n, C)) /\ ListsInOrder(ls)
  BY DataAre
<1>2. ls[k] \in Seq(ListenerOf(n, C)) /\ s \in Seq(ListenerOf(n, C))
  BY <1>1
<1>3. /\ s[1] = l /\ DOMAIN s = 1..Len(ls[k]) + 1 /\ DOMAIN ls[k] = 1..Len(ls[k]) /\ Len(ls[k]) \in Nat
      /\ \A i \in 1..Len(ls[k]) + 1 : i # 1 => s[i] = ls[k][i - 1]
  BY <1>2
<1>t. tt = [ls EXCEPT ![k] = s]
  BY DEF IsUpdate
<1> HIDE DEF s
<1>4. tt \in Seq(Seq(ListenerOf(n, C))) /\ Len(tt) = n /\ DOMAIN tt = 1..n /\ tt[k] = s /\ \A i \in 1..n : i # k => tt[i] = ls[i]
  BY <1>1, <1>2, <1>t
<1>5. ASSUME NEW i \in DOMAIN s, NEW j \in DOMAIN s, i < j  PROVE Earlier(s[j], s[i])
  <2>1. j - 1 \in DOMAIN ls[k] /\ s[j] = ls[k][j - 1]
    BY <1>3, <1>5
  <2>2. CASE i = 1
    BY <1>3, <2>1, <2>2
  <2>3. CASE i # 1
    <3>1. i - 1 \in DOMAIN ls[k] /\ s[i] = ls[k][i - 1] /\ i - 1 < j - 1
      BY <1>3, <1>5, <2>3
    <3> QED
      BY <1>1, <2>1, <3>1 DEF ListsInOrder
  <2> QED
    BY <2>2, <2>3
<1>6. ListsInOrder(tt)
  BY <1>1, <1>4, <1>5 DEF ListsInOrder
<1>7. Data(n, C, tt, st, q)
  BY <1>4, <1>6 DEF Data
<1>8. ASSUME NEW ts, NEW f  PROVE Total(tt, st, q, ts, f) = Total(ls, st, q, ts, f) + One(l, f)
  <2>1. Total(tt, st, q, ts, f) + Count(ls[k], f) = Total(ls, st, q, ts, f) + Count(s, f)
    <3>1. Replaced(ls, tt, k) /\ k \in Nat
      BY <1>1, <1>4 DEF Replaced
    <3>a. /\ ls \in Seq(Seq(ListenerOf(n, C))) /\ tt \in Seq(Seq(ListenerOf(n, C)))
          /\ st \in Seq(CallOf(n, C)) /\ q \in Seq(MicrotaskOf(n, C))
      BY <1>1, <1>4
    <3>2. Shifted(ls, tt, k, st, q, ts, f)
      BY <3>1, <3>a, TotalReplaced
    <3> QED
      BY <1>4, <3>2, Zenon DEF Shifted
  <2>2. Count(s, f) = Count(ls[k], f) + One(l, f)
    BY <1>2, CountFront DEF s
  <2>3. Count(ls[k], f) \in Nat /\ One(l, f) \in Nat
    BY <1>2, HitsFinite DEF One
  <2>4. Total(ls, st, q, ts, f) \in Nat /\ Total(tt, st, q, ts, f) \in Nat
    BY <1>7, DataAre
  <2> QED
    BY <2>1, <2>2, <2>3, <2>4
<1> QED
  BY <1>7, <1>8, CountOne DEF Gains

\* The listeners of a future are removed.
LEMMA Removed ==
  ASSUME NEW n \in Nat, NEW C \in SUBSET (1..n), NEW ls, NEW st, NEW q, Data(n, C, ls, st, q), NEW k \in 1..n,
         NEW tt, IsUpdate(tt, ls, k, <<>>)
  PROVE  /\ Data(n, C, tt, st, q)
         /\ Gains(tt, st, q, ls, st, q, ls[k])
<1>1. /\ ls \in Seq(Seq(ListenerOf(n, C))) /\ Len(ls) = n /\ DOMAIN ls = 1..n
      /\ st \in Seq(CallOf(n, C)) /\ q \in Seq(MicrotaskOf(n, C)) /\ ListsInOrder(ls)
  BY DataAre
<1>2. ls[k] \in Seq(ListenerOf(n, C)) /\ <<>> \in Seq(ListenerOf(n, C))
  BY <1>1
<1>4. tt \in Seq(Seq(ListenerOf(n, C))) /\ Len(tt) = n /\ DOMAIN tt = 1..n /\ tt[k] = <<>> /\ \A i \in 1..n : i # k => tt[i] = ls[i]
  BY <1>1, <1>2 DEF IsUpdate
<1>5. DOMAIN (<<>>) = {}
  OBVIOUS
<1>6. ListsInOrder(tt)
  BY <1>1, <1>4, <1>5 DEF ListsInOrder
<1>7. Data(n, C, tt, st, q)
  BY <1>4, <1>6 DEF Data
<1>8. ASSUME NEW ts, NEW f  PROVE Total(ls, st, q, ts, f) = Total(tt, st, q, ts, f) + Count(ls[k], f)
  <2>1. Total(tt, st, q, ts, f) + Count(ls[k], f) = Total(ls, st, q, ts, f) + Count(<<>>, f)
    <3>1. Replaced(ls, tt, k) /\ k \in Nat
      BY <1>1, <1>4 DEF Replaced
    <3>a. /\ ls \in Seq(Seq(ListenerOf(n, C))) /\ tt \in Seq(Seq(ListenerOf(n, C)))
          /\ st \in Seq(CallOf(n, C)) /\ q \in Seq(MicrotaskOf(n, C))
      BY <1>1, <1>4
    <3>2. Shifted(ls, tt, k, st, q, ts, f)
      BY <3>1, <3>a, TotalReplaced
    <3> QED
      BY <1>4, <3>2, Zenon DEF Shifted
  <2>2. Count(<<>>, f) = 0
    BY CountFacts
  <2>4. Total(ls, st, q, ts, f) \in Nat
    BY DataAre
  <2> QED
    BY <2>1, <2>2, <2>4
<1> QED
  BY <1>7, <1>8 DEF Gains

\* More futures are complete.
LEMMA Completed ==
  ASSUME NEW n \in Nat, NEW C \in SUBSET (1..n), NEW D \in SUBSET (1..n), C \subseteq D,
         NEW ls, NEW st, NEW q, Data(n, C, ls, st, q)
  PROVE  Data(n, D, ls, st, q)
<1>1. /\ Seq(Seq(ListenerOf(n, C))) \subseteq Seq(Seq(ListenerOf(n, D)))
      /\ Seq(CallOf(n, C)) \subseteq Seq(CallOf(n, D))
      /\ Seq(MicrotaskOf(n, C)) \subseteq Seq(MicrotaskOf(n, D))
  <2>1. n <= n
    OBVIOUS
  <2> QED
    BY <2>1, Wider
<1> QED
  BY <1>1 DEF Data

\* A future is created.
LEMMA Created ==
  ASSUME NEW n \in Nat, NEW C \in SUBSET (1..n), NEW ls, NEW st, NEW q, Data(n, C, ls, st, q),
         NEW ms, IsAppend(ms, ls, <<>>)
  PROVE  /\ Data(n + 1, C, ms, st, q)
         /\ \A ts, f : Total(ms, st, q, ts, f) = Total(ls, st, q, ts, f)
<1>1. /\ ls \in Seq(Seq(ListenerOf(n, C))) /\ Len(ls) = n /\ DOMAIN ls = 1..n
      /\ st \in Seq(CallOf(n, C)) /\ q \in Seq(MicrotaskOf(n, C)) /\ ListsInOrder(ls) /\ LineInOrder(st, q)
  BY DataAre
<1>2. /\ Seq(Seq(ListenerOf(n, C))) \subseteq Seq(Seq(ListenerOf(n + 1, C)))
      /\ Seq(CallOf(n, C)) \subseteq Seq(CallOf(n + 1, C))
      /\ Seq(MicrotaskOf(n, C)) \subseteq Seq(MicrotaskOf(n + 1, C))
  <2>1. n + 1 \in Nat /\ n <= n + 1 /\ C \subseteq C
    OBVIOUS
  <2> QED
    BY <2>1, Wider
<1>3. /\ Append(ls, <<>>) \in Seq(Seq(ListenerOf(n + 1, C))) /\ Len(Append(ls, <<>>)) = n + 1
      /\ \A i \in DOMAIN Append(ls, <<>>) : (i \in 1..n /\ Append(ls, <<>>)[i] = ls[i]) \/ Append(ls, <<>>)[i] = <<>>
  <2>1. ls \in Seq(Seq(ListenerOf(n + 1, C))) /\ <<>> \in Seq(ListenerOf(n + 1, C))
    BY <1>1, <1>2
  <2>2. Append(ls, <<>>) \in Seq(Seq(ListenerOf(n + 1, C))) /\ Len(Append(ls, <<>>)) = n + 1
    BY <1>1, <2>1
  <2> QED
    BY <1>1, <2>1, <2>2
<1>4. DOMAIN (<<>>) = {}
  OBVIOUS
<1>5. ListsInOrder(Append(ls, <<>>))
  BY <1>1, <1>3, <1>4 DEF ListsInOrder
<1>6. Data(n + 1, C, Append(ls, <<>>), st, q)
  BY <1>1, <1>2, <1>3, <1>5 DEF Data
<1>7. ASSUME NEW ts, NEW f  PROVE Total(Append(ls, <<>>), st, q, ts, f) = Total(ls, st, q, ts, f)
  BY <1>1, TotalCreated
<1> QED
  BY <1>6, <1>7 DEF IsAppend

-----------------------------------------------------------------------------
(* Who is in charge                                                        *)

Done(s, f) == s[f] \in {"VALUE", "ERROR"}
CompleteIn(s) == {f \in 1..Len(s) : Done(s, f)}

\* How many are in charge of f when the futures are in the states s.
Expected(s, f) == IF Done(s, f) \/ (f \in Completers /\ s[f] = "INCOMPLETE") THEN 0 ELSE 1

\* The data belong to the states s, and the right number is in charge of each future.
Balanced(s, ls, st, q, ts) ==
  /\ s \in Seq(States) /\ ts \subseteq 1..Len(s)
  /\ Data(Len(s), CompleteIn(s), ls, st, q)
  /\ \A g \in 1..Len(s) : Total(ls, st, q, ts, g) = Expected(s, g)

\* In the middle of a step: the one that was in charge of f has been taken away.
Released(s, ls, st, q, ts, f) ==
  /\ s \in Seq(States) /\ ts \subseteq 1..Len(s)
  /\ f \in 1..Len(s) /\ ~Done(s, f)
  /\ Data(Len(s), CompleteIn(s), ls, st, q)
  /\ \A g \in 1..Len(s) : Total(ls, st, q, ts, g) = IF g = f THEN 0 ELSE Expected(s, g)

\* What a change of the state of one future does.
LEMMA StateSet ==
  ASSUME NEW s \in Seq(States), NEW f \in 1..Len(s), ~Done(s, f), NEW v \in States \ {"INCOMPLETE"},
         NEW z, IsUpdate(z, s, f, v)
  PROVE  /\ z \in Seq(States) /\ Len(z) = Len(s)
         /\ CompleteIn(z) = IF v \in {"VALUE", "ERROR"} THEN CompleteIn(s) \cup {f} ELSE CompleteIn(s)
         /\ Expected(z, f) = IF v \in {"VALUE", "ERROR"} THEN 0 ELSE 1
         /\ \A g \in 1..Len(s) : g # f => Expected(z, g) = Expected(s, g)
<1>1. /\ z \in Seq(States) /\ Len(z) = Len(s) /\ z[f] = v
      /\ \A g \in 1..Len(s) : g # f => z[g] = s[g]
  BY DEF IsUpdate
<1>2. CompleteIn(z) = IF v \in {"VALUE", "ERROR"} THEN CompleteIn(s) \cup {f} ELSE CompleteIn(s)
  BY ONLY <1>1, f \in 1..Len(s), ~Done(s, f) DEF CompleteIn, Done
<1>3. Expected(z, f) = IF v \in {"VALUE", "ERROR"} THEN 0 ELSE 1
  BY <1>1 DEF Expected, Done
<1>4. \A g \in 1..Len(s) : g # f => Expected(z, g) = Expected(s, g)
  BY <1>1 DEF Expected, Done
<1> QED
  BY <1>1, <1>2, <1>3, <1>4

\* One or none is in charge of a future; of one that is complete, none.
LEMMA ExpectedIs ==
  ASSUME NEW s, NEW f
  PROVE  Expected(s, f) \in {0, 1} /\ (Expected(s, f) = 1 => ~Done(s, f))
BY DEF Expected

\* The parts of a balance.
LEMMA BalancedAre ==
  ASSUME NEW s, NEW ls, NEW st, NEW q, NEW ts, Balanced(s, ls, st, q, ts)
  PROVE  /\ s \in Seq(States) /\ Len(s) \in Nat /\ CompleteIn(s) \in SUBSET (1..Len(s)) /\ ts \subseteq 1..Len(s)
         /\ Data(Len(s), CompleteIn(s), ls, st, q)
         /\ \A g \in 1..Len(s) : Total(ls, st, q, ts, g) = Expected(s, g)
BY DEF Balanced, CompleteIn

\* The data before have one more in charge of f than the data after.
OneLess(n, ls, st, q, ts, tt, r, us, f) ==
  \A g \in 1..n : Total(ls, st, q, ts, g) = Total(ls, tt, r, us, g) + (IF g = f THEN 1 ELSE 0)

\* The only one in charge of f is taken away.
LEMMA Release ==
  ASSUME NEW s, NEW ls, NEW st, NEW q, NEW ts, Balanced(s, ls, st, q, ts), NEW f \in 1..Len(s),
         NEW tt, NEW r, NEW us, us \subseteq 1..Len(s), Data(Len(s), CompleteIn(s), ls, tt, r),
         OneLess(Len(s), ls, st, q, ts, tt, r, us, f)
  PROVE  Released(s, ls, tt, r, us, f) /\ Expected(s, f) = 1
<1>1. /\ s \in Seq(States) /\ Len(s) \in Nat /\ CompleteIn(s) \in SUBSET (1..Len(s))
      /\ \A g \in 1..Len(s) : Total(ls, st, q, ts, g) = Expected(s, g)
  BY BalancedAre
<1>2. \A g \in 1..Len(s) : Total(ls, tt, r, us, g) \in Nat
  BY <1>1, DataAre
<1>3. \A g \in 1..Len(s) : Total(ls, tt, r, us, g) + (IF g = f THEN 1 ELSE 0) = Expected(s, g)
  BY <1>1 DEF OneLess
<1>4. Total(ls, tt, r, us, f) = 0 /\ Expected(s, f) = 1
  <2>1. Total(ls, tt, r, us, f) + 1 = Expected(s, f)
    BY <1>3
  <2>2. Expected(s, f) \in {0, 1} /\ Total(ls, tt, r, us, f) \in Nat
    BY <1>2, ExpectedIs
  <2> QED
    BY <2>1, <2>2
<1>5. \A g \in 1..Len(s) : g # f => Total(ls, tt, r, us, g) = Expected(s, g)
  BY <1>2, <1>3
<1>6. ~Done(s, f)
  BY <1>4, ExpectedIs
<1> QED
  BY <1>1, <1>4, <1>5, <1>6 DEF Released

\* A completer is in charge of the future that it may still complete.
LEMMA ReleasedCompleter ==
  ASSUME NEW s, NEW ls, NEW st, NEW q, NEW ts, Balanced(s, ls, st, q, ts),
         NEW f \in 1..Len(s), f \in Completers, s[f] = "INCOMPLETE"
  PROVE  Released(s, ls, st, q, ts, f)
<1>1. Expected(s, f) = 0 /\ ~Done(s, f)
  BY DEF Expected, Done
<1> QED
  BY <1>1 DEF Balanced, Released

\* So is the timer of timeout().
LEMMA ReleasedTimer ==
  ASSUME NEW s, NEW ls, NEW st, NEW q, NEW ts, Balanced(s, ls, st, q, ts), NEW f \in ts
  PROVE  f \in 1..Len(s) /\ Released(s, ls, st, q, ts \ {f}, f) /\ Expected(s, f) = 1
<1>1. /\ s \in Seq(States) /\ Len(s) \in Nat /\ CompleteIn(s) \in SUBSET (1..Len(s)) /\ ts \subseteq 1..Len(s)
      /\ Data(Len(s), CompleteIn(s), ls, st, q)
      /\ \A g \in 1..Len(s) : Total(ls, st, q, ts, g) = Expected(s, g)
  BY BalancedAre
<1>2. /\ ls \in Seq(Seq(ListenerOf(Len(s), CompleteIn(s)))) /\ st \in Seq(CallOf(Len(s), CompleteIn(s)))
      /\ q \in Seq(MicrotaskOf(Len(s), CompleteIn(s)))
  BY <1>1, DataAre
<1>3. PICK us : us = ts \ {f}
  OBVIOUS
<1>4. f \notin us /\ us \cup {f} = ts /\ us \subseteq 1..Len(s) /\ f \in 1..Len(s)
  BY <1>1, <1>3
<1>5. ASSUME NEW g \in 1..Len(s)
      PROVE  Total(ls, st, q, ts, g) = Total(ls, st, q, us, g) + (IF f = g THEN 1 ELSE 0)
  <2>1. PICK n, C : n \in Nat /\ n = Len(s) /\ C = CompleteIn(s) /\ C \in SUBSET (1..n)
    BY <1>1, Zenon
  <2>2. ls \in Seq(Seq(ListenerOf(n, C))) /\ st \in Seq(CallOf(n, C)) /\ q \in Seq(MicrotaskOf(n, C))
    BY <1>2, <2>1
  <2> QED
    <3>1. Added(us, ts, f)
      BY <1>4 DEF Added
    <3> QED
      BY ONLY <2>1, <2>2, <3>1, TotalTimer
<1>6. OneLess(Len(s), ls, st, q, ts, st, q, us, f)
  BY <1>4, <1>5 DEF OneLess
<1>7. Released(s, ls, st, q, us, f) /\ Expected(s, f) = 1
  <2>1. Data(Len(s), CompleteIn(s), ls, st, q)
    BY <1>1
  <2> QED
    BY <1>4, <1>6, <2>1, Release, Zenon
<1> QED
  BY <1>3, <1>4, <1>7

\* So is the only listener of the innermost call.
LEMMA ReleasedListener ==
  ASSUME NEW s, NEW ls, NEW st, NEW q, NEW ts, Balanced(s, ls, st, q, ts),
         st # <<>>, NEW l, Last(st).listeners = <<l>>
  PROVE  /\ l \in ListenerOf(Len(s), CompleteIn(s)) /\ l.result \in 1..Len(s)
         /\ l.kind # "timeout" => Released(s, ls, Front(st), q, ts, l.result) /\ Expected(s, l.result) = 1
         /\ l.kind = "timeout" /\ l.result \in ts => Released(s, ls, Front(st), q, ts \ {l.result}, l.result)
         /\ l.kind = "timeout" => Balanced(s, ls, Front(st), q, ts)
<1> DEFINE f == l.result
<1>1. /\ s \in Seq(States) /\ Len(s) \in Nat /\ CompleteIn(s) \in SUBSET (1..Len(s)) /\ ts \subseteq 1..Len(s)
      /\ Data(Len(s), CompleteIn(s), ls, st, q)
      /\ \A g \in 1..Len(s) : Total(ls, st, q, ts, g) = Expected(s, g)
  BY BalancedAre
<1>2. /\ Data(Len(s), CompleteIn(s), ls, Front(st), q) /\ Last(st) \in CallOf(Len(s), CompleteIn(s))
      /\ \A g : Total(ls, st, q, ts, g) = Total(ls, Front(st), q, ts, g) + Count(<<l>>, g)
  <2>1. PICK n, C : n \in Nat /\ n = Len(s) /\ C = CompleteIn(s) /\ C \in SUBSET (1..n)
    BY <1>1, Zenon
  <2>2. Data(n, C, ls, st, q)
    BY <1>1, <2>1
  <2>3. /\ Data(n, C, ls, Front(st), q) /\ Last(st) \in CallOf(n, C)
        /\ Gains(ls, Front(st), q, ls, st, q, Last(st).listeners)
    BY <2>1, <2>2, Popped
  <2> QED
    BY <2>1, <2>3 DEF Gains
<1>3. l \in ListenerOf(Len(s), CompleteIn(s))
  <2>1. <<l>> \in Seq(ListenerOf(Len(s), CompleteIn(s)))
    BY <1>2 DEF CallOf
  <2> QED
    BY <2>1
<1>4. f \in 1..Len(s)
  BY <1>3 DEF ListenerOf
<1>5. \A g : Total(ls, st, q, ts, g) = Total(ls, Front(st), q, ts, g) + One(l, g)
  BY <1>2, <1>3, CountFacts
<1> HIDE DEF f
<1>6. ASSUME l.kind # "timeout"  PROVE Released(s, ls, Front(st), q, ts, f) /\ Expected(s, f) = 1
  <2>1. \A g : One(l, g) = IF g = f THEN 1 ELSE 0
    BY <1>6 DEF One, InCharge, f
  <2>2. OneLess(Len(s), ls, st, q, ts, Front(st), q, ts, f)
    BY <1>5, <2>1 DEF OneLess
  <2>3. ts \subseteq 1..Len(s) /\ Data(Len(s), CompleteIn(s), ls, Front(st), q)
    BY <1>1, <1>2
  <2> QED
    BY <1>4, <2>2, <2>3, Release, Zenon
<1>7. ASSUME l.kind = "timeout"  PROVE \A g \in 1..Len(s) : Total(ls, st, q, ts, g) = Total(ls, Front(st), q, ts, g)
  <2>1. \A g : One(l, g) = 0
    BY <1>7 DEF One, InCharge
  <2>2. \A g : Total(ls, Front(st), q, ts, g) \in Nat
    BY <1>1, <1>2, DataAre
  <2> QED
    BY <1>5, <2>1, <2>2
<1>8. ASSUME l.kind = "timeout"  PROVE Balanced(s, ls, Front(st), q, ts)
  BY <1>1, <1>2, <1>7, <1>8 DEF Balanced
<1>9. ASSUME l.kind = "timeout", f \in ts  PROVE Released(s, ls, Front(st), q, ts \ {f}, f)
  <2>1. Balanced(s, ls, Front(st), q, ts)
    BY <1>8, <1>9
  <2> QED
    BY <1>4, <1>9, <2>1, ReleasedTimer
<1> QED
  BY <1>3, <1>4, <1>6, <1>8, <1>9 DEF f

\* So is a microtask that completes a future.
LEMMA ReleasedMicrotask ==
  ASSUME NEW s, NEW ls, NEW st, NEW q, NEW ts, Balanced(s, ls, st, q, ts), q # <<>>
  PROVE  /\ q[1] \in MicrotaskOf(Len(s), CompleteIn(s))
         /\ q[1].op \in {"complete", "chain"} => Released(s, ls, st, Tail(q), ts, q[1].future)
<1>1. /\ s \in Seq(States) /\ Len(s) \in Nat /\ CompleteIn(s) \in SUBSET (1..Len(s)) /\ ts \subseteq 1..Len(s)
      /\ Data(Len(s), CompleteIn(s), ls, st, q)
      /\ \A g \in 1..Len(s) : Total(ls, st, q, ts, g) = Expected(s, g)
  BY BalancedAre
<1>2. /\ Data(Len(s), CompleteIn(s), ls, st, Tail(q)) /\ q[1] \in MicrotaskOf(Len(s), CompleteIn(s))
      /\ \A g : Total(ls, st, q, ts, g) = Total(ls, st, Tail(q), ts, g) + Count(Serves(q[1]), g)
  <2>1. PICK n, C : n \in Nat /\ n = Len(s) /\ C = CompleteIn(s) /\ C \in SUBSET (1..n)
    BY <1>1, Zenon
  <2>2. Data(n, C, ls, st, q)
    BY <1>1, <2>1
  <2>3. /\ Data(n, C, ls, st, Tail(q)) /\ q[1] \in MicrotaskOf(n, C)
        /\ Gains(ls, st, Tail(q), ls, st, q, Serves(q[1]))
    BY <2>1, <2>2, Taken
  <2> QED
    BY <2>1, <2>3 DEF Gains
<1>3. ASSUME q[1].op \in {"complete", "chain"}  PROVE Released(s, ls, st, Tail(q), ts, q[1].future)
  <2> DEFINE f == q[1].future
             l == Listener("chain", f)
  <2>1. f \in 1..Len(s)
    BY <1>1, <1>2, <1>3, MicrotaskIs
  <2>2. Serves(q[1]) = <<l>>
    BY <1>3 DEF Serves
  <2>3. \A g : One(l, g) = IF g = f THEN 1 ELSE 0
    BY DEF One, InCharge, Listener
  <2>4. \A g : Count(<<l>>, g) = One(l, g)
    BY CountFacts
  <2> HIDE DEF f, l
  <2>5. OneLess(Len(s), ls, st, q, ts, st, Tail(q), ts, f)
    BY <1>2, <2>2, <2>3, <2>4 DEF OneLess
  <2>6. Released(s, ls, st, Tail(q), ts, f)
    <3>1. Data(Len(s), CompleteIn(s), ls, st, Tail(q)) /\ ts \subseteq 1..Len(s)
      BY <1>1, <1>2
    <3> QED
      BY <2>1, <2>5, <3>1, Release, Zenon
  <2> QED
    BY <2>6 DEF f
<1> QED
  BY <1>2, <1>3

-----------------------------------------------------------------------------
(* What is done with a future that no one is in charge of                  *)

\* A call for a future that was not complete before, or for a listener that is not of the
\* program, can be made at any time.
LEMMA MayBeOnTop ==
  ASSUME NEW n \in Nat, NEW C \in SUBSET (1..n), NEW ls, NEW st, NEW q, Data(n, C, ls, st, q), NEW c
  PROVE  /\ /\ c.source \notin C \cup {0}
            /\ \A i, j \in DOMAIN c.listeners : i < j => Earlier(c.listeners[i], c.listeners[j])
            => OnTop(c, st, q)
         /\ \A l : ~IsUser(l) /\ c.listeners = <<l>> => OnTop(c, st, q)
<1>1. st \in Seq(CallOf(n, C)) /\ q \in Seq(MicrotaskOf(n, C))
  BY DataAre
<1>2. \A k \in DOMAIN st : st[k].source \in C \cup {0}
  <2>1. \A k \in DOMAIN st : st[k] \in CallOf(n, C)
    BY <1>1
  <2> QED
    BY <2>1 DEF CallOf
<1>3. \A i \in DOMAIN q : IsPropagation(q[i]) => q[i].future \in C
  <2>1. \A i \in DOMAIN q : q[i] \in MicrotaskOf(n, C)
    BY <1>1
  <2> QED
    BY <2>1, MicrotaskIs DEF IsPropagation
<1>4. ASSUME c.source \notin C \cup {0}, \A i, j \in DOMAIN c.listeners : i < j => Earlier(c.listeners[i], c.listeners[j])
      PROVE  OnTop(c, st, q)
  BY <1>2, <1>3, <1>4 DEF OnTop
<1>5. ASSUME NEW l, ~IsUser(l), c.listeners = <<l>>  PROVE OnTop(c, st, q)
  <2>1. DOMAIN c.listeners = {1} /\ c.listeners[1] = l
    BY <1>5
  <2>2. \A t : AllEarlier(c.listeners, t)
    BY <1>5, <2>1 DEF AllEarlier, Earlier
  <2>3. \A i, j \in DOMAIN c.listeners : i < j => Earlier(c.listeners[i], c.listeners[j])
    BY <2>1
  <2> QED
    BY <2>2, <2>3 DEF OnTop
<1> QED
  BY <1>4, <1>5

\* _removeListeners() turns the list round: the oldest listener is first.
LEMMA ReverseInOrder ==
  ASSUME NEW S, NEW s \in Seq(S), \A i, j \in DOMAIN s : i < j => Earlier(s[j], s[i])
  PROVE  /\ Reverse(s) \in Seq(S)
         /\ \A i, j \in DOMAIN Reverse(s) : i < j => Earlier(Reverse(s)[i], Reverse(s)[j])
<1>1. PICK n \in Nat : n = Len(s)
  OBVIOUS
<1>2. DOMAIN s = 1..n /\ Reverse(s) = [i \in 1..n |-> s[(n - i) + 1]]
  BY <1>1 DEF Reverse
<1>3. \A i \in 1..n : (n - i) + 1 \in 1..n
  OBVIOUS
<1>4. Reverse(s) \in Seq(S)
  BY <1>2, <1>3
<1>5. \A i, j \in 1..n : i < j => (n - j) + 1 < (n - i) + 1
  OBVIOUS
<1>6. ASSUME NEW i \in 1..n, NEW j \in 1..n, i < j  PROVE Earlier(s[(n - i) + 1], s[(n - j) + 1])
  BY <1>2, <1>3, <1>5, <1>6
<1> QED
  BY <1>2, <1>4, <1>6

\* The parts of a release.
LEMMA ReleasedAre ==
  ASSUME NEW s, NEW ls, NEW st, NEW q, NEW ts, NEW f, Released(s, ls, st, q, ts, f)
  PROVE  /\ s \in Seq(States) /\ Len(s) \in Nat /\ CompleteIn(s) \in SUBSET (1..Len(s)) /\ ts \subseteq 1..Len(s)
         /\ f \in 1..Len(s) /\ ~Done(s, f) /\ f \notin CompleteIn(s)
         /\ Data(Len(s), CompleteIn(s), ls, st, q)
         /\ \A g \in 1..Len(s) : Total(ls, st, q, ts, g) = IF g = f THEN 0 ELSE Expected(s, g)
BY DEF Released, CompleteIn

\* It is completed, and its listeners are called.
LEMMA IsFinished ==
  ASSUME NEW s, NEW ls, NEW st, NEW q, NEW ts, NEW f, Released(s, ls, st, q, ts, f),
         NEW v \in {"VALUE", "ERROR"}
  PROVE  Balanced([s EXCEPT ![f] = v], [ls EXCEPT ![f] = <<>>], Append(st, Call(f, Reverse(ls[f]))), q, ts)
<1>1. /\ s \in Seq(States) /\ Len(s) \in Nat /\ CompleteIn(s) \in SUBSET (1..Len(s)) /\ ts \subseteq 1..Len(s)
      /\ f \in 1..Len(s) /\ ~Done(s, f) /\ f \notin CompleteIn(s)
      /\ Data(Len(s), CompleteIn(s), ls, st, q)
      /\ \A g \in 1..Len(s) : Total(ls, st, q, ts, g) = IF g = f THEN 0 ELSE Expected(s, g)
  BY ReleasedAre
<1>n. PICK n \in Nat : n = Len(s)
  BY <1>1
<1>2. PICK C, D, z, ms, r, c, tt :
        /\ n = Len(s) /\ C = CompleteIn(s) /\ D = C \cup {f}
        /\ z = [s EXCEPT ![f] = v] /\ ms = [ls EXCEPT ![f] = <<>>]
        /\ r = Reverse(ls[f]) /\ c = Call(f, r) /\ tt = Append(st, c)
  BY <1>1, <1>n, Zenon
<1>a. IsUpdate(z, s, f, v) /\ IsUpdate(ms, ls, f, <<>>) /\ IsAppend(tt, st, c)
  BY <1>2 DEF IsUpdate, IsAppend
<1>b. C \in SUBSET (1..n) /\ D \in SUBSET (1..n) /\ C \subseteq D /\ f \in 1..n /\ f \notin C /\ f \in D
  BY <1>1, <1>2
<1>c. Data(n, C, ls, st, q)
  BY <1>1, <1>2
<1>3. z \in Seq(States) /\ Len(z) = n /\ CompleteIn(z) = D /\ \A g \in 1..n : Expected(z, g) = IF g = f THEN 0 ELSE Expected(s, g)
  <2>1. v \in States \ {"INCOMPLETE"}
    BY DEF States
  <2>2. /\ z \in Seq(States) /\ Len(z) = Len(s)
        /\ CompleteIn(z) = IF v \in {"VALUE", "ERROR"} THEN CompleteIn(s) \cup {f} ELSE CompleteIn(s)
        /\ Expected(z, f) = IF v \in {"VALUE", "ERROR"} THEN 0 ELSE 1
        /\ \A g \in 1..Len(s) : g # f => Expected(z, g) = Expected(s, g)
    BY <1>1, <1>a, <2>1, StateSet
  <2> QED
    BY <1>2, <2>2
<1>5. Data(n, C, ms, st, q) /\ Gains(ms, st, q, ls, st, q, ls[f])
  BY <1>a, <1>b, <1>c, Removed
<1>6. Data(n, D, ms, st, q)
  BY <1>b, <1>5, Completed
<1>7. /\ ls[f] \in Seq(ListenerOf(n, C)) /\ \A i, j \in DOMAIN ls[f] : i < j => Earlier(ls[f][j], ls[f][i])
  <2>1. ls \in Seq(Seq(ListenerOf(n, C))) /\ DOMAIN ls = 1..n /\ ListsInOrder(ls)
    BY <1>b, <1>c, DataAre
  <2>2. f \in DOMAIN ls /\ ls[f] \in Seq(ListenerOf(n, C))
    BY <1>b, <2>1
  <2> QED
    BY <2>1, <2>2, Zenon DEF ListsInOrder
<1>9. r \in Seq(ListenerOf(n, D)) /\ \A i, j \in DOMAIN r : i < j => Earlier(r[i], r[j])
  <2>1. r \in Seq(ListenerOf(n, C)) /\ \A i, j \in DOMAIN r : i < j => Earlier(r[i], r[j])
    BY <1>2, <1>7, ReverseInOrder
  <2>2. ListenerOf(n, C) \subseteq ListenerOf(n, D)
    <3>1. n <= n
      OBVIOUS
    <3> QED
      BY <1>b, <3>1, Wider
  <2> QED
    BY <2>1, <2>2, SeqMonotonic
<1>10. c \in CallOf(n, D) /\ c.source = f /\ c.listeners = r
  <2>1. /\ Call(f, r) \in CallOf(n, D) /\ Call(f, r).source = f /\ Call(f, r).listeners = r
    <3>1. r \in Seq(ListenerOf(n, D))
      BY <1>9
    <3> QED
      BY <1>b, <3>1, MadeCall
  <2> QED
    BY <1>2, <2>1
<1>11. OnTop(c, st, q)
  <2>1. c.source \notin C \cup {0}
    BY <1>b, <1>10
  <2> QED
    BY <1>b, <1>c, <1>9, <1>10, <2>1, MayBeOnTop
<1>12. Data(n, D, ms, tt, q) /\ Gains(ms, st, q, ms, tt, q, c.listeners)
  BY <1>a, <1>b, <1>6, <1>10, <1>11, Pushed
<1>13. \A g : Count(c.listeners, g) = Count(ls[f], g)
  BY <1>2, <1>7, <1>10, CountFacts
<1>14. ASSUME NEW g \in 1..n  PROVE Total(ms, tt, q, ts, g) = Expected(z, g)
  <2>1. Total(ms, tt, q, ts, g) = Total(ls, st, q, ts, g)
    BY <1>5, <1>12, <1>13 DEF Gains
  <2>2. Total(ls, st, q, ts, g) = IF g = f THEN 0 ELSE Expected(s, g)
    BY <1>1, <1>2
  <2> QED
    BY <1>3, <2>1, <2>2
<1>15. Balanced(z, ms, tt, q, ts)
  BY <1>1, <1>2, <1>3, <1>12, <1>14 DEF Balanced
<1> QED
  BY <1>2, <1>15

\* Another listener is put in charge of it.
LEMMA Charged ==
  ASSUME NEW s, NEW ls, NEW st, NEW q, NEW ts, NEW f, Released(s, ls, st, q, ts, f),
         NEW v \in {"CHAINED", "PENDING_COMPLETE"}, NEW z, IsUpdate(z, s, f, v),
         NEW ms, NEW tt, NEW r, Data(Len(s), CompleteIn(s), ms, tt, r),
         NEW l, InCharge(l, f), Gains(ls, st, q, ms, tt, r, <<l>>)
  PROVE  Balanced(z, ms, tt, r, ts)
<1>1. /\ s \in Seq(States) /\ Len(s) \in Nat /\ ts \subseteq 1..Len(s)
      /\ f \in 1..Len(s) /\ ~Done(s, f)
      /\ \A g \in 1..Len(s) : Total(ls, st, q, ts, g) = IF g = f THEN 0 ELSE Expected(s, g)
  BY ReleasedAre
<1>2. /\ z \in Seq(States) /\ Len(z) = Len(s) /\ CompleteIn(z) = CompleteIn(s) /\ Expected(z, f) = 1
      /\ \A g \in 1..Len(s) : g # f => Expected(z, g) = Expected(s, g)
  <2>1. v \in States \ {"INCOMPLETE"} /\ v \notin {"VALUE", "ERROR"}
    BY DEF States
  <2>2. /\ z \in Seq(States) /\ Len(z) = Len(s)
        /\ CompleteIn(z) = IF v \in {"VALUE", "ERROR"} THEN CompleteIn(s) \cup {f} ELSE CompleteIn(s)
        /\ Expected(z, f) = IF v \in {"VALUE", "ERROR"} THEN 0 ELSE 1
        /\ \A g \in 1..Len(s) : g # f => Expected(z, g) = Expected(s, g)
    BY <1>1, <2>1, StateSet
  <2> QED
    BY <2>1, <2>2
<1>3. \A g : Count(<<l>>, g) = IF g = f THEN 1 ELSE 0
  BY CountOne DEF One, InCharge
<1>4. ASSUME NEW g \in 1..Len(s)  PROVE Total(ms, tt, r, ts, g) = Expected(z, g)
  <2>1. Total(ms, tt, r, ts, g) = Total(ls, st, q, ts, g) + (IF g = f THEN 1 ELSE 0)
    BY <1>3 DEF Gains
  <2>2. CASE g = f
    BY <1>1, <1>2, <2>1, <2>2
  <2>3. CASE g # f
    <3>1. Total(ls, st, q, ts, g) = Expected(s, g) /\ Expected(s, g) \in {0, 1}
      BY <1>1, <2>3, ExpectedIs
    <3> QED
      BY <1>2, <2>1, <2>3, <3>1
  <2> QED
    BY <2>2, <2>3
<1> QED
  BY <1>1, <1>2, <1>4 DEF Balanced

\* It is chained to a future that is complete.
LEMMA IsChained ==
  ASSUME NEW s, NEW ls, NEW st, NEW q, NEW ts, NEW f, Released(s, ls, st, q, ts, f),
         NEW source \in CompleteIn(s)
  PROVE  Balanced([s EXCEPT ![f] = "CHAINED"], ls, Append(st, Call(source, <<Listener("chain", f)>>)), q, ts)
<1>1. /\ Len(s) \in Nat /\ CompleteIn(s) \in SUBSET (1..Len(s))
      /\ f \in 1..Len(s) /\ Data(Len(s), CompleteIn(s), ls, st, q)
  BY ReleasedAre
<1>2. PICK z, l, c, tt : /\ z = [s EXCEPT ![f] = "CHAINED"] /\ l = Listener("chain", f)
                         /\ c = Call(source, <<l>>) /\ tt = Append(st, c)
  BY Zenon
<1>3. IsUpdate(z, s, f, "CHAINED") /\ IsAppend(tt, st, c)
  BY <1>2 DEF IsUpdate, IsAppend
<1>4. l \in ListenerOf(Len(s), CompleteIn(s)) /\ InCharge(l, f) /\ ~IsUser(l)
  BY <1>1, <1>2, MadeChain
<1>5. c \in CallOf(Len(s), CompleteIn(s)) /\ c.listeners = <<l>>
  <2>0. <<l>> \in Seq(ListenerOf(Len(s), CompleteIn(s)))
    BY <1>4
  <2>1. PICK ll \in Seq(ListenerOf(Len(s), CompleteIn(s))) : ll = <<l>>
    BY <2>0
  <2>2. Call(source, ll) \in CallOf(Len(s), CompleteIn(s)) /\ Call(source, ll).listeners = ll
    BY <1>1, MadeCall
  <2> QED
    BY <1>2, <2>1, <2>2
<1>6. OnTop(c, st, q)
  BY <1>1, <1>4, <1>5, MayBeOnTop
<1>7. Data(Len(s), CompleteIn(s), ls, tt, q) /\ Gains(ls, st, q, ls, tt, q, <<l>>)
  <2>1. Data(Len(s), CompleteIn(s), ls, tt, q) /\ Gains(ls, st, q, ls, tt, q, c.listeners)
    BY <1>1, <1>3, <1>5, <1>6, Pushed
  <2> QED
    BY <1>5, <2>1
<1>8. Balanced(z, ls, tt, q, ts)
  BY <1>3, <1>4, <1>7, Charged
<1> QED
  BY <1>2, <1>8

\* A listener waits for another future.
LEMMA IsAwaiting ==
  ASSUME NEW s, NEW ls, NEW st, NEW q, NEW ts, NEW f, Released(s, ls, st, q, ts, f),
         NEW source \in 1..Len(s), NEW l \in ListenerOf(Len(s), CompleteIn(s)), InCharge(l, f), ~IsUser(l)
  PROVE  /\ Balanced([s EXCEPT ![f] = "CHAINED"], [ls EXCEPT ![source] = <<l>> \o ls[source]], st, q, ts)
         /\ Done(s, source) => Balanced([s EXCEPT ![f] = "CHAINED"], ls, st, Append(q, Propagate(source, l)), ts)
<1>1. /\ Len(s) \in Nat /\ CompleteIn(s) \in SUBSET (1..Len(s))
      /\ f \in 1..Len(s) /\ Data(Len(s), CompleteIn(s), ls, st, q)
  BY ReleasedAre
<1>2. PICK z, ms, m, r : /\ z = [s EXCEPT ![f] = "CHAINED"] /\ ms = [ls EXCEPT ![source] = <<l>> \o ls[source]]
                         /\ m = Propagate(source, l) /\ r = Append(q, m)
  BY Zenon
<1>3. IsUpdate(z, s, f, "CHAINED") /\ IsUpdate(ms, ls, source, <<l>> \o ls[source]) /\ IsAppend(r, q, m)
  BY <1>2 DEF IsUpdate, IsAppend
<1>4. \A x : Earlier(x, l)
  BY DEF Earlier
<1>5. Data(Len(s), CompleteIn(s), ms, st, q) /\ Gains(ls, st, q, ms, st, q, <<l>>)
  BY <1>1, <1>3, <1>4, Subscribed
<1>6. Balanced(z, ms, st, q, ts)
  BY <1>3, <1>5, Charged
<1>7. ASSUME Done(s, source)  PROVE Balanced(z, ls, st, r, ts)
  <2>1. m \in MicrotaskOf(Len(s), CompleteIn(s)) /\ m.with = l /\ Serves(m) = <<l>>
    <3>1. source \in CompleteIn(s)
      BY <1>7 DEF CompleteIn
    <3> QED
      BY <1>2, <3>1 DEF Propagate, MicrotaskOf, Serves
  <2>2. Data(Len(s), CompleteIn(s), ls, st, r) /\ Gains(ls, st, q, ls, st, r, Serves(m))
    BY <1>1, <1>3, <1>4, <2>1, ScheduledLate
  <2> QED
    BY <1>3, <2>1, <2>2, Charged
<1> QED
  BY <1>2, <1>6, <1>7

\* A microtask will complete it.
LEMMA IsPending ==
  ASSUME NEW s, NEW ls, NEW st, NEW q, NEW ts, NEW f, Released(s, ls, st, q, ts, f),
         NEW m \in MicrotaskOf(Len(s), CompleteIn(s)), m.op \in {"complete", "chain"}, m.future = f
  PROVE  Balanced([s EXCEPT ![f] = "PENDING_COMPLETE"], ls, st, Append(q, m), ts)
<1>1. /\ Len(s) \in Nat /\ CompleteIn(s) \in SUBSET (1..Len(s))
      /\ f \in 1..Len(s) /\ Data(Len(s), CompleteIn(s), ls, st, q)
  BY ReleasedAre
<1>2. PICK z, l, k : z = [s EXCEPT ![f] = "PENDING_COMPLETE"] /\ l = Listener("chain", f) /\ k = Len(q)
  BY Zenon
<1>3. IsUpdate(z, s, f, "PENDING_COMPLETE")
  BY <1>2 DEF IsUpdate
<1>4. InCharge(l, f) /\ Serves(m) = <<l>> /\ ~IsPropagation(m)
  BY <1>2 DEF InCharge, Listener, Serves, IsPropagation
<1>5. PICK r : r = Append(q, m)
  OBVIOUS
<1>6. r \in Seq(MicrotaskOf(Len(s), CompleteIn(s))) /\ k \in Nat /\ Inserted(q, r, k) /\ r[k + 1] = m
  <2>1. q \in Seq(MicrotaskOf(Len(s), CompleteIn(s)))
    BY <1>1, DataAre
  <2> QED
    BY <1>2, <1>5, <2>1 DEF Inserted
<1>7. Data(Len(s), CompleteIn(s), ls, st, r) /\ Gains(ls, st, q, ls, st, r, <<l>>)
  <2>1. IsPropagation(r[k + 1]) => ~IsUser(r[k + 1].with)
    BY <1>4, <1>6
  <2>2. Data(Len(s), CompleteIn(s), ls, st, r) /\ Gains(ls, st, q, ls, st, r, Serves(r[k + 1]))
    BY <1>1, <1>6, <2>1, Scheduled
  <2> QED
    BY <1>4, <1>6, <2>2
<1>8. Balanced(z, ls, st, r, ts)
  BY <1>3, <1>4, <1>7, Charged
<1> QED
  BY <1>2, <1>5, <1>8

\* Another listener takes over from the one that was in charge of it.
LEMMA Recharged ==
  ASSUME NEW s, NEW ls, NEW st, NEW q, NEW ts, NEW f, Released(s, ls, st, q, ts, f), Expected(s, f) = 1,
         NEW ms, NEW tt, NEW r, Data(Len(s), CompleteIn(s), ms, tt, r),
         NEW l, InCharge(l, f), Gains(ls, st, q, ms, tt, r, <<l>>)
  PROVE  Balanced(s, ms, tt, r, ts)
<1>1. /\ s \in Seq(States) /\ ts \subseteq 1..Len(s) /\ f \in 1..Len(s)
      /\ \A g \in 1..Len(s) : Total(ls, st, q, ts, g) = IF g = f THEN 0 ELSE Expected(s, g)
  BY ReleasedAre
<1>2. \A g : Count(<<l>>, g) = IF g = f THEN 1 ELSE 0
  BY CountOne DEF One, InCharge
<1>3. ASSUME NEW g \in 1..Len(s)  PROVE Total(ms, tt, r, ts, g) = Expected(s, g)
  <2>1. Total(ms, tt, r, ts, g) = Total(ls, st, q, ts, g) + (IF g = f THEN 1 ELSE 0)
    BY <1>2 DEF Gains
  <2>2. CASE g = f
    BY <1>1, <2>1, <2>2
  <2>3. CASE g # f
    <3>1. Total(ls, st, q, ts, g) = Expected(s, g) /\ Expected(s, g) \in {0, 1}
      BY <1>1, <2>3, ExpectedIs
    <3> QED
      BY <2>1, <2>3, <3>1
  <2> QED
    BY <2>2, <2>3
<1> QED
  BY <1>1, <1>3 DEF Balanced

-----------------------------------------------------------------------------
(* Steps that do not complete a future                                     *)

\* No one is in charge of a future that does not exist yet.
LEMMA NoneYet ==
  ASSUME NEW n \in Nat, NEW C \in SUBSET (1..n), NEW ls, NEW st, NEW q, Data(n, C, ls, st, q),
         NEW ts \in SUBSET (1..n), NEW g, g \notin 1..n
  PROVE  Total(ls, st, q, ts, g) = 0
<1>1. ls \in Seq(Seq(ListenerOf(n, C))) /\ st \in Seq(CallOf(n, C)) /\ q \in Seq(MicrotaskOf(n, C))
  BY DataAre
<1>2. Calls(st) \in Seq(Seq(ListenerOf(n, C))) /\ Tasks(q) \in Seq(Seq(ListenerOf(n, C)))
  BY <1>1, ListsAre
<1>3. ASSUME NEW lists \in Seq(Seq(ListenerOf(n, C)))  PROVE Places(lists, g) = {}
  <2>1. SUFFICES ASSUME NEW p \in Places(lists, g)  PROVE FALSE
    OBVIOUS
  <2>2. PICK i, j : i \in DOMAIN lists /\ j \in DOMAIN lists[i] /\ InCharge(lists[i][j], g)
    BY PlacesAre
  <2>3. lists[i] \in Seq(ListenerOf(n, C))
    BY <2>2
  <2>4. lists[i][j] \in ListenerOf(n, C)
    BY <2>2, <2>3
  <2> QED
    BY <2>2, <2>4 DEF InCharge, ListenerOf
<1>4. Places(ls, g) = {} /\ Places(Calls(st), g) = {} /\ Places(Tasks(q), g) = {} /\ ts \cap {g} = {}
  BY <1>1, <1>2, <1>3
<1>5. Cardinality({}) = 0
  BY FS_EmptySet
<1>6. /\ Cardinality(Places(ls, g)) = 0 /\ Cardinality(Places(Calls(st), g)) = 0
      /\ Cardinality(Places(Tasks(q), g)) = 0 /\ Cardinality(ts \cap {g}) = 0
  BY <1>4, <1>5
<1> QED
  BY <1>6 DEF Total

\* A future is created: no one is in charge of it yet.
LEMMA NewFuture ==
  ASSUME NEW s, NEW ls, NEW st, NEW q, NEW ts, Balanced(s, ls, st, q, ts), Len(s) >= Cardinality(Completers),
         NEW z, IsAppend(z, s, "INCOMPLETE"), NEW ms, IsAppend(ms, ls, <<>>)
  PROVE  /\ Released(z, ms, st, q, ts, Len(s) + 1) /\ Expected(z, Len(s) + 1) = 1
         /\ Len(z) = Len(s) + 1 /\ CompleteIn(z) = CompleteIn(s)
<1>1. /\ s \in Seq(States) /\ Len(s) \in Nat /\ CompleteIn(s) \in SUBSET (1..Len(s)) /\ ts \subseteq 1..Len(s)
      /\ Data(Len(s), CompleteIn(s), ls, st, q)
      /\ \A g \in 1..Len(s) : Total(ls, st, q, ts, g) = Expected(s, g)
  BY BalancedAre
<1>2. PICK n \in Nat : n = Len(s)
  BY <1>1
<1>3. /\ z \in Seq(States) /\ Len(z) = n + 1 /\ z[n + 1] = "INCOMPLETE"
      /\ \A g \in 1..n : z[g] = s[g]
  BY <1>1, <1>2 DEF IsAppend, States
<1>4. \A g \in 1..n + 1 : g \in 1..n \/ g = n + 1
  OBVIOUS
<1>5. n + 1 \notin Completers /\ n + 1 \notin 1..n /\ n + 1 \in 1..n + 1 /\ 1..n \subseteq 1..n + 1
  <2>1. PICK m \in Nat : m = Cardinality(Completers)
    BY FuturesAssumption, FS_CardinalityType
  <2>2. Completers = 1..m /\ n >= m
    BY <1>2, <2>1, FuturesAssumption
  <2> QED
    BY <2>2
<1>6. Expected(z, n + 1) = 1 /\ ~Done(z, n + 1)
  BY <1>3, <1>5 DEF Expected, Done
<1>7. \A g \in 1..n : Expected(z, g) = Expected(s, g) /\ (Done(z, g) <=> Done(s, g))
  BY <1>3 DEF Expected, Done
<1>8. CompleteIn(z) = CompleteIn(s)
  BY <1>2, <1>3, <1>4, <1>5, <1>6, <1>7 DEF CompleteIn
<1>9. /\ Data(n + 1, CompleteIn(s), ms, st, q)
      /\ \A us, g : Total(ms, st, q, us, g) = Total(ls, st, q, us, g)
  <2>1. CompleteIn(s) \in SUBSET (1..n) /\ Data(n, CompleteIn(s), ls, st, q)
    BY <1>1, <1>2
  <2> QED
    BY <2>1, Created
<1>10. Total(ls, st, q, ts, n + 1) = 0
  <2>1. CompleteIn(s) \in SUBSET (1..n) /\ Data(n, CompleteIn(s), ls, st, q) /\ ts \in SUBSET (1..n)
    BY <1>1, <1>2
  <2> QED
    BY <1>5, <2>1, NoneYet
<1>11. \A g \in 1..n + 1 : Total(ms, st, q, ts, g) = IF g = n + 1 THEN 0 ELSE Expected(z, g)
  <2> SUFFICES ASSUME NEW g \in 1..n + 1
               PROVE  Total(ms, st, q, ts, g) = IF g = n + 1 THEN 0 ELSE Expected(z, g)
    OBVIOUS
  <2>1. CASE g = n + 1
    BY <1>9, <1>10, <2>1
  <2>2. CASE g # n + 1
    BY <1>1, <1>2, <1>4, <1>7, <1>9, <2>2
  <2> QED
    BY <2>1, <2>2
<1>12. Released(z, ms, st, q, ts, n + 1)
  BY <1>1, <1>2, <1>3, <1>5, <1>6, <1>8, <1>9, <1>11 DEF Released
<1> QED
  BY <1>2, <1>3, <1>6, <1>8, <1>12

\* The listener of the next future subscribes after all others.
LEMMA NewestListener ==
  ASSUME NEW n \in Nat, NEW C \in SUBSET (1..n), NEW ls, NEW st, NEW q, Data(n, C, ls, st, q),
         NEW l, l.result = n + 1
  PROVE  /\ \A k \in DOMAIN ls : \A i \in DOMAIN ls[k] : Earlier(ls[k][i], l)
         /\ \A k \in DOMAIN st : \A i \in DOMAIN st[k].listeners : Earlier(st[k].listeners[i], l)
         /\ \A i \in DOMAIN q : IsPropagation(q[i]) => Earlier(q[i].with, l)
<1>1. ls \in Seq(Seq(ListenerOf(n, C))) /\ st \in Seq(CallOf(n, C)) /\ q \in Seq(MicrotaskOf(n, C))
  BY DataAre
<1>2. \A m \in ListenerOf(n, C) : Earlier(m, l)
  BY DEF ListenerOf, Earlier
<1>3. ASSUME NEW u \in Seq(ListenerOf(n, C))  PROVE \A i \in DOMAIN u : Earlier(u[i], l)
  BY <1>2
<1>4. \A k \in DOMAIN ls : ls[k] \in Seq(ListenerOf(n, C))
  BY <1>1
<1>5. \A k \in DOMAIN st : st[k].listeners \in Seq(ListenerOf(n, C))
  BY <1>1 DEF CallOf
<1>6. \A i \in DOMAIN q : IsPropagation(q[i]) => q[i].with \in ListenerOf(n, C)
  <2>1. \A i \in DOMAIN q : q[i] \in MicrotaskOf(n, C)
    BY <1>1
  <2> QED
    BY <2>1, MicrotaskIs DEF IsPropagation
<1>7. \A k \in DOMAIN ls : \A i \in DOMAIN ls[k] : Earlier(ls[k][i], l)
  BY <1>3, <1>4
<1>8. \A k \in DOMAIN st : \A i \in DOMAIN st[k].listeners : Earlier(st[k].listeners[i], l)
  BY <1>3, <1>5
<1> QED
  BY <1>2, <1>6, <1>7, <1>8

\* A program listens to a future that is complete.
LEMMA ListensLate ==
  ASSUME NEW s, NEW ls, NEW st, NEW q, NEW ts, Balanced(s, ls, st, q, ts), Len(s) >= Cardinality(Completers),
         NEW f \in CompleteIn(s), NEW l \in ListenerOf(Len(s) + 1, CompleteIn(s)),
         l.result = Len(s) + 1, l.kind # "timeout"
  PROVE  Balanced(Append(s, "INCOMPLETE"), Append(ls, <<>>), st, Append(q, Propagate(f, l)), ts)
<1>1. PICK z, ms, m, r : /\ z = Append(s, "INCOMPLETE") /\ ms = Append(ls, <<>>)
                         /\ m = Propagate(f, l) /\ r = Append(q, m)
  BY Zenon
<1>2. IsAppend(z, s, "INCOMPLETE") /\ IsAppend(ms, ls, <<>>) /\ IsAppend(r, q, m)
  BY <1>1 DEF IsAppend
<1>3. /\ Released(z, ms, st, q, ts, Len(s) + 1) /\ Expected(z, Len(s) + 1) = 1
      /\ Len(z) = Len(s) + 1 /\ CompleteIn(z) = CompleteIn(s)
  BY <1>2, NewFuture
<1>4. Len(z) \in Nat /\ CompleteIn(z) \in SUBSET (1..Len(z)) /\ Data(Len(z), CompleteIn(z), ms, st, q)
  BY <1>3, ReleasedAre
<1>5. /\ \A k \in DOMAIN st : \A i \in DOMAIN st[k].listeners : Earlier(st[k].listeners[i], l)
      /\ \A i \in DOMAIN q : IsPropagation(q[i]) => Earlier(q[i].with, l)
  <2>1. Len(s) \in Nat /\ CompleteIn(s) \in SUBSET (1..Len(s)) /\ Data(Len(s), CompleteIn(s), ls, st, q)
    BY BalancedAre
  <2> QED
    BY <2>1, NewestListener
<1>6. m \in MicrotaskOf(Len(z), CompleteIn(z)) /\ m.with = l /\ Serves(m) = <<l>>
  BY <1>1, <1>3 DEF Propagate, MicrotaskOf, Serves
<1>7. Data(Len(z), CompleteIn(z), ms, st, r) /\ Gains(ms, st, q, ms, st, r, Serves(m))
  <2>1. /\ \A k \in DOMAIN st : \A i \in DOMAIN st[k].listeners : Earlier(st[k].listeners[i], m.with)
        /\ \A i \in DOMAIN q : IsPropagation(q[i]) => Earlier(q[i].with, m.with)
    BY <1>5, <1>6
  <2> QED
    BY <1>2, <1>4, <1>6, <2>1, ScheduledLate
<1>8. InCharge(l, Len(s) + 1)
  BY DEF InCharge
<1>9. Balanced(z, ms, st, r, ts)
  BY <1>3, <1>6, <1>7, <1>8, Recharged
<1> QED
  BY <1>1, <1>9

\* A timer comes to those that are in charge.
LEMMA TimerStarted ==
  ASSUME NEW n \in Nat, NEW C \in SUBSET (1..n), NEW ls, NEW st, NEW q, Data(n, C, ls, st, q),
         NEW ts, NEW us, NEW u, Added(ts, us, u)
  PROVE  \A g : Total(ls, st, q, us, g) = Total(ls, st, q, ts, g) + (IF u = g THEN 1 ELSE 0)
<1>1. ls \in Seq(Seq(ListenerOf(n, C))) /\ st \in Seq(CallOf(n, C)) /\ q \in Seq(MicrotaskOf(n, C))
  BY DataAre
<1>2. ASSUME NEW g  PROVE Total(ls, st, q, us, g) = Total(ls, st, q, ts, g) + (IF u = g THEN 1 ELSE 0)
  BY <1>1, TotalTimer
<1> QED
  BY <1>2

\* Changing an entry and adding one do not interfere.
LEMMA AppendUpdate ==
  ASSUME NEW S, NEW s \in Seq(S), NEW f \in 1..Len(s), NEW x \in S, NEW y \in S,
         NEW t, IsAppend(t, s, y), NEW u, IsUpdate(u, t, f, x), NEW v, IsUpdate(v, s, f, x)
  PROVE  IsAppend(u, v, y)
<1>1. PICK n \in Nat : n = Len(s)
  OBVIOUS
<1>3. t \in Seq(S) /\ Len(t) = n + 1 /\ t[n + 1] = y /\ \A i \in 1..n : t[i] = s[i]
  BY <1>1 DEF IsAppend
<1>4. u \in Seq(S) /\ Len(u) = n + 1 /\ u[f] = x /\ \A i \in 1..n + 1 : i # f => u[i] = t[i]
  <2>1. f \in 1..Len(t)
    BY <1>1, <1>3
  <2> QED
    BY <1>3, <2>1 DEF IsUpdate
<1>5. v \in Seq(S) /\ Len(v) = n /\ v[f] = x /\ \A i \in 1..n : i # f => v[i] = s[i]
  BY <1>1 DEF IsUpdate
<1>6. PICK w : w = Append(v, y)
  OBVIOUS
<1>7. w \in Seq(S) /\ Len(w) = n + 1 /\ w[n + 1] = y /\ \A i \in 1..n : w[i] = v[i]
  <2>1. v \in Seq(S) /\ Len(v) = n
    BY <1>5
  <2> QED
    BY ONLY y \in S, <2>1, <1>6
<1>8. ASSUME NEW i \in 1..n + 1  PROVE u[i] = w[i]
  <2>1. CASE i = n + 1
    BY <1>1, <1>3, <1>4, <1>7, <2>1
  <2>2. CASE i = f
    BY <1>1, <1>4, <1>5, <1>7, <2>2
  <2>3. CASE i \in 1..n /\ i # f
    BY <1>3, <1>4, <1>5, <1>7, <2>3
  <2> QED
    BY <2>1, <2>2, <2>3
<1>9. u = w
  BY <1>4, <1>7, <1>8, SeqEqual
<1> QED
  BY <1>6, <1>9 DEF IsAppend

\* A program listens to a future that is not: then(), catchError(), whenComplete(), or
\* timeout(), which starts a timer.
LEMMA ListensEarly ==
  ASSUME NEW s, NEW ls, NEW st, NEW q, NEW ts, Balanced(s, ls, st, q, ts), Len(s) >= Cardinality(Completers),
         NEW f \in 1..Len(s), NEW l \in ListenerOf(Len(s) + 1, CompleteIn(s)), l.result = Len(s) + 1
  PROVE  /\ l.kind # "timeout" =>
              Balanced(Append(s, "INCOMPLETE"), Append([ls EXCEPT ![f] = <<l>> \o ls[f]], <<>>), st, q, ts)
         /\ l.kind = "timeout" =>
              Balanced(Append(s, "INCOMPLETE"), Append([ls EXCEPT ![f] = <<l>> \o ls[f]], <<>>), st, q,
                       ts \cup {Len(s) + 1})
<1>1. PICK z, ms, ns, us : /\ z = Append(s, "INCOMPLETE") /\ ms = Append(ls, <<>>)
                           /\ ns = [ms EXCEPT ![f] = <<l>> \o ms[f]] /\ us = ts \cup {Len(s) + 1}
  BY Zenon
<1>2. IsAppend(z, s, "INCOMPLETE") /\ IsAppend(ms, ls, <<>>) /\ IsUpdate(ns, ms, f, <<l>> \o ms[f])
  BY <1>1 DEF IsAppend, IsUpdate
<1>3. /\ Released(z, ms, st, q, ts, Len(s) + 1) /\ Expected(z, Len(s) + 1) = 1
      /\ Len(z) = Len(s) + 1 /\ CompleteIn(z) = CompleteIn(s)
  BY <1>2, NewFuture
<1>4. Len(z) \in Nat /\ CompleteIn(z) \in SUBSET (1..Len(z)) /\ Data(Len(z), CompleteIn(z), ms, st, q)
  BY <1>3, ReleasedAre
<1>5. /\ Len(s) \in Nat /\ CompleteIn(s) \in SUBSET (1..Len(s)) /\ ts \subseteq 1..Len(s)
      /\ Data(Len(s), CompleteIn(s), ls, st, q)
  BY BalancedAre
<1>6. ls \in Seq(Seq(ListenerOf(Len(s), CompleteIn(s)))) /\ Len(ls) = Len(s) /\ DOMAIN ls = 1..Len(s)
  BY <1>5, DataAre
<1>7. ms[f] = ls[f]
  BY <1>1, <1>6
<1>8. \A i \in DOMAIN ms[f] : Earlier(ms[f][i], l)
  <2>1. \A k \in DOMAIN ls : \A i \in DOMAIN ls[k] : Earlier(ls[k][i], l)
    BY <1>5, NewestListener
  <2> QED
    BY <1>6, <1>7, <2>1
<1>9. Data(Len(z), CompleteIn(z), ns, st, q) /\ Gains(ms, st, q, ns, st, q, <<l>>)
  <2>1. f \in 1..Len(z) /\ l \in ListenerOf(Len(z), CompleteIn(z))
    BY <1>3, <1>5
  <2> QED
    BY <1>2, <1>4, <1>8, <2>1, Subscribed
<1>10. ns = Append([ls EXCEPT ![f] = <<l>> \o ls[f]], <<>>)
  <2>1. PICK x, S, v : /\ x = <<l>> \o ls[f] /\ v = [ls EXCEPT ![f] = x]
                       /\ S = Seq(ListenerOf(Len(s) + 1, CompleteIn(s)))
    BY Zenon
  <2>2. ls \in Seq(S) /\ f \in 1..Len(ls) /\ x \in S /\ <<>> \in S
    <3>1. PICK n, C : n \in Nat /\ n = Len(s) /\ C = CompleteIn(s) /\ n <= n + 1 /\ C \subseteq C
      BY <1>5
    <3>2. Seq(Seq(ListenerOf(n, C))) \subseteq Seq(Seq(ListenerOf(n + 1, C)))
      BY <3>1, Wider
    <3>3. ls \in Seq(S)
      BY <1>6, <2>1, <3>1, <3>2
    <3>4. f \in 1..Len(ls) /\ ls[f] \in S
      BY <1>6, <3>3
    <3> QED
      BY <2>1, <3>3, <3>4
  <2>3. IsUpdate(ns, ms, f, x) /\ IsUpdate(v, ls, f, x)
    BY <1>1, <1>7, <2>1 DEF IsUpdate
  <2>4. IsAppend(ns, v, <<>>)
    BY <1>2, <2>2, <2>3, AppendUpdate
  <2> QED
    BY <2>1, <2>4 DEF IsAppend
<1>11. ASSUME l.kind # "timeout"  PROVE Balanced(z, ns, st, q, ts)
  <2>1. InCharge(l, Len(s) + 1)
    BY <1>11 DEF InCharge
  <2> QED
    BY <1>3, <1>9, <2>1, Recharged
<1>12. ASSUME l.kind = "timeout"  PROVE Balanced(z, ns, st, q, us)
  <2>1. \A g : Count(<<l>>, g) = 0
    BY <1>12, CountOne DEF One, InCharge
  <2>2. Added(ts, us, Len(s) + 1)
    BY <1>1, <1>5 DEF Added
  <2>3. us \subseteq 1..Len(z)
    <3>1. PICK n \in Nat : n = Len(s) /\ Len(z) = n + 1 /\ ts \subseteq 1..n /\ us = ts \cup {n + 1}
      BY <1>1, <1>3, <1>5
    <3>2. 1..n \cup {n + 1} \subseteq 1..n + 1
      OBVIOUS
    <3> QED
      BY ONLY <3>1, <3>2
  <2>4. ASSUME NEW g \in 1..Len(z)  PROVE Total(ns, st, q, us, g) = Expected(z, g)
    <3>1. /\ Total(ms, st, q, ts, g) = IF g = Len(s) + 1 THEN 0 ELSE Expected(z, g)
          /\ Expected(z, g) \in {0, 1}
      BY <1>3, ReleasedAre, ExpectedIs
    <3>2. Total(ns, st, q, ts, g) = Total(ms, st, q, ts, g) + 0
      BY <1>9, <2>1 DEF Gains
    <3>3. Total(ns, st, q, us, g) = Total(ns, st, q, ts, g) + (IF Len(s) + 1 = g THEN 1 ELSE 0)
      BY <1>4, <1>9, <2>2, TimerStarted
    <3> QED
      BY <1>3, <3>1, <3>2, <3>3
  <2>5. z \in Seq(States)
    BY <1>3, ReleasedAre
  <2> QED
    BY <1>9, <2>3, <2>4, <2>5 DEF Balanced
<1> QED
  BY <1>1, <1>10, <1>11, <1>12

-----------------------------------------------------------------------------
(* Steps that complete nothing                                             *)

\* No listener has come or gone.
Keeps(ls, st, q, ms, tt, r) == \A ts, f : Total(ms, tt, r, ts, f) = Total(ls, st, q, ts, f)

\* The same ones are in charge.
LEMMA StaysBalanced ==
  ASSUME NEW s, NEW ls, NEW st, NEW q, NEW ts, Balanced(s, ls, st, q, ts),
         NEW tt, NEW r, Data(Len(s), CompleteIn(s), ls, tt, r), Keeps(ls, st, q, ls, tt, r)
  PROVE  Balanced(s, ls, tt, r, ts)
<1>1. /\ s \in Seq(States) /\ ts \subseteq 1..Len(s)
      /\ \A g \in 1..Len(s) : Total(ls, st, q, ts, g) = Expected(s, g)
  BY BalancedAre
<1>2. \A g \in 1..Len(s) : Total(ls, tt, r, ts, g) = Expected(s, g)
  BY <1>1 DEF Keeps
<1> QED
  BY <1>1, <1>2 DEF Balanced

\* No one listens, and the call returns.
LEMMA Returns ==
  ASSUME NEW s, NEW ls, NEW st, NEW q, NEW ts, Balanced(s, ls, st, q, ts), st # <<>>, Last(st).listeners = <<>>
  PROVE  Balanced(s, ls, Front(st), q, ts)
<1>1. Len(s) \in Nat /\ CompleteIn(s) \in SUBSET (1..Len(s)) /\ Data(Len(s), CompleteIn(s), ls, st, q)
  BY BalancedAre
<1>2. /\ Data(Len(s), CompleteIn(s), ls, Front(st), q)
      /\ Gains(ls, Front(st), q, ls, st, q, Last(st).listeners)
  BY <1>1, Popped
<1>3. Keeps(ls, st, q, ls, Front(st), q)
  <2>1. \A us, g : Total(ls, Front(st), q, us, g) \in Nat
    BY <1>1, <1>2, DataAre
  <2>2. \A g : Count(<<>>, g) = 0
    BY CountFacts
  <2>3. \A us, g : Total(ls, st, q, us, g) = Total(ls, Front(st), q, us, g) + Count(<<>>, g)
    BY <1>2 DEF Gains
  <2> QED
    BY <2>1, <2>2, <2>3 DEF Keeps
<1> QED
  BY <1>2, <1>3, StaysBalanced

\* r is q with m behind the first p.
IsInsert(r, q, p, m) == r = SubSeq(q, 1, p) \o <<m>> \o SubSeq(q, p + 1, Len(q))

\* What _schedulePriorityAsyncCallback() makes of the queue.
LEMMA InsertIs ==
  ASSUME NEW M, NEW q \in Seq(M), NEW m \in M, NEW p \in 0..Len(q), NEW r, IsInsert(r, q, p, m)
  PROVE  r \in Seq(M) /\ Inserted(q, r, p) /\ r[p + 1] = m
<1>1. PICK a, b, t : a = SubSeq(q, 1, p) /\ b = SubSeq(q, p + 1, Len(q)) /\ t = a \o <<m>>
  BY Zenon
<1>2. r = t \o b
  BY <1>1 DEF IsInsert
<1>3. a \in Seq(M) /\ Len(a) = p /\ \A i \in 1..p : a[i] = q[i]
  BY <1>1
<1>4. b \in Seq(M) /\ Len(b) = Len(q) - p /\ \A i \in 1..Len(q) - p : b[i] = q[p + i]
  BY <1>1
<1>5. t \in Seq(M) /\ Len(t) = p + 1 /\ t[p + 1] = m /\ \A i \in 1..p : t[i] = q[i]
  BY <1>1, <1>3
<1>6. PICK k \in Nat, h \in Nat : k = Len(q) /\ h = p /\ h <= k
  OBVIOUS
<1>7. /\ r \in Seq(M) /\ Len(r) = Len(t) + Len(b)
      /\ \A i \in 1..Len(t) + Len(b) : r[i] = IF i <= Len(t) THEN t[i] ELSE b[i - Len(t)]
  <2>1. t \in Seq(M) /\ b \in Seq(M)
    BY <1>4, <1>5
  <2> QED
    BY ONLY <1>2, <2>1, ConcatProperties
<1>8. Len(t) = h + 1 /\ Len(b) = k - h
  BY <1>4, <1>5, <1>6
<1>9. Len(r) = k + 1 /\ \A i \in 1..k + 1 : r[i] = IF i <= h + 1 THEN t[i] ELSE b[i - (h + 1)]
  <2>1. (h + 1) + (k - h) = k + 1
    BY ONLY h \in Nat, k \in Nat
  <2> QED
    BY ONLY <1>7, <1>8, <2>1
<1>10. r[h + 1] = m /\ \A i \in 1..h : r[i] = q[i]
  BY ONLY <1>5, <1>6, <1>9, h \in Nat, k \in Nat
<1>11. ASSUME NEW i \in h + 1..k  PROVE r[i + 1] = q[i]
  <2>1. PICK j \in 1..k - h : h + j = i /\ (i + 1) - (h + 1) = j /\ i + 1 \in 1..k + 1 /\ ~(i + 1 <= h + 1)
    <3>1. i - h \in 1..k - h /\ h + (i - h) = i /\ (i + 1) - (h + 1) = i - h /\ i + 1 \in 1..k + 1 /\ ~(i + 1 <= h + 1)
      BY ONLY h \in Nat, k \in Nat, i \in h + 1..k
    <3> QED
      BY <3>1
  <2>2. r[i + 1] = b[(i + 1) - (h + 1)]
    BY ONLY <1>9, <2>1
  <2>3. b[j] = q[h + j]
    BY <1>4, <1>6
  <2> QED
    BY ONLY <2>1, <2>2, <2>3
<1>12. Inserted(q, r, h)
  BY ONLY <1>6, <1>9, <1>10, <1>11, h \in Nat, k \in Nat DEF Inserted
<1> QED
  BY <1>6, <1>7, <1>10, <1>12

\* An error that no one handles is thrown from a microtask.
LEMMA IsThrown ==
  ASSUME NEW s, NEW ls, NEW st, NEW q, NEW ts, Balanced(s, ls, st, q, ts), NEW p \in 0..Len(q),
         NEW r, IsInsert(r, q, p, Rethrow)
  PROVE  Balanced(s, ls, st, r, ts) /\ Len(r) = Len(q) + 1
<1>1. Len(s) \in Nat /\ CompleteIn(s) \in SUBSET (1..Len(s)) /\ Data(Len(s), CompleteIn(s), ls, st, q)
  BY BalancedAre
<1>2. PICK M : M = MicrotaskOf(Len(s), CompleteIn(s))
  OBVIOUS
<1>3. q \in Seq(M) /\ Rethrow \in M
  <2>1. q \in Seq(M)
    BY <1>1, <1>2, DataAre
  <2> QED
    BY <1>2, <2>1 DEF MicrotaskOf
<1>10. r \in Seq(M) /\ Inserted(q, r, p) /\ r[p + 1] = Rethrow
  BY <1>3, InsertIs
<1>13. ~IsPropagation(r[p + 1]) /\ Serves(r[p + 1]) = <<>>
  BY <1>10 DEF IsPropagation, Serves, Rethrow
<1>14. Data(Len(s), CompleteIn(s), ls, st, r) /\ Gains(ls, st, q, ls, st, r, Serves(r[p + 1]))
  <2>1. p \in Nat /\ r \in Seq(MicrotaskOf(Len(s), CompleteIn(s)))
    BY <1>2, <1>3, <1>10
  <2> QED
    BY <1>1, <1>10, <1>13, <2>1, Scheduled
<1>15. Keeps(ls, st, q, ls, st, r)
  <2>1. \A us, g : Total(ls, st, q, us, g) \in Nat
    BY <1>1, DataAre
  <2>2. \A g : Count(<<>>, g) = 0
    BY CountFacts
  <2>3. \A us, g : Total(ls, st, r, us, g) = Total(ls, st, q, us, g) + Count(<<>>, g)
    BY <1>13, <1>14 DEF Gains
  <2> QED
    BY <2>1, <2>2, <2>3 DEF Keeps
<1>16. Len(r) = Len(q) + 1
  BY <1>10 DEF Inserted
<1> QED
  BY <1>14, <1>15, <1>16, StaysBalanced

\* The innermost call is replaced by one with the same listeners.
LEMMA CallChanges ==
  ASSUME NEW s, NEW ls, NEW st, NEW q, NEW ts, Balanced(s, ls, st, q, ts), st # <<>>,
         NEW c \in CallOf(Len(s), CompleteIn(s)),
         c.source = Last(st).source, c.listeners = Last(st).listeners
  PROVE  Balanced(s, ls, Append(Front(st), c), q, ts)
<1>1. Len(s) \in Nat /\ CompleteIn(s) \in SUBSET (1..Len(s)) /\ Data(Len(s), CompleteIn(s), ls, st, q)
  BY BalancedAre
<1>2. /\ Data(Len(s), CompleteIn(s), ls, Front(st), q) /\ OnTop(Last(st), Front(st), q)
      /\ Gains(ls, Front(st), q, ls, st, q, Last(st).listeners)
  BY <1>1, Popped
<1>3. OnTop(c, Front(st), q)
  BY <1>2 DEF OnTop
<1>4. PICK u, tt : u = Front(st) /\ tt = Append(u, c) /\ IsAppend(tt, u, c)
  BY DEF IsAppend
<1>5. Data(Len(s), CompleteIn(s), ls, tt, q) /\ Gains(ls, u, q, ls, tt, q, c.listeners)
  <2>1. Data(Len(s), CompleteIn(s), ls, u, q) /\ OnTop(c, u, q) /\ IsAppend(tt, u, c)
    BY <1>2, <1>3, <1>4
  <2> QED
    BY <1>1, <2>1, Pushed
<1>6. Keeps(ls, st, q, ls, tt, q)
  BY <1>2, <1>4, <1>5 DEF Gains, Keeps
<1>7. Balanced(s, ls, tt, q, ts)
  BY <1>5, <1>6, StaysBalanced
<1> QED
  BY <1>4, <1>7

\* The first of several listeners gets a call of its own.
LEMMA FirstIsServed ==
  ASSUME NEW s, NEW ls, NEW st, NEW q, NEW ts, Balanced(s, ls, st, q, ts), st # <<>>,
         NEW c, c = Last(st), Len(c.listeners) > 1, ~c.user,
         NEW d, d = [c EXCEPT !.listeners = Tail(c.listeners)],
         NEW e, e = Call(c.source, <<c.listeners[1]>>)
  PROVE  Balanced(s, ls, Append(Append(Front(st), d), e), q, ts)
<1>1. Len(s) \in Nat /\ CompleteIn(s) \in SUBSET (1..Len(s)) /\ Data(Len(s), CompleteIn(s), ls, st, q)
  BY BalancedAre
<1>n. PICK n \in Nat : n = Len(s)
  BY <1>1
<1>2. PICK C, u, tt, vv :
        /\ n = Len(s) /\ C = CompleteIn(s) /\ C \in SUBSET (1..n)
        /\ u = Front(st) /\ tt = Append(u, d) /\ vv = Append(tt, e)
  BY <1>1, <1>n, Zenon
<1>3. /\ Data(n, C, ls, u, q) /\ c \in CallOf(n, C) /\ OnTop(c, u, q)
      /\ Gains(ls, u, q, ls, st, q, c.listeners)
  <2>1. Data(n, C, ls, st, q)
    BY <1>1, <1>2
  <2>2. /\ Data(n, C, ls, Front(st), q) /\ Last(st) \in CallOf(n, C) /\ OnTop(Last(st), Front(st), q)
        /\ Gains(ls, Front(st), q, ls, st, q, Last(st).listeners)
    BY <1>2, <2>1, Popped
  <2> QED
    BY <1>2, <2>2
<1>a. PICK L, x, a : L = ListenerOf(n, C) /\ x = c.listeners /\ a = x[1]
  BY Zenon
<1>b. x \in Seq(L)
  BY <1>3, <1>a DEF CallOf
<1>4. /\ L = ListenerOf(n, C) /\ x = c.listeners /\ a = x[1] /\ x \in Seq(L)
      /\ \E m \in Nat : m = Len(x) /\ m > 1
  BY <1>a, <1>b
<1>c. PICK m \in Nat : m = Len(x) /\ m > 1
  BY <1>4
<1>d. c.source \in C
  BY <1>3 DEF CallOf
<1>5. a \in L /\ Tail(x) \in Seq(L) /\ x # <<>> /\ Len(Tail(x)) = m - 1 /\ \A i \in 1..m - 1 : Tail(x)[i] = x[i + 1]
  BY <1>4, <1>c
<1>6. d \in CallOf(n, C) /\ d.source = c.source /\ d.listeners = Tail(x)
  BY <1>3, <1>4, <1>c, <1>d, <1>5 DEF CallOf
<1>7. e \in CallOf(n, C) /\ e.source = c.source /\ e.listeners = <<a>>
  BY <1>3, <1>4, <1>c, <1>d, <1>5 DEF CallOf, Call
<1>8. /\ \A i, j \in 1..m : i < j => Earlier(x[i], x[j])
      /\ \A k \in DOMAIN u : u[k].source = c.source => AllEarlier(x, u[k].listeners)
      /\ \A i \in DOMAIN q : IsPropagation(q[i]) /\ q[i].future = c.source => AllEarlier(x, <<q[i].with>>)
  BY <1>3, <1>4, <1>c DEF OnTop
<1>9. DOMAIN x = 1..m /\ DOMAIN Tail(x) = 1..m - 1 /\ DOMAIN <<a>> = {1} /\ <<a>>[1] = x[1] /\ 1 \in 1..m
  BY <1>4, <1>c, <1>5
<1>10. \A i \in 1..m - 1 : i + 1 \in 1..m /\ 1 < i + 1 /\ \A j \in 1..m - 1 : i < j => i + 1 < j + 1
  BY <1>4, <1>c
<1>11. \A z : AllEarlier(x, z) => AllEarlier(Tail(x), z) /\ AllEarlier(<<a>>, z)
  BY <1>5, <1>9, <1>10 DEF AllEarlier
<1>12. \A i, j \in 1..m - 1 : i < j => Earlier(Tail(x)[i], Tail(x)[j])
  BY <1>5, <1>8, <1>10
<1>13. AllEarlier(<<a>>, Tail(x))
  BY <1>5, <1>8, <1>9, <1>10 DEF AllEarlier
<1>14. OnTop(d, u, q)
  BY <1>6, <1>8, <1>9, <1>11, <1>12 DEF OnTop
<1>15. Data(n, C, ls, tt, q) /\ Gains(ls, u, q, ls, tt, q, Tail(x))
  <2>1. IsAppend(tt, u, d)
    BY <1>2 DEF IsAppend
  <2> QED
    <3>1. C \in SUBSET (1..n) /\ Data(n, C, ls, u, q) /\ d \in CallOf(n, C)
      BY <1>2, <1>3, <1>6
    <3>2. Data(n, C, ls, tt, q) /\ Gains(ls, u, q, ls, tt, q, d.listeners)
      BY <1>14, <2>1, <3>1, Pushed
    <3> QED
      BY <1>6, <3>2
<1>16. OnTop(e, tt, q)
  <2>1. \A k \in DOMAIN tt : (k \in DOMAIN u /\ tt[k] = u[k]) \/ tt[k] = d
    <3>1. u \in Seq(CallOf(n, C))
      BY <1>2, <1>3, DataAre
    <3> QED
      BY <1>2, <1>6, <3>1
  <2>2. \A k \in DOMAIN tt : tt[k].source = e.source => AllEarlier(e.listeners, tt[k].listeners)
    BY <1>6, <1>7, <1>8, <1>11, <1>13, <2>1
  <2>3. \A i, j \in DOMAIN <<a>> : i < j => Earlier(<<a>>[i], <<a>>[j])
    BY <1>9
  <2> QED
    BY <1>7, <1>8, <1>11, <2>2, <2>3 DEF OnTop
<1>17. Data(n, C, ls, vv, q) /\ Gains(ls, tt, q, ls, vv, q, <<a>>)
  <2>1. IsAppend(vv, tt, e)
    BY <1>2 DEF IsAppend
  <2> QED
    BY <1>2, <1>7, <1>15, <1>16, <2>1, Pushed
<1>18. Keeps(ls, st, q, ls, vv, q)
  <2>1. SUFFICES ASSUME NEW us, NEW g  PROVE Total(ls, vv, q, us, g) = Total(ls, st, q, us, g)
    BY DEF Keeps
  <2>2. /\ Total(ls, vv, q, us, g) = Total(ls, tt, q, us, g) + Count(<<a>>, g)
        /\ Total(ls, tt, q, us, g) = Total(ls, u, q, us, g) + Count(Tail(x), g)
        /\ Total(ls, st, q, us, g) = Total(ls, u, q, us, g) + Count(x, g)
    BY <1>3, <1>4, <1>15, <1>17 DEF Gains
  <2>3. Count(x, g) = Count(Tail(x), g) + One(x[1], g)
    BY <1>4, <1>5, CountFacts
  <2>4. Count(<<a>>, g) = One(x[1], g) /\ One(x[1], g) \in Nat
    BY <1>4, CountOne DEF One
  <2>5. Total(ls, u, q, us, g) \in Nat /\ Count(Tail(x), g) \in Nat
    <3>1. Total(ls, u, q, us, g) \in Nat
      BY <1>2, <1>3, DataAre
    <3>2. Count(Tail(x), g) \in Nat
      BY <1>5, HitsFinite
    <3> QED
      BY <3>1, <3>2
  <2> QED
    BY <2>2, <2>3, <2>4, <2>5
<1>19. Balanced(s, ls, vv, q, ts)
  <2>1. Data(Len(s), CompleteIn(s), ls, vv, q)
    BY <1>2, <1>17
  <2> QED
    BY <1>18, <2>1, StaysBalanced
<1> QED
  BY <1>2, <1>19

\* The future that a whenComplete action held up is given the result.
LEMMA IsResumed ==
  ASSUME NEW s, NEW ls, NEW st, NEW q, NEW ts, NEW f, Released(s, ls, st, q, ts, f), Expected(s, f) = 1,
         NEW source \in CompleteIn(s)
  PROVE  Balanced(s, ls, Append(st, Call(source, <<Listener("chain", f)>>)), q, ts)
<1>1. /\ Len(s) \in Nat /\ CompleteIn(s) \in SUBSET (1..Len(s))
      /\ f \in 1..Len(s) /\ Data(Len(s), CompleteIn(s), ls, st, q)
  BY ReleasedAre
<1>2. PICK l, c, tt : /\ l = Listener("chain", f) /\ c = Call(source, <<l>>) /\ tt = Append(st, c)
  BY Zenon
<1>3. IsAppend(tt, st, c)
  BY <1>2 DEF IsAppend
<1>4. l \in ListenerOf(Len(s), CompleteIn(s)) /\ InCharge(l, f) /\ ~IsUser(l)
  BY <1>1, <1>2, MadeChain
<1>5. c \in CallOf(Len(s), CompleteIn(s)) /\ c.listeners = <<l>>
  <2>1. <<l>> \in Seq(ListenerOf(Len(s), CompleteIn(s)))
    BY <1>4
  <2>2. Call(source, <<l>>) \in CallOf(Len(s), CompleteIn(s)) /\ Call(source, <<l>>).listeners = <<l>>
    BY ONLY source \in CompleteIn(s), <2>1 DEF Call, CallOf
  <2> QED
    BY <1>2, <2>2, Zenon
<1>6. OnTop(c, st, q)
  BY <1>1, <1>4, <1>5, MayBeOnTop
<1>7. Data(Len(s), CompleteIn(s), ls, tt, q) /\ Gains(ls, st, q, ls, tt, q, c.listeners)
  BY <1>1, <1>3, <1>5, <1>6, Pushed
<1>8. Balanced(s, ls, tt, q, ts)
  BY <1>4, <1>5, <1>7, Recharged
<1> QED
  BY <1>2, <1>8

\* onTimeout() is called, and is in charge of the result instead of its timer.
LEMMA IsTimedOut ==
  ASSUME NEW s, NEW ls, NEW st, NEW q, NEW ts, Balanced(s, ls, st, q, ts), NEW f \in ts,
         NEW c, c = [source |-> 0, listeners |-> <<Listener("onTimeout", f)>>, user |-> TRUE]
  PROVE  Balanced(s, ls, Append(st, c), q, ts \ {f})
<1>1. f \in 1..Len(s) /\ Released(s, ls, st, q, ts \ {f}, f) /\ Expected(s, f) = 1
  BY ReleasedTimer
<1>2. /\ Len(s) \in Nat /\ CompleteIn(s) \in SUBSET (1..Len(s))
      /\ Data(Len(s), CompleteIn(s), ls, st, q)
  BY <1>1, ReleasedAre
<1>3. PICK l, tt : l = Listener("onTimeout", f) /\ tt = Append(st, c)
  BY Zenon
<1>4. /\ l \in ListenerOf(Len(s), CompleteIn(s)) /\ InCharge(l, f) /\ ~IsUser(l)
      /\ l.kind = "onTimeout"
  BY <1>1, <1>2, <1>3 DEF ListenerOf, Listener, AllKinds, InCharge, IsUser
<1>5. c \in CallOf(Len(s), CompleteIn(s)) /\ c.listeners = <<l>>
  <2>1. <<l>> \in Seq(ListenerOf(Len(s), CompleteIn(s))) /\ Len(<<l>>) = 1 /\ <<l>>[1] = l
    BY <1>4
  <2>2. c = [source |-> 0, listeners |-> <<l>>, user |-> TRUE]
    BY <1>3
  <2> QED
    BY ONLY <1>4, <2>1, <2>2 DEF CallOf
<1>6. OnTop(c, st, q) /\ IsAppend(tt, st, c)
  BY <1>2, <1>3, <1>4, <1>5, MayBeOnTop DEF IsAppend
<1>7. Data(Len(s), CompleteIn(s), ls, tt, q) /\ Gains(ls, st, q, ls, tt, q, c.listeners)
  BY <1>2, <1>5, <1>6, Pushed
<1>8. Balanced(s, ls, tt, q, ts \ {f})
  BY <1>1, <1>4, <1>5, <1>7, Recharged
<1> QED
  BY <1>3, <1>8

\* A future is created to take the result of one that is complete, at once or by a microtask.
LEMMA IsCreatedFor ==
  ASSUME NEW s, NEW ls, NEW st, NEW q, NEW ts, Balanced(s, ls, st, q, ts), Len(s) >= Cardinality(Completers),
         NEW source \in CompleteIn(s), NEW g, g = Len(s) + 1
  PROVE  /\ Balanced(Append(s, "CHAINED"), Append(ls, <<>>),
                     Append(st, Call(source, <<Listener("chain", g)>>)), q, ts)
         /\ Balanced(Append(s, "PENDING_COMPLETE"), Append(ls, <<>>), st, Append(q, ChainCore(source, g)), ts)
<1>1. PICK z, ms : IsAppend(z, s, "INCOMPLETE") /\ IsAppend(ms, ls, <<>>)
  BY DEF IsAppend
<1>2. /\ Released(z, ms, st, q, ts, g) /\ Len(z) = g /\ CompleteIn(z) = CompleteIn(s)
  BY <1>1, NewFuture
<1>3. s \in Seq(States) /\ Len(s) \in Nat /\ CompleteIn(s) \in SUBSET (1..Len(s))
  BY BalancedAre
<1>4. \A v \in States : [z EXCEPT ![g] = v] = Append(s, v)
  <2> SUFFICES ASSUME NEW v \in States  PROVE [z EXCEPT ![g] = v] = Append(s, v)
    OBVIOUS
  <2>1. "INCOMPLETE" \in States
    BY DEF States
  <2>2. z = Append(s, "INCOMPLETE") /\ z \in Seq(States)
    BY <1>1, <1>3, <2>1 DEF IsAppend
  <2>3. PICK y : y = [z EXCEPT ![g] = v]
    OBVIOUS
  <2>4. y \in Seq(States) /\ Len(y) = Len(s) + 1 /\ \A i \in 1..Len(s) + 1 : y[i] = Append(s, v)[i]
    <3>1. PICK n \in Nat : n = Len(s) /\ g = n + 1
      BY <1>3
    <3>2. Len(z) = n + 1 /\ DOMAIN z = 1..n + 1 /\ \A i \in 1..n : z[i] = s[i]
      BY <1>3, <2>1, <2>2, <3>1
    <3>3. y \in Seq(States) /\ Len(y) = n + 1 /\ y[n + 1] = v /\ \A i \in 1..n : y[i] = z[i]
      <4>1. z \in [1..n + 1 -> States] /\ y = [z EXCEPT ![n + 1] = v] /\ n + 1 \in 1..n + 1
        <5>1. z \in [1..Len(z) -> States]
          BY <2>2, LenProperties
        <5> QED
          BY <2>3, <3>1, <3>2, <5>1
      <4>2. y \in [1..n + 1 -> States] /\ y[n + 1] = v /\ \A i \in 1..n : y[i] = z[i]
        BY ONLY n \in Nat, v \in States, <4>1
      <4> QED
        BY <4>2
    <3>4. Append(s, v)[n + 1] = v /\ \A i \in 1..n : Append(s, v)[i] = s[i]
      BY <1>3, <3>1
    <3>5. ASSUME NEW i \in 1..n + 1  PROVE y[i] = Append(s, v)[i]
      <4>1. i \in 1..n \/ i = n + 1
        OBVIOUS
      <4> QED
        BY <3>2, <3>3, <3>4, <4>1
    <3> QED
      BY <3>1, <3>3, <3>5
  <2>5. Append(s, v) \in Seq(States) /\ Len(Append(s, v)) = Len(s) + 1
    BY <1>3
  <2> QED
    BY <2>3, <2>4, <2>5, SeqEqual
<1>5. Balanced([z EXCEPT ![g] = "CHAINED"], ms, Append(st, Call(source, <<Listener("chain", g)>>)), q, ts)
  BY <1>2, IsChained
<1>6. Balanced([z EXCEPT ![g] = "PENDING_COMPLETE"], ms, st, Append(q, ChainCore(source, g)), ts)
  <2>1. PICK m : m = ChainCore(source, g)
    OBVIOUS
  <2>2. g \in 1..Len(z)
    BY <1>2, <1>3
  <2>3. m \in MicrotaskOf(Len(z), CompleteIn(z)) /\ m.op \in {"complete", "chain"} /\ m.future = g
    BY <1>2, <2>1, <2>2 DEF ChainCore, MicrotaskOf
  <2>4. Balanced([z EXCEPT ![g] = "PENDING_COMPLETE"], ms, st, Append(q, m), ts)
    BY <1>2, <2>3, IsPending
  <2> QED
    BY <2>1, <2>4
<1>7. "CHAINED" \in States /\ "PENDING_COMPLETE" \in States
  BY DEF States
<1> QED
  BY <1>1, <1>4, <1>5, <1>6, <1>7 DEF IsAppend

\* A microtask calls a late listener.
LEMMA IsPropagated ==
  ASSUME NEW s, NEW ls, NEW q, NEW ts, Balanced(s, ls, <<>>, q, ts), q # <<>>, q[1].op = "propagate"
  PROVE  Balanced(s, ls, Append(<<>>, Call(q[1].future, <<q[1].with>>)), Tail(q), ts)
<1>1. Len(s) \in Nat /\ CompleteIn(s) \in SUBSET (1..Len(s)) /\ Data(Len(s), CompleteIn(s), ls, <<>>, q)
  BY BalancedAre
<1>2. /\ Data(Len(s), CompleteIn(s), ls, <<>>, Tail(q)) /\ q[1] \in MicrotaskOf(Len(s), CompleteIn(s))
      /\ Gains(ls, <<>>, Tail(q), ls, <<>>, q, Serves(q[1]))
  BY <1>1, Taken
<1>3. PICK c, tt, r, l : /\ c = Call(q[1].future, <<q[1].with>>) /\ tt = Append(<<>>, c) /\ r = Tail(q) /\ l = q[1].with
  BY Zenon
<1>4. /\ c \in CallOf(Len(s), CompleteIn(s)) /\ c.source = q[1].future /\ c.listeners = <<l>>
      /\ Serves(q[1]) = <<l>> /\ IsPropagation(q[1])
  <2>1. q[1].future \in CompleteIn(s) /\ l \in ListenerOf(Len(s), CompleteIn(s))
    BY <1>1, <1>2, <1>3, MicrotaskIs
  <2>2. <<l>> \in Seq(ListenerOf(Len(s), CompleteIn(s)))
    BY <2>1
  <2>3. c \in CallOf(Len(s), CompleteIn(s)) /\ c.source = q[1].future /\ c.listeners = <<l>>
    <3>1. PICK g : g = q[1].future
      OBVIOUS
    <3>2. c = Call(g, <<l>>) /\ g \in CompleteIn(s)
      BY <1>3, <2>1, <3>1
    <3>3. c \in CallOf(Len(s), CompleteIn(s)) /\ c.source = g /\ c.listeners = <<l>>
      BY <2>2, <3>2 DEF Call, CallOf
    <3> QED
      BY <3>1, <3>3
  <2> QED
    BY <1>3, <2>3 DEF Serves, IsPropagation
<1>5. OnTop(c, <<>>, r)
  <2>1. q \in Seq(MicrotaskOf(Len(s), CompleteIn(s))) /\ LineInOrder(<<>>, q)
    BY <1>1, DataAre
  <2>2. OnTop(c, <<>>, Tail(q))
    BY <1>3, <1>4, <2>1, NextOrder
  <2> QED
    BY <1>3, <2>2
<1>6. Data(Len(s), CompleteIn(s), ls, tt, r) /\ Gains(ls, <<>>, r, ls, tt, r, c.listeners)
  <2>1. Data(Len(s), CompleteIn(s), ls, <<>>, r) /\ IsAppend(tt, <<>>, c)
    BY <1>2, <1>3 DEF IsAppend
  <2> QED
    BY <1>1, <1>4, <1>5, <2>1, Pushed
<1>7. Keeps(ls, <<>>, q, ls, tt, r)
  BY <1>2, <1>3, <1>4, <1>6 DEF Gains, Keeps
<1>8. Balanced(s, ls, tt, r, ts)
  BY <1>6, <1>7, StaysBalanced
<1> QED
  BY <1>3, <1>8

\* A microtask throws.
LEMMA IsDead ==
  ASSUME NEW s, NEW ls, NEW st, NEW q, NEW ts, Balanced(s, ls, st, q, ts), q # <<>>, q[1].op = "throw"
  PROVE  Balanced(s, ls, st, Tail(q), ts)
<1>1. Len(s) \in Nat /\ CompleteIn(s) \in SUBSET (1..Len(s)) /\ Data(Len(s), CompleteIn(s), ls, st, q)
  BY BalancedAre
<1>2. /\ Data(Len(s), CompleteIn(s), ls, st, Tail(q))
      /\ Gains(ls, st, Tail(q), ls, st, q, Serves(q[1]))
  BY <1>1, Taken
<1>3. Serves(q[1]) = <<>>
  BY DEF Serves
<1>4. Keeps(ls, st, q, ls, st, Tail(q))
  <2>1. \A us, g : Total(ls, st, Tail(q), us, g) \in Nat
    BY <1>1, <1>2, DataAre
  <2>2. \A g : Count(<<>>, g) = 0
    BY CountFacts
  <2>3. \A us, g : Total(ls, st, q, us, g) = Total(ls, st, Tail(q), us, g) + Count(<<>>, g)
    BY <1>2, <1>3 DEF Gains
  <2> QED
    BY <2>1, <2>2, <2>3 DEF Keeps
<1> QED
  BY <1>2, <1>4, StaysBalanced

-----------------------------------------------------------------------------
(* The steps of the isolate                                                *)

\* The inductive invariant.
FuturesInv == TypeInv /\ Balanced(state, listeners, stack, queue, timers)

\* What ResultIsFinal says of a step.
Final == \A f \in Futures : IsComplete(f) => state'[f] = state[f] /\ result'[f] = result[f]

\* What is left of the types when the data are balanced.
Rest ==
  /\ Len(state) >= Cardinality(Completers) /\ Len(state) <= MaxFutures
  /\ result \in Seq(Outcome \cup {0}) /\ Len(result) = Len(state)
  /\ priority \in 0..Len(queue)
  /\ phase \in {"event", "loop", "stalled", "dead"}

\* It is all of them.
LEMMA InvIs == FuturesInv <=> Rest /\ Balanced(state, listeners, stack, queue, timers)
BY BalancedAre DEF FuturesInv, TypeInv, Rest, Futures

\* The same after a step.
LEMMA InvIsNext ==
  ASSUME Rest', Balanced(state', listeners', stack', queue', timers')
  PROVE  FuturesInv'
<1>1. state' \in Seq(States) /\ timers' \subseteq 1..Len(state')
  BY BalancedAre
<1> QED
  BY <1>1 DEF FuturesInv, TypeInv, Rest, Futures

\* A step in which no future changes.
LEMMA NothingChanges ==
  ASSUME FuturesInv, UNCHANGED <<state, result>>, priority' \in 0..Len(queue'),
         phase' \in {"event", "loop", "stalled", "dead"},
         Balanced(state', listeners', stack', queue', timers')
  PROVE  FuturesInv' /\ Final
<1>1. Rest'
  BY InvIs DEF Rest
<1>2. Final
  BY DEF Final
<1> QED
  BY <1>1, <1>2, InvIsNext

\* A step in which one future changes that was not complete.
LEMMA OneChanges ==
  ASSUME FuturesInv, NEW f \in 1..Len(state), ~Done(state, f), NEW v, state' = [state EXCEPT ![f] = v],
         \/ UNCHANGED result
         \/ \E x \in Outcome \cup {0} : result' = [result EXCEPT ![f] = x],
         priority' \in 0..Len(queue'), phase' \in {"event", "loop", "stalled", "dead"},
         Balanced(state', listeners', stack', queue', timers')
  PROVE  FuturesInv' /\ Final
<1>1. /\ Rest /\ state \in Seq(States)
  BY InvIs, BalancedAre
<1>2. Len(state') = Len(state) /\ \A g \in 1..Len(state) : g # f => state'[g] = state[g]
  BY <1>1
<1>3. /\ result' \in Seq(Outcome \cup {0}) /\ Len(result') = Len(result)
      /\ \A g \in 1..Len(state) : g # f => result'[g] = result[g]
  <2>1. result \in Seq(Outcome \cup {0}) /\ Len(result) = Len(state)
    BY <1>1 DEF Rest
  <2>2. CASE UNCHANGED result
    BY <2>1, <2>2
  <2>3. ASSUME NEW x \in Outcome \cup {0}, result' = [result EXCEPT ![f] = x]
        PROVE  /\ result' \in Seq(Outcome \cup {0}) /\ Len(result') = Len(result)
               /\ \A g \in 1..Len(state) : g # f => result'[g] = result[g]
    <3> DEFINE O == Outcome \cup {0}
    <3>1. x \in O /\ result \in Seq(O) /\ f \in 1..Len(result)
      BY <2>1
    <3> HIDE DEF O
    <3>2. /\ result' \in Seq(O) /\ Len(result') = Len(result)
          /\ \A g \in 1..Len(result) : g # f => result'[g] = result[g]
      BY <2>3, <3>1
    <3> QED
      BY <2>1, <3>2 DEF O
  <2> QED
    BY <2>2, <2>3
<1>4. Rest'
  BY <1>1, <1>2, <1>3 DEF Rest
<1>5. Final
  BY <1>2, <1>3 DEF Final, Futures, IsComplete, Done
<1> QED
  BY <1>4, <1>5, InvIsNext

\* A step that creates a future.
LEMMA OneIsCreated ==
  ASSUME FuturesInv, NEW v \in States, state' = Append(state, v), result' = Append(result, 0), Len(state) + 1 <= MaxFutures,
         priority' \in 0..Len(queue'), phase' \in {"event", "loop", "stalled", "dead"},
         Balanced(state', listeners', stack', queue', timers')
  PROVE  FuturesInv' /\ Final
<1>1. /\ Rest /\ state \in Seq(States)
  BY InvIs, BalancedAre
<1>2. Len(state') = Len(state) + 1 /\ \A g \in 1..Len(state) : state'[g] = state[g]
  BY <1>1
<1>3. /\ result' \in Seq(Outcome \cup {0}) /\ Len(result') = Len(state) + 1
      /\ \A g \in 1..Len(state) : result'[g] = result[g]
  <2> DEFINE O == Outcome \cup {0}
  <2>1. 0 \in O /\ result \in Seq(O) /\ Len(result) = Len(state)
    BY <1>1 DEF Rest
  <2> HIDE DEF O
  <2>2. /\ result' \in Seq(O) /\ Len(result') = Len(result) + 1
        /\ \A g \in 1..Len(result) : result'[g] = result[g]
    BY <2>1
  <2> QED
    BY <2>1, <2>2 DEF O
<1>4. Len(state') >= Cardinality(Completers) /\ Len(state') <= MaxFutures
  <2>1. Cardinality(Completers) \in Nat
    BY FuturesAssumption, FS_CardinalityType
  <2> QED
    BY <1>1, <1>2, <2>1 DEF Rest
<1>5. Rest'
  BY <1>2, <1>3, <1>4 DEF Rest
<1>6. Final
  BY <1>2, <1>3 DEF Final, Futures
<1> QED
  BY <1>5, <1>6, InvIsNext

\* f is completed with x, by one who was in charge of it, and its listeners are called.
LEMMA Finishing ==
  ASSUME FuturesInv, NEW f, NEW st, Released(state, listeners, st, queue', timers', f),
         NEW x \in Outcome \cup {0}, SetResult(f, x), stack' = Append(st, Call(f, RemoveListeners(f))),
         priority' \in 0..Len(queue'), phase' \in {"event", "loop", "stalled", "dead"}
  PROVE  FuturesInv' /\ Final
<1>1. f \in 1..Len(state) /\ ~Done(state, f)
  BY ReleasedAre
<1>2. PICK v \in {"VALUE", "ERROR"} : v = StateFor(x)
  BY DEF StateFor
<1>3. /\ state' = [state EXCEPT ![f] = v] /\ listeners' = [listeners EXCEPT ![f] = <<>>]
      /\ result' = [result EXCEPT ![f] = x] /\ stack' = Append(st, Call(f, Reverse(listeners[f])))
  BY <1>2 DEF SetResult, RemoveListeners
<1>4. Balanced([state EXCEPT ![f] = v], [listeners EXCEPT ![f] = <<>>],
               Append(st, Call(f, Reverse(listeners[f]))), queue', timers')
  BY IsFinished
<1>5. Balanced(state', listeners', stack', queue', timers')
  BY <1>3, <1>4
<1> QED
  BY <1>1, <1>3, <1>5, OneChanges

\* The parts of the invariant that the steps use.
LEMMA InvGives ==
  ASSUME FuturesInv
  PROVE  /\ Balanced(state, listeners, stack, queue, timers)
         /\ state \in Seq(States) /\ Len(state) \in Nat /\ Len(state) >= Cardinality(Completers)
         /\ priority \in 0..Len(queue) /\ phase \in {"event", "loop", "stalled", "dead"}
         /\ \A f \in 1..Len(state) : result[f] \in Outcome \cup {0}
         /\ CompleteIn(state) \in SUBSET (1..Len(state))
         /\ \A f \in Futures : f \in 1..Len(state) /\ (IsComplete(f) <=> f \in CompleteIn(state))
         /\ \A f : IsComplete(f) <=> Done(state, f)
<1>1. Rest /\ Balanced(state, listeners, stack, queue, timers)
  BY InvIs
<1>2. state \in Seq(States) /\ Len(state) \in Nat /\ CompleteIn(state) \in SUBSET (1..Len(state))
  BY <1>1, BalancedAre
<1>3. \A f \in 1..Len(state) : result[f] \in Outcome \cup {0}
  <2>1. PICK O : O = Outcome \cup {0}
    OBVIOUS
  <2>2. result \in Seq(O) /\ Len(result) = Len(state)
    BY <1>1, <2>1 DEF Rest
  <2>3. \A f \in 1..Len(state) : result[f] \in O
    BY <2>2
  <2> QED
    BY <2>1, <2>3
<1>4. \A f : IsComplete(f) <=> Done(state, f)
  BY DEF IsComplete, Done
<1>5. \A f \in Futures : f \in 1..Len(state) /\ (IsComplete(f) <=> f \in CompleteIn(state))
  BY <1>4 DEF CompleteIn, Futures
<1> QED
  BY <1>1, <1>2, <1>3, <1>4, <1>5 DEF Rest

\* then(), catchError() and whenComplete().
LEMMA ListenStep ==
  ASSUME FuturesInv, NEW f \in Futures, NEW kind \in Kinds, Listen(f, kind)
  PROVE  FuturesInv' /\ Final
<1>1. /\ Balanced(state, listeners, stack, queue, timers)
      /\ Len(state) \in Nat /\ Len(state) >= Cardinality(Completers)
      /\ priority \in 0..Len(queue) /\ phase \in {"event", "loop", "stalled", "dead"}
      /\ CompleteIn(state) \in SUBSET (1..Len(state))
      /\ f \in 1..Len(state) /\ (IsComplete(f) <=> f \in CompleteIn(state))
  BY InvGives
<1>2. PICK l : l = Listener(kind, Len(state) + 1)
  OBVIOUS
<1>3. l \in ListenerOf(Len(state) + 1, CompleteIn(state)) /\ l.result = Len(state) + 1 /\ l.kind # "timeout"
  <2>1. kind \in AllKinds \ {"resume", "timeout"}
    BY FuturesAssumption DEF Listen, AllKinds
  <2>2. PICK n \in Nat : n = Len(state) + 1
    BY <1>1
  <2>3. n \in 1..n
    BY <1>1, <2>2
  <2> QED
    BY <1>2, <2>1, <2>2, <2>3 DEF Listener, ListenerOf
<1>4. /\ state' = Append(state, "INCOMPLETE") /\ result' = Append(result, 0)
      /\ stack' = stack /\ timers' = timers /\ phase' = phase /\ Len(state) + 1 <= MaxFutures
      /\ "INCOMPLETE" \in States
  BY DEF Listen, Create, New, States
<1>5. CASE IsComplete(f)
  <2>1. /\ queue' = Append(queue, Propagate(f, l)) /\ priority' = priority
        /\ listeners' = Append(listeners, <<>>)
    BY <1>2, <1>5 DEF Listen, ScheduleMicrotask, New
  <2>2. Balanced(Append(state, "INCOMPLETE"), Append(listeners, <<>>), stack, Append(queue, Propagate(f, l)), timers)
    BY <1>1, <1>3, <1>5, ListensLate
  <2>3. Balanced(state', listeners', stack', queue', timers')
    BY <1>4, <2>1, <2>2
  <2>4. priority' \in 0..Len(queue')
    <3>1. queue \in Seq(MicrotaskOf(Len(state), CompleteIn(state)))
      BY <1>1, BalancedAre, DataAre
    <3> QED
      BY <1>1, <2>1, <3>1
  <2> QED
    BY <1>1, <1>4, <2>3, <2>4, OneIsCreated
<1>6. CASE ~IsComplete(f)
  <2>1. /\ queue' = queue /\ priority' = priority
        /\ listeners' = Append([listeners EXCEPT ![f] = <<l>> \o listeners[f]], <<>>)
    BY <1>2, <1>6 DEF Listen, New
  <2>2. Balanced(Append(state, "INCOMPLETE"), Append([listeners EXCEPT ![f] = <<l>> \o listeners[f]], <<>>),
                 stack, queue, timers)
    BY <1>1, <1>3, ListensEarly
  <2>3. Balanced(state', listeners', stack', queue', timers')
    BY <1>4, <2>1, <2>2
  <2> QED
    BY <1>1, <1>4, <2>1, <2>3, OneIsCreated
<1> QED
  BY <1>5, <1>6

\* timeout().
LEMMA TimeoutStep ==
  ASSUME FuturesInv, NEW f \in Futures, Timeout(f)
  PROVE  FuturesInv' /\ Final
<1>1. /\ Balanced(state, listeners, stack, queue, timers)
      /\ Len(state) \in Nat /\ Len(state) >= Cardinality(Completers)
      /\ priority \in 0..Len(queue) /\ phase \in {"event", "loop", "stalled", "dead"}
      /\ CompleteIn(state) \in SUBSET (1..Len(state)) /\ f \in 1..Len(state)
  BY InvGives
<1>2. PICK l : l = Listener("timeout", Len(state) + 1)
  OBVIOUS
<1>3. l \in ListenerOf(Len(state) + 1, CompleteIn(state)) /\ l.result = Len(state) + 1 /\ l.kind = "timeout"
  <2>1. PICK n \in Nat : n = Len(state) + 1
    BY <1>1
  <2>2. n \in 1..n
    BY <1>1, <2>1
  <2> QED
    BY <1>2, <2>1, <2>2 DEF Listener, ListenerOf, AllKinds
<1>4. /\ phase' = phase /\ {"INCOMPLETE", "PENDING_COMPLETE", "CHAINED"} \subseteq States
  BY DEF Timeout, States
<1>5. CASE /\ Create("INCOMPLETE")
           /\ listeners' = Append([listeners EXCEPT ![f] = <<Listener("timeout", New)>> \o @], <<>>)
           /\ timers' = timers \cup {New} /\ UNCHANGED <<queue, priority, stack>>
  <2>1. /\ state' = Append(state, "INCOMPLETE") /\ result' = Append(result, 0)
        /\ timers' = timers \cup {Len(state) + 1} /\ Len(state) + 1 <= MaxFutures
        /\ listeners' = Append([listeners EXCEPT ![f] = <<l>> \o listeners[f]], <<>>)
    BY <1>2, <1>5 DEF Create, New
  <2>2. Balanced(Append(state, "INCOMPLETE"), Append([listeners EXCEPT ![f] = <<l>> \o listeners[f]], <<>>),
                 stack, queue, timers \cup {Len(state) + 1})
    BY <1>1, <1>3, ListensEarly
  <2>3. Balanced(state', listeners', stack', queue', timers')
    BY <1>5, <2>1, <2>2
  <2> QED
    BY <1>1, <1>4, <1>5, <2>1, <2>3, OneIsCreated
<1>6. CASE /\ HasError(f) /\ Create("PENDING_COMPLETE") /\ listeners' = Append(listeners, <<>>)
           /\ ScheduleMicrotask(ChainCore(f, New)) /\ UNCHANGED <<stack, timers>>
  <2>1. PICK g : g = Len(state) + 1
    OBVIOUS
  <2>2. /\ state' = Append(state, "PENDING_COMPLETE") /\ result' = Append(result, 0) /\ Len(state) + 1 <= MaxFutures
        /\ queue' = Append(queue, ChainCore(f, g)) /\ priority' = priority
    BY <1>6, <2>1 DEF Create, New, ScheduleMicrotask
  <2>3. f \in CompleteIn(state)
    BY <1>1, <1>6 DEF HasError, CompleteIn, Done
  <2>4. Balanced(Append(state, "PENDING_COMPLETE"), Append(listeners, <<>>), stack, Append(queue, ChainCore(f, g)), timers)
    BY <1>1, <2>1, <2>3, IsCreatedFor
  <2>5. Balanced(state', listeners', stack', queue', timers')
    BY <1>6, <2>2, <2>4
  <2>6. priority' \in 0..Len(queue')
    <3>1. queue \in Seq(MicrotaskOf(Len(state), CompleteIn(state)))
      BY <1>1, BalancedAre, DataAre
    <3> QED
      BY <1>1, <2>2, <3>1
  <2> QED
    BY <1>1, <1>4, <2>2, <2>5, <2>6, OneIsCreated
<1>7. CASE /\ IsComplete(f) /\ Create("CHAINED") /\ listeners' = Append(listeners, <<>>)
           /\ Push(Call(f, <<Listener("chain", New)>>)) /\ UNCHANGED <<queue, priority, timers>>
  <2>1. PICK g : g = Len(state) + 1
    OBVIOUS
  <2>2. /\ state' = Append(state, "CHAINED") /\ result' = Append(result, 0) /\ Len(state) + 1 <= MaxFutures
        /\ stack' = Append(stack, Call(f, <<Listener("chain", g)>>))
    BY <1>7, <2>1 DEF Create, New, Push
  <2>3. f \in CompleteIn(state)
    BY <1>7, InvGives
  <2>4. Balanced(Append(state, "CHAINED"), Append(listeners, <<>>),
                 Append(stack, Call(f, <<Listener("chain", g)>>)), queue, timers)
    BY <1>1, <2>1, <2>3, IsCreatedFor
  <2>5. Balanced(state', listeners', stack', queue', timers')
    BY <1>7, <2>2, <2>4
  <2> QED
    BY <1>1, <1>4, <1>7, <2>2, <2>5, OneIsCreated
<1> QED
  BY <1>5, <1>6, <1>7 DEF Timeout

\* f, of which no one is in charge, takes the result of source, which is complete.
LEMMA Chaining ==
  ASSUME FuturesInv, NEW f, NEW st, Released(state, listeners, st, queue', timers', f),
         NEW source \in CompleteIn(state), state' = [state EXCEPT ![f] = "CHAINED"],
         UNCHANGED <<result, listeners>>, stack' = Append(st, Call(source, <<Listener("chain", f)>>)),
         priority' \in 0..Len(queue'), phase' \in {"event", "loop", "stalled", "dead"}
  PROVE  FuturesInv' /\ Final
<1>1. f \in 1..Len(state) /\ ~Done(state, f)
  BY ReleasedAre
<1>2. Balanced([state EXCEPT ![f] = "CHAINED"], listeners, Append(st, Call(source, <<Listener("chain", f)>>)),
               queue', timers')
  BY IsChained
<1>3. Balanced(state', listeners', stack', queue', timers')
  BY <1>2
<1> QED
  BY <1>1, <1>3, OneChanges

\* f waits for source.
LEMMA Awaiting ==
  ASSUME FuturesInv, NEW f, NEW st, Released(state, listeners, st, queue, timers, f),
         NEW source \in Futures, NEW l \in ListenerOf(Len(state), CompleteIn(state)), InCharge(l, f), ~IsUser(l),
         state' = [state EXCEPT ![f] = "CHAINED"], AddListener(source, l),
         stack' = st, UNCHANGED <<result, timers, phase>>
  PROVE  FuturesInv' /\ Final
<1>1. f \in 1..Len(state) /\ ~Done(state, f)
  BY ReleasedAre
<1>2. /\ Len(state) \in Nat /\ CompleteIn(state) \in SUBSET (1..Len(state))
      /\ Balanced(state, listeners, stack, queue, timers)
      /\ priority \in 0..Len(queue) /\ phase \in {"event", "loop", "stalled", "dead"}
      /\ source \in 1..Len(state) /\ (IsComplete(source) <=> Done(state, source))
  BY InvGives
<1>3. /\ Balanced([state EXCEPT ![f] = "CHAINED"], [listeners EXCEPT ![source] = <<l>> \o listeners[source]],
                  st, queue, timers)
      /\ Done(state, source) =>
           Balanced([state EXCEPT ![f] = "CHAINED"], listeners, st, Append(queue, Propagate(source, l)), timers)
  BY <1>2, IsAwaiting
<1>4. CASE IsComplete(source)
  <2>1. queue' = Append(queue, Propagate(source, l)) /\ priority' = priority /\ listeners' = listeners
    BY <1>4 DEF AddListener, ScheduleMicrotask
  <2>2. Balanced(state', listeners', stack', queue', timers')
    BY <1>2, <1>3, <1>4, <2>1
  <2>3. priority' \in 0..Len(queue')
    <3>1. queue \in Seq(MicrotaskOf(Len(state), CompleteIn(state)))
      BY <1>2, BalancedAre, DataAre
    <3> QED
      BY <1>2, <2>1, <3>1
  <2> QED
    BY <1>1, <1>2, <2>2, <2>3, OneChanges
<1>5. CASE ~IsComplete(source)
  <2>1. /\ queue' = queue /\ priority' = priority
        /\ listeners' = [listeners EXCEPT ![source] = <<l>> \o listeners[source]]
    BY <1>5 DEF AddListener
  <2>2. Balanced(state', listeners', stack', queue', timers')
    BY <1>3, <2>1
  <2> QED
    BY <1>1, <1>2, <2>1, <2>2, OneChanges
<1> QED
  BY <1>4, <1>5

\* _chainCoreFuture().
LEMMA ChainStep ==
  ASSUME FuturesInv, NEW f, Released(state, listeners, stack, queue, timers, f), NEW source \in Futures,
         ChainCoreFuture(source, f), UNCHANGED <<timers, phase>>
  PROVE  FuturesInv' /\ Final
<1>1. f \in 1..Len(state)
  BY ReleasedAre
<1>2. /\ Len(state) \in Nat /\ CompleteIn(state) \in SUBSET (1..Len(state))
      /\ priority \in 0..Len(queue) /\ phase \in {"event", "loop", "stalled", "dead"}
      /\ (IsComplete(source) <=> source \in CompleteIn(state))
  BY InvGives
<1>3. state' = [state EXCEPT ![f] = "CHAINED"] /\ result' = result
  BY DEF ChainCoreFuture
<1>4. CASE IsComplete(source)
  <2>1. /\ stack' = Append(stack, Call(source, <<Listener("chain", f)>>))
        /\ UNCHANGED <<listeners, queue, priority>>
    BY <1>4 DEF ChainCoreFuture, Push
  <2>2. Released(state, listeners, stack, queue', timers', f) /\ source \in CompleteIn(state)
    BY <1>2, <1>4, <2>1
  <2> QED
    BY <1>2, <1>3, <2>1, <2>2, Chaining
<1>5. CASE ~IsComplete(source)
  <2>1. AddListener(source, Listener("chain", f)) /\ stack' = stack
    BY <1>5 DEF ChainCoreFuture
  <2>2. PICK l : l = Listener("chain", f)
    OBVIOUS
  <2>3. l \in ListenerOf(Len(state), CompleteIn(state)) /\ InCharge(l, f) /\ ~IsUser(l)
    BY <1>1, <1>2, <2>2, MadeChain
  <2>4. AddListener(source, l)
    BY <2>1, <2>2
  <2> QED
    BY <1>3, <2>1, <2>3, <2>4, Awaiting
<1> QED
  BY <1>4, <1>5

\* A completer of the program may complete its future.
LEMMA CompleterReleased ==
  ASSUME FuturesInv, NEW f \in Completers, MayComplete(f)
  PROVE  f \in 1..Len(state) /\ Released(state, listeners, stack, queue, timers, f)
<1>1. Balanced(state, listeners, stack, queue, timers) /\ Len(state) \in Nat /\ Len(state) >= Cardinality(Completers)
  BY InvGives
<1>2. Completers = 1..Cardinality(Completers) /\ Cardinality(Completers) \in Nat
  BY FuturesAssumption, FS_CardinalityType
<1>3. f \in 1..Len(state)
  BY <1>1, <1>2
<1> QED
  BY <1>1, <1>3, ReleasedCompleter DEF MayComplete

\* A completer completes its future while callbacks run.
LEMMA CompleteSyncStep ==
  ASSUME FuturesInv, NEW f \in Completers, NEW x \in Answer, CompleteSync(f, x)
  PROVE  FuturesInv' /\ Final
<1>1. f \in 1..Len(state) /\ Released(state, listeners, stack, queue, timers, f)
  BY CompleterReleased DEF CompleteSync
<1>2. priority \in 0..Len(queue) /\ phase \in {"event", "loop", "stalled", "dead"}
  BY InvGives
<1>3. timers' = timers /\ phase' = phase
  BY DEF CompleteSync
<1>4. CASE x \in Futures
  <2>1. ChainCoreFuture(x, f)
    BY <1>4 DEF CompleteSync
  <2> QED
    BY <1>1, <1>3, <1>4, <2>1, ChainStep
<1>5. CASE x \notin Futures
  <2>1. /\ SetResult(f, x) /\ stack' = Append(stack, Call(f, RemoveListeners(f)))
        /\ queue' = queue /\ priority' = priority
    BY <1>5 DEF CompleteSync, Push
  <2>2. x \in Outcome \cup {0}
    BY <1>5 DEF Answer
  <2>3. Released(state, listeners, stack, queue', timers', f)
    BY <1>1, <1>3, <2>1
  <2> QED
    BY <1>2, <1>3, <2>1, <2>2, <2>3, Finishing
<1> QED
  BY <1>4, <1>5

\* A completer has its future completed by a microtask.
LEMMA CompleteAsyncStep ==
  ASSUME FuturesInv, NEW f \in Completers, NEW x \in Answer, CompleteAsync(f, x)
  PROVE  FuturesInv' /\ Final
<1>1. f \in 1..Len(state) /\ Released(state, listeners, stack, queue, timers, f)
  BY CompleterReleased DEF CompleteAsync
<1>2. /\ priority \in 0..Len(queue) /\ phase \in {"event", "loop", "stalled", "dead"}
      /\ Balanced(state, listeners, stack, queue, timers)
      /\ Len(state) \in Nat /\ CompleteIn(state) \in SUBSET (1..Len(state))
  BY InvGives
<1>3. timers' = timers /\ phase' = phase
  BY DEF CompleteAsync
<1>4. CASE x \in Futures /\ ~HasError(x)
  <2>1. ChainCoreFuture(x, f)
    BY <1>4 DEF CompleteAsync
  <2> QED
    BY <1>1, <1>3, <1>4, <2>1, ChainStep
<1>5. CASE ~(x \in Futures /\ ~HasError(x))
  <2>1. PICK m : m = IF x \in Futures THEN ChainCore(x, f) ELSE Complete(f, x)
    OBVIOUS
  <2>2. /\ state' = [state EXCEPT ![f] = "PENDING_COMPLETE"] /\ queue' = Append(queue, m)
        /\ UNCHANGED <<priority, result, listeners, stack>>
    BY <1>5, <2>1 DEF CompleteAsync, ScheduleMicrotask
  <2>3. /\ m \in MicrotaskOf(Len(state), CompleteIn(state))
        /\ m.op \in {"complete", "chain"} /\ m.future = f
    <3>1. CASE x \in Futures
      <4>1. HasError(x)
        BY <1>5, <3>1
      <4>2. x \in CompleteIn(state)
        BY <3>1, <4>1 DEF HasError, CompleteIn, Done, Futures
      <4>3. m = ChainCore(x, f)
        BY <2>1, <3>1
      <4> QED
        BY <1>1, <4>2, <4>3 DEF ChainCore, MicrotaskOf
    <3>2. CASE x \notin Futures
      <4>1. m = Complete(f, x) /\ x \in Outcome
        BY <2>1, <3>2 DEF Answer
      <4> QED
        BY <1>1, <4>1 DEF Complete, MicrotaskOf
    <3> QED
      BY <3>1, <3>2
  <2>4. Balanced([state EXCEPT ![f] = "PENDING_COMPLETE"], listeners, stack, Append(queue, m), timers)
    BY <1>1, <2>3, IsPending
  <2>5. Balanced(state', listeners', stack', queue', timers')
    BY <1>3, <2>2, <2>4
  <2>6. priority' \in 0..Len(queue')
    <3>1. queue \in Seq(MicrotaskOf(Len(state), CompleteIn(state)))
      BY <1>2, BalancedAre, DataAre
    <3> QED
      BY <1>2, <2>2, <2>3, <3>1
  <2>7. ~Done(state, f)
    BY <1>1, ReleasedAre
  <2> QED
    BY <1>1, <1>2, <1>3, <2>2, <2>5, <2>6, <2>7, OneChanges
<1> QED
  BY <1>4, <1>5

\* The innermost call.
LEMMA TopIs ==
  ASSUME FuturesInv, stack # <<>>
  PROVE  /\ Top \in CallOf(Len(state), CompleteIn(state))
         /\ ~Top.user \/ Top.listeners[1].kind # "onTimeout" =>
              Top.source \in CompleteIn(state) /\ result[Top.source] \in Outcome \cup {0}
<1>1. /\ Balanced(state, listeners, stack, queue, timers)
      /\ CompleteIn(state) \in SUBSET (1..Len(state))
      /\ \A f \in 1..Len(state) : result[f] \in Outcome \cup {0}
  BY InvGives
<1>2. Len(state) \in Nat /\ Data(Len(state), CompleteIn(state), listeners, stack, queue)
  BY <1>1, BalancedAre
<1>3. Last(stack) \in CallOf(Len(state), CompleteIn(state))
  BY <1>1, <1>2, Popped
<1>4. ~Top.user \/ Top.listeners[1].kind # "onTimeout" => Top.source \in CompleteIn(state)
  BY <1>3 DEF CallOf, Top
<1> QED
  BY <1>1, <1>3, <1>4 DEF Top

\* The innermost call serves one listener, or runs its callback.
LEMMA TopServes ==
  ASSUME FuturesInv, stack # <<>>, Len(Top.listeners) = 1 \/ Top.user, NEW l, l = Top.listeners[1]
  PROVE  /\ Top.listeners = <<l>> /\ (Top.user => l.kind \in CallbackKinds \cup {"onTimeout"})
         /\ l \in ListenerOf(Len(state), CompleteIn(state)) /\ l.result \in 1..Len(state)
         /\ l.kind # "timeout" =>
              Released(state, listeners, Front(stack), queue, timers, l.result) /\ Expected(state, l.result) = 1
         /\ l.kind = "timeout" /\ l.result \in timers =>
              Released(state, listeners, Front(stack), queue, timers \ {l.result}, l.result)
         /\ l.kind = "timeout" => Balanced(state, listeners, Front(stack), queue, timers)
<1>1. Top \in CallOf(Len(state), CompleteIn(state))
  BY TopIs
<1>2. /\ Top.listeners \in Seq(ListenerOf(Len(state), CompleteIn(state)))
      /\ Top.user => Len(Top.listeners) = 1 /\ Top.listeners[1].kind \in CallbackKinds \cup {"onTimeout"}
  BY <1>1 DEF CallOf
<1>3. Top.listeners = <<l>>
  <2>1. PICK x : x = Top.listeners
    OBVIOUS
  <2>2. x \in Seq(ListenerOf(Len(state), CompleteIn(state))) /\ Len(x) = 1 /\ l = x[1]
    BY <1>2, <2>1
  <2>3. x = <<l>>
    BY <2>2
  <2> QED
    BY <2>1, <2>3
<1>4. Balanced(state, listeners, stack, queue, timers) /\ Last(stack).listeners = <<l>>
  BY <1>3, InvGives DEF Top
<1>5. /\ l \in ListenerOf(Len(state), CompleteIn(state)) /\ l.result \in 1..Len(state)
      /\ l.kind # "timeout" =>
           Released(state, listeners, Front(stack), queue, timers, l.result) /\ Expected(state, l.result) = 1
      /\ l.kind = "timeout" /\ l.result \in timers =>
           Released(state, listeners, Front(stack), queue, timers \ {l.result}, l.result)
      /\ l.kind = "timeout" => Balanced(state, listeners, Front(stack), queue, timers)
  BY <1>4, ReleasedListener
<1> QED
  BY <1>2, <1>3, <1>5

\* The loop of _propagateToListeners() completes the future of its last listener.
LEMMA TopFinishes ==
  ASSUME FuturesInv, stack # <<>>, Len(Top.listeners) = 1 \/ Top.user, NEW l, l = Top.listeners[1],
         l.kind # "timeout", NEW x \in Outcome \cup {0}, Finish(l.result, x),
         UNCHANGED <<queue, priority, timers, phase>>
  PROVE  FuturesInv' /\ Final
<1>1. Released(state, listeners, Front(stack), queue, timers, l.result)
  BY TopServes
<1>2. SetResult(l.result, x) /\ stack' = Append(Front(stack), Call(l.result, RemoveListeners(l.result)))
  BY DEF Finish, Become
<1>3. PICK f, st : f = l.result /\ st = Front(stack)
  BY Zenon
<1>4. /\ Released(state, listeners, st, queue', timers', f) /\ SetResult(f, x)
      /\ stack' = Append(st, Call(f, RemoveListeners(f)))
  BY <1>1, <1>2, <1>3
<1>5. priority' \in 0..Len(queue') /\ phase' \in {"event", "loop", "stalled", "dead"}
  BY InvGives
<1> QED
  BY <1>4, <1>5, Finishing

\* The code of _propagateToListeners() that no listener is completed by.
LEMMA LoopStepQuiet ==
  ASSUME FuturesInv, NoListeners \/ FirstOfSeveral \/ BeginCallback
  PROVE  FuturesInv' /\ Final
<1>1. /\ Balanced(state, listeners, stack, queue, timers)
      /\ priority \in 0..Len(queue) /\ phase \in {"event", "loop", "stalled", "dead"}
  BY InvGives
<1>2. stack # <<>> /\ UNCHANGED <<state, result, listeners, timers, phase>>
  BY DEF NoListeners, FirstOfSeveral, BeginCallback, Single, Running
<1>3. Top \in CallOf(Len(state), CompleteIn(state))
  BY <1>2, TopIs
<1>4. CASE NoListeners
  <2>1. Last(stack).listeners = <<>> /\ stack' = Front(stack)
    BY <1>4 DEF NoListeners, Pop, Top
  <2>2. Balanced(state, listeners, Front(stack), queue, timers)
    BY <1>1, <1>2, <2>1, Returns
  <2>3. CASE HasError(Top.source)
    <3>1. PICK r : r = queue' /\ IsInsert(r, queue, priority, Rethrow) /\ priority' = priority + 1
      BY <1>4, <2>3 DEF NoListeners, SchedulePriority, IsInsert
    <3>2. Balanced(state, listeners, Front(stack), r, timers) /\ Len(r) = Len(queue) + 1
      BY <1>1, <2>2, <3>1, IsThrown
    <3>3. Balanced(state', listeners', stack', queue', timers')
      BY <1>2, <2>1, <3>1, <3>2
    <3>4. priority' \in 0..Len(queue')
      <4>1. Len(queue) \in Nat
        <5>1. Len(state) \in Nat /\ CompleteIn(state) \in SUBSET (1..Len(state))
                /\ Data(Len(state), CompleteIn(state), listeners, stack, queue)
          BY <1>1, BalancedAre
        <5>2. queue \in Seq(MicrotaskOf(Len(state), CompleteIn(state)))
          BY <5>1, DataAre
        <5> QED
          BY <5>2
      <4> QED
        BY <1>1, <3>1, <3>2, <4>1
    <3> QED
      BY <1>1, <1>2, <3>3, <3>4, NothingChanges
  <2>4. CASE ~HasError(Top.source)
    <3>1. queue' = queue /\ priority' = priority
      BY <1>4, <2>4 DEF NoListeners
    <3>2. Balanced(state', listeners', stack', queue', timers')
      BY <1>2, <2>1, <2>2, <3>1
    <3> QED
      BY <1>1, <1>2, <3>1, <3>2, NothingChanges
  <2> QED
    BY <2>3, <2>4
<1>5. CASE FirstOfSeveral
  <2>1. PICK c, d, e, u : /\ c = Top /\ d = [c EXCEPT !.listeners = Tail(c.listeners)]
                          /\ e = Call(c.source, <<c.listeners[1]>>) /\ u = Front(stack)
    BY Zenon
  <2>2. /\ Len(c.listeners) > 1 /\ ~c.user /\ stack' = u \o <<d, e>>
        /\ queue' = queue /\ priority' = priority
    BY <1>5, <2>1 DEF FirstOfSeveral, Running
  <2>3. c = Last(stack)
    BY <2>1 DEF Top
  <2>4. Balanced(state, listeners, Append(Append(Front(stack), d), e), queue, timers)
    BY <1>1, <1>2, <2>1, <2>2, <2>3, FirstIsServed
  <2>5. stack' = Append(Append(u, d), e)
    <3>1. u \in Seq(CallOf(Len(state), CompleteIn(state)))
      <4>1. /\ Len(state) \in Nat /\ CompleteIn(state) \in SUBSET (1..Len(state))
            /\ Data(Len(state), CompleteIn(state), listeners, stack, queue)
        BY <1>1, BalancedAre
      <4>2. Data(Len(state), CompleteIn(state), listeners, Front(stack), queue)
        BY <1>2, <4>1, Popped
      <4> QED
        BY <2>1, <4>1, <4>2, DataAre
    <3>2. PICK S : S = CallOf(Len(state), CompleteIn(state)) \cup {d, e}
      OBVIOUS
    <3>3. u \in Seq(S) /\ d \in S /\ e \in S
      BY <3>1, <3>2
    <3> QED
      BY <2>2, <3>3
  <2>6. Balanced(state', listeners', stack', queue', timers')
    BY <1>2, <2>1, <2>2, <2>4, <2>5
  <2> QED
    BY <1>1, <1>2, <2>2, <2>6, NothingChanges
<1>6. CASE BeginCallback
  <2>1. PICK c : c = [Top EXCEPT !.user = TRUE]
    OBVIOUS
  <2>2. stack' = Append(Front(stack), c) /\ queue' = queue /\ priority' = priority
    BY <1>6, <2>1 DEF BeginCallback, Become
  <2>3. Len(Top.listeners) = 1 /\ Top.listeners[1].kind \in CallbackKinds /\ ~Top.user
    BY <1>6 DEF BeginCallback, Single, Running, HasCallback, CallbackKinds
  <2>4. /\ c \in CallOf(Len(state), CompleteIn(state))
        /\ c.source = Last(stack).source /\ c.listeners = Last(stack).listeners
    BY <1>3, <2>1, <2>3 DEF CallOf, Top
  <2>5. Balanced(state, listeners, Append(Front(stack), c), queue, timers)
    BY <1>1, <1>2, <2>4, CallChanges
  <2>6. Balanced(state', listeners', stack', queue', timers')
    BY <1>2, <2>2, <2>5
  <2> QED
    BY <1>1, <1>2, <2>2, <2>6, NothingChanges
<1> QED
  BY <1>4, <1>5, <1>6

\* The result is passed on to a listener that has no callback for it.
LEMMA PassOnStep ==
  ASSUME FuturesInv, PassOn
  PROVE  FuturesInv' /\ Final
<1>1. PICK l : l = Top.listeners[1]
  OBVIOUS
<1>2. PICK x : x = result[Top.source]
  OBVIOUS
<1>3. /\ stack # <<>> /\ ~Top.user /\ Len(Top.listeners) = 1 /\ l.kind # "timeout" /\ Finish(l.result, x)
      /\ UNCHANGED <<queue, priority, timers, phase>>
  BY <1>1, <1>2 DEF PassOn, Single, Running
<1>4. x \in Outcome \cup {0}
  BY <1>2, <1>3, TopIs
<1> QED
  BY <1>1, <1>3, <1>4, TopFinishes

\* The callbacks of timeout() and of a whenComplete action that returned a future.
LEMMA ServeInternalStep ==
  ASSUME FuturesInv, ServeInternal
  PROVE  FuturesInv' /\ Final
<1>1. PICK l, f, st, x : l = Top.listeners[1] /\ f = l.result /\ st = Front(stack) /\ x = result[Top.source]
  BY Zenon
<1>2. /\ stack # <<>> /\ ~Top.user /\ Len(Top.listeners) = 1 /\ UNCHANGED <<queue, priority, phase>>
  BY DEF ServeInternal, Single, Running
<1>3. /\ priority \in 0..Len(queue) /\ phase \in {"event", "loop", "stalled", "dead"}
      /\ \A g : IsComplete(g) <=> Done(state, g)
  BY InvGives
<1>4. /\ l \in ListenerOf(Len(state), CompleteIn(state))
      /\ l.kind # "timeout" => Released(state, listeners, st, queue, timers, f) /\ Expected(state, f) = 1
      /\ l.kind = "timeout" /\ f \in timers => Released(state, listeners, st, queue, timers \ {f}, f)
      /\ l.kind = "timeout" => Balanced(state, listeners, st, queue, timers)
  BY <1>1, <1>2, TopServes
<1>5. x \in Outcome \cup {0} /\ Top.source \in CompleteIn(state)
  BY <1>1, <1>2, TopIs
<1>6. CASE l.kind = "timeout" /\ f \in timers /\ timers' = timers \ {f} /\ Finish(f, x)
  <2>1. SetResult(f, x) /\ stack' = Append(st, Call(f, RemoveListeners(f)))
    BY <1>1, <1>6 DEF Finish, Become
  <2>2. Released(state, listeners, st, queue', timers', f)
    BY <1>2, <1>4, <1>6
  <2>3. priority' \in 0..Len(queue') /\ phase' \in {"event", "loop", "stalled", "dead"}
    BY <1>2, <1>3
  <2> QED
    BY <1>5, <2>1, <2>2, <2>3, Finishing
<1>7. CASE l.kind = "timeout" /\ Pop /\ UNCHANGED <<state, result, listeners, timers>>
  <2>1. stack' = st
    BY <1>1, <1>7 DEF Pop
  <2>2. Balanced(state', listeners', stack', queue', timers')
    BY <1>2, <1>4, <1>7, <2>1
  <2> QED
    BY <1>2, <1>3, <1>7, <2>2, NothingChanges
<1>8. CASE /\ l.kind = "resume"
           /\ Become(Call(IF HasError(Top.source) THEN Top.source ELSE l.origin, <<Listener("chain", f)>>))
           /\ UNCHANGED <<state, result, listeners, timers>>
  <2>1. PICK source : source = IF HasError(Top.source) THEN Top.source ELSE l.origin
    OBVIOUS
  <2>2. source \in CompleteIn(state)
    BY <1>4, <1>5, <1>8, <2>1 DEF ListenerOf
  <2>3. stack' = Append(st, Call(source, <<Listener("chain", f)>>))
    BY <1>1, <1>8, <2>1 DEF Become
  <2>4. Balanced(state, listeners, Append(st, Call(source, <<Listener("chain", f)>>)), queue, timers)
    BY <1>4, <1>8, <2>2, IsResumed
  <2>5. Balanced(state', listeners', stack', queue', timers')
    BY <1>2, <1>8, <2>3, <2>4
  <2> QED
    BY <1>2, <1>3, <1>8, <2>5, NothingChanges
<1> QED
  BY <1>1, <1>6, <1>7, <1>8 DEF ServeInternal

\* A callback returns or throws.
LEMMA ReturnStep ==
  ASSUME FuturesInv, Return
  PROVE  FuturesInv' /\ Final
<1>1. PICK l, f, st, y : l = Top.listeners[1] /\ f = l.result /\ st = Front(stack) /\ y = result[Top.source]
  BY Zenon
<1>2. stack # <<>> /\ Top.user /\ UNCHANGED <<timers, phase>>
  BY DEF Return, CallbackReturns, CallbackThrows, TestRefuses
<1>3. /\ priority \in 0..Len(queue) /\ phase \in {"event", "loop", "stalled", "dead"}
      /\ Len(state) \in Nat /\ CompleteIn(state) \in SUBSET (1..Len(state))
      /\ \A g \in Futures : IsComplete(g) <=> g \in CompleteIn(state)
  BY InvGives
<1>4. /\ Released(state, listeners, st, queue, timers, f) /\ l.kind # "timeout"
      /\ f \in 1..Len(state)
  <2>1. l.kind \in CallbackKinds \cup {"onTimeout"} /\ f \in 1..Len(state)
    BY <1>1, <1>2, TopServes
  <2>2. l.kind # "timeout"
    BY <2>1 DEF CallbackKinds
  <2> QED
    BY <1>1, <1>2, <2>1, <2>2, TopServes
<1>5. l.kind # "onTimeout" => y \in Outcome \cup {0} /\ Top.source \in CompleteIn(state)
  BY <1>1, <1>2, TopIs
<1>6. ASSUME NEW x \in Outcome \cup {0}, Finish(f, x), UNCHANGED <<queue, priority>>  PROVE FuturesInv' /\ Final
  <2>1. Finish(l.result, x)
    BY <1>1, <1>6
  <2> QED
    BY <1>1, <1>2, <1>4, <1>6, <2>1, TopFinishes
<1>7. ASSUME NEW e \in Errors, CallbackThrows(e)  PROVE FuturesInv' /\ Final
  <2>1. e \in Outcome \cup {0} /\ Finish(f, e) /\ UNCHANGED <<queue, priority>>
    BY <1>1, <1>7 DEF CallbackThrows, Outcome
  <2> QED
    BY <1>6, <2>1
<1>8. CASE TestRefuses
  <2>1. Finish(f, y) /\ UNCHANGED <<queue, priority>> /\ l.kind = "catchErrorTest"
    BY <1>1, <1>8 DEF TestRefuses
  <2> QED
    BY <1>5, <1>6, <2>1
<1>9. ASSUME NEW x \in Values \cup Futures, CallbackReturns(x)  PROVE FuturesInv' /\ Final
  <2>0. x \in Futures => x \notin Values
    <3>1. Futures \subseteq 0..MaxFutures
      BY <1>3, InvIs, FuturesAssumption DEF Rest, Futures
    <3> QED
      BY <3>1, FuturesAssumption
  <2>1. CASE l.kind = "whenComplete" /\ x \in Futures
    <3>1. HoldUp(x, l)
      BY <1>1, <1>9, <2>0, <2>1 DEF CallbackReturns
    <3>2. PICK m : m = [kind |-> "resume", result |-> f, origin |-> Top.source]
      OBVIOUS
    <3>3. /\ state' = [state EXCEPT ![f] = "CHAINED"] /\ AddListener(x, m)
          /\ stack' = st /\ UNCHANGED result
      BY <1>1, <3>1, <3>2 DEF HoldUp, Pop
    <3>4. m \in ListenerOf(Len(state), CompleteIn(state)) /\ InCharge(m, f) /\ ~IsUser(m)
      <4>1. Top.source \in 0..Len(state)
        BY <1>3, <1>5, <2>1
      <4> QED
        BY <1>4, <1>5, <2>1, <3>2, <4>1 DEF ListenerOf, InCharge, IsUser, AllKinds
    <3> QED
      BY <1>2, <1>4, <2>1, <3>3, <3>4, Awaiting
  <2>2. CASE l.kind = "whenComplete" /\ x \notin Futures
    <3>1. x \in Values
      BY <1>9, <2>2
    <3>2. Finish(f, y) /\ UNCHANGED <<queue, priority>>
      BY <1>1, <1>9, <2>2, <3>1 DEF CallbackReturns
    <3> QED
      BY <1>5, <1>6, <2>2, <3>2
  <2>3. CASE l.kind # "whenComplete" /\ x \in Futures
    <3>1. ChainReturned(x, f)
      BY <1>1, <1>9, <2>0, <2>3 DEF CallbackReturns
    <3>2. state' = [state EXCEPT ![f] = "CHAINED"] /\ UNCHANGED result
      BY <3>1 DEF ChainReturned
    <3>3. CASE IsComplete(x)
      <4>1. /\ stack' = Append(st, Call(x, <<Listener("chain", f)>>)) /\ UNCHANGED <<listeners, queue, priority>>
        BY <1>1, <3>1, <3>3 DEF ChainReturned, Become
      <4>2. Released(state, listeners, st, queue', timers', f) /\ x \in CompleteIn(state)
        BY <1>2, <1>3, <1>4, <2>3, <3>3, <4>1
      <4>3. priority' \in 0..Len(queue') /\ phase' \in {"event", "loop", "stalled", "dead"}
        BY <1>2, <1>3, <4>1
      <4> QED
        BY <3>2, <4>1, <4>2, <4>3, Chaining
    <3>4. CASE ~IsComplete(x)
      <4>1. PICK m : m = Listener("chain", f)
        OBVIOUS
      <4>2. AddListener(x, m) /\ stack' = st
        BY <1>1, <3>1, <3>4, <4>1 DEF ChainReturned, Pop
      <4>3. m \in ListenerOf(Len(state), CompleteIn(state)) /\ InCharge(m, f) /\ ~IsUser(m)
        BY <1>3, <1>4, <4>1, MadeChain
      <4> QED
        BY <1>2, <1>4, <2>3, <3>2, <4>2, <4>3, Awaiting
    <3> QED
      BY <3>3, <3>4
  <2>4. CASE l.kind # "whenComplete" /\ x \notin Futures
    <3>1. x \in Outcome \cup {0}
      BY <1>9, <2>4 DEF Outcome
    <3>2. Finish(f, x) /\ UNCHANGED <<queue, priority>>
      BY <1>1, <1>9, <2>4 DEF CallbackReturns
    <3> QED
      BY <1>6, <3>1, <3>2
  <2> QED
    BY <2>1, <2>2, <2>3, <2>4
<1> QED
  BY <1>7, <1>8, <1>9 DEF Return

\* The microtask loop.
LEMMA RunMicrotaskStep ==
  ASSUME FuturesInv, RunMicrotask
  PROVE  FuturesInv' /\ Final
<1>1. PICK m, f, r : m = queue[1] /\ f = m.future /\ r = Tail(queue)
  BY Zenon
<1>2. /\ phase = "loop" /\ stack = <<>> /\ queue # <<>> /\ queue' = r /\ priority' = 0 /\ timers' = timers
  BY <1>1 DEF RunMicrotask
<1>3. /\ Balanced(state, listeners, stack, queue, timers)
      /\ Len(state) \in Nat /\ CompleteIn(state) \in SUBSET (1..Len(state))
  BY InvGives
<1>4. /\ m \in MicrotaskOf(Len(state), CompleteIn(state))
      /\ m.op \in {"complete", "chain"} => Released(state, listeners, stack, r, timers, f)
  BY <1>1, <1>2, <1>3, ReleasedMicrotask
<1>5. priority' \in 0..Len(queue')
  <2>1. Data(Len(state), CompleteIn(state), listeners, stack, queue)
    BY <1>3, BalancedAre
  <2>2. queue \in Seq(MicrotaskOf(Len(state), CompleteIn(state)))
    BY <1>3, <2>1, DataAre
  <2>3. Len(r) \in Nat
    BY <1>1, <1>2, <2>2
  <2> QED
    BY <1>2, <2>3
<1>6. CASE /\ m.op = "complete" /\ SetResult(m.future, m.with)
           /\ Push(Call(m.future, RemoveListeners(m.future))) /\ UNCHANGED phase
  <2>1. PICK x \in Outcome \cup {0} : x = m.with
    BY <1>3, <1>4, <1>6, MicrotaskIs
  <2>2. SetResult(f, x) /\ stack' = Append(stack, Call(f, RemoveListeners(f)))
    BY <1>1, <1>6, <2>1 DEF Push
  <2>3. Released(state, listeners, stack, queue', timers', f)
    BY <1>2, <1>4, <1>6
  <2>4. phase' \in {"event", "loop", "stalled", "dead"}
    BY <1>2, <1>6
  <2> QED
    BY <1>5, <2>2, <2>3, <2>4, Finishing
<1>7. CASE /\ m.op = "chain" /\ state' = [state EXCEPT ![m.future] = "CHAINED"]
           /\ Push(Call(m.with, <<Listener("chain", m.future)>>)) /\ UNCHANGED <<result, listeners, phase>>
  <2>1. PICK source \in CompleteIn(state) : source = m.with
    BY <1>3, <1>4, <1>7, MicrotaskIs
  <2>2. /\ state' = [state EXCEPT ![f] = "CHAINED"] /\ UNCHANGED <<result, listeners>>
        /\ stack' = Append(stack, Call(source, <<Listener("chain", f)>>))
    BY <1>1, <1>7, <2>1 DEF Push
  <2>3. Released(state, listeners, stack, queue', timers', f)
    BY <1>2, <1>4, <1>7
  <2>4. phase' \in {"event", "loop", "stalled", "dead"}
    BY <1>2, <1>7
  <2> QED
    BY <1>5, <2>2, <2>3, <2>4, Chaining
<1>8. CASE /\ m.op = "propagate" /\ Push(Call(m.future, <<m.with>>))
           /\ UNCHANGED <<state, result, listeners, phase>>
  <2>1. Balanced(state, listeners, <<>>, queue, timers) /\ queue[1].op = "propagate"
    BY <1>1, <1>2, <1>3, <1>8
  <2>2. Balanced(state, listeners, Append(<<>>, Call(queue[1].future, <<queue[1].with>>)), Tail(queue), timers)
    BY <1>2, <2>1, IsPropagated
  <2>3. stack' = Append(<<>>, Call(queue[1].future, <<queue[1].with>>))
    BY <1>1, <1>2, <1>8 DEF Push
  <2>4. Balanced(state', listeners', stack', queue', timers')
    BY <1>1, <1>2, <1>8, <2>2, <2>3
  <2>5. phase' \in {"event", "loop", "stalled", "dead"}
    BY <1>2, <1>8
  <2> QED
    BY <1>5, <1>8, <2>4, <2>5, NothingChanges
<1>9. CASE /\ m.op = "throw" /\ phase' \in {"stalled", "dead"} /\ UNCHANGED <<state, result, listeners, stack>>
  <2>1. Balanced(state, listeners, stack, Tail(queue), timers)
    BY <1>1, <1>2, <1>3, <1>9, IsDead
  <2>2. Balanced(state', listeners', stack', queue', timers')
    BY <1>1, <1>2, <1>9, <2>1
  <2> QED
    BY <1>5, <1>9, <2>2, NothingChanges
<1> QED
  BY <1>1, <1>6, <1>7, <1>8, <1>9 DEF RunMicrotask

\* The timer of timeout().
LEMMA TimerFiresStep ==
  ASSUME FuturesInv, NEW f \in timers, TimerFires(f)
  PROVE  FuturesInv' /\ Final
<1>1. Balanced(state, listeners, stack, queue, timers) /\ priority \in 0..Len(queue)
  BY InvGives
<1>2. /\ timers' = timers \ {f} /\ phase' = "loop" /\ queue' = queue /\ priority' = priority
  BY DEF TimerFires
<1>3. priority' \in 0..Len(queue') /\ phase' \in {"event", "loop", "stalled", "dead"}
  BY <1>1, <1>2
<1>4. ASSUME NEW e \in Errors, SetResult(f, e), Push(Call(f, RemoveListeners(f)))  PROVE FuturesInv' /\ Final
  <2>1. Released(state, listeners, stack, queue', timers', f)
    <3>1. Released(state, listeners, stack, queue, timers \ {f}, f)
      BY <1>1, ReleasedTimer
    <3> QED
      BY <1>2, <3>1
  <2>2. e \in Outcome \cup {0} /\ stack' = Append(stack, Call(f, RemoveListeners(f)))
    BY <1>4 DEF Outcome, Push
  <2> QED
    BY <1>3, <1>4, <2>1, <2>2, Finishing
<1>5. CASE /\ Push([source |-> 0, listeners |-> <<Listener("onTimeout", f)>>, user |-> TRUE])
           /\ UNCHANGED <<state, result, listeners>>
  <2>1. PICK c : c = [source |-> 0, listeners |-> <<Listener("onTimeout", f)>>, user |-> TRUE]
    OBVIOUS
  <2>2. stack' = Append(stack, c)
    BY <1>5, <2>1 DEF Push
  <2>3. Balanced(state, listeners, Append(stack, c), queue, timers \ {f})
    BY <1>1, <2>1, IsTimedOut
  <2>4. Balanced(state', listeners', stack', queue', timers')
    BY <1>2, <1>5, <2>2, <2>3
  <2> QED
    BY <1>3, <1>5, <2>4, NothingChanges
<1> QED
  BY <1>4, <1>5 DEF TimerFires

\* One event ends, another begins, or nothing happens.
LEMMA EventStep ==
  ASSUME FuturesInv, EventReturns \/ EventThrows \/ NextEvent \/ UNCHANGED vars
  PROVE  FuturesInv' /\ Final
<1>1. /\ Balanced(state, listeners, stack, queue, timers)
      /\ priority \in 0..Len(queue) /\ phase \in {"event", "loop", "stalled", "dead"}
      /\ Len(state) \in Nat /\ CompleteIn(state) \in SUBSET (1..Len(state))
  BY InvGives
<1>2. UNCHANGED <<state, result, listeners, queue, stack, timers>>
  BY DEF EventReturns, EventThrows, NextEvent, vars
<1>3. Balanced(state', listeners', stack', queue', timers')
  BY <1>1, <1>2
<1>4. phase' \in {"event", "loop", "stalled", "dead"}
  BY <1>1 DEF EventReturns, EventThrows, NextEvent, vars
<1>5. priority' \in 0..Len(queue')
  <2>1. Data(Len(state), CompleteIn(state), listeners, stack, queue)
    BY <1>1, BalancedAre
  <2>2. queue \in Seq(MicrotaskOf(Len(state), CompleteIn(state)))
    BY <1>1, <2>1, DataAre
  <2>3. Len(queue) \in Nat
    BY <2>2
  <2>4. priority' = 0 \/ priority' = priority
    BY DEF EventReturns, EventThrows, NextEvent, vars
  <2> QED
    BY <1>1, <1>2, <2>3, <2>4
<1> QED
  BY <1>2, <1>3, <1>4, <1>5, NothingChanges

\* Every step preserves the invariant, and changes no future that is complete.
LEMMA FuturesStep ==
  ASSUME FuturesInv, [Next]_vars
  PROVE  FuturesInv' /\ Final
<1>1. ASSUME NEW f \in Futures, NEW kind \in Kinds, Listen(f, kind)  PROVE FuturesInv' /\ Final
  BY <1>1, ListenStep
<1>2. ASSUME NEW f \in Futures, Timeout(f)  PROVE FuturesInv' /\ Final
  BY <1>2, TimeoutStep
<1>3. ASSUME NEW f \in Completers, NEW x \in Answer, CompleteSync(f, x)  PROVE FuturesInv' /\ Final
  BY <1>3, CompleteSyncStep
<1>4. ASSUME NEW f \in Completers, NEW x \in Answer, CompleteAsync(f, x)  PROVE FuturesInv' /\ Final
  BY <1>4, CompleteAsyncStep
<1>5. ASSUME NEW f \in timers, TimerFires(f)  PROVE FuturesInv' /\ Final
  BY <1>5, TimerFiresStep
<1>6. CASE LoopStep
  <2>1. CASE NoListeners \/ FirstOfSeveral \/ BeginCallback
    BY <2>1, LoopStepQuiet
  <2>2. CASE PassOn
    BY <2>2, PassOnStep
  <2>3. CASE ServeInternal
    BY <2>3, ServeInternalStep
  <2>4. CASE RunMicrotask
    BY <2>4, RunMicrotaskStep
  <2>5. CASE EventReturns
    BY <2>5, EventStep
  <2> QED
    BY <1>6, <2>1, <2>2, <2>3, <2>4, <2>5 DEF LoopStep
<1>7. CASE Return
  BY <1>7, ReturnStep
<1>8. CASE EventThrows \/ NextEvent \/ UNCHANGED vars
  BY <1>8, EventStep
<1> QED
  BY <1>1, <1>2, <1>3, <1>4, <1>5, <1>6, <1>7, <1>8 DEF Next

\* At first no one listens.
LEMMA FuturesInit == Init => FuturesInv
<1> SUFFICES ASSUME Init  PROVE FuturesInv
  OBVIOUS
<1>1. PICK n \in Nat : n = Cardinality(Completers) /\ Completers = 1..n /\ n <= MaxFutures
  BY FuturesAssumption, FS_CardinalityType
<1>2. /\ state = [f \in 1..n |-> "INCOMPLETE"] /\ result = [f \in 1..n |-> 0] /\ listeners = [f \in 1..n |-> <<>>]
      /\ queue = <<>> /\ priority = 0 /\ stack = <<>> /\ timers = {} /\ phase = "event"
  BY <1>1 DEF Init
<1>3. state \in Seq(States) /\ Len(state) = n /\ \A f \in 1..n : state[f] = "INCOMPLETE"
  BY <1>2 DEF States
<1>4. result \in Seq(Outcome \cup {0}) /\ Len(result) = n
  BY <1>2
<1>5. Rest
  <2>1. Len(queue) = 0 /\ priority = 0 /\ phase \in {"event", "loop", "stalled", "dead"}
    BY <1>2
  <2>2. priority \in 0..Len(queue)
    BY <2>1
  <2>3. Len(state) >= Cardinality(Completers) /\ Len(state) <= MaxFutures /\ Len(result) = Len(state)
    <3>1. n = Cardinality(Completers) /\ n <= MaxFutures /\ n <= n
      BY <1>1
    <3>2. Len(state) = n /\ Len(result) = n
      BY <1>3, <1>4
    <3> QED
      BY ONLY <3>1, <3>2, n \in Nat
  <2> QED
    BY <1>4, <2>1, <2>2, <2>3 DEF Rest
<1>6. PICK C : C = CompleteIn(state)
  OBVIOUS
<1>7. /\ listeners \in Seq(Seq(ListenerOf(n, C))) /\ Len(listeners) = n /\ DOMAIN listeners = 1..n
      /\ \A f \in 1..n : listeners[f] = <<>>
  BY <1>2
<1>8. Data(n, C, listeners, stack, queue)
  <2>1. DOMAIN <<>> = {}
    OBVIOUS
  <2>2. ListsInOrder(listeners)
    BY <1>7, <2>1 DEF ListsInOrder
  <2>3. LineInOrder(<<>>, <<>>)
    BY <2>1 DEF LineInOrder
  <2> QED
    BY <1>2, <1>7, <2>2, <2>3 DEF Data
<1>9. ASSUME NEW g \in 1..n  PROVE Total(listeners, stack, queue, timers, g) = Expected(state, g)
  <2>1. DOMAIN <<>> = {}
    OBVIOUS
  <2>2. Places(listeners, g) = {}
    BY <1>7, <2>1 DEF Places
  <2>3. Calls(stack) = <<>> /\ Tasks(queue) = <<>>
    BY <1>2, <2>1 DEF Calls, Tasks
  <2>4. Places(<<>>, g) = {}
    BY <2>1 DEF Places
  <2>5. timers \cap {g} = {} /\ Cardinality({}) = 0
    BY <1>2, FS_EmptySet
  <2>6. Total(listeners, stack, queue, timers, g) = 0
    <3>1. /\ Cardinality(Places(listeners, g)) = 0 /\ Cardinality(Places(Calls(stack), g)) = 0
          /\ Cardinality(Places(Tasks(queue), g)) = 0 /\ Cardinality(timers \cap {g}) = 0
      BY <2>2, <2>3, <2>4, <2>5, Zenon
    <3> QED
      BY <3>1 DEF Total
  <2>7. Expected(state, g) = 0
    BY <1>1, <1>3 DEF Expected
  <2> QED
    BY <2>6, <2>7
<1>10. Balanced(state, listeners, stack, queue, timers)
  BY <1>2, <1>3, <1>6, <1>8, <1>9 DEF Balanced
<1> QED
  BY <1>5, <1>10, InvIs

-----------------------------------------------------------------------------
(* Theorems                                                                *)

\* The data of an isolate are well formed, one is in charge of each future that is not
\* complete, and the listeners are in line, whatever callbacks do.
THEOREM FuturesInvHolds == Spec => []FuturesInv
<1>1. FuturesInv /\ [Next]_vars => FuturesInv'
  BY FuturesStep
<1> QED
  BY FuturesInit, <1>1, PTL DEF Spec

\* Exactly one listener, microtask or timer is responsible for each future that no
\* completer can complete anymore, and none for one that is complete.
THEOREM OneCompletionEachHolds == Spec => []OneCompletionEach
<1>1. FuturesInv => OneCompletionEach
  <2> SUFFICES ASSUME FuturesInv, NEW f \in Futures
               PROVE  Completions(f) = IF IsComplete(f) \/ (f \in Completers /\ MayComplete(f)) THEN 0 ELSE 1
    BY DEF OneCompletionEach
  <2>1. Balanced(state, listeners, stack, queue, timers) /\ f \in 1..Len(state)
    BY InvGives
  <2>2. Total(listeners, stack, queue, timers, f) = Expected(state, f)
    BY <2>1, BalancedAre
  <2>3. Completions(f) = Total(listeners, stack, queue, timers, f)
    BY DEF Completions, Total, Calls, Tasks
  <2> QED
    BY <2>2, <2>3 DEF Expected, Done, IsComplete, MayComplete
<1> QED
  BY <1>1, FuturesInvHolds, PTL

\* Who waits is served by a call or by a microtask.
LEMMA WaitingForIs ==
  ASSUME NEW f, NEW l, l \in WaitingFor(f)
  PROVE  \/ \E j \in DOMAIN stack : stack[j].source = f /\ ~stack[j].user /\ l \in ToSet(stack[j].listeners)
         \/ \E i \in DOMAIN queue : queue[i].op = "propagate" /\ queue[i].future = f /\ l = queue[i].with
<1> DEFINE J == {j \in DOMAIN stack : stack[j].source = f /\ ~stack[j].user}
           I == {i \in DOMAIN queue : queue[i].op = "propagate" /\ queue[i].future = f}
<1> DEFINE A == UNION {ToSet(stack[i].listeners) : i \in J}
           B == {queue[i].with : i \in I}
<1>a. WaitingFor(f) = A \cup B
  BY Zenon DEF WaitingFor
<1> HIDE DEF A, B
<1>1. l \in A \cup B
  BY <1>a
<1>2. CASE l \in A
  <2>1. PICK S \in {ToSet(stack[i].listeners) : i \in J} : l \in S
    BY <1>2, Zenon DEF A
  <2>2. PICK j \in J : S = ToSet(stack[j].listeners)
    BY <2>1
  <2> QED
    BY <2>1, <2>2
<1>3. CASE l \in B
  BY <1>3 DEF B
<1> QED
  BY <1>1, <1>2, <1>3

\* The listeners of a future are called in the order in which they subscribed, also when
\* callbacks subscribe to a future that is being propagated.
THEOREM ListenersInOrderHolds == Spec => []ListenersInOrder
<1>1. FuturesInv => ListenersInOrder
  <2> SUFFICES ASSUME FuturesInv, stack # <<>>, Top.user, NEW l \in WaitingFor(Top.source), IsUser(l)
               PROVE  l.result > Top.listeners[1].result
    BY DEF ListenersInOrder
  <2>1. PICK n \in Nat : n = Len(state)
    BY InvGives
  <2>2. PICK C : C = CompleteIn(state)
    OBVIOUS
  <2>3. C \in SUBSET (1..n) /\ Data(n, C, listeners, stack, queue)
    BY <2>1, <2>2, InvGives, BalancedAre
  <2>4. stack \in Seq(CallOf(n, C)) /\ queue \in Seq(MicrotaskOf(n, C)) /\ LineInOrder(stack, queue)
    BY <2>3, DataAre
  <2>5. PICK k \in Nat, c \in CallOf(n, C) : k = Len(stack) /\ k \in DOMAIN stack /\ c = stack[k] /\ c = Top
    BY <2>4 DEF Top, Last
  <2>6. PICK m : m = c.listeners[1]
    OBVIOUS
  <2>7. m \in ListenerOf(n, C) /\ IsUser(m) /\ 1 \in DOMAIN c.listeners
    <3>0. c.source \in C
      <4>1. \A j \in DOMAIN stack : stack[j] \in CallOf(n, C)
        BY <2>4
      <4>2. \A j \in DOMAIN stack : ~stack[j].user => stack[j].source \in C
        BY <4>1 DEF CallOf
      <4>3. \A i \in DOMAIN queue : queue[i] \in MicrotaskOf(n, C)
        BY <2>4
      <4>4. \A i \in DOMAIN queue : queue[i].op = "propagate" => queue[i].future \in C
        BY <2>3, <4>3, MicrotaskIs
      <4>5. l \in WaitingFor(c.source)
        BY <2>5
      <4> QED
        BY <4>2, <4>4, <4>5, WaitingForIs
    <3>1. c.listeners \in Seq(ListenerOf(n, C)) /\ Len(c.listeners) = 1 /\ m.kind \in CallbackKinds
      <4>1. 0 \notin C
        BY <2>3
      <4> QED
        BY <2>5, <2>6, <3>0, <4>1 DEF CallOf
    <3> QED
      BY <2>6, <3>1 DEF IsUser, CallbackKinds
  <2>8. Earlier(m, l) /\ l \in ListenerOf(n, C)
    <3>1. ASSUME NEW j \in DOMAIN stack, stack[j].source = c.source, ~stack[j].user, l \in ToSet(stack[j].listeners)
          PROVE  Earlier(m, l) /\ l \in ListenerOf(n, C)
      <4>0. j # k
        <5>1. stack[k].user
          BY <2>5
        <5> QED
          BY <3>1, <5>1
      <4>1. j \in DOMAIN stack /\ k \in DOMAIN stack /\ j < k
        <5>1. DOMAIN stack = 1..k
          BY <2>4, <2>5
        <5> QED
          BY <2>5, <4>0, <5>1
      <4>2. AllEarlier(c.listeners, stack[j].listeners)
        <5>1. stack[j].source = stack[k].source => AllEarlier(stack[k].listeners, stack[j].listeners)
          BY <2>4, <4>1 DEF LineInOrder
        <5> QED
          BY <2>5, <3>1, <5>1
      <4>3. PICK i \in DOMAIN stack[j].listeners : l = stack[j].listeners[i]
        BY <3>1 DEF ToSet
      <4>4. stack[j].listeners \in Seq(ListenerOf(n, C))
        <5>1. stack[j] \in CallOf(n, C)
          BY <2>4, <3>1
        <5> QED
          BY <5>1 DEF CallOf
      <4> QED
        BY <2>6, <2>7, <4>2, <4>3, <4>4 DEF AllEarlier
    <3>2. ASSUME NEW i \in DOMAIN queue, queue[i].op = "propagate", queue[i].future = c.source, l = queue[i].with
          PROVE  Earlier(m, l) /\ l \in ListenerOf(n, C)
      <4>1. AllEarlier(c.listeners, <<l>>)
        BY <2>4, <2>5, <3>2 DEF LineInOrder, IsPropagation
      <4>2. queue[i] \in MicrotaskOf(n, C)
        BY <2>4, <3>2
      <4>3. l \in ListenerOf(n, C)
        BY <2>3, <3>2, <4>2, MicrotaskIs
      <4>4. 1 \in DOMAIN <<l>> /\ <<l>>[1] = l
        OBVIOUS
      <4> QED
        BY <2>6, <2>7, <4>1, <4>3, <4>4 DEF AllEarlier
    <3>3. l \in WaitingFor(c.source)
      BY <2>5
    <3>4. \/ \E j \in DOMAIN stack : stack[j].source = c.source /\ ~stack[j].user /\ l \in ToSet(stack[j].listeners)
          \/ \E i \in DOMAIN queue : queue[i].op = "propagate" /\ queue[i].future = c.source /\ l = queue[i].with
      BY <3>3, WaitingForIs
    <3> QED
      BY <3>1, <3>2, <3>4
  <2>9. m.result < l.result
    BY <2>7, <2>8 DEF Earlier
  <2>10. m.result \in Int /\ l.result \in Int
    BY <2>7, <2>8 DEF ListenerOf
  <2>11. l.result > m.result
    BY <2>9, <2>10
  <2> QED
    BY <2>5, <2>6, <2>11
<1> QED
  BY <1>1, FuturesInvHolds, PTL

\* A future that is complete never changes again.
THEOREM ResultIsFinalHolds == Spec => ResultIsFinal
<1>1. FuturesInv /\ [Next]_vars => [Final]_vars
  BY FuturesStep
<1> QED
  BY <1>1, FuturesInvHolds, PTL DEF Spec, ResultIsFinal, Final

=============================================================================
