---------------------------- MODULE HazardProofs ----------------------------
(***************************************************************************)
(* Type correctness, and where every block is: TypeOK and the invariants   *)
(* CallsInv and AccountsInv of HazardPointers, for any number of threads,  *)
(* slots, cells, blocks and entries, and whatever the threads call.  Then  *)
(* what a scan does: the list of registered threads is met as a whole, and *)
(* nothing guarded is freed but what was moved between two readings: the   *)
(* hazard pointers implement Reclamation.                                  *)
(***************************************************************************)
EXTENDS HazardInvariants, FiniteSetTheorems, FunctionTheorems,
        WellFoundedInduction, TLAPS

USE SizeAssumption DEF NULL

-----------------------------------------------------------------------------
(* The operators on lists.                                                 *)

\* The slots and the entries of a ring come round.
LEMMA RingEntries ==
    ASSUME NEW x \in Nat
    PROVE  x % RLMax \in Entries /\ x % NumSlots \in Slots
BY DEF Entries, Slots

LEMMA EntriesFinite ==
    /\ IsFiniteSet(Entries) /\ Cardinality(Entries) = RLMax
    /\ IsFiniteSet(Slots) /\ Cardinality(Slots) = NumSlots
    /\ Entries # {}
<1>1. ASSUME NEW n \in Nat \ {0}
      PROVE  IsFiniteSet(0..n - 1) /\ Cardinality(0..n - 1) = n /\ 0 \in 0..n - 1
  <2>1. /\ IsFiniteSet(0..n - 1)
        /\ Cardinality(0..n - 1) = IF 0 > n - 1 THEN 0 ELSE n - 1 - 0 + 1
    BY FS_Interval
  <2>2. QED BY <2>1
<1>2. QED BY <1>1 DEF Entries, Slots

\* A release list, in any state.
List == [Entries -> [data : Nat, status : 0..2]]

Earlier(L, k) == {m \in Entries : Precedes(L, m, k)}

\* Sorting gives each entry a place of its own.
LEMMA Places ==
    ASSUME NEW L \in List
    PROVE  /\ \A k \in Entries : Cardinality(Earlier(L, k)) \in Entries
           /\ \A j, k \in Entries : Precedes(L, j, k) =>
                Cardinality(Earlier(L, j)) < Cardinality(Earlier(L, k))
<1>1. \A k \in Entries : L[k].data \in Nat /\ k \in Nat
  BY DEF List, Entries
<1>2. \A k \in Entries : /\ Earlier(L, k) \subseteq Entries \ {k}
                         /\ IsFiniteSet(Earlier(L, k))
                         /\ Cardinality(Earlier(L, k)) \in Nat
                         /\ Cardinality(Earlier(L, k)) <= RLMax - 1
  <2>1. SUFFICES ASSUME NEW k \in Entries
                 PROVE  /\ Earlier(L, k) \subseteq Entries \ {k}
                        /\ IsFiniteSet(Earlier(L, k))
                        /\ Cardinality(Earlier(L, k)) \in Nat
                        /\ Cardinality(Earlier(L, k)) <= RLMax - 1
    OBVIOUS
  <2>2. Earlier(L, k) \in SUBSET (Entries \ {k})
    BY <1>1 DEF Earlier, Precedes
  <2>3. IsFiniteSet(Entries \ {k}) /\ Cardinality(Entries \ {k}) = RLMax - 1
    BY EntriesFinite, FS_RemoveElement
  <2>4. QED BY <2>2, <2>3, FS_Subset, FS_CardinalityType
<1>3. ASSUME NEW j \in Entries, NEW k \in Entries, Precedes(L, j, k)
      PROVE  Cardinality(Earlier(L, j)) < Cardinality(Earlier(L, k))
  <2>1. Earlier(L, j) \cup {j} \in SUBSET Earlier(L, k)
    BY <1>1, <1>3 DEF Earlier, Precedes
  <2>2. Cardinality(Earlier(L, j) \cup {j}) = Cardinality(Earlier(L, j)) + 1
    <3>1. j \notin Earlier(L, j)
      BY <1>2
    <3>2. QED BY <1>2, <3>1, FS_AddElement
  <2>3. Cardinality(Earlier(L, j) \cup {j}) <= Cardinality(Earlier(L, k))
    BY <1>2, <2>1, FS_Subset
  <2>4. QED BY <1>2, <2>2, <2>3
<1>4. QED
  BY <1>2, <1>3 DEF Entries

\* Sort puts the entries in another order, ...
LEMMA SortPermutes ==
    ASSUME NEW L \in List
    PROVE  \E p \in Bijection(Entries, Entries) :
             /\ Sort(L) = [k \in Entries |-> L[p[k]]]
             /\ \A j, k \in Entries : j < k => L[p[j]].data <= L[p[k]].data
<1> DEFINE place == [k \in Entries |-> Cardinality(Earlier(L, k))]
<1>1. \A k \in Entries : L[k].data \in Nat /\ k \in Nat
  BY DEF List, Entries
<1>2. \A j, k \in Entries : j # k => Precedes(L, j, k) \/ Precedes(L, k, j)
  BY <1>1 DEF Precedes
<1>3. place \in [Entries -> Entries]
  BY Places
<1>4. \A j, k \in Entries : Precedes(L, j, k) => place[j] < place[k]
  BY Places
<1>5. \A k \in Entries : place[k] \in Nat
  BY <1>3 DEF Entries
<1> HIDE DEF place
<1>6. \A j, k \in Entries : place[j] = place[k] => j = k
  BY <1>2, <1>4, <1>5
<1>7. place \in Injection(Entries, Entries)
  BY <1>3, <1>6 DEF Injection, IsInjective
<1>8. place \in Surjection(Entries, Entries)
  BY <1>7, EntriesFinite, FS_Injection
<1>9. \A k \in Entries : \E j \in Entries : place[j] = k
  BY <1>8 DEF Surjection
<1>10. \A k \in Entries : place[k] = Cardinality(Earlier(L, k))
  BY DEF place
<1> DEFINE p == [k \in Entries |-> CHOOSE j \in Entries : Cardinality(Earlier(L, j)) = k]
<1>11. \A k \in Entries : p[k] \in Entries /\ Cardinality(Earlier(L, p[k])) = k
  BY <1>9, <1>10
<1>12. p \in [Entries -> Entries] /\ \A k \in Entries : place[p[k]] = k
  BY <1>10, <1>11
<1>13. Sort(L) = [k \in Entries |-> L[p[k]]]
  <2>1. \A k \in Entries :
          L[p[k]] = L[CHOOSE j \in Entries : Cardinality({m \in Entries : Precedes(L, m, j)}) = k]
    BY Zenon DEF Earlier
  <2> HIDE DEF p
  <2>2. QED BY <2>1, Zenon DEF Sort
<1> HIDE DEF p
<1>14. p \in Bijection(Entries, Entries)
  <2>1. \A j, k \in Entries : p[j] = p[k] => j = k
    BY <1>12
  <2>2. \A k \in Entries : p[place[k]] = k
    BY <1>3, <1>6, <1>12
  <2>3. QED BY <1>3, <1>12, <2>1, <2>2 DEF Bijection, Injection, Surjection, IsInjective
<1>15. ASSUME NEW j \in Entries, NEW k \in Entries, j < k
       PROVE  L[p[j]].data <= L[p[k]].data
  <2>1. ~Precedes(L, p[k], p[j])
    BY <1>1, <1>4, <1>12, <1>15
  <2>2. p[j] # p[k]
    BY <1>1, <1>12, <1>15
  <2>3. QED BY <1>1, <1>2, <1>12, <2>1, <2>2 DEF Precedes
<1>16. QED
  BY <1>13, <1>14, <1>15

\* Waiting of a list, whoever has it.
Taken(L) == {k \in Entries : L[k].status # 0}

\* ... with what they hold.
LEMMA SortKeeps ==
    ASSUME NEW L \in List
    PROVE  /\ Sort(L) \in List /\ Sorted(Sort(L))
           /\ Cardinality(Taken(Sort(L))) = Cardinality(Taken(L))
           /\ \E p \in Bijection(Entries, Entries) : Sort(L) = [k \in Entries |-> L[p[k]]]
<1>1. PICK p \in Bijection(Entries, Entries) :
         /\ Sort(L) = [k \in Entries |-> L[p[k]]]
         /\ \A j, k \in Entries : j < k => L[p[j]].data <= L[p[k]].data
  BY SortPermutes
<1>2. p \in [Entries -> Entries] /\ \A k \in Entries : Sort(L)[k] = L[p[k]]
  BY <1>1 DEF Bijection, Injection
<1>3. Sort(L) \in List /\ Sorted(Sort(L))
  BY <1>1, <1>2 DEF List, Sorted
<1>4. Cardinality(Taken(Sort(L))) = Cardinality(Taken(L))
  <2> DEFINE q == [k \in Taken(Sort(L)) |-> p[k]]
  <2>1. \A j, k \in Entries : p[j] = p[k] => j = k
    BY <1>1 DEF Bijection, Injection, IsInjective
  <2>2. \A k \in Entries : \E j \in Entries : p[j] = k
    BY <1>1 DEF Bijection, Surjection
  <2>3. q \in [Taken(Sort(L)) -> Taken(L)]
    BY <1>2 DEF Taken
  <2>4. \A k \in Taken(L) : \E j \in Taken(Sort(L)) : q[j] = k
    BY <1>2, <2>2 DEF Taken
  <2>5. \A j, k \in Taken(Sort(L)) : q[j] = q[k] => j = k
    BY <2>1 DEF Taken
  <2> HIDE DEF q
  <2>6. ExistsBijection(Taken(Sort(L)), Taken(L))
    BY <2>3, <2>4, <2>5 DEF ExistsBijection, Bijection, Injection, Surjection, IsInjective
  <2>7. IsFiniteSet(Taken(Sort(L)))
    BY EntriesFinite, FS_Subset DEF Taken
  <2>8. QED BY <2>6, <2>7, FS_Bijection
<1>5. QED BY <1>1, <1>3, <1>4

\* Every non-empty set of naturals has a least element.
LEMMA LeastNat ==
    ASSUME NEW T \in SUBSET Nat, T # {}
    PROVE  \E x \in T : \A y \in T : x <= y
<1> DEFINE Below == {p \in Nat \X Nat : p[1] < p[2]}
<1>1. IsWellFoundedOn(OpToRel(<, Nat), Nat)
  BY NatLessThanWellFounded
<1>2. OpToRel(<, Nat) = Below
  BY Zenon DEF OpToRel
<1>3. IsWellFoundedOn(Below, Nat)
  BY <1>1, <1>2, Zenon
<1> HIDE DEF Below
<1>4. PICK x \in T : \A y \in T : <<y, x>> \notin Below
  BY <1>3, WFMin, Zenon
<1>5. ASSUME NEW y \in T PROVE x <= y
  <2>1. <<y, x>> \in Nat \X Nat
    OBVIOUS
  <2>2. ~(y < x)
    BY <1>4, <2>1, SMT DEF Below
  <2>3. QED BY <2>2
<1>6. QED
  BY <1>5, Zenon

\* One step of the binary search, from the windows imin..imax.
Windows == (0..RLMax) \X (-1..RLMax - 1)
Probe(L, p, f, imin, imax) ==
    LET imid == imin + (imax - imin) \div 2
    IN  IF imax < imin THEN -1
        ELSE IF L[imid].data < p THEN f[<<imid + 1, imax>>]
        ELSE IF L[imid].data > p THEN f[<<imin, imid - 1>>]
        ELSE imid
Searches(L, p, f) ==
    f = [w \in Windows |-> Probe(L, p, f, w[1], w[2])]

\* The middle of a window is in it.
LEMMA Middle ==
    ASSUME NEW imin \in 0..RLMax, NEW imax \in -1..RLMax - 1, imin <= imax
    PROVE  LET imid == imin + (imax - imin) \div 2
           IN  /\ imid \in Entries /\ imin <= imid /\ imid <= imax
               /\ imid + 1 \in 0..RLMax /\ imid - 1 \in -1..RLMax - 1
BY DEF Entries

\* The search of a window asks about smaller ones only.
LEMMA ProbeSmaller ==
    ASSUME NEW L, NEW p, NEW f, NEW g,
           NEW imin \in 0..RLMax, NEW imax \in -1..RLMax - 1,
           \A jmin \in 0..RLMax, jmax \in -1..RLMax - 1 :
             jmax - jmin < imax - imin => f[<<jmin, jmax>>] = g[<<jmin, jmax>>]
    PROVE  Probe(L, p, f, imin, imax) = Probe(L, p, g, imin, imax)
<1>1. CASE imax < imin
  BY <1>1 DEF Probe
<1>2. CASE imin <= imax
  <2> DEFINE imid == imin + (imax - imin) \div 2
  <2>1. /\ imid \in Entries /\ imin <= imid /\ imid <= imax
        /\ imid + 1 \in 0..RLMax /\ imid - 1 \in -1..RLMax - 1
    BY <1>2, Middle
  <2> HIDE DEF imid
  <2>2. f[<<imid + 1, imax>>] = g[<<imid + 1, imax>>]
    <3>1. imax - (imid + 1) < imax - imin
      BY <2>1 DEF Entries
    <3>2. QED BY <2>1, <3>1
  <2>3. f[<<imin, imid - 1>>] = g[<<imin, imid - 1>>]
    <3>1. (imid - 1) - imin < imax - imin
      BY <2>1 DEF Entries
    <3>2. QED BY <2>1, <3>1
  <2>4. \A h : Probe(L, p, h, imin, imax) =
               IF imax < imin THEN -1
               ELSE IF L[imid].data < p THEN h[<<imid + 1, imax>>]
               ELSE IF L[imid].data > p THEN h[<<imin, imid - 1>>]
               ELSE imid
    BY SMT DEF Probe, imid
  <2>5. QED BY <2>2, <2>3, <2>4
<1>3. QED BY <1>1, <1>2

\* f answers the windows of at most n entries.
AnswersUpTo(L, p, f, n) ==
    \A imin \in 0..RLMax, imax \in -1..RLMax - 1 :
        imax - imin + 1 <= n => f[<<imin, imax>>] = Probe(L, p, f, imin, imax)

\* The search is well defined.
LEMMA SearchDefined ==
    ASSUME NEW L \in List, NEW p \in Nat
    PROVE  \E f : Searches(L, p, f)
<1> DEFINE T == {n \in Nat : ~ \E f : AnswersUpTo(L, p, f, n)}
<1>1. T = {}
  <2>1. SUFFICES ASSUME T # {} PROVE FALSE
    OBVIOUS
  <2>2. PICK n \in T : \A m \in T : n <= m
    <3>1. T \in SUBSET Nat
      OBVIOUS
    <3> HIDE DEF T
    <3>2. QED BY <2>1, <3>1, LeastNat
  <2>3. n \in Nat /\ ~ \E f : AnswersUpTo(L, p, f, n)
    OBVIOUS
  <2>4. CASE n = 0
    <3> DEFINE f == [w \in Windows |-> -1]
    <3>1. ASSUME NEW imin \in 0..RLMax, NEW imax \in -1..RLMax - 1, imax - imin + 1 <= 0
          PROVE  f[<<imin, imax>>] = Probe(L, p, f, imin, imax)
      <4>1. imax < imin /\ f[<<imin, imax>>] = -1
        BY <3>1 DEF Windows
      <4> HIDE DEF f
      <4>2. QED BY <4>1 DEF Probe
    <3>2. AnswersUpTo(L, p, f, n)
      BY <2>4, <3>1 DEF AnswersUpTo
    <3>3. QED BY <2>3, <3>2
  <2>5. CASE n # 0
    <3>1. n - 1 \in Nat /\ n - 1 \notin T
      BY <2>2, <2>3, <2>5
    <3>2. PICK f : AnswersUpTo(L, p, f, n - 1)
      BY <3>1
    <3> DEFINE g == [w \in Windows |->
                       IF w[2] - w[1] + 1 < n THEN f[w]
                       ELSE Probe(L, p, f, w[1], w[2])]
    <3>3. \A imin \in 0..RLMax, imax \in -1..RLMax - 1 :
            g[<<imin, imax>>] = IF imax - imin + 1 < n THEN f[<<imin, imax>>]
                            ELSE Probe(L, p, f, imin, imax)
      <4>1. SUFFICES ASSUME NEW imin \in 0..RLMax, NEW imax \in -1..RLMax - 1
                     PROVE  g[<<imin, imax>>] = IF imax - imin + 1 < n THEN f[<<imin, imax>>]
                                                ELSE Probe(L, p, f, imin, imax)
        OBVIOUS
      <4>2. <<imin, imax>> \in Windows
        BY DEF Windows
      <4>3. QED BY <4>2
    <3> HIDE DEF g, T
    <3>4. ASSUME NEW imin \in 0..RLMax, NEW imax \in -1..RLMax - 1, imax - imin + 1 <= n
          PROVE  g[<<imin, imax>>] = Probe(L, p, g, imin, imax)
      <4>1. Probe(L, p, g, imin, imax) = Probe(L, p, f, imin, imax)
        <5>1. \A jmin \in 0..RLMax, jmax \in -1..RLMax - 1 :
                jmax - jmin < imax - imin => g[<<jmin, jmax>>] = f[<<jmin, jmax>>]
          BY <2>3, <3>3, <3>4
        <5>2. QED BY <5>1, ProbeSmaller
      <4>2. imax - imin + 1 < n => f[<<imin, imax>>] = Probe(L, p, f, imin, imax)
        BY <2>3, <3>2 DEF AnswersUpTo
      <4>3. QED BY <3>3, <4>1, <4>2
    <3>5. AnswersUpTo(L, p, g, n)
      BY <3>4 DEF AnswersUpTo
    <3>6. QED BY <2>3, <3>5
  <2>6. QED BY <2>4, <2>5
<1>2. PICK f : AnswersUpTo(L, p, f, RLMax)
  BY <1>1
<1> DEFINE h == [w \in Windows |-> f[w]]
<1>3. \A imin \in 0..RLMax, imax \in -1..RLMax - 1 : h[<<imin, imax>>] = f[<<imin, imax>>]
  BY DEF Windows
<1> HIDE DEF h, T
<1>4. \A imin \in 0..RLMax, imax \in -1..RLMax - 1 :
        f[<<imin, imax>>] = Probe(L, p, h, imin, imax)
  <2>1. SUFFICES ASSUME NEW imin \in 0..RLMax, NEW imax \in -1..RLMax - 1
                 PROVE  f[<<imin, imax>>] = Probe(L, p, h, imin, imax)
    OBVIOUS
  <2>2. imax - imin + 1 <= RLMax
    OBVIOUS
  <2>3. Probe(L, p, h, imin, imax) = Probe(L, p, f, imin, imax)
    BY <1>3, ProbeSmaller
  <2>4. QED BY <1>2, <2>2, <2>3 DEF AnswersUpTo
<1>5. Searches(L, p, h)
  <2>1. [w \in Windows |-> f[w]]
          = [w \in Windows |-> Probe(L, p, h, w[1], w[2])]
    <3>1. ASSUME NEW w \in Windows PROVE f[w] = Probe(L, p, h, w[1], w[2])
      <4>1. w[1] \in 0..RLMax /\ w[2] \in -1..RLMax - 1 /\ w = <<w[1], w[2]>>
        BY DEF Windows
      <4>2. QED BY <1>4, <4>1
    <3>2. QED BY <3>1
  <2>2. QED BY <2>1 DEF Searches, h
<1>6. QED BY <1>5

LEMMA FindSearches ==
    ASSUME NEW L \in List, NEW p \in Nat
    PROVE  \E f : Searches(L, p, f) /\ find_index_of_pointer(L, p) = f[<<0, LastIndex>>]
<1>1. find_index_of_pointer(L, p) = (CHOOSE f : Searches(L, p, f))[<<0, LastIndex>>]
  BY Zenon DEF find_index_of_pointer, Searches, Probe, Windows
<1>2. PICK f : f = CHOOSE g : Searches(L, p, g)
  OBVIOUS
<1>3. Searches(L, p, f)
  BY <1>2, SearchDefined, Zenon
<1>4. QED BY <1>1, <1>2, <1>3, Zenon

\* What a search may answer for a window.
Right(L, p, imin, imax, k) ==
    \/ k \in Entries /\ L[k].data = p
    \/ k = -1 /\ \A j \in Entries : imin <= j /\ j <= imax => L[j].data # p

\* The binary search finds a pointer that is in a sorted list, and no other.
LEMMA SearchIsRight ==
    ASSUME NEW L \in List, Sorted(L), NEW p \in Nat
    PROVE  LET k == find_index_of_pointer(L, p)
           IN  \/ k \in Entries /\ L[k].data = p
               \/ k = -1 /\ \A j \in Entries : L[j].data # p
<1>1. PICK f : Searches(L, p, f) /\ find_index_of_pointer(L, p) = f[<<0, LastIndex>>]
  BY FindSearches
<1>2. \A imin \in 0..RLMax, imax \in -1..RLMax - 1 :
        f[<<imin, imax>>] = Probe(L, p, f, imin, imax)
  <2>1. SUFFICES ASSUME NEW imin \in 0..RLMax, NEW imax \in -1..RLMax - 1
                 PROVE  f[<<imin, imax>>] = Probe(L, p, f, imin, imax)
    OBVIOUS
  <2>2. <<imin, imax>> \in Windows
    BY DEF Windows
  <2>3. QED BY <1>1, <2>2 DEF Searches
<1> DEFINE Wrong(imin, imax) == ~Right(L, p, imin, imax, f[<<imin, imax>>])
           T == {n \in Nat : \E imin \in 0..RLMax, imax \in -1..RLMax - 1 :
                               n = imax - imin + 1 /\ Wrong(imin, imax)}
<1>3. \A imin \in 0..RLMax, imax \in -1..RLMax - 1 :
        imax < imin => Right(L, p, imin, imax, f[<<imin, imax>>])
  <2>1. SUFFICES ASSUME NEW imin \in 0..RLMax, NEW imax \in -1..RLMax - 1, imax < imin
                 PROVE  Right(L, p, imin, imax, f[<<imin, imax>>])
    OBVIOUS
  <2>2. f[<<imin, imax>>] = -1
    BY <1>2, <2>1 DEF Probe
  <2>3. \A j \in Entries : ~(imin <= j /\ j <= imax)
    BY <2>1 DEF Entries
  <2>4. QED BY <2>2, <2>3 DEF Right
<1>4. T = {}
  <2>1. SUFFICES ASSUME T # {} PROVE FALSE
    OBVIOUS
  <2>2. PICK n \in T : \A m \in T : n <= m
    <3>1. T \in SUBSET Nat
      OBVIOUS
    <3> HIDE DEF T
    <3>2. QED BY <2>1, <3>1, LeastNat
  <2>3. PICK imin \in 0..RLMax, imax \in -1..RLMax - 1 :
           n = imax - imin + 1 /\ ~Right(L, p, imin, imax, f[<<imin, imax>>])
    BY <2>2
  <2>4. imin <= imax
    BY <1>3, <2>3
  <2>5. \A jmin \in 0..RLMax, jmax \in -1..RLMax - 1 :
          jmax - jmin < imax - imin => Right(L, p, jmin, jmax, f[<<jmin, jmax>>])
    <3>1. SUFFICES ASSUME NEW jmin \in 0..RLMax, NEW jmax \in -1..RLMax - 1,
                          jmax - jmin < imax - imin,
                          ~Right(L, p, jmin, jmax, f[<<jmin, jmax>>])
                   PROVE  FALSE
      OBVIOUS
    <3>2. jmin <= jmax
      <4>1. ~(jmax < jmin)
        BY <1>3, <3>1, Zenon
      <4>2. QED BY <4>1, SizeAssumption
    <3>3. jmax - jmin + 1 \in T
      <4>1. jmax - jmin + 1 \in Nat
        BY <3>2, SizeAssumption
      <4>2. Wrong(jmin, jmax)
        BY <3>1
      <4> HIDE DEF Wrong
      <4>3. QED BY <4>1, <4>2, Zenon
    <3> HIDE DEF T
    <3>4. n <= jmax - jmin + 1
      BY <2>2, <3>3
    <3>5. QED BY <2>3, <3>1, <3>4
  <2> DEFINE imid == imin + (imax - imin) \div 2
  <2>6. /\ imid \in Entries /\ imin <= imid /\ imid <= imax
        /\ imid + 1 \in 0..RLMax /\ imid - 1 \in -1..RLMax - 1
    BY <2>4, Middle
  <2>7. f[<<imin, imax>>] = IF imax < imin THEN -1
                        ELSE IF L[imid].data < p THEN f[<<imid + 1, imax>>]
                        ELSE IF L[imid].data > p THEN f[<<imin, imid - 1>>]
                        ELSE imid
    BY <1>2, SMT DEF Probe, imid
  <2> HIDE DEF imid, T
  <2>8. \A j \in Entries : j \in Int /\ L[j].data \in Nat
    BY DEF List, Entries
  <2>9. CASE L[imid].data < p
    <3>1. Right(L, p, imid + 1, imax, f[<<imid + 1, imax>>])
      BY <2>4, <2>5, <2>6, <2>8
    <3>2. \A j \in Entries : j <= imid => L[j].data # p
      BY <2>6, <2>8, <2>9 DEF Sorted
    <3>3. f[<<imin, imax>>] = f[<<imid + 1, imax>>]
      BY <2>4, <2>7, <2>9
    <3>4. Right(L, p, imin, imax, f[<<imin, imax>>])
      BY <2>6, <2>8, <3>1, <3>2, <3>3 DEF Right
    <3>5. QED BY <2>3, <3>4
  <2>10. CASE L[imid].data > p
    <3>1. Right(L, p, imin, imid - 1, f[<<imin, imid - 1>>])
      BY <2>4, <2>5, <2>6, <2>8
    <3>2. \A j \in Entries : imid <= j => L[j].data # p
      BY <2>6, <2>8, <2>10 DEF Sorted
    <3>3. f[<<imin, imax>>] = f[<<imin, imid - 1>>]
      BY <2>4, <2>6, <2>7, <2>8, <2>10
    <3>4. Right(L, p, imin, imax, f[<<imin, imax>>])
      BY <2>6, <2>8, <3>1, <3>2, <3>3 DEF Right
    <3>5. QED BY <2>3, <3>4
  <2>11. CASE L[imid].data = p
    <3>1. f[<<imin, imax>>] = imid
      BY <2>4, <2>6, <2>7, <2>8, <2>11
    <3>2. QED BY <2>3, <2>6, <2>11, <3>1 DEF Right
  <2>12. QED BY <2>6, <2>8, <2>9, <2>10, <2>11
<1>5. Right(L, p, 0, RLMax - 1, f[<<0, RLMax - 1>>])
  <2>1. 0 \in 0..RLMax /\ RLMax - 1 \in -1..RLMax - 1 /\ RLMax - 1 - 0 + 1 \in Nat
    OBVIOUS
  <2>2. QED BY <1>4, <2>1
<1>6. \A j \in Entries : 0 <= j /\ j <= RLMax - 1
  BY DEF Entries
<1>7. QED
  BY <1>1, <1>5, <1>6 DEF Right, LastIndex

-----------------------------------------------------------------------------
(* What an action of one thread leaves alone.                              *)

BasicInv == TypeOK /\ CallsInv /\ AccountsInv

OthersKeep(t) ==
    \A u \in Threads \ {t} :
        /\ pc'[u] = pc[u] /\ request'[u] = request[u] /\ value'[u] = value[u]
        /\ victim'[u] = victim[u] /\ i'[u] = i[u] /\ iter'[u] = iter[u]
        /\ hp'[u] = hp[u]
        /\ u \in registered' <=> u \in registered

ListClosed ==
    /\ first \in registered \cup {NoThread}
    /\ first = NoThread => registered = {}
    /\ \A u \in registered : next[u] \in registered \cup {NoThread}

LEMMA StepCalls ==
    ASSUME CallsInv, NEW t \in Threads, OthersKeep(t), registered \subseteq registered',
           ListClosed', ThreadInv(t)', CallInv(t)', ~deleted'
    PROVE  CallsInv'
<1>1. ASSUME NEW u \in Threads PROVE ThreadInv(u)' /\ CallInv(u)'
  <2>1. CASE u = t
    BY <2>1
  <2>2. CASE u # t
    <3>1. ThreadInv(u) /\ CallInv(u)
      BY DEF CallsInv
    <3>2. /\ pc'[u] = pc[u] /\ request'[u] = request[u] /\ value'[u] = value[u]
          /\ victim'[u] = victim[u] /\ i'[u] = i[u] /\ iter'[u] = iter[u]
          /\ hp'[u] = hp[u]
          /\ u \in registered' <=> u \in registered
      BY <2>2 DEF OthersKeep
    <3>3. ThreadInv(u)'
      BY <3>1, <3>2 DEF ThreadInv
    <3>4. CallInv(u)'
      BY <3>1, <3>2 DEF CallInv, Scanning
    <3>5. QED BY <3>3, <3>4
  <2>3. QED BY <2>1, <2>2
<1>2. QED BY <1>1 DEF CallsInv, ListClosed

LEMMA StepAccounts ==
    ASSUME AccountsInv, \A u \in Threads : Scanning(u)' <=> Scanning(u),
           UNCHANGED <<client, victim, release_list, release_list_size>>
    PROVE  AccountsInv'
<1>1. \A u \in Threads : Waiting(u)' = Waiting(u)
  BY DEF Waiting
<1>2. Linked' = Linked /\ Retired' = Retired
  BY DEF Linked, Retired, Waiting, client
<1>3. OnePlace => OnePlace'
  BY <1>1, <1>2 DEF OnePlace, client
<1>4. \A u \in Threads : ReleaseInv(u) => ReleaseInv(u)'
  BY <1>1 DEF ReleaseInv
<1>5. QED BY <1>3, <1>4 DEF AccountsInv, client

\* What an action of t may use.
LEMMA OwnFacts ==
    ASSUME BasicInv, NEW t \in Threads
    PROVE  /\ TypeOK /\ ListClosed /\ ThreadInv(t) /\ CallInv(t)
           /\ pc[t] # "idle" => ~deleted
           /\ first \in Threads \cup {NoThread} /\ registered \subseteq Threads
BY DEF BasicInv, CallsInv, ListClosed, TypeOK

\* The step of a thread that is not about release lists.
LEMMA LocalStep ==
    ASSUME BasicInv, NEW t \in Threads, TypeOK', OthersKeep(t),
           UNCHANGED <<client, victim, release_list, release_list_size>>,
           registered \subseteq registered', ListClosed', ThreadInv(t)', CallInv(t)',
           ~deleted, pc[t] \notin {"scan", "sweep"}, pc'[t] \notin {"scan", "sweep"}
    PROVE  BasicInv'
<1>1. CallsInv'
  BY StepCalls DEF BasicInv, client
<1>2. \A u \in Threads : Scanning(u)' <=> Scanning(u)
  BY DEF OthersKeep, Scanning
<1>3. AccountsInv'
  BY <1>2, StepAccounts DEF BasicInv
<1>4. QED BY <1>1, <1>3 DEF BasicInv

LEMMA ProtectBasic ==
    ASSUME BasicInv, NEW t \in Threads, NEW r \in Requests[t], Protect(t, r)
    PROVE  BasicInv'
<1>1. TypeOK /\ ListClosed /\ ThreadInv(t) /\ CallInv(t)
  BY OwnFacts
<1>2. r \in Request /\ r.op \in Ops
  BY RequestAssumption DEF Request
<1>3. Entry(r) \in {"search", "peek", "copy", "read"} /\ (Entry(r) = "peek" => Checks(r))
  BY DEF Entry
<1>4. TypeOK'
  BY <1>1, <1>2, <1>3 DEF TypeOK, Protect, Goto, PCs, client, list, slots, own
<1>5. ThreadInv(t)'
  BY <1>1, <1>3 DEF TypeOK, ThreadInv, Protect, Goto, list, slots
<1>6. CallInv(t)'
  BY <1>1, <1>3 DEF TypeOK, CallInv, Protect, Goto, Scanning
<1>7. OthersKeep(t)
  BY <1>1 DEF TypeOK, OthersKeep, Protect, Goto, list, slots
<1>8. ListClosed' /\ registered \subseteq registered'
  BY <1>1 DEF ListClosed, Protect, list
<1>9. UNCHANGED <<client, victim, release_list, release_list_size>> /\ ~deleted
  BY DEF Protect, client, own
<1>10. pc[t] = "idle" /\ pc'[t] \notin {"scan", "sweep"}
  BY <1>1, <1>3 DEF TypeOK, Protect, Goto
<1>11. QED BY <1>4, <1>5, <1>6, <1>7, <1>8, <1>9, <1>10, LocalStep

LEMMA InitReadBasic ==
    ASSUME BasicInv, NEW t \in Threads, InitRead(t)
    PROVE  BasicInv'
<1>1. TypeOK /\ ListClosed /\ ThreadInv(t) /\ CallInv(t) /\ ~deleted
  BY OwnFacts DEF InitRead
<1>2. TypeOK'
  BY <1>1 DEF TypeOK, InitRead, Goto, PCs, client, slots, own, locals
<1>3. ThreadInv(t)'
  BY <1>1 DEF TypeOK, ThreadInv, InitRead, Goto, slots, locals
<1>4. CallInv(t)'
  BY <1>1 DEF TypeOK, CallInv, InitRead, Goto, Scanning, slots, locals
<1>5. OthersKeep(t)
  BY <1>1 DEF TypeOK, OthersKeep, InitRead, Goto, slots, locals
<1>6. ListClosed' /\ registered \subseteq registered'
  BY <1>1 DEF TypeOK, ListClosed, ThreadInv, InitRead
<1>7. UNCHANGED <<client, victim, release_list, release_list_size>>
  BY DEF InitRead, client, own, locals
<1>8. pc[t] = "init" /\ pc'[t] \notin {"scan", "sweep"}
  BY <1>1 DEF TypeOK, InitRead, Goto
<1>9. QED BY <1>1, <1>2, <1>3, <1>4, <1>5, <1>6, <1>7, <1>8, LocalStep

LEMMA InitCasBasic ==
    ASSUME BasicInv, NEW t \in Threads, InitCas(t)
    PROVE  BasicInv'
<1>1. TypeOK /\ ListClosed /\ ThreadInv(t) /\ CallInv(t) /\ ~deleted
  BY OwnFacts DEF InitCas
<1>2. /\ Entry(request[t]) \in {"search", "peek", "copy", "read"}
      /\ Entry(request[t]) = "peek" => Checks(request[t])
  BY DEF Entry
<1>3. TypeOK'
  <2>1. UNCHANGED <<client, next, slots, own, locals>>
    BY DEF InitCas
  <2>2. first' \in Threads \cup {NoThread} /\ registered' \subseteq Threads
    BY <1>1 DEF TypeOK, InitCas
  <2>3. pc' \in [Threads -> PCs]
    BY <1>1, <1>2 DEF TypeOK, InitCas, Goto, PCs
  <2>4. QED BY <1>1, <2>1, <2>2, <2>3 DEF TypeOK, client, slots, own, locals
<1>4. ThreadInv(t)'
  BY <1>1, <1>2 DEF TypeOK, ThreadInv, InitCas, Goto, slots, locals
<1>5. CallInv(t)'
  BY <1>1, <1>2 DEF TypeOK, CallInv, InitCas, Goto, Scanning, slots, locals
<1>6. OthersKeep(t)
  BY <1>1 DEF TypeOK, OthersKeep, InitCas, Goto, slots, locals
<1>7. ListClosed' /\ registered \subseteq registered'
  BY <1>1, ThreadAssumption DEF TypeOK, ListClosed, ThreadInv, InitCas
<1>8. UNCHANGED <<client, victim, release_list, release_list_size>>
  BY DEF InitCas, client, own, locals
<1>9. pc[t] = "cas" /\ pc'[t] \notin {"scan", "sweep"}
  BY <1>1, <1>2 DEF TypeOK, InitCas, Goto
<1>10. QED BY <1>1, <1>3, <1>4, <1>5, <1>6, <1>7, <1>8, <1>9, LocalStep

LEMMA PeekBasic ==
    ASSUME BasicInv, NEW t \in Threads, Peek(t)
    PROVE  BasicInv'
<1>1. TypeOK /\ ListClosed /\ ThreadInv(t) /\ CallInv(t) /\ ~deleted
  BY OwnFacts DEF Peek
<1>2. /\ request[t] \in Request
      /\ Checks(request[t]) => request[t].pos \in Slots
      /\ cell[request[t].cell] # NULL
  BY <1>1 DEF TypeOK, Request, Checks, Blocks
<1>3. TypeOK'
  BY <1>1, <1>2 DEF TypeOK, Peek, Goto, PCs, Checks, Request, client, list, slots, own, locals
<1>4. ThreadInv(t)'
  BY <1>1, <1>2 DEF TypeOK, ThreadInv, Peek, Goto, Checks, Request, list, slots, locals
<1>5. CallInv(t)'
  BY <1>1, <1>2 DEF TypeOK, CallInv, Peek, Goto, Checks, Request, Scanning, slots, locals
<1>6. OthersKeep(t)
  BY <1>1, <1>2 DEF TypeOK, OthersKeep, Peek, Goto, Checks, Request, list, slots, locals
<1>7. ListClosed' /\ registered \subseteq registered'
  BY <1>1 DEF ListClosed, Peek, list
<1>8. UNCHANGED <<client, victim, release_list, release_list_size>>
  BY DEF Peek, client, own, locals
<1>9. pc[t] = "peek" /\ pc'[t] \notin {"scan", "sweep"}
  BY <1>1 DEF TypeOK, Peek, Goto, Checks, Request, locals
<1>10. QED BY <1>1, <1>3, <1>4, <1>5, <1>6, <1>7, <1>8, <1>9, LocalStep

LEMMA CopyBasic ==
    ASSUME BasicInv, NEW t \in Threads, Copy(t)
    PROVE  BasicInv'
<1>1. TypeOK /\ ListClosed /\ ThreadInv(t) /\ CallInv(t) /\ ~deleted
  BY OwnFacts DEF Copy
<1>2. /\ request[t] \in Request
      /\ Checks(request[t]) => request[t].pos \in Slots
      /\ cell[request[t].cell] # NULL
  BY <1>1 DEF TypeOK, Request, Checks, Blocks
<1>3. TypeOK'
  BY <1>1, <1>2 DEF TypeOK, Copy, Goto, PCs, CopySlot, Request, client, list, slots, own, locals
<1>4. ThreadInv(t)'
  BY <1>1, <1>2 DEF TypeOK, ThreadInv, Copy, Goto, CopySlot, Request, list, slots, locals
<1>5. CallInv(t)'
  BY <1>1, <1>2 DEF TypeOK, CallInv, Copy, Goto, CopySlot, Request, Scanning, slots, locals
<1>6. OthersKeep(t)
  BY <1>1, <1>2 DEF TypeOK, OthersKeep, Copy, Goto, CopySlot, Request, list, slots, locals
<1>7. ListClosed' /\ registered \subseteq registered'
  BY <1>1 DEF ListClosed, Copy, list
<1>8. UNCHANGED <<client, victim, release_list, release_list_size>>
  BY DEF Copy, client, own, locals
<1>9. pc[t] = "copy" /\ pc'[t] \notin {"scan", "sweep"}
  BY <1>1 DEF TypeOK, Copy, Goto, CopySlot, Request, locals
<1>10. QED BY <1>1, <1>3, <1>4, <1>5, <1>6, <1>7, <1>8, <1>9, LocalStep

LEMMA ReuseBasic ==
    ASSUME BasicInv, NEW t \in Threads, Reuse(t)
    PROVE  BasicInv'
<1>1. TypeOK /\ ListClosed /\ ThreadInv(t) /\ CallInv(t) /\ ~deleted
  BY OwnFacts DEF Reuse
<1>2. /\ request[t] \in Request
      /\ Checks(request[t]) => request[t].pos \in Slots
      /\ cell[request[t].cell] # NULL
  BY <1>1 DEF TypeOK, Request, Checks, Blocks
<1>3. TypeOK'
  BY <1>1, <1>2 DEF TypeOK, Reuse, Goto, PCs, CopySlot, Request, client, list, slots, own, locals
<1>4. ThreadInv(t)'
  BY <1>1, <1>2 DEF TypeOK, ThreadInv, Reuse, Goto, CopySlot, Request, list, slots, locals
<1>5. CallInv(t)'
  BY <1>1, <1>2 DEF TypeOK, CallInv, Reuse, Goto, CopySlot, Request, Scanning, slots, locals
<1>6. OthersKeep(t)
  BY <1>1, <1>2 DEF TypeOK, OthersKeep, Reuse, Goto, CopySlot, Request, list, slots, locals
<1>7. ListClosed' /\ registered \subseteq registered'
  BY <1>1 DEF ListClosed, Reuse, list
<1>8. UNCHANGED <<client, victim, release_list, release_list_size>>
  BY DEF Reuse, client, own, locals
<1>9. pc[t] = "reuse" /\ pc'[t] \notin {"scan", "sweep"}
  BY <1>1 DEF TypeOK, Reuse, Goto, CopySlot, Request, locals
<1>10. QED BY <1>1, <1>3, <1>4, <1>5, <1>6, <1>7, <1>8, <1>9, LocalStep

LEMMA SearchBasic ==
    ASSUME BasicInv, NEW t \in Threads, Search(t)
    PROVE  BasicInv'
<1>1. TypeOK /\ ListClosed /\ ThreadInv(t) /\ CallInv(t) /\ ~deleted
  BY OwnFacts DEF Search
<1>2. \A d \in Slots : (current_hp_slot[t] + d) % NumSlots \in Slots
  <2>1. SUFFICES ASSUME NEW d \in Slots
                 PROVE  (current_hp_slot[t] + d) % NumSlots \in Slots
    OBVIOUS
  <2>2. current_hp_slot[t] + d \in Nat
    BY <1>1 DEF TypeOK, Slots
  <2>3. QED BY <2>2, RingEntries
<1>3. TypeOK'
  <2>1. PICK s \in Slots : request' = [request EXCEPT ![t].slot = s]
    BY <1>2 DEF Search
  <2>2. request' \in [Threads -> Request]
    <3>1. request \in [Threads -> Request]
      BY <1>1 DEF TypeOK
    <3>2. [request[t] EXCEPT !.slot = s] \in Request
      <4>1. request[t] \in Request
        BY <3>1
      <4>2. QED BY <4>1 DEF Request
    <3>3. request' = [request EXCEPT ![t] = [request[t] EXCEPT !.slot = s]]
      BY <2>1
    <3> HIDE DEF Request
    <3>4. QED BY <3>1, <3>2, <3>3
  <2>3. QED BY <1>1, <2>2 DEF TypeOK, Search, Goto, PCs, client, list, slots, own
<1>4. ThreadInv(t)'
  BY <1>1, <1>2 DEF TypeOK, ThreadInv, Search, Goto, Request, list, slots, locals
<1>5. CallInv(t)'
  BY <1>1, <1>2 DEF TypeOK, CallInv, Search, Goto, Request, Scanning, slots, locals
<1>6. OthersKeep(t)
  BY <1>1, <1>2 DEF TypeOK, OthersKeep, Search, Goto, Request, list, slots, locals
<1>7. ListClosed' /\ registered \subseteq registered'
  BY <1>1 DEF ListClosed, Search, list
<1>8. UNCHANGED <<client, victim, release_list, release_list_size>>
  BY DEF Search, client, own, locals
<1>9. pc[t] = "search" /\ pc'[t] \notin {"scan", "sweep"}
  BY <1>1 DEF TypeOK, Search, Goto, Request, locals
<1>10. QED BY <1>1, <1>3, <1>4, <1>5, <1>6, <1>7, <1>8, <1>9, LocalStep

LEMMA ReadBasic ==
    ASSUME BasicInv, NEW t \in Threads, Read(t)
    PROVE  BasicInv'
<1>1. TypeOK /\ ListClosed /\ ThreadInv(t) /\ CallInv(t) /\ ~deleted
  BY OwnFacts DEF Read
<1>2. request[t] \in Request
  BY <1>1 DEF TypeOK
<1>3. TypeOK'
  BY <1>1, <1>2 DEF TypeOK, Read, Goto, PCs, Request, client, list, slots, own, locals
<1>4. ThreadInv(t)'
  BY <1>1, <1>2 DEF TypeOK, ThreadInv, Read, Goto, Request, list, slots, locals
<1>5. CallInv(t)'
  BY <1>1, <1>2 DEF TypeOK, CallInv, Read, Goto, Request, Scanning, slots, locals
<1>6. OthersKeep(t)
  BY <1>1, <1>2 DEF TypeOK, OthersKeep, Read, Goto, Request, list, slots, locals
<1>7. ListClosed' /\ registered \subseteq registered'
  BY <1>1 DEF ListClosed, Read, list
<1>8. UNCHANGED <<client, victim, release_list, release_list_size>>
  BY DEF Read, client, own, locals
<1>9. pc[t] = "read" /\ pc'[t] \notin {"scan", "sweep"}
  BY <1>1 DEF TypeOK, Read, Goto, Request, locals
<1>10. QED BY <1>1, <1>3, <1>4, <1>5, <1>6, <1>7, <1>8, <1>9, LocalStep

LEMMA StoreBasic ==
    ASSUME BasicInv, NEW t \in Threads, Store(t)
    PROVE  BasicInv'
<1>1. TypeOK /\ ListClosed /\ ThreadInv(t) /\ CallInv(t) /\ ~deleted
  BY OwnFacts DEF Store
<1>2. request[t] \in Request
  BY <1>1 DEF TypeOK
<1>3. TypeOK'
  BY <1>1, <1>2 DEF TypeOK, Store, Goto, PCs, SetSlot, Request, client, list, slots, own, locals
<1>4. ThreadInv(t)'
  BY <1>1, <1>2 DEF TypeOK, ThreadInv, Store, Goto, SetSlot, Request, list, slots, locals
<1>5. CallInv(t)'
  BY <1>1, <1>2 DEF TypeOK, CallInv, Store, Goto, SetSlot, Request, Scanning, slots, locals
<1>6. OthersKeep(t)
  BY <1>1, <1>2 DEF TypeOK, OthersKeep, Store, Goto, SetSlot, Request, list, slots, locals
<1>7. ListClosed' /\ registered \subseteq registered'
  BY <1>1 DEF ListClosed, Store, list
<1>8. UNCHANGED <<client, victim, release_list, release_list_size>>
  BY DEF Store, client, own, locals
<1>9. pc[t] = "store" /\ pc'[t] \notin {"scan", "sweep"}
  BY <1>1 DEF TypeOK, Store, Goto, SetSlot, Request, locals
<1>10. QED BY <1>1, <1>3, <1>4, <1>5, <1>6, <1>7, <1>8, <1>9, LocalStep

LEMMA CheckBasic ==
    ASSUME BasicInv, NEW t \in Threads, Check(t)
    PROVE  BasicInv'
<1>1. TypeOK /\ ListClosed /\ ThreadInv(t) /\ CallInv(t) /\ ~deleted
  BY OwnFacts DEF Check
<1>2. request[t] \in Request
  BY <1>1 DEF TypeOK
<1>3. TypeOK'
  BY <1>1, <1>2 DEF TypeOK, Check, Goto, PCs, Request, client, list, slots, own, locals
<1>4. ThreadInv(t)'
  BY <1>1, <1>2 DEF TypeOK, ThreadInv, Check, Goto, Request, list, slots, locals
<1>5. CallInv(t)'
  BY <1>1, <1>2 DEF TypeOK, CallInv, Check, Goto, Request, Scanning, slots, locals
<1>6. OthersKeep(t)
  BY <1>1, <1>2 DEF TypeOK, OthersKeep, Check, Goto, Request, list, slots, locals
<1>7. ListClosed' /\ registered \subseteq registered'
  BY <1>1 DEF ListClosed, Check, list
<1>8. UNCHANGED <<client, victim, release_list, release_list_size>>
  BY DEF Check, client, own, locals
<1>9. pc[t] = "check" /\ pc'[t] \notin {"scan", "sweep"}
  BY <1>1 DEF TypeOK, Check, Goto, Request, locals
<1>10. QED BY <1>1, <1>3, <1>4, <1>5, <1>6, <1>7, <1>8, <1>9, LocalStep

LEMMA RemoveBasic ==
    ASSUME BasicInv, NEW t \in Threads, NEW p \in Blocks, Remove(t, p)
    PROVE  BasicInv'
<1>1. TypeOK /\ ListClosed /\ ThreadInv(t) /\ CallInv(t) /\ ~deleted
  BY OwnFacts DEF Remove
<1>2. \A d \in Slots : (current_hp_slot[t] + NumSlots - 1 - d) % NumSlots \in Slots
  <2>1. SUFFICES ASSUME NEW d \in Slots
                 PROVE  (current_hp_slot[t] + NumSlots - 1 - d) % NumSlots \in Slots
    OBVIOUS
  <2>2. current_hp_slot[t] + NumSlots - 1 - d \in Nat
    BY <1>1 DEF TypeOK, Slots
  <2>3. QED BY <2>2, RingEntries
<1>3. TypeOK'
  BY <1>1, <1>2 DEF TypeOK, Remove, Goto, PCs, SetSlot, client, list, slots, own, locals
<1>4. ThreadInv(t)'
  BY <1>1, <1>2 DEF TypeOK, ThreadInv, Remove, Goto, SetSlot, list, slots, locals
<1>5. CallInv(t)'
  BY <1>1, <1>2 DEF TypeOK, CallInv, Remove, Goto, SetSlot, Scanning, slots, locals
<1>6. OthersKeep(t)
  BY <1>1, <1>2 DEF TypeOK, OthersKeep, Remove, Goto, SetSlot, list, slots, locals
<1>7. ListClosed' /\ registered \subseteq registered'
  BY <1>1 DEF ListClosed, Remove, list
<1>8. UNCHANGED <<client, victim, release_list, release_list_size>>
  BY DEF Remove, client, own, locals
<1>9. pc[t] = "idle" /\ pc'[t] \notin {"scan", "sweep"}
  BY <1>1 DEF TypeOK, Remove, Goto, SetSlot, locals
<1>10. QED BY <1>1, <1>3, <1>4, <1>5, <1>6, <1>7, <1>8, <1>9, LocalStep

LEMMA RemoveAllBasic ==
    ASSUME BasicInv, NEW t \in Threads, RemoveAll(t)
    PROVE  BasicInv'
<1>1. TypeOK /\ ListClosed /\ ThreadInv(t) /\ CallInv(t) /\ ~deleted
  BY OwnFacts DEF RemoveAll
<1>3. TypeOK'
  <2>1. UNCHANGED <<client, list, slots, own, request, value, victim, iter>>
    BY DEF RemoveAll, StartClear
  <2>2. pc' \in [Threads -> PCs] /\ i' \in [Threads -> Slots] /\ calls' \in [Threads -> Nat]
    BY <1>1 DEF TypeOK, RemoveAll, StartClear, Goto, PCs, Slots
  <2>3. QED BY <1>1, <2>1, <2>2 DEF TypeOK, client, list, slots, own
<1>4. ThreadInv(t)'
  BY <1>1 DEF TypeOK, ThreadInv, RemoveAll, Goto, StartClear, Slots, list, slots, locals
<1>5. CallInv(t)'
  BY <1>1 DEF TypeOK, CallInv, RemoveAll, Goto, StartClear, Slots, Scanning, slots, locals
<1>6. OthersKeep(t)
  BY <1>1 DEF TypeOK, OthersKeep, RemoveAll, Goto, StartClear, Slots, list, slots, locals
<1>7. ListClosed' /\ registered \subseteq registered'
  BY <1>1 DEF ListClosed, RemoveAll, list
<1>8. UNCHANGED <<client, victim, release_list, release_list_size>>
  BY DEF RemoveAll, client, own, locals, StartClear
<1>9. pc[t] = "idle" /\ pc'[t] \notin {"scan", "sweep"}
  BY <1>1 DEF TypeOK, RemoveAll, Goto, StartClear, Slots, locals
<1>10. QED BY <1>1, <1>3, <1>4, <1>5, <1>6, <1>7, <1>8, <1>9, LocalStep

LEMMA ClearSlotBasic ==
    ASSUME BasicInv, NEW t \in Threads, ClearSlot(t)
    PROVE  BasicInv'
<1>1. TypeOK /\ ListClosed /\ ThreadInv(t) /\ CallInv(t) /\ ~deleted
  BY OwnFacts DEF ClearSlot
<1>2. i[t] \in Slots /\ \A s \in Slots : s \in Int /\ 0 <= s /\ s <= NumSlots - 1
  BY <1>1 DEF TypeOK, Slots
<1>3. TypeOK'
  <2>1. 0 \in Slots /\ (i[t] < NumSlots - 1 => i[t] + 1 \in Slots)
    BY <1>2 DEF Slots
  <2>2. i' \in [Threads -> Slots] /\ pc' \in [Threads -> PCs]
    <3>1. CASE i[t] < NumSlots - 1 /\ i' = [i EXCEPT ![t] = @ + 1] /\ UNCHANGED pc
      BY <1>1, <2>1, <3>1 DEF TypeOK
    <3>2. CASE /\ Goto(t, IF victim[t] = NULL THEN "idle" ELSE "free")
               /\ i' = [i EXCEPT ![t] = 0]
      BY <1>1, <2>1, <3>2 DEF TypeOK, Goto, PCs
    <3>3. QED BY <3>1, <3>2 DEF ClearSlot
  <2>3. /\ hp' \in [Threads -> [Slots -> Blocks \cup {NULL}]]
        /\ straddled' \subseteq Threads \X Slots
    BY <1>1 DEF TypeOK, ClearSlot, SetSlot
  <2>4. QED BY <1>1, <2>2, <2>3 DEF TypeOK, ClearSlot, client, list, own
<1>4. ThreadInv(t)'
  BY <1>1 DEF TypeOK, ThreadInv, ClearSlot, SetSlot, Goto, list, slots, locals
<1>5. CallInv(t)'
  <2>1. /\ hp[t] \in [Slots -> Blocks \cup {NULL}] /\ hp'[t] = [hp[t] EXCEPT ![i[t]] = NULL]
        /\ request'[t] = request[t] /\ value'[t] = value[t] /\ victim'[t] = victim[t]
    BY <1>1 DEF TypeOK, ClearSlot, SetSlot
  <2>2. CASE i[t] < NumSlots - 1 /\ i' = [i EXCEPT ![t] = @ + 1] /\ UNCHANGED pc
    <3>1. i'[t] = i[t] + 1 /\ pc'[t] = "clear" /\ pc[t] = "clear"
      BY <1>1, <2>2 DEF TypeOK, ClearSlot
    <3>2. victim[t] # NULL => \A s \in Slots : s < i'[t] => hp'[t][s] = NULL
      BY <1>1, <1>2, <2>1, <3>1 DEF CallInv
    <3>3. QED BY <1>1, <2>1, <3>1, <3>2 DEF CallInv, Scanning
  <2>3. CASE /\ i[t] = NumSlots - 1
             /\ Goto(t, IF victim[t] = NULL THEN "idle" ELSE "free")
             /\ i' = [i EXCEPT ![t] = 0]
    <3>1. /\ i'[t] = 0 /\ pc[t] = "clear"
          /\ pc'[t] = IF victim[t] = NULL THEN "idle" ELSE "free"
      BY <1>1, <2>3 DEF TypeOK, ClearSlot, Goto
    <3>2. victim[t] # NULL => \A s \in Slots : hp'[t][s] = NULL
      BY <1>1, <1>2, <2>1, <2>3, <3>1 DEF CallInv
    <3>3. victim[t] # NULL => hp'[t] = NoHazards
      BY <2>1, <3>2 DEF NoHazards
    <3>4. QED BY <1>1, <2>1, <3>1, <3>3 DEF CallInv, Scanning
  <2>4. QED BY <2>2, <2>3 DEF ClearSlot
<1>6. OthersKeep(t)
  BY <1>1 DEF TypeOK, OthersKeep, ClearSlot, SetSlot, Goto, list, slots, locals
<1>7. ListClosed' /\ registered \subseteq registered'
  BY <1>1 DEF ListClosed, ClearSlot, list
<1>8. UNCHANGED <<client, victim, release_list, release_list_size>>
  BY DEF ClearSlot, client, own, locals
<1>9. pc[t] = "clear" /\ pc'[t] \notin {"scan", "sweep"}
  BY <1>1 DEF TypeOK, ClearSlot, Goto, locals
<1>10. QED BY <1>1, <1>3, <1>4, <1>5, <1>6, <1>7, <1>8, <1>9, LocalStep

-----------------------------------------------------------------------------
(* Blocks come and go.                                                     *)

\* What waits is a block.
LEMMA WaitingBlocks ==
    ASSUME NEW t \in Threads, ReleaseInv(t)
    PROVE  \A k \in Waiting(t) : k \in Entries /\ release_list[t][k].data # NULL
<1>1. Waiting(t) \subseteq Entries
  BY DEF Waiting
<1>2. QED BY <1>1 DEF ReleaseInv

LEMMA RetireBasic ==
    ASSUME BasicInv, NEW t \in Threads, NEW c \in Cells, Retire(t, c)
    PROVE  /\ BasicInv'
           /\ \E new \in Blocks \ heap : /\ Linked' = (Linked \ {cell[c]}) \cup {new}
                                       /\ Retired' = Retired \cup {cell[c]}
           /\ heap \subseteq heap'
<1>1. TypeOK /\ ListClosed /\ ThreadInv(t) /\ CallInv(t) /\ ~deleted
  BY OwnFacts DEF Retire
<1>2. PICK new \in Blocks \ heap :
         heap' = heap \cup {new} /\ cell' = [cell EXCEPT ![c] = new]
  BY DEF Retire
<1>3. /\ victim' = [victim EXCEPT ![t] = cell[c]]
      /\ i' = [i EXCEPT ![t] = 0] /\ pc' = [pc EXCEPT ![t] = "clear"]
      /\ calls' = [calls EXCEPT ![t] = @ + 1]
      /\ pc[t] = "idle" /\ t \in registered /\ deleted' = deleted
      /\ UNCHANGED <<list, slots, own, request, value, iter>>
  BY DEF Retire, StartClear, Goto
<1>4. TypeOK'
  <2>1. heap' \subseteq Blocks /\ cell' \in [Cells -> Blocks]
    BY <1>1, <1>2 DEF TypeOK
  <2>2. /\ victim' \in [Threads -> Blocks \cup {NULL}] /\ i' \in [Threads -> Slots]
        /\ pc' \in [Threads -> PCs] /\ calls' \in [Threads -> Nat]
    <3>1. cell[c] \in Blocks /\ 0 \in Slots /\ "clear" \in PCs
      BY <1>1, SizeAssumption DEF TypeOK, Slots, PCs
    <3>2. /\ victim \in [Threads -> Blocks \cup {NULL}] /\ i \in [Threads -> Slots]
          /\ pc \in [Threads -> PCs] /\ calls \in [Threads -> Nat]
      BY <1>1 DEF TypeOK
    <3> HIDE DEF Slots, PCs
    <3>3. QED BY <1>3, <3>1, <3>2
  <2>3. QED BY <1>1, <1>3, <2>1, <2>2 DEF TypeOK, list, slots, own
<1>5. ThreadInv(t)'
  BY <1>1, <1>3 DEF TypeOK, ThreadInv, list, slots
<1>6. CallInv(t)'
  <2>1. \A s \in Slots : ~(s < 0)
    BY DEF Slots
  <2>2. QED BY <1>1, <1>3, <2>1 DEF TypeOK, CallInv, Scanning
<1>7. OthersKeep(t)
  BY <1>1, <1>3 DEF TypeOK, OthersKeep, list, slots
<1>8. ListClosed' /\ registered' = registered
  BY <1>1, <1>3 DEF ListClosed, list
<1>9. CallsInv'
  BY <1>1, <1>3, <1>5, <1>6, <1>7, <1>8, StepCalls DEF BasicInv
<1>10. OnePlace /\ \A u \in Threads : ReleaseInv(u)
  BY <1>1 DEF BasicInv, AccountsInv
<1>11. victim[t] = NULL
  BY <1>1, <1>3 DEF CallInv
<1>12. UNCHANGED <<release_list, release_list_size>> /\ \A u \in Threads : Waiting(u)' = Waiting(u)
  BY <1>3 DEF own, Waiting
<1>13. \A u \in Threads : Scanning(u)' <=> Scanning(u)
  BY <1>1, <1>3 DEF Scanning, TypeOK
<1>14. \A u \in Threads : ReleaseInv(u)'
  BY <1>10, <1>12, <1>13 DEF ReleaseInv
<1>15. /\ cell \in [Cells -> Blocks] /\ new \in Blocks /\ new # NULL
       /\ \A d \in Cells : cell[d] \in Linked /\ cell[d] # NULL
  BY <1>1, <1>2 DEF TypeOK, Linked, Blocks
<1>16. Linked' = (Linked \ {cell[c]}) \cup {new}
  <2>1. \A d \in Cells : cell'[d] = IF d = c THEN new ELSE cell[d]
    BY <1>2, <1>15
  <2>2. \A d \in Cells : d # c => cell[d] # cell[c]
    BY <1>10 DEF OnePlace
  <2>3. QED BY <2>1, <2>2 DEF Linked
<1>17. Retired' = Retired \cup {cell[c]}
  <2>1. {victim'[u] : u \in Threads} \ {NULL} = ({victim[u] : u \in Threads} \ {NULL}) \cup {cell[c]}
    <3>1. \A u \in Threads : victim'[u] = IF u = t THEN cell[c] ELSE victim[u]
      BY <1>1, <1>3 DEF TypeOK
    <3>2. QED BY <1>11, <1>15, <3>1
  <2> DEFINE W == UNION {{release_list[u][k].data : k \in Waiting(u)} : u \in Threads}
  <2>2. W' = W
    BY <1>12
  <2>3. /\ Retired = ({victim[u] : u \in Threads} \cup W) \ {NULL}
        /\ Retired' = ({victim'[u] : u \in Threads} \cup W') \ {NULL}
    BY DEF Retired
  <2> HIDE DEF W
  <2>4. QED BY <2>1, <2>2, <2>3, <1>15
<1>18. OnePlace'
  <2>1. heap' = Linked' \cup Retired' /\ Linked' \cap Retired' = {}
    BY <1>2, <1>10, <1>15, <1>16, <1>17 DEF OnePlace
  <2>2. \A d, e \in Cells : cell'[d] = cell'[e] => d = e
    BY <1>2, <1>10, <1>15 DEF OnePlace
  <2>3. \A u \in Threads : victim'[u] = IF u = t THEN cell[c] ELSE victim[u]
    BY <1>1, <1>3 DEF TypeOK
  <2>4. /\ \A u \in Threads : victim[u] # NULL => victim[u] \in Retired
        /\ \A u \in Threads : \A k \in Waiting(u) : release_list[u][k].data \in Retired
    BY <1>10, WaitingBlocks DEF Retired
  <2>5. cell[c] \notin Retired
    BY <1>10, <1>15 DEF OnePlace
  <2>6. \A u, v \in Threads : victim'[u] = victim'[v] /\ victim'[u] # NULL => u = v
    BY <1>10, <2>3, <2>4, <2>5 DEF OnePlace
  <2>7. \A u, v \in Threads : \A k \in Waiting(u)' :
          /\ victim'[v] # release_list'[u][k].data
          /\ \A j \in Waiting(v)' :
               release_list'[v][j].data = release_list'[u][k].data => u = v /\ j = k
    BY <1>10, <1>12, <2>3, <2>4, <2>5 DEF OnePlace
  <2>8. QED BY <2>1, <2>2, <2>6, <2>7 DEF OnePlace
<1>19. QED
  BY <1>2, <1>4, <1>9, <1>14, <1>16, <1>17, <1>18 DEF BasicInv, AccountsInv

\* A release list of the state.
LEMMA Lists ==
    ASSUME TypeOK, NEW t \in Threads
    PROVE  /\ release_list[t] \in List /\ Waiting(t) = Taken(release_list[t])
           /\ IsFiniteSet(Waiting(t)) /\ Waiting(t) \subseteq Entries
           /\ Cardinality(Waiting(t)) \in 0..RLMax
           /\ \A k \in Entries : release_list[t][k].data \in Blocks \cup {NULL}
<1>1. release_list[t] \in [Entries -> [data : Blocks \cup {NULL}, status : 0..2]]
  BY DEF TypeOK
<1>2. Blocks \cup {NULL} \subseteq Nat
  BY BlockAssumption DEF Blocks
<1>3. release_list[t] \in List
  BY <1>1, <1>2 DEF List
<1>4. Waiting(t) = Taken(release_list[t]) /\ Waiting(t) \in SUBSET Entries
  BY DEF Waiting, Taken
<1>5. IsFiniteSet(Waiting(t)) /\ Cardinality(Waiting(t)) <= RLMax
  BY <1>4, EntriesFinite, FS_Subset
<1>6. Cardinality(Waiting(t)) \in Nat
  BY <1>5, FS_CardinalityType
<1>7. QED BY <1>1, <1>3, <1>4, <1>5, <1>6

\* What hazard_pointer_free makes of the list: one entry more, perhaps sorted.
LEMMA FreeFacts ==
    ASSUME BasicInv, NEW t \in Threads, Free(t)
    PROVE  /\ \E slot \in Entries, p \in Bijection(Entries, Entries) :
                /\ release_list[t][slot].status = 0
                /\ release_list'[t] =
                     [k \in Entries |-> [release_list[t] EXCEPT ![slot] =
                                           [data |-> victim[t], status |-> 1]][p[k]]]
           /\ \A u \in Threads \ {t} : release_list'[u] = release_list[u]
           /\ current_rl_slot' \in [Threads -> Entries]
           /\ pc' = [pc EXCEPT ![t] = IF release_list_size[t] + 1 = RLMax THEN "scan" ELSE "idle"]
           /\ iter' = [iter EXCEPT ![t] = IF release_list_size[t] + 1 = RLMax THEN first ELSE NoThread]
           /\ release_list_size[t] + 1 = RLMax => Sorted(release_list'[t])
           /\ Cardinality(Waiting(t)') = release_list_size[t] + 1
           /\ Cardinality(Waiting(t)') <= RLMax
           /\ release_list' \in [Threads -> [Entries -> [data : Blocks \cup {NULL}, status : 0..2]]]
<1>1. TypeOK /\ ReleaseInv(t) /\ victim[t] \in Blocks
  <2>1. TypeOK /\ ListClosed /\ ThreadInv(t) /\ CallInv(t) /\ ~deleted
    BY OwnFacts DEF Free
  <2>2. ReleaseInv(t)
    BY <2>1 DEF BasicInv, AccountsInv
  <2>3. QED BY <2>1, <2>2 DEF TypeOK, CallInv, Free
<1>2. \A d \in Entries : Tried(t, d) \in Entries
  <2>1. SUFFICES ASSUME NEW d \in Entries PROVE Tried(t, d) \in Entries
    OBVIOUS
  <2>2. current_rl_slot[t] + 1 + d \in Nat
    BY <1>1 DEF TypeOK, Entries
  <2>3. QED BY <2>2, RingEntries DEF Tried
<1> DEFINE L == release_list[t]
           full == release_list_size[t] + 1 = RLMax
<1>3. PICK slot \in Entries :
        /\ L[slot].status = 0
        /\ current_rl_slot' = [current_rl_slot EXCEPT ![t] = slot]
        /\ release_list' =
             [release_list EXCEPT ![t] =
                IF full THEN Sort([L EXCEPT ![slot] = [data |-> victim[t], status |-> 1]])
                ELSE [L EXCEPT ![slot] = [data |-> victim[t], status |-> 1]]]
        /\ iter' = [iter EXCEPT ![t] = IF full THEN first ELSE NoThread]
        /\ pc' = [pc EXCEPT ![t] = IF full THEN "scan" ELSE "idle"]
  BY <1>2 DEF Free, Full, Goto
<1> DEFINE added == [L EXCEPT ![slot] = [data |-> victim[t], status |-> 1]]
<1>4. L \in [Entries -> [data : Blocks \cup {NULL}, status : 0..2]]
  BY <1>1 DEF TypeOK
<1>5. /\ added \in [Entries -> [data : Blocks \cup {NULL}, status : 0..2]] /\ added \in List
      /\ added[slot].status = 1
      /\ \A k \in Entries : k # slot => added[k] = L[k]
  <2>1. Blocks \cup {NULL} \subseteq Nat
    BY BlockAssumption DEF Blocks
  <2>2. QED BY <1>1, <1>4, <2>1 DEF List
<1>6. release_list'[t] = (IF full THEN Sort(added) ELSE added)
  BY <1>1, <1>3 DEF TypeOK
<1>7. \A u \in Threads \ {t} : release_list'[u] = release_list[u]
  BY <1>1, <1>3 DEF TypeOK
<1>8. Taken(added) = Waiting(t) \cup {slot} /\ slot \notin Waiting(t)
  BY <1>3, <1>5 DEF Taken, Waiting
<1>9. Cardinality(Taken(added)) = release_list_size[t] + 1
  <2>1. release_list_size[t] = Cardinality(Waiting(t))
    BY <1>1 DEF ReleaseInv
  <2>2. IsFiniteSet(Waiting(t))
    BY <1>1, Lists
  <2>3. Cardinality(Waiting(t) \cup {slot}) = Cardinality(Waiting(t)) + 1
    BY <1>8, <2>2, FS_AddElement
  <2>4. QED BY <1>8, <2>1, <2>3
<1>10. Cardinality(Taken(added)) <= RLMax
  BY EntriesFinite, FS_Subset DEF Taken
<1> HIDE DEF added, full
<1>11. \E p \in Bijection(Entries, Entries) : release_list'[t] = [k \in Entries |-> added[p[k]]]
  <2>1. CASE full
    BY <1>5, <1>6, <2>1, SortKeeps
  <2>2. CASE ~full
    <3> DEFINE id == [k \in Entries |-> k]
    <3>1. id \in Bijection(Entries, Entries)
      BY DEF Bijection, Injection, Surjection, IsInjective
    <3>2. added = [k \in Entries |-> added[id[k]]]
      BY <1>5
    <3> HIDE DEF id
    <3>3. QED BY <1>6, <2>2, <3>1, <3>2
  <2>3. QED BY <2>1, <2>2
<1>12. Cardinality(Waiting(t)') = Cardinality(Taken(added))
  <2>1. Waiting(t)' = Taken(release_list'[t])
    BY DEF Waiting, Taken
  <2>2. QED BY <1>5, <1>6, <2>1, SortKeeps
<1>13. full => Sorted(release_list'[t])
  BY <1>5, <1>6, SortKeeps
<1>14. release_list'[t] \in [Entries -> [data : Blocks \cup {NULL}, status : 0..2]]
  <2>1. PICK p \in Bijection(Entries, Entries) : release_list'[t] = [k \in Entries |-> added[p[k]]]
    BY <1>11
  <2>2. \A k \in Entries : p[k] \in Entries
    BY <2>1 DEF Bijection, Injection
  <2>3. QED BY <1>5, <2>1, <2>2
<1>15. release_list' \in [Threads -> [Entries -> [data : Blocks \cup {NULL}, status : 0..2]]]
  <2>1. DOMAIN release_list' = Threads /\ release_list' = [u \in Threads |-> release_list'[u]]
    BY <1>1, <1>3 DEF TypeOK
  <2>2. \A u \in Threads : release_list'[u] \in [Entries -> [data : Blocks \cup {NULL}, status : 0..2]]
    BY <1>1, <1>7, <1>14 DEF TypeOK
  <2>3. QED BY <2>1, <2>2
<1>16. current_rl_slot' \in [Threads -> Entries]
  BY <1>1, <1>3 DEF TypeOK
<1>17. /\ pc' = [pc EXCEPT ![t] = IF release_list_size[t] + 1 = RLMax THEN "scan" ELSE "idle"]
       /\ iter' = [iter EXCEPT ![t] = IF release_list_size[t] + 1 = RLMax THEN first ELSE NoThread]
  BY <1>3 DEF full
<1>18. \E e \in Entries, p \in Bijection(Entries, Entries) :
         /\ L[e].status = 0
         /\ release_list'[t] =
              [k \in Entries |-> [L EXCEPT ![e] = [data |-> victim[t], status |-> 1]][p[k]]]
  BY <1>3, <1>11, Zenon DEF added
<1>19. QED
  BY <1>7, <1>9, <1>10, <1>12, <1>13, <1>15, <1>16, <1>17, <1>18 DEF full

LEMMA FreeBasic ==
    ASSUME BasicInv, NEW t \in Threads, Free(t)
    PROVE  BasicInv' /\ Linked' = Linked /\ Retired' = Retired
<1>1. TypeOK /\ ListClosed /\ ThreadInv(t) /\ CallInv(t) /\ ~deleted
  BY OwnFacts DEF Free
<1>2. OnePlace /\ \A u \in Threads : ReleaseInv(u)
  BY <1>1 DEF BasicInv, AccountsInv
<1>3. /\ pc[t] = "free" /\ t \in registered /\ hp[t] = NoHazards /\ victim[t] # NULL
      /\ release_list_size' = [release_list_size EXCEPT ![t] = @ + 1]
      /\ victim' = [victim EXCEPT ![t] = NULL]
      /\ UNCHANGED <<client, list, slots, request, value, i, calls>>
  BY <1>1 DEF Free, ThreadInv, CallInv
<1> DEFINE L == release_list[t]
           full == release_list_size[t] + 1 = RLMax
<1>4. /\ \A u \in Threads \ {t} : release_list'[u] = release_list[u]
      /\ current_rl_slot' \in [Threads -> Entries]
      /\ pc' = [pc EXCEPT ![t] = IF full THEN "scan" ELSE "idle"]
      /\ iter' = [iter EXCEPT ![t] = IF full THEN first ELSE NoThread]
      /\ full => Sorted(release_list'[t])
      /\ Cardinality(Waiting(t)') = release_list_size[t] + 1
      /\ Cardinality(Waiting(t)') <= RLMax
      /\ release_list' \in [Threads -> [Entries -> [data : Blocks \cup {NULL}, status : 0..2]]]
  BY FreeFacts
<1>5. PICK slot \in Entries, p \in Bijection(Entries, Entries) :
        /\ L[slot].status = 0
        /\ release_list'[t] =
             [k \in Entries |-> [L EXCEPT ![slot] = [data |-> victim[t], status |-> 1]][p[k]]]
  BY FreeFacts
<1>6. /\ \A k \in Entries : p[k] \in Entries
      /\ \A j, k \in Entries : p[j] = p[k] => j = k
      /\ \A k \in Entries : \E j \in Entries : p[j] = k
  BY <1>5 DEF Bijection, Injection, Surjection, IsInjective
<1>7. \A k \in Entries :
        /\ release_list'[t][k].data = (IF p[k] = slot THEN victim[t] ELSE L[p[k]].data)
        /\ release_list'[t][k].status = (IF p[k] = slot THEN 1 ELSE L[p[k]].status)
  BY <1>1, <1>5, <1>6 DEF TypeOK
<1> HIDE DEF L, full
<1>8. TypeOK'
  <2>1. release_list_size[t] + 1 \in 0..RLMax
    BY <1>1, <1>4 DEF TypeOK
  <2>2. QED BY <1>1, <1>3, <1>4, <2>1 DEF TypeOK, PCs, client, list, slots
<1>9. ThreadInv(t)'
  <2>1. first \in registered
    BY <1>1, <1>3 DEF ListClosed
  <2>2. QED BY <1>1, <1>3, <1>4, <2>1 DEF TypeOK, ThreadInv, list, slots
<1>10. CallInv(t)'
  BY <1>1, <1>3, <1>4 DEF TypeOK, CallInv, Scanning, slots
<1>11. OthersKeep(t)
  BY <1>1, <1>3, <1>4 DEF TypeOK, OthersKeep, list, slots
<1>12. CallsInv'
  BY <1>1, <1>3, <1>9, <1>10, <1>11, StepCalls DEF BasicInv, ListClosed, list, client
<1>13. \A u \in Threads \ {t} :
         /\ Waiting(u)' = Waiting(u) /\ (Scanning(u)' <=> Scanning(u))
         /\ release_list'[u] = release_list[u] /\ victim'[u] = victim[u]
         /\ release_list_size'[u] = release_list_size[u]
  BY <1>1, <1>3, <1>4 DEF TypeOK, Waiting, Scanning
<1>14. Waiting(t)' = {k \in Entries : p[k] = slot \/ p[k] \in Waiting(t)}
  BY <1>6, <1>7 DEF Waiting, L
<1>15. slot \notin Waiting(t) /\ ~Scanning(t) /\ victim'[t] = NULL
  BY <1>1, <1>3, <1>5 DEF TypeOK, Waiting, Scanning, L
<1>16. ReleaseInv(t)'
  <2>1. release_list_size'[t] = Cardinality(Waiting(t)')
    BY <1>1, <1>3, <1>4 DEF TypeOK
  <2>2. \A k \in Entries : k \in Waiting(t)' <=> release_list'[t][k].data # NULL
    BY <1>2, <1>3, <1>6, <1>7, <1>14 DEF ReleaseInv, L
  <2>3. \A k \in Entries : release_list'[t][k].status # 2
    BY <1>2, <1>6, <1>7, <1>15 DEF ReleaseInv, L
  <2>4. ASSUME Scanning(t)' PROVE Waiting(t)' = Entries /\ Sorted(release_list'[t])
    <3>1. full
      BY <1>1, <1>3, <1>4, <2>4 DEF TypeOK, Scanning
    <3>2. Cardinality(Waiting(t)') = RLMax
      BY <1>4, <3>1 DEF full
    <3>3. Waiting(t)' \in SUBSET Entries
      BY <1>14
    <3>4. QED BY <1>4, <3>1, <3>2, <3>3, EntriesFinite, FS_Subset
  <2>5. QED BY <2>1, <2>2, <2>3, <2>4 DEF ReleaseInv
<1>17. \A u \in Threads : ReleaseInv(u)'
  <2>1. ASSUME NEW u \in Threads \ {t} PROVE ReleaseInv(u)'
    BY <1>2, <1>13 DEF ReleaseInv
  <2>2. QED BY <1>16, <2>1
<1>18. Retired' = Retired
  <2>1. {release_list'[t][k].data : k \in Waiting(t)'}
          = {release_list[t][k].data : k \in Waiting(t)} \cup {victim[t]}
    <3>1. ASSUME NEW k \in Waiting(t)
          PROVE  \E j \in Waiting(t)' : release_list'[t][j].data = release_list[t][k].data
      <4>1. k \in Entries /\ k # slot
        BY <1>15 DEF Waiting
      <4>2. PICK j \in Entries : p[j] = k
        BY <1>6, <4>1
      <4>3. QED BY <1>7, <1>14, <4>1, <4>2 DEF L
    <3>2. \E j \in Waiting(t)' : release_list'[t][j].data = victim[t]
      BY <1>6, <1>7, <1>14
    <3>3. ASSUME NEW j \in Waiting(t)'
          PROVE  release_list'[t][j].data \in
                   {release_list[t][k].data : k \in Waiting(t)} \cup {victim[t]}
      BY <1>7, <1>14 DEF L
    <3>4. QED BY <3>1, <3>2, <3>3
  <2> DEFINE D(u) == {release_list[u][k].data : k \in Waiting(u)}
             E(u) == {release_list'[u][k].data : k \in Waiting(u)'}
  <2>2. \A u \in Threads \ {t} : E(u) = D(u)
    BY <1>13
  <2>3. E(t) = D(t) \cup {victim[t]}
    BY <2>1
  <2>4. /\ Retired = ({victim[u] : u \in Threads} \cup UNION {D(u) : u \in Threads}) \ {NULL}
        /\ Retired' = ({victim'[u] : u \in Threads} \cup UNION {E(u) : u \in Threads}) \ {NULL}
    BY DEF Retired
  <2> HIDE DEF D, E
  <2>5. \A b : b \in Retired <=>
           b # NULL /\ ((\E u \in Threads : b = victim[u]) \/ (\E u \in Threads : b \in D(u)))
    BY <2>4
  <2>6. \A b : b \in Retired' <=>
           b # NULL /\ ((\E u \in Threads : b = victim'[u]) \/ (\E u \in Threads : b \in E(u)))
    BY <2>4
  <2>7. \A b : b \in Retired' <=> b \in Retired
    BY <1>13, <1>15, <2>2, <2>3, <2>5, <2>6
  <2>8. QED BY <2>7
<1>19. OnePlace'
  <2>1. heap' = heap /\ cell' = cell /\ Linked' = Linked
    BY <1>3 DEF client, Linked
  <2>2. \A u, v \in Threads : victim'[u] = victim'[v] /\ victim'[u] # NULL => u = v
    BY <1>2, <1>13, <1>15 DEF OnePlace
  <2>3. ASSUME NEW u \in Threads, NEW k \in Waiting(u)'
        PROVE  \A v \in Threads : victim'[v] # release_list'[u][k].data
    <3>1. \A j \in Waiting(t) : release_list[t][j].data # NULL
      BY <1>2, WaitingBlocks
    <3>2. CASE u = t
      BY <1>2, <1>3, <1>7, <1>13, <1>14, <1>15, <3>1, <3>2 DEF OnePlace, L
    <3>3. CASE u # t
      <4>1. k \in Waiting(u) /\ release_list'[u][k].data = release_list[u][k].data
        BY <1>13, <3>3
      <4>2. release_list[u][k].data # NULL
        BY <1>2, <4>1, WaitingBlocks
      <4>3. QED BY <1>2, <1>13, <1>15, <4>1, <4>2 DEF OnePlace
    <3>4. QED BY <3>2, <3>3
  <2>4. ASSUME NEW u \in Threads, NEW v \in Threads, NEW k \in Waiting(u)', NEW j \in Waiting(v)',
               release_list'[v][j].data = release_list'[u][k].data
        PROVE  u = v /\ j = k
    <3>1. CASE u # t /\ v # t
      BY <1>2, <1>13, <2>4, <3>1 DEF OnePlace
    <3>2. CASE u = t /\ v = t
      <4>1. j \in Entries /\ k \in Entries
        BY <1>14, <3>2
      <4>2. p[j] = p[k]
        BY <1>2, <1>7, <1>14, <2>4, <3>2, <4>1 DEF OnePlace, L
      <4>3. QED BY <1>6, <3>2, <4>1, <4>2
    <3>3. CASE u = t /\ v # t
      BY <1>2, <1>7, <1>13, <1>14, <2>4, <3>3 DEF OnePlace, L
    <3>4. CASE u # t /\ v = t
      BY <1>2, <1>7, <1>13, <1>14, <2>4, <3>4 DEF OnePlace, L
    <3>5. QED BY <3>1, <3>2, <3>3, <3>4
  <2>5. QED BY <1>2, <1>18, <2>1, <2>2, <2>3, <2>4 DEF OnePlace
<1>20. QED
  BY <1>3, <1>8, <1>12, <1>17, <1>18, <1>19 DEF BasicInv, AccountsInv, Linked, client

\* Marking changes the status of what is found, and nothing else.
LEMMA MarkedFacts ==
    ASSUME NEW L \in List, NEW P
    PROVE  /\ Marked(L, P) \in List
           /\ \A k \in Entries :
                /\ Marked(L, P)[k].data = L[k].data
                /\ Marked(L, P)[k].status =
                     IF k \in {find_index_of_pointer(L, p) : p \in P} THEN 2 ELSE L[k].status
BY DEF Marked, List

\* When what waits is the same, so is where every block is.
LEMMA SamePlaces ==
    ASSUME OnePlace, UNCHANGED <<heap, cell, victim>>,
           \A u \in Threads : Waiting(u)' = Waiting(u),
           \A u \in Threads : \A k \in Waiting(u) :
             release_list'[u][k].data = release_list[u][k].data
    PROVE  OnePlace' /\ Retired' = Retired /\ Linked' = Linked
<1> DEFINE D(u) == {release_list[u][k].data : k \in Waiting(u)}
           E(u) == {release_list'[u][k].data : k \in Waiting(u)'}
<1>1. \A u \in Threads : E(u) = D(u)
  OBVIOUS
<1>2. /\ Retired = ({victim[u] : u \in Threads} \cup UNION {D(u) : u \in Threads}) \ {NULL}
      /\ Retired' = ({victim'[u] : u \in Threads} \cup UNION {E(u) : u \in Threads}) \ {NULL}
  BY DEF Retired
<1> HIDE DEF D, E
<1>3. Retired' = Retired
  BY <1>1, <1>2
<1>4. Linked' = Linked
  BY DEF Linked
<1>5. QED
  BY <1>3, <1>4 DEF OnePlace

LEMMA ScanSlotBasic ==
    ASSUME BasicInv, NEW t \in Threads, ScanSlot(t)
    PROVE  BasicInv' /\ Linked' = Linked /\ Retired' = Retired
<1>1. TypeOK /\ ListClosed /\ ThreadInv(t) /\ CallInv(t) /\ ~deleted
  BY OwnFacts DEF ScanSlot
<1>2. OnePlace /\ \A u \in Threads : ReleaseInv(u)
  BY <1>1 DEF BasicInv, AccountsInv
<1>3. /\ pc[t] = "scan" /\ iter[t] \in registered /\ Scanning(t)
      /\ UNCHANGED <<client, list, slots, current_rl_slot, release_list_size,
                     request, value, victim, calls>>
  BY <1>1 DEF ScanSlot, ThreadInv, Scanning
<1> DEFINE L == release_list[t]
           N == Marked(L, {hp[iter[t]][i[t]]})
<1>4. L \in List /\ release_list' = [release_list EXCEPT ![t] = N]
  BY <1>1, Lists DEF ScanSlot
<1>5. \A k \in Entries : N[k].data = L[k].data /\ N[k].status \in {2, L[k].status}
  BY <1>4, MarkedFacts
<1>6. release_list'[t] = N /\ \A u \in Threads \ {t} : release_list'[u] = release_list[u]
  BY <1>1, <1>4 DEF TypeOK
<1>7. N \in [Entries -> [data : Blocks \cup {NULL}, status : 0..2]]
  <2>1. L \in [Entries -> [data : Blocks \cup {NULL}, status : 0..2]]
    BY <1>1 DEF TypeOK
  <2> HIDE DEF L
  <2>2. QED BY <2>1 DEF Marked
<1> HIDE DEF L, N
<1>8. i' \in [Threads -> Slots] /\ iter' \in [Threads -> Threads \cup {NoThread}] /\ pc' \in [Threads -> PCs]
  <2>1. 0 \in Slots /\ (i[t] < NumSlots - 1 => i[t] + 1 \in Slots)
    BY <1>1 DEF TypeOK, Slots
  <2>2. CASE i[t] < NumSlots - 1 /\ i' = [i EXCEPT ![t] = @ + 1] /\ UNCHANGED <<iter, pc>>
    BY <1>1, <2>1, <2>2 DEF TypeOK
  <2>3. CASE /\ i' = [i EXCEPT ![t] = 0]
             /\ iter' = [iter EXCEPT ![t] = next[@]]
             /\ Goto(t, IF next[iter[t]] = NoThread THEN "sweep" ELSE "scan")
    BY <1>1, <1>3, <2>1, <2>3 DEF TypeOK, Goto, PCs
  <2>4. QED BY <2>2, <2>3 DEF ScanSlot
<1>9. pc'[t] \in {"scan", "sweep"} /\ (pc'[t] = "scan" => iter'[t] \in registered)
  <2>1. CASE UNCHANGED <<iter, pc>>
    BY <1>3, <2>1
  <2>2. CASE /\ iter' = [iter EXCEPT ![t] = next[@]]
             /\ Goto(t, IF next[iter[t]] = NoThread THEN "sweep" ELSE "scan")
    BY <1>1, <1>3, <2>2 DEF TypeOK, Goto, ListClosed
  <2>3. QED BY <2>1, <2>2 DEF ScanSlot
<1>10. TypeOK'
  BY <1>1, <1>3, <1>4, <1>7, <1>8 DEF TypeOK, client, list, slots
<1>11. ThreadInv(t)'
  BY <1>1, <1>3, <1>9 DEF ThreadInv, list, slots
<1>12. CallInv(t)'
  BY <1>1, <1>3, <1>9 DEF CallInv, Scanning, slots
<1>13. OthersKeep(t)
  BY <1>1, <1>3 DEF TypeOK, OthersKeep, ScanSlot, Goto, list, slots
<1>14. CallsInv'
  BY <1>1, <1>3, <1>11, <1>12, <1>13, StepCalls DEF BasicInv, ListClosed, list, client
<1>15. \A u \in Threads : Waiting(u)' = Waiting(u)
  <2>1. Waiting(t)' = Entries /\ Waiting(t) = Entries
    <3>1. Waiting(t) = Entries
      BY <1>2, <1>3 DEF ReleaseInv
    <3>2. \A k \in Entries : L[k].status # 0
      BY <3>1 DEF Waiting, L
    <3>3. \A k \in Entries : release_list'[t][k].status # 0
      BY <1>5, <1>6, <3>2
    <3>4. QED BY <3>1, <3>3 DEF Waiting
  <2>2. QED BY <1>6, <2>1 DEF Waiting
<1>16. \A u \in Threads : \A k \in Entries :
         release_list'[u][k].data = release_list[u][k].data
  BY <1>5, <1>6 DEF L
<1>17. OnePlace' /\ Linked' = Linked /\ Retired' = Retired
  BY <1>2, <1>3, <1>15, <1>16, SamePlaces DEF Waiting, client
<1>18. \A u \in Threads : Scanning(u)' <=> Scanning(u)
  BY <1>3, <1>9, <1>13 DEF Scanning, OthersKeep
<1>19. ASSUME NEW u \in Threads PROVE ReleaseInv(u)'
  <2>1. ReleaseInv(u)
    BY <1>2
  <2>2. CASE u = t
    BY <1>3, <1>15, <1>16, <1>18, <2>1, <2>2 DEF ReleaseInv, Sorted, Waiting
  <2>3. CASE u # t
    BY <1>3, <1>6, <1>15, <1>18, <2>1, <2>3 DEF ReleaseInv
  <2>4. QED BY <2>2, <2>3
<1>20. QED
  BY <1>10, <1>14, <1>17, <1>19 DEF BasicInv, AccountsInv

\* The sweep keeps the entries marked.
LEMMA SweptFacts ==
    ASSUME NEW L \in List
    PROVE  /\ \A k \in Entries :
                /\ Swept(L)[k].status = (IF L[k].status = 2 THEN 1 ELSE 0)
                /\ L[k].status # 1 => Swept(L)[k].data = L[k].data
                /\ L[k].status = 1 => Swept(L)[k] = NoEntry
           /\ Freed(L) \subseteq Taken(L)
           /\ Cardinality(Freed(L)) \in Nat
           /\ Cardinality(Taken(L) \ Freed(L)) = Cardinality(Taken(L)) - Cardinality(Freed(L))
           /\ Cardinality(Freed(L)) <= Cardinality(Taken(L))
<1>1. \A k \in Entries :
        /\ Swept(L)[k].status = (IF L[k].status = 2 THEN 1 ELSE 0)
        /\ L[k].status # 1 => Swept(L)[k].data = L[k].data
        /\ L[k].status = 1 => Swept(L)[k] = NoEntry
  BY DEF Swept, NoEntry, List
<1>2. Freed(L) \in SUBSET Taken(L) /\ Taken(L) \in SUBSET Entries
  BY DEF Freed, Taken
<1>3. IsFiniteSet(Taken(L))
  BY <1>2, EntriesFinite, FS_Subset
<1>4. IsFiniteSet(Freed(L)) /\ Cardinality(Freed(L)) <= Cardinality(Taken(L))
  BY <1>2, <1>3, FS_Subset
<1>5. Taken(L) \cap Freed(L) = Freed(L)
  BY <1>2
<1>6. Cardinality(Taken(L) \ Freed(L)) = Cardinality(Taken(L)) - Cardinality(Freed(L))
  BY <1>3, <1>5, FS_Difference
<1>7. Cardinality(Freed(L)) \in Nat
  BY <1>4, FS_CardinalityType
<1>8. QED
  BY <1>1, <1>2, <1>4, <1>6, <1>7

LEMMA SweepBasic ==
    ASSUME BasicInv, NEW t \in Threads, Sweep(t)
    PROVE  /\ BasicInv'
           /\ Linked' = Linked
           /\ \E freed \in SUBSET Retired :
                /\ freed = {release_list[t][k].data : k \in Freed(release_list[t])}
                /\ Retired' = Retired \ freed /\ heap \ heap' = freed
<1>1. TypeOK /\ ListClosed /\ ThreadInv(t) /\ CallInv(t) /\ ~deleted
  BY OwnFacts DEF Sweep
<1>2. OnePlace /\ \A u \in Threads : ReleaseInv(u)
  BY <1>1 DEF BasicInv, AccountsInv
<1> DEFINE L == release_list[t]
           freed == {L[k].data : k \in Freed(L)}
<1>3. /\ pc[t] = "sweep" /\ Scanning(t)
      /\ release_list' = [release_list EXCEPT ![t] = Swept(L)]
      /\ heap' = heap \ freed
      /\ release_list_size' = [release_list_size EXCEPT ![t] = @ - Cardinality(Freed(L))]
      /\ pc' = [pc EXCEPT ![t] = "idle"]
      /\ UNCHANGED <<cell, deleted, list, slots, current_rl_slot, locals>>
  BY DEF Sweep, Scanning, Remaining, Goto
<1>4. L \in List /\ Waiting(t) = Taken(L)
  BY <1>1, Lists
<1>5. release_list'[t] = Swept(L) /\ \A u \in Threads \ {t} : release_list'[u] = release_list[u]
  BY <1>1, <1>3 DEF TypeOK
<1>6. Swept(L) \in [Entries -> [data : Blocks \cup {NULL}, status : 0..2]]
  <2>1. L \in [Entries -> [data : Blocks \cup {NULL}, status : 0..2]]
    BY <1>1 DEF TypeOK
  <2> HIDE DEF L
  <2>2. QED BY <2>1 DEF Swept, NoEntry
<1>7. /\ \A k \in Entries :
           /\ Swept(L)[k].status = (IF L[k].status = 2 THEN 1 ELSE 0)
           /\ L[k].status # 1 => Swept(L)[k].data = L[k].data
      /\ Freed(L) \subseteq Taken(L)
      /\ Cardinality(Freed(L)) \in Nat
      /\ Cardinality(Taken(L) \ Freed(L)) = Cardinality(Taken(L)) - Cardinality(Freed(L))
      /\ Cardinality(Freed(L)) <= Cardinality(Taken(L))
  BY <1>4, SweptFacts
<1>8. Waiting(t) = Entries /\ \A k \in Entries : L[k].status \in {1, 2}
  <2>1. Waiting(t) = Entries
    BY <1>2, <1>3 DEF ReleaseInv
  <2>2. QED BY <1>4, <2>1 DEF List, Taken
<1>9. Waiting(t)' = Waiting(t) \ Freed(L)
  BY <1>5, <1>7, <1>8 DEF Waiting, Freed
<1>10. release_list_size[t] = Cardinality(Taken(L)) /\ release_list_size[t] \in 0..RLMax
  BY <1>1, <1>2, <1>4 DEF ReleaseInv, TypeOK
<1> HIDE DEF L
<1>11. TypeOK'
  <2>1. release_list_size[t] - Cardinality(Freed(L)) \in 0..RLMax
    BY <1>7, <1>10
  <2>2. release_list_size' \in [Threads -> 0..RLMax]
    BY <1>1, <1>3, <2>1 DEF TypeOK
  <2>3. heap' \subseteq Blocks
    BY <1>1, <1>3 DEF TypeOK
  <2>4. release_list' \in [Threads -> [Entries -> [data : Blocks \cup {NULL}, status : 0..2]]]
    BY <1>1, <1>3, <1>6 DEF TypeOK
  <2>5. pc' \in [Threads -> PCs]
    BY <1>1, <1>3 DEF TypeOK, PCs
  <2> HIDE DEF freed
  <2>6. QED BY <1>1, <1>3, <2>2, <2>3, <2>4, <2>5 DEF TypeOK, list, slots, locals
<1> HIDE DEF freed
<1>12. pc'[t] = "idle"
  BY <1>1, <1>3 DEF TypeOK
<1>13. ThreadInv(t)'
  BY <1>1, <1>3, <1>12 DEF ThreadInv, list, slots
<1>14. CallInv(t)'
  BY <1>1, <1>3, <1>12 DEF CallInv, Scanning, slots, locals
<1>15. OthersKeep(t)
  BY <1>1, <1>3 DEF TypeOK, OthersKeep, list, slots, locals
<1>16. CallsInv'
  BY <1>1, <1>3, <1>13, <1>14, <1>15, StepCalls DEF BasicInv, ListClosed, list
<1>17. \A u \in Threads \ {t} :
         /\ Waiting(u)' = Waiting(u) /\ (Scanning(u)' <=> Scanning(u))
         /\ release_list'[u] = release_list[u] /\ release_list_size'[u] = release_list_size[u]
  BY <1>1, <1>3, <1>5, <1>15 DEF TypeOK, OthersKeep, Waiting, Scanning
<1>18. victim' = victim /\ cell' = cell /\ Linked' = Linked
  BY <1>3 DEF locals, Linked
<1>19. \A k \in Waiting(t)' : /\ k \in Waiting(t) /\ k \notin Freed(L) /\ k \in Entries
                              /\ release_list'[t][k].data = L[k].data
                              /\ release_list'[t][k].status = 1
  BY <1>5, <1>7, <1>8, <1>9 DEF Freed
<1>20. ReleaseInv(t)'
  <2>1. release_list_size'[t] = Cardinality(Waiting(t)')
    BY <1>1, <1>3, <1>4, <1>7, <1>9, <1>10 DEF TypeOK
  <2>2. \A k \in Entries : k \in Waiting(t)' <=> release_list'[t][k].data # NULL
    <3>1. \A k \in Freed(L) : release_list'[t][k].data = NULL
      <4>1. \A k \in Freed(L) : k \in Entries /\ L[k].status = 1
        BY DEF Freed
      <4>2. \A k \in Freed(L) : Swept(L)[k] = NoEntry
        BY <1>4, <4>1, SweptFacts
      <4>3. QED BY <1>5, <4>2 DEF NoEntry
    <3>2. \A k \in Entries : L[k].data # NULL
      BY <1>2, <1>8, WaitingBlocks DEF L
    <3>3. QED BY <1>8, <1>9, <1>19, <3>1, <3>2
  <2>3. \A k \in Entries : release_list'[t][k].status # 2
    BY <1>5, <1>7
  <2>4. ~Scanning(t)'
    BY <1>12 DEF Scanning
  <2>5. QED BY <2>1, <2>2, <2>3, <2>4 DEF ReleaseInv
<1>21. \A u \in Threads : ReleaseInv(u)'
  <2>1. ASSUME NEW u \in Threads \ {t} PROVE ReleaseInv(u)'
    BY <1>2, <1>17 DEF ReleaseInv
  <2>2. QED BY <1>20, <2>1
<1>22. freed \in SUBSET Retired
  <2>1. \A k \in Freed(L) : k \in Waiting(t)
    BY <1>4, <1>7
  <2>2. \A k \in Waiting(t) : L[k].data # NULL
    BY <1>2, WaitingBlocks DEF L
  <2>3. QED BY <2>1, <2>2 DEF Retired, freed, L
<1>23. Retired' = Retired \ freed
  <2> DEFINE D(u) == {release_list[u][k].data : k \in Waiting(u)}
             E(u) == {release_list'[u][k].data : k \in Waiting(u)'}
  <2>1. \A u \in Threads \ {t} : E(u) = D(u)
    BY <1>17
  <2>2. E(t) = D(t) \ freed
    <3>1. ASSUME NEW k \in Waiting(t)'
          PROVE  release_list'[t][k].data \in D(t) \ freed
      <4>1. \A j \in Freed(L) : j \in Waiting(t) /\ j # k
        BY <1>4, <1>7, <1>19
      <4>2. \A j \in Freed(L) : L[j].data # L[k].data
        BY <1>2, <1>19, <4>1 DEF OnePlace, L
      <4>3. QED BY <1>19, <4>2 DEF freed, L
    <3>2. ASSUME NEW k \in Waiting(t), release_list[t][k].data \notin freed
          PROVE  release_list[t][k].data \in E(t)
      <4>1. k \in Waiting(t)'
        BY <1>9, <3>2 DEF freed, L
      <4>2. QED BY <1>19, <4>1 DEF L
    <3>3. QED BY <3>1, <3>2
  <2>3. \A u \in Threads \ {t} : D(u) \cap freed = {}
    <3>1. \A u \in Threads \ {t} : \A j \in Waiting(u) : \A k \in Waiting(t) :
            release_list[u][j].data # L[k].data
      BY <1>2 DEF OnePlace, L
    <3>2. \A k \in Freed(L) : k \in Waiting(t)
      BY <1>4, <1>7
    <3>3. QED BY <3>1, <3>2 DEF freed
  <2>4. \A u \in Threads : victim[u] \notin freed
    <3>1. \A k \in Freed(L) : k \in Waiting(t)
      BY <1>4, <1>7
    <3>2. QED BY <1>2, <3>1 DEF OnePlace, freed, L
  <2>5. /\ Retired = ({victim[u] : u \in Threads} \cup UNION {D(u) : u \in Threads}) \ {NULL}
        /\ Retired' = ({victim'[u] : u \in Threads} \cup UNION {E(u) : u \in Threads}) \ {NULL}
    BY DEF Retired
  <2> HIDE DEF D, E
  <2>6. \A b : b \in Retired <=>
           b # NULL /\ ((\E u \in Threads : b = victim[u]) \/ (\E u \in Threads : b \in D(u)))
    BY <2>5
  <2>7. \A b : b \in Retired' <=>
           b # NULL /\ ((\E u \in Threads : b = victim[u]) \/ (\E u \in Threads : b \in E(u)))
    BY <1>18, <2>5
  <2>8. \A b : b \in Retired' <=> b \in Retired /\ b \notin freed
    BY <2>1, <2>2, <2>3, <2>4, <2>6, <2>7
  <2>9. QED BY <2>8
<1>24. OnePlace'
  <2>1. heap' = Linked' \cup Retired' /\ Linked' \cap Retired' = {}
    BY <1>2, <1>3, <1>18, <1>22, <1>23 DEF OnePlace
  <2>2. ASSUME NEW u \in Threads, NEW k \in Waiting(u)'
        PROVE  k \in Waiting(u) /\ release_list'[u][k].data = release_list[u][k].data
    BY <1>17, <1>19 DEF L
  <2>3. QED BY <1>2, <1>18, <2>1, <2>2 DEF OnePlace
<1>25. heap \ heap' = freed
  BY <1>2, <1>3, <1>22 DEF OnePlace
<1>26. BasicInv'
  BY <1>11, <1>16, <1>21, <1>24 DEF BasicInv, AccountsInv
<1>27. QED BY <1>18, <1>22, <1>23, <1>25, <1>26 DEF freed, L

\* The lists of the state, sorted, marked and swept.
StateList == [Entries -> [data : Blocks \cup {NULL}, status : 0..2]]

LEMMA StateLists ==
    ASSUME NEW L \in StateList, NEW P
    PROVE  L \in List /\ Sort(L) \in StateList /\ Marked(L, P) \in StateList /\ Swept(L) \in StateList
<1>1. L \in List
  <2>1. Blocks \cup {NULL} \subseteq Nat
    BY BlockAssumption DEF Blocks
  <2>2. QED BY <2>1 DEF StateList, List
<1>2. Sort(L) \in StateList
  <2>1. PICK p \in Bijection(Entries, Entries) : Sort(L) = [k \in Entries |-> L[p[k]]]
    BY <1>1, SortKeeps
  <2>2. \A k \in Entries : p[k] \in Entries
    BY <2>1 DEF Bijection, Injection
  <2>3. QED BY <2>1, <2>2 DEF StateList
<1>3. Marked(L, P) \in StateList /\ Swept(L) \in StateList
  BY DEF StateList, Marked, Swept, NoEntry
<1>4. QED BY <1>1, <1>2, <1>3

\* Nothing of a list that skiplist_delete scans is left but what was found.
LEMMA DeleteFacts ==
    ASSUME BasicInv, Delete
    PROVE  /\ \A t \in Threads : pc[t] = "idle" /\ victim[t] = NULL
           /\ deleted' /\ ~deleted
           /\ UNCHANGED <<cell, list, slots, current_rl_slot, pc, locals>>
           /\ release_list' \in [Threads -> StateList]
           /\ release_list_size' \in [Threads -> 0..RLMax]
           /\ heap' \subseteq heap \ Linked
           /\ \A t \in Threads : \A k \in Entries : release_list'[t][k].status # 0 =>
                \/ release_list'[t][k].data = NULL
                \/ /\ \E u \in registered, s \in Slots : release_list'[t][k].data = hp[u][s]
                   /\ release_list'[t][k].data \in Retired
           /\ heap' \ Linked \subseteq {hp[u][s] : u \in registered, s \in Slots}
<1> DEFINE pointers == {hp[t][s] : t \in registered, s \in Slots}
           S(t) == IF t \in registered THEN Marked(Sort(release_list[t]), pointers)
                   ELSE release_list[t]
           scanned == [t \in Threads |-> S(t)]
<1>1. TypeOK /\ ~deleted /\ \A t \in Threads : pc[t] = "idle" /\ victim[t] = NULL
  BY DEF BasicInv, CallsInv, CallInv, Delete
<1>2. OnePlace /\ \A t \in Threads : ReleaseInv(t) /\ ~Scanning(t)
  BY <1>1 DEF BasicInv, AccountsInv, Scanning
<1>3. /\ release_list' = [t \in Threads |-> Swept(scanned[t])]
      /\ release_list_size' =
           [t \in Threads |-> release_list_size[t] - Cardinality(Freed(scanned[t]))]
      /\ heap' = (heap \ {cell[c] : c \in Cells})
                   \ UNION {{scanned[t][k].data : k \in Freed(scanned[t])} : t \in Threads}
  BY DEF Delete, Remaining
<1>4. pointers \subseteq Blocks \cup {NULL} /\ Blocks \cup {NULL} \subseteq Nat
  BY <1>1, BlockAssumption DEF TypeOK, CallsInv, BasicInv, Blocks
<1> HIDE DEF pointers
<1>5. \A t \in Threads : scanned[t] = S(t) /\ release_list'[t] = Swept(S(t))
  BY <1>3
<1>6. ASSUME NEW t \in Threads
      PROVE  /\ S(t) \in StateList
             /\ Cardinality(Freed(S(t))) <= release_list_size[t]
             /\ Cardinality(Freed(S(t))) \in Nat
  <2>1. release_list[t] \in StateList
    BY <1>1 DEF TypeOK, StateList
  <2>2. S(t) \in StateList
    BY <2>1, StateLists
  <2>3. release_list_size[t] = Cardinality(Taken(release_list[t]))
    BY <1>1, <1>2, Lists DEF ReleaseInv
  <2>4. CASE t \in registered
    <3> DEFINE M == Sort(release_list[t])
    <3>1. M \in List /\ Cardinality(Taken(M)) = release_list_size[t] /\ S(t) = Marked(M, pointers)
      BY <2>1, <2>3, <2>4, StateLists, SortKeeps
    <3> HIDE DEF M
    <3>2. Freed(S(t)) \in SUBSET Taken(M) /\ Taken(M) \in SUBSET Entries
      BY <3>1, MarkedFacts DEF Freed, Taken
    <3>3. IsFiniteSet(Taken(M))
      BY <3>2, EntriesFinite, FS_Subset
    <3>4. IsFiniteSet(Freed(S(t))) /\ Cardinality(Freed(S(t))) <= Cardinality(Taken(M))
      BY <3>2, <3>3, FS_Subset
    <3>5. QED BY <2>2, <3>1, <3>4, FS_CardinalityType
  <2>5. CASE t \notin registered
    BY <2>1, <2>2, <2>3, <2>5, SweptFacts, StateLists
  <2>6. QED BY <2>4, <2>5
<1>7. release_list' \in [Threads -> StateList]
  <2>1. \A t \in Threads : Swept(S(t)) \in StateList
    BY <1>6, StateLists
  <2> HIDE DEF S
  <2>2. QED BY <1>3, <1>5, <2>1
<1>8. release_list_size' \in [Threads -> 0..RLMax]
  <2>1. \A t \in Threads : release_list_size[t] - Cardinality(Freed(S(t))) \in 0..RLMax
    BY <1>1, <1>6 DEF TypeOK
  <2>2. \A t \in Threads : scanned[t] = S(t)
    OBVIOUS
  <2> HIDE DEF S, scanned
  <2>3. QED BY <1>3, <2>1, <2>2
\* An entry not freed was found for a pointer of some thread.
<1>9. ASSUME NEW t \in Threads, NEW k \in Entries, S(t)[k].status = 2
      PROVE  t \in registered /\ S(t)[k].data \in pointers
  <2>1. t \in registered
    BY <1>2, <1>9 DEF ReleaseInv
  <2> DEFINE M == Sort(release_list[t])
  <2>2. M \in List /\ Sorted(M) /\ S(t) = Marked(M, pointers)
    BY <1>1, <2>1, Lists, SortKeeps
  <2>3. PICK p \in Bijection(Entries, Entries) : M = [j \in Entries |-> release_list[t][p[j]]]
    BY <1>1, Lists, SortKeeps
  <2>4. M[k].status # 2
    <3>1. p[k] \in Entries
      BY <2>3 DEF Bijection, Injection
    <3>2. release_list[t][p[k]].status # 2
      BY <1>2, <3>1 DEF ReleaseInv
    <3>3. QED BY <2>3, <3>2
  <2> HIDE DEF M
  <2>5. PICK q \in pointers : k = find_index_of_pointer(M, q)
    BY <1>9, <2>2, <2>4, MarkedFacts
  <2>6. q \in Nat /\ k # -1
    BY <1>4 DEF Entries
  <2>7. M[k].data = q
    BY <2>2, <2>5, <2>6, SearchIsRight
  <2>8. QED BY <2>1, <2>2, <2>5, <2>7, MarkedFacts
\* What a list holds after it is sorted and marked it held before.
<1>10. ASSUME NEW t \in Threads, NEW k \in Entries
       PROVE  \E j \in Entries : release_list[t][j].data = S(t)[k].data
  <2>1. CASE t \in registered
    <3>1. PICK p \in Bijection(Entries, Entries) :
             Sort(release_list[t]) = [j \in Entries |-> release_list[t][p[j]]]
      BY <1>1, Lists, SortKeeps
    <3>2. p[k] \in Entries /\ Sort(release_list[t])[k].data = release_list[t][p[k]].data
      BY <3>1 DEF Bijection, Injection
    <3>3. Sort(release_list[t]) \in List
      BY <1>1, Lists, SortKeeps
    <3>4. S(t)[k].data = Sort(release_list[t])[k].data
      BY <2>1, <3>3, MarkedFacts
    <3>5. QED BY <3>2, <3>4
  <2>2. CASE t \notin registered
    BY <2>2
  <2>3. QED BY <2>1, <2>2
<1>11. ASSUME NEW t \in Threads, NEW j \in Entries, release_list[t][j].data # NULL
       PROVE  \E k \in Entries : S(t)[k].data = release_list[t][j].data /\ S(t)[k].status # 0
  <2>0. release_list[t][j].status # 0
    BY <1>2, <1>11 DEF ReleaseInv, Waiting
  <2>1. CASE t \in registered
    <3>1. PICK p \in Bijection(Entries, Entries) :
             Sort(release_list[t]) = [m \in Entries |-> release_list[t][p[m]]]
      BY <1>1, Lists, SortKeeps
    <3>2. PICK k \in Entries : p[k] = j
      BY <3>1 DEF Bijection, Surjection
    <3>3. Sort(release_list[t]) \in List
      BY <1>1, Lists, SortKeeps
    <3>4. Sort(release_list[t])[k] = release_list[t][j]
      BY <3>1, <3>2
    <3>5. S(t)[k].data = release_list[t][j].data /\ S(t)[k].status # 0
      BY <2>0, <2>1, <3>3, <3>4, MarkedFacts
    <3>6. QED BY <3>5
  <2>2. CASE t \notin registered
    BY <2>0, <2>2
  <2>3. QED BY <2>1, <2>2
<1> HIDE DEF S, scanned
<1>12. ASSUME NEW t \in Threads, NEW k \in Entries, release_list'[t][k].status # 0
       PROVE  S(t)[k].status = 2 /\ release_list'[t][k].data = S(t)[k].data
  <2>1. PICK M : M = S(t)
    OBVIOUS
  <2>2. M \in List /\ release_list'[t] = Swept(M)
    BY <1>5, <1>6, <2>1, StateLists
  <2>3. /\ Swept(M)[k].status = (IF M[k].status = 2 THEN 1 ELSE 0)
        /\ M[k].status # 1 => Swept(M)[k].data = M[k].data
    BY <2>2, SweptFacts
  <2>4. QED BY <1>12, <2>1, <2>2, <2>3
<1>13. \A t \in Threads : \A k \in Entries : release_list'[t][k].status # 0 =>
         \/ release_list'[t][k].data = NULL
         \/ release_list'[t][k].data \in pointers /\ release_list'[t][k].data \in Retired
  <2>1. SUFFICES ASSUME NEW t \in Threads, NEW k \in Entries, release_list'[t][k].status # 0,
                        release_list'[t][k].data # NULL
                 PROVE  /\ release_list'[t][k].data \in pointers
                        /\ release_list'[t][k].data \in Retired
    OBVIOUS
  <2>2. release_list'[t][k].data = S(t)[k].data /\ S(t)[k].data \in pointers
    BY <1>9, <1>12, <2>1
  <2>3. PICK j \in Entries : release_list[t][j].data = S(t)[k].data
    BY <1>10
  <2>4. j \in Waiting(t)
    BY <1>2, <2>1, <2>2, <2>3 DEF ReleaseInv
  <2>5. release_list[t][j].data \in Retired
    BY <2>1, <2>2, <2>3, <2>4 DEF Retired
  <2>6. QED BY <2>2, <2>3, <2>5
<1>14. ASSUME NEW b \in heap' \ Linked PROVE b \in pointers
  <2>1. b \in Retired /\ b # NULL
    BY <1>2, <1>3, <1>14 DEF OnePlace, Retired
  <2>2. PICK t \in Threads, j \in Entries : j \in Waiting(t) /\ b = release_list[t][j].data
    BY <1>1, <2>1 DEF Retired, Waiting
  <2>3. PICK k \in Entries : S(t)[k].data = b /\ S(t)[k].status # 0
    BY <1>11, <2>1, <2>2 DEF Waiting
  <2>4. k \notin Freed(S(t))
    BY <1>3, <1>5, <1>14, <2>2, <2>3
  <2>5. S(t)[k].status = 2
    <3>1. S(t) \in StateList
      BY <1>6, <2>2
    <3>2. S(t)[k].status \in 0..2 /\ S(t)[k].status # 1
      BY <2>4, <3>1 DEF Freed, StateList
    <3>3. QED BY <2>3, <3>2
  <2>6. QED BY <1>9, <2>3, <2>5
<1>15. heap' \subseteq heap \ Linked
  BY <1>3 DEF Linked
<1>16. deleted' /\ UNCHANGED <<cell, list, slots, current_rl_slot, pc, locals>>
  BY DEF Delete
<1>17. QED
  BY <1>1, <1>7, <1>8, <1>13, <1>14, <1>15, <1>16 DEF pointers

LEMMA DeleteBasic ==
    ASSUME BasicInv, Delete
    PROVE  BasicInv'
<1>1. /\ \A t \in Threads : pc[t] = "idle"
      /\ deleted'
      /\ UNCHANGED <<cell, list, slots, current_rl_slot, pc, locals>>
      /\ release_list' \in [Threads -> StateList]
      /\ release_list_size' \in [Threads -> 0..RLMax]
      /\ heap' \subseteq heap
  BY DeleteFacts
<1>2. TypeOK /\ CallsInv
  BY DEF BasicInv
<1>3. TypeOK'
  BY <1>1, <1>2 DEF TypeOK, StateList, list, slots, locals
<1>4. \A t \in Threads : ThreadInv(t)' /\ CallInv(t)'
  BY <1>1, <1>2 DEF CallsInv, ThreadInv, CallInv, Scanning, list, slots, locals
<1>5. CallsInv'
  BY <1>1, <1>2, <1>4 DEF CallsInv, list
<1>6. QED BY <1>1, <1>3, <1>5 DEF BasicInv, AccountsInv

-----------------------------------------------------------------------------
(* The theorems.                                                           *)

LEMMA InitBasic ==
    ASSUME Init
    PROVE  BasicInv
<1>1. 0 \in Slots /\ RLMax - 1 \in Entries /\ -1 \in Slots \cup {-1}
  BY DEF Slots, Entries
<1>2. NoRequest \in Request
  <2>1. PICK c \in Cells : TRUE
    BY StartAssumption
  <2>2. [op |-> "set", cell |-> c, slot |-> 0, to |-> 0, pos |-> -1] \in Request
    BY <1>1 DEF Request, Ops
  <2>3. \E r \in Request : TRUE
    BY <2>2
  <2>4. QED BY <2>3, Zenon DEF NoRequest
<1>3. cell \in [Cells -> Blocks] /\ heap \subseteq Blocks
  BY StartAssumption DEF Init
<1>4. TypeOK
  <2>1. release_list \in [Threads -> [Entries -> [data : Blocks \cup {NULL}, status : 0..2]]]
    BY DEF Init, NoEntry
  <2>2. release_list_size \in [Threads -> 0..RLMax] /\ calls \in [Threads -> Nat]
    BY DEF Init
  <2>3. request \in [Threads -> Request] /\ pc \in [Threads -> PCs]
    BY <1>2 DEF Init, PCs
  <2>4. /\ hp \in [Threads -> [Slots -> Blocks \cup {NULL}]]
        /\ current_hp_slot \in [Threads -> Slots] /\ i \in [Threads -> Slots]
        /\ current_rl_slot \in [Threads -> Entries]
    BY <1>1 DEF Init
  <2>5. /\ value \in [Threads -> Blocks \cup {NULL}] /\ victim \in [Threads -> Blocks \cup {NULL}]
        /\ iter \in [Threads -> Threads \cup {NoThread}] /\ next \in [Threads -> Threads \cup {NoThread}]
        /\ first \in Threads \cup {NoThread} /\ registered \subseteq Threads /\ deleted \in BOOLEAN
        /\ straddled \subseteq Threads \X Slots
    BY DEF Init
  <2>6. QED BY <1>3, <2>1, <2>2, <2>3, <2>4, <2>5 DEF TypeOK
<1>5. CallsInv
  BY DEF Init, CallsInv, ThreadInv, CallInv, Scanning, NoHazards
<1>6. \A t \in Threads : Waiting(t) = {} /\ ~Scanning(t) /\ victim[t] = NULL
  BY DEF Init, Waiting, Scanning, NoEntry
<1>7. Linked = heap /\ Retired = {}
  BY <1>6 DEF Init, Linked, Retired
<1>8. OnePlace
  BY <1>6, <1>7, StartAssumption DEF OnePlace, Init
<1>9. ASSUME NEW t \in Threads PROVE ReleaseInv(t)
  <2>1. \A k \in Entries : release_list[t][k].data = NULL /\ release_list[t][k].status = 0
    BY DEF Init, NoEntry
  <2>2. release_list_size[t] = Cardinality(Waiting(t))
    BY <1>6, FS_EmptySet DEF Init
  <2>3. QED BY <1>6, <2>1, <2>2 DEF ReleaseInv
<1>10. QED
  BY <1>4, <1>5, <1>8, <1>9 DEF BasicInv, AccountsInv

LEMMA NextBasic ==
    ASSUME BasicInv, [Next]_vars
    PROVE  BasicInv'
<1>1. ASSUME NEW t \in Threads, NEW r \in Requests[t], Protect(t, r) PROVE BasicInv'
  BY <1>1, ProtectBasic
<1>2. ASSUME NEW t \in Threads, NEW p \in Blocks, Remove(t, p) PROVE BasicInv'
  BY <1>2, RemoveBasic
<1>3. ASSUME NEW t \in Threads, NEW c \in Cells, Retire(t, c) PROVE BasicInv'
  BY <1>3, RetireBasic
<1>4. ASSUME NEW t \in Threads, RemoveAll(t) PROVE BasicInv'
  BY <1>4, RemoveAllBasic
<1>5. ASSUME NEW t \in Threads, InitRead(t) \/ InitCas(t) PROVE BasicInv'
  BY <1>5, InitReadBasic, InitCasBasic
<1>6. ASSUME NEW t \in Threads, Peek(t) \/ Copy(t) \/ Reuse(t) PROVE BasicInv'
  BY <1>6, PeekBasic, CopyBasic, ReuseBasic
<1>7. ASSUME NEW t \in Threads, Search(t) \/ Read(t) \/ Store(t) \/ Check(t) PROVE BasicInv'
  BY <1>7, SearchBasic, ReadBasic, StoreBasic, CheckBasic
<1>8. ASSUME NEW t \in Threads, ClearSlot(t) \/ Free(t) PROVE BasicInv'
  BY <1>8, ClearSlotBasic, FreeBasic
<1>9. ASSUME NEW t \in Threads, ScanSlot(t) \/ Sweep(t) PROVE BasicInv'
  BY <1>9, ScanSlotBasic, SweepBasic
<1>10. CASE Delete
  BY <1>10, DeleteBasic
<1>11. CASE UNCHANGED vars
  <2>1. TypeOK' /\ CallsInv' /\ UNCHANGED <<client, victim, release_list, release_list_size, pc>>
    BY <1>11 DEF vars, client, list, slots, own, locals, BasicInv, TypeOK, CallsInv,
                 ThreadInv, CallInv, Scanning
  <2>2. AccountsInv'
    BY <2>1, StepAccounts DEF BasicInv, Scanning
  <2>3. QED BY <2>1, <2>2 DEF BasicInv
<1>12. QED
  BY <1>1, <1>2, <1>3, <1>4, <1>5, <1>6, <1>7, <1>8, <1>9, <1>10, <1>11
     DEF Next, Step, Terminated

\* What each call has in hand and where each block is, in every reachable state.
THEOREM BasicInvariance == Spec => []BasicInv
<1>1. Init => BasicInv
  BY InitBasic
<1>2. BasicInv /\ [Next]_vars => BasicInv'
  BY NextBasic
<1>3. QED BY <1>1, <1>2, PTL DEF Spec

\* Every variable of the hazard pointers keeps its type.
THEOREM TypeCorrect == Spec => []TypeOK
<1>1. BasicInv => TypeOK
  BY DEF BasicInv
<1>2. QED BY <1>1, BasicInvariance, PTL

\* Every block malloc has given out is in one place, and a list's size counts
\* what waits on it: hazard_pointer_free and its scans neither free a block
\* twice nor forget one.
THEOREM BlocksAccounted == Spec => []Accounted
<1>1. BasicInv => Accounted
  BY DEF BasicInv, AccountsInv, Accounted, OnePlace, ReleaseInv
<1>2. QED BY <1>1, BasicInvariance, PTL

\* During a scan the binary search of lines 21-35 finds exactly the pointers
\* in the release list.
THEOREM SearchesFind == Spec => []SearchFinds
<1>1. ASSUME BasicInv, NEW t \in Threads, pc[t] = "scan", NEW p \in Blocks
      PROVE  LET k == find_index_of_pointer(release_list[t], p)
             IN  IF k = -1 THEN \A j \in Entries : release_list[t][j].data # p
                 ELSE release_list[t][k].data = p
  <2>1. ~deleted /\ TypeOK
    BY <1>1, OwnFacts
  <2>2. release_list[t] \in List /\ Sorted(release_list[t])
    BY <1>1, <2>1, Lists DEF BasicInv, AccountsInv, ReleaseInv, Scanning
  <2>3. p \in Nat
    BY BlockAssumption DEF Blocks
  <2>4. \A k \in Entries : k # -1
    BY DEF Entries
  <2>5. QED BY <2>2, <2>3, <2>4, SearchIsRight
<1>2. BasicInv => SearchFinds
  BY <1>1 DEF SearchFinds
<1>3. QED BY <1>2, BasicInvariance, PTL

-----------------------------------------------------------------------------
(* The list of threads.                                                    *)

HIDE SizeAssumption DEF NULL

LEMMA RegisteredFinite ==
    ASSUME TypeOK
    PROVE  IsFiniteSet(registered) /\ Cardinality(registered) \in Nat
BY ThreadAssumption, FS_Subset, FS_CardinalityType DEF TypeOK

\* The places q of the next state agree with the places r of this one.
Extends(q, r) ==
    /\ registered \subseteq registered'
    /\ \A u \in registered : q[u] = r[u]
    /\ \A u \in registered' \ registered, v \in registered : q[u] > r[v]

LEMMA RanksKept ==
    ASSUME TypeOK, NEW r \in Ranks, first' = first, registered' = registered,
           \A u \in registered : next'[u] = next[u]
    PROVE  \E q \in Ranks' : Extends(q, r)
<1>1. r \in Ranks'
  BY DEF Ranks, Rank
<1>2. QED BY <1>1 DEF Extends

LEMMA InitCasRanks ==
    ASSUME BasicInv, NEW r \in Ranks, NEW t \in Threads, InitCas(t)
    PROVE  \E q \in Ranks' : Extends(q, r)
<1>1. TypeOK /\ ListClosed /\ t \notin registered
  BY OwnFacts DEF InitCas, ThreadInv
<1> DEFINE N == Cardinality(registered)
<1>2. /\ N \in Nat /\ IsFiniteSet(registered)
      /\ r \in [registered -> 1..N]
      /\ Rank(r, first) = N
      /\ \A u \in registered : Rank(r, next[u]) = r[u] - 1
      /\ \A u, v \in registered : r[u] = r[v] => u = v
  BY <1>1, RegisteredFinite DEF Ranks
<1>3. CASE UNCHANGED <<first, registered>>
  BY <1>1, <1>3, RanksKept DEF InitCas
<1>4. CASE first = next[t] /\ first' = t /\ registered' = registered \cup {t}
  <2>1. Cardinality(registered') = N + 1
    BY <1>1, <1>2, <1>4, FS_AddElement
  <2> HIDE DEF N
  <2> DEFINE q == [u \in registered \cup {t} |-> IF u = t THEN N + 1 ELSE r[u]]
  <2>2. q \in [registered' -> 1..Cardinality(registered')]
    BY <1>2, <1>4, <2>1
  <2>3. q[t] = N + 1 /\ \A u \in registered : q[u] = r[u] /\ r[u] \in 1..N
    BY <1>1, <1>2
  <2> HIDE DEF q
  <2>4. t # NoThread /\ NoThread \notin registered
    BY <1>1, ThreadAssumption DEF TypeOK
  <2>5. Rank(q, first') = Cardinality(registered')
    BY <1>4, <2>1, <2>3, <2>4 DEF Rank
  <2>6. next' = next
    BY DEF InitCas
  <2>7. \A u \in registered : Rank(q, next[u]) = q[u] - 1
    BY <1>1, <1>2, <2>3, <2>4 DEF Rank, ListClosed
  <2>8. Rank(q, next[t]) = q[t] - 1
    BY <1>1, <1>2, <1>4, <2>3, <2>4 DEF Rank, ListClosed
  <2>9. \A u, v \in registered' : q[u] = q[v] => u = v
    BY <1>2, <1>4, <2>3
  <2>10. \A u \in registered' : Rank(q, next'[u]) = q[u] - 1
    BY <1>4, <2>6, <2>7, <2>8
  <2>11. q \in Ranks'
    BY <2>2, <2>5, <2>9, <2>10 DEF Ranks, Rank
  <2>12. Extends(q, r)
    BY <1>2, <1>4, <2>3 DEF Extends
  <2>13. QED BY <2>11, <2>12
<1>5. QED BY <1>3, <1>4 DEF InitCas

\* Registering puts a thread before all others, and nothing else moves one.
LEMMA NextRanks ==
    ASSUME BasicInv, [Next]_vars, NEW r \in Ranks
    PROVE  \E q \in Ranks' : Extends(q, r)
<1>1. TypeOK
  BY DEF BasicInv
<1>2. CASE UNCHANGED list
  BY <1>1, <1>2, RanksKept DEF list
<1>3. ASSUME NEW t \in Threads, InitRead(t) PROVE \E q \in Ranks' : Extends(q, r)
  <2>1. t \notin registered /\ TypeOK /\ registered \subseteq Threads
    BY <1>3, OwnFacts DEF InitRead, ThreadInv
  <2>2. \A u \in registered : next'[u] = next[u]
    BY <1>3, <2>1 DEF InitRead, TypeOK
  <2>3. QED BY <1>3, <2>1, <2>2, RanksKept DEF InitRead
<1>4. ASSUME NEW t \in Threads, InitCas(t) PROVE \E q \in Ranks' : Extends(q, r)
  BY <1>4, InitCasRanks
<1>5. CASE Delete \/ UNCHANGED vars
  BY <1>2, <1>5 DEF Delete, vars
<1>6. ASSUME NEW t \in Threads, (\E x \in Requests[t] : Protect(t, x))
                                  \/ (\E p \in Blocks : Remove(t, p))
                                  \/ (\E c \in Cells : Retire(t, c)) \/ RemoveAll(t)
      PROVE  UNCHANGED list
  BY <1>6 DEF Protect, Remove, Retire, RemoveAll
<1>7. ASSUME NEW t \in Threads, Peek(t) \/ Copy(t) \/ Reuse(t) \/ Search(t)
                                  \/ Read(t) \/ Store(t) \/ Check(t)
                                  \/ ClearSlot(t) \/ Free(t) \/ ScanSlot(t) \/ Sweep(t)
      PROVE  UNCHANGED list
  BY <1>7 DEF Peek, Copy, Reuse, Search, Read, Store, Check, ClearSlot, Free, ScanSlot, Sweep
<1>8. QED
  BY <1>2, <1>3, <1>4, <1>5, <1>6, <1>7 DEF Next, Step, Terminated

\* The slots ahead of a scan that does not move.
LEMMA SameAhead ==
    ASSUME BasicInv, NEW t \in Threads, NEW r \in Ranks, NEW q \in Ranks', Extends(q, r),
           UNCHANGED <<pc[t], iter[t], i[t]>>
    PROVE  Ahead(q, t)' = Ahead(r, t)
<1>1. pc[t] = "scan" => iter[t] \in registered
  BY DEF BasicInv, CallsInv, ThreadInv
<1>2. \A u \in registered : r[u] \in Nat /\ q[u] = r[u]
  BY DEF Ranks, Extends
<1>3. \A u \in registered' \ registered : pc[t] = "scan" => q[u] > r[iter[t]] /\ u # iter[t]
  BY <1>1 DEF Extends
<1>4. \A u \in registered' : q[u] \in Nat
  BY DEF Ranks
<1>5. pc[t] # "scan" => Ahead(q, t)' = {} /\ Ahead(r, t) = {}
  BY DEF Ahead
<1>6. ASSUME pc[t] = "scan", NEW u, NEW s \in Slots
      PROVE  <<u, s>> \in Ahead(q, t)' <=> <<u, s>> \in Ahead(r, t)
  BY <1>1, <1>2, <1>3, <1>4, <1>6 DEF Ahead, Extends
<1>7. Ahead(q, t)' \subseteq registered' \X Slots /\ Ahead(r, t) \subseteq registered \X Slots
  BY DEF Ahead
<1>8. QED BY <1>5, <1>6, <1>7

-----------------------------------------------------------------------------
(* What a thread guards after a step of its calls is linked, or it guarded *)
(* the same block before, with this slot or with one no scan is between.   *)

GuardsFollow(t) ==
    /\ \A u \in Threads \ {t} : Guards(u)' = Guards(u)
    /\ \A s \in Slots :
         \/ Guards(t)'[s] \in Linked \cup {NULL}
         \/ \E z \in Slots : Guards(t)[z] = Guards(t)'[s] /\ (z = s \/ ~Straddles(t, z, s))

OthersGuard(t) ==
    /\ deleted' = deleted
    /\ \A u \in Threads \ {t} :
         /\ pc'[u] = pc[u] /\ request'[u] = request[u] /\ hp'[u] = hp[u]
         /\ value'[u] = value[u] /\ i'[u] = i[u] /\ iter'[u] = iter[u]
         /\ \A s \in Slots : <<u, s>> \in straddled' <=> <<u, s>> \in straddled

\* A slot that keeps its pointer, and is not just being set.
SameSlot(t, s) ==
    /\ hp'[t][s] = hp[t][s] /\ ~Setting(t, s)
    /\ <<t, s>> \in straddled => <<t, s>> \in straddled'

LEMMA GuardsAt ==
    ASSUME NEW t, NEW s \in Slots
    PROVE  /\ Guards(t)[s] = (IF deleted \/ Setting(t, s) \/ <<t, s>> \in straddled
                             THEN NULL ELSE hp[t][s])
           /\ Guards(t)'[s] = (IF deleted' \/ Setting(t, s)' \/ <<t, s>> \in straddled'
                              THEN NULL ELSE hp'[t][s])
BY DEF Guards

LEMMA OthersGuardTheSame ==
    ASSUME NEW t, OthersGuard(t)
    PROVE  \A u \in Threads \ {t} : Guards(u)' = Guards(u)
<1>1. SUFFICES ASSUME NEW u \in Threads \ {t}
               PROVE  Guards(u)' = Guards(u)
  OBVIOUS
<1>2. ASSUME NEW s \in Slots PROVE Guards(u)'[s] = Guards(u)[s]
  <2>1. Setting(u, s)' <=> Setting(u, s)
    BY DEF OthersGuard, Setting
  <2>2. /\ deleted' = deleted /\ hp'[u][s] = hp[u][s]
        /\ <<u, s>> \in straddled' <=> <<u, s>> \in straddled
    BY DEF OthersGuard
  <2>3. QED BY <2>1, <2>2, GuardsAt
<1>3. QED BY <1>2 DEF Guards

\* The slots that hold the same pointer and are not being set afterwards.
LEMMA GuardsStay ==
    ASSUME NEW t, OthersGuard(t),
           \A s \in Slots : \/ Setting(t, s)'
                          \/ hp'[t][s] \in Linked \cup {NULL}
                          \/ SameSlot(t, s)
    PROVE  GuardsFollow(t)
<1>1. SUFFICES ASSUME NEW s \in Slots
               PROVE  \/ Guards(t)'[s] \in Linked \cup {NULL}
                      \/ Guards(t)[s] = Guards(t)'[s]
  BY OthersGuardTheSame DEF GuardsFollow
<1>2. CASE deleted \/ Setting(t, s)' \/ <<t, s>> \in straddled'
  BY <1>2, GuardsAt DEF OthersGuard
<1>3. CASE ~deleted /\ ~Setting(t, s)' /\ <<t, s>> \notin straddled'
  BY <1>3, GuardsAt DEF OthersGuard, SameSlot
<1>4. QED BY <1>2, <1>3

\* A slot takes over what another one holds.
LEMMA GuardsCopied ==
    ASSUME NEW t, OthersGuard(t), NEW from \in Slots, NEW to \in Slots,
           NEW p, p = hp[t][from], CopySlot(t, from, to, p),
           hp \in [Threads -> [Slots -> Blocks \cup {NULL}]], t \in Threads,
           \A s : ~Setting(t, s)
    PROVE  GuardsFollow(t)
<1>1. SUFFICES ASSUME NEW s \in Slots
               PROVE  \/ Guards(t)'[s] = NULL
                      \/ Guards(t)[s] = Guards(t)'[s]
                      \/ /\ Guards(t)[from] = Guards(t)'[s] /\ ~Straddles(t, from, s)
  BY OthersGuardTheSame DEF GuardsFollow
<1>2. CASE deleted \/ Setting(t, s)' \/ <<t, s>> \in straddled'
  BY <1>2, GuardsAt DEF OthersGuard
<1>3. CASE ~(deleted \/ Setting(t, s)' \/ <<t, s>> \in straddled') /\ s # to
  <2>1. hp'[t][s] = hp[t][s] /\ <<t, s>> \notin straddled /\ ~deleted'
    BY <1>3 DEF CopySlot, OthersGuard
  <2>2. QED BY <1>3, <2>1, GuardsAt
<1>4. CASE ~(deleted \/ Setting(t, s)' \/ <<t, s>> \in straddled') /\ s = to
  <2>1. hp'[t][s] = hp[t][from] /\ ~deleted'
    BY <1>4 DEF CopySlot, OthersGuard
  <2>2. <<t, from>> \notin straddled /\ ~Straddles(t, from, s)
    BY <1>4 DEF CopySlot
  <2>3. QED BY <1>4, <2>1, <2>2, GuardsAt
<1>5. QED BY <1>2, <1>3, <1>4

LEMMA ProtectGuards ==
    ASSUME BasicInv, NEW t \in Threads, NEW r \in Requests[t], Protect(t, r)
    PROVE  OthersGuard(t) /\ (KnownInv(t) => GuardsFollow(t) /\ KnownInv(t)')
<1>1. TypeOK /\ ThreadInv(t) /\ CallInv(t)
  BY OwnFacts
<1>2. request[t] \in Request
  BY <1>1 DEF TypeOK
<1>3. OthersGuard(t)
  BY <1>1 DEF TypeOK, OthersGuard, Protect, Goto, SetSlot, StartClear, client, slots, locals
<1> SUFFICES ASSUME KnownInv(t) PROVE GuardsFollow(t) /\ KnownInv(t)'
  BY <1>3
<1>4. GuardsFollow(t)
  <2>1. \A s \in Slots : \/ Setting(t, s)'
                       \/ hp'[t][s] \in Linked \cup {NULL}
                       \/ SameSlot(t, s)
    BY <1>1, <1>2 DEF TypeOK, Protect, Goto, SetSlot, StartClear, Setting, SameSlot, Slots, slots, locals, KnownInv, CallInv, Moves, Checks
  <2>2. QED BY <1>3, <2>1, GuardsStay
<1>5. KnownInv(t)'
  <2>1. (Moves(r) /\ Checks(r) => r.to # r.pos) /\ r \in Request
    BY RequestAssumption
  <2>2. request'[t] = r /\ value'[t] = value[t] /\ value[t] = NULL
    BY <1>1 DEF TypeOK, Protect, CallInv
  <2>3. pc'[t] = "copy" => Moves(r)
    BY <1>1 DEF TypeOK, Protect, Goto, Entry
  <2>4. QED BY <2>1, <2>2, <2>3 DEF KnownInv
<1>6. QED BY <1>4, <1>5

LEMMA InitReadGuards ==
    ASSUME BasicInv, NEW t \in Threads, InitRead(t)
    PROVE  OthersGuard(t) /\ (KnownInv(t) => GuardsFollow(t) /\ KnownInv(t)')
<1>1. TypeOK /\ ThreadInv(t) /\ CallInv(t)
  BY OwnFacts
<1>2. request[t] \in Request
  BY <1>1 DEF TypeOK
<1>3. OthersGuard(t)
  BY <1>1 DEF TypeOK, OthersGuard, InitRead, Goto, SetSlot, StartClear, client, slots, locals
<1> SUFFICES ASSUME KnownInv(t) PROVE GuardsFollow(t) /\ KnownInv(t)'
  BY <1>3
<1>4. GuardsFollow(t)
  <2>1. \A s \in Slots : \/ Setting(t, s)'
                       \/ hp'[t][s] \in Linked \cup {NULL}
                       \/ SameSlot(t, s)
    BY <1>1, <1>2 DEF TypeOK, InitRead, Goto, SetSlot, StartClear, Setting, SameSlot, Slots, slots, locals, KnownInv, CallInv, Moves, Checks
  <2>2. QED BY <1>3, <2>1, GuardsStay
<1>5. KnownInv(t)'
  BY <1>1, <1>2 DEF TypeOK, InitRead, Goto, SetSlot, StartClear, slots, locals, KnownInv, CallInv, Moves, Checks
<1>6. QED BY <1>4, <1>5

LEMMA InitCasGuards ==
    ASSUME BasicInv, NEW t \in Threads, InitCas(t)
    PROVE  OthersGuard(t) /\ (KnownInv(t) => GuardsFollow(t) /\ KnownInv(t)')
<1>1. TypeOK /\ ThreadInv(t) /\ CallInv(t)
  BY OwnFacts
<1>2. request[t] \in Request
  BY <1>1 DEF TypeOK
<1>3. OthersGuard(t)
  BY <1>1 DEF TypeOK, OthersGuard, InitCas, Goto, SetSlot, StartClear, client, slots, locals
<1> SUFFICES ASSUME KnownInv(t) PROVE GuardsFollow(t) /\ KnownInv(t)'
  BY <1>3
<1>4. GuardsFollow(t)
  <2>1. \A s \in Slots : \/ Setting(t, s)'
                       \/ hp'[t][s] \in Linked \cup {NULL}
                       \/ SameSlot(t, s)
    BY <1>1, <1>2 DEF TypeOK, InitCas, Goto, SetSlot, StartClear, Setting, SameSlot, Slots, slots, locals, KnownInv, CallInv, Moves, Checks
  <2>2. QED BY <1>3, <2>1, GuardsStay
<1>5. KnownInv(t)'
  <2>1. request'[t] = request[t] /\ value'[t] = value[t] /\ value[t] = NULL
    BY <1>1 DEF InitCas, CallInv, locals
  <2>2. Moves(request[t]) /\ Checks(request[t]) => request[t].to # request[t].pos
    BY DEF InitCas, KnownInv
  <2>3. pc'[t] = "copy" => Moves(request[t])
    BY <1>1 DEF TypeOK, InitCas, Goto, Entry
  <2>4. QED BY <2>1, <2>2, <2>3 DEF KnownInv
<1>6. QED BY <1>4, <1>5

LEMMA PeekGuards ==
    ASSUME BasicInv, NEW t \in Threads, Peek(t)
    PROVE  OthersGuard(t) /\ (KnownInv(t) => GuardsFollow(t) /\ KnownInv(t)')
<1>1. TypeOK /\ ThreadInv(t) /\ CallInv(t)
  BY OwnFacts
<1>2. request[t] \in Request
  BY <1>1 DEF TypeOK
<1>3. OthersGuard(t)
  BY <1>1 DEF TypeOK, OthersGuard, Peek, Goto, SetSlot, StartClear, client, slots, locals
<1> SUFFICES ASSUME KnownInv(t) PROVE GuardsFollow(t) /\ KnownInv(t)'
  BY <1>3
<1>4. GuardsFollow(t)
  <2>1. \A s \in Slots : \/ Setting(t, s)'
                       \/ hp'[t][s] \in Linked \cup {NULL}
                       \/ SameSlot(t, s)
    BY <1>1, <1>2 DEF TypeOK, Peek, Goto, SetSlot, StartClear, Setting, SameSlot, Slots, slots, locals, KnownInv, CallInv, Moves, Checks
  <2>2. QED BY <1>3, <2>1, GuardsStay
<1>5. KnownInv(t)'
  BY <1>1, <1>2 DEF TypeOK, Peek, Goto, SetSlot, StartClear, slots, locals, KnownInv, CallInv, Moves, Checks
<1>6. QED BY <1>4, <1>5

LEMMA CopyGuards ==
    ASSUME BasicInv, NEW t \in Threads, Copy(t)
    PROVE  OthersGuard(t) /\ (KnownInv(t) => GuardsFollow(t) /\ KnownInv(t)')
<1>1. TypeOK /\ ThreadInv(t) /\ CallInv(t)
  BY OwnFacts
<1>2. request[t] \in Request
  BY <1>1 DEF TypeOK
<1>3. OthersGuard(t)
  BY <1>1 DEF TypeOK, OthersGuard, Copy, Goto, CopySlot, StartClear, client, slots, locals
<1> SUFFICES ASSUME KnownInv(t) PROVE GuardsFollow(t) /\ KnownInv(t)'
  BY <1>3
<1>4. GuardsFollow(t)
  <2>1. request[t].slot \in Slots /\ request[t].to \in Slots
    BY <1>2 DEF Request
  <2>2. CopySlot(t, request[t].slot, request[t].to, hp[t][request[t].slot])
    BY DEF Copy
  <2>3. \A s : ~Setting(t, s)
    BY DEF Copy, Setting
  <2>4. QED BY <1>1, <1>3, <2>1, <2>2, <2>3, GuardsCopied DEF TypeOK
<1>5. KnownInv(t)'
  <2>1. request' = request /\ value' = value /\ pc'[t] \in {"reuse", "read"}
    BY <1>1 DEF TypeOK, Copy, Goto, locals
  <2>2. ASSUME value[t] # NULL PROVE hp'[t][request[t].pos] = value[t]
    <3> DEFINE x == request[t]
    <3>1. /\ Moves(x) /\ Checks(x) /\ x.to # x.pos /\ hp[t][x.pos] = value[t]
      BY <1>1, <2>2 DEF Copy, KnownInv, CallInv
    <3>2. x.slot \in Slots /\ x.to \in Slots /\ x.pos \in Slots
      BY <1>2, <3>1 DEF Request, Checks, Slots
    <3>3. hp'[t] = [hp[t] EXCEPT ![x.to] = hp[t][x.slot]]
      BY <1>1 DEF TypeOK, Copy, CopySlot
    <3>4. hp[t] \in [Slots -> Blocks \cup {NULL}]
      BY <1>1 DEF TypeOK
    <3> HIDE DEF x
    <3>5. hp'[t][x.pos] = value[t]
      BY <3>1, <3>2, <3>3, <3>4
    <3>6. QED BY <3>5 DEF x
  <2>3. QED BY <2>1, <2>2 DEF KnownInv
<1>6. QED BY <1>4, <1>5

LEMMA ReuseGuards ==
    ASSUME BasicInv, NEW t \in Threads, Reuse(t)
    PROVE  OthersGuard(t) /\ (KnownInv(t) => GuardsFollow(t) /\ KnownInv(t)')
<1>1. TypeOK /\ ThreadInv(t) /\ CallInv(t)
  BY OwnFacts
<1>2. request[t] \in Request
  BY <1>1 DEF TypeOK
<1>3. OthersGuard(t)
  BY <1>1 DEF TypeOK, OthersGuard, Reuse, Goto, CopySlot, StartClear, client, slots, locals
<1> SUFFICES ASSUME KnownInv(t) PROVE GuardsFollow(t) /\ KnownInv(t)'
  BY <1>3
<1>4. GuardsFollow(t)
  <2>1. /\ request[t].slot \in Slots /\ request[t].pos \in Slots
        /\ value[t] = hp[t][request[t].pos]
    BY <1>1, <1>2 DEF Reuse, KnownInv, CallInv, Checks, Request, Slots
  <2>2. CopySlot(t, request[t].pos, request[t].slot, value[t])
    BY DEF Reuse
  <2>3. \A s : ~Setting(t, s)
    BY DEF Reuse, Setting
  <2>4. QED BY <1>1, <1>3, <2>1, <2>2, <2>3, GuardsCopied DEF TypeOK
<1>5. KnownInv(t)'
  BY <1>1, <1>2 DEF TypeOK, Reuse, Goto, CopySlot, StartClear, slots, locals, KnownInv, CallInv, Moves, Checks
<1>6. QED BY <1>4, <1>5

LEMMA SearchGuards ==
    ASSUME BasicInv, NEW t \in Threads, Search(t)
    PROVE  OthersGuard(t) /\ (KnownInv(t) => GuardsFollow(t) /\ KnownInv(t)')
<1>1. TypeOK /\ ThreadInv(t) /\ CallInv(t)
  BY OwnFacts
<1>2. request[t] \in Request
  BY <1>1 DEF TypeOK
<1>3. OthersGuard(t)
  BY <1>1 DEF TypeOK, OthersGuard, Search, Goto, SetSlot, StartClear, client, slots, locals
<1> SUFFICES ASSUME KnownInv(t) PROVE GuardsFollow(t) /\ KnownInv(t)'
  BY <1>3
<1>4. GuardsFollow(t)
  <2>1. \A s \in Slots : \/ Setting(t, s)'
                       \/ hp'[t][s] \in Linked \cup {NULL}
                       \/ SameSlot(t, s)
    BY <1>1, <1>2 DEF TypeOK, Search, Goto, SetSlot, StartClear, Setting, SameSlot, Slots, slots, locals, KnownInv, CallInv, Moves, Checks
  <2>2. QED BY <1>3, <2>1, GuardsStay
<1>5. KnownInv(t)'
  BY <1>1, <1>2 DEF TypeOK, Search, Goto, SetSlot, StartClear, slots, locals, KnownInv, CallInv, Moves, Checks
<1>6. QED BY <1>4, <1>5

LEMMA ReadGuards ==
    ASSUME BasicInv, NEW t \in Threads, Read(t)
    PROVE  OthersGuard(t) /\ (KnownInv(t) => GuardsFollow(t) /\ KnownInv(t)')
<1>1. TypeOK /\ ThreadInv(t) /\ CallInv(t)
  BY OwnFacts
<1>2. request[t] \in Request
  BY <1>1 DEF TypeOK
<1>3. OthersGuard(t)
  BY <1>1 DEF TypeOK, OthersGuard, Read, Goto, SetSlot, StartClear, client, slots, locals
<1> SUFFICES ASSUME KnownInv(t) PROVE GuardsFollow(t) /\ KnownInv(t)'
  BY <1>3
<1>4. GuardsFollow(t)
  <2>1. \A s \in Slots : \/ Setting(t, s)'
                       \/ hp'[t][s] \in Linked \cup {NULL}
                       \/ SameSlot(t, s)
    BY <1>1, <1>2 DEF TypeOK, Read, Goto, SetSlot, StartClear, Setting, SameSlot, Slots, slots, locals, KnownInv, CallInv, Moves, Checks
  <2>2. QED BY <1>3, <2>1, GuardsStay
<1>5. KnownInv(t)'
  BY <1>1, <1>2 DEF TypeOK, Read, Goto, SetSlot, StartClear, slots, locals, KnownInv, CallInv, Moves, Checks
<1>6. QED BY <1>4, <1>5

LEMMA StoreGuards ==
    ASSUME BasicInv, NEW t \in Threads, Store(t)
    PROVE  OthersGuard(t) /\ (KnownInv(t) => GuardsFollow(t) /\ KnownInv(t)')
<1>1. TypeOK /\ ThreadInv(t) /\ CallInv(t)
  BY OwnFacts
<1>2. request[t] \in Request
  BY <1>1 DEF TypeOK
<1>3. OthersGuard(t)
  BY <1>1 DEF TypeOK, OthersGuard, Store, Goto, SetSlot, StartClear, client, slots, locals
<1> SUFFICES ASSUME KnownInv(t) PROVE GuardsFollow(t) /\ KnownInv(t)'
  BY <1>3
<1>4. GuardsFollow(t)
  <2>1. \A s \in Slots : \/ Setting(t, s)'
                       \/ hp'[t][s] \in Linked \cup {NULL}
                       \/ SameSlot(t, s)
    BY <1>1, <1>2 DEF TypeOK, Store, Goto, SetSlot, StartClear, Setting, SameSlot, Slots, slots, locals, KnownInv, CallInv, Moves, Checks
  <2>2. QED BY <1>3, <2>1, GuardsStay
<1>5. KnownInv(t)'
  BY <1>1, <1>2 DEF TypeOK, Store, Goto, SetSlot, StartClear, slots, locals, KnownInv, CallInv, Moves, Checks
<1>6. QED BY <1>4, <1>5

LEMMA CheckGuards ==
    ASSUME BasicInv, NEW t \in Threads, Check(t)
    PROVE  OthersGuard(t) /\ (KnownInv(t) => GuardsFollow(t) /\ KnownInv(t)')
<1>1. TypeOK /\ ThreadInv(t) /\ CallInv(t)
  BY OwnFacts
<1>2. request[t] \in Request
  BY <1>1 DEF TypeOK
<1>3. OthersGuard(t)
  BY <1>1 DEF TypeOK, OthersGuard, Check, Goto, SetSlot, StartClear, client, slots, locals
<1> SUFFICES ASSUME KnownInv(t) PROVE GuardsFollow(t) /\ KnownInv(t)'
  BY <1>3
<1>4. GuardsFollow(t)
  <2>1. /\ hp' = hp /\ request' = request /\ straddled' = straddled
        /\ pc'[t] = (IF Validated(t) THEN "idle" ELSE "read")
        /\ \A s : Setting(t, s) <=> s = request[t].slot
    BY <1>1 DEF TypeOK, Check, Goto, Setting, locals
  <2>2. Validated(t) => hp[t][request[t].slot] \in Linked
    BY <1>2 DEF Validated, Linked, Request
  <2>3. ~Validated(t) => Setting(t, request[t].slot)'
    BY <2>1 DEF Setting
  <2>4. ASSUME NEW s \in Slots
        PROVE  \/ Setting(t, s)'
               \/ hp'[t][s] \in Linked \cup {NULL}
               \/ SameSlot(t, s)
    BY <2>1, <2>2, <2>3 DEF SameSlot
  <2>5. QED BY <1>3, <2>4, GuardsStay
<1>5. KnownInv(t)'
  BY <1>1, <1>2 DEF TypeOK, Check, Goto, SetSlot, StartClear, slots, locals, KnownInv, CallInv, Moves, Checks
<1>6. QED BY <1>4, <1>5

LEMMA RemoveGuards ==
    ASSUME BasicInv, NEW t \in Threads, NEW p \in Blocks, Remove(t, p)
    PROVE  OthersGuard(t) /\ (KnownInv(t) => GuardsFollow(t) /\ KnownInv(t)')
<1>1. TypeOK /\ ThreadInv(t) /\ CallInv(t)
  BY OwnFacts
<1>2. request[t] \in Request
  BY <1>1 DEF TypeOK
<1>3. OthersGuard(t)
  BY <1>1 DEF TypeOK, OthersGuard, Remove, Goto, SetSlot, StartClear, client, slots, locals
<1> SUFFICES ASSUME KnownInv(t) PROVE GuardsFollow(t) /\ KnownInv(t)'
  BY <1>3
<1>4. GuardsFollow(t)
  <2>1. \A s \in Slots : \/ Setting(t, s)'
                       \/ hp'[t][s] \in Linked \cup {NULL}
                       \/ SameSlot(t, s)
    <3>1. PICK z : SetSlot(t, z, NULL)
      BY DEF Remove
    <3>2. ASSUME NEW s \in Slots, s # z PROVE SameSlot(t, s)
      BY <1>1, <3>1, <3>2 DEF TypeOK, Remove, SetSlot, Setting, SameSlot
    <3>3. z \in Slots => hp'[t][z] = NULL
      BY <1>1, <3>1 DEF TypeOK, SetSlot
    <3>4. QED BY <3>2, <3>3
  <2>2. QED BY <1>3, <2>1, GuardsStay
<1>5. KnownInv(t)'
  BY <1>1, <1>2 DEF TypeOK, Remove, Goto, SetSlot, StartClear, slots, locals, KnownInv, CallInv, Moves, Checks
<1>6. QED BY <1>4, <1>5

LEMMA RemoveAllGuards ==
    ASSUME BasicInv, NEW t \in Threads, RemoveAll(t)
    PROVE  OthersGuard(t) /\ (KnownInv(t) => GuardsFollow(t) /\ KnownInv(t)')
<1>1. TypeOK /\ ThreadInv(t) /\ CallInv(t)
  BY OwnFacts
<1>2. request[t] \in Request
  BY <1>1 DEF TypeOK
<1>3. OthersGuard(t)
  BY <1>1 DEF TypeOK, OthersGuard, RemoveAll, Goto, SetSlot, StartClear, client, slots, locals
<1> SUFFICES ASSUME KnownInv(t) PROVE GuardsFollow(t) /\ KnownInv(t)'
  BY <1>3
<1>4. GuardsFollow(t)
  <2>1. \A s \in Slots : \/ Setting(t, s)'
                       \/ hp'[t][s] \in Linked \cup {NULL}
                       \/ SameSlot(t, s)
    BY <1>1, <1>2 DEF TypeOK, RemoveAll, Goto, SetSlot, StartClear, Setting, SameSlot, Slots, slots, locals, KnownInv, CallInv, Moves, Checks
  <2>2. QED BY <1>3, <2>1, GuardsStay
<1>5. KnownInv(t)'
  BY <1>1, <1>2 DEF TypeOK, RemoveAll, Goto, SetSlot, StartClear, slots, locals, KnownInv, CallInv, Moves, Checks
<1>6. QED BY <1>4, <1>5

LEMMA RetireGuards ==
    ASSUME BasicInv, NEW t \in Threads, NEW c \in Cells, Retire(t, c)
    PROVE  OthersGuard(t) /\ (KnownInv(t) => GuardsFollow(t) /\ KnownInv(t)')
<1>1. TypeOK /\ ThreadInv(t) /\ CallInv(t)
  BY OwnFacts
<1>2. request[t] \in Request
  BY <1>1 DEF TypeOK
<1>3. OthersGuard(t)
  BY <1>1 DEF TypeOK, OthersGuard, Retire, Goto, SetSlot, StartClear, client, slots, locals
<1> SUFFICES ASSUME KnownInv(t) PROVE GuardsFollow(t) /\ KnownInv(t)'
  BY <1>3
<1>4. GuardsFollow(t)
  <2>1. \A s \in Slots : \/ Setting(t, s)'
                       \/ hp'[t][s] \in Linked \cup {NULL}
                       \/ SameSlot(t, s)
    BY <1>1, <1>2 DEF TypeOK, Retire, Goto, SetSlot, StartClear, Setting, SameSlot, Slots, slots, locals, KnownInv, CallInv, Moves, Checks
  <2>2. QED BY <1>3, <2>1, GuardsStay
<1>5. KnownInv(t)'
  BY <1>1, <1>2 DEF TypeOK, Retire, Goto, SetSlot, StartClear, slots, locals, KnownInv, CallInv, Moves, Checks
<1>6. QED BY <1>4, <1>5

LEMMA ClearSlotGuards ==
    ASSUME BasicInv, NEW t \in Threads, ClearSlot(t)
    PROVE  OthersGuard(t) /\ (KnownInv(t) => GuardsFollow(t) /\ KnownInv(t)')
<1>1. TypeOK /\ ThreadInv(t) /\ CallInv(t)
  BY OwnFacts
<1>2. request[t] \in Request
  BY <1>1 DEF TypeOK
<1>3. OthersGuard(t)
  BY <1>1 DEF TypeOK, OthersGuard, ClearSlot, Goto, SetSlot, StartClear, client, slots, locals
<1> SUFFICES ASSUME KnownInv(t) PROVE GuardsFollow(t) /\ KnownInv(t)'
  BY <1>3
<1>4. GuardsFollow(t)
  <2>1. \A s \in Slots : \/ Setting(t, s)'
                       \/ hp'[t][s] \in Linked \cup {NULL}
                       \/ SameSlot(t, s)
    <3>1. /\ pc[t] = "clear" /\ i[t] \in Slots /\ hp \in [Threads -> [Slots -> Blocks \cup {NULL}]]
          /\ hp' = [hp EXCEPT ![t][i[t]] = NULL] /\ straddled' = straddled \ {<<t, i[t]>>}
      BY <1>1 DEF TypeOK, ClearSlot, SetSlot, Slots
    <3>2. hp'[t][i[t]] = NULL /\ \A s \in Slots \ {i[t]} : hp'[t][s] = hp[t][s]
      BY <3>1
    <3>3. \A s \in Slots : ~Setting(t, s)
      BY <3>1 DEF Setting
    <3>4. \A s \in Slots \ {i[t]} : <<t, s>> \in straddled => <<t, s>> \in straddled'
      BY <3>1
    <3>5. QED BY <3>2, <3>3, <3>4 DEF SameSlot
  <2>2. QED BY <1>3, <2>1, GuardsStay
<1>5. KnownInv(t)'
  BY <1>1, <1>2 DEF TypeOK, ClearSlot, Goto, SetSlot, StartClear, slots, locals, KnownInv, CallInv, Moves, Checks
<1>6. QED BY <1>4, <1>5

LEMMA FreeGuards ==
    ASSUME BasicInv, NEW t \in Threads, Free(t)
    PROVE  OthersGuard(t) /\ (KnownInv(t) => GuardsFollow(t) /\ KnownInv(t)')
<1>1. TypeOK /\ ThreadInv(t) /\ CallInv(t)
  BY OwnFacts
<1>2. request[t] \in Request
  BY <1>1 DEF TypeOK
<1>3. OthersGuard(t)
  BY <1>1 DEF TypeOK, OthersGuard, Free, Goto, SetSlot, StartClear, client, slots, locals
<1> SUFFICES ASSUME KnownInv(t) PROVE GuardsFollow(t) /\ KnownInv(t)'
  BY <1>3
<1>4. GuardsFollow(t)
  <2>1. \A s \in Slots : \/ Setting(t, s)'
                       \/ hp'[t][s] \in Linked \cup {NULL}
                       \/ SameSlot(t, s)
    BY <1>1, <1>2 DEF TypeOK, Free, Goto, SetSlot, StartClear, Setting, SameSlot, Slots, slots, locals, KnownInv, CallInv, Moves, Checks
  <2>2. QED BY <1>3, <2>1, GuardsStay
<1>5. KnownInv(t)'
  BY <1>1, <1>2 DEF TypeOK, Free, Goto, SetSlot, StartClear, slots, locals, KnownInv, CallInv, Moves, Checks
<1>6. QED BY <1>4, <1>5

LEMMA ScanSlotGuards ==
    ASSUME BasicInv, NEW t \in Threads, ScanSlot(t)
    PROVE  OthersGuard(t) /\ (KnownInv(t) => GuardsFollow(t) /\ KnownInv(t)')
<1>1. TypeOK /\ ThreadInv(t) /\ CallInv(t)
  BY OwnFacts
<1>2. request[t] \in Request
  BY <1>1 DEF TypeOK
<1>3. OthersGuard(t)
  BY <1>1 DEF TypeOK, OthersGuard, ScanSlot, Goto, SetSlot, StartClear, client, slots, locals
<1> SUFFICES ASSUME KnownInv(t) PROVE GuardsFollow(t) /\ KnownInv(t)'
  BY <1>3
<1>4. GuardsFollow(t)
  <2>1. \A s \in Slots : \/ Setting(t, s)'
                       \/ hp'[t][s] \in Linked \cup {NULL}
                       \/ SameSlot(t, s)
    BY <1>1, <1>2 DEF TypeOK, ScanSlot, Goto, SetSlot, StartClear, Setting, SameSlot, Slots, slots, locals, KnownInv, CallInv, Moves, Checks
  <2>2. QED BY <1>3, <2>1, GuardsStay
<1>5. KnownInv(t)'
  BY <1>1, <1>2 DEF TypeOK, ScanSlot, Goto, SetSlot, StartClear, slots, locals, KnownInv, CallInv, Moves, Checks
<1>6. QED BY <1>4, <1>5

LEMMA SweepGuards ==
    ASSUME BasicInv, NEW t \in Threads, Sweep(t)
    PROVE  OthersGuard(t) /\ (KnownInv(t) => GuardsFollow(t) /\ KnownInv(t)')
<1>1. TypeOK /\ ThreadInv(t) /\ CallInv(t)
  BY OwnFacts
<1>2. request[t] \in Request
  BY <1>1 DEF TypeOK
<1>3. OthersGuard(t)
  BY <1>1 DEF TypeOK, OthersGuard, Sweep, Goto, SetSlot, StartClear, client, slots, locals
<1> SUFFICES ASSUME KnownInv(t) PROVE GuardsFollow(t) /\ KnownInv(t)'
  BY <1>3
<1>4. GuardsFollow(t)
  <2>1. \A s \in Slots : \/ Setting(t, s)'
                       \/ hp'[t][s] \in Linked \cup {NULL}
                       \/ SameSlot(t, s)
    BY <1>1, <1>2 DEF TypeOK, Sweep, Goto, SetSlot, StartClear, Setting, SameSlot, Slots, slots, locals, KnownInv, CallInv, Moves, Checks
  <2>2. QED BY <1>3, <2>1, GuardsStay
<1>5. KnownInv(t)'
  BY <1>1, <1>2 DEF TypeOK, Sweep, Goto, SetSlot, StartClear, slots, locals, KnownInv, CallInv, Moves, Checks
<1>6. QED BY <1>4, <1>5

-----------------------------------------------------------------------------
(* A step of t leaves what the scans of the others have still to do alone. *)

LEMMA GuardKept ==
    ASSUME BasicInv, ~deleted, NEW w \in Threads,
           NEW r \in Ranks, NEW q \in Ranks', Extends(q, r),
           UNCHANGED <<pc[w], iter[w], i[w], release_list[w]>>, GuardInv(r, w),
           NEW t \in Threads, GuardsFollow(t)
    PROVE  GuardInv(q, w)'
<1>1. Ahead(q, w)' = Ahead(r, w)
  BY SameAhead
<1>2. SUFFICES ASSUME Scanning(w), NEW k \in Entries, NEW u \in Threads, NEW s \in Slots,
                      release_list[w][k].status = 1,
                      Guards(u)'[s] = release_list[w][k].data
               PROVE  <<u, s>> \in Ahead(r, w)
  BY <1>1 DEF GuardInv, Scanning
<1>3. release_list[w][k].data \notin Linked \cup {NULL}
  <2>1. k \in Waiting(w) /\ ReleaseInv(w) /\ Linked \cap Retired = {}
    BY <1>2 DEF BasicInv, AccountsInv, OnePlace, Waiting
  <2>2. release_list[w][k].data # NULL
    BY <2>1, WaitingBlocks
  <2>3. release_list[w][k].data \in Retired
    BY <2>1, <2>2 DEF Retired
  <2>4. QED BY <2>1, <2>2, <2>3
<1>4. i[w] \in Slots /\ release_list[w][k] \in [data : Blocks \cup {NULL}, status : 0..2]
  BY DEF BasicInv, TypeOK
<1>5. CASE Guards(u)[s] = release_list[w][k].data
  BY <1>2, <1>5 DEF GuardInv
<1>6. CASE u = t /\ Guards(u)[s] # release_list[w][k].data
  <2>1. PICK z \in Slots : Guards(t)[z] = release_list[w][k].data /\ ~Straddles(t, z, s)
    BY <1>2, <1>3, <1>6 DEF GuardsFollow
  <2>2. <<t, z>> \in Ahead(r, w)
    BY <1>2, <2>1 DEF GuardInv
  <2>3. /\ t \in registered /\ pc[w] = "scan"
        /\ r[t] < r[iter[w]] \/ (t = iter[w] /\ z >= i[w])
    BY <2>2 DEF Ahead
  <2>4. hp[t][z] = release_list[w][k].data
    BY <1>3, <2>1, GuardsAt
  <2>5. release_list[w][k] = [data |-> hp[t][z], status |-> 1]
    BY <1>2, <1>4, <2>4
  <2>6. ~(iter[w] = t /\ s < i[w] /\ i[w] <= z)
    BY <2>1, <2>3, <2>5 DEF Straddles
  <2>7. t = iter[w] /\ z >= i[w] => s >= i[w]
    BY <1>4, <2>6 DEF Slots
  <2>8. QED BY <1>6, <2>3, <2>7 DEF Ahead
<1>7. QED BY <1>2, <1>5, <1>6 DEF GuardsFollow

\* What a scan needs to know of the states before and after.
ScanStep(t, r, q) ==
    /\ BasicInv /\ ~deleted
    /\ t \in Threads /\ r \in Ranks /\ q \in Ranks' /\ Extends(q, r)
    /\ OthersGuard(t)
    /\ \A w \in Threads \ {t} : release_list'[w] = release_list[w]
    /\ \A w \in Threads : ScanInv(r, w)
    /\ GuardsFollow(t) /\ KnownInv(t)'

LEMMA OtherScans ==
    ASSUME NEW t \in Threads, NEW r, NEW q, ScanStep(t, r, q), NEW w \in Threads \ {t}
    PROVE  ScanInv(q, w)'
<1>1. /\ BasicInv /\ ~deleted /\ r \in Ranks /\ q \in Ranks' /\ Extends(q, r)
      /\ UNCHANGED <<pc[w], iter[w], i[w], release_list[w], request[w], value[w], hp[w]>>
      /\ ScanInv(r, w)
  BY DEF ScanStep, OthersGuard
<1>2. KnownInv(w)'
  BY <1>1 DEF ScanInv, KnownInv
<1>3. GuardInv(q, w)'
  <2>1. GuardsFollow(t) /\ GuardInv(r, w)
    BY <1>1 DEF ScanInv, ScanStep
  <2>2. QED BY <1>1, <2>1, GuardKept
<1>4. QED BY <1>2, <1>3 DEF ScanInv

\* A step of t that is not about its release list.
LEMMA LocalScans ==
    ASSUME NEW t \in Threads, NEW r, NEW q, ScanStep(t, r, q),
           release_list' = release_list, ~Scanning(t), ~Scanning(t)'
    PROVE  \A w \in Threads : ScanInv(q, w)'
<1>1. GuardInv(q, t)' /\ KnownInv(t)'
  BY DEF GuardInv, ScanStep
<1>2. QED BY <1>1, OtherScans DEF ScanInv

\* A full list is scanned from the first thread on.
LEMMA FreeScans ==
    ASSUME NEW t \in Threads, NEW r, NEW q, ScanStep(t, r, q), Free(t), BasicInv'
    PROVE  \A w \in Threads : ScanInv(q, w)'
<1>1. BasicInv /\ ~deleted /\ q \in Ranks' /\ TypeOK /\ ListClosed /\ ThreadInv(t) /\ CallInv(t)
  BY OwnFacts DEF ScanStep
<1>2. pc[t] = "free" /\ i[t] = 0 /\ i' = i /\ t \in registered
      /\ UNCHANGED <<first, registered, hp>>
  BY <1>1 DEF Free, CallInv, ThreadInv, list, slots
<1> DEFINE full == release_list_size[t] + 1 = RLMax
<1>3. /\ pc'[t] = (IF full THEN "scan" ELSE "idle")
      /\ iter'[t] = (IF full THEN first ELSE NoThread)
      /\ Cardinality(Waiting(t)') = release_list_size[t] + 1
      /\ release_list_size[t] \in Nat
  BY <1>1, FreeFacts DEF TypeOK
<1>4. Scanning(t)' <=> full
  BY <1>3 DEF Scanning
<1>5. GuardInv(q, t)'
  <2>1. SUFFICES ASSUME full, NEW k \in Entries, NEW u \in Threads, NEW s \in Slots,
                        release_list'[t][k].status = 1,
                        Guards(u)'[s] = release_list'[t][k].data
                 PROVE  <<u, s>> \in Ahead(q, t)'
    BY <1>4 DEF GuardInv
  <2>2. release_list'[t][k].data # NULL
    <3>1. k \in Waiting(t)' /\ ReleaseInv(t)' /\ ~deleted'
      BY <1>1, <2>1 DEF BasicInv, AccountsInv, Waiting, ScanStep, OthersGuard
    <3>2. QED BY <3>1 DEF ReleaseInv
  <2>3. u \in registered
    <3>1. hp[u][s] # NULL
      BY <1>2, <2>1, <2>2, GuardsAt
    <3>2. ThreadInv(u)
      BY <1>1 DEF BasicInv, CallsInv
    <3>3. QED BY <3>1, <3>2 DEF ThreadInv, NoHazards
  <2>4. first \in registered /\ first # NoThread
    BY <1>1, <1>2, ThreadAssumption DEF ListClosed, TypeOK
  <2>5. q[u] < q[first] \/ u = first
    BY <1>1, <1>2, <2>3, <2>4, RegisteredFinite DEF Ranks, Rank
  <2>6. s >= i'[t] /\ pc'[t] = "scan" /\ iter'[t] = first
    BY <1>2, <1>3, <2>1 DEF Slots
  <2>7. QED BY <1>2, <2>3, <2>5, <2>6 DEF Ahead
<1>6. ScanInv(q, t)'
  BY <1>5 DEF ScanInv, ScanStep
<1>7. QED BY <1>6, OtherScans

\* A step of a scan reads the next of the slots that are ahead.
LEMMA ScanSlotAhead ==
    ASSUME NEW t \in Threads, NEW r, NEW q, ScanStep(t, r, q), ScanSlot(t)
    PROVE  /\ <<iter[t], i[t]>> \in Ahead(r, t)
           /\ Ahead(q, t)' = Ahead(r, t) \ {<<iter[t], i[t]>>}
<1>1. BasicInv /\ TypeOK /\ ListClosed /\ ThreadInv(t) /\ r \in Ranks /\ q \in Ranks'
  BY OwnFacts DEF ScanStep
<1>2. /\ pc[t] = "scan" /\ iter[t] \in registered /\ i[t] \in Slots
      /\ UNCHANGED list /\ registered' = registered
  BY <1>1 DEF ScanSlot, ThreadInv, TypeOK, list
<1>3. \A u \in registered : q[u] = r[u] /\ r[u] \in Nat /\ r[u] > 0
  BY <1>1 DEF ScanStep, Extends, Ranks
<1>4. <<iter[t], i[t]>> \in Ahead(r, t)
  BY <1>2 DEF Ahead, Slots
<1>5. ASSUME NEW u \in registered, NEW s \in Slots
      PROVE  <<u, s>> \in Ahead(q, t)' <=>
               <<u, s>> \in Ahead(r, t) /\ <<u, s>> # <<iter[t], i[t]>>
  <2>1. <<u, s>> \in Ahead(r, t) <=> r[u] < r[iter[t]] \/ (u = iter[t] /\ s >= i[t])
    BY <1>2 DEF Ahead
  <2>2. <<u, s>> \in Ahead(q, t)' <=>
          /\ pc'[t] = "scan"
          /\ q[u] < q[iter'[t]] \/ (u = iter'[t] /\ s >= i'[t])
    BY <1>2 DEF Ahead
  <2>3. CASE i[t] < NumSlots - 1
    <3>1. pc'[t] = "scan" /\ iter'[t] = iter[t] /\ i'[t] = i[t] + 1
      <4>1. i[t] # NumSlots - 1
        BY <2>3, SizeAssumption
      <4>2. i' = [i EXCEPT ![t] = @ + 1] /\ UNCHANGED <<iter, pc>>
        BY <4>1 DEF ScanSlot
      <4>3. DOMAIN i = Threads
        BY <1>1 DEF TypeOK
      <4>4. QED BY <1>2, <4>2, <4>3
    <3>2. QED BY <1>2, <1>3, <2>1, <2>2, <3>1 DEF Slots
  <2>4. CASE i[t] = NumSlots - 1
    <3>1. /\ i'[t] = 0 /\ iter'[t] = next[iter[t]]
          /\ pc'[t] = (IF next[iter[t]] = NoThread THEN "sweep" ELSE "scan")
      BY <1>1, <1>2, <2>4, SizeAssumption DEF ScanSlot, TypeOK, Goto
    <3>2. Rank(r, next[iter[t]]) = r[iter[t]] - 1
      BY <1>1, <1>2 DEF Ranks
    <3>3. s >= i[t] => s = i[t]
      BY <2>4, SizeAssumption DEF Slots
    <3>4. CASE next[iter[t]] = NoThread
      BY <1>2, <1>3, <2>1, <2>2, <3>1, <3>2, <3>3, <3>4 DEF Rank
    <3>5. CASE next[iter[t]] # NoThread
      <4>1. next[iter[t]] \in registered /\ r[next[iter[t]]] = r[iter[t]] - 1
        BY <1>1, <1>2, <3>2, <3>5 DEF ListClosed, Rank
      <4>2. r[u] = r[next[iter[t]]] => u = next[iter[t]]
        BY <1>1, <4>1 DEF Ranks
      <4>3. s >= i'[t]
        BY <3>1 DEF Slots
      <4>4. u = iter[t] => ~(r[u] < r[iter[t]])
        BY <1>3
      <4>5. r[u] < r[iter[t]] <=> q[u] < q[next[iter[t]]] \/ u = next[iter[t]]
        BY <1>2, <1>3, <4>1, <4>2
      <4>6. QED BY <2>1, <2>2, <3>1, <3>3, <3>5, <4>3, <4>4, <4>5
    <3>6. QED BY <3>4, <3>5
  <2>5. QED BY <1>2, <2>3, <2>4, SizeAssumption DEF Slots
<1>6. Ahead(q, t)' \subseteq registered \X Slots /\ Ahead(r, t) \subseteq registered \X Slots
  BY <1>2 DEF Ahead
<1>7. QED BY <1>4, <1>5, <1>6

\* A scan marks the entry that the slot it reads protects.
LEMMA ScanSlotScans ==
    ASSUME NEW t \in Threads, NEW r, NEW q, ScanStep(t, r, q), ScanSlot(t), BasicInv'
    PROVE  \A w \in Threads : ScanInv(q, w)'
<1>1. /\ BasicInv /\ ~deleted /\ TypeOK /\ ThreadInv(t) /\ CallInv(t)
      /\ OnePlace /\ ReleaseInv(t) /\ ScanInv(r, t)
  <2>1. BasicInv /\ ~deleted /\ ScanInv(r, t)
    BY DEF ScanStep
  <2>2. QED BY <2>1, OwnFacts DEF BasicInv, AccountsInv
<1>2. /\ pc[t] = "scan" /\ iter[t] \in registered /\ registered \subseteq Threads
      /\ i[t] \in Slots /\ Scanning(t) /\ UNCHANGED <<hp, deleted, straddled>>
  BY <1>1 DEF ScanSlot, ThreadInv, TypeOK, Scanning, slots, client
<1>3. pc'[t] \in {"scan", "sweep"} /\ Scanning(t)'
  BY <1>1, <1>2 DEF ScanSlot, Goto, TypeOK, Scanning
<1> DEFINE L == release_list[t]
           p == hp[iter[t]][i[t]]
           N == Marked(L, {p})
           x == find_index_of_pointer(L, p)
<1>4. L \in List /\ Sorted(L) /\ Waiting(t) = Entries /\ p \in Nat /\ release_list'[t] = N
  <2>1. L \in List /\ Sorted(L) /\ Waiting(t) = Entries
    BY <1>1, <1>2, Lists DEF ReleaseInv
  <2>2. p \in Blocks \cup {NULL}
    BY <1>1, <1>2 DEF TypeOK
  <2>3. release_list'[t] = N
    BY <1>1 DEF ScanSlot, TypeOK
  <2> HIDE DEF p
  <2>4. p \in Nat
    BY <2>2, BlockAssumption DEF Blocks, NULL
  <2>5. QED BY <2>1, <2>3, <2>4
<1>5. \A k \in Entries : N[k].data = L[k].data
                         /\ N[k].status = (IF k = x THEN 2 ELSE L[k].status)
  BY <1>4, MarkedFacts
<1>6. \/ x \in Entries /\ L[x].data = p
      \/ x = -1 /\ \A j \in Entries : L[j].data # p
  <2> HIDE DEF L, p
  <2>1. QED BY <1>4, SearchIsRight
<1>7. <<iter[t], i[t]>> \in Ahead(r, t) /\ Ahead(q, t)' = Ahead(r, t) \ {<<iter[t], i[t]>>}
  BY ScanSlotAhead
<1>8. \A k \in Entries : L[k].data # NULL
  BY <1>1, <1>4 DEF ReleaseInv
<1>9. GuardInv(q, t)'
  <2>1. SUFFICES ASSUME NEW k \in Entries, NEW u \in Threads, NEW s \in Slots,
                        N[k].status = 1, Guards(u)'[s] = N[k].data
                 PROVE  <<u, s>> \in Ahead(q, t)'
    BY <1>4 DEF GuardInv
  <2>2. L[k].status = 1 /\ k # x /\ N[k].data = L[k].data
    BY <1>5, <2>1
  <2>3. Guards(u)[s] = L[k].data
    <3>1. CASE u = t
      <4>1. ~Setting(t, s) /\ ~Setting(t, s)'
        BY <1>2, <1>3 DEF Setting
      <4> HIDE DEF L, N, x, p
      <4>2. hp' = hp /\ deleted' = deleted /\ straddled' = straddled
        BY <1>2
      <4>3. Guards(u)'[s] = Guards(u)[s]
        BY <3>1, <4>1, <4>2, GuardsAt
      <4>4. QED BY <2>1, <2>2, <4>3
    <3>2. CASE u # t
      BY <1>2, <2>1, <2>2, <3>2 DEF ScanStep, GuardsFollow
    <3>3. QED BY <3>1, <3>2
  <2>4. <<u, s>> \in Ahead(r, t)
    BY <1>1, <1>2, <2>2, <2>3 DEF ScanInv, GuardInv
  <2>5. ASSUME u = iter[t], s = i[t] PROVE FALSE
    <3>1. p = L[k].data
      BY <1>8, <2>3, <2>5, GuardsAt
    <3>2. x \in Entries /\ L[x].data = L[k].data
      BY <1>6, <3>1
    <3>3. x = k
      <4> HIDE DEF x
      <4>1. x \in Waiting(t) /\ k \in Waiting(t) /\ release_list[t][x].data = release_list[t][k].data
        BY <1>4, <3>2
      <4>2. QED BY <1>1, <4>1 DEF OnePlace
    <3>4. QED BY <2>2, <3>3
  <2>6. QED BY <1>7, <2>4, <2>5
<1>10. ScanInv(q, t)'
  BY <1>9 DEF ScanInv, ScanStep
<1>11. \A w \in Threads \ {t} : release_list'[w] = release_list[w]
  BY <1>1 DEF ScanSlot, TypeOK
<1>12. QED BY <1>10, OtherScans

LEMMA SweepScans ==
    ASSUME NEW t \in Threads, NEW r, NEW q, ScanStep(t, r, q), Sweep(t)
    PROVE  \A w \in Threads : ScanInv(q, w)'
<1>1. TypeOK
  BY DEF ScanStep, BasicInv
<1>2. ~Scanning(t)'
  BY <1>1 DEF Sweep, Goto, TypeOK, Scanning
<1>3. GuardInv(q, t)' /\ KnownInv(t)'
  BY <1>2 DEF GuardInv, ScanStep
<1>4. QED BY <1>3, OtherScans DEF ScanInv

-----------------------------------------------------------------------------
(* The invariant, step by step.                                            *)

LEMMA DeletedStays ==
    ASSUME BasicInv, [Next]_vars, deleted
    PROVE  UNCHANGED vars
<1>1. \A t \in Threads : pc[t] = "idle"
  BY DEF BasicInv, CallsInv
<1>2. ASSUME NEW t \in Threads PROVE ~Step(t)
  BY <1>1 DEF Step, InitRead, InitCas, Peek, Copy, Reuse, Search, Read, Store, Check,
              ClearSlot, Free, ScanSlot, Sweep
<1>3. ~Delete
  BY DEF Delete
<1>4. ASSUME NEW t \in Threads
      PROVE  /\ ~(\E x \in Requests[t] : Protect(t, x)) /\ ~(\E p \in Blocks : Remove(t, p))
             /\ ~(\E c \in Cells : Retire(t, c)) /\ ~RemoveAll(t)
  BY DEF Protect, Remove, Retire, RemoveAll
<1>5. QED BY <1>2, <1>3, <1>4 DEF Next, Terminated

\* The steps of a thread, but for the three about release lists.
CallStep(t) ==
    \/ \E x \in Requests[t] : Protect(t, x)
    \/ \E p \in Blocks : Remove(t, p)
    \/ \E c \in Cells : Retire(t, c)
    \/ RemoveAll(t)
    \/ InitRead(t) \/ InitCas(t)
    \/ Peek(t) \/ Copy(t) \/ Reuse(t) \/ Search(t)
    \/ Read(t) \/ Store(t) \/ Check(t) \/ ClearSlot(t)

\* What a thread guards after a step of its own, whatever the step.
LEMMA ThreadGuards ==
    ASSUME BasicInv, NEW t \in Threads, CallStep(t) \/ Free(t) \/ ScanSlot(t) \/ Sweep(t)
    PROVE  OthersGuard(t) /\ (KnownInv(t) => GuardsFollow(t) /\ KnownInv(t)')
<1>1. CASE Free(t) \/ ScanSlot(t) \/ Sweep(t)
  BY <1>1, FreeGuards, ScanSlotGuards, SweepGuards
<1>2. CASE \E x \in Requests[t] : Protect(t, x)
  BY <1>2, ProtectGuards
<1>3. CASE \E p \in Blocks : Remove(t, p)
  BY <1>3, RemoveGuards
<1>4. CASE (\E c \in Cells : Retire(t, c)) \/ RemoveAll(t) \/ ClearSlot(t)
  BY <1>4, RetireGuards, RemoveAllGuards, ClearSlotGuards
<1>5. CASE InitRead(t) \/ InitCas(t) \/ Peek(t) \/ Copy(t) \/ Reuse(t)
  BY <1>5, InitReadGuards, InitCasGuards, PeekGuards, CopyGuards, ReuseGuards
<1>6. CASE Search(t) \/ Read(t) \/ Store(t) \/ Check(t)
  BY <1>6, SearchGuards, ReadGuards, StoreGuards, CheckGuards
<1>7. QED BY <1>1, <1>2, <1>3, <1>4, <1>5, <1>6 DEF CallStep

LEMMA CallStepScans ==
    ASSUME TypeOK, NEW t \in Threads, CallStep(t)
    PROVE  release_list' = release_list /\ ~Scanning(t) /\ ~Scanning(t)'
<1>1. \A x : Entry(x) \in {"search", "peek", "copy", "read"}
  BY DEF Entry
<1>2. CASE \E x \in Requests[t] : Protect(t, x)
  <2>1. pc[t] = "idle" /\ release_list' = release_list
        /\ pc'[t] \in {"init", "search", "peek", "copy", "read"}
    BY <1>1, <1>2 DEF TypeOK, Protect, Goto, own
  <2>2. QED BY <2>1 DEF Scanning
<1>3. CASE (\E p \in Blocks : Remove(t, p)) \/ (\E c \in Cells : Retire(t, c)) \/ RemoveAll(t)
  BY <1>3 DEF TypeOK, Remove, Retire, RemoveAll, StartClear, Goto, Scanning, own
<1>4. CASE InitRead(t) \/ InitCas(t)
  BY <1>1, <1>4 DEF TypeOK, InitRead, InitCas, Goto, Scanning, own
<1>5. CASE Peek(t) \/ Copy(t) \/ Reuse(t) \/ Search(t)
  BY <1>5 DEF TypeOK, Peek, Copy, Reuse, Search, Goto, Scanning, own
<1>6. CASE Read(t) \/ Store(t) \/ Check(t) \/ ClearSlot(t)
  BY <1>6 DEF TypeOK, Read, Store, Check, ClearSlot, Goto, Scanning, own
<1>7. QED BY <1>2, <1>3, <1>4, <1>5, <1>6 DEF CallStep

LEMMA StepKinds ==
    Next => \/ \E t \in Threads : CallStep(t) \/ Free(t) \/ ScanSlot(t) \/ Sweep(t)
            \/ Delete \/ UNCHANGED vars
BY DEF Next, Step, CallStep, Terminated

LEMMA NextScans ==
    ASSUME BasicInv, ScansInv, [Next]_vars
    PROVE  ScansInv'
<1>1. BasicInv' /\ TypeOK
  BY NextBasic DEF BasicInv
<1>2. PICK r \in Ranks : deleted \/ \A t \in Threads : ScanInv(r, t)
  BY DEF ScansInv
<1>3. PICK q \in Ranks' : Extends(q, r)
  BY NextRanks
<1>4. CASE deleted \/ Delete
  BY <1>3, <1>4, DeletedStays DEF Delete, ScansInv, vars, client
<1>5. CASE UNCHANGED vars
  <2>1. Ranks' = Ranks
    BY <1>5 DEF Ranks, Rank, vars, list
  <2>2. \A t \in Threads : ScanInv(r, t) => ScanInv(r, t)'
    <3>1. UNCHANGED <<heap, cell, deleted, first, next, registered, hp, current_hp_slot,
                      straddled, release_list, current_rl_slot, release_list_size, pc, request,
                      value, victim, i, iter, calls>>
      BY <1>5 DEF vars, client, list, slots, own, locals
    <3>2. \A t \in Threads : KnownInv(t) => KnownInv(t)'
      BY <3>1 DEF KnownInv
    <3>3. \A t \in Threads : GuardInv(r, t) => GuardInv(r, t)'
      BY <3>1 DEF GuardInv, Scanning, Guards, Setting, Ahead
    <3>4. QED BY <3>2, <3>3 DEF ScanInv
  <2>3. deleted' = deleted
    BY <1>5 DEF vars, client
  <2>4. QED BY <1>2, <2>1, <2>2, <2>3 DEF ScansInv
<1>6. ASSUME ~deleted, NEW t \in Threads, CallStep(t) \/ Free(t) \/ ScanSlot(t) \/ Sweep(t)
      PROVE  \A w \in Threads : ScanInv(q, w)'
  <2>1. \A w \in Threads : ScanInv(r, w)
    BY <1>2, <1>6
  <2>2. OthersGuard(t) /\ GuardsFollow(t) /\ KnownInv(t)'
    BY <1>6, <2>1, ThreadGuards DEF ScanInv
  <2>3. \A w \in Threads \ {t} : release_list'[w] = release_list[w]
    <3>1. CASE CallStep(t)
      BY <1>1, <3>1, CallStepScans
    <3>2. CASE Free(t)
      BY <3>2, FreeFacts
    <3>3. CASE ScanSlot(t) \/ Sweep(t)
      BY <1>1, <3>3 DEF ScanSlot, Sweep, TypeOK
    <3>4. QED BY <1>6, <3>1, <3>2, <3>3
  <2>4. ScanStep(t, r, q)
    BY <1>3, <1>6, <2>1, <2>2, <2>3 DEF ScanStep
  <2>5. CASE CallStep(t)
    BY <1>1, <2>4, <2>5, CallStepScans, LocalScans
  <2>6. CASE Free(t)
    BY <1>1, <2>4, <2>6, FreeScans
  <2>7. CASE ScanSlot(t)
    BY <1>1, <2>4, <2>7, ScanSlotScans
  <2>8. CASE Sweep(t)
    BY <2>4, <2>8, SweepScans
  <2>9. QED BY <1>6, <2>5, <2>6, <2>7, <2>8
<1>7. CASE deleted
  BY <1>4, <1>7
<1>8. CASE ~deleted /\ \E t \in Threads : CallStep(t) \/ Free(t) \/ ScanSlot(t) \/ Sweep(t)
  BY <1>3, <1>6, <1>8 DEF ScansInv
<1>9. QED BY <1>4, <1>5, <1>7, <1>8, StepKinds

LEMMA InitScans ==
    ASSUME Init
    PROVE  ScansInv
<1>1. registered = {} /\ Cardinality(registered) = 0 /\ first = NoThread
  BY FS_EmptySet DEF Init
<1> DEFINE r == [u \in registered |-> 1]
<1>2. r \in Ranks
  BY <1>1 DEF Ranks, Rank
<1>3. ASSUME NEW t \in Threads PROVE ScanInv(r, t)
  <2>1. pc[t] = "idle"
    BY <1>3 DEF Init
  <2>2. GuardInv(r, t) /\ KnownInv(t)
    BY <2>1 DEF GuardInv, KnownInv, Scanning
  <2>3. QED BY <2>2 DEF ScanInv
<1>4. QED BY <1>2, <1>3 DEF ScansInv

LEMMA BasicAndScans == Spec => [](BasicInv /\ ScansInv)
<1>1. Init => BasicInv /\ ScansInv
  BY InitBasic, InitScans
<1>2. BasicInv /\ ScansInv /\ [Next]_vars => (BasicInv /\ ScansInv)'
  BY NextBasic, NextScans
<1>3. QED BY <1>1, <1>2, PTL DEF Spec

\* The invariant: every call under way has what it needs in hand, every block
\* is in one place, and every scan will meet what is guarded and unmarked.
THEOREM HazardInvariance == Spec => []HazardInv
<1>1. BasicInv /\ ScansInv => HazardInv
  BY DEF BasicInv, HazardInv
<1>2. QED BY <1>1, BasicAndScans, PTL

-----------------------------------------------------------------------------
(* What follows.                                                           *)

\* After skiplist_delete only what a thread still protects is left over.
THEOREM RestFreed == Spec => []DeleteFreesTheRest
<1>1. Init => DeleteFreesTheRest
  BY DEF Init, DeleteFreesTheRest
<1>2. ASSUME BasicInv, DeleteFreesTheRest, [Next]_vars PROVE DeleteFreesTheRest'
  <2>1. CASE deleted
    <3>1. UNCHANGED <<deleted, heap, hp>>
      BY <1>2, <2>1, DeletedStays DEF vars, client, slots
    <3>2. QED BY <1>2, <3>1 DEF DeleteFreesTheRest
  <2>2. CASE Delete
    <3>1. heap' \subseteq heap \ Linked /\ hp' = hp
          /\ heap' \ Linked \subseteq {hp[u][s] : u \in registered, s \in Slots}
      BY <1>2, <2>2, DeleteFacts DEF slots
    <3>2. registered \subseteq Threads
      BY <1>2 DEF BasicInv, TypeOK
    <3>3. heap' \subseteq {hp[u][s] : u \in Threads, s \in Slots}
      BY <3>1, <3>2
    <3>4. QED BY <3>1, <3>3 DEF DeleteFreesTheRest
  <2>3. CASE ~deleted /\ ~Delete
    <3>1. deleted' = deleted
      BY <1>2, <2>3, StepKinds, ThreadGuards DEF OthersGuard, vars, client
    <3>2. QED BY <2>3, <3>1 DEF DeleteFreesTheRest
  <2>4. QED BY <2>1, <2>2, <2>3
<1>3. QED BY <1>1, <1>2, BasicInvariance, PTL DEF Spec

-----------------------------------------------------------------------------
(* The list of threads is met as a whole.                                  *)

Walks(f) ==
    f = [n \in 0..Cardinality(Threads) |->
           IF n = 0 THEN first
           ELSE IF f[n - 1] = NoThread THEN NoThread ELSE next[f[n - 1]]]

\* Every place is taken.
LEMMA PlacesTaken ==
    ASSUME BasicInv, NEW r \in Ranks
    PROVE  \A m \in 0..Cardinality(registered) - 1 :
             \E u \in registered : r[u] = Cardinality(registered) - m
<1>1. TypeOK /\ ListClosed
  BY DEF BasicInv, CallsInv, ListClosed
<1> DEFINE N == Cardinality(registered)
           T == {m \in 0..N - 1 : \A u \in registered : r[u] # N - m}
<1>2. /\ N \in Nat /\ Rank(r, first) = N
      /\ \A u \in registered : r[u] \in 1..N /\ Rank(r, next[u]) = r[u] - 1
  BY <1>1, RegisteredFinite DEF Ranks
<1>3. SUFFICES ASSUME T # {} PROVE FALSE
  OBVIOUS
<1>4. PICK m \in T : \A y \in T : m <= y
  <2>1. T \in SUBSET Nat
    BY <1>2
  <2> HIDE DEF T
  <2>2. QED BY <1>3, <2>1, LeastNat
<1>5. m # 0
  <2>1. first # NoThread => first \in registered /\ r[first] = N
    BY <1>1, <1>2 DEF Rank, ListClosed
  <2>2. first = NoThread => N = 0
    BY <1>2 DEF Rank
  <2>3. QED BY <1>2, <1>4, <2>1, <2>2
<1>6. PICK u \in registered : r[u] = N - (m - 1)
  BY <1>2, <1>4, <1>5
<1>7. next[u] # NoThread /\ Rank(r, next[u]) = N - m
  BY <1>2, <1>4, <1>6 DEF Rank
<1>8. next[u] \in registered /\ r[next[u]] = N - m
  BY <1>1, <1>7 DEF Rank, ListClosed
<1>9. QED BY <1>4, <1>8

LEMMA WalkDefined ==
    ASSUME BasicInv, NEW r \in Ranks
    PROVE  Walks(Walk)
<1>1. TypeOK /\ ListClosed /\ NoThread \notin registered
  BY ThreadAssumption DEF BasicInv, CallsInv, ListClosed, TypeOK
<1> DEFINE N == Cardinality(registered)
           C == Cardinality(Threads)
           at(n) == IF n < N THEN CHOOSE u \in registered : r[u] = N - n ELSE NoThread
           f == [n \in 0..C |-> at(n)]
<1>2. /\ N \in Nat /\ C \in Nat /\ Rank(r, first) = N
      /\ \A u \in registered : r[u] \in 1..N /\ Rank(r, next[u]) = r[u] - 1
      /\ \A u, v \in registered : r[u] = r[v] => u = v
  BY <1>1, RegisteredFinite, ThreadAssumption, FS_CardinalityType DEF Ranks
<1>3. \A n \in 0..C : n < N => at(n) \in registered /\ r[at(n)] = N - n
  BY <1>2, PlacesTaken
<1>4. \A n \in 0..C : ~(n < N) => at(n) = NoThread
  OBVIOUS
<1> HIDE DEF at
<1>5. at(0) = first
  <2>1. CASE N = 0
    BY <1>1, <1>2, <1>4, <2>1 DEF Rank, ListClosed
  <2>2. CASE N > 0
    <3>1. first \in registered /\ r[first] = N
      BY <1>1, <1>2, <2>2 DEF Rank, ListClosed
    <3>2. at(0) \in registered /\ r[at(0)] = N
      BY <1>2, <1>3, <2>2
    <3>3. QED BY <1>2, <3>1, <3>2
  <2>3. QED BY <1>2, <2>1, <2>2
<1>6. ASSUME NEW n \in 1..C
      PROVE  at(n) = (IF at(n - 1) = NoThread THEN NoThread ELSE next[at(n - 1)])
  <2>1. n - 1 \in 0..C /\ n \in 0..C
    BY <1>2
  <2>2. CASE ~(n - 1 < N)
    BY <1>2, <1>4, <2>1, <2>2
  <2>3. CASE n - 1 < N
    <3>1. at(n - 1) \in registered /\ r[at(n - 1)] = N - (n - 1)
      BY <1>3, <2>1, <2>3
    <3>2. Rank(r, next[at(n - 1)]) = N - n
      BY <1>2, <3>1
    <3>3. CASE n < N
      <4>1. next[at(n - 1)] \in registered /\ r[next[at(n - 1)]] = N - n
        BY <1>1, <1>2, <3>1, <3>2, <3>3 DEF Rank, ListClosed
      <4>2. at(n) = next[at(n - 1)]
        BY <1>2, <1>3, <2>1, <3>3, <4>1
      <4>3. QED BY <1>1, <3>1, <4>2
    <3>4. CASE ~(n < N)
      <4>1. N - n = 0
        BY <1>2, <2>3, <3>4
      <4>2. next[at(n - 1)] = NoThread
        BY <1>1, <1>2, <3>1, <3>2, <4>1 DEF Rank, ListClosed
      <4>3. QED BY <1>1, <1>4, <2>1, <3>1, <3>4, <4>2
    <3>5. QED BY <3>3, <3>4
  <2>4. QED BY <2>2, <2>3
<1>7. \A n \in 0..C :
        at(n) = IF n = 0 THEN first
                ELSE IF f[n - 1] = NoThread THEN NoThread ELSE next[f[n - 1]]
  <2>1. \A n \in 1..C : n - 1 \in 0..C /\ f[n - 1] = at(n - 1)
    BY <1>2
  <2>2. \A n \in 0..C : n = 0 \/ n \in 1..C
    BY <1>2
  <2>3. QED BY <1>5, <1>6, <2>1, <2>2
<1>8. Walks(f)
  BY <1>7 DEF Walks
<1>9. QED BY <1>8, Zenon DEF Walk, Walks

\* Threads that register at the same time do not lose each other's record, and
\* the loop over the list ends.
THEOREM EveryThreadMet == Spec => []ScansMeetEveryThread
<1>1. ASSUME BasicInv, ScansInv PROVE ScansMeetEveryThread
  <2>1. PICK r \in Ranks : TRUE
    BY <1>1 DEF ScansInv
  <2>2. Walks(Walk) /\ TypeOK /\ ListClosed /\ registered \subseteq Threads
    BY <1>1, WalkDefined DEF BasicInv, CallsInv, ListClosed, TypeOK
  <2> DEFINE N == Cardinality(registered)
             C == Cardinality(Threads)
             T == {n \in 0..C : ~ IF n < N THEN Walk[n] \in registered /\ r[Walk[n]] = N - n
                                  ELSE Walk[n] = NoThread}
  <2>3. /\ N \in Nat /\ C \in Nat /\ N <= C /\ Rank(r, first) = N
        /\ \A u \in registered : r[u] \in 1..N /\ Rank(r, next[u]) = r[u] - 1
        /\ \A u, v \in registered : r[u] = r[v] => u = v
    BY <2>2, RegisteredFinite, ThreadAssumption, FS_CardinalityType, FS_Subset DEF Ranks
  <2>4. /\ DOMAIN Walk = 0..C /\ Walk[0] = first
        /\ \A n \in 1..C : Walk[n] = (IF Walk[n - 1] = NoThread THEN NoThread
                                      ELSE next[Walk[n - 1]])
    <3>1. PICK f : f = Walk
      OBVIOUS
    <3>2. f = [n \in 0..C |-> IF n = 0 THEN first
                              ELSE IF f[n - 1] = NoThread THEN NoThread ELSE next[f[n - 1]]]
      BY <2>2, <3>1 DEF Walks
    <3>3. DOMAIN f = 0..C /\ f[0] = first
      BY <2>3, <3>2
    <3>4. \A n \in 1..C : n \in 0..C /\ n # 0
      BY <2>3
    <3>5. \A n \in 1..C : f[n] = (IF f[n - 1] = NoThread THEN NoThread ELSE next[f[n - 1]])
      BY <3>2, <3>4
    <3>6. QED BY <3>1, <3>3, <3>5
  <2>5. T = {}
    <3>1. SUFFICES ASSUME T # {} PROVE FALSE
      OBVIOUS
    <3>2. PICK n \in T : \A y \in T : n <= y
      <4>1. T \in SUBSET Nat
        BY <2>3
      <4> HIDE DEF T
      <4>2. QED BY <3>1, <4>1, LeastNat
    <3>3. n \in 0..C
      OBVIOUS
    <3>4. n # 0
      BY <2>2, <2>3, <2>4, <3>2 DEF Rank, ListClosed
    <3>5. n - 1 \in 0..C /\ n - 1 \notin T /\ n \in 1..C
      BY <2>3, <3>2, <3>3, <3>4
    <3>6. CASE n - 1 < N
      <4>1. Walk[n - 1] \in registered /\ r[Walk[n - 1]] = N - (n - 1)
        BY <3>5, <3>6
      <4>2. Walk[n] = next[Walk[n - 1]] /\ Rank(r, Walk[n]) = N - n
        BY <2>2, <2>3, <2>4, <3>5, <4>1, ThreadAssumption
      <4>3. Walk[n] \in registered \cup {NoThread}
        BY <2>2, <4>1, <4>2 DEF ListClosed
      <4>4. n < N => Walk[n] \in registered /\ r[Walk[n]] = N - n
        BY <2>3, <3>3, <4>2, <4>3 DEF Rank
      <4>5. ~(n < N) => Walk[n] = NoThread
        BY <2>3, <3>3, <3>6, <4>2, <4>3 DEF Rank
      <4>6. QED BY <3>2, <4>4, <4>5
    <3>7. CASE ~(n - 1 < N)
      BY <2>3, <2>4, <3>2, <3>5, <3>7
    <3>8. QED BY <3>6, <3>7
  <2>6. \A n \in 0..C : IF n < N THEN Walk[n] \in registered /\ r[Walk[n]] = N - n
                        ELSE Walk[n] = NoThread
    BY <2>5
  <2>7. ASSUME NEW t \in registered PROVE \E n \in DOMAIN Walk : Walk[n] = t
    <3>1. N - r[t] \in 0..C /\ N - r[t] < N /\ N - (N - r[t]) = r[t]
      BY <2>3
    <3>2. Walk[N - r[t]] \in registered /\ r[Walk[N - r[t]]] = r[t]
      BY <2>6, <3>1
    <3>3. QED BY <2>3, <2>4, <3>1, <3>2
  <2>8. Walk[C] = NoThread
    BY <2>3, <2>6
  <2>9. QED BY <2>7, <2>8 DEF ScansMeetEveryThread
<1>2. QED BY <1>1, BasicAndScans, PTL

-----------------------------------------------------------------------------
(* Reclamation.                                                            *)

LEMMA CallStepPlaces ==
    ASSUME TypeOK, NEW t \in Threads, CallStep(t)
    PROVE  \/ \E c \in Cells : Retire(t, c)
           \/ UNCHANGED <<heap, Linked, Retired>>
<1>1. CASE \E c \in Cells : Retire(t, c)
  BY <1>1
<1>2. CASE (\E x \in Requests[t] : Protect(t, x)) \/ (\E p \in Blocks : Remove(t, p))
             \/ RemoveAll(t)
  <2>1. UNCHANGED <<heap, cell, victim, release_list>>
    BY <1>2 DEF Protect, Remove, RemoveAll, StartClear, client, own, locals
  <2>2. QED BY <2>1 DEF Linked, Retired, Waiting
<1>3. CASE InitRead(t) \/ InitCas(t) \/ Peek(t) \/ Copy(t) \/ Reuse(t) \/ Search(t)
             \/ Read(t) \/ Store(t) \/ Check(t) \/ ClearSlot(t)
  <2>1. UNCHANGED <<heap, cell, victim, release_list>>
    BY <1>3 DEF InitRead, InitCas, Peek, Copy, Reuse, Search, Read, Store, Check,
                ClearSlot, client, own, locals
  <2>2. QED BY <2>1 DEF Linked, Retired, Waiting
<1>4. QED BY <1>1, <1>2, <1>3 DEF CallStep

\* The guards as Reclamation sees them.
LEMMA MappedGuards ==
    /\ R!Guarded = {Guards(u)[s] : u \in Threads, s \in Slots} \ {NULL}
    /\ \A u \in Threads : [w \in Threads |-> Guards(w)][u] = Guards(u)
BY DEF R!Guarded

\* What a sweep frees is guarded by nobody.
LEMMA SweepUnguarded ==
    ASSUME BasicInv, ScansInv, NEW t \in Threads, Sweep(t)
    PROVE  \E freed \in SUBSET Retired :
             /\ freed \cap R!Guarded = {}
             /\ Retired' = Retired \ freed /\ heap \ heap' = freed
<1>1. PICK freed \in SUBSET Retired :
        /\ freed = {release_list[t][k].data : k \in Freed(release_list[t])}
        /\ Retired' = Retired \ freed /\ heap \ heap' = freed
  BY SweepBasic
<1>2. pc[t] = "sweep" /\ ~deleted
  BY OwnFacts DEF Sweep
<1>3. PICK r \in Ranks : GuardInv(r, t)
  BY <1>2 DEF ScansInv, ScanInv
<1>4. ASSUME NEW k \in Freed(release_list[t]), NEW u \in Threads, NEW s \in Slots
      PROVE  Guards(u)[s] # release_list[t][k].data
  <2>1. Ahead(r, t) = {}
    BY <1>2 DEF Ahead
  <2>2. k \in Entries /\ release_list[t][k].status = 1
    BY DEF Freed
  <2>3. QED BY <1>2, <1>3, <2>1, <2>2 DEF GuardInv, Scanning
<1>5. freed \cap R!Guarded = {}
  BY <1>1, <1>4, MappedGuards
<1>6. QED BY <1>1, <1>5

\* No scan frees a block that a thread guards, in whatever slot and wherever its
\* calls move it meanwhile, unless it was moved between two readings of a scan.
THEOREM GuardedNotFreed ==
    Spec => [][~deleted' => \A p \in heap \ heap' : p \notin R!Guarded]_vars
<1>1. ASSUME BasicInv, ScansInv, [Next]_vars
      PROVE  ~deleted' => \A p \in heap \ heap' : p \notin R!Guarded
  <2>1. CASE UNCHANGED vars \/ Delete
    BY <2>1 DEF vars, client, Delete
  <2>2. ASSUME NEW t \in Threads, CallStep(t) PROVE heap \subseteq heap'
    BY <1>1, <2>2, CallStepPlaces, RetireBasic DEF BasicInv
  <2>3. ASSUME NEW t \in Threads, Free(t) \/ ScanSlot(t) PROVE heap' = heap
    BY <2>3 DEF Free, ScanSlot, client
  <2>4. ASSUME NEW t \in Threads, Sweep(t) PROVE \A p \in heap \ heap' : p \notin R!Guarded
    BY <1>1, <2>4, SweepUnguarded
  <2>5. QED BY <1>1, <2>1, <2>2, <2>3, <2>4, StepKinds
<1>2. BasicInv /\ ScansInv /\ [Next]_vars
        => [~deleted' => \A p \in heap \ heap' : p \notin R!Guarded]_vars
  BY <1>1
<1>3. QED BY <1>2, BasicAndScans, PTL DEF Spec

LEMMA InitReclaims ==
    ASSUME Init
    PROVE  R!Init
<1>1. ~deleted /\ Linked \subseteq Blocks
  BY StartAssumption DEF Init, Linked
<1>2. Retired = {}
  BY DEF Init, Retired, Waiting, NoEntry
<1>3. \A t \in Threads : Guards(t) = [s \in Slots |-> NULL]
  BY DEF Init, Guards
<1>4. QED BY <1>1, <1>2, <1>3 DEF R!Init, R!NoGuards

\* The steps of Reclamation, in the terms of the hazard pointers.
LEMMA StutterMaps ==
    ASSUME deleted' = deleted, Linked' = Linked, Retired' = Retired,
           \A u \in Threads : Guards(u)' = Guards(u)
    PROVE  UNCHANGED R!vars
BY DEF R!vars

LEMMA GuardMaps ==
    ASSUME BasicInv, ~deleted, ~deleted', NEW t \in Threads, GuardsFollow(t),
           Linked' = Linked, Retired' = Retired
    PROVE  R!Next
<1> DEFINE G == [w \in Threads |-> Guards(w)]
           g == Guards(t)'
<1>1. g \in [Slots -> Linked \cup {G[t][s] : s \in Slots} \cup {NULL}]
  <2>1. g = [s \in Slots |-> g[s]]
    BY DEF Guards
  <2>2. \A s \in Slots : g[s] \in Linked \cup {G[t][z] : z \in Slots} \cup {NULL}
    BY DEF GuardsFollow
  <2> HIDE DEF g, G
  <2>3. QED BY <2>1, <2>2
<1>2. G' = [G EXCEPT ![t] = g]
  BY DEF GuardsFollow
<1>3. R!Guard(t)
  BY <1>1, <1>2 DEF R!Guard
<1>4. QED BY <1>3 DEF R!Next

LEMMA RetireMaps ==
    ASSUME BasicInv, ~deleted, NEW t \in Threads, NEW c \in Cells, Retire(t, c)
    PROVE  R!Next
<1>1. PICK new \in Blocks \ heap : /\ Linked' = (Linked \ {cell[c]}) \cup {new}
                                   /\ Retired' = Retired \cup {cell[c]}
  BY RetireBasic
<1>2. heap = Linked \cup Retired /\ cell[c] \in Linked
  BY DEF BasicInv, AccountsInv, OnePlace, Linked
<1>3. \A u \in Threads : Guards(u)' = Guards(u)
  <2>1. hp' = hp /\ straddled' = straddled /\ deleted' = deleted /\ request' = request
    BY DEF Retire, StartClear, slots
  <2>2. pc[t] = "idle" /\ pc'[t] = "clear" /\ \A u \in Threads \ {t} : pc'[u] = pc[u]
    BY DEF Retire, StartClear, Goto, BasicInv, TypeOK
  <2>3. \A u \in Threads, s \in Slots : Setting(u, s)' <=> Setting(u, s)
    BY <2>1, <2>2 DEF Setting
  <2>4. QED BY <2>1, <2>3 DEF Guards
<1>4. ~deleted'
  BY DEF Retire
<1>5. R!Replace
  BY <1>1, <1>2, <1>3, <1>4 DEF R!Replace
<1>6. QED BY <1>5 DEF R!Next

LEMMA SweepMaps ==
    ASSUME BasicInv, ScansInv, NEW t \in Threads, Sweep(t)
    PROVE  R!Next
<1>1. PICK freed \in SUBSET Retired :
        freed \cap R!Guarded = {} /\ Retired' = Retired \ freed
  BY SweepUnguarded
<1>2. UNCHANGED <<hp, straddled, deleted, cell, request>> /\ Linked' = Linked
  BY DEF Sweep, slots, locals, Linked
<1>3. pc[t] = "sweep" /\ pc'[t] = "idle" /\ \A u \in Threads \ {t} : pc'[u] = pc[u]
  BY DEF Sweep, Goto, BasicInv, TypeOK
<1>4. \A u \in Threads, s \in Slots : Setting(u, s)' <=> Setting(u, s)
  BY <1>2, <1>3 DEF Setting
<1>5. \A u \in Threads : Guards(u)' = Guards(u)
  BY <1>2, <1>4 DEF Guards
<1>6. freed \in SUBSET (Retired \ R!Guarded)
  BY <1>1
<1>7. R!Free
  BY <1>1, <1>2, <1>5, <1>6 DEF R!Free
<1>8. QED BY <1>7 DEF R!Next

LEMMA DeleteMaps ==
    ASSUME BasicInv, Delete
    PROVE  R!Next
<1>1. /\ deleted' /\ ~deleted /\ registered \subseteq Threads
      /\ \A t \in Threads : pc[t] = "idle" /\ victim[t] = NULL
      /\ victim' = victim
  BY DeleteFacts DEF locals, BasicInv, TypeOK
<1>2. ASSUME NEW b \in Retired' PROVE b \in Retired
  <2>1. b # NULL /\ \A t \in Threads : victim'[t] = NULL
    BY <1>1 DEF Retired
  <2>2. PICK t \in Threads, k \in Entries :
          release_list'[t][k].status # 0 /\ b = release_list'[t][k].data
    BY <2>1 DEF Retired, Waiting
  <2>3. QED BY <2>1, <2>2, DeleteFacts
<1>3. \A t \in Threads : Guards(t)' = [s \in Slots |-> NULL]
  BY <1>1 DEF Guards
<1>4. R!Delete
  BY <1>1, <1>2, <1>3 DEF R!Delete, R!NoGuards
<1>5. QED BY <1>4 DEF R!Next

\* The hazard pointers implement Reclamation, whatever the calls move where: a
\* pointer that a scan has straddled is the only one that does not guard.
THEOREM ImplementsReclamation == Spec => Reclaims
<1>1. ASSUME BasicInv, ScansInv, [Next]_vars PROVE [R!Next]_(R!vars)
  <2>1. CASE UNCHANGED vars
    <3>1. UNCHANGED <<deleted, cell, victim, release_list, hp, straddled, pc, request>>
      BY <2>1 DEF vars, client, own, slots, locals
    <3>2. Linked' = Linked /\ Retired' = Retired /\ \A u \in Threads : Guards(u)' = Guards(u)
      BY <3>1 DEF Linked, Retired, Waiting, Guards, Setting
    <3>3. QED BY <3>1, <3>2, StutterMaps
  <2>2. CASE Delete
    BY <1>1, <2>2, DeleteMaps
  <2>3. CASE deleted
    BY <1>1, <2>1, <2>3, DeletedStays
  <2>4. ASSUME ~deleted, NEW t \in Threads,
               CallStep(t) \/ Free(t) \/ ScanSlot(t) \/ Sweep(t)
        PROVE  [R!Next]_(R!vars)
    <3>1. KnownInv(t)
      BY <1>1, <2>4 DEF ScansInv, ScanInv
    <3>2. OthersGuard(t) /\ GuardsFollow(t) /\ ~deleted'
      BY <1>1, <2>4, <3>1, ThreadGuards DEF OthersGuard
    <3>3. CASE \E c \in Cells : Retire(t, c)
      BY <1>1, <2>4, <3>3, RetireMaps
    <3>4. CASE CallStep(t) /\ UNCHANGED <<heap, Linked, Retired>>
      BY <1>1, <2>4, <3>2, <3>4, GuardMaps
    <3>5. CASE Free(t) \/ ScanSlot(t)
      <4>1. Linked' = Linked /\ Retired' = Retired
        BY <1>1, <3>5, FreeBasic, ScanSlotBasic
      <4>2. QED BY <1>1, <2>4, <3>2, <4>1, GuardMaps
    <3>6. CASE Sweep(t)
      BY <1>1, <3>6, SweepMaps
    <3>7. CASE CallStep(t)
      BY <1>1, <3>3, <3>4, <3>7, CallStepPlaces DEF BasicInv
    <3>8. QED BY <2>4, <3>5, <3>6, <3>7
  <2>5. QED BY <1>1, <2>1, <2>2, <2>3, <2>4, StepKinds
<1>2. Init => R!Init
  BY InitReclaims
<1>3. QED BY <1>1, <1>2, BasicAndScans, PTL DEF Spec, Reclaims, R!Spec
=============================================================================
