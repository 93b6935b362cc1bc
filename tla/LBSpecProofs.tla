----------------------------- MODULE LBSpecProofs -----------------------------
(***************************************************************************)
(* Proofs about LBSpec, for any annotations, options, plans and edits, any *)
(* number of ports and nodes and any order of targets.                     *)
(***************************************************************************)
EXTENDS LBSpec, FiniteSetTheorems, TLAPS

-----------------------------------------------------------------------------
\* Lists and the places in them.

IsList(list) == list \in Seq(Range(list))

LEMMA ListDomain ==
  ASSUME NEW list, IsList(list)
  PROVE  Len(list) \in Nat /\ DOMAIN list = 1 .. Len(list)
  BY DEF IsList

\* A function over 1 .. n is a list of length n.
LEMMA ListOf ==
  ASSUME NEW n \in Nat, NEW f, DOMAIN f = 1 .. n, f = [i \in 1 .. n |-> f[i]]
  PROVE  IsList(f) /\ Len(f) = n
  <1>1. \A i \in 1 .. n : f[i] \in Range(f)
    BY DEF Range
  <1> QED
    BY <1>1 DEF IsList

\* The place of i among the members of S.
Rank(S, i) == Cardinality({j \in S : j <= i})

LEMMA RankType ==
  ASSUME NEW n \in Nat, NEW S \in SUBSET (1 .. n), NEW i \in S
  PROVE  /\ IsFiniteSet(S) /\ Cardinality(S) \in Nat
         /\ Rank(S, i) \in 1 .. Cardinality(S)
  <1>1. IsFiniteSet(1 .. n)
    BY FS_Interval
  <1>2. IsFiniteSet(S)
    BY <1>1, FS_Subset
  <1> DEFINE U == {j \in S : j <= i}
  <1>3. U \in SUBSET S /\ i \in U
    OBVIOUS
  <1>4. IsFiniteSet(U) /\ Cardinality(U) <= Cardinality(S)
    BY <1>2, <1>3, FS_Subset
  <1>5. Cardinality(U) \in Nat /\ Cardinality(S) \in Nat
    BY <1>2, <1>4, FS_CardinalityType
  <1>6. Cardinality(U) # 0
    BY <1>3, <1>4, FS_EmptySet
  <1> QED
    BY <1>2, <1>4, <1>5, <1>6 DEF Rank

LEMMA RankGrows ==
  ASSUME NEW n \in Nat, NEW S \in SUBSET (1 .. n), NEW i \in S, NEW j \in S, i < j
  PROVE  Rank(S, i) < Rank(S, j)
  <1> DEFINE U == {k \in S : k <= i}
             W == {k \in S : k <= j}
  <1>i. i \in Int /\ j \in Int /\ \A k \in S : k \in Int
    OBVIOUS
  <1>1. U \in SUBSET W /\ j \in W /\ j \notin U /\ W \in SUBSET S
    <2>1. \A k \in S : k <= i => k <= j
      BY <1>i
    <2>2. j <= j /\ ~(j <= i)
      BY <1>i
    <2> QED
      BY <2>1, <2>2
  <1>2. IsFiniteSet(S)
    BY RankType
  <1>3. IsFiniteSet(W) /\ IsFiniteSet(U)
    BY <1>1, <1>2, FS_Subset
  <1>4. Cardinality(U) <= Cardinality(W) /\ Cardinality(U) # Cardinality(W)
    BY <1>1, <1>3, FS_Subset
  <1>5. Cardinality(U) \in Nat /\ Cardinality(W) \in Nat
    BY <1>3, FS_CardinalityType
  <1>6. Cardinality(U) < Cardinality(W)
    BY <1>4, <1>5
  <1> QED
    BY <1>6 DEF Rank

\* Every place is taken by one member.
LEMMA RankTakesAll ==
  ASSUME NEW n \in Nat, NEW S \in SUBSET (1 .. n), NEW k \in 1 .. Cardinality(S)
  PROVE  \E i \in S : Rank(S, i) = k
  <1>0. IsFiniteSet(S) /\ Cardinality(S) \in Nat
    <2>1. IsFiniteSet(1 .. n)
      BY FS_Interval
    <2>2. IsFiniteSet(S)
      BY <2>1, FS_Subset
    <2> QED
      BY <2>2, FS_CardinalityType
  <1> DEFINE f == [i \in S |-> Rank(S, i)]
             K == 1 .. Cardinality(S)
  <1>1. f \in [S -> K]
    BY RankType
  <1>2. \A i, j \in S : Rank(S, i) = Rank(S, j) => i = j
    <2> SUFFICES ASSUME NEW i \in S, NEW j \in S, Rank(S, i) = Rank(S, j), i # j PROVE FALSE
      OBVIOUS
    <2>0. Rank(S, i) \in 1 .. Cardinality(S) /\ Rank(S, j) \in 1 .. Cardinality(S)
      BY RankType
    <2>1. Rank(S, i) \in Nat /\ Rank(S, j) \in Nat
      BY <1>0, <2>0
    <2>2. i < j \/ j < i
      OBVIOUS
    <2>3. Rank(S, i) < Rank(S, j) \/ Rank(S, j) < Rank(S, i)
      BY <2>2, RankGrows
    <2> QED
      BY <2>1, <2>3
  <1>3. f \in Injection(S, K)
    BY <1>1, <1>2 DEF Injection, IsInjective
  <1>4. IsFiniteSet(K) /\ Cardinality(K) = Cardinality(S)
    BY <1>0, FS_Interval
  <1> HIDE DEF f, K
  <1>5. f \in Surjection(S, K)
    BY <1>3, <1>4, FS_Injection
  <1>6. \E i \in S : f[i] = k
    BY <1>5 DEF Surjection, K
  <1> QED
    BY <1>6 DEF f

-----------------------------------------------------------------------------
\* SliceEqualUnordered finds out whether two lists hold the same elements equally often.

LEMMA OccurrencesType ==
  ASSUME NEW list, IsList(list), NEW x
  PROVE  /\ Len(list) \in Nat /\ Occurrences(list, x) \in SUBSET (1 .. Len(list))
         /\ IsFiniteSet(Occurrences(list, x)) /\ Cardinality(Occurrences(list, x)) \in Nat
  <1>1. Len(list) \in Nat /\ DOMAIN list = 1 .. Len(list)
    BY ListDomain
  <1>2. Occurrences(list, x) \in SUBSET (1 .. Len(list))
    BY <1>1 DEF Occurrences
  <1>3. IsFiniteSet(1 .. Len(list))
    BY <1>1, FS_Interval
  <1>4. IsFiniteSet(Occurrences(list, x))
    BY <1>2, <1>3, FS_Subset
  <1> QED
    BY <1>1, <1>2, <1>4, FS_CardinalityType

\* The elements that the loop of SliceEqualUnordered pairs are equal, one for one.
LEMMA PairedLists ==
  ASSUME NEW a, IsList(a), NEW b, IsList(b),
         NEW match \in Bijection(DOMAIN a, DOMAIN b), \A i \in DOMAIN a : b[match[i]] = a[i]
  PROVE  SameTargets(a, b)
  <1> SUFFICES ASSUME NEW x
               PROVE  Cardinality(Occurrences(a, x)) = Cardinality(Occurrences(b, x))
    BY DEF SameTargets
  <1> DEFINE A == Occurrences(a, x)
             B == Occurrences(b, x)
             f == [i \in A |-> match[i]]
  <1>1. /\ match \in [DOMAIN a -> DOMAIN b]
        /\ \A i, j \in DOMAIN a : match[i] = match[j] => i = j
        /\ \A j \in DOMAIN b : \E i \in DOMAIN a : match[i] = j
    BY DEF Bijection, Injection, Surjection, IsInjective
  <1>2. f \in [A -> B]
    BY <1>1 DEF Occurrences
  <1>3. \A i, j \in A : f[i] = f[j] => i = j
    BY <1>1 DEF Occurrences
  <1>4. \A j \in B : \E i \in A : f[i] = j
    <2> SUFFICES ASSUME NEW j \in B PROVE \E i \in A : match[i] = j
      OBVIOUS
    <2>1. PICK i \in DOMAIN a : match[i] = j
      BY <1>1 DEF Occurrences
    <2> QED
      BY <2>1 DEF Occurrences
  <1>5. ExistsBijection(A, B)
    <2> HIDE DEF A, B, f
    <2>1. f \in Injection(A, B)
      BY <1>2, <1>3 DEF Injection, IsInjective
    <2>2. f \in Surjection(A, B)
      BY <1>2, <1>4 DEF Surjection
    <2> QED
      BY <2>1, <2>2 DEF ExistsBijection, Bijection
  <1>6. IsFiniteSet(A)
    BY OccurrencesType
  <1> QED
    BY <1>5, <1>6, FS_Bijection

\* When SliceEqualUnordered says so the lists hold the same elements, equally often.
LEMMA MatchingSound ==
  ASSUME NEW a, IsList(a), NEW b, IsList(b), SliceEqualUnordered(a, b)
  PROVE  SameTargets(a, b)
  <1> DEFINE Free(m, i) == {j \in DOMAIN b : b[j] = a[i] /\ \A k \in 1 .. i - 1 : m[k] # j}
  <1>1. PICK match \in [DOMAIN a -> DOMAIN b] : \A i \in DOMAIN a : match[i] \in Free(match, i)
    BY DEF SliceEqualUnordered
  <1>2. /\ Len(a) \in Nat /\ DOMAIN a = 1 .. Len(a) /\ DOMAIN b = 1 .. Len(a)
    BY ListDomain DEF SliceEqualUnordered
  <1>3. \A i, j \in DOMAIN a : i < j => match[i] # match[j]
    <2> SUFFICES ASSUME NEW i \in DOMAIN a, NEW j \in DOMAIN a, i < j PROVE match[i] # match[j]
      OBVIOUS
    <2>1. i \in 1 .. j - 1
      BY <1>2
    <2> QED
      BY <1>1, <2>1
  <1>4. \A i, j \in DOMAIN a : match[i] = match[j] => i = j
    <2> SUFFICES ASSUME NEW i \in DOMAIN a, NEW j \in DOMAIN a, i # j PROVE match[i] # match[j]
      OBVIOUS
    <2>1. i < j \/ j < i
      BY <1>2
    <2> QED
      BY <1>3, <2>1
  <1>5. match \in Injection(DOMAIN a, DOMAIN b)
    BY <1>4 DEF Injection, IsInjective
  <1>6. IsFiniteSet(DOMAIN b) /\ Cardinality(DOMAIN a) = Cardinality(DOMAIN b)
    BY <1>2, FS_Interval
  <1>7. match \in Surjection(DOMAIN a, DOMAIN b)
    BY <1>5, <1>6, FS_Injection
  <1>8. match \in Bijection(DOMAIN a, DOMAIN b)
    BY <1>5, <1>7 DEF Bijection
  <1>9. \A i \in DOMAIN a : b[match[i]] = a[i]
    BY <1>1
  <1> QED
    BY <1>8, <1>9, PairedLists

\* When two lists of one length hold the same elements equally often, taking the first free
\* one each time succeeds: the k-th occurrence of an element takes the k-th one.
LEMMA MatchingComplete ==
  ASSUME NEW a, IsList(a), NEW b, IsList(b), Len(a) = Len(b), SameTargets(a, b)
  PROVE  SliceEqualUnordered(a, b)
  <1> DEFINE A(i) == Occurrences(a, a[i])
             B(i) == Occurrences(b, a[i])
             match == [i \in DOMAIN a |-> CHOOSE j \in B(i) : Rank(B(i), j) = Rank(A(i), i)]
  <1>1. Len(a) \in Nat /\ DOMAIN a = 1 .. Len(a) /\ DOMAIN b = 1 .. Len(a)
    BY ListDomain
  <1>2. ASSUME NEW i \in DOMAIN a
        PROVE  A(i) \in SUBSET (1 .. Len(a)) /\ i \in A(i) /\ B(i) \in SUBSET (1 .. Len(a))
    BY <1>1, OccurrencesType DEF Occurrences
  <1>3. ASSUME NEW i \in DOMAIN a
        PROVE  match[i] \in B(i) /\ Rank(B(i), match[i]) = Rank(A(i), i)
    <2>1. Rank(A(i), i) \in 1 .. Cardinality(A(i))
      BY <1>1, <1>2, RankType
    <2>2. Cardinality(A(i)) = Cardinality(B(i))
      BY DEF SameTargets, Range
    <2>3. \E j \in B(i) : Rank(B(i), j) = Rank(A(i), i)
      BY <1>1, <1>2, <2>1, <2>2, RankTakesAll
    <2> QED
      BY <2>3
  <1>4. match \in [DOMAIN a -> DOMAIN b]
    BY <1>3 DEF Occurrences
  <1> HIDE DEF match
  <1>5. ASSUME NEW i \in DOMAIN a, NEW k \in 1 .. i - 1 PROVE match[k] # match[i]
    <2>1. k \in DOMAIN a /\ k < i
      BY <1>1
    <2>2. CASE a[k] # a[i]
      BY <1>3, <2>1, <2>2 DEF Occurrences
    <2>3. CASE a[k] = a[i]
      <3>1. A(k) = A(i) /\ B(k) = B(i) /\ k \in A(i)
        BY <1>2, <2>1, <2>3
      <3>2. Rank(A(i), k) < Rank(A(i), i)
        BY <1>1, <1>2, <2>1, <3>1, RankGrows
      <3>3. Rank(B(i), match[k]) < Rank(B(i), match[i])
        BY <1>3, <2>1, <3>1, <3>2
      <3>4. Rank(B(i), match[i]) \in 1 .. Cardinality(B(i)) /\ Cardinality(B(i)) \in Nat
        BY <1>1, <1>2, <1>3, RankType
      <3> QED
        BY <3>3, <3>4
    <2> QED
      BY <2>2, <2>3
  <1>6. ASSUME NEW i \in DOMAIN a, NEW j \in DOMAIN b, b[j] = a[i],
               \A k \in 1 .. i - 1 : match[k] # j
        PROVE  match[i] <= j
    <2>a. j \in B(i) /\ match[i] \in B(i)
      BY <1>3, <1>6 DEF Occurrences
    <2>0. j \in B(i) /\ match[i] \in B(i) /\ match[i] \in Int /\ j \in Int
      <3>1. B(i) \in SUBSET (1 .. Len(a))
        BY <1>2
      <3> QED
        BY <1>1, <2>a, <3>1
    <2> SUFFICES ASSUME j < match[i] PROVE FALSE
      BY <2>0
    <2>1. Rank(B(i), j) < Rank(A(i), i)
      BY <1>1, <1>2, <1>3, <2>0, RankGrows
    <2>2. /\ Rank(B(i), j) \in Nat \ {0} /\ Rank(A(i), i) \in 1 .. Cardinality(A(i))
          /\ Cardinality(A(i)) \in Nat
      <3>1. Rank(B(i), j) \in 1 .. Cardinality(B(i)) /\ Cardinality(B(i)) \in Nat
        BY <1>1, <1>2, <2>0, RankType
      <3>2. Rank(A(i), i) \in 1 .. Cardinality(A(i)) /\ Cardinality(A(i)) \in Nat
        BY <1>1, <1>2, RankType
      <3> QED
        BY <3>1, <3>2
    <2>c. Rank(B(i), j) \in 1 .. Cardinality(A(i))
      BY <2>1, <2>2
    <2>3. PICK k \in A(i) : Rank(A(i), k) = Rank(B(i), j)
      BY <1>1, <1>2, <2>c, RankTakesAll
    <2>4. k \in DOMAIN a /\ a[k] = a[i] /\ A(k) = A(i) /\ B(k) = B(i)
      BY <2>3 DEF Occurrences
    <2>5. k < i
      <3> SUFFICES ASSUME i <= k PROVE FALSE
        BY <1>1, <2>4
      <3>1. i = k \/ i < k
        BY <1>1, <2>4
      <3>2. Rank(A(i), i) = Rank(A(i), k) \/ Rank(A(i), i) < Rank(A(i), k)
        BY <1>1, <1>2, <2>3, <3>1, RankGrows
      <3> QED
        BY <2>1, <2>2, <2>3, <3>2
    <2>6. match[k] \in B(i) /\ Rank(B(i), match[k]) = Rank(B(i), j)
      BY <1>3, <2>3, <2>4
    <2>7. match[k] = j
      <3> SUFFICES ASSUME match[k] # j PROVE FALSE
        OBVIOUS
      <3>1. match[k] < j \/ j < match[k]
        BY <1>2, <2>0, <2>6
      <3>2. Rank(B(i), match[k]) < Rank(B(i), j) \/ Rank(B(i), j) < Rank(B(i), match[k])
        BY <1>1, <1>2, <2>0, <2>6, <3>1, RankGrows
      <3> QED
        BY <2>2, <2>6, <3>2
    <2>8. k \in 1 .. i - 1
      BY <1>1, <2>4, <2>5
    <2> QED
      BY <1>6, <2>7, <2>8
  <1>7. \A i \in DOMAIN a :
           LET free == {j \in DOMAIN b : b[j] = a[i] /\ \A k \in 1 .. i - 1 : match[k] # j}
           IN  match[i] \in free /\ \A j \in free : match[i] <= j
    BY <1>3, <1>5, <1>6 DEF Occurrences
  <1> QED
    BY <1>4, <1>7 DEF SliceEqualUnordered

\* SliceEqualUnordered (cmp.go) tells whether two lists are equal but for their order, with
\* elements that occur more than once counted as often as they occur.
THEOREM SliceEqualUnorderedCorrect ==
  ASSUME NEW a, IsList(a), NEW b, IsList(b)
  PROVE  SliceEqualUnordered(a, b) <=> Len(a) = Len(b) /\ SameTargets(a, b)
  BY MatchingSound, MatchingComplete DEF SliceEqualUnordered

-----------------------------------------------------------------------------

\* A private load balancer has no address; another one has the one asked for, or the one
\* that the API picked while it was ephemeral.
AddressInv ==
    lb # Absent =>
       /\ lb.private \in BOOLEAN /\ lb.ephemeral \in BOOLEAN
       /\ lb.private => ~lb.ephemeral /\ lb.address = Absent
       /\ ~lb.private => lb.address # Absent
       /\ lb.ephemeral => lb.address = EphemeralIP

\* What the last reconciliation found still holds: an edit makes it forgotten.
OutcomeInv ==
    /\ outcome # "refused"
    /\ outcome = "immutable" => lb # Absent /\ ImmutableChanged(lb, lbSpecFromService(svc))

LBFields ==
    {"private", "ephemeral", "address", "planId", "networks", "listeners", "pools", "ranges",
     "observability", "labels", "disableTargetSecurityGroupAssignment"}

PoolFields == {"name", "port", "targets", "sourceIP", "check"}

\* Nodes, ports, pools and targets are lists; a load balancer and its pools are records.
ListInv ==
    /\ TypeOK /\ DOMAIN svc = DOMAIN Values
    /\ lb # Absent =>
          /\ DOMAIN lb = LBFields /\ IsList(lb.pools)
          /\ \A i \in DOMAIN lb.pools :
                DOMAIN lb.pools[i] = PoolFields /\ IsList(lb.pools[i].targets)

SpecInv == ListInv /\ AddressInv /\ OutcomeInv /\ NoUpdateLoop /\ FieldsAsNew /\ PoolsAsNew

-----------------------------------------------------------------------------

\* The targets are the nodes with an address, all of them, in their order.
LEMMA TargetsInOrder ==
  ASSUME NEW s, IsList(s.nodes)
  PROVE  /\ IsList(Targets(s)) /\ Len(Targets(s)) = Cardinality(Addressed(s))
         /\ \A k \in DOMAIN Targets(s) :
               /\ TargetNode(s, k) \in Addressed(s)
               /\ Targets(s)[k] = [name |-> s.nodes[TargetNode(s, k)].name,
                                   ip |-> s.nodes[TargetNode(s, k)].ip]
         /\ \A i \in Addressed(s) : \E k \in DOMAIN Targets(s) : TargetNode(s, k) = i
         /\ \A k, l \in DOMAIN Targets(s) : k < l => TargetNode(s, k) < TargetNode(s, l)
  <1> DEFINE S == Addressed(s)
             n == Cardinality(S)
  <1>1. Len(s.nodes) \in Nat /\ S \in SUBSET (1 .. Len(s.nodes))
    BY ListDomain DEF Addressed
  <1>2. IsFiniteSet(S) /\ n \in Nat
    <2>1. IsFiniteSet(1 .. Len(s.nodes))
      BY <1>1, FS_Interval
    <2>2. IsFiniteSet(S)
      BY <1>1, <2>1, FS_Subset
    <2> QED
      BY <2>2, FS_CardinalityType
  <1>3. DOMAIN Targets(s) = 1 .. n /\ Targets(s) = [k \in 1 .. n |-> Targets(s)[k]]
    BY DEF Targets
  <1>4. IsList(Targets(s)) /\ Len(Targets(s)) = n
    BY <1>2, <1>3, ListOf
  <1>5. ASSUME NEW k \in 1 .. n PROVE TargetNode(s, k) \in S /\ Rank(S, TargetNode(s, k)) = k
    <2>1. \E i \in S : Rank(S, i) = k
      BY <1>1, RankTakesAll
    <2> QED
      BY <2>1 DEF TargetNode, Rank
  <1>6. ASSUME NEW i \in S, NEW j \in S, Rank(S, i) <= Rank(S, j) PROVE i <= j
    <2>1. i \in Int /\ j \in Int /\ Rank(S, i) \in 1 .. n /\ Rank(S, j) \in 1 .. n
      <3>1. Rank(S, i) \in 1 .. n /\ Rank(S, j) \in 1 .. n
        BY <1>1, RankType
      <3> QED
        BY <1>1, <3>1
    <2> SUFFICES ASSUME j < i PROVE FALSE
      BY <2>1
    <2>2. Rank(S, j) < Rank(S, i)
      BY <1>1, RankGrows
    <2> QED
      BY <1>6, <2>1, <2>2
  <1>7. ASSUME NEW i \in S PROVE \E k \in 1 .. n : TargetNode(s, k) = i
    <2>1. Rank(S, i) \in 1 .. n
      BY <1>1, RankType
    <2>2. PICK k \in 1 .. n : k = Rank(S, i)
      BY <2>1
    <2>3. TargetNode(s, k) \in S /\ Rank(S, TargetNode(s, k)) = Rank(S, i)
      BY <1>5, <2>2
    <2>4. TargetNode(s, k) <= i /\ i <= TargetNode(s, k)
      BY <1>2, <1>6, <2>1, <2>3
    <2>5. TargetNode(s, k) \in Int /\ i \in Int
      BY <1>1, <2>3
    <2> QED
      BY <2>4, <2>5
  <1>8. ASSUME NEW k \in 1 .. n, NEW l \in 1 .. n, k < l PROVE TargetNode(s, k) < TargetNode(s, l)
    <2>1. TargetNode(s, k) \in S /\ TargetNode(s, l) \in S
      BY <1>5
    <2>2. TargetNode(s, k) <= TargetNode(s, l)
      BY <1>2, <1>5, <1>6, <1>8, <2>1
    <2>3. TargetNode(s, k) # TargetNode(s, l)
      BY <1>2, <1>5, <1>8
    <2>4. TargetNode(s, k) \in Int /\ TargetNode(s, l) \in Int
      BY <1>1, <2>1
    <2> QED
      BY <2>2, <2>3, <2>4
  <1>9. \A k \in 1 .. n : Targets(s)[k] = [name |-> s.nodes[TargetNode(s, k)].name,
                                          ip |-> s.nodes[TargetNode(s, k)].ip]
    BY DEF Targets
  <1> QED
    BY <1>3, <1>4, <1>5, <1>7, <1>8, <1>9

\* Another order of a list is a list with the same elements.
LEMMA OrdersHoldTheSame ==
  ASSUME NEW list, IsList(list), NEW other \in Orders(list)
  PROVE  IsList(other) /\ Len(other) = Len(list) /\ SameTargets(other, list)
  <1>1. PICK order \in Bijection(DOMAIN list, DOMAIN list) :
           other = [i \in DOMAIN list |-> list[order[i]]]
    BY DEF Orders
  <1>2. Len(list) \in Nat /\ DOMAIN list = 1 .. Len(list)
    BY ListDomain
  <1>3. DOMAIN other = 1 .. Len(list) /\ other = [i \in 1 .. Len(list) |-> other[i]]
    BY <1>1, <1>2
  <1>4. IsList(other) /\ Len(other) = Len(list)
    BY <1>2, <1>3, ListOf
  <1>5. order \in Bijection(DOMAIN other, DOMAIN list) /\ \A i \in DOMAIN other : list[order[i]] = other[i]
    BY <1>1, <1>2, <1>3
  <1> QED
    BY <1>4, <1>5, PairedLists

\* The pools of a specification, and what the API may make of them.
LEMMA SpecPools ==
  ASSUME NEW s, IsList(s.nodes), IsList(s.ports), NEW spec, spec = lbSpecFromService(s)
  PROVE  /\ IsList(spec.pools)
         /\ \A i \in DOMAIN spec.pools : IsList(spec.pools[i].targets)
  <1>1. spec.pools = TargetPools(s)
    BY DEF lbSpecFromService
  <1>2. Len(s.ports) \in Nat /\ DOMAIN s.ports = 1 .. Len(s.ports)
    BY ListDomain
  <1>3. /\ DOMAIN TargetPools(s) = 1 .. Len(s.ports)
        /\ TargetPools(s) = [i \in 1 .. Len(s.ports) |-> TargetPools(s)[i]]
        /\ \A i \in 1 .. Len(s.ports) : TargetPools(s)[i].targets = Targets(s)
    BY <1>2 DEF TargetPools
  <1>4. IsList(TargetPools(s))
    BY <1>2, <1>3, ListOf
  <1> QED
    BY <1>1, <1>3, <1>4, TargetsInOrder

LEMMA ReorderedPools ==
  ASSUME NEW pools, IsList(pools), \A i \in DOMAIN pools : IsList(pools[i].targets),
         \A i \in DOMAIN pools : DOMAIN pools[i] = PoolFields,
         NEW stored \in Reordered(pools)
  PROVE  /\ IsList(stored) /\ Len(stored) = Len(pools) /\ DOMAIN stored = DOMAIN pools
         /\ \A i \in DOMAIN pools :
               /\ IsList(stored[i].targets) /\ DOMAIN stored[i] = PoolFields
               /\ stored[i].name = pools[i].name /\ stored[i].port = pools[i].port
               /\ stored[i].sourceIP = pools[i].sourceIP /\ stored[i].check = pools[i].check
               /\ SameTargets(stored[i].targets, pools[i].targets)
               /\ SliceEqualUnordered(stored[i].targets, pools[i].targets)
  <1>1. PICK targets :
           /\ stored = [i \in DOMAIN pools |-> [pools[i] EXCEPT !.targets = targets[i]]]
           /\ \A i \in DOMAIN pools : targets[i] \in Orders(pools[i].targets)
    BY DEF Reordered
  <1>2. Len(pools) \in Nat /\ DOMAIN pools = 1 .. Len(pools)
    BY ListDomain
  <1>3. DOMAIN stored = 1 .. Len(pools) /\ stored = [i \in 1 .. Len(pools) |-> stored[i]]
    BY <1>1, <1>2
  <1>4. IsList(stored) /\ Len(stored) = Len(pools)
    BY <1>2, <1>3, ListOf
  <1>5. ASSUME NEW i \in DOMAIN pools
        PROVE  /\ stored[i].targets = targets[i] /\ stored[i].name = pools[i].name
               /\ stored[i].port = pools[i].port /\ stored[i].sourceIP = pools[i].sourceIP
               /\ stored[i].check = pools[i].check /\ DOMAIN stored[i] = PoolFields
    BY <1>1 DEF PoolFields
  <1>6. ASSUME NEW i \in DOMAIN pools
        PROVE  /\ IsList(targets[i]) /\ SameTargets(targets[i], pools[i].targets)
               /\ SliceEqualUnordered(targets[i], pools[i].targets)
    BY <1>1, OrdersHoldTheSame, MatchingComplete
  <1> QED
    BY <1>2, <1>3, <1>4, <1>5, <1>6

\* A specification is private, ephemeral, or has an address.
LEMMA SpecShape ==
  ASSUME NEW s, NEW spec, spec = lbSpecFromService(s)
  PROVE  /\ spec.private \in BOOLEAN /\ spec.ephemeral \in BOOLEAN
         /\ spec.private => ~spec.ephemeral
         /\ spec.address = Absent <=> spec.private \/ spec.ephemeral
  <1>1. /\ spec.private = Private(s) /\ spec.ephemeral = Ephemeral(s)
        /\ spec.address = IF Private(s) \/ Ephemeral(s) THEN Absent ELSE Address(s)
    BY DEF lbSpecFromService
  <1>2. Private(s) \in BOOLEAN /\ Ephemeral(s) \in BOOLEAN /\ (Private(s) => ~Ephemeral(s))
    BY DEF Private, Ephemeral, IsTrue
  <1>3. ~Private(s) /\ ~Ephemeral(s) => Address(s) # Absent
    BY DEF Ephemeral, Address, Found
  <1> QED
    BY <1>1, <1>2, <1>3

\* What the API keeps of a specification.
LEMMA StoredFields ==
  ASSUME NEW s, NEW spec, spec = lbSpecFromService(s), NEW address, NEW disabled,
         NEW l \in Stored(spec, address, disabled)
  PROVE  /\ l.address = address /\ l.disableTargetSecurityGroupAssignment = disabled
         /\ l.private = spec.private /\ l.ephemeral = spec.ephemeral
         /\ l.planId = spec.planId /\ l.networks = spec.networks
         /\ l.listeners = spec.listeners /\ l.ranges = spec.ranges
         /\ l.observability = spec.observability
         /\ l.pools \in Reordered(spec.pools)
         /\ DOMAIN l = LBFields
  <1>1. PICK pools \in Reordered(spec.pools) :
           l = [spec EXCEPT !.address = address, !.pools = pools,
                            !.disableTargetSecurityGroupAssignment = disabled]
    BY DEF Stored
  <1> QED
    BY <1>1 DEF lbSpecFromService, LBFields

\* compareLBwithSpec and the API agree on what cannot be changed.
LEMMA ImmutableAgrees ==
  ASSUME AddressInv, lb # Absent, NEW s, NEW spec, spec = lbSpecFromService(s)
  PROVE  ImmutableChanged(lb, spec) <=> ~Accepts(lb, spec)
  <1>1. /\ spec.private \in BOOLEAN /\ spec.ephemeral \in BOOLEAN
        /\ spec.private => ~spec.ephemeral
        /\ spec.address = Absent <=> spec.private \/ spec.ephemeral
    BY SpecShape
  <1> QED
    BY <1>1 DEF ImmutableChanged, AddressChanged, NetworksChanged, Accepts, Found, AddressInv

\* A load balancer whose immutable part is as asked has the address of a new one, and is
\* ephemeral if a new one is, unless it is about to be made static.
LEMMA AddressAsNew ==
  ASSUME AddressInv, lb # Absent, NEW s, NEW spec, spec = lbSpecFromService(s),
         ~ImmutableChanged(lb, spec)
  PROVE  /\ lb.private = spec.private /\ lb.networks = spec.networks
         /\ lb.address = FirstAddress(spec)
         /\ lb.ephemeral = spec.ephemeral \/ (Found(spec.address) /\ lb.ephemeral)
  <1>1. /\ spec.private \in BOOLEAN /\ spec.ephemeral \in BOOLEAN
        /\ spec.private => ~spec.ephemeral
        /\ spec.address = Absent <=> spec.private \/ spec.ephemeral
    BY SpecShape
  <1> QED
    BY <1>1
    DEF ImmutableChanged, AddressChanged, NetworksChanged, Found, AddressInv, FirstAddress

\* The service, with its nodes and ports.
Typed(s) == DOMAIN s = DOMAIN Values /\ \A f \in DOMAIN Values : s[f] \in Values[f]

LEMMA TypedLists ==
  ASSUME NEW s, Typed(s)
  PROVE  IsList(s.nodes) /\ IsList(s.ports)
  <1>1. s["nodes"] \in Values["nodes"] /\ s["ports"] \in Values["ports"]
    BY SpecAssumption DEF Typed
  <1> QED
    BY <1>1, SpecAssumption DEF IsList

LEMMA PlanAvailable ==
  ASSUME NEW s, ~Invalid(s)
  PROVE  lbSpecFromService(s).planId \in Plans
  <1>1. ~PlanInvalid(s)
    BY DEF Invalid
  <1>2. getPlanID(s) \in Plans
    BY <1>1, SpecAssumption DEF PlanInvalid, getPlanID
  <1> QED
    BY <1>2 DEF lbSpecFromService

\* Its target pools.
LEMMA StoredPools ==
  ASSUME NEW s, Typed(s), NEW spec, spec = lbSpecFromService(s), NEW address, NEW disabled,
         NEW l \in Stored(spec, address, disabled)
  PROVE  /\ IsList(l.pools) /\ Len(l.pools) = Len(spec.pools) /\ DOMAIN l.pools = DOMAIN spec.pools
         /\ \A i \in DOMAIN spec.pools :
               /\ IsList(l.pools[i].targets) /\ DOMAIN l.pools[i] = PoolFields
               /\ l.pools[i].name = spec.pools[i].name /\ l.pools[i].port = spec.pools[i].port
               /\ l.pools[i].sourceIP = spec.pools[i].sourceIP
               /\ l.pools[i].check = spec.pools[i].check
               /\ SameTargets(l.pools[i].targets, spec.pools[i].targets)
               /\ SliceEqualUnordered(l.pools[i].targets, spec.pools[i].targets)
  <1>1. l.pools \in Reordered(spec.pools)
    BY StoredFields
  <1>2. IsList(spec.pools) /\ \A i \in DOMAIN spec.pools : IsList(spec.pools[i].targets)
    BY TypedLists, SpecPools
  <1>3. spec.pools = TargetPools(s)
    BY DEF lbSpecFromService
  <1>4. \A i \in DOMAIN spec.pools : DOMAIN spec.pools[i] = PoolFields
    BY <1>3 DEF TargetPools, PoolFields
  <1> QED
    BY <1>1, <1>2, <1>4, ReorderedPools

\* A load balancer that was created or updated is what the specification asks for, and
\* the next comparison finds nothing to do.
LEMMA StoredKeeps ==
  ASSUME NEW s, Typed(s), ~Invalid(s), NEW spec, spec = lbSpecFromService(s),
         NEW disabled, lb' \in Stored(spec, FirstAddress(spec), disabled),
         svc' = s, outcome' \in {"created", "updated"}, edits' \in Nat
  PROVE  SpecInv'
  <1>1. /\ spec.private \in BOOLEAN /\ spec.ephemeral \in BOOLEAN
        /\ spec.private => ~spec.ephemeral
        /\ spec.address = Absent <=> spec.private \/ spec.ephemeral
    BY SpecShape
  <1>2. /\ lb'.address = FirstAddress(spec)
        /\ lb'.private = spec.private /\ lb'.ephemeral = spec.ephemeral
        /\ lb'.planId = spec.planId /\ lb'.networks = spec.networks
        /\ lb'.listeners = spec.listeners /\ lb'.ranges = spec.ranges
        /\ lb'.observability = spec.observability /\ DOMAIN lb' = LBFields
    BY StoredFields
  <1>r. /\ IsList(lb'.pools) /\ Len(lb'.pools) = Len(spec.pools) /\ DOMAIN lb'.pools = DOMAIN spec.pools
        /\ \A i \in DOMAIN spec.pools :
              /\ IsList(lb'.pools[i].targets) /\ DOMAIN lb'.pools[i] = PoolFields
              /\ lb'.pools[i].name = spec.pools[i].name /\ lb'.pools[i].port = spec.pools[i].port
              /\ lb'.pools[i].sourceIP = spec.pools[i].sourceIP
              /\ lb'.pools[i].check = spec.pools[i].check
              /\ SameTargets(lb'.pools[i].targets, spec.pools[i].targets)
              /\ SliceEqualUnordered(lb'.pools[i].targets, spec.pools[i].targets)
    BY StoredPools
  <1>s. lbSpecFromService(svc)' = spec
    OBVIOUS
  <1>3. AddressInv'
    BY <1>1, <1>2, SpecAssumption DEF AddressInv, FirstAddress
  <1>4. OutcomeInv'
    BY DEF OutcomeInv
  <1>5. FieldsAsNew'
    BY <1>2, <1>s DEF FieldsAsNew
  <1>6. PoolsAsNew'
    BY <1>r, <1>s DEF PoolsAsNew
  <1>7. NoUpdateLoop'
    <2>1. PoolsFulfilled(lb', spec)
      BY <1>r DEF PoolsFulfilled
    <2>2. Fulfills(lb', spec)
      BY <1>1, <1>2, <2>1 DEF Fulfills, ListenersFulfilled, Found
    <2>3. ~ImmutableChanged(lb', spec)
      BY <1>1, <1>2
      DEF ImmutableChanged, AddressChanged, NetworksChanged, Found, FirstAddress
    <2> QED
      BY <1>s, <2>2, <2>3 DEF NoUpdateLoop
  <1>8. ListInv'
    <2>1. lb'.planId \in Plans
      BY <1>2, PlanAvailable
    <2>2. TypeOK'
      BY <1>1, <1>2, <2>1 DEF TypeOK, Typed
    <2> QED
      BY <1>2, <1>r, <2>2 DEF ListInv, Typed
  <1> QED
    BY <1>3, <1>4, <1>5, <1>6, <1>7, <1>8 DEF SpecInv

\* A step that leaves the load balancer alone keeps its shape.
LEMMA Untouched ==
  ASSUME ListInv, AddressInv, lb' = lb, Typed(svc'), edits' \in Nat,
         outcome' \in {"none", "kept", "invalid", "immutable"}
  PROVE  ListInv' /\ AddressInv'
  <1>1. TypeOK'
    BY DEF ListInv, TypeOK, Typed
  <1>2. ListInv'
    BY <1>1 DEF ListInv, Typed
  <1> QED
    BY <1>2 DEF AddressInv

LEMMA ReconcileInv ==
  ASSUME SpecInv, Reconcile
  PROVE  SpecInv'
  <1> DEFINE spec == lbSpecFromService(svc)
  <1>0. svc' = svc /\ AddressInv /\ ListInv /\ edits' = edits /\ edits' \in Nat /\ Typed(svc)
    BY DEF Reconcile, SpecInv, ListInv, TypeOK, Typed
  <1>1. CASE Invalid(svc)
    <2>1. outcome' = "invalid" /\ lb' = lb
      BY <1>1 DEF Reconcile
    <2>2. ListInv' /\ AddressInv'
      BY <1>0, <2>1, Untouched
    <2> QED
      BY <2>1, <2>2 DEF SpecInv, OutcomeInv, FieldsAsNew, PoolsAsNew, NoUpdateLoop
  <1>2. CASE ~Invalid(svc) /\ lb = Absent
    <2>1. /\ outcome' = "created"
          /\ lb' \in Stored(spec, FirstAddress(spec), spec.disableTargetSecurityGroupAssignment)
      BY <1>2 DEF Reconcile
    <2> QED
      BY <1>0, <1>2, <2>1, StoredKeeps
  <1>3. CASE ~Invalid(svc) /\ lb # Absent /\ ImmutableChanged(lb, spec)
    <2>1. outcome' = "immutable" /\ lb' = lb
      BY <1>3 DEF Reconcile
    <2>2. ListInv' /\ AddressInv'
      BY <1>0, <2>1, Untouched
    <2>3. OutcomeInv'
      BY <1>0, <1>3, <2>1 DEF OutcomeInv, ImmutableChanged, AddressChanged, NetworksChanged
    <2> QED
      BY <2>1, <2>2, <2>3 DEF SpecInv, FieldsAsNew, PoolsAsNew, NoUpdateLoop
  <1>4. CASE ~Invalid(svc) /\ lb # Absent /\ ~ImmutableChanged(lb, spec)
    <2>a. /\ lb.private = spec.private /\ lb.networks = spec.networks
          /\ lb.address = FirstAddress(spec)
          /\ lb.ephemeral = spec.ephemeral \/ (Found(spec.address) /\ lb.ephemeral)
      BY <1>0, <1>4, AddressAsNew
    <2>1. CASE Fulfills(lb, spec)
      <3>1. outcome' = "kept" /\ lb' = lb
        BY <1>4, <2>1 DEF Reconcile
      <3>2. ListInv' /\ AddressInv' /\ OutcomeInv' /\ NoUpdateLoop'
        BY <1>0, <3>1, Untouched DEF OutcomeInv, NoUpdateLoop
      <3>3. /\ lb.ephemeral = spec.ephemeral
            /\ lb.planId = spec.planId /\ lb.listeners = spec.listeners
            /\ lb.ranges = spec.ranges /\ lb.observability = spec.observability
        BY <2>a, <2>1 DEF Fulfills, ListenersFulfilled
      <3>4. lbSpecFromService(svc)' = spec
        BY <1>0
      <3>5. FieldsAsNew'
        BY <2>a, <3>1, <3>3, <3>4 DEF FieldsAsNew
      <3>6. PoolsFulfilled(lb, spec)
        BY <2>1 DEF Fulfills
      <3>7. /\ IsList(spec.pools) /\ \A i \in DOMAIN spec.pools : IsList(spec.pools[i].targets)
            /\ IsList(lb.pools) /\ \A i \in DOMAIN lb.pools : IsList(lb.pools[i].targets)
        BY <1>0, <1>4, TypedLists, SpecPools DEF ListInv
      <3>8. Len(lb.pools) = Len(spec.pools) /\ DOMAIN lb.pools = DOMAIN spec.pools
        BY <3>6, <3>7, ListDomain DEF PoolsFulfilled
      <3>9. \A i \in DOMAIN spec.pools : SameTargets(lb.pools[i].targets, spec.pools[i].targets)
        BY <3>6, <3>7, <3>8, MatchingSound DEF PoolsFulfilled
      <3>10. \A i \in DOMAIN spec.pools :
                /\ lb.pools[i].name = spec.pools[i].name /\ lb.pools[i].port = spec.pools[i].port
                /\ lb.pools[i].sourceIP = spec.pools[i].sourceIP
                /\ lb.pools[i].check = spec.pools[i].check
        BY <3>6, <3>8 DEF PoolsFulfilled
      <3>11. PoolsAsNew'
        BY <3>1, <3>4, <3>8, <3>9, <3>10 DEF PoolsAsNew
      <3> QED
        BY <3>2, <3>5, <3>11 DEF SpecInv
    <2>2. CASE ~Fulfills(lb, spec)
      <3>1. Accepts(lb, spec)
        BY <1>0, <1>4, ImmutableAgrees
      <3>2. /\ outcome' = "updated"
            /\ lb' \in Stored(spec, lb.address, lb.disableTargetSecurityGroupAssignment)
        BY <1>4, <2>2, <3>1 DEF Reconcile
      <3> QED
        BY <1>0, <1>4, <2>a, <3>2, StoredKeeps
    <2> QED
      BY <2>1, <2>2
  <1> QED
    BY <1>1, <1>2, <1>3, <1>4

LEMMA SetHealthCheckInv ==
  ASSUME SpecInv, SetHealthCheck
  PROVE  SpecInv'
  <1>1. PICK i \in DOMAIN lb.pools, check \in HealthChecks :
           lb' = [lb EXCEPT !.pools[i].check = check]
    BY DEF SetHealthCheck
  <1>2. outcome' = "none" /\ svc' = svc /\ edits' \in Nat /\ lb # Absent
    BY DEF SetHealthCheck, SpecInv, ListInv, TypeOK
  <1>3. /\ DOMAIN lb = LBFields /\ IsList(lb.pools)
        /\ \A j \in DOMAIN lb.pools :
              DOMAIN lb.pools[j] = PoolFields /\ IsList(lb.pools[j].targets)
    BY <1>2 DEF SpecInv, ListInv
  <1>4. /\ DOMAIN lb' = LBFields /\ \A f \in LBFields \ {"pools"} : lb'[f] = lb[f]
        /\ lb'.pools = [lb.pools EXCEPT ![i].check = check]
    BY <1>1, <1>3 DEF LBFields
  <1>5. DOMAIN lb'.pools = DOMAIN lb.pools /\ lb'.pools = [j \in DOMAIN lb.pools |-> lb'.pools[j]]
    BY <1>4
  <1>6. IsList(lb'.pools)
    BY <1>3, <1>5, ListDomain, ListOf
  <1>7. ASSUME NEW j \in DOMAIN lb.pools
        PROVE  DOMAIN lb'.pools[j] = PoolFields /\ IsList(lb'.pools[j].targets)
    <2>1. DOMAIN lb'.pools[j] = PoolFields /\ lb'.pools[j].targets = lb.pools[j].targets
      BY <1>3, <1>4 DEF PoolFields
    <2> QED
      BY <1>3, <2>1
  <1>8. /\ lb'.private = lb.private /\ lb'.ephemeral = lb.ephemeral
        /\ lb'.address = lb.address /\ lb'.planId = lb.planId
    BY <1>4 DEF LBFields
  <1>9. ListInv'
    BY <1>2, <1>4, <1>5, <1>6, <1>7, <1>8 DEF SpecInv, ListInv, TypeOK
  <1>10. AddressInv'
    BY <1>2, <1>8 DEF SpecInv, AddressInv
  <1> QED
    BY <1>2, <1>9, <1>10 DEF SpecInv, OutcomeInv, NoUpdateLoop, FieldsAsNew, PoolsAsNew

\* The load balancer of an earlier version of the controller.
LEMMA EarlierInv ==
  ASSUME Init
  PROVE  ListInv /\ AddressInv
  <1>1. svc = Start /\ outcome = "none" /\ edits \in Nat /\ Typed(svc)
    BY SpecAssumption DEF Init, Typed
  <1>2. CASE lb = Absent
    BY <1>1, <1>2 DEF ListInv, TypeOK, AddressInv, Typed
  <1>3. CASE lb # Absent
    <2> DEFINE spec == lbSpecFromService(svc)
    <2>1. ~Invalid(svc) /\ lb \in Stored(spec, FirstAddress(spec), Absent)
      BY <1>3 DEF Init
    <2>2. /\ spec.private \in BOOLEAN /\ spec.ephemeral \in BOOLEAN
          /\ spec.private => ~spec.ephemeral
          /\ spec.address = Absent <=> spec.private \/ spec.ephemeral
      BY SpecShape
    <2>3. spec.planId \in Plans
      BY <2>1, PlanAvailable
    <2> HIDE DEF spec
    <2>4. /\ lb.address = FirstAddress(spec) /\ DOMAIN lb = LBFields
          /\ lb.private = spec.private /\ lb.ephemeral = spec.ephemeral
          /\ lb.planId = spec.planId
      BY <2>1, StoredFields DEF spec
    <2>5. /\ IsList(lb.pools) /\ DOMAIN lb.pools = DOMAIN spec.pools
          /\ \A i \in DOMAIN spec.pools :
                IsList(lb.pools[i].targets) /\ DOMAIN lb.pools[i] = PoolFields
      BY <1>1, <2>1, StoredPools DEF spec
    <2>6. AddressInv
      BY <2>2, <2>4, SpecAssumption DEF AddressInv, FirstAddress
    <2>7. ListInv
      BY <1>1, <2>2, <2>3, <2>4, <2>5 DEF ListInv, TypeOK, Typed
    <2> QED
      BY <2>6, <2>7
  <1> QED
    BY <1>2, <1>3

\* What compareLBwithSpec and the API establish together, over any sequence of edits and
\* reconciliations.
THEOREM SpecInvariant == Spec => []SpecInv
  <1>1. Init => SpecInv
    <2> SUFFICES ASSUME Init PROVE SpecInv
      OBVIOUS
    <2>1. ListInv /\ AddressInv
      BY EarlierInv
    <2> QED
      BY <2>1 DEF Init, SpecInv, OutcomeInv, NoUpdateLoop, FieldsAsNew, PoolsAsNew
  <1>2. SpecInv /\ [Next]_vars => SpecInv'
    <2> SUFFICES ASSUME SpecInv, [Next]_vars PROVE SpecInv'
      OBVIOUS
    <2>0. CASE SetHealthCheck
      BY <2>0, SetHealthCheckInv
    <2>1. CASE Reconcile
      BY <2>1, ReconcileInv
    <2>2. ASSUME NEW f \in DOMAIN Values, NEW v \in Values[f], Edit(f, v) PROVE SpecInv'
      <3>1. outcome' = "none" /\ lb' = lb /\ svc' = [svc EXCEPT ![f] = v] /\ edits' = edits - 1 /\ edits > 0
        BY <2>2 DEF Edit
      <3>2. Typed(svc') /\ edits' \in Nat
        BY <3>1 DEF SpecInv, ListInv, TypeOK, Typed
      <3>3. ListInv' /\ AddressInv'
        BY <3>1, <3>2, Untouched DEF SpecInv
      <3> QED
        BY <3>1, <3>3 DEF SpecInv, OutcomeInv, NoUpdateLoop, FieldsAsNew, PoolsAsNew
    <2>3. CASE UNCHANGED vars
      <3>1. svc' = svc /\ lb' = lb /\ outcome' = outcome /\ edits' = edits
        BY <2>3 DEF vars
      <3>2. lbSpecFromService(svc)' = lbSpecFromService(svc)
        BY <3>1
      <3>3. ListInv' /\ AddressInv'
        BY <3>1 DEF SpecInv, ListInv, TypeOK, AddressInv
      <3>4. OutcomeInv'
        BY <3>1, <3>2 DEF SpecInv, OutcomeInv, ImmutableChanged, AddressChanged, NetworksChanged
      <3>5. FieldsAsNew' /\ PoolsAsNew'
        BY <3>1, <3>2 DEF SpecInv, FieldsAsNew, PoolsAsNew
      <3>6. NoUpdateLoop'
        BY <3>1, <3>2 DEF SpecInv, NoUpdateLoop
      <3> QED
        BY <3>3, <3>4, <3>5, <3>6 DEF SpecInv
    <2> QED
      BY <2>0, <2>1, <2>2, <2>3 DEF Next
  <1> QED
    BY <1>1, <1>2, PTL DEF Spec

\* Type correctness; a load balancer always has a plan that exists.
THEOREM TypeCorrect == Spec => []TypeOK
  <1>1. SpecInv => TypeOK
    BY DEF SpecInv, ListInv
  <1> QED
    BY <1>1, SpecInvariant, PTL

\* compareLBwithSpec reports an immutable change exactly when the API would refuse the
\* update (loadbalancer_spec.go: private address, external address, networks), for any
\* values that users and operators may set and any history of the load balancer.
THEOREM ImmutableExact == Spec => []ImmutableIsExact
  <1>1. SpecInv => ImmutableIsExact
    BY ImmutableAgrees DEF SpecInv, OutcomeInv, ImmutableIsExact
  <1> QED
    BY <1>1, SpecInvariant, PTL

\* After a create or an update compareLBwithSpec finds the load balancer as specified, in
\* whatever order the API gives the targets back, nodes that are listed twice included: no
\* reconciliation updates again.
THEOREM UpdatesSettle == Spec => []NoUpdateLoop
  <1>1. SpecInv => NoUpdateLoop
    BY DEF SpecInv
  <1> QED
    BY <1>1, SpecInvariant, PTL

\* After a reconciliation the load balancer is, labels and the order of targets aside, the
\* one that would be created afresh (EnsureLoadBalancer with compareLBwithSpec), whatever
\* edits, health checks set up past the controller and reconciliations went before; and no
\* step changes the assignment of security groups of a load balancer that is there.
THEOREM HistoryForgotten == Spec => NoHistory
  <1>1. SpecInv => FieldsAsNew /\ PoolsAsNew
    BY DEF SpecInv
  <1>2. SpecInv /\ [Next]_vars =>
          [lb # Absent => lb'.disableTargetSecurityGroupAssignment
                            = lb.disableTargetSecurityGroupAssignment]_vars
    <2> SUFFICES ASSUME SpecInv, Next, lb # Absent
                 PROVE  lb'.disableTargetSecurityGroupAssignment
                          = lb.disableTargetSecurityGroupAssignment
      OBVIOUS
    <2>1. CASE \E f \in DOMAIN Values : \E v \in Values[f] : Edit(f, v)
      BY <2>1 DEF Edit
    <2>2. CASE SetHealthCheck
      <3>1. DOMAIN lb = LBFields
        BY DEF SpecInv, ListInv
      <3>2. PICK i \in DOMAIN lb.pools, check \in HealthChecks :
               lb' = [lb EXCEPT !.pools[i].check = check]
        BY <2>2 DEF SetHealthCheck
      <3> QED
        BY <3>1, <3>2 DEF LBFields
    <2>3. CASE Reconcile
      <3> DEFINE spec == lbSpecFromService(svc)
      <3>1. \/ lb' = lb
            \/ lb' \in Stored(spec, lb.address, lb.disableTargetSecurityGroupAssignment)
        BY <2>3 DEF Reconcile
      <3>2. spec = lbSpecFromService(svc)
        OBVIOUS
      <3> HIDE DEF spec
      <3> QED
        BY <3>1, <3>2, StoredFields
    <2> QED
      BY <2>1, <2>2, <2>3 DEF Next
  <1> QED
    BY <1>1, <1>2, SpecInvariant, PTL DEF Spec, NoHistory

=============================================================================
