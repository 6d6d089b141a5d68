-------------------------- MODULE BatchCheck_proofs ----------------------------
(***************************************************************************)
(* Proofs about BatchCheck, for any number of concurrent batches of any    *)
(* length, any requests and any number of slabs: what the planner puts     *)
(* into groups, and that answers and charges belong to their requests.     *)
(***************************************************************************)
EXTENDS BatchCheck, FunctionTheorems, FiniteSetTheorems, SequenceTheorems, TLAPS

------------------------------------------------------------------------------
(* Counting through a finite set of numbers *)

\* The rank of an element determines it: the function that maps each element
\* to its rank is a bijection onto the ranks.
LEMMA RankBijective ==
  ASSUME NEW S \in SUBSET Nat, IsFiniteSet(S)
  PROVE  LET rank == [i \in S |-> Cardinality({j \in S : j <= i})]
         IN  /\ rank \in Injection(S, 1..Cardinality(S))
             /\ rank \in Surjection(S, 1..Cardinality(S))
<1> DEFINE rank == [i \in S |-> Cardinality({j \in S : j <= i})]
           below(i) == {j \in S : j <= i}
<1>0. \A i \in S : i \in Nat
  OBVIOUS
<1>1. \A i \in S : /\ IsFiniteSet(below(i)) /\ Cardinality(below(i)) \in Nat
                   /\ Cardinality(below(i)) <= Cardinality(S)
                   /\ Cardinality(below(i)) # 0
  <2> TAKE i \in S
  <2>1. below(i) \in SUBSET S
    OBVIOUS
  <2>2. IsFiniteSet(below(i)) /\ Cardinality(below(i)) <= Cardinality(S)
    BY <2>1, FS_Subset
  <2>3. i \in below(i)
    OBVIOUS
  <2>4. Cardinality(below(i)) # 0
    BY <2>2, <2>3, FS_EmptySet
  <2> QED
    BY <2>2, <2>4, FS_CardinalityType
<1>2. Cardinality(S) \in Nat
  BY FS_CardinalityType
<1>3. rank \in [S -> 1..Cardinality(S)]
  BY <1>1, <1>2
<1>4. ASSUME NEW i \in S, NEW k \in S, i < k
      PROVE  rank[i] # rank[k]
  <2>1. \A j \in S : j <= i => j <= k
    BY <1>0, <1>4
  <2>2. below(i) \in SUBSET below(k)
    BY <2>1
  <2>3. k <= k /\ ~(k <= i)
    BY <1>0, <1>4
  <2>4. k \in below(k) /\ k \notin below(i)
    BY <2>3
  <2>5. Cardinality(below(i)) # Cardinality(below(k))
    BY <1>1, <2>2, <2>4, FS_Subset
  <2> QED
    BY <2>5
<1>5. \A i, k \in S : rank[i] = rank[k] => i = k
  <2> SUFFICES ASSUME NEW i \in S, NEW k \in S, i # k
               PROVE  rank[i] # rank[k]
    OBVIOUS
  <2>1. i < k \/ k < i
    BY <1>0
  <2> QED
    BY <1>4, <2>1
<1>6. rank \in Injection(S, 1..Cardinality(S))
  BY <1>3, <1>5 DEF Injection, IsInjective
<1>7. IsFiniteSet(1..Cardinality(S)) /\ Cardinality(1..Cardinality(S)) = Cardinality(S)
  BY <1>2, FS_Interval
<1>8. rank \in Surjection(S, 1..Cardinality(S))
  BY <1>6, <1>7, FS_Injection
<1> QED
  BY <1>6, <1>8

\* The n-th element is one of the set and has rank n.
LEMMA NthElement ==
  ASSUME NEW S \in SUBSET Nat, IsFiniteSet(S), NEW n \in 1..Cardinality(S)
  PROVE  Nth(S, n) \in S /\ Cardinality({j \in S : j <= Nth(S, n)}) = n
<1>1. \E i \in S : Cardinality({j \in S : j <= i}) = n
  BY RankBijective DEF Surjection
<1> QED
  BY <1>1 DEF Nth

\* Different ranks are ranks of different elements.
LEMMA NthInjective ==
  ASSUME NEW S \in SUBSET Nat, IsFiniteSet(S),
         NEW m \in 1..Cardinality(S), NEW n \in 1..Cardinality(S), Nth(S, m) = Nth(S, n)
  PROVE  m = n
<1>1. Cardinality({j \in S : j <= Nth(S, m)}) = m
  BY NthElement
<1>2. Cardinality({j \in S : j <= Nth(S, n)}) = n
  BY NthElement
<1> QED
  BY <1>1, <1>2

\* Every element has a rank.
LEMMA NthReaches ==
  ASSUME NEW S \in SUBSET Nat, IsFiniteSet(S), NEW i \in S
  PROVE  \E n \in 1..Cardinality(S) : Nth(S, n) = i
<1> DEFINE rank == [k \in S |-> Cardinality({j \in S : j <= k})]
<1>0. rank \in Injection(S, 1..Cardinality(S))
  BY RankBijective
<1> HIDE DEF rank
<1>1. rank[i] \in 1..Cardinality(S) /\ \A k \in S : rank[k] = rank[i] => k = i
  BY <1>0 DEF Injection, IsInjective
<1>2. Nth(S, rank[i]) \in S /\ rank[Nth(S, rank[i])] = rank[i]
  BY <1>1, NthElement DEF rank
<1> QED
  BY <1>1, <1>2

\* A set of numbers that is not empty has a least element.
LEMMA LeastElement ==
  ASSUME NEW S \in SUBSET Nat, IsFiniteSet(S), NEW i \in S
  PROVE  \E l \in S : \A j \in S : l <= j
<1> DEFINE l == Nth(S, 1)
           low == {j \in S : j <= l}
<1>1. 1 \in 1..Cardinality(S)
  BY FS_CardinalityType, FS_EmptySet
<1>2. l \in S /\ Cardinality(low) = 1
  BY <1>1, NthElement
<1>3. IsFiniteSet(low)
  BY FS_Subset
<1>4. PICK x : low = {x}
  BY <1>2, <1>3, FS_Singleton
<1>5. l \in low
  <2>1. l \in Nat
    BY <1>2
  <2>2. l <= l
    BY <2>1
  <2> QED
    BY <1>2, <2>2
<1>6. ASSUME NEW j \in S PROVE l <= j
  <2>1. j \in Nat /\ l \in Nat
    BY <1>2
  <2>2. CASE j <= l
    <3>1. j \in low
      BY <2>2
    <3>2. j = l
      BY <1>4, <1>5, <3>1 DEF low
    <3> QED
      BY <2>1, <3>2
  <2> QED
    BY <2>1, <2>2
<1> QED
  BY <1>2, <1>6

------------------------------------------------------------------------------
(* What the planner does *)

RequestList == Seq(Request \cup {NilRequest})

\* The empty error code differs from every other one.
LEMMA NoErrorIsNoCode ==
  NoError \notin {"INVALID_REQUEST", "INVALID_COST", "RULE_NOT_FOUND", "LIMITER_UNAVAILABLE"}
BY Zenon DEF NoError

\* The codes validation can give.
LEMMA ValidateValues ==
  \A q : Validate(q) \in {NoError, "INVALID_REQUEST", "INVALID_COST"}
BY DEF Validate

\* A valid request is a request.
LEMMA ValidIsRequest ==
  ASSUME NEW rs \in RequestList, NEW i \in Valid(rs)
  PROVE  /\ i \in DOMAIN rs /\ i \in Nat /\ Validate(rs[i]) = NoError /\ rs[i] \in Request
         /\ rs[i].cost \in CostType /\ <<rs[i].target, rs[i].user>> \in KeyType
<1>0. i \in DOMAIN rs
  BY DEF Valid
<1>1. i \in DOMAIN rs /\ i \in Nat /\ rs[i] \in Request \cup {NilRequest}
  BY <1>0 DEF RequestList
<1>2. Validate(rs[i]) = NoError /\ rs[i] # NilRequest
  BY NoErrorIsNoCode DEF Valid, Validate
<1> QED
  BY <1>1, <1>2 DEF CostType, KeyType

\* The sets of positions that the planner ranks are finite.
LEMMA PlanSetsFinite ==
  ASSUME NEW rs \in RequestList
  PROVE  /\ Valid(rs) \in SUBSET Nat /\ IsFiniteSet(Valid(rs))
         /\ First(rs) \in SUBSET Nat /\ IsFiniteSet(First(rs))
         /\ \A i : SameGroup(rs, i) \in SUBSET Nat /\ IsFiniteSet(SameGroup(rs, i))
<1>1. DOMAIN rs = 1..Len(rs) /\ Len(rs) \in Nat
  BY DEF RequestList
<1>2. IsFiniteSet(DOMAIN rs)
  BY <1>1, FS_Interval
<1>3. Valid(rs) \in SUBSET (DOMAIN rs)
  BY DEF Valid
<1>4. Valid(rs) \in SUBSET Nat /\ IsFiniteSet(Valid(rs))
  BY <1>1, <1>2, <1>3, FS_Subset
<1>5. First(rs) \in SUBSET Valid(rs) /\ \A i : SameGroup(rs, i) \in SUBSET Valid(rs)
  BY DEF First, SameGroup
<1> QED
  BY <1>4, <1>5, FS_Subset

\* The groups as the planner's sequence of sequences, and what an item says.
LEMMA GroupedItems ==
  ASSUME NEW rs \in RequestList
  PROVE  /\ Grouped(rs) \in Seq(Seq(Item))
         /\ DOMAIN Grouped(rs) = 1..Cardinality(First(rs))
         /\ \A n \in DOMAIN Grouped(rs) :
              /\ Nth(First(rs), n) \in First(rs)
              /\ DOMAIN Grouped(rs)[n] = 1..Cardinality(SameGroup(rs, Nth(First(rs), n)))
              /\ \A m \in DOMAIN Grouped(rs)[n] :
                   LET i == Nth(SameGroup(rs, Nth(First(rs), n)), m)
                   IN /\ i \in SameGroup(rs, Nth(First(rs), n)) /\ i \in Valid(rs)
                      /\ Grouped(rs)[n][m] = [idx |-> i, key |-> <<>>, cost |-> rs[i].cost]
<1> DEFINE same(n) == SameGroup(rs, Nth(First(rs), n))
           item(n, m) == LET i == Nth(same(n), m)
                         IN [idx |-> i, key |-> <<>>, cost |-> rs[i].cost]
           items(n) == [m \in 1..Cardinality(same(n)) |-> item(n, m)]
<1>1. Grouped(rs) = [n \in 1..Cardinality(First(rs)) |-> items(n)]
  BY DEF Grouped
<1>2. Cardinality(First(rs)) \in Nat /\ \A n : Cardinality(same(n)) \in Nat
  BY PlanSetsFinite, FS_CardinalityType
<1>3. ASSUME NEW n \in 1..Cardinality(First(rs))
      PROVE  Nth(First(rs), n) \in First(rs)
  BY <1>3, PlanSetsFinite, NthElement
<1>4. ASSUME NEW n, NEW m \in 1..Cardinality(same(n))
      PROVE  /\ Nth(same(n), m) \in same(n) /\ Nth(same(n), m) \in Valid(rs)
             /\ item(n, m) \in Item
  <2>1. Nth(same(n), m) \in same(n)
    BY <1>4, PlanSetsFinite, NthElement
  <2>2. Nth(same(n), m) \in Valid(rs)
    BY <2>1 DEF SameGroup
  <2>3. Nth(same(n), m) \in Nat /\ rs[Nth(same(n), m)].cost \in CostType
    BY <2>2, ValidIsRequest
  <2>4. <<>> \in KeyType
    BY DEF KeyType
  <2> QED
    BY <2>1, <2>2, <2>3, <2>4 DEF Item
<1> HIDE DEF item
<1>5. \A n : items(n) \in Seq(Item)
  <2> TAKE n
  <2>1. items(n) \in [1..Cardinality(same(n)) -> Item]
    BY <1>4
  <2> QED
    BY <1>2, <2>1
<1>6. Grouped(rs) \in Seq(Seq(Item))
  <2> HIDE DEF items
  <2>1. Grouped(rs) \in [1..Cardinality(First(rs)) -> Seq(Item)]
    BY <1>1, <1>5
  <2> QED
    BY <1>2, <2>1
<1>7. DOMAIN Grouped(rs) = 1..Cardinality(First(rs))
  BY <1>1
<1>8. \A n \in DOMAIN Grouped(rs) : Grouped(rs)[n] = items(n)
  BY <1>1
<1>9. \A n : /\ DOMAIN items(n) = 1..Cardinality(same(n))
             /\ \A m \in DOMAIN items(n) : items(n)[m] = item(n, m)
  OBVIOUS
<1>10. ASSUME NEW n \in DOMAIN Grouped(rs)
       PROVE  /\ Nth(First(rs), n) \in First(rs)
              /\ DOMAIN Grouped(rs)[n] = 1..Cardinality(same(n))
              /\ \A m \in DOMAIN Grouped(rs)[n] :
                   LET i == Nth(same(n), m)
                   IN /\ i \in same(n) /\ i \in Valid(rs)
                      /\ Grouped(rs)[n][m] = [idx |-> i, key |-> <<>>, cost |-> rs[i].cost]
  <2>1. Nth(First(rs), n) \in First(rs)
    BY <1>3, <1>7, <1>10
  <2>2. Grouped(rs)[n] = items(n) /\ DOMAIN Grouped(rs)[n] = 1..Cardinality(same(n))
    BY <1>8, <1>9, <1>10
  <2>3. ASSUME NEW m \in DOMAIN Grouped(rs)[n]
        PROVE  /\ Nth(same(n), m) \in same(n) /\ Nth(same(n), m) \in Valid(rs)
               /\ Grouped(rs)[n][m] = item(n, m)
    BY <1>4, <1>9, <2>2, <2>3
  <2> QED
    BY <2>1, <2>2, <2>3 DEF item
<1> QED
  BY <1>6, <1>7, <1>10

\* An item of a group is a valid request of the batch, with its cost.
LEMMA GroupedMeans ==
  ASSUME NEW rs \in RequestList,
         NEW n \in DOMAIN Grouped(rs), NEW m \in DOMAIN Grouped(rs)[n]
  PROVE  LET x == Grouped(rs)[n][m]
         IN /\ x \in Item /\ x.idx \in Valid(rs) /\ x.idx \in DOMAIN rs
            /\ x = [idx |-> x.idx, key |-> <<>>, cost |-> rs[x.idx].cost]
<1>1. Grouped(rs)[n] \in Seq(Item)
  BY GroupedItems
<1>2. Grouped(rs)[n][m] \in Item
  BY <1>1
<1>3. PICK i \in Valid(rs) :
        Grouped(rs)[n][m] = [idx |-> i, key |-> <<>>, cost |-> rs[i].cost]
  BY GroupedItems
<1>4. i \in DOMAIN rs
  BY ValidIsRequest
<1> QED
  BY <1>2, <1>3, <1>4

\* No request is in two groups, or twice in one.
LEMMA GroupedOnce ==
  ASSUME NEW rs \in RequestList,
         NEW n \in DOMAIN Grouped(rs), NEW m \in DOMAIN Grouped(rs)[n],
         NEW k \in DOMAIN Grouped(rs), NEW l \in DOMAIN Grouped(rs)[k],
         Grouped(rs)[n][m].idx = Grouped(rs)[k][l].idx
  PROVE  n = k /\ m = l
<1> DEFINE first(x) == Nth(First(rs), x)
           same(x) == SameGroup(rs, first(x))
<1>1. \A x \in DOMAIN Grouped(rs) : first(x) \in First(rs)
  BY GroupedItems
<1>2. /\ Nth(same(n), m) \in same(n) /\ Nth(same(k), l) \in same(k)
      /\ Nth(same(n), m) = Nth(same(k), l)
  BY GroupedItems
<1>3. rs[first(n)].target = rs[first(k)].target
  BY <1>2 DEF SameGroup
<1>4. first(k) \in same(n) /\ first(n) \in same(k)
  BY <1>1, <1>3 DEF SameGroup, First
<1>5. first(n) <= first(k) /\ first(k) <= first(n)
  BY <1>1, <1>4 DEF First
<1>6. first(n) \in Nat /\ first(k) \in Nat
  BY <1>1, PlanSetsFinite
<1>7. first(n) = first(k)
  BY <1>5, <1>6
<1>8. n \in 1..Cardinality(First(rs)) /\ k \in 1..Cardinality(First(rs))
  BY GroupedItems
<1>9. n = k
  BY <1>7, <1>8, PlanSetsFinite, NthInjective
<1>10. m \in 1..Cardinality(same(n)) /\ l \in 1..Cardinality(same(n))
  BY <1>9, GroupedItems
<1>11. same(n) \in SUBSET Nat /\ IsFiniteSet(same(n)) /\ Nth(same(n), m) = Nth(same(n), l)
  BY <1>2, <1>9, PlanSetsFinite
<1> HIDE DEF same
<1>12. m = l
  BY <1>10, <1>11, NthInjective
<1> QED
  BY <1>9, <1>12

\* Every valid request is in a group.
LEMMA GroupedAll ==
  ASSUME NEW rs \in RequestList, NEW i \in Valid(rs)
  PROVE  \E n \in DOMAIN Grouped(rs) : \E m \in DOMAIN Grouped(rs)[n] :
           Grouped(rs)[n][m].idx = i
<1>1. i \in SameGroup(rs, i)
  BY DEF SameGroup
<1>2. PICK f \in SameGroup(rs, i) : \A j \in SameGroup(rs, i) : f <= j
  BY <1>1, PlanSetsFinite, LeastElement
<1>3. SameGroup(rs, f) = SameGroup(rs, i) /\ f \in Valid(rs)
  BY <1>2 DEF SameGroup
<1>4. f \in First(rs)
  BY <1>2, <1>3 DEF First
<1>5. PICK n \in 1..Cardinality(First(rs)) : Nth(First(rs), n) = f
  BY <1>4, PlanSetsFinite, NthReaches
<1>6. n \in DOMAIN Grouped(rs)
  BY <1>5, GroupedItems
<1>7. SameGroup(rs, f) \in SUBSET Nat /\ IsFiniteSet(SameGroup(rs, f)) /\ i \in SameGroup(rs, f)
  BY <1>1, <1>3, PlanSetsFinite
<1>8. PICK m \in 1..Cardinality(SameGroup(rs, f)) : Nth(SameGroup(rs, f), m) = i
  BY <1>7, NthReaches
<1>9. m \in DOMAIN Grouped(rs)[n] /\ Grouped(rs)[n][m].idx = i
  <2>1. m \in DOMAIN Grouped(rs)[n]
    BY <1>5, <1>6, <1>8, GroupedItems
  <2>2. Grouped(rs)[n][m] = [idx |-> i, key |-> <<>>, cost |-> rs[i].cost]
    BY <1>5, <1>6, <1>8, <2>1, GroupedItems
  <2> QED
    BY <2>1, <2>2
<1> QED
  BY <1>6, <1>9

\* Building the keys keeps the items where they are.
LEMMA KeyedMeans ==
  ASSUME NEW rs \in RequestList, NEW n \in DOMAIN Grouped(rs)
  PROVE  LET g == Grouped(rs)[n]
             w == WithKeys(rs, g)
         IN /\ w \in Seq(Item) /\ Len(w) = Len(g) /\ DOMAIN w = DOMAIN g
            /\ DOMAIN g = 1..Len(g) /\ Len(g) \in Nat
            /\ \A m \in DOMAIN g :
                 w[m] = [idx |-> g[m].idx,
                         key |-> <<rs[g[m].idx].target, rs[g[m].idx].user>>,
                         cost |-> rs[g[m].idx].cost]
<1> DEFINE g == Grouped(rs)[n]
           w == WithKeys(rs, g)
           key(i) == <<rs[i].target, rs[i].user>>
           keyed(i) == [idx |-> i, key |-> key(i), cost |-> rs[i].cost]
<1>1. g \in Seq(Item)
  BY GroupedItems
<1>2. \A m \in DOMAIN g :
        /\ g[m].idx \in Valid(rs)
        /\ g[m] = [idx |-> g[m].idx, key |-> <<>>, cost |-> rs[g[m].idx].cost]
  BY GroupedMeans
<1>3. \A i \in Valid(rs) : /\ Validate(rs[i]) = NoError /\ i \in Nat
                           /\ key(i) \in KeyType /\ rs[i].cost \in CostType
  BY ValidIsRequest
<1>4. \A x, i, k, c : x = [idx |-> i, key |-> <<>>, cost |-> c] =>
        [x EXCEPT !.key = k] = [idx |-> i, key |-> k, cost |-> c]
  OBVIOUS
<1>5. \A m \in DOMAIN g : w[m] = keyed(g[m].idx)
  <2> TAKE m \in DOMAIN g
  <2>1. Validate(rs[g[m].idx]) = NoError
    BY <1>2, <1>3
  <2>2. w[m] = [g[m] EXCEPT !.key = key(g[m].idx)]
    BY <2>1 DEF WithKeys
  <2> QED
    BY <1>2, <1>4, <2>2
<1>6. \A i \in Valid(rs) : keyed(i) \in Item
  BY <1>3 DEF Item
<1>7. DOMAIN w = DOMAIN g /\ w = [m \in DOMAIN g |-> w[m]]
  BY DEF WithKeys
<1> HIDE DEF w, keyed, g
<1>8. w \in [DOMAIN g -> Item]
  BY <1>2, <1>5, <1>6, <1>7
<1>9. DOMAIN g = 1..Len(g) /\ Len(g) \in Nat
  BY <1>1
<1>10. w \in Seq(Item) /\ Len(w) = Len(g)
  BY <1>8, <1>9
<1> QED
  BY <1>5, <1>7, <1>9, <1>10 DEF w, keyed, g

\* A request is in one group, at one place, and only if it is valid.
LEMMA InGroupMeans ==
  ASSUME NEW rs \in RequestList, NEW n \in DOMAIN Grouped(rs), NEW i, InGroup(rs, i, n)
  PROVE  /\ i \in Valid(rs) /\ Validate(rs[i]) = NoError
         /\ \A k \in DOMAIN Grouped(rs) : InGroup(rs, i, k) => k = n
         /\ \A m, l \in DOMAIN Grouped(rs)[n] :
              Grouped(rs)[n][m].idx = i /\ Grouped(rs)[n][l].idx = i => m = l
<1>1. i \in Valid(rs)
  BY GroupedMeans DEF InGroup
<1>2. \A k \in DOMAIN Grouped(rs) : InGroup(rs, i, k) => k = n
  BY GroupedOnce DEF InGroup
<1>3. \A m, l \in DOMAIN Grouped(rs)[n] :
        Grouped(rs)[n][m].idx = i /\ Grouped(rs)[n][l].idx = i => m = l
  BY GroupedOnce
<1> QED
  BY <1>1, <1>2, <1>3, ValidIsRequest

------------------------------------------------------------------------------
(* What is charged *)

\* One charge per item, in the order of the items.
LEMMA ChargeType ==
  ASSUME NEW store \in {"redis", "fallback"}, NEW items \in Seq(Item)
  PROVE  /\ Charge(store, items) \in Seq(Charged)
         /\ Len(Charge(store, items)) = Len(items)
         /\ \A m \in 1..Len(items) :
              /\ Charge(store, items)[m].store = store
              /\ Charge(store, items)[m].item.idx = items[m].idx
<1> DEFINE ch == Charge(store, items)
<1>1. DOMAIN items = 1..Len(items) /\ Len(items) \in Nat
  OBVIOUS
<1>2. ch = [m \in 1..Len(items) |-> [store |-> store, item |-> items[m]]]
  BY <1>1 DEF Charge
<1>3. \A m \in 1..Len(items) : [store |-> store, item |-> items[m]] \in Charged
  BY <1>1 DEF Charged
<1>4. ch \in [1..Len(items) -> Charged]
  BY <1>2, <1>3
<1> QED
  BY <1>1, <1>2, <1>4

\* Charges in a given ledger.
ChargesIn(L, s, i) == {n \in DOMAIN L : L[n].store = s /\ L[n].item.idx = i}

\* Where charges for the items will be in ledger L, those for request i.
Places(L, items, i) == {Len(L) + m : m \in {l \in 1..Len(items) : items[l].idx = i}}

\* Appending charges adds, for request i, the places of i among the items.
LEMMA ChargesAppend ==
  ASSUME NEW L \in Seq(Charged), NEW store \in {"redis", "fallback"},
         NEW items \in Seq(Item), NEW i
  PROVE  LET K == L \o Charge(store, items)
         IN /\ K \in Seq(Charged)
            /\ \A s : s # store => ChargesIn(K, s, i) = ChargesIn(L, s, i)
            /\ ChargesIn(K, store, i) =
                 ChargesIn(L, store, i) \cup Places(L, items, i)
<1> DEFINE ch == Charge(store, items)
           K == L \o ch
           new == Places(L, items, i)
<1>1. ch \in Seq(Charged) /\ Len(ch) = Len(items)
  BY ChargeType
<1>2. \A m \in 1..Len(items) : ch[m].store = store /\ ch[m].item.idx = items[m].idx
  BY ChargeType
<1> HIDE DEF ch
<1>3. /\ K \in Seq(Charged) /\ Len(K) = Len(L) + Len(ch)
      /\ Len(L) \in Nat /\ Len(items) \in Nat
      /\ DOMAIN L = 1..Len(L) /\ DOMAIN K = 1..(Len(L) + Len(ch))
  <2>1. K \in Seq(Charged) /\ Len(K) = Len(L) + Len(ch)
    BY <1>1, ConcatProperties
  <2>2. Len(items) \in Nat /\ Len(L) \in Nat /\ DOMAIN L = 1..Len(L)
    OBVIOUS
  <2>3. DOMAIN K = 1..Len(K)
    BY <2>1
  <2> QED
    BY <2>1, <2>2, <2>3
<1>4. /\ \A n \in 1..Len(L) : K[n] = L[n]
      /\ \A m \in 1..Len(items) : K[Len(L) + m] = ch[m]
  BY <1>1, <1>3
<1> HIDE DEF K
<1>7. ASSUME NEW n
      PROVE  n \in DOMAIN K <=> \/ n \in 1..Len(L)
                                \/ \E m \in 1..Len(items) : n = Len(L) + m
  <2>1. CASE n \in DOMAIN K /\ n \notin 1..Len(L)
    <3>1. n - Len(L) \in 1..Len(items) /\ n = Len(L) + (n - Len(L))
      BY <1>1, <1>3, <2>1
    <3> QED
      BY <1>1, <1>3, <2>1, <3>1
  <2> QED
    BY <1>1, <1>3, <2>1
<1>8. ASSUME NEW s, NEW n
      PROVE  n \in ChargesIn(K, s, i) <=>
               n \in ChargesIn(L, s, i) \/ (s = store /\ n \in new)
  <2>1. CASE n \in 1..Len(L)
    <3>1. n \in DOMAIN K /\ n \in DOMAIN L /\ K[n] = L[n] /\ n \notin new
      BY <1>3, <1>4, <1>7, <2>1 DEF Places
    <3> QED
      BY <3>1 DEF ChargesIn
  <2>2. ASSUME NEW m \in 1..Len(items), n = Len(L) + m
        PROVE  n \in ChargesIn(K, s, i) <=>
                 n \in ChargesIn(L, s, i) \/ (s = store /\ n \in new)
    <3>1. n \in DOMAIN K /\ K[n].store = store /\ K[n].item.idx = items[m].idx
      BY <1>2, <1>4, <1>7, <2>2
    <3>2. n \notin DOMAIN L
      BY <1>3, <2>2
    <3>3. n \in new <=> items[m].idx = i
      BY <1>3, <2>2 DEF Places
    <3> QED
      BY <3>1, <3>2, <3>3 DEF ChargesIn
  <2>3. CASE n \notin DOMAIN K
    <3>1. n \notin DOMAIN L /\ n \notin new
      BY <1>3, <1>7, <2>3 DEF Places
    <3> QED
      BY <2>3, <3>1 DEF ChargesIn
  <2> QED
    BY <1>7, <2>1, <2>2, <2>3
<1> QED
  BY <1>3, <1>8 DEF K, ch

\* A request that is among the items at most once, and has no charge so far,
\* has at most one afterwards.
LEMMA ChargesOnce ==
  ASSUME NEW b \in Batch, ledger \in [Batch -> Seq(Charged)],
         NEW store \in {"redis", "fallback"}, NEW items \in Seq(Item),
         ledger' = [ledger EXCEPT ![b] = @ \o Charge(store, items)], NEW i,
         \A m, l \in 1..Len(items) : items[m].idx = i /\ items[l].idx = i => m = l
  PROVE  /\ "redis" # store => Charges(b, "redis", i)' = Charges(b, "redis", i)
         /\ "fallback" # store => Charges(b, "fallback", i)' = Charges(b, "fallback", i)
         /\ (\A m \in 1..Len(items) : items[m].idx # i) =>
              /\ Charges(b, "redis", i)' = Charges(b, "redis", i)
              /\ Charges(b, "fallback", i)' = Charges(b, "fallback", i)
         /\ Charges(b, store, i) = {} =>
              /\ Charges(b, store, i)' = {} \/ Once(Charges(b, store, i)')
              /\ (\E m \in 1..Len(items) : items[m].idx = i) => Once(Charges(b, store, i)')
<1> DEFINE L == ledger[b]
           K == L \o Charge(store, items)
           at == {l \in 1..Len(items) : items[l].idx = i}
           new == Places(L, items, i)
<1>1. \A s : Charges(b, s, i) = ChargesIn(L, s, i) /\ Charges(b, s, i)' = ChargesIn(K, s, i)
  BY DEF Charges, ChargesIn
<1>2. L \in Seq(Charged)
  OBVIOUS
<1> HIDE DEF L
<1>3. /\ \A s : s # store => ChargesIn(K, s, i) = ChargesIn(L, s, i)
      /\ ChargesIn(K, store, i) = ChargesIn(L, store, i) \cup new
  BY <1>2, ChargesAppend
<1>4. \A m \in at : new = {Len(L) + m}
  BY DEF Places
<1>5. at = {} => new = {}
  BY DEF Places
<1> HIDE DEF K, new
<1>6. ASSUME ChargesIn(L, store, i) = {}, NEW m \in at
      PROVE  Once(ChargesIn(K, store, i))
  <2>1. ChargesIn(K, store, i) = {Len(L) + m}
    BY <1>3, <1>4, <1>6
  <2> QED
    BY <2>1 DEF Once
<1>7. ChargesIn(L, store, i) = {} =>
        /\ ChargesIn(K, store, i) = {} \/ Once(ChargesIn(K, store, i))
        /\ (\E m \in 1..Len(items) : items[m].idx = i) => Once(ChargesIn(K, store, i))
  BY <1>3, <1>5, <1>6
<1>8. (\A m \in 1..Len(items) : items[m].idx # i) =>
        \A s : ChargesIn(K, s, i) = ChargesIn(L, s, i)
  BY <1>3, <1>5
<1>9. Charges(b, store, i) = ChargesIn(L, store, i) /\ Charges(b, store, i)' = ChargesIn(K, store, i)
  BY <1>1
<1>10. /\ Charges(b, "redis", i) = ChargesIn(L, "redis", i)
       /\ Charges(b, "redis", i)' = ChargesIn(K, "redis", i)
       /\ Charges(b, "fallback", i) = ChargesIn(L, "fallback", i)
       /\ Charges(b, "fallback", i)' = ChargesIn(K, "fallback", i)
  BY <1>1
<1> QED
  BY <1>3, <1>7, <1>8, <1>9, <1>10

\* A batch whose ledger stays has charged nobody.
LEMMA ChargesSame ==
  ASSUME NEW b \in Batch, ledger'[b] = ledger[b], NEW i
  PROVE  /\ Charges(b, "redis", i)' = Charges(b, "redis", i)
         /\ Charges(b, "fallback", i)' = Charges(b, "fallback", i)
BY DEF Charges

------------------------------------------------------------------------------
(* Batches do not disturb each other *)

\* What a step of one batch leaves alone of another one.
Untouched(c) ==
    /\ bpc'[c] = bpc[c] /\ reqs'[c] = reqs[c] /\ plan'[c] = plan[c]
    /\ group'[c] = group[c] /\ decisions'[c] = decisions[c]
    /\ resp'[c] = resp[c] /\ ledger'[c] = ledger[c]

\* A plan is intact as long as its batch and its slabs are left alone.
LEMMA PlanUntouched ==
  ASSUME BatchTypeOK, NEW c \in Batch, Untouched(c), PlanIntact(c),
         \A n \in DOMAIN plan[c] : slab'[plan[c][n]] = slab[plan[c][n]]
  PROVE  PlanIntact(c)'
<1> SUFFICES ASSUME Working(c)' PROVE PlanIntact(c)'
  BY DEF PlanIntact
<1>1. Working(c)
  BY DEF Working, Untouched
<1>2. plan[c] \in Seq(Slab) /\ DOMAIN plan[c] = 1..Len(plan[c]) /\ group[c] \in Nat
  BY DEF BatchTypeOK
<1>3. Groups(c)' = Groups(c) /\ InWork(c)' = InWork(c)
  BY DEF Groups, InWork, Untouched
<1>4. bpc[c] # "group" => Items(c)' = Items(c)
  <2> SUFFICES ASSUME bpc[c] # "group" PROVE Items(c)' = Items(c)
    OBVIOUS
  <2>1. group[c] \in DOMAIN plan[c]
    BY <1>1, <1>2 DEF PlanIntact
  <2> QED
    BY <2>1 DEF Items, Work, Untouched
<1> QED
  BY <1>1, <1>3, <1>4 DEF PlanIntact, Untouched

\* So is what a request has been answered and charged.
LEMMA StandingUntouched ==
  ASSUME NEW c \in Batch, Untouched(c), NEW i, Standing(c, i)
  PROVE  Standing(c, i)'
<1>1. /\ Charges(c, "redis", i)' = Charges(c, "redis", i)
      /\ Charges(c, "fallback", i)' = Charges(c, "fallback", i)
  BY ChargesSame DEF Untouched
<1>2. Groups(c)' = Groups(c)
  BY DEF Groups, Untouched
<1>3. Settled(c, i) => Settled(c, i)'
  BY <1>1 DEF Settled, ChargedBy, Untouched
<1> QED
  BY <1>1, <1>2, <1>3 DEF Standing, ChargedBy, Untouched

\* And so is how far the batch has got.
LEMMA ProgressUntouched ==
  ASSUME NEW c \in Batch, Untouched(c), Progress(c)
  PROVE  Progress(c)'
<1>1. Groups(c)' = Groups(c) /\ InWork(c)' = InWork(c) /\ (Working(c)' <=> Working(c))
  BY DEF Groups, InWork, Working, Untouched
<1>2. \A i : Standing(c, i) => Standing(c, i)'
  BY StandingUntouched
<1> QED
  BY <1>1, <1>2 DEF Progress, Untouched

\* A step of batch b keeps the invariant if it keeps b's part of it and leaves
\* the other batches and their slabs alone.
LEMMA StepOfOne ==
  ASSUME BatchIInv, NEW b \in Batch, BatchTypeOK', SlabsApart', PlanIntact(b)', Progress(b)',
         \A c \in Batch \ {b} : Untouched(c),
         \A c \in Batch \ {b} : \A n \in DOMAIN plan[c] : slab'[plan[c][n]] = slab[plan[c][n]]
  PROVE  BatchIInv'
<1>1. ASSUME NEW c \in Batch, c # b PROVE PlanIntact(c)' /\ Progress(c)'
  <2>1. /\ Untouched(c) /\ PlanIntact(c) /\ Progress(c) /\ BatchTypeOK
        /\ \A n \in DOMAIN plan[c] : slab'[plan[c][n]] = slab[plan[c][n]]
    BY <1>1 DEF BatchIInv
  <2> QED
    BY <2>1, PlanUntouched, ProgressUntouched
<1>2. \A c \in Batch : PlanIntact(c)' /\ Progress(c)'
  BY <1>1
<1> QED
  BY <1>2 DEF BatchIInv

\* Slabs stay apart while no plan changes and none is abandoned.
LEMMA SlabsKept ==
  ASSUME SlabsApart, plan' = plan, \A c \in Batch : Working(c) => Working(c)'
  PROVE  SlabsApart'
BY DEF SlabsApart

\* The group in work, with or without its keys.
LEMMA GroupInWork ==
  ASSUME BatchIInv, NEW b \in Batch, Working(b), group[b] <= Len(plan[b])
  PROVE  /\ reqs[b] \in RequestList
         /\ group[b] \in DOMAIN plan[b] /\ group[b] \in DOMAIN Groups(b) /\ Work(b) \in Slab
         /\ bpc[b] = "group" => Items(b) = Groups(b)[group[b]]
         /\ bpc[b] # "group" => Items(b) = InWork(b)
         /\ Items(b) \in Seq(Item) /\ DOMAIN Items(b) = 1..Len(Items(b))
         /\ DOMAIN Items(b) = DOMAIN Groups(b)[group[b]]
         /\ \A m \in DOMAIN Items(b) : Items(b)[m].idx = Groups(b)[group[b]][m].idx
<1>1. /\ reqs[b] \in RequestList /\ plan[b] \in Seq(Slab) /\ group[b] \in Nat
      /\ slab \in [Slab -> Seq(Item)]
  BY DEF BatchIInv, BatchTypeOK, RequestList
<1>2. /\ PlanIntact(b) /\ Len(plan[b]) = Len(Groups(b)) /\ group[b] \in 1..(Len(plan[b]) + 1)
  BY DEF BatchIInv, PlanIntact
<1>3. Groups(b) \in Seq(Seq(Item))
  BY <1>1, GroupedItems DEF Groups
<1>4. group[b] \in DOMAIN plan[b] /\ group[b] \in DOMAIN Groups(b)
  BY <1>1, <1>2, <1>3
<1>5. Work(b) \in Slab /\ Items(b) \in Seq(Item)
  BY <1>1, <1>4 DEF Work, Items
<1>6. /\ bpc[b] = "group" => Items(b) = Groups(b)[group[b]]
      /\ bpc[b] # "group" => Items(b) = InWork(b)
  BY <1>2, <1>4 DEF PlanIntact, Items, Work
<1>7. /\ DOMAIN InWork(b) = DOMAIN Groups(b)[group[b]]
      /\ \A m \in DOMAIN InWork(b) : InWork(b)[m].idx = Groups(b)[group[b]][m].idx
  <2> DEFINE rs == reqs[b]
             g == Grouped(rs)[group[b]]
             w == WithKeys(rs, g)
  <2>1. /\ DOMAIN w = DOMAIN g
        /\ \A m \in DOMAIN g :
             w[m] = [idx |-> g[m].idx,
                     key |-> <<rs[g[m].idx].target, rs[g[m].idx].user>>,
                     cost |-> rs[g[m].idx].cost]
    <3> HIDE DEF rs
    <3>1. rs \in RequestList /\ group[b] \in DOMAIN Grouped(rs)
      BY <1>1, <1>4 DEF rs, Groups
    <3> QED
      BY <3>1, KeyedMeans
  <2>2. InWork(b) = w /\ Groups(b)[group[b]] = g
    BY DEF InWork, Groups
  <2> HIDE DEF w, g
  <2>3. \A m \in DOMAIN g : w[m].idx = g[m].idx
    BY <2>1
  <2> QED
    BY <2>1, <2>2, <2>3
<1>8. /\ DOMAIN Items(b) = DOMAIN Groups(b)[group[b]]
      /\ \A m \in DOMAIN Items(b) : Items(b)[m].idx = Groups(b)[group[b]][m].idx
  BY <1>6, <1>7
<1>9. DOMAIN Items(b) = 1..Len(Items(b))
  BY <1>5
<1> QED
  BY <1>1, <1>4, <1>5, <1>6, <1>8, <1>9

\* So its items are the requests of the group, each at one place.
LEMMA ItemsInWork ==
  ASSUME BatchIInv, NEW b \in Batch, Working(b), group[b] <= Len(plan[b]), NEW i
  PROVE  /\ (\E m \in DOMAIN Items(b) : Items(b)[m].idx = i) <=> InGroup(reqs[b], i, group[b])
         /\ \A m, l \in DOMAIN Items(b) : Items(b)[m].idx = i /\ Items(b)[l].idx = i => m = l
<1>1. (\E m \in DOMAIN Items(b) : Items(b)[m].idx = i) <=> InGroup(reqs[b], i, group[b])
  BY GroupInWork DEF InGroup, Groups
<1>2. ASSUME NEW m \in DOMAIN Items(b), NEW l \in DOMAIN Items(b),
             Items(b)[m].idx = i, Items(b)[l].idx = i
      PROVE  m = l
  BY <1>2, GroupInWork, GroupedOnce DEF Groups
<1> QED
  BY <1>1, <1>2

------------------------------------------------------------------------------
(* The steps *)

\* No batch has begun.
LEMMA BatchInit == Init => BatchIInv
<1> SUFFICES ASSUME Init PROVE BatchIInv
  OBVIOUS
<1>1. BatchTypeOK
  BY DEF Init, BatchTypeOK
<1>2. SlabsApart
  BY DEF Init, SlabsApart
<1>3. \A b \in Batch : PlanIntact(b) /\ Progress(b)
  BY DEF Init, PlanIntact, Progress, Working
<1> QED
  BY <1>1, <1>2, <1>3 DEF BatchIInv

\* A batch refused while draining has no plan.
LEMMA RefuseInv ==
  ASSUME BatchIInv, NEW b \in Batch, NEW rs \in Batches, Refuse(b, rs)
  PROVE  BatchIInv'
<1> USE DEF Refuse, Goto
<1>1. BatchTypeOK'
  BY BatchAssumption DEF BatchIInv, BatchTypeOK
<1>2. bpc'[b] = "refused" /\ bpc[b] = "idle"
  BY DEF BatchIInv, BatchTypeOK
<1>3. \A c \in Batch \ {b} : Untouched(c)
  BY DEF BatchIInv, BatchTypeOK, Untouched
<1>4. SlabsApart'
  <2>1. \A c \in Batch : Working(c) => Working(c)'
    BY <1>2, <1>3 DEF Working, Untouched
  <2> QED
    BY <2>1, SlabsKept DEF BatchIInv
<1>5. PlanIntact(b)' /\ Progress(b)'
  BY <1>2 DEF PlanIntact, Progress, Working
<1> QED
  BY <1>1, <1>3, <1>4, <1>5, StepOfOne

\* After the reply nothing of the batch is left.
LEMMA ReplyInv ==
  ASSUME BatchIInv, NEW b \in Batch, Reply(b)
  PROVE  BatchIInv'
<1> USE DEF Reply, Goto
<1>1. BatchTypeOK'
  BY DEF BatchIInv, BatchTypeOK
<1>2. bpc'[b] = "idle" /\ bpc[b] \in {"done", "refused"} /\ ledger'[b] = <<>>
  BY DEF BatchIInv, BatchTypeOK
<1>3. \A c \in Batch \ {b} : Untouched(c)
  BY DEF BatchIInv, BatchTypeOK, Untouched
<1>4. SlabsApart'
  <2>1. \A c \in Batch : Working(c) => Working(c)'
    BY <1>2, <1>3 DEF Working, Untouched
  <2> QED
    BY <2>1, SlabsKept DEF BatchIInv
<1>5. PlanIntact(b)' /\ Progress(b)'
  BY <1>2 DEF PlanIntact, Progress, Working
<1> QED
  BY <1>1, <1>3, <1>4, <1>5, StepOfOne

\* Closing the tracker touches no batch.
LEMMA CloseInv ==
  ASSUME BatchIInv, CloseInFlight \/ UNCHANGED vars
  PROVE  BatchIInv'
<1>1. UNCHANGED <<bpc, reqs, plan, slab, group, decisions, resp, ledger>>
  BY DEF CloseInFlight, vars
<1>2. BatchTypeOK' /\ SlabsApart'
  BY <1>1 DEF BatchIInv, BatchTypeOK, SlabsApart, Working
<1>3. \A c \in Batch : PlanIntact(c)' /\ Progress(c)'
  BY <1>1, PlanUntouched, ProgressUntouched DEF BatchIInv, Untouched
<1> QED
  BY <1>2, <1>3 DEF BatchIInv

\* Going to the fallback at once: nothing has been charged yet.
LEMMA SkipRedisInv ==
  ASSUME BatchIInv, NEW b \in Batch, SkipRedis(b)
  PROVE  BatchIInv'
<1> USE DEF SkipRedis, Goto
<1>1. BatchTypeOK'
  BY DEF BatchIInv, BatchTypeOK
<1>2. bpc'[b] = "fallback" /\ bpc[b] = "allow"
  BY DEF BatchIInv, BatchTypeOK
<1>3. \A c \in Batch \ {b} : Untouched(c)
  BY DEF BatchIInv, BatchTypeOK, Untouched
<1>4. SlabsApart'
  <2>1. \A c \in Batch : Working(c) => Working(c)'
    BY <1>2, <1>3 DEF Working, Untouched
  <2> QED
    BY <2>1, SlabsKept DEF BatchIInv
<1>5. PlanIntact(b)'
  <2>1. Groups(b)' = Groups(b) /\ InWork(b)' = InWork(b) /\ Items(b)' = Items(b)
    BY DEF Groups, InWork, Items, Work
  <2> QED
    BY <1>2, <2>1 DEF BatchIInv, PlanIntact, Working
<1>6. Progress(b)'
  <2>1. Groups(b)' = Groups(b)
    BY DEF Groups
  <2>2. ASSUME NEW i \in DOMAIN reqs[b] PROVE Standing(b, i)'
    <3>1. Standing(b, i)
      BY <1>2, <2>2 DEF BatchIInv, Progress, Working
    <3>2. /\ Charges(b, "redis", i)' = Charges(b, "redis", i)
          /\ Charges(b, "fallback", i)' = Charges(b, "fallback", i)
      BY ChargesSame
    <3>3. Settled(b, i) => Settled(b, i)'
      BY <3>2 DEF Settled, ChargedBy
    <3> QED
      BY <1>2, <2>1, <3>1, <3>2, <3>3 DEF Standing, ChargedBy
  <2> QED
    BY <1>2, <2>2 DEF BatchIInv, Progress, Working
<1> QED
  BY <1>1, <1>3, <1>4, <1>5, <1>6, StepOfOne

\* The plan gives its slabs back; all its groups are done.
LEMMA FinishInv ==
  ASSUME BatchIInv, NEW b \in Batch, Finish(b)
  PROVE  BatchIInv'
<1> USE DEF Finish, Goto
<1>1. BatchTypeOK'
  BY DEF BatchIInv, BatchTypeOK
<1>2. bpc'[b] = "done" /\ bpc[b] = "group" /\ plan'[b] = <<>> /\ group'[b] = group[b]
  BY DEF BatchIInv, BatchTypeOK
<1>3. \A c \in Batch \ {b} : Untouched(c)
  BY DEF BatchIInv, BatchTypeOK, Untouched
<1>4. SlabsApart'
  <2>1. \A c \in Batch : ~Working(c)' => plan'[c] = <<>>
    BY <1>2, <1>3 DEF BatchIInv, SlabsApart, Working, Untouched
  <2>2. \A c \in Batch : plan'[c] = <<>> \/ (c # b /\ plan'[c] = plan[c])
    BY <1>2, <1>3 DEF Untouched
  <2>3. DOMAIN <<>> = {}
    OBVIOUS
  <2> QED
    BY <2>1, <2>2, <2>3 DEF BatchIInv, SlabsApart
<1>5. \A c \in Batch \ {b} : \A n \in DOMAIN plan[c] : slab'[plan[c][n]] = slab[plan[c][n]]
  <2> SUFFICES ASSUME NEW c \in Batch \ {b}, NEW n \in DOMAIN plan[c]
               PROVE  slab'[plan[c][n]] = slab[plan[c][n]]
    OBVIOUS
  <2>1. plan[c] \in Seq(Slab)
    BY DEF BatchIInv, BatchTypeOK
  <2>2. plan[c][n] \in Slab
    BY <2>1
  <2>3. ~\E m \in DOMAIN plan[b] : plan[b][m] = plan[c][n]
    BY DEF BatchIInv, SlabsApart
  <2> QED
    BY <2>2, <2>3
<1>6. PlanIntact(b)'
  BY <1>2 DEF PlanIntact, Working
<1>7. Progress(b)'
  <2>1. Groups(b)' = Groups(b)
    BY DEF Groups
  <2>2. group[b] = Len(Groups(b)) + 1
    <3>1. group[b] > Len(plan[b]) /\ group[b] \in 1..(Len(plan[b]) + 1)
          /\ Len(plan[b]) = Len(Groups(b))
      BY <1>2 DEF BatchIInv, PlanIntact, Working
    <3>2. plan[b] \in Seq(Slab)
      BY DEF BatchIInv, BatchTypeOK
    <3>3. Len(plan[b]) \in Nat
      BY <3>2
    <3> QED
      BY <3>1, <3>3
  <2>3. \A n \in DOMAIN Groups(b) : n < group[b]
    <3>1. Groups(b) \in Seq(Seq(Item))
      BY GroupedItems DEF Groups, BatchIInv, BatchTypeOK, RequestList
    <3>2. DOMAIN Groups(b) = 1..Len(Groups(b)) /\ Len(Groups(b)) \in Nat
      BY <3>1
    <3> QED
      BY <2>2, <3>2
  <2>4. ASSUME NEW i \in DOMAIN reqs[b] PROVE Standing(b, i)'
    <3>1. Standing(b, i)
      BY <1>2, <2>4 DEF BatchIInv, Progress, Working
    <3>2. /\ Charges(b, "redis", i)' = Charges(b, "redis", i)
          /\ Charges(b, "fallback", i)' = Charges(b, "fallback", i)
      BY ChargesSame
    <3>3. Settled(b, i) => Settled(b, i)'
      BY <3>2 DEF Settled, ChargedBy
    <3>4. Validate(reqs[b][i]) # NoError =>
            resp'[b][i] = Coded(Validate(reqs[b][i])) /\ ChargedBy(b, i, "none")'
      BY <3>1, <3>2 DEF Standing, ChargedBy
    <3>5. \A n \in DOMAIN Groups(b) :
            InGroup(reqs[b], i, n) => Settled(b, i)'
      BY <2>3, <3>1, <3>3 DEF Standing
    <3>6. \A n \in DOMAIN Groups(b) :
            InGroup(reqs[b], i, n) => ~(n > group[b]) /\ n # group[b]
      <4>1. Groups(b) \in Seq(Seq(Item)) /\ group[b] \in Nat
        BY GroupedItems DEF Groups, BatchIInv, BatchTypeOK, RequestList
      <4>2. \A n \in DOMAIN Groups(b) : n \in Nat
        BY <4>1
      <4> QED
        BY <2>3, <4>1, <4>2
    <3> QED
      BY <2>1, <3>4, <3>5, <3>6 DEF Standing
  <2> QED
    BY <1>2, <2>1, <2>2, <2>4 DEF BatchIInv, Progress, Working
<1> QED
  BY <1>1, <1>3, <1>4, <1>5, <1>6, <1>7, StepOfOne

\* The group in work gets its keys, in its own slab.
LEMMA BuildKeysInv ==
  ASSUME BatchIInv, NEW b \in Batch, BuildKeys(b)
  PROVE  BatchIInv'
<1> USE DEF BuildKeys, Goto
<1>1. bpc'[b] = "allow" /\ bpc[b] = "group" /\ Working(b) /\ Working(b)'
  BY DEF BatchIInv, BatchTypeOK, Working
<1>2. /\ Work(b) \in Slab /\ Items(b) = Groups(b)[group[b]] /\ group[b] \in DOMAIN plan[b]
      /\ group[b] \in DOMAIN Groups(b) /\ reqs[b] \in RequestList
  BY <1>1, GroupInWork
<1>3. slab' = [slab EXCEPT ![Work(b)] = InWork(b)]
  BY <1>2 DEF Items, InWork
<1>4. InWork(b) \in Seq(Item)
  BY <1>2, KeyedMeans DEF InWork, Groups
<1>5. BatchTypeOK'
  BY <1>3, <1>4 DEF BatchIInv, BatchTypeOK
<1>6. \A c \in Batch \ {b} : Untouched(c)
  BY DEF BatchIInv, BatchTypeOK, Untouched
<1>7. SlabsApart'
  <2>1. \A c \in Batch : Working(c) => Working(c)'
    BY <1>1, <1>6 DEF Working, Untouched
  <2> QED
    BY <2>1, SlabsKept DEF BatchIInv
<1>8. \A c \in Batch \ {b} : \A n \in DOMAIN plan[c] : slab'[plan[c][n]] = slab[plan[c][n]]
  <2>1. \A c \in Batch \ {b} : \A n \in DOMAIN plan[c] : plan[c][n] # Work(b)
    BY <1>2 DEF BatchIInv, SlabsApart, Work
  <2> QED
    BY <1>3, <2>1 DEF BatchIInv, BatchTypeOK
<1>9. Groups(b)' = Groups(b) /\ InWork(b)' = InWork(b)
  BY DEF Groups, InWork
<1>10. PlanIntact(b)'
  <2>1. Items(b)' = InWork(b)
    BY <1>2, <1>3 DEF Items, Work, BatchIInv, BatchTypeOK
  <2>2. \A n \in DOMAIN plan[b] : n > group[b] => slab'[plan[b][n]] = Groups(b)[n]
    <3> SUFFICES ASSUME NEW n \in DOMAIN plan[b], n > group[b]
                 PROVE  slab'[plan[b][n]] = Groups(b)[n]
      OBVIOUS
    <3>1. group[b] \in Nat
      BY DEF BatchIInv, BatchTypeOK
    <3>2. n # group[b]
      BY <3>1
    <3>3. plan[b][n] # Work(b)
      BY <1>2, <3>2 DEF BatchIInv, SlabsApart, Work
    <3>4. slab[plan[b][n]] = Groups(b)[n]
      BY <1>1 DEF BatchIInv, PlanIntact
    <3> QED
      BY <1>3, <3>3, <3>4 DEF BatchIInv, BatchTypeOK
  <2> QED
    BY <1>1, <1>9, <2>1, <2>2 DEF BatchIInv, PlanIntact
<1>11. Progress(b)'
  <2>1. ASSUME NEW i \in DOMAIN reqs[b] PROVE Standing(b, i)'
    <3>1. Standing(b, i)
      BY <1>1, <2>1 DEF BatchIInv, Progress
    <3>2. /\ Charges(b, "redis", i)' = Charges(b, "redis", i)
          /\ Charges(b, "fallback", i)' = Charges(b, "fallback", i)
      BY ChargesSame
    <3>3. Settled(b, i) => Settled(b, i)'
      BY <3>2 DEF Settled, ChargedBy
    <3> QED
      BY <1>1, <1>9, <3>1, <3>2, <3>3 DEF Standing, ChargedBy
  <2> QED
    BY <1>1, <2>1 DEF BatchIInv, Progress
<1> QED
  BY <1>5, <1>6, <1>7, <1>8, <1>10, <1>11, StepOfOne

\* A group is done when its requests are settled and no other is touched.
LEMMA GroupDone ==
  ASSUME BatchIInv, NEW b \in Batch, Working(b), group[b] <= Len(plan[b]),
         reqs' = reqs, plan' = plan, slab' = slab, ledger' = ledger,
         group'[b] = group[b] + 1, bpc'[b] = "group", DOMAIN resp'[b] = DOMAIN reqs[b],
         \A i \in DOMAIN reqs[b] :
             IF InGroup(reqs[b], i, group[b]) THEN Settled(b, i)' ELSE resp'[b][i] = resp[b][i]
  PROVE  PlanIntact(b)' /\ Progress(b)'
<1>1. /\ reqs[b] \in RequestList /\ group[b] \in DOMAIN plan[b] /\ group[b] \in DOMAIN Groups(b)
      /\ plan[b] \in Seq(Slab) /\ group[b] \in Nat
  BY GroupInWork DEF BatchIInv, BatchTypeOK
<1>2. Groups(b)' = Groups(b) /\ Working(b)'
  BY DEF Groups, Working
<1>3. Groups(b) \in Seq(Seq(Item))
  BY <1>1, GroupedItems DEF Groups
<1>4. PlanIntact(b)'
  <2>1. /\ Len(plan[b]) = Len(Groups(b)) /\ Len(plan[b]) \in Nat
        /\ DOMAIN plan[b] = 1..Len(plan[b])
    BY <1>1 DEF BatchIInv, PlanIntact
  <2>2. group'[b] \in 1..(Len(plan[b]) + 1)
    BY <1>1, <2>1
  <2>3. ASSUME NEW n \in DOMAIN plan[b], n > group'[b] \/ n = group'[b]
        PROVE  slab[plan[b][n]] = Groups(b)[n]
    <3>1. n > group[b]
      BY <1>1, <2>1, <2>3
    <3> QED
      BY <3>1 DEF BatchIInv, PlanIntact
  <2> QED
    BY <1>2, <2>1, <2>2, <2>3 DEF PlanIntact
<1>5. ASSUME NEW i \in DOMAIN reqs[b] PROVE Standing(b, i)'
  <2>1. Standing(b, i)
    BY <1>5 DEF BatchIInv, Progress
  <2>2. /\ Charges(b, "redis", i)' = Charges(b, "redis", i)
        /\ Charges(b, "fallback", i)' = Charges(b, "fallback", i)
    BY ChargesSame
  <2>3. ChargedBy(b, i, "none") => ChargedBy(b, i, "none")'
    BY <2>2 DEF ChargedBy
  <2>4. Validate(reqs[b][i]) # NoError => resp'[b][i] = Coded(Validate(reqs[b][i])) /\ ChargedBy(b, i, "none")'
    <3>1. Validate(reqs[b][i]) # NoError => ~InGroup(reqs[b], i, group[b])
      BY <1>1, InGroupMeans DEF Groups
    <3> QED
      BY <2>1, <2>3, <3>1 DEF Standing
  <2>5. ASSUME NEW n \in DOMAIN Groups(b), InGroup(reqs[b], i, n)
        PROVE  /\ n < group'[b] => Settled(b, i)'
               /\ n > group'[b] \/ n = group'[b] => ChargedBy(b, i, "none")'
    <3>1. n \in Nat
      BY <1>3
    <3>2. CASE n < group[b]
      <4>1. ~InGroup(reqs[b], i, group[b])
        <5>1. n # group[b]
          BY <1>1, <3>1, <3>2
        <5>2. n \in DOMAIN Grouped(reqs[b]) /\ group[b] \in DOMAIN Grouped(reqs[b])
          BY <1>1 DEF Groups
        <5>3. \A k \in DOMAIN Grouped(reqs[b]) : InGroup(reqs[b], i, k) => k = n
          BY <1>1, <2>5, <5>2, InGroupMeans
        <5> QED
          BY <5>1, <5>2, <5>3
      <4>2. resp'[b][i] = resp[b][i] /\ Settled(b, i)
        BY <2>1, <2>5, <3>2, <4>1 DEF Standing
      <4>3. Settled(b, i)'
        BY <2>2, <4>2 DEF Settled, ChargedBy
      <4>4. ~(n > group'[b] \/ n = group'[b])
        BY <1>1, <3>1, <3>2
      <4> QED
        BY <4>3, <4>4
    <3>3. CASE n = group[b]
      <4>1. ~(n > group'[b] \/ n = group'[b])
        BY <1>1, <3>1, <3>3
      <4> QED
        BY <1>5, <2>5, <3>3, <4>1
    <3>4. CASE n > group[b]
      <4>1. ~(n < group'[b])
        BY <1>1, <3>1, <3>4
      <4> QED
        BY <2>1, <2>3, <2>5, <3>4, <4>1 DEF Standing
    <3> QED
      BY <1>1, <3>1, <3>2, <3>3, <3>4
  <2> QED
    BY <1>2, <2>4, <2>5 DEF Standing
<1>6. Progress(b)'
  BY <1>2, <1>5 DEF Progress
<1> QED
  BY <1>4, <1>6

\* A group without rule or limiter is settled by its code, uncharged.
LEMMA GroupFailsInv ==
  ASSUME BatchIInv, NEW b \in Batch, GroupFails(b)
  PROVE  BatchIInv'
<1> USE DEF GroupFails, NextGroup, Goto
<1>1. bpc'[b] = "group" /\ bpc[b] = "group" /\ Working(b) /\ Working(b)' /\ group'[b] = group[b] + 1
  BY DEF BatchIInv, BatchTypeOK, Working
<1>2. PICK code \in {"RULE_NOT_FOUND", "LIMITER_UNAVAILABLE"} :
        resp' = [resp EXCEPT ![b] =
                   [i \in DOMAIN resp[b] |->
                      IF \E m \in DOMAIN Items(b) : Items(b)[m].idx = i
                      THEN Coded(code) ELSE resp[b][i]]]
  OBVIOUS
<1>3. DOMAIN resp[b] = DOMAIN reqs[b] /\ resp[b] \in Seq(Response)
  BY <1>1 DEF BatchIInv, BatchTypeOK, Progress
<1>4. /\ DOMAIN resp'[b] = DOMAIN reqs[b]
      /\ resp'[b] = [i \in DOMAIN resp[b] |->
                       IF InGroup(reqs[b], i, group[b]) THEN Coded(code) ELSE resp[b][i]]
  <2>1. \A i : (\E m \in DOMAIN Items(b) : Items(b)[m].idx = i) <=> InGroup(reqs[b], i, group[b])
    BY <1>1, ItemsInWork
  <2> QED
    BY <1>2, <1>3, <2>1 DEF BatchIInv, BatchTypeOK
<1>5. Coded(code) \in Response
  BY DEF Coded, Response, KeyType, CostType
<1>6. BatchTypeOK'
  <2>1. resp'[b] \in Seq(Response)
    <3>1. DOMAIN resp[b] = 1..Len(resp[b]) /\ Len(resp[b]) \in Nat
          /\ \A i \in 1..Len(resp[b]) : resp[b][i] \in Response
      BY <1>3
    <3>2. resp'[b] \in [1..Len(resp[b]) -> Response]
      BY <1>4, <1>5, <3>1
    <3> QED
      BY <3>1, <3>2
  <2>2. resp' \in [Batch -> Seq(Response)]
    BY <1>2, <2>1 DEF BatchIInv, BatchTypeOK
  <2> QED
    BY <2>2 DEF BatchIInv, BatchTypeOK
<1>7. \A c \in Batch \ {b} : Untouched(c)
  BY <1>2 DEF BatchIInv, BatchTypeOK, Untouched
<1>8. SlabsApart'
  <2>1. \A c \in Batch : Working(c) => Working(c)'
    BY <1>1, <1>7 DEF Working, Untouched
  <2> QED
    BY <2>1, SlabsKept DEF BatchIInv
<1>9. ASSUME NEW i \in DOMAIN reqs[b], InGroup(reqs[b], i, group[b])
      PROVE  Settled(b, i)'
  <2>1. resp'[b][i] = Coded(code)
    BY <1>3, <1>4, <1>9
  <2>2. group[b] \in DOMAIN Groups(b)
    BY <1>1, GroupInWork
  <2>3. ChargedBy(b, i, "none")
    BY <1>1, <1>9, <2>2 DEF BatchIInv, Progress, Standing
  <2>4. ChargedBy(b, i, "none")'
    BY <2>3, ChargesSame DEF ChargedBy
  <2>5. resp'[b][i].code = code
    BY <2>1 DEF Coded
  <2> QED
    BY <2>4, <2>5 DEF Settled
<1>10. \A i \in DOMAIN reqs[b] : ~InGroup(reqs[b], i, group[b]) => resp'[b][i] = resp[b][i]
  BY <1>3, <1>4
<1>11. PlanIntact(b)' /\ Progress(b)'
  BY <1>1, <1>4, <1>9, <1>10, GroupDone
<1> QED
  BY <1>6, <1>7, <1>8, <1>11, StepOfOne

\* Decisions are in the order of the items, with their keys and costs.
LEMMA DecisionsMean ==
  ASSUME NEW by \in {"redis", "fallback"}, NEW items \in Seq(Item)
  PROVE  /\ DecisionsBy(by, items) \in Seq(Response)
         /\ DOMAIN DecisionsBy(by, items) = DOMAIN items
         /\ \A m \in DOMAIN items :
              /\ DecisionsBy(by, items)[m].code = NoError
              /\ DecisionsBy(by, items)[m].by = by
              /\ DecisionsBy(by, items)[m].key = items[m].key
              /\ DecisionsBy(by, items)[m].cost = items[m].cost
<1> DEFINE d == DecisionsBy(by, items)
<1>1. DOMAIN items = 1..Len(items) /\ Len(items) \in Nat
  OBVIOUS
<1>2. \A m \in DOMAIN items : items[m].key \in KeyType /\ items[m].cost \in CostType
  <2>1. \A m \in DOMAIN items : items[m] \in Item
    OBVIOUS
  <2> QED
    BY <2>1 DEF Item
<1>3. d = [m \in 1..Len(items) |->
             [code |-> NoError, by |-> by, key |-> items[m].key, cost |-> items[m].cost]]
  BY <1>1 DEF DecisionsBy, Decided
<1>4. \A m \in 1..Len(items) :
        [code |-> NoError, by |-> by, key |-> items[m].key, cost |-> items[m].cost] \in Response
  BY <1>1, <1>2 DEF Response
<1>5. d \in [1..Len(items) -> Response]
  BY <1>3, <1>4
<1>6. d \in Seq(Response)
  BY <1>1, <1>5
<1>7. \A m \in DOMAIN items :
        d[m] = [code |-> NoError, by |-> by, key |-> items[m].key, cost |-> items[m].cost]
  BY <1>1, <1>3
<1> HIDE DEF d
<1>8. \A m \in DOMAIN items : /\ d[m].code = NoError /\ d[m].by = by
                             /\ d[m].key = items[m].key /\ d[m].cost = items[m].cost
  <2> TAKE m \in DOMAIN items
  <2> DEFINE k == items[m].key
             c == items[m].cost
  <2>1. d[m] = [code |-> NoError, by |-> by, key |-> k, cost |-> c]
    BY <1>7
  <2> HIDE DEF k, c
  <2>2. d[m].code = NoError /\ d[m].by = by /\ d[m].key = k /\ d[m].cost = c
    BY <2>1
  <2> QED
    BY <2>2 DEF k, c
<1>9. DOMAIN d = DOMAIN items
  BY <1>1, <1>5
<1> QED
  BY <1>6, <1>8, <1>9 DEF d

\* The decisions of a group settle its requests: each lands at its own item's index.
LEMMA RespondGroupInv ==
  ASSUME BatchIInv, NEW b \in Batch, RespondGroup(b)
  PROVE  BatchIInv'
<1> USE DEF RespondGroup, NextGroup, Goto
<1>1. bpc'[b] = "group" /\ bpc[b] = "respond" /\ Working(b) /\ Working(b)' /\ group'[b] = group[b] + 1
  BY DEF BatchIInv, BatchTypeOK, Working
<1> DEFINE at(i) == {m \in DOMAIN decisions[b] : m \in DOMAIN Items(b) /\ Items(b)[m].idx = i}
<1>2. resp' = [resp EXCEPT ![b] =
                 [i \in DOMAIN resp[b] |->
                    IF at(i) = {} THEN resp[b][i] ELSE decisions[b][CHOOSE m \in at(i) : TRUE]]]
  OBVIOUS
<1>3. group[b] <= Len(plan[b])
  BY <1>1 DEF BatchIInv, PlanIntact
<1>4. PICK by \in {"redis", "fallback"} : decisions[b] = DecisionsBy(by, Items(b))
  <2>1. Items(b) = InWork(b)
    BY <1>1 DEF BatchIInv, PlanIntact
  <2> QED
    BY <1>1, <2>1 DEF BatchIInv, Progress
<1>5. /\ Items(b) \in Seq(Item) /\ reqs[b] \in RequestList /\ group[b] \in DOMAIN Groups(b)
      /\ Items(b) = InWork(b) /\ DOMAIN Items(b) = DOMAIN Groups(b)[group[b]]
  BY <1>1, <1>3, GroupInWork
<1>6. /\ decisions[b] \in Seq(Response) /\ DOMAIN decisions[b] = DOMAIN Items(b)
      /\ \A m \in DOMAIN Items(b) : /\ decisions[b][m].code = NoError /\ decisions[b][m].by = by
                                    /\ decisions[b][m].key = Items(b)[m].key
                                    /\ decisions[b][m].cost = Items(b)[m].cost
  <2> DEFINE items == Items(b)
             d == decisions[b]
  <2>1. items \in Seq(Item) /\ d = DecisionsBy(by, items)
    BY <1>4, <1>5
  <2> HIDE DEF items, d
  <2>2. /\ d \in Seq(Response) /\ DOMAIN d = DOMAIN items
        /\ \A m \in DOMAIN items : /\ d[m].code = NoError /\ d[m].by = by
                                   /\ d[m].key = items[m].key /\ d[m].cost = items[m].cost
    BY <2>1, DecisionsMean
  <2> QED
    BY <2>2 DEF items, d
<1>7. DOMAIN resp[b] = DOMAIN reqs[b] /\ resp[b] \in Seq(Response)
  BY <1>1 DEF BatchIInv, BatchTypeOK, Progress
<1>8. /\ DOMAIN resp'[b] = DOMAIN reqs[b]
      /\ \A i \in DOMAIN reqs[b] :
           IF at(i) = {} THEN resp'[b][i] = resp[b][i]
           ELSE \E m \in at(i) : resp'[b][i] = decisions[b][m]
  <2> HIDE DEF at
  <2>1. resp'[b] = [i \in DOMAIN resp[b] |->
                      IF at(i) = {} THEN resp[b][i] ELSE decisions[b][CHOOSE m \in at(i) : TRUE]]
    BY <1>2 DEF BatchIInv, BatchTypeOK
  <2>2. \A i : at(i) # {} => (CHOOSE m \in at(i) : TRUE) \in at(i)
    OBVIOUS
  <2>3. DOMAIN resp'[b] = DOMAIN reqs[b]
    BY <1>7, <2>1
  <2>4. ASSUME NEW i \in DOMAIN reqs[b]
        PROVE  resp'[b][i] = IF at(i) = {} THEN resp[b][i]
                             ELSE decisions[b][CHOOSE m \in at(i) : TRUE]
    BY <1>7, <2>1
  <2>5. ASSUME NEW i \in DOMAIN reqs[b]
        PROVE  IF at(i) = {} THEN resp'[b][i] = resp[b][i]
               ELSE \E m \in at(i) : resp'[b][i] = decisions[b][m]
    BY <2>2, <2>4
  <2> QED
    BY <2>3, <2>5
<1>9. \A i : (at(i) # {}) <=> InGroup(reqs[b], i, group[b])
  <2>1. \A i : (\E m \in DOMAIN Items(b) : Items(b)[m].idx = i) <=> InGroup(reqs[b], i, group[b])
    BY <1>1, <1>3, ItemsInWork
  <2> QED
    BY <1>6, <2>1
<1>10. BatchTypeOK'
  <2>0. decisions[b] \in Seq(Response)
    BY <1>6
  <2>1. \A m \in DOMAIN decisions[b] : decisions[b][m] \in Response
    BY <2>0
  <2>2. resp'[b] \in Seq(Response)
    <3>1. DOMAIN resp[b] = 1..Len(resp[b]) /\ Len(resp[b]) \in Nat
          /\ \A i \in 1..Len(resp[b]) : resp[b][i] \in Response
      BY <1>7
    <3>2. \A i \in 1..Len(resp[b]) : resp'[b][i] \in Response
      BY <1>7, <1>8, <2>1, <3>1
    <3>3. resp'[b] = [i \in 1..Len(resp[b]) |-> resp'[b][i]]
      BY <1>2, <3>1 DEF BatchIInv, BatchTypeOK
    <3>4. resp'[b] \in [1..Len(resp[b]) -> Response]
      BY <3>2, <3>3
    <3> QED
      BY <3>1, <3>4
  <2>3. resp' \in [Batch -> Seq(Response)]
    BY <1>2, <2>2 DEF BatchIInv, BatchTypeOK
  <2> QED
    BY <2>3 DEF BatchIInv, BatchTypeOK
<1>11. \A c \in Batch \ {b} : Untouched(c)
  BY <1>2 DEF BatchIInv, BatchTypeOK, Untouched
<1>12. SlabsApart'
  <2>1. \A c \in Batch : Working(c) => Working(c)'
    BY <1>1, <1>11 DEF Working, Untouched
  <2> QED
    BY <2>1, SlabsKept DEF BatchIInv
<1>13. ASSUME NEW i \in DOMAIN reqs[b], InGroup(reqs[b], i, group[b])
       PROVE  Settled(b, i)'
  <2>1. PICK m \in at(i) : resp'[b][i] = decisions[b][m]
    BY <1>8, <1>9, <1>13
  <2>2. m \in DOMAIN Items(b) /\ m \in DOMAIN decisions[b] /\ Items(b)[m].idx = i
    OBVIOUS
  <2>3. /\ Items(b)[m].key = <<reqs[b][i].target, reqs[b][i].user>>
        /\ Items(b)[m].cost = reqs[b][i].cost
    <3> DEFINE rs == reqs[b]
               g == Grouped(rs)[group[b]]
    <3>1. rs \in RequestList /\ group[b] \in DOMAIN Grouped(rs) /\ m \in DOMAIN g
          /\ Items(b) = WithKeys(rs, g)
      BY <1>5, <2>2 DEF InWork, Groups
    <3> HIDE DEF rs
    <3>2. Items(b)[m] = [idx |-> g[m].idx,
                         key |-> <<rs[g[m].idx].target, rs[g[m].idx].user>>,
                         cost |-> rs[g[m].idx].cost]
      BY <3>1, KeyedMeans
    <3> HIDE DEF g
    <3>3. g[m].idx = i
      BY <2>2, <3>2
    <3> QED
      BY <3>2, <3>3 DEF rs
  <2>4. ChargedBy(b, i, decisions[b][m].by)
    BY <1>1, <1>5, <1>13, <2>2 DEF BatchIInv, Progress, Standing
  <2>5. /\ resp'[b][i].code = NoError /\ resp'[b][i].by = by
        /\ resp'[b][i].key = <<reqs[b][i].target, reqs[b][i].user>>
        /\ resp'[b][i].cost = reqs[b][i].cost
    BY <1>6, <2>1, <2>2, <2>3
  <2>6. ChargedBy(b, i, by)
    BY <1>6, <2>2, <2>4
  <2>7. /\ Charges(b, "redis", i)' = Charges(b, "redis", i)
        /\ Charges(b, "fallback", i)' = Charges(b, "fallback", i)
    BY ChargesSame
  <2> QED
    BY <2>5, <2>6, <2>7 DEF Settled, ChargedBy
<1>14. \A i \in DOMAIN reqs[b] : ~InGroup(reqs[b], i, group[b]) => resp'[b][i] = resp[b][i]
  BY <1>8, <1>9
<1>15. PlanIntact(b)' /\ Progress(b)'
  BY <1>1, <1>3, <1>8, <1>13, <1>14, GroupDone
<1> QED
  BY <1>10, <1>11, <1>12, <1>15, StepOfOne

\* Charging items of the group in work adds nothing to other requests, and at
\* most one charge to each request of the group; exactly one if it is complete.
LEMMA GroupCharged ==
  ASSUME BatchIInv, NEW b \in Batch, Working(b), group[b] <= Len(plan[b]),
         NEW store \in {"redis", "fallback"}, NEW items \in Seq(Item),
         Len(items) <= Len(Items(b)),
         \A m \in 1..Len(items) : items[m].idx = Items(b)[m].idx,
         ledger' = [ledger EXCEPT ![b] = @ \o Charge(store, items)], NEW i
  PROVE  /\ "redis" # store => Charges(b, "redis", i)' = Charges(b, "redis", i)
         /\ "fallback" # store => Charges(b, "fallback", i)' = Charges(b, "fallback", i)
         /\ ~InGroup(reqs[b], i, group[b]) =>
              /\ Charges(b, "redis", i)' = Charges(b, "redis", i)
              /\ Charges(b, "fallback", i)' = Charges(b, "fallback", i)
         /\ Charges(b, store, i) = {} =>
              Charges(b, store, i)' = {} \/ Once(Charges(b, store, i)')
         /\ Charges(b, store, i) = {} /\ Len(items) = Len(Items(b)) /\ InGroup(reqs[b], i, group[b]) =>
              Once(Charges(b, store, i)')
<1>1. ledger \in [Batch -> Seq(Charged)]
  BY DEF BatchIInv, BatchTypeOK
<1>2. /\ DOMAIN Items(b) = 1..Len(Items(b)) /\ Items(b) \in Seq(Item)
  BY GroupInWork
<1>3. Len(items) \in Nat /\ Len(Items(b)) \in Nat
  BY <1>2
<1>4. /\ (\E m \in 1..Len(Items(b)) : Items(b)[m].idx = i) <=> InGroup(reqs[b], i, group[b])
      /\ \A m, l \in 1..Len(Items(b)) : Items(b)[m].idx = i /\ Items(b)[l].idx = i => m = l
  BY <1>2, ItemsInWork
<1>5. \A m \in 1..Len(items) : m \in 1..Len(Items(b))
  BY <1>3
<1>6. \A m, l \in 1..Len(items) : items[m].idx = i /\ items[l].idx = i => m = l
  BY <1>4, <1>5
<1>7. ~InGroup(reqs[b], i, group[b]) => \A m \in 1..Len(items) : items[m].idx # i
  BY <1>4, <1>5
<1>8. Len(items) = Len(Items(b)) /\ InGroup(reqs[b], i, group[b]) =>
        \E m \in 1..Len(items) : items[m].idx = i
  BY <1>4
<1>9. /\ "redis" # store => Charges(b, "redis", i)' = Charges(b, "redis", i)
      /\ "fallback" # store => Charges(b, "fallback", i)' = Charges(b, "fallback", i)
      /\ (\A m \in 1..Len(items) : items[m].idx # i) =>
           /\ Charges(b, "redis", i)' = Charges(b, "redis", i)
           /\ Charges(b, "fallback", i)' = Charges(b, "fallback", i)
      /\ Charges(b, store, i) = {} =>
           /\ Charges(b, store, i)' = {} \/ Once(Charges(b, store, i)')
           /\ (\E m \in 1..Len(items) : items[m].idx = i) => Once(Charges(b, store, i)')
  BY <1>1, <1>6, ChargesOnce
<1> QED
  BY <1>7, <1>8, <1>9

\* The standing of a request after charging, if in the group in work it has
\* been charged as its batch goes on.
LEMMA StandingCharged ==
  ASSUME NEW b \in Batch, NEW i \in DOMAIN reqs[b], Standing(b, i),
         reqs[b] \in RequestList, group[b] \in DOMAIN Groups(b), group[b] \in Nat,
         reqs' = reqs, group' = group, resp' = resp,
         bpc'[b] \in {"fallback", "respond"}, NEW by,
         ~InGroup(reqs[b], i, group[b]) =>
             /\ Charges(b, "redis", i)' = Charges(b, "redis", i)
             /\ Charges(b, "fallback", i)' = Charges(b, "fallback", i),
         InGroup(reqs[b], i, group[b]) => ChargedBy(b, i, by)',
         bpc'[b] = "fallback" => by = "failed",
         bpc'[b] = "respond" => \A m \in DOMAIN decisions'[b] : decisions'[b][m].by = by
  PROVE  Standing(b, i)'
<1>1. Groups(b)' = Groups(b)
  BY DEF Groups
<1>2. Validate(reqs[b][i]) # NoError =>
        resp'[b][i] = Coded(Validate(reqs[b][i])) /\ ChargedBy(b, i, "none")'
  <2>1. Validate(reqs[b][i]) # NoError => ~InGroup(reqs[b], i, group[b])
    BY InGroupMeans DEF Groups
  <2> QED
    BY <2>1 DEF Standing, ChargedBy
<1>3. ASSUME NEW n \in DOMAIN Groups(b), InGroup(reqs[b], i, n), n # group[b]
      PROVE  /\ n < group[b] => Settled(b, i)'
             /\ n > group[b] => ChargedBy(b, i, "none")'
  <2>1. ~InGroup(reqs[b], i, group[b])
    BY <1>3, InGroupMeans DEF Groups
  <2>2. Settled(b, i) => Settled(b, i)'
    BY <2>1 DEF Settled, ChargedBy
  <2>3. ChargedBy(b, i, "none") => ChargedBy(b, i, "none")'
    BY <2>1 DEF ChargedBy
  <2> QED
    BY <1>3, <2>2, <2>3 DEF Standing
<1>4. ASSUME InGroup(reqs[b], i, group[b])
      PROVE  /\ bpc'[b] = "fallback" => ChargedBy(b, i, "failed")'
             /\ bpc'[b] = "respond" =>
                  (\A m \in DOMAIN decisions[b] : ChargedBy(b, i, decisions[b][m].by))'
  <2>1. bpc'[b] = "fallback" => ChargedBy(b, i, "failed")'
    BY <1>4 DEF ChargedBy
  <2>2. bpc'[b] = "respond" =>
          (\A m \in DOMAIN decisions[b] : ChargedBy(b, i, decisions[b][m].by))'
    BY <1>4 DEF ChargedBy
  <2> QED
    BY <2>1, <2>2
<1>5. ~(group[b] < group[b]) /\ ~(group[b] > group[b])
  OBVIOUS
<1> QED
  BY <1>1, <1>2, <1>3, <1>4, <1>5 DEF Standing

\* The pipeline charges the group, or a prefix of it and then fails.
LEMMA AllowRedisInv ==
  ASSUME BatchIInv, NEW b \in Batch, AllowRedis(b)
  PROVE  BatchIInv'
<1> USE DEF AllowRedis
<1>1. bpc[b] = "allow" /\ Working(b) /\ group[b] <= Len(plan[b])
  BY DEF BatchIInv, PlanIntact, Working
<1>2. PICK n \in 0..Len(Items(b)) : Pipeline(b, n)
  OBVIOUS
<1> DEFINE items == Items(b)
           sub == SubSeq(items, 1, n)
<1>3. /\ items \in Seq(Item) /\ items = InWork(b) /\ group[b] \in DOMAIN Groups(b)
      /\ reqs[b] \in RequestList /\ group[b] \in Nat
  BY <1>1, GroupInWork DEF BatchIInv, BatchTypeOK
<1>4. Len(items) \in Nat
  BY <1>3
<1>5. sub \in Seq(Item) /\ Len(sub) = n /\ \A m \in 1..n : sub[m] = items[m]
  BY <1>2, <1>3, <1>4, SubSeqProperties
<1>6. ledger' = [ledger EXCEPT ![b] = @ \o Charge("redis", sub)]
  BY <1>2 DEF Pipeline
<1>7. /\ n = Len(items) => /\ decisions' = [decisions EXCEPT ![b] = DecisionsBy("redis", items)]
                           /\ bpc' = [bpc EXCEPT ![b] = "respond"]
      /\ n # Len(items) => decisions' = decisions /\ bpc' = [bpc EXCEPT ![b] = "fallback"]
  BY <1>2 DEF Pipeline, Goto
<1>8. /\ DecisionsBy("redis", items) \in Seq(Response)
      /\ \A m \in DOMAIN DecisionsBy("redis", items) : DecisionsBy("redis", items)[m].by = "redis"
  <2> HIDE DEF items
  <2> QED
    BY <1>3, DecisionsMean
<1> HIDE DEF items, sub
<1>9. BatchTypeOK'
  <2>1. ledger' \in [Batch -> Seq(Charged)]
    <3>1. ledger[b] \in Seq(Charged) /\ Charge("redis", sub) \in Seq(Charged)
      BY <1>5, ChargeType DEF BatchIInv, BatchTypeOK
    <3>2. ledger[b] \o Charge("redis", sub) \in Seq(Charged)
      BY <3>1, ConcatProperties
    <3> QED
      BY <1>6, <3>2 DEF BatchIInv, BatchTypeOK
  <2>2. decisions' \in [Batch -> Seq(Response)]
    BY <1>7, <1>8 DEF BatchIInv, BatchTypeOK
  <2> QED
    BY <1>7, <2>1, <2>2 DEF BatchIInv, BatchTypeOK
<1>10. \A c \in Batch \ {b} : Untouched(c)
  BY <1>6, <1>7 DEF BatchIInv, BatchTypeOK, Untouched
<1>11. bpc'[b] = (IF n = Len(items) THEN "respond" ELSE "fallback") /\ Working(b)'
  BY <1>7 DEF BatchIInv, BatchTypeOK, Working
<1>12. SlabsApart'
  <2>1. \A c \in Batch : Working(c) => Working(c)'
    BY <1>10, <1>11 DEF Working, Untouched
  <2> QED
    BY <2>1, SlabsKept DEF BatchIInv
<1>13. Groups(b)' = Groups(b) /\ InWork(b)' = InWork(b) /\ Items(b)' = Items(b)
  BY DEF Groups, InWork, Items, Work
<1>14. PlanIntact(b)'
  BY <1>1, <1>11, <1>13 DEF BatchIInv, PlanIntact
<1>15. ASSUME NEW i \in DOMAIN reqs[b] PROVE Standing(b, i)'
  <2>1. Standing(b, i)
    BY <1>1, <1>15 DEF BatchIInv, Progress
  <2>2. /\ Charges(b, "fallback", i)' = Charges(b, "fallback", i)
        /\ ~InGroup(reqs[b], i, group[b]) => Charges(b, "redis", i)' = Charges(b, "redis", i)
        /\ Charges(b, "redis", i) = {} =>
             Charges(b, "redis", i)' = {} \/ Once(Charges(b, "redis", i)')
        /\ Charges(b, "redis", i) = {} /\ n = Len(items) /\ InGroup(reqs[b], i, group[b]) =>
             Once(Charges(b, "redis", i)')
    <3>1. Len(sub) <= Len(Items(b)) /\ \A m \in 1..Len(sub) : sub[m].idx = Items(b)[m].idx
      BY <1>2, <1>4, <1>5 DEF items
    <3> QED
      BY <1>1, <1>5, <1>6, <3>1, GroupCharged DEF items
  <2>3. InGroup(reqs[b], i, group[b]) => ChargedBy(b, i, "none")
    BY <1>1, <1>3, <2>1 DEF Standing
  <2>4. CASE n = Len(items)
    <3>1. bpc'[b] = "respond" /\ decisions'[b] = DecisionsBy("redis", items)
      BY <1>7, <1>11, <2>4 DEF BatchIInv, BatchTypeOK
    <3>2. InGroup(reqs[b], i, group[b]) => ChargedBy(b, i, "redis")'
      BY <2>2, <2>3, <2>4 DEF ChargedBy
    <3>3. /\ bpc'[b] \in {"fallback", "respond"} /\ bpc'[b] # "fallback"
          /\ \A m \in DOMAIN decisions'[b] : decisions'[b][m].by = "redis"
      BY <1>8, <3>1
    <3> QED
      BY <1>3, <2>1, <2>2, <3>2, <3>3, StandingCharged
  <2>5. CASE n # Len(items)
    <3>1. bpc'[b] = "fallback"
      BY <1>11, <2>5
    <3>2. InGroup(reqs[b], i, group[b]) => ChargedBy(b, i, "failed")'
      BY <2>2, <2>3 DEF ChargedBy
    <3>3. bpc'[b] \in {"fallback", "respond"} /\ bpc'[b] # "respond"
      BY <3>1
    <3> QED
      BY <1>3, <2>1, <2>2, <3>2, <3>3, StandingCharged
  <2> QED
    BY <2>4, <2>5
<1>16. Progress(b)'
  <2>1. bpc'[b] = "respond" => decisions'[b] = DecisionsBy("redis", InWork(b))
    BY <1>3, <1>7, <1>11 DEF BatchIInv, BatchTypeOK
  <2>2. DOMAIN resp'[b] = DOMAIN reqs'[b]
    BY <1>1 DEF BatchIInv, Progress
  <2> QED
    BY <1>11, <1>13, <1>15, <2>1, <2>2 DEF Progress
<1> QED
  BY <1>9, <1>10, <1>12, <1>14, <1>16, StepOfOne

\* The fallback charges the group once, on top of what a failed pipeline did.
LEMMA AllowFallbackInv ==
  ASSUME BatchIInv, NEW b \in Batch, AllowFallback(b)
  PROVE  BatchIInv'
<1> USE DEF AllowFallback, Goto
<1>1. bpc[b] = "fallback" /\ Working(b) /\ group[b] <= Len(plan[b])
  BY DEF BatchIInv, PlanIntact, Working
<1> DEFINE items == Items(b)
<1>2. /\ items \in Seq(Item) /\ items = InWork(b) /\ group[b] \in DOMAIN Groups(b)
      /\ reqs[b] \in RequestList /\ group[b] \in Nat
  BY <1>1, GroupInWork DEF BatchIInv, BatchTypeOK
<1>3. /\ ledger' = [ledger EXCEPT ![b] = @ \o Charge("fallback", items)]
      /\ decisions' = [decisions EXCEPT ![b] = DecisionsBy("fallback", items)]
  OBVIOUS
<1> HIDE DEF items
<1>4. /\ DecisionsBy("fallback", items) \in Seq(Response)
      /\ \A m \in DOMAIN DecisionsBy("fallback", items) :
           DecisionsBy("fallback", items)[m].by = "fallback"
  BY <1>2, DecisionsMean
<1>5. BatchTypeOK'
  <2>1. ledger' \in [Batch -> Seq(Charged)]
    <3>1. ledger[b] \in Seq(Charged) /\ Charge("fallback", items) \in Seq(Charged)
      BY <1>2, ChargeType DEF BatchIInv, BatchTypeOK
    <3>2. ledger[b] \o Charge("fallback", items) \in Seq(Charged)
      BY <3>1, ConcatProperties
    <3> QED
      BY <1>3, <3>2 DEF BatchIInv, BatchTypeOK
  <2>2. decisions' \in [Batch -> Seq(Response)]
    BY <1>3, <1>4 DEF BatchIInv, BatchTypeOK
  <2> QED
    BY <2>1, <2>2 DEF BatchIInv, BatchTypeOK
<1>6. \A c \in Batch \ {b} : Untouched(c)
  BY <1>3 DEF BatchIInv, BatchTypeOK, Untouched
<1>7. bpc'[b] = "respond" /\ Working(b)' /\ decisions'[b] = DecisionsBy("fallback", items)
  BY <1>3 DEF BatchIInv, BatchTypeOK, Working
<1>8. SlabsApart'
  <2>1. \A c \in Batch : Working(c) => Working(c)'
    BY <1>6, <1>7 DEF Working, Untouched
  <2> QED
    BY <2>1, SlabsKept DEF BatchIInv
<1>9. Groups(b)' = Groups(b) /\ InWork(b)' = InWork(b) /\ Items(b)' = Items(b)
  BY DEF Groups, InWork, Items, Work
<1>10. PlanIntact(b)'
  BY <1>1, <1>7, <1>9 DEF BatchIInv, PlanIntact
<1>11. ASSUME NEW i \in DOMAIN reqs[b] PROVE Standing(b, i)'
  <2>1. Standing(b, i)
    BY <1>1, <1>11 DEF BatchIInv, Progress
  <2>2. /\ Charges(b, "redis", i)' = Charges(b, "redis", i)
        /\ ~InGroup(reqs[b], i, group[b]) => Charges(b, "fallback", i)' = Charges(b, "fallback", i)
        /\ Charges(b, "fallback", i) = {} /\ InGroup(reqs[b], i, group[b]) =>
             Once(Charges(b, "fallback", i)')
    <3>1. Len(items) \in Nat
      BY <1>2
    <3>2. Len(items) <= Len(Items(b)) /\ Len(items) = Len(Items(b))
          /\ \A m \in 1..Len(items) : items[m].idx = Items(b)[m].idx
      BY <3>1 DEF items
    <3> QED
      BY <1>1, <1>2, <1>3, <3>2, GroupCharged
  <2>3. InGroup(reqs[b], i, group[b]) => ChargedBy(b, i, "failed")
    BY <1>1, <1>2, <2>1 DEF Standing
  <2>4. InGroup(reqs[b], i, group[b]) => ChargedBy(b, i, "fallback")'
    BY <2>2, <2>3 DEF ChargedBy
  <2>5. /\ bpc'[b] \in {"fallback", "respond"} /\ bpc'[b] # "fallback"
        /\ \A m \in DOMAIN decisions'[b] : decisions'[b][m].by = "fallback"
    BY <1>4, <1>7
  <2> QED
    BY <1>2, <2>1, <2>2, <2>4, <2>5, StandingCharged
<1>12. Progress(b)'
  <2>1. DOMAIN resp'[b] = DOMAIN reqs'[b]
    BY <1>1 DEF BatchIInv, Progress
  <2> QED
    BY <1>2, <1>7, <1>9, <1>11, <2>1 DEF Progress
<1> QED
  BY <1>5, <1>6, <1>8, <1>10, <1>12, StepOfOne

\* A new plan takes slabs that no other plan holds.
LEMMA StartInv ==
  ASSUME BatchIInv, NEW b \in Batch, NEW rs \in Batches, Start(b, rs)
  PROVE  BatchIInv'
<1> USE DEF Start, Goto
<1> DEFINE G == Grouped(rs)
<1>1. rs \in RequestList
  BY BatchAssumption DEF RequestList
<1>2. G \in Seq(Seq(Item))
  BY <1>1, GroupedItems
<1> HIDE DEF G
<1>3. DOMAIN G = 1..Len(G) /\ Len(G) \in Nat /\ \A n \in 1..Len(G) : G[n] \in Seq(Item)
  BY <1>2
<1>4. PICK p \in [1..Len(G) -> Free] :
        /\ \A m, n \in DOMAIN p : m # n => p[m] # p[n]
        /\ plan' = [plan EXCEPT ![b] = p]
        /\ slab' = [s \in Slab |-> IF \E n \in DOMAIN p : p[n] = s
                                   THEN G[CHOOSE n \in DOMAIN p : p[n] = s] ELSE slab[s]]
  BY DEF G
<1>5. p \in Seq(Slab) /\ Len(p) = Len(G) /\ DOMAIN p = 1..Len(G)
  <2> DEFINE k == Len(G)
  <2>1. p \in [1..k -> Slab] /\ k \in Nat
    BY <1>3 DEF Free
  <2> HIDE DEF k
  <2>2. p \in Seq(Slab) /\ Len(p) = k /\ DOMAIN p = 1..k
    BY <2>1
  <2> QED
    BY <2>2 DEF k
<1>6. \A c \in Batch : \A n \in DOMAIN plan[c] : \A m \in DOMAIN p : p[m] # plan[c][n]
  <2> SUFFICES ASSUME NEW c \in Batch, NEW n \in DOMAIN plan[c], NEW m \in DOMAIN p
               PROVE  p[m] # plan[c][n]
    OBVIOUS
  <2>1. plan[c][n] \in Held
    BY DEF Held
  <2>2. p[m] \in Free
    BY <1>5
  <2> QED
    BY <2>1, <2>2 DEF Free
<1>7. /\ bpc[b] = "idle" /\ bpc'[b] = "group" /\ Working(b)' /\ reqs'[b] = rs /\ plan'[b] = p
      /\ group'[b] = 1 /\ ledger'[b] = <<>> /\ ledger' = ledger
      /\ resp'[b] = [i \in DOMAIN rs |-> Coded(Validate(rs[i]))]
  BY <1>4 DEF BatchIInv, BatchTypeOK, Working, Progress
<1>8. \A n \in DOMAIN p : slab'[p[n]] = G[n]
  <2> SUFFICES ASSUME NEW n \in DOMAIN p PROVE slab'[p[n]] = G[n]
    OBVIOUS
  <2>1. (CHOOSE k \in DOMAIN p : p[k] = p[n]) = n
    BY <1>4
  <2>2. p[n] \in Slab
    BY <1>5
  <2> QED
    BY <1>4, <2>1, <2>2
<1>9. BatchTypeOK'
  <2>1. reqs' \in [Batch -> RequestList]
    BY <1>1 DEF BatchIInv, BatchTypeOK, RequestList
  <2>2. plan' \in [Batch -> Seq(Slab)]
    BY <1>4, <1>5 DEF BatchIInv, BatchTypeOK
  <2>3. slab' \in [Slab -> Seq(Item)]
    <3>1. \A s \in Slab : slab'[s] \in Seq(Item)
      <4> SUFFICES ASSUME NEW s \in Slab PROVE slab'[s] \in Seq(Item)
        OBVIOUS
      <4>1. CASE \E n \in DOMAIN p : p[n] = s
        BY <1>3, <1>5, <1>8, <4>1
      <4>2. CASE ~\E n \in DOMAIN p : p[n] = s
        BY <1>4, <4>2 DEF BatchIInv, BatchTypeOK
      <4> QED
        BY <4>1, <4>2
    <3>2. slab' = [s \in Slab |-> slab'[s]]
      BY <1>4
    <3> QED
      BY <3>1, <3>2
  <2>4. resp' \in [Batch -> Seq(Response)]
    <3>1. \A q : Coded(Validate(q)) \in Response
      BY ValidateValues DEF Coded, Response, KeyType, CostType
    <3>2. DOMAIN rs = 1..Len(rs) /\ Len(rs) \in Nat
      BY <1>1 DEF RequestList
    <3>3. [i \in DOMAIN rs |-> Coded(Validate(rs[i]))] \in [1..Len(rs) -> Response]
      BY <3>1, <3>2
    <3>4. [i \in DOMAIN rs |-> Coded(Validate(rs[i]))] \in Seq(Response)
      BY <3>2, <3>3
    <3> QED
      BY <3>4 DEF BatchIInv, BatchTypeOK
  <2> QED
    BY <2>1, <2>2, <2>3, <2>4 DEF BatchIInv, BatchTypeOK, RequestList
<1>10. \A c \in Batch \ {b} : Untouched(c)
  BY <1>4 DEF BatchIInv, BatchTypeOK, Untouched
<1>11. SlabsApart'
  <2>1. \A c \in Batch : ~Working(c)' => plan'[c] = <<>>
    BY <1>7, <1>10 DEF BatchIInv, SlabsApart, Working, Untouched
  <2>2. \A c \in Batch \ {b} : plan'[c] = plan[c]
    BY <1>10 DEF Untouched
  <2>3. \A c \in Batch : \A m, n \in DOMAIN plan'[c] : plan'[c][m] = plan'[c][n] => m = n
    BY <1>4, <1>7, <2>2 DEF BatchIInv, SlabsApart
  <2>4. \A c, d \in Batch : c # d =>
          \A m \in DOMAIN plan'[c], n \in DOMAIN plan'[d] : plan'[c][m] # plan'[d][n]
    <3> SUFFICES ASSUME NEW c \in Batch, NEW d \in Batch, c # d,
                        NEW m \in DOMAIN plan'[c], NEW n \in DOMAIN plan'[d]
                 PROVE  plan'[c][m] # plan'[d][n]
      OBVIOUS
    <3>1. CASE c = b
      BY <1>6, <1>7, <2>2, <3>1
    <3>2. CASE d = b
      BY <1>6, <1>7, <2>2, <3>2
    <3>3. CASE c # b /\ d # b
      BY <2>2, <3>3 DEF BatchIInv, SlabsApart
    <3> QED
      BY <3>1, <3>2, <3>3
  <2> QED
    BY <2>1, <2>3, <2>4 DEF SlabsApart
<1>12. \A c \in Batch \ {b} : \A n \in DOMAIN plan[c] : slab'[plan[c][n]] = slab[plan[c][n]]
  <2> SUFFICES ASSUME NEW c \in Batch \ {b}, NEW n \in DOMAIN plan[c]
               PROVE  slab'[plan[c][n]] = slab[plan[c][n]]
    OBVIOUS
  <2>1. plan[c] \in Seq(Slab)
    BY DEF BatchIInv, BatchTypeOK
  <2>2. plan[c][n] \in Slab
    BY <2>1
  <2>3. ~\E m \in DOMAIN p : p[m] = plan[c][n]
    BY <1>6
  <2> QED
    BY <1>4, <2>2, <2>3
<1>13. Groups(b)' = G
  BY <1>7 DEF Groups, G
<1>14. PlanIntact(b)'
  <2>1. Len(plan'[b]) = Len(G) /\ group'[b] \in 1..(Len(plan'[b]) + 1)
    BY <1>3, <1>5, <1>7
  <2> QED
    BY <1>7, <1>8, <1>13, <2>1 DEF PlanIntact
<1>15. Progress(b)'
  <2>1. \A i : Charges(b, "redis", i)' = {} /\ Charges(b, "fallback", i)' = {}
    <3>1. DOMAIN ledger'[b] = {}
      BY <1>7
    <3> QED
      BY <3>1 DEF Charges
  <2>2. ASSUME NEW i \in DOMAIN rs PROVE Standing(b, i)'
    <3>1. ChargedBy(b, i, "none")'
      BY <2>1 DEF ChargedBy
    <3>2. resp'[b][i] = Coded(Validate(rs[i]))
      BY <1>7
    <3>3. \A n \in DOMAIN G : ~(n < group'[b])
      BY <1>3, <1>7
    <3> QED
      BY <1>7, <1>13, <3>1, <3>2, <3>3 DEF Standing
  <2>3. DOMAIN resp'[b] = DOMAIN rs
    BY <1>7
  <2> QED
    BY <1>7, <2>2, <2>3 DEF Progress
<1> QED
  BY <1>9, <1>10, <1>11, <1>12, <1>14, <1>15, StepOfOne

------------------------------------------------------------------------------
(* The theorems *)

\* Every step keeps the invariant.
LEMMA BatchStep == BatchIInv /\ [Next]_vars => BatchIInv'
<1> SUFFICES ASSUME BatchIInv, [Next]_vars PROVE BatchIInv'
  OBVIOUS
<1>1. ASSUME NEW b \in Batch, NEW rs \in Batches, Start(b, rs) PROVE BatchIInv'
  BY <1>1, StartInv
<1>2. ASSUME NEW b \in Batch, NEW rs \in Batches, Refuse(b, rs) PROVE BatchIInv'
  BY <1>2, RefuseInv
<1>3. ASSUME NEW b \in Batch, GroupFails(b) PROVE BatchIInv'
  BY <1>3, GroupFailsInv
<1>4. ASSUME NEW b \in Batch, BuildKeys(b) PROVE BatchIInv'
  BY <1>4, BuildKeysInv
<1>5. ASSUME NEW b \in Batch, SkipRedis(b) PROVE BatchIInv'
  BY <1>5, SkipRedisInv
<1>6. ASSUME NEW b \in Batch, AllowRedis(b) PROVE BatchIInv'
  BY <1>6, AllowRedisInv
<1>7. ASSUME NEW b \in Batch, AllowFallback(b) PROVE BatchIInv'
  BY <1>7, AllowFallbackInv
<1>8. ASSUME NEW b \in Batch, RespondGroup(b) PROVE BatchIInv'
  BY <1>8, RespondGroupInv
<1>9. ASSUME NEW b \in Batch, Finish(b) PROVE BatchIInv'
  BY <1>9, FinishInv
<1>10. ASSUME NEW b \in Batch, Reply(b) PROVE BatchIInv'
  BY <1>10, ReplyInv
<1>11. CASE CloseInFlight
  BY <1>11, CloseInv
<1>12. CASE UNCHANGED vars
  BY <1>12, CloseInv
<1> QED
  BY <1>1, <1>2, <1>3, <1>4, <1>5, <1>6, <1>7, <1>8, <1>9, <1>10, <1>11, <1>12 DEF Next

\* Hence the invariant always holds.
LEMMA BatchAlways == Spec => []BatchIInv
BY BatchInit, BatchStep, PTL DEF Spec

\* When a batch is done every request is invalid or settled.
LEMMA DoneIsSettled ==
  ASSUME BatchIInv, NEW b \in Batch, bpc[b] = "done", NEW i \in DOMAIN reqs[b]
  PROVE  /\ Validate(reqs[b][i]) # NoError =>
              resp[b][i] = Coded(Validate(reqs[b][i])) /\ ChargedBy(b, i, "none")
         /\ Validate(reqs[b][i]) = NoError => Settled(b, i)
<1>1. Standing(b, i) /\ group[b] = Len(Groups(b)) + 1
  BY DEF BatchIInv, Progress
<1>2. reqs[b] \in RequestList
  BY DEF BatchIInv, BatchTypeOK, RequestList
<1>3. ASSUME Validate(reqs[b][i]) = NoError PROVE Settled(b, i)
  <2>1. i \in Valid(reqs[b])
    BY <1>3 DEF Valid
  <2>2. PICK n \in DOMAIN Groups(b) : InGroup(reqs[b], i, n)
    BY <1>2, <2>1, GroupedAll DEF Groups, InGroup
  <2>3. Groups(b) \in Seq(Seq(Item))
    BY <1>2, GroupedItems DEF Groups
  <2>4. n < group[b]
    BY <1>1, <2>3
  <2> QED
    BY <1>1, <2>2, <2>4 DEF Standing
<1> QED
  BY <1>1, <1>3 DEF Standing

\* CheckLimitBatch answers each request at its own position: an invalid one
\* with its code, a valid one with the code of its group or with a decision for
\* its own key and cost, for any batches in flight and any reuse of the
\* planner's slices.
THEOREM BatchAnswersMatch == Spec => []AnswersMatch
<1>1. BatchIInv => AnswersMatch
  <2> SUFFICES ASSUME BatchIInv, NEW b \in Batch, bpc[b] = "done"
               PROVE  /\ Len(resp[b]) = Len(reqs[b])
                      /\ \A i \in DOMAIN reqs[b] :
                           LET q == reqs[b][i]
                               a == resp[b][i]
                           IN \/ Validate(q) # NoError /\ a = Coded(Validate(q))
                              \/ /\ Validate(q) = NoError
                                 /\ a.code \in {"RULE_NOT_FOUND", "LIMITER_UNAVAILABLE"}
                              \/ /\ Validate(q) = NoError /\ a.code = NoError
                                 /\ a.key = <<q.target, q.user>> /\ a.cost = q.cost
    BY DEF AnswersMatch
  <2>1. /\ resp[b] \in Seq(Response) /\ reqs[b] \in Seq(Request \cup {NilRequest})
        /\ DOMAIN resp[b] = DOMAIN reqs[b]
    BY DEF BatchIInv, BatchTypeOK, Progress
  <2>2. Len(resp[b]) = Len(reqs[b])
    BY <2>1
  <2> QED
    BY <2>2, DoneIsSettled DEF Settled
<1> QED
  BY <1>1, BatchAlways, PTL

\* And the batch has charged what it answers: nothing for a code, Redis once for
\* a decision of Redis, the fallback once, with Redis at most once, for one of
\* the fallback.
THEOREM BatchChargedAsAnswered == Spec => []ChargedAsAnswered
<1>1. ASSUME BatchIInv, NEW b \in Batch, bpc[b] = "done", NEW i \in DOMAIN reqs[b]
      PROVE  LET redis == Cardinality(Charges(b, "redis", i))
                 fallback == Cardinality(Charges(b, "fallback", i))
             IN IF resp[b][i].code # NoError THEN redis = 0 /\ fallback = 0
                ELSE IF resp[b][i].by = "redis" THEN redis = 1 /\ fallback = 0
                ELSE redis <= 1 /\ fallback = 1
  <2>1. \A S : (S = {} => Cardinality(S) = 0) /\ (Once(S) => Cardinality(S) = 1)
    BY FS_EmptySet, FS_Singleton DEF Once
  <2>2. CASE Validate(reqs[b][i]) # NoError
    <3>1. resp[b][i].code # NoError /\ ChargedBy(b, i, "none")
      <4>1. resp[b][i] = Coded(Validate(reqs[b][i])) /\ ChargedBy(b, i, "none")
        BY <1>1, <2>2, DoneIsSettled
      <4>2. \A code : Coded(code).code = code
        BY DEF Coded
      <4> QED
        BY <2>2, <4>1, <4>2
    <3> QED
      BY <2>1, <3>1 DEF ChargedBy
  <2>3. CASE Validate(reqs[b][i]) = NoError
    <3>1. Settled(b, i)
      BY <1>1, <2>3, DoneIsSettled
    <3>2. CASE resp[b][i].code \in {"RULE_NOT_FOUND", "LIMITER_UNAVAILABLE"}
      <4>1. resp[b][i].code # NoError
        BY <3>2, NoErrorIsNoCode
      <4>2. ChargedBy(b, i, "none")
        BY <3>1, <4>1 DEF Settled
      <4> QED
        BY <2>1, <4>1, <4>2 DEF ChargedBy
    <3>3. CASE resp[b][i].code = NoError
      <4>1. resp[b][i].by \in {"redis", "fallback"} /\ ChargedBy(b, i, resp[b][i].by)
        BY <3>1, <3>3, NoErrorIsNoCode DEF Settled
      <4>2. CASE resp[b][i].by = "redis"
        BY <2>1, <3>3, <4>1, <4>2 DEF ChargedBy
      <4>3. CASE resp[b][i].by = "fallback"
        BY <2>1, <3>3, <4>1, <4>3 DEF ChargedBy
      <4> QED
        BY <4>1, <4>2, <4>3
    <3> QED
      BY <3>1, <3>2, <3>3 DEF Settled
  <2> QED
    BY <2>2, <2>3
<1>2. BatchIInv => ChargedAsAnswered
  BY <1>1 DEF ChargedAsAnswered
<1> QED
  BY <1>2, BatchAlways, PTL

==============================================================================
