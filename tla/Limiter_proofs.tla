---------------------------- MODULE Limiter_proofs ----------------------------
(***************************************************************************)
(* What a limiter's answer rests on: the breaker it asks first and the     *)
(* store's algorithm that decides.                                         *)
(*                                                                         *)
(* The breaker, for any set of callers, any threshold and any half-open    *)
(* maximum: TypeOK /\ HalfOpenHasCaller /\ CounterBounded is inductive as  *)
(* it stands.                                                              *)
(*                                                                         *)
(* The algorithms, for any rules, costs, integer width and number of       *)
(* ticks: RateIInv, one inductive invariant per algorithm.                 *)
(***************************************************************************)
EXTENDS CircuitBreaker, RateAlgorithms, FiniteSetTheorems, WellFoundedInduction, TLAPS

------------------------------------------------------------------------------
(* The circuit breaker *)

Inv == TypeOK /\ HalfOpenHasCaller /\ CounterBounded

\* Callers that were counted and turned away.
Undoing == {c \in Caller : pc[c] = "halfundo"}

\* A step of one caller keeps every variable's type.
LEMMA StepType ==
  ASSUME TypeOK, NEW c \in Caller, CallerStep(c)
  PROVE  TypeOK'
PROOF
  <1> USE BreakerAssumption
  <1>1. state' \in States
    BY DEF TypeOK, States, CallerStep, AllowLoad, AllowClock, AllowProbe, AllowZero,
           AllowHalfAdd, AllowHalfUndo, Exec, OkLoad, OkDec, OkReset, OkClose,
           FailLoad, FailDec, FailSet, FailAdd, FailUntil, FailTrip
  <1>2. cooled' \in BOOLEAN /\ healthy' \in BOOLEAN
    BY Zenon DEF TypeOK, CallerStep, AllowLoad, AllowClock, AllowProbe, AllowZero,
           AllowHalfAdd, AllowHalfUndo, Exec, OkLoad, OkDec, OkReset, OkClose,
           FailLoad, FailDec, FailSet, FailAdd, FailUntil, FailTrip
  <1>3. failures' \in {failures, 0, FailureThreshold, AddFailure(failures)}
    BY DEF CallerStep, AllowLoad, AllowClock, AllowProbe, AllowZero,
           AllowHalfAdd, AllowHalfUndo, Exec, OkLoad, OkDec, OkReset, OkClose,
           FailLoad, FailDec, FailSet, FailAdd, FailUntil, FailTrip
  <1>4. failures' \in 0..FailureThreshold
    BY <1>3 DEF TypeOK, AddFailure
  <1>5. half' \in {half, 0, half + 1, half - 1}
    BY DEF CallerStep, AllowLoad, AllowClock, AllowProbe, AllowZero,
           AllowHalfAdd, AllowHalfUndo, Exec, OkLoad, OkDec, OkReset, OkClose,
           FailLoad, FailDec, FailSet, FailAdd, FailUntil, FailTrip
  <1>6. half' \in Int
    BY <1>5 DEF TypeOK
  <1>7. PICK l \in PCs : pc' = [pc EXCEPT ![c] = l]
    BY DEF TypeOK, States, PCs, Owing, Goto, CallerStep, AllowLoad, AllowClock,
           AllowProbe, AllowZero, AllowHalfAdd, AllowHalfUndo, Exec, OkLoad, OkDec,
           OkReset, OkClose, FailLoad, FailDec, FailSet, FailAdd, FailUntil, FailTrip
  <1>8. pc' \in [Caller -> PCs]
    BY <1>7 DEF TypeOK
  <1> QED BY <1>1, <1>2, <1>4, <1>6, <1>8 DEF TypeOK

\* A caller leaves the labels at which it owes an outcome only when the
\* breaker is not half-open, and makes it half-open only by entering them.
LEMMA StepHalfOpen ==
  ASSUME TypeOK, HalfOpenHasCaller, NEW c \in Caller, CallerStep(c)
  PROVE  HalfOpenHasCaller'
PROOF
  <1> SUFFICES ASSUME state' = "halfopen"
               PROVE  \E d \in Caller : pc'[d] \in Owing
    BY DEF HalfOpenHasCaller
  <1>1. \A d \in Caller \ {c} : pc'[d] = pc[d]
    BY DEF TypeOK, Goto, CallerStep, AllowLoad, AllowClock, AllowProbe, AllowZero,
           AllowHalfAdd, AllowHalfUndo, Exec, OkLoad, OkDec, OkReset, OkClose,
           FailLoad, FailDec, FailSet, FailAdd, FailUntil, FailTrip
  <1>2. CASE AllowProbe(c)
    BY <1>2 DEF AllowProbe, Goto, TypeOK, Owing
  <1>3. CASE ~AllowProbe(c)
    <2>1. state = "halfopen"
      BY <1>3 DEF CallerStep, AllowLoad, AllowClock, AllowZero,
           AllowHalfAdd, AllowHalfUndo, Exec, OkLoad, OkDec, OkReset, OkClose,
           FailLoad, FailDec, FailSet, FailAdd, FailUntil, FailTrip
    <2>2. PICK d \in Caller : pc[d] \in Owing
      BY <2>1 DEF HalfOpenHasCaller
    <2>3. pc[c] \in Owing => pc'[c] \in Owing
      BY <2>1, <1>3 DEF TypeOK, Owing, Goto, CallerStep, AllowLoad, AllowClock,
           AllowZero, AllowHalfAdd, AllowHalfUndo, Exec, OkLoad, OkDec, OkReset,
           OkClose, FailLoad, FailDec, FailSet, FailAdd, FailUntil, FailTrip
    <2> QED BY <2>2, <2>3, <1>1
  <1> QED BY <1>2, <1>3

\* Every step that raises the counter past the maximum adds its caller to the
\* ones about to take their count back.
LEMMA StepCounter ==
  ASSUME TypeOK, CounterBounded, NEW c \in Caller, CallerStep(c)
  PROVE  CounterBounded'
PROOF
  <1> USE BreakerAssumption
  <1>1. IsFiniteSet(Undoing) /\ IsFiniteSet(Undoing')
    BY FS_Subset DEF Undoing
  <1>2. Cardinality(Undoing) \in Nat /\ Cardinality(Undoing') \in Nat
    BY <1>1, FS_CardinalityType
  <1>3. half <= HalfOpenMaxCalls + Cardinality(Undoing) /\ half \in Int
    BY DEF CounterBounded, Undoing, TypeOK
  <1>4. CASE AllowHalfAdd(c)
    <2>1. c \notin Undoing /\ half' = half + 1
      BY <1>4 DEF AllowHalfAdd, Undoing
    <2>2. CASE half' <= HalfOpenMaxCalls
      BY <2>2, <2>1, <1>2, <1>3 DEF CounterBounded, Undoing
    <2>3. CASE ~(half' <= HalfOpenMaxCalls)
      <3>1. Undoing' = Undoing \cup {c}
        BY <2>3, <1>4 DEF AllowHalfAdd, Goto, Undoing, TypeOK
      <3>2. Cardinality(Undoing') = Cardinality(Undoing) + 1
        BY <3>1, <2>1, <1>1, FS_AddElement
      <3> QED BY <3>2, <2>1, <1>2, <1>3 DEF CounterBounded, Undoing
    <2> QED BY <2>2, <2>3
  <1>5. CASE AllowHalfUndo(c)
    <2>1. c \in Undoing /\ half' = half - 1 /\ Undoing' = Undoing \ {c}
      BY <1>5 DEF AllowHalfUndo, Goto, Undoing, TypeOK
    <2>2. Cardinality(Undoing') = Cardinality(Undoing) - 1
      BY <2>1, <1>1, FS_RemoveElement
    <2> QED BY <2>1, <2>2, <1>2, <1>3 DEF CounterBounded, Undoing
  <1>6. CASE ~AllowHalfAdd(c) /\ ~AllowHalfUndo(c)
    <2>1. half' \in {half, 0, half - 1}
      BY <1>6 DEF CallerStep, AllowLoad, AllowClock, AllowProbe, AllowZero, Exec,
           OkLoad, OkDec, OkReset, OkClose, FailLoad, FailDec, FailSet, FailAdd,
           FailUntil, FailTrip
    <2>2. pc[c] # "halfundo" /\ \E l \in PCs \ {"halfundo"} : pc' = [pc EXCEPT ![c] = l]
      BY <1>6 DEF TypeOK, States, PCs, Owing, Goto, CallerStep, AllowLoad, AllowClock,
           AllowProbe, AllowZero, Exec, OkLoad, OkDec, OkReset, OkClose, FailLoad,
           FailDec, FailSet, FailAdd, FailUntil, FailTrip
    <2>3. Undoing' = Undoing
      BY <2>2 DEF Undoing, TypeOK
    <2>4. Cardinality(Undoing') = Cardinality(Undoing)
      BY <2>3
    <2>5. half' <= HalfOpenMaxCalls + Cardinality(Undoing')
      BY <2>1, <2>4, <1>2, <1>3
    <2> QED BY <2>5 DEF CounterBounded, Undoing
  <1> QED BY <1>4, <1>5, <1>6

\* The initial state satisfies the invariant.
LEMMA InitInv == Init => Inv
PROOF
  <1> SUFFICES ASSUME Init PROVE Inv
    OBVIOUS
  <1>1. TypeOK
    BY BreakerAssumption DEF Init, TypeOK, States, PCs
  <1>2. Undoing = {}
    BY DEF Init, Undoing
  <1>3. CounterBounded
    BY <1>2, FS_EmptySet, BreakerAssumption DEF CounterBounded, Undoing, Init
  <1> QED BY <1>1, <1>3 DEF Inv, HalfOpenHasCaller, Init

\* Every step preserves it.
LEMMA NextInv == Inv /\ [Next]_vars => Inv'
PROOF
  <1> SUFFICES ASSUME Inv, [Next]_vars PROVE Inv'
    OBVIOUS
  <1>1. CASE \E c \in Caller : CallerStep(c)
    BY <1>1, StepType, StepHalfOpen, StepCounter DEF Inv
  <1>2. CASE Cool \/ HealthChanges
    <2>1. UNCHANGED <<state, failures, half, pc>>
      BY <1>2 DEF Cool, HealthChanges
    <2>2. cooled' \in BOOLEAN /\ healthy' \in BOOLEAN
      BY <1>2, Zenon DEF Cool, HealthChanges, Inv, TypeOK
    <2> QED BY <2>1, <2>2 DEF Inv, TypeOK, HalfOpenHasCaller, CounterBounded
  <1>3. CASE UNCHANGED vars
    BY <1>3 DEF vars, Inv, TypeOK, HalfOpenHasCaller, CounterBounded
  <1> QED BY <1>1, <1>2, <1>3 DEF Next

\* The invariant holds throughout.
LEMMA BreakerInvariant == Spec => []Inv
PROOF
  <1> QED BY InitInv, NextInv, PTL DEF Spec

\* Every variable of the breaker keeps its type.
THEOREM BreakerTypeCorrect == Spec => []TypeOK
PROOF
  <1>1. Inv => TypeOK
    BY DEF Inv
  <1> QED BY <1>1, BreakerInvariant, PTL

\* The half-open state always has a call under way that will end it.
THEOREM BreakerHalfOpenHasCaller == Spec => []HalfOpenHasCaller
PROOF
  <1>1. Inv => HalfOpenHasCaller
    BY DEF Inv
  <1> QED BY <1>1, BreakerInvariant, PTL

\* Calls turned away by the half-open state do not use up its capacity.
THEOREM BreakerCounterBounded == Spec => []CounterBounded
PROOF
  <1>1. Inv => CounterBounded
    BY DEF Inv
  <1> QED BY <1>1, BreakerInvariant, PTL

------------------------------------------------------------------------------
(* Numbers *)

\* Every set of numbers that is not empty has a least element.
LEMMA LeastNumber ==
  ASSUME NEW S \in SUBSET Nat, S # {}
  PROVE  \E l \in S : \A j \in S : l <= j
<1>1. PICK l \in S : \A j \in S : ~(<<j, l>> \in OpToRel(<, Nat))
  BY WFMin, NatLessThanWellFounded
<1>2. \A j \in S : ~(j < l)
  BY <1>1 DEF OpToRel
<1>3. \A j \in S : j \in Nat
  OBVIOUS
<1>4. \A j \in S : l <= j
  BY <1>2, <1>3
<1> QED
  BY <1>4

\* A number of the int64 range is itself.
LEMMA InRange ==
  ASSUME NEW x \in Int, -(MaxInt + 1) <= x, x <= MaxInt
  PROVE  Int64(x) = x
<1> DEFINE m == 2 * (MaxInt + 1)
           y == x + MaxInt + 1
<1>1. y \in Nat /\ m \in Nat /\ y < m
  BY RateAssumption
<1>2. \A a, b \in Nat : a < b => a % b = a
  OBVIOUS
<1>3. y % m = y
  BY <1>1, <1>2
<1> QED
  BY <1>3, RateAssumption DEF Int64

\* A rule's window and limit.
LEMMA RuleFacts ==
  ASSUME NEW p \in Params
  PROVE  /\ Window(p) \in Nat \ {0} /\ p.limit \in Nat \ {0} /\ p.limit <= MaxInt
         /\ Capacity(p) \in Nat \ {0}
         /\ (p.limit * Scale) \div Window(p) \in Nat \ {0}
         /\ p.algo \in {"fixed", "sliding", "bucket"}
<1>1. /\ Window(p) \in Nat \ {0} /\ p.limit \in Nat \ {0} /\ p.limit <= MaxInt
      /\ Capacity(p) \in Nat \ {0} /\ p.algo \in {"fixed", "sliding", "bucket"}
  BY RateAssumption DEF Window, Capacity
<1>2. PICK n \in 1..Scale : Scale = n * Window(p)
  BY RateAssumption
<1> DEFINE w == Window(p)
           a == p.limit * n
<1>3. n \in Nat \ {0} /\ w \in Nat \ {0} /\ p.limit \in Nat \ {0}
  BY <1>1, <1>2, RateAssumption
<1>4. a \in Nat \ {0}
  BY <1>3
<1>5. p.limit * Scale = a * w
  BY <1>2, <1>3
<1> HIDE DEF a, w
<1>6. (a * w) \div w = a
  BY <1>3, <1>4
<1> QED
  BY <1>1, <1>4, <1>5, <1>6 DEF w

------------------------------------------------------------------------------
(* The loop over the events *)

\* What a list of events consists of.
LEMMA EventFacts ==
  ASSUME NEW events \in Seq(Event)
  PROVE  /\ Len(events) \in Nat /\ DOMAIN events = 1..Len(events)
         /\ \A i \in 1..Len(events) : /\ events[i] \in Event /\ events[i].t \in Nat
                                      /\ events[i].cost \in Cost /\ events[i].cost \in 1..MaxInt
<1>1. \A e \in Event : e.t \in Nat /\ e.cost \in Cost /\ e.cost \in 1..MaxInt
  BY RateAssumption DEF Event
<1>2. /\ Len(events) \in Nat /\ DOMAIN events = 1..Len(events)
      /\ \A i \in 1..Len(events) : events[i] \in Event
  OBVIOUS
<1> QED
  BY <1>1, <1>2

\* A piece of a list, by position.
LEMMA SubSeqIs ==
  ASSUME NEW events \in Seq(Event), NEW k \in 0..Len(events), NEW n \in k..Len(events)
  PROVE  /\ SubSeq(events, k + 1, n) = [i \in 1..(n - k) |-> events[k + i]]
         /\ SubSeq(events, k + 1, n) \in Seq(Event) /\ Len(SubSeq(events, k + 1, n)) = n - k
<1>1. /\ Len(events) \in Nat /\ DOMAIN events = 1..Len(events)
      /\ \A i \in 1..Len(events) : events[i] \in Event
  BY EventFacts
<1>2. SubSeq(events, k + 1, n) = [i \in 1..(n - k) |-> events[k + i]]
  BY <1>1
<1>3. \A i \in 1..(n - k) : events[k + i] \in Event
  BY <1>1
<1> QED
  BY <1>1, <1>2, <1>3

\* Two descriptions of the running totals, the recursion and a table, agree.
LEMMA SumsAre ==
  ASSUME NEW events \in Seq(Event), NEW c \in [0..Len(events) -> Int], c[0] = 0,
         \A n \in 1..Len(events) : c[n] = Int64(c[n - 1] + events[n].cost)
  PROVE  Sums(events) = c
<1> DEFINE P(f) == f = [n \in 0..Len(events) |->
                          IF n = 0 THEN 0 ELSE Int64(f[n - 1] + events[n].cost)]
           N == Len(events)
<1>0. N \in Nat
  OBVIOUS
<1>1. Sums(events) = CHOOSE f : P(f)
  BY DEF Sums
<1>2. P(c)
  <2>1. \A n \in 0..N : n # 0 => Int64(c[n - 1] + events[n].cost) = c[n]
    BY <1>0
  <2> QED
    BY <2>1
<1> HIDE DEF P
<1>3. P(Sums(events))
  BY <1>1, <1>2
<1> USE DEF P
<1> DEFINE s == Sums(events)
<1>4. /\ s = [n \in 0..N |-> IF n = 0 THEN 0 ELSE Int64(s[n - 1] + events[n].cost)]
      /\ c = [n \in 0..N |-> IF n = 0 THEN 0 ELSE Int64(c[n - 1] + events[n].cost)]
  BY <1>2, <1>3
<1> HIDE DEF s, P, N
<1> DEFINE D == {n \in 0..N : s[n] # c[n]}
<1>5. D = {}
  <2> SUFFICES ASSUME D # {} PROVE FALSE
    OBVIOUS
  <2>0. D \in SUBSET Nat
    BY <1>0
  <2>1. PICK l \in D : \A j \in D : l <= j
    <3> HIDE DEF D
    <3> QED BY <2>0, LeastNumber
  <2>2. l \in 0..N /\ s[l] # c[l]
    OBVIOUS
  <2>3. l # 0
    BY <1>0, <1>4, <2>2
  <2>4. l - 1 \in 0..N /\ l - 1 \notin D
    BY <1>0, <2>1, <2>2, <2>3
  <2>5. s[l - 1] = c[l - 1]
    BY <2>4
  <2> QED
    BY <1>4, <2>2, <2>3, <2>5
<1>6. \A n \in 0..N : s[n] = c[n]
  BY <1>5
<1> QED
  BY <1>4, <1>6 DEF s

\* Where the events begin that are not older than a cutoff.
LEMMA CutoffSplits ==
  ASSUME NEW events \in Seq(Event), NEW cutoff \in Int,
         \A i, j \in DOMAIN events : i <= j => events[i].t <= events[j].t
  PROVE  \E k \in 0..Len(events) :
           /\ \A i \in 1..k : events[i].t < cutoff
           /\ \A i \in (k + 1)..Len(events) : events[i].t >= cutoff
<1> DEFINE S == {i \in DOMAIN events : events[i].t >= cutoff}
           N == Len(events)
<1>1. DOMAIN events = 1..N /\ N \in Nat /\ \A i \in 1..N : events[i].t \in Nat
  BY EventFacts
<1>2. CASE S = {}
  <2>1. \A i \in 1..N : events[i].t < cutoff
    BY <1>1, <1>2
  <2>2. N \in 0..N /\ \A i \in (N + 1)..N : events[i].t >= cutoff
    BY <1>1
  <2> QED
    BY <2>1, <2>2
<1>3. CASE S # {}
  <2>0. S \in SUBSET Nat
    BY <1>1
  <2>1. PICK l \in S : \A j \in S : l <= j
    <3> HIDE DEF S
    <3> QED BY <1>3, <2>0, LeastNumber
  <2>2. l \in 1..N /\ events[l].t >= cutoff
    BY <1>1
  <2>3. l - 1 \in 0..N
    BY <1>1, <2>2
  <2>4. \A i \in 1..(l - 1) : events[i].t < cutoff
    BY <1>1, <2>1, <2>2
  <2>5. \A i \in ((l - 1) + 1)..N : events[i].t >= cutoff
    BY <1>1, <2>2
  <2> QED
    BY <2>3, <2>4, <2>5
<1> QED
  BY <1>2, <1>3

\* The filter drops the events before the cutoff.
LEMMA FilteredIs ==
  ASSUME NEW events \in Seq(Event), NEW cutoff \in Int, NEW k \in 0..Len(events),
         \A i \in 1..k : events[i].t < cutoff,
         \A i \in (k + 1)..Len(events) : events[i].t >= cutoff
  PROVE  Filtered(events, cutoff)[Len(events)] = SubSeq(events, k + 1, Len(events))
<1> DEFINE N == Len(events)
           step(f, n) == IF n = 0 THEN << >>
                         ELSE IF events[n].t >= cutoff THEN Append(f[n - 1], events[n])
                         ELSE f[n - 1]
           P(f) == f = [n \in 0..N |-> step(f, n)]
           c == [n \in 0..N |-> IF n <= k THEN << >> ELSE SubSeq(events, k + 1, n)]
<1>0. N \in Nat /\ k \in Nat /\ k <= N /\ \A i \in 1..N : events[i] \in Event /\ events[i].t \in Nat
  BY EventFacts
<1>1. Filtered(events, cutoff) = CHOOSE f : P(f)
  BY DEF Filtered
<1>2. P(c)
  <2>1. ASSUME NEW n \in 0..N PROVE c[n] = step(c, n)
    <3>1. CASE n = 0
      BY <1>0, <3>1
    <3>2. CASE n # 0 /\ n <= k
      <4>1. n - 1 \in 0..N /\ n - 1 <= k /\ n <= k /\ ~(events[n].t >= cutoff)
        BY <1>0, <3>2
      <4> QED
        BY <3>2, <4>1
    <3>3. CASE n # 0 /\ n > k
      <4>1. n - 1 \in 0..N /\ events[n].t >= cutoff /\ n \in 1..N
        BY <1>0, <3>3
      <4>2. c[n] = SubSeq(events, k + 1, n)
        BY <1>0, <3>3
      <4>3. CASE n - 1 = k
        <5>1. c[n - 1] = << >>
          BY <1>0, <4>1, <4>3
        <5>2. SubSeq(events, k + 1, n) = <<events[n]>>
          <6>1. SubSeq(events, k + 1, n) = [i \in 1..1 |-> events[k + i]]
            BY <1>0, <3>3, <4>1, <4>3, SubSeqIs
          <6>2. \A i \in 1..1 : events[k + i] = events[n]
            BY <1>0, <4>1, <4>3
          <6> DEFINE e == events[n]
          <6>3. SubSeq(events, k + 1, n) = [i \in 1..1 |-> e]
            BY <6>1, <6>2
          <6> HIDE DEF e
          <6>4. <<e>> = [i \in 1..1 |-> e]
            OBVIOUS
          <6> QED
            BY <6>3, <6>4 DEF e
        <5>3. Append(<< >>, events[n]) = <<events[n]>>
          OBVIOUS
        <5> QED
          BY <3>3, <4>1, <4>2, <5>1, <5>2, <5>3
      <4>4. CASE n - 1 > k
        <5>1. c[n - 1] = SubSeq(events, k + 1, n - 1)
          BY <1>0, <4>1, <4>4
        <5>2. Append(SubSeq(events, k + 1, n - 1), events[n]) = SubSeq(events, k + 1, n)
          BY <1>0, <3>3, <4>1, <4>4
        <5> QED
          BY <3>3, <4>1, <4>2, <5>1, <5>2
      <4> QED
        BY <1>0, <3>3, <4>1, <4>3, <4>4
    <3> QED
      BY <1>0, <3>1, <3>2, <3>3
  <2> QED
    BY <2>1
<1> HIDE DEF P
<1>3. P(Filtered(events, cutoff))
  BY <1>1, <1>2
<1> DEFINE s == Filtered(events, cutoff)
<1>4. /\ \A n \in 0..N : s[n] = step(s, n)
      /\ \A n \in 0..N : c[n] = step(c, n)
  BY <1>2, <1>3 DEF P
<1> HIDE DEF s, c
<1> DEFINE D == {n \in 0..N : s[n] # c[n]}
<1>5. D = {}
  <2> SUFFICES ASSUME D # {} PROVE FALSE
    OBVIOUS
  <2>0. D \in SUBSET Nat
    BY <1>0
  <2>1. PICK l \in D : \A j \in D : l <= j
    <3> HIDE DEF D
    <3> QED BY <2>0, LeastNumber
  <2>2. l \in 0..N /\ s[l] # c[l]
    OBVIOUS
  <2>3. l # 0
    BY <1>0, <1>4, <2>2
  <2>4. l - 1 \in 0..N /\ l - 1 \notin D
    BY <1>0, <2>1, <2>2, <2>3
  <2>5. s[l - 1] = c[l - 1]
    BY <2>4
  <2> QED
    BY <1>4, <2>2, <2>3, <2>5
<1>6. s[N] = c[N]
  BY <1>0, <1>5
<1>7. c[N] = SubSeq(events, k + 1, N)
  BY <1>0 DEF c
<1> QED
  BY <1>6, <1>7 DEF s

\* What EventsOK says of a list that a table of totals belongs to.
LEMMA TableOK ==
  ASSUME NEW events \in Seq(Event), NEW c \in [0..Len(events) -> 0..MaxInt], c[0] = 0,
         \A n \in 1..Len(events) : c[n] = c[n - 1] + events[n].cost,
         \A m, n \in 0..Len(events) : m <= n => c[m] <= c[n],
         \A i, j \in DOMAIN events : i <= j => events[i].t <= events[j].t,
         WithinSomeLimit(c[Len(events)])
  PROVE  Sums(events) = c /\ EventsOK(events)
<1>1. Sums(events) = c
  <2>1. Len(events) \in Nat /\ MaxInt \in Nat
    BY RateAssumption
  <2>2. \A n \in 1..Len(events) : c[n] = Int64(c[n - 1] + events[n].cost)
    BY <2>1, InRange
  <2>3. c \in [0..Len(events) -> Int]
    BY <2>1
  <2> QED
    BY <2>2, <2>3, SumsAre
<1> QED
  BY <1>1 DEF EventsOK, Total

\* No events: nothing to add up.
LEMMA EmptyOK ==
  ASSUME params \in Params
  PROVE  << >> \in Seq(Event) /\ EventsOK(<< >>) /\ Total(<< >>) = 0 /\ Sums(<< >>)[0] = 0
<1> DEFINE c == [n \in 0..0 |-> 0]
<1>1. Len(<< >>) = 0 /\ << >> \in Seq(Event) /\ DOMAIN << >> = {}
  OBVIOUS
<1>2. c \in [0..0 -> 0..MaxInt] /\ c[0] = 0
  BY RateAssumption
<1>3. WithinSomeLimit(0)
  BY RuleFacts DEF WithinSomeLimit
<1> HIDE DEF c
<1>4. /\ \A n \in 1..0 : c[n] = c[n - 1] + << >>[n].cost
      /\ \A m, n \in 0..0 : m <= n => c[m] <= c[n]
  BY <1>2
<1>5. Sums(<< >>) = c /\ EventsOK(<< >>)
  BY <1>1, <1>2, <1>3, <1>4, TableOK
<1> QED
  BY <1>1, <1>2, <1>5 DEF Total

\* The facts of EventsOK in the form the proofs use them.
LEMMA TotalFacts ==
  ASSUME NEW events \in Seq(Event), EventsOK(events)
  PROVE  /\ Total(events) \in 0..MaxInt /\ Sums(events)[0] = 0
         /\ \A n \in 0..Len(events) : /\ Sums(events)[n] \in 0..MaxInt
                                      /\ Sums(events)[n] <= Total(events)
         /\ \E p \in Params : Total(events) <= p.limit
<1> DEFINE N == Len(events)
           sum == Sums(events)
<1>1. N \in Nat
  OBVIOUS
<1>2. /\ sum \in [0..N -> 0..MaxInt] /\ sum[0] = 0 /\ Total(events) = sum[N]
      /\ \A m, n \in 0..N : m <= n => sum[m] <= sum[n]
  BY DEF EventsOK, Total
<1>3. \E p \in Params : Total(events) <= p.limit
  BY DEF EventsOK, WithinSomeLimit
<1> HIDE DEF N, sum
<1>4. N \in 0..N /\ \A n \in 0..N : n <= N
  BY <1>1
<1>5. \A n \in 0..N : sum[n] \in 0..MaxInt /\ sum[n] <= Total(events)
  BY <1>2, <1>4
<1> QED
  BY <1>2, <1>3, <1>4, <1>5 DEF N, sum

\* Dropping the oldest events takes their sum off every total.
LEMMA SuffixOK ==
  ASSUME NEW events \in Seq(Event), EventsOK(events), NEW k \in 0..Len(events)
  PROVE  LET rest == SubSeq(events, k + 1, Len(events))
         IN /\ rest \in Seq(Event) /\ Len(rest) = Len(events) - k
            /\ \A i \in 1..Len(rest) : rest[i] = events[k + i]
            /\ EventsOK(rest)
            /\ \A n \in 0..Len(rest) :
                 Sums(rest)[n] = Sums(events)[n + k] - Sums(events)[k]
<1> DEFINE rest == SubSeq(events, k + 1, Len(events))
           N == Len(events)
           s == Sums(events)
           c == [n \in 0..(N - k) |-> s[n + k] - s[k]]
<1>1. /\ N \in Nat /\ k \in 0..N /\ DOMAIN events = 1..N
      /\ \A i \in 1..N : events[i].t \in Nat /\ events[i].cost \in 1..MaxInt
  BY EventFacts
<1>2. /\ rest = [i \in 1..(N - k) |-> events[k + i]] /\ rest \in Seq(Event) /\ Len(rest) = N - k
      /\ DOMAIN rest = 1..(N - k)
  <2>1. N \in k..Len(events)
    BY <1>1
  <2>2. rest = [i \in 1..(N - k) |-> events[k + i]] /\ rest \in Seq(Event) /\ Len(rest) = N - k
    BY <2>1, SubSeqIs
  <2> QED
    BY <2>2
<1>3. /\ s \in [0..N -> 0..MaxInt]
      /\ \A n \in 1..N : s[n] = s[n - 1] + events[n].cost
      /\ \A m, n \in 0..N : m <= n => s[m] <= s[n]
      /\ \A i, j \in 1..N : i <= j => events[i].t <= events[j].t
      /\ WithinSomeLimit(s[N])
  BY <1>1 DEF EventsOK, Total
<1> HIDE DEF s, rest, N
<1>4. c \in [0..(N - k) -> 0..MaxInt]
  <2>1. ASSUME NEW n \in 0..(N - k) PROVE s[n + k] - s[k] \in 0..MaxInt
    <3>1. n + k \in 0..N /\ k <= n + k /\ k \in 0..N
      BY <1>1
    <3>2. s[k] <= s[n + k] /\ s[k] \in 0..MaxInt /\ s[n + k] \in 0..MaxInt
      BY <1>3, <3>1
    <3> QED
      BY <3>2, RateAssumption
  <2> QED
    BY <2>1
<1>5. c[0] = 0
  <2>1. s[k] \in Int /\ 0 \in 0..(N - k) /\ 0 + k = k
    BY <1>1, <1>3
  <2> QED
    BY <2>1
<1>6. \A n \in 1..(N - k) : c[n] = c[n - 1] + rest[n].cost
  <2> TAKE n \in 1..(N - k)
  <2>1. n \in 0..(N - k) /\ n - 1 \in 0..(N - k) /\ n + k \in 1..N /\ (n - 1) + k = (n + k) - 1
        /\ k + n = n + k /\ (n + k) - 1 \in 0..N /\ k \in 0..N
    BY <1>1
  <2>2. c[n] = s[n + k] - s[k] /\ c[n - 1] = s[(n + k) - 1] - s[k]
    BY <2>1
  <2>3. s[n + k] = s[(n + k) - 1] + events[n + k].cost
    BY <1>3, <2>1
  <2>4. rest[n] = events[n + k]
    BY <1>2, <2>1
  <2>5. s[k] \in Int /\ s[(n + k) - 1] \in Int /\ events[n + k].cost \in Int
    BY <1>1, <1>3, <2>1
  <2> QED
    BY <2>2, <2>3, <2>4, <2>5
<1>7. \A m, n \in 0..(N - k) : m <= n => c[m] <= c[n]
  <2> TAKE m, n \in 0..(N - k)
  <2>1. m <= n => s[m + k] <= s[n + k]
    BY <1>1, <1>3
  <2>2. s[m + k] \in Int /\ s[n + k] \in Int /\ s[k] \in Int
    BY <1>1, <1>3
  <2> QED
    BY <2>1, <2>2
<1>8. \A i, j \in DOMAIN rest : i <= j => rest[i].t <= rest[j].t
  <2> TAKE i, j \in DOMAIN rest
  <2>1. k + i \in 1..N /\ k + j \in 1..N /\ (i <= j => k + i <= k + j)
    BY <1>1, <1>2
  <2> QED
    BY <1>2, <1>3, <2>1
<1>9. WithinSomeLimit(c[N - k])
  <2>1. c[N - k] = s[N] - s[k] /\ s[N] \in Int /\ s[k] \in Nat /\ s[k] <= s[N]
    BY <1>1, <1>3
  <2>2. PICK p \in Params : s[N] <= p.limit
    BY <1>3 DEF WithinSomeLimit
  <2>3. p.limit \in Int
    BY RuleFacts
  <2>4. 0 <= s[N] - s[k] /\ s[N] - s[k] <= p.limit
    BY <2>1, <2>2, <2>3
  <2> QED
    BY <2>1, <2>4 DEF WithinSomeLimit
<1> HIDE DEF c
<1>10. Sums(rest) = c /\ EventsOK(rest)
  BY <1>2, <1>4, <1>5, <1>6, <1>7, <1>8, <1>9, TableOK
<1>11. \A n \in 0..Len(rest) : Sums(rest)[n] = s[n + k] - s[k]
  BY <1>2, <1>10 DEF c
<1>12. \A i \in 1..Len(rest) : rest[i] = events[k + i]
  BY <1>2
<1> QED
  BY <1>2, <1>10, <1>11, <1>12 DEF rest, s, N

\* A new event adds its cost to the total.
LEMMA AppendOK ==
  ASSUME NEW events \in Seq(Event), EventsOK(events), NEW e \in Event,
         \A i \in DOMAIN events : events[i].t <= e.t,
         NEW p \in Params, Total(events) + e.cost <= p.limit
  PROVE  LET more == Append(events, e)
         IN /\ more \in Seq(Event) /\ Len(more) = Len(events) + 1
            /\ \A i \in 1..Len(events) : more[i] = events[i]
            /\ more[Len(more)] = e
            /\ EventsOK(more) /\ Total(more) = Total(events) + e.cost
            /\ \A n \in 0..Len(events) : Sums(more)[n] = Sums(events)[n]
<1> DEFINE more == Append(events, e)
           N == Len(events)
           s == Sums(events)
           c == [n \in 0..(N + 1) |-> IF n <= N THEN s[n] ELSE s[N] + e.cost]
<1>1. /\ N \in Nat /\ DOMAIN events = 1..N
      /\ \A i \in 1..N : events[i].t \in Nat /\ events[i].cost \in 1..MaxInt
  BY EventFacts
<1>2. /\ more \in Seq(Event) /\ Len(more) = N + 1 /\ DOMAIN more = 1..(N + 1)
      /\ \A i \in 1..N : more[i] = events[i]
      /\ more[N + 1] = e
  BY <1>1
<1>3. /\ s \in [0..N -> 0..MaxInt] /\ s[0] = 0 /\ Total(events) = s[N]
      /\ \A n \in 1..N : s[n] = s[n - 1] + events[n].cost
      /\ \A m, n \in 0..N : m <= n => s[m] <= s[n]
      /\ \A i, j \in 1..N : i <= j => events[i].t <= events[j].t
  BY <1>1 DEF EventsOK, Total
<1>4. e.t \in Nat /\ e.cost \in 1..MaxInt /\ p.limit \in 1..MaxInt
  BY RateAssumption DEF Event
<1> HIDE DEF s, more, N
<1>5. /\ \A n \in 0..N : s[n] \in 0..MaxInt /\ s[n] <= s[N]
      /\ s[N] + e.cost \in 0..MaxInt /\ N \in 0..N
  <2>1. MaxInt \in Nat /\ N \in 0..N
    BY <1>1, RateAssumption
  <2>2. \A n \in 0..N : s[n] \in 0..MaxInt /\ s[n] <= s[N]
    BY <1>1, <1>3, <2>1
  <2>3. s[N] + e.cost <= p.limit
    BY <1>3
  <2> QED
    BY <1>4, <2>1, <2>2, <2>3
<1>6. c \in [0..(N + 1) -> 0..MaxInt] /\ c[0] = 0 /\ c[N + 1] = s[N] + e.cost
  BY <1>1, <1>3, <1>5
<1>7. \A n \in 0..N : c[n] = s[n]
  BY <1>1
<1> HIDE DEF c
<1>8. \A n \in 1..(N + 1) : c[n] = c[n - 1] + more[n].cost
  <2>1. \A n \in 1..N : c[n] = c[n - 1] + more[n].cost
    BY <1>1, <1>2, <1>3, <1>7
  <2>2. c[N + 1] = c[(N + 1) - 1] + more[N + 1].cost
    BY <1>1, <1>2, <1>5, <1>6, <1>7
  <2> QED
    BY <1>1, <2>1, <2>2
<1>9. \A m, n \in 0..(N + 1) : m <= n => c[m] <= c[n]
  <2>1. \A m, n \in 0..N : m <= n => c[m] <= c[n]
    BY <1>3, <1>7
  <2>2. \A m \in 0..N : c[m] <= c[N + 1]
    BY <1>4, <1>5, <1>6, <1>7
  <2>3. c[N + 1] <= c[N + 1]
    BY <1>5, <1>6
  <2> QED
    BY <1>1, <2>1, <2>2, <2>3
<1>10. \A i, j \in DOMAIN more : i <= j => more[i].t <= more[j].t
  <2>1. \A i, j \in 1..N : i <= j => more[i].t <= more[j].t
    BY <1>2, <1>3
  <2>2. \A i \in 1..N : more[i].t <= more[N + 1].t
    BY <1>1, <1>2
  <2>3. more[N + 1].t <= more[N + 1].t
    BY <1>2, <1>4
  <2> QED
    BY <1>1, <1>2, <2>1, <2>2, <2>3
<1>11. WithinSomeLimit(c[N + 1])
  BY <1>3, <1>5, <1>6 DEF WithinSomeLimit
<1>12. Sums(more) = c /\ EventsOK(more)
  BY <1>2, <1>6, <1>8, <1>9, <1>10, <1>11, TableOK
<1>13. Total(more) = Total(events) + e.cost
  BY <1>2, <1>3, <1>6, <1>12 DEF Total
<1> QED
  BY <1>2, <1>7, <1>12, <1>13 DEF more, s, N

\* Whether it wraps or not, a new event adds its cost to the total.
LEMMA AppendTotal ==
  ASSUME NEW events \in Seq(Event), EventsOK(events), NEW e \in Event
  PROVE  Total(Append(events, e)) = Int64(Total(events) + e.cost)
<1> DEFINE more == Append(events, e)
           N == Len(events)
           s == Sums(events)
           new == Int64(s[N] + e.cost)
           c == [n \in 0..(N + 1) |-> IF n <= N THEN s[n] ELSE new]
<1>1. N \in Nat /\ \A i \in 1..N : events[i].cost \in 1..MaxInt
  BY EventFacts
<1>2. /\ more \in Seq(Event) /\ Len(more) = N + 1
      /\ \A i \in 1..N : more[i] = events[i]
      /\ more[N + 1] = e
  BY <1>1
<1>3. /\ s \in [0..N -> 0..MaxInt] /\ s[0] = 0 /\ Total(events) = s[N]
      /\ \A n \in 1..N : s[n] = s[n - 1] + events[n].cost
  BY <1>1 DEF EventsOK, Total
<1>4. e.cost \in 1..MaxInt /\ MaxInt \in Nat
  BY RateAssumption DEF Event
<1> HIDE DEF s, more, N
<1>5. new \in Int
  BY <1>1, <1>3, <1>4 DEF Int64
<1>6. /\ c \in [0..(N + 1) -> Int] /\ c[0] = 0 /\ c[N + 1] = new
      /\ \A n \in 0..N : c[n] = s[n]
  <2> HIDE DEF new
  <2> QED
    BY <1>1, <1>3, <1>4, <1>5
<1> HIDE DEF c
<1>7. \A n \in 1..(N + 1) : c[n] = Int64(c[n - 1] + more[n].cost)
  <2>1. ASSUME NEW n \in 1..N PROVE c[n] = Int64(c[n - 1] + more[n].cost)
    <3>1. /\ c[n] = s[n] /\ c[n - 1] = s[n - 1] /\ more[n] = events[n]
          /\ s[n] \in 0..MaxInt /\ s[n] = s[n - 1] + events[n].cost
      BY <1>1, <1>2, <1>3, <1>6
    <3>2. s[n] \in Int /\ -(MaxInt + 1) <= s[n] /\ s[n] <= MaxInt
      BY <1>4, <3>1
    <3>3. Int64(s[n]) = s[n]
      BY <3>2, InRange
    <3> QED
      BY <3>1, <3>3
  <2>2. c[N + 1] = Int64(c[(N + 1) - 1] + more[N + 1].cost)
    BY <1>1, <1>2, <1>6
  <2> QED
    BY <1>1, <2>1, <2>2
<1>8. Sums(more) = c
  BY <1>2, <1>6, <1>7, SumsAre
<1> QED
  BY <1>2, <1>3, <1>6, <1>8 DEF Total, more

------------------------------------------------------------------------------
(* The log *)

\* The numbers the present rule gives.
LEMMA Numbers ==
  ASSUME RateTypeOK
  PROVE  /\ now \in Nat /\ now <= MaxTime /\ now + 1 \in 0..(MaxTime + 1) /\ MaxTime \in Nat
         /\ W \in Nat \ {0} /\ Rate \in Nat \ {0} /\ Scale \in Nat \ {0}
         /\ params.limit \in Nat \ {0} /\ params.limit <= MaxInt /\ MaxInt \in Nat
         /\ Capacity(params) \in Nat \ {0}
         /\ params.algo \in {"fixed", "sliding", "bucket"}
<1>1. params \in Params /\ now \in 0..MaxTime
  BY DEF RateTypeOK
<1> QED
  BY <1>1, RuleFacts, RateAssumption DEF W, Rate

\* What a denial consists of.
LEMMA DenialTyped ==
  ASSUME RateTypeOK, denial # None
  PROVE  denial.cost \in Cost /\ denial.cost \in Nat \ {0} /\ denial.until \in Int
<1>1. denial \in [cost : Cost, until : Int]
  BY DEF RateTypeOK
<1>2. denial.cost \in Cost /\ denial.until \in Int
  BY <1>1
<1>3. \A c \in Cost : c \in Nat \ {0}
  BY RateAssumption
<1> QED
  BY <1>2, <1>3

\* A decision is noted from the next tick on.
LEMMA Logged ==
  ASSUME RateTypeOK, LogInv, NEW cost \in Cost, NEW allowed \in BOOLEAN,
         NEW remaining, NEW retryAfter,
         Decide(cost, allowed, remaining, retryAfter), now' = now
  PROVE  /\ log' \in [0..(MaxTime + 1) -> Nat] /\ LogInv'
         /\ \A t \in 0..now : log'[t] = log[t]
         /\ log'[now + 1] = log[now + 1] + (IF allowed THEN cost ELSE 0)
<1>1. /\ now \in Nat /\ now <= MaxTime /\ now + 1 \in 0..(MaxTime + 1) /\ MaxTime \in Nat
      /\ log \in [0..(MaxTime + 1) -> Nat] /\ cost \in Nat
  BY Numbers, RateAssumption DEF RateTypeOK
<1>2. CASE allowed
  <2>1. log' = [t \in 0..(MaxTime + 1) |-> IF t > now THEN log[t] + cost ELSE log[t]]
    BY <1>1, <1>2 DEF Decide
  <2>2. log' \in [0..(MaxTime + 1) -> Nat]
    BY <1>1, <2>1
  <2>3. /\ \A t \in 0..now : log'[t] = log[t]
        /\ \A t \in (now + 1)..(MaxTime + 1) : log'[t] = log[t] + cost
    BY <1>1, <2>1
  <2>4. \A s, t \in 0..(MaxTime + 1) : s <= t => log'[s] <= log'[t]
    BY <1>1, <2>1 DEF LogInv
  <2>5. \A t \in (now' + 1)..(MaxTime + 1) : log'[t] = log'[now' + 1]
    BY <1>1, <2>3 DEF LogInv
  <2> QED
    BY <1>1, <1>2, <2>2, <2>3, <2>4, <2>5 DEF LogInv
<1>3. CASE ~allowed
  <2>1. log' = log
    BY <1>3 DEF Decide
  <2> QED
    BY <1>1, <1>3, <2>1 DEF LogInv
<1> QED
  BY <1>2, <1>3

\* What a decision changes of the totals.
LEMMA AdmittedAfter ==
  ASSUME RateTypeOK, LogInv, NEW cost \in Cost, NEW allowed \in BOOLEAN,
         NEW remaining, NEW retryAfter,
         Decide(cost, allowed, remaining, retryAfter), now' = now
  PROVE  /\ \A s, t \in 0..now : t < now => Admitted(s, t)' = Admitted(s, t)
         /\ \A s \in 0..now : /\ Admitted(s, now) \in Nat
                              /\ Admitted(s, now)' =
                                   Admitted(s, now) + (IF allowed THEN cost ELSE 0)
<1>1. /\ now \in Nat /\ now <= MaxTime /\ now + 1 \in 0..(MaxTime + 1) /\ MaxTime \in Nat
      /\ log \in [0..(MaxTime + 1) -> Nat] /\ cost \in Nat
  BY Numbers, RateAssumption DEF RateTypeOK
<1>2. /\ \A t \in 0..now : log'[t] = log[t]
      /\ log'[now + 1] = log[now + 1] + (IF allowed THEN cost ELSE 0)
  BY Logged
<1>3. \A s, t \in 0..now : t < now => Admitted(s, t)' = Admitted(s, t)
  <2> TAKE s, t \in 0..now
  <2>1. t < now => t + 1 \in 0..now
    BY <1>1
  <2> QED
    BY <1>2, <2>1 DEF Admitted
<1>4. ASSUME NEW s \in 0..now
      PROVE  /\ Admitted(s, now) \in Nat
             /\ Admitted(s, now)' = Admitted(s, now) + (IF allowed THEN cost ELSE 0)
  <2>1. log[s] \in Nat /\ log[now + 1] \in Nat /\ log[s] <= log[now + 1]
    BY <1>1 DEF LogInv
  <2> QED
    BY <1>1, <1>2, <2>1 DEF Admitted
<1> QED
  BY <1>3, <1>4

\* If the present tick is within the limit after a decision, every tick is.
LEMMA LimitAfter ==
  ASSUME RateTypeOK, LogInv, NeverOverLimit, ~wrapped, NEW cost \in Cost, NEW allowed \in BOOLEAN,
         NEW remaining, NEW retryAfter,
         Decide(cost, allowed, remaining, retryAfter),
         now' = now, params' = params, surplus' = surplus,
         ~wrapped' => \A s \in 0..now : WithinLimit(s, now)'
  PROVE  NeverOverLimit'
<1> SUFFICES ASSUME ~wrapped', NEW s \in 0..now, NEW t \in 0..now, s <= t
             PROVE  WithinLimit(s, t)'
  BY DEF NeverOverLimit
<1>1. CASE t = now
  BY <1>1
<1>2. CASE t < now
  <2>1. WithinLimit(s, t)
    BY DEF NeverOverLimit
  <2>2. Admitted(s, t)' = Admitted(s, t)
    BY <1>2, AdmittedAfter
  <2> QED
    BY <2>1, <2>2 DEF WithinLimit, W, Budget, Rate
<1> QED
  BY <1>1, <1>2, Numbers

------------------------------------------------------------------------------
(* Fixed window *)

\* The aligned window of a tick.
LEMMA Aligned ==
  ASSUME NEW x \in Nat, NEW w \in Nat \ {0}
  PROVE  (x \div w) \in Nat /\ (x \div w) * w <= x /\ x < (x \div w) * w + w
OBVIOUS

\* Nothing else is aligned in it.
LEMMA AlignedOnce ==
  ASSUME NEW w \in Nat \ {0}, NEW x \in Nat, NEW q \in Nat, q * w <= x, x < q * w + w
  PROVE  q = x \div w
<1> DEFINE r == x \div w
<1>1. r \in Nat /\ r * w <= x /\ x < r * w + w
  BY Aligned
<1> HIDE DEF r
<1> QED
  BY <1>1 DEF r

\* ExecFixed keeps the invariant.
LEMMA ExecFixedInv ==
  ASSUME RateIInv, ~wrapped, NEW cost \in Cost, ExecFixed(cost)
  PROVE  RateIInv'
<1> DEFINE allowed == FixedAllows(cost)
           used == IF allowed THEN Int64(FixedUsed + cost) ELSE FixedUsed
           rem == AtLeast0(Int64(params.limit - used))
           retry == WindowStart + W - now
<1>1. /\ params.algo = "fixed" /\ fixed' = [start |-> WindowStart, used |-> used]
      /\ wrapped' = (wrapped \/ ~Fits(FixedUsed + cost))
      /\ Decide(cost, allowed, rem, retry)
      /\ now' = now /\ params' = params /\ sliding' = sliding /\ bucket' = bucket
      /\ surplus' = surplus
  BY DEF ExecFixed
<1>2. RateTypeOK /\ LogInv /\ NeverOverLimit /\ FixedInv
  BY <1>1 DEF RateIInv
<1>3. /\ now \in Nat /\ W \in Nat \ {0} /\ params.limit \in Nat \ {0} /\ params.limit <= MaxInt
      /\ MaxInt \in Nat /\ cost \in Nat \ {0} /\ cost <= MaxInt
  BY <1>2, Numbers, RateAssumption
<1>4. WindowStart \in Nat /\ WindowStart <= now /\ now < WindowStart + W
  BY <1>3, Aligned DEF WindowStart
<1>5. /\ FixedUsed \in Int /\ FixedUsed >= 0
      /\ \E p \in Params : FixedUsed <= p.limit
  <2>1. FixedUsed \in Int
    BY <1>2 DEF RateTypeOK, FixedUsed
  <2> QED
    BY <1>2, <2>1 DEF FixedInv, WithinSomeLimit
<1>6. FixedUsed <= MaxInt
  BY <1>3, <1>5, RuleFacts
<1>7. allowed \in BOOLEAN
  BY DEF FixedAllows
<1>8. \A x \in Int : Int64(x) \in Int
  BY <1>3 DEF Int64
<1>9. used \in Int /\ rem \in Int /\ retry \in Int
  BY <1>3, <1>4, <1>5, <1>8 DEF AtLeast0
<1>10. WindowStart' = WindowStart /\ W' = W
  BY <1>1 DEF WindowStart, W
<1>11. FixedUsed' = used
  <2>1. fixed' # None
    BY <1>1 DEF None
  <2> QED
    BY <1>1, <1>10, <2>1 DEF FixedUsed
<1> HIDE DEF allowed, used, rem, retry
<1>12. log' \in [0..(MaxTime + 1) -> Nat] /\ LogInv'
  BY <1>1, <1>2, <1>7, Logged
<1>13. RateTypeOK'
  <2>1. /\ fixed' \in [start : Int, used : Int] /\ last' \in [remaining : Int]
        /\ denial' = None \/ denial' \in [cost : Cost, until : Int]
        /\ wrapped' \in BOOLEAN
    BY <1>1, <1>2, <1>3, <1>4, <1>9 DEF Decide, RateTypeOK
  <2> QED
    BY <1>1, <1>2, <1>12, <2>1 DEF RateTypeOK
<1>14. ASSUME ~wrapped' PROVE FixedInv' /\ \A s \in 0..now : WithinLimit(s, now)'
  <2>1. Int64(FixedUsed + cost) = FixedUsed + cost
    BY <1>1, <1>14 DEF Fits
  <2>2. /\ used = IF allowed THEN FixedUsed + cost ELSE FixedUsed
        /\ allowed => FixedUsed + cost <= params.limit
        /\ ~allowed => FixedUsed + cost > params.limit
    BY <1>3, <1>5, <2>1 DEF used, allowed, FixedAllows
  <2>3. used >= 0 /\ used <= MaxInt /\ \E p \in Params : used <= p.limit
    BY <1>2, <1>3, <1>5, <1>6, <2>2 DEF RateTypeOK
  <2>4. rem = AtLeast0(params.limit - used)
    BY <1>3, <1>9, <2>3, InRange DEF rem
  <2>5. \A s \in 0..now : /\ Admitted(s, now) \in Nat
                          /\ Admitted(s, now)' = Admitted(s, now) + (IF allowed THEN cost ELSE 0)
    BY <1>1, <1>2, <1>7, AdmittedAfter
  <2>6. WindowStart \in 0..now
    BY <1>3, <1>4
  <2>7. Admitted(WindowStart, now)' <= used
    <3>1. Admitted(WindowStart, now) <= FixedUsed
      BY <1>2 DEF FixedInv
    <3>2. Admitted(WindowStart, now)' = Admitted(WindowStart, now) + (IF allowed THEN cost ELSE 0)
      BY <1>10, <2>5, <2>6 DEF Admitted
    <3> QED
      BY <1>3, <1>5, <2>2, <2>5, <2>6, <3>1, <3>2
  <2>8. last' # None => last'.remaining = AtLeast0(params.limit - used)
    BY <1>1, <2>4 DEF Decide
  <2>9. denial' # None /\ now < denial'.until =>
          denial'.until = WindowStart + W /\ used + denial'.cost > params.limit
    <3>1. CASE allowed
      <4>1. denial' = denial
        BY <1>1, <3>1 DEF Decide
      <4>2. denial # None => denial.cost \in Nat
        BY <1>2, DenialTyped
      <4> QED
        BY <1>2, <1>3, <1>5, <2>2, <3>1, <4>1, <4>2 DEF FixedInv
    <3>2. CASE ~allowed
      <4>1. denial' = [cost |-> cost, until |-> now + retry]
        BY <1>1, <3>2 DEF Decide
      <4>2. denial'.cost = cost /\ denial'.until = now + retry
        BY <4>1
      <4>3. now + retry = WindowStart + W
        BY <1>3, <1>4 DEF retry
      <4>4. used + cost > params.limit
        BY <2>2, <3>2
      <4> QED
        BY <4>2, <4>3, <4>4
    <3> QED
      BY <3>1, <3>2
  <2>10. FixedInv'
    <3>1. WithinSomeLimit(FixedUsed)' /\ (fixed' # None => WithinSomeLimit(fixed.used)')
      BY <1>1, <1>11, <2>3 DEF WithinSomeLimit
    <3> QED
      BY <1>1, <1>10, <1>11, <2>7, <2>8, <2>9, <3>1 DEF FixedInv
  <2>11. ASSUME NEW s \in 0..now PROVE WithinLimit(s, now)'
    <3> SUFFICES ASSUME s \div W = now \div W PROVE Admitted(s, now)' <= params.limit
      BY <1>1, <1>10 DEF WithinLimit
    <3>1. CASE ~allowed
      <4>1. WithinLimit(s, now)
        BY <1>2, <1>3 DEF NeverOverLimit
      <4> QED
        BY <1>1, <2>5, <3>1, <4>1 DEF WithinLimit
    <3>2. CASE allowed
      <4>0. s \in 0..(MaxTime + 1) /\ WindowStart \in 0..(MaxTime + 1)
            /\ now + 1 \in 0..(MaxTime + 1)
        <5>1. now <= MaxTime /\ MaxTime \in Nat
          BY <1>2, Numbers
        <5> QED
          BY <1>3, <1>4, <5>1
      <4>1. WindowStart <= s
        <5>1. (s \div W) * W <= s
          BY <1>3, Aligned
        <5> QED
          BY <5>1 DEF WindowStart
      <4>2. log'[WindowStart] <= log'[s]
        BY <1>12, <4>0, <4>1 DEF LogInv
      <4>3. Admitted(s, now)' <= Admitted(WindowStart, now)'
        <5>1. log'[s] \in Nat /\ log'[WindowStart] \in Nat /\ log'[now + 1] \in Nat
          BY <1>12, <4>0
        <5> QED
          BY <1>1, <1>10, <4>2, <5>1 DEF Admitted
      <4> QED
        <5>1. Admitted(s, now)' \in Int /\ Admitted(WindowStart, now)' \in Int
          <6>1. log'[s] \in Nat /\ log'[WindowStart] \in Nat /\ log'[now + 1] \in Nat
            BY <1>12, <4>0
          <6> QED
            BY <1>1, <1>10, <6>1 DEF Admitted
        <5> QED
          BY <1>3, <1>5, <1>9, <2>2, <2>7, <3>2, <4>3, <5>1
    <3> QED
      BY <3>1, <3>2
  <2> QED
    BY <2>10, <2>11
<1>15. NeverOverLimit'
  BY <1>1, <1>2, <1>7, <1>14, LimitAfter
<1> QED
  BY <1>1, <1>12, <1>13, <1>14, <1>15 DEF RateIInv

------------------------------------------------------------------------------
(* Sliding window *)

\* What the filter leaves is a list like the one it is given, of this window
\* only, and still covers what was admitted.
LEMMA SlidingNow ==
  ASSUME RateTypeOK, LogInv, SlidingInv
  PROVE  /\ SlidingEvents \in Seq(Event) /\ EventsOK(SlidingEvents) /\ Covered(SlidingEvents)
         /\ \A i \in DOMAIN SlidingEvents : /\ SlidingEvents[i].t <= now
                                            /\ SlidingEvents[i].t >= now - W
         /\ (/\ sliding # None /\ sliding.window = W
             /\ \A i \in DOMAIN sliding.events : sliding.events[i].t >= now - W)
              => SlidingEvents = sliding.events
<1>1. /\ now \in Nat /\ W \in Nat \ {0} /\ params \in Params
      /\ now + 1 \in 0..(MaxTime + 1) /\ MaxTime \in Nat /\ now <= MaxTime
      /\ log \in [0..(MaxTime + 1) -> Nat]
  BY Numbers DEF RateTypeOK
<1>2. CASE sliding = None \/ sliding.window # W
  <2>1. SlidingEvents = << >>
    BY <1>2 DEF SlidingEvents
  <2>2. log[now + 1] = 0
    BY <1>2 DEF SlidingInv
  <2>3. \A s \in 0..now : Admitted(s, now) <= 0
    <3> TAKE s \in 0..now
    <3>1. log[s] \in Nat /\ log[s] <= log[now + 1]
      BY <1>1 DEF LogInv
    <3> QED
      BY <2>2, <3>1 DEF Admitted
  <2>4. << >> \in Seq(Event) /\ EventsOK(<< >>) /\ Total(<< >>) = 0 /\ Sums(<< >>)[0] = 0
    BY <1>1, EmptyOK
  <2>5. Covered(<< >>)
    <3>1. \A n \in 0..Len(<< >>) : n = 0
      OBVIOUS
    <3> QED
      BY <2>3, <2>4, <3>1 DEF Covered
  <2>6. DOMAIN << >> = {}
    OBVIOUS
  <2> QED
    BY <1>2, <2>1, <2>4, <2>5, <2>6
<1>3. CASE sliding # None /\ sliding.window = W
  <2> DEFINE ev == sliding.events
             N == Len(ev)
             s == Sums(ev)
             E == SlidingEvents
  <2>1. ev \in Seq(Event) /\ EventsOK(ev) /\ Covered(ev) /\ \A i \in DOMAIN ev : ev[i].t <= now
    <3>1. sliding \in [window : Nat, events : Seq(Event)]
      BY <1>3 DEF RateTypeOK
    <3> QED
      BY <1>3, <3>1 DEF SlidingInv
  <2>2. E = Filtered(ev, now - W)[N]
    BY <1>3 DEF SlidingEvents
  <2> HIDE DEF ev, E
  <2>3. /\ N \in Nat /\ DOMAIN ev = 1..N
        /\ \A i \in 1..N : ev[i] \in Event /\ ev[i].t \in Nat
    BY <2>1, EventFacts
  <2>4. PICK k \in 0..N : /\ \A i \in 1..k : ev[i].t < now - W
                          /\ \A i \in (k + 1)..N : ev[i].t >= now - W
    <3>1. \A i, j \in DOMAIN ev : i <= j => ev[i].t <= ev[j].t
      BY <2>1 DEF EventsOK
    <3>2. now - W \in Int
      BY <1>1
    <3> QED
      BY <2>1, <3>1, <3>2, CutoffSplits
  <2>5. E = SubSeq(ev, k + 1, N)
    <3>1. now - W \in Int
      BY <1>1
    <3> QED
      BY <2>1, <2>2, <2>4, <3>1, FilteredIs
  <2>6. /\ E \in Seq(Event) /\ Len(E) = N - k
        /\ \A i \in 1..Len(E) : E[i] = ev[k + i]
        /\ EventsOK(E)
        /\ \A n \in 0..Len(E) : Sums(E)[n] = s[n + k] - s[k]
    BY <2>1, <2>4, <2>5, SuffixOK
  <2>7. /\ \A n \in 0..N : s[n] \in Nat /\ s[n] <= Total(ev)
        /\ Total(ev) = s[N] /\ s[N] \in Nat
    <3>1. \A n \in 0..N : s[n] \in 0..MaxInt /\ s[n] <= Total(ev)
      BY <2>1, TotalFacts
    <3>2. \A x \in 0..MaxInt : x \in Nat
      OBVIOUS
    <3>3. N \in 0..N /\ Total(ev) = s[N]
      BY <2>3 DEF Total
    <3> QED
      BY <3>1, <3>2, <3>3
  <2>8. DOMAIN E = 1..(N - k)
    BY <2>6, EventFacts
  <2>9. \A i \in DOMAIN E : E[i].t <= now /\ E[i].t >= now - W
    <3> TAKE i \in DOMAIN E
    <3>1. i \in 1..Len(E) /\ k + i \in 1..N /\ k + i \in (k + 1)..N
      BY <2>3, <2>4, <2>6, <2>8
    <3> QED
      BY <2>1, <2>3, <2>4, <2>6, <3>1
  <2>10. Covered(E)
    <3> SUFFICES ASSUME NEW n \in 0..Len(E), NEW u \in 0..now, u >= now - W,
                        \A i \in 1..n : E[i].t < u
                 PROVE  Admitted(u, now) <= Total(E) - Sums(E)[n]
      BY DEF Covered
    <3>1. n \in Nat /\ k \in Nat /\ n + k \in 0..N /\ n <= N - k
      BY <2>3, <2>4, <2>6
    <3>2. \A i \in 1..(n + k) : ev[i].t < u
      <4> TAKE i \in 1..(n + k)
      <4>1. i \in 1..N /\ ev[i].t \in Nat
        BY <2>3, <3>1
      <4>2. CASE i <= k
        <5>1. ev[i].t < now - W
          BY <2>4, <4>1, <4>2
        <5>2. u \in Int /\ now - W \in Int /\ now - W <= u
          BY <1>1
        <5> QED
          BY <4>1, <5>1, <5>2
      <4>3. CASE i > k
        <5>1. i - k \in 1..n /\ i - k \in 1..Len(E) /\ k + (i - k) = i
          BY <2>6, <3>1, <4>3
        <5>2. E[i - k] = ev[i]
          BY <2>6, <5>1
        <5> QED
          BY <5>1, <5>2
      <4> QED
        BY <3>1, <4>2, <4>3
    <3>3. Admitted(u, now) <= Total(ev) - s[n + k]
      BY <2>1, <3>1, <3>2 DEF Covered
    <3>4. Len(E) \in 0..Len(E) /\ Len(E) + k = N
      BY <2>3, <2>4, <2>6
    <3>5. Total(E) = s[N] - s[k] /\ Sums(E)[n] = s[n + k] - s[k]
      BY <2>6, <3>4 DEF Total
    <3>6. s[N] \in Nat /\ s[k] \in Nat /\ s[n + k] \in Nat
      BY <2>7, <3>1
    <3>7. (s[N] - s[k]) - (s[n + k] - s[k]) = s[N] - s[n + k]
      BY <3>6
    <3> QED
      BY <2>7, <3>3, <3>5, <3>7
  <2>11. ASSUME \A i \in DOMAIN ev : ev[i].t >= now - W PROVE E = ev
    <3>1. k = 0
      <4> SUFFICES ASSUME k # 0 PROVE FALSE
        OBVIOUS
      <4>1. 1 \in 1..k /\ 1 \in 1..N
        BY <2>3, <2>4
      <4>2. ev[1].t < now - W /\ ev[1].t >= now - W /\ ev[1].t \in Nat
        BY <2>3, <2>4, <2>11, <4>1
      <4> QED
        BY <1>1, <4>2
    <3>2. E = SubSeq(ev, 1, N)
      BY <2>5, <3>1
    <3> QED
      BY <2>1, <3>2
  <2> QED
    BY <2>6, <2>9, <2>10, <2>11 DEF E, ev
<1> QED
  BY <1>2, <1>3

\* ExecSliding keeps the invariant.
LEMMA ExecSlidingInv ==
  ASSUME RateIInv, ~wrapped, NEW cost \in Cost, ExecSliding(cost)
  PROVE  RateIInv'
<1> DEFINE E == SlidingEvents
           allowed == SlidingAllows(cost)
           new == [t |-> now, cost |-> cost]
           kept == IF allowed THEN Append(E, new) ELSE E
           rem == AtLeast0(Int64(params.limit - Total(kept)))
           retry == IF E = << >> THEN 0 ELSE AtLeast0(E[1].t + W - now)
<1>1. /\ params.algo = "sliding" /\ sliding' = [window |-> W, events |-> kept]
      /\ wrapped' = (wrapped \/ ~Fits(Total(E) + cost))
      /\ Decide(cost, allowed, rem, retry)
      /\ now' = now /\ params' = params /\ fixed' = fixed /\ bucket' = bucket
      /\ surplus' = surplus
  BY DEF ExecSliding
<1>2. RateTypeOK /\ LogInv /\ NeverOverLimit /\ SlidingInv
  BY <1>1 DEF RateIInv
<1>3. /\ now \in Nat /\ W \in Nat \ {0} /\ params.limit \in Nat \ {0} /\ params.limit <= MaxInt
      /\ MaxInt \in Nat /\ cost \in Nat \ {0} /\ cost <= MaxInt /\ params \in Params
  BY <1>2, Numbers, RateAssumption DEF RateTypeOK
<1>4. /\ E \in Seq(Event) /\ EventsOK(E) /\ Covered(E)
      /\ \A i \in DOMAIN E : E[i].t <= now /\ E[i].t >= now - W
      /\ (/\ sliding # None /\ sliding.window = W
          /\ \A i \in DOMAIN sliding.events : sliding.events[i].t >= now - W)
           => E = sliding.events
  BY <1>2, SlidingNow
<1>5. allowed \in BOOLEAN
  BY DEF SlidingAllows
<1>6. \A x \in Int : Int64(x) \in Int
  BY <1>3 DEF Int64
<1>7. Total(E) \in Int /\ 0 <= Total(E) /\ Total(E) <= MaxInt
  BY <1>3, <1>4, TotalFacts
<1>8. W' = W
  BY <1>1 DEF W
<1>9. new \in Event /\ new.t = now /\ new.cost = cost
  BY <1>3 DEF Event
<1>10. allowed <=> Int64(Total(E) + cost) <= params.limit
  BY DEF SlidingAllows
<1>11. Len(E) \in Nat /\ DOMAIN E = 1..Len(E) /\ \A i \in 1..Len(E) : E[i].t \in Nat
  BY <1>4, EventFacts
<1>12. kept \in Seq(Event)
  BY <1>4, <1>9
<1> HIDE DEF allowed, E, new
<1>13. retry \in Nat /\ (E = << >> => retry = 0) /\ (E # << >> => now + retry = E[1].t + W)
  <2>1. CASE E = << >>
    BY <2>1
  <2>2. CASE E # << >>
    <3>1. 1 \in DOMAIN E
      BY <1>4, <1>11, <2>2
    <3>2. E[1].t \in Nat /\ E[1].t >= now - W
      BY <1>4, <1>11, <3>1
    <3>3. E[1].t + W - now \in Nat /\ ~(E[1].t + W - now < 0)
      BY <1>3, <3>2
    <3>4. retry = E[1].t + W - now
      BY <2>2, <3>3 DEF AtLeast0
    <3> QED
      BY <1>3, <2>2, <3>2, <3>3, <3>4
  <2> QED
    BY <2>1, <2>2
<1> HIDE DEF kept, rem, retry
<1>14. log' \in [0..(MaxTime + 1) -> Nat] /\ LogInv'
  BY <1>1, <1>2, <1>5, Logged
<1>15. ASSUME ~wrapped' PROVE SlidingInv' /\ \A s \in 0..now : WithinLimit(s, now)'
  <2>1. /\ Int64(Total(E) + cost) = Total(E) + cost
        /\ allowed <=> Total(E) + cost <= params.limit
    BY <1>1, <1>10, <1>15 DEF Fits
  <2>2. /\ EventsOK(kept)
        /\ Total(kept) = Total(E) + (IF allowed THEN cost ELSE 0)
        /\ \A i \in DOMAIN kept : kept[i].t <= now /\ kept[i].t >= now - W
        /\ \A i \in DOMAIN kept : (i \in 1..Len(E) /\ kept[i] = E[i]) \/ (allowed /\ kept[i] = new)
        /\ \A n \in 0..Len(kept) : \/ n \in 0..Len(E) /\ Sums(kept)[n] = Sums(E)[n]
                                   \/ n = Len(kept) /\ n \in 1..Len(kept) /\ kept[n] = new
        /\ \A i \in 1..Len(E) : kept[i] = E[i]
        /\ Len(kept) \in Nat
    <3>1. CASE ~allowed
      <4>1. kept = E
        BY <3>1 DEF kept
      <4> QED
        BY <1>4, <1>7, <1>11, <3>1, <4>1
    <3>2. CASE allowed
      <4>1. kept = Append(E, new)
        BY <3>2 DEF kept
      <4>2. /\ \A i \in DOMAIN E : E[i].t <= new.t
            /\ Total(E) + new.cost <= params.limit
        BY <1>4, <1>9, <2>1, <3>2
      <4>3. /\ kept \in Seq(Event) /\ Len(kept) = Len(E) + 1
            /\ \A i \in 1..Len(E) : kept[i] = E[i]
            /\ kept[Len(kept)] = new
            /\ EventsOK(kept) /\ Total(kept) = Total(E) + cost
            /\ \A n \in 0..Len(E) : Sums(kept)[n] = Sums(E)[n]
        BY <1>3, <1>4, <1>9, <4>1, <4>2, AppendOK
      <4>4. /\ \A i \in 0..Len(kept) : i \in 0..Len(E) \/ (i = Len(kept) /\ i \in 1..Len(kept))
            /\ \A i \in 1..Len(kept) : i \in 1..Len(E) \/ i = Len(kept)
            /\ Len(kept) \in Nat /\ DOMAIN kept = 1..Len(kept)
        BY <1>11, <4>3
      <4>5. new.t <= now /\ new.t >= now - W
        BY <1>3, <1>9
      <4>6. \A i \in DOMAIN kept : (i \in 1..Len(E) /\ kept[i] = E[i]) \/ (allowed /\ kept[i] = new)
        BY <3>2, <4>3, <4>4
      <4>7. \A i \in DOMAIN kept : kept[i].t <= now /\ kept[i].t >= now - W
        BY <1>4, <1>11, <4>5, <4>6
      <4> QED
        BY <3>2, <4>3, <4>4, <4>6, <4>7
    <3> QED
      BY <1>5, <3>1, <3>2
  <2>3. /\ Total(kept) \in Int /\ 0 <= Total(kept) /\ Total(kept) <= MaxInt
        /\ Total(E) <= Total(kept) /\ (allowed => Total(kept) <= params.limit)
    <3>1. Total(kept) \in 0..MaxInt
      BY <1>12, <2>2, TotalFacts
    <3> QED
      BY <1>3, <1>7, <2>1, <2>2, <3>1
  <2>4. rem = AtLeast0(params.limit - Total(kept))
    BY <1>3, <2>3, InRange DEF rem
  <2>5. \A s \in 0..now : /\ Admitted(s, now) \in Nat
                          /\ Admitted(s, now)' = Admitted(s, now) + (IF allowed THEN cost ELSE 0)
    BY <1>1, <1>2, <1>5, AdmittedAfter
  <2>6. ASSUME NEW n \in 0..Len(kept), NEW s \in 0..now, s >= now - W,
               \A i \in 1..n : kept[i].t < s
        PROVE  Admitted(s, now)' <= Total(kept) - Sums(kept)[n]
    <3>1. CASE n \in 0..Len(E) /\ Sums(kept)[n] = Sums(E)[n]
      <4>1. \A i \in 1..n : E[i].t < s
        <5>1. \A i \in 1..n : i \in 1..Len(E)
          BY <1>11, <3>1
        <5> QED
          BY <2>2, <2>6, <5>1
      <4>2. Admitted(s, now) <= Total(E) - Sums(E)[n]
        BY <1>4, <2>6, <3>1, <4>1 DEF Covered
      <4>3. Sums(E)[n] \in Int
        <5>1. Sums(E)[n] \in 0..MaxInt
          BY <1>4, <3>1, TotalFacts
        <5> QED
          BY <5>1
      <4>4. Admitted(s, now) \in Int
        BY <2>5
      <4>5. (IF allowed THEN cost ELSE 0) \in Int
        BY <1>3
      <4> DEFINE d == IF allowed THEN cost ELSE 0
      <4>6. Admitted(s, now)' = Admitted(s, now) + d /\ Total(kept) = Total(E) + d
        BY <2>2, <2>5
      <4> HIDE DEF d
      <4> QED
        BY <1>7, <3>1, <4>2, <4>3, <4>4, <4>5, <4>6 DEF d
    <3>2. CASE n = Len(kept) /\ n \in 1..Len(kept) /\ kept[n] = new
      <4>1. n \in 1..n
        BY <2>2, <3>2
      <4>2. now < s
        BY <1>9, <2>6, <3>2, <4>1
      <4> QED
        BY <1>3, <4>2
    <3> QED
      BY <2>2, <3>1, <3>2
  <2>7. denial' # None /\ now < denial'.until =>
          /\ denial'.until <= now + W
          /\ \A i \in DOMAIN kept : kept[i].t + W >= denial'.until
          /\ Total(kept) + denial'.cost > params.limit
    <3>1. CASE allowed
      <4>1. denial' = denial
        BY <1>1, <3>1 DEF Decide
      <4> SUFFICES ASSUME denial # None, now < denial.until
                   PROVE  /\ denial.until <= now + W
                          /\ \A i \in DOMAIN kept : kept[i].t + W >= denial.until
                          /\ Total(kept) + denial.cost > params.limit
        BY <4>1
      <4>2. denial.cost \in Nat /\ denial.until \in Int
        BY <1>2, DenialTyped
      <4>3. /\ sliding # None /\ sliding.window = W /\ denial.until <= now + W
            /\ \A i \in DOMAIN sliding.events : sliding.events[i].t + W >= denial.until
            /\ Total(sliding.events) + denial.cost > params.limit
        BY <1>2 DEF SlidingInv
      <4>4. E = sliding.events
        <5>1. sliding.events \in Seq(Event)
          <6>1. sliding \in [window : Nat, events : Seq(Event)]
            BY <1>2, <4>3 DEF RateTypeOK
          <6> QED
            BY <6>1
        <5>2. \A i \in DOMAIN sliding.events : sliding.events[i].t \in Nat
          BY <5>1, EventFacts
        <5>3. \A i \in DOMAIN sliding.events : sliding.events[i].t >= now - W
          BY <1>3, <4>2, <4>3, <5>2
        <5> QED
          BY <1>4, <4>3, <5>3
      <4>5. \A i \in DOMAIN kept : kept[i].t + W >= denial.until
        <5> TAKE i \in DOMAIN kept
        <5>1. CASE i \in 1..Len(E) /\ kept[i] = E[i]
          BY <1>11, <4>3, <4>4, <5>1
        <5>2. CASE kept[i] = new
          BY <1>9, <4>3, <5>2
        <5> QED
          BY <2>2, <5>1, <5>2
      <4>6. Total(kept) + denial.cost > params.limit
        BY <1>3, <1>7, <2>3, <4>2, <4>3, <4>4
      <4> QED
        BY <4>3, <4>5, <4>6
    <3>2. CASE ~allowed
      <4>1. denial' = [cost |-> cost, until |-> now + retry]
        BY <1>1, <3>2 DEF Decide
      <4>2. denial'.cost = cost /\ denial'.until = now + retry
        BY <4>1
      <4>3. kept = E
        BY <3>2 DEF kept
      <4>4. Total(E) + cost > params.limit
        BY <1>3, <1>7, <2>1, <3>2
      <4>5. CASE E = << >>
        BY <1>3, <1>13, <4>2, <4>5
      <4>6. CASE E # << >>
        <5>1. 1 \in 1..Len(E)
          BY <1>4, <1>11, <4>6
        <5>2. \A i \in 1..Len(E) : E[1].t <= E[i].t
          BY <1>4, <1>11, <5>1 DEF EventsOK
        <5>3. now + retry = E[1].t + W /\ E[1].t <= now
          BY <1>4, <1>11, <1>13, <4>6, <5>1
        <5>4. E[1].t + W <= now + W /\ \A i \in 1..Len(E) : E[i].t + W >= E[1].t + W
          BY <1>3, <1>11, <5>1, <5>2, <5>3
        <5> QED
          BY <1>11, <4>2, <4>3, <4>4, <5>3, <5>4
      <4> QED
        BY <4>5, <4>6
    <3> QED
      BY <1>5, <3>1, <3>2
  <2>8. sliding' # None /\ sliding'.window = W /\ sliding'.events = kept
    BY <1>1 DEF None
  <2>9. last' # None => last'.remaining = AtLeast0(params.limit - Total(kept))
    BY <1>1, <2>4 DEF Decide
  <2>10. Covered(sliding.events)'
    BY <1>1, <1>8, <2>6, <2>8 DEF Covered
  <2>11. EventsOK(sliding.events)' /\ Total(sliding.events)' = Total(kept)
    BY <2>2, <2>8 DEF EventsOK, Total, Sums
  <2>12. SlidingInv'
    BY <1>1, <1>8, <2>2, <2>7, <2>8, <2>9, <2>10, <2>11 DEF SlidingInv
  <2>13. ASSUME NEW s \in 0..now PROVE WithinLimit(s, now)'
    <3> SUFFICES ASSUME now - s <= W PROVE Admitted(s, now)' <= params.limit
      BY <1>1, <1>8 DEF WithinLimit
    <3>1. CASE ~allowed
      <4>1. WithinLimit(s, now)
        BY <1>2, <1>3 DEF NeverOverLimit
      <4> QED
        BY <1>1, <2>5, <3>1, <4>1 DEF WithinLimit
    <3>2. CASE allowed
      <4>1. 0 \in 0..Len(kept) /\ 1..0 = {} /\ s >= now - W
        BY <1>3, <2>2
      <4>2. Admitted(s, now)' <= Total(kept) - Sums(kept)[0]
        BY <2>6, <4>1
      <4>3. Sums(kept)[0] = 0
        BY <2>2 DEF EventsOK
      <4>4. Admitted(s, now)' \in Int
        BY <1>3, <2>5
      <4> QED
        BY <1>3, <2>3, <3>2, <4>2, <4>3, <4>4
    <3> QED
      BY <1>5, <3>1, <3>2
  <2> QED
    BY <2>12, <2>13
<1>16. NeverOverLimit'
  BY <1>1, <1>2, <1>5, <1>15, LimitAfter
<1>17. RateTypeOK'
  <2>1. rem \in Int
    <3>1. Total(kept) \in Int
      <4>1. CASE ~allowed
        BY <1>7, <4>1 DEF kept
      <4>2. CASE allowed
        <5>1. Total(kept) = Int64(Total(E) + cost)
          BY <1>4, <1>9, <4>2, AppendTotal DEF kept
        <5> QED
          BY <1>3, <1>6, <1>7, <5>1
      <4> QED
        BY <1>5, <4>1, <4>2
    <3>2. Int64(params.limit - Total(kept)) \in Int
      BY <1>3, <1>6, <3>1
    <3> QED
      BY <3>2 DEF rem, AtLeast0
  <2>2. /\ sliding' \in [window : Nat, events : Seq(Event)] /\ last' \in [remaining : Int]
        /\ denial' = None \/ denial' \in [cost : Cost, until : Int]
        /\ wrapped' \in BOOLEAN
    BY <1>1, <1>2, <1>3, <1>12, <1>13, <2>1 DEF Decide, RateTypeOK
  <2> QED
    BY <1>1, <1>2, <1>14, <2>2 DEF RateTypeOK
<1> QED
  BY <1>1, <1>14, <1>15, <1>16, <1>17 DEF RateIInv

------------------------------------------------------------------------------
(* Token bucket *)

\* A product grows with its first factor.
LEMMA TimesMonotone ==
  ASSUME NEW a \in Int, NEW b \in Int, NEW c \in Nat, a <= b
  PROVE  a * c <= b * c
OBVIOUS

\* The lesser and the greater of two numbers.
LEMMA MinMaxOfTwo ==
  ASSUME NEW a \in Nat, NEW b \in Nat
  PROVE  /\ Min({a, b}) \in Nat /\ Min({a, b}) <= a /\ Min({a, b}) <= b
         /\ Max({a, b}) \in Nat /\ Max({a, b}) >= a /\ Max({a, b}) >= b
<1>1. Min({a, b}) \in Nat /\ Min({a, b}) <= a /\ Min({a, b}) <= b
  BY DEF Min
<1>2. Max({a, b}) \in Nat /\ Max({a, b}) >= a /\ Max({a, b}) >= b
  BY DEF Max
<1> QED
  BY <1>1, <1>2

\* The bucket's numbers.  Only a bucket no time has passed for can hold more
\* than its capacity.
LEMMA BucketFacts ==
  ASSUME RateTypeOK
  PROVE  /\ Capacity(params) * Scale \in Nat /\ Tokens \in Nat /\ Budget \in Nat
         /\ Capacity(params) * Scale <= Budget /\ surplus <= Budget
         /\ bucket # None => bucket.tokens \in Nat /\ bucket.last \in Nat /\ bucket.last <= now
         /\ bucket = None \/ now > bucket.last => Tokens <= Capacity(params) * Scale
         /\ bucket # None /\ ~(now > bucket.last) => Tokens = bucket.tokens
<1> DEFINE full == Capacity(params) * Scale
           refilled == bucket.tokens + (now - bucket.last) * Rate
<1>1. now \in Nat /\ Rate \in Nat /\ full \in Nat /\ surplus \in Nat
  BY Numbers DEF RateTypeOK
<1>2. bucket # None => bucket.tokens \in Nat /\ bucket.last \in Nat /\ bucket.last <= now
  <2> SUFFICES ASSUME bucket # None
               PROVE  bucket.tokens \in Nat /\ bucket.last \in Nat /\ bucket.last <= now
    OBVIOUS
  <2>1. bucket \in [tokens : Nat, last : 0..now]
    BY DEF RateTypeOK
  <2> QED
    BY <1>1, <2>1
<1>3. bucket # None => refilled \in Nat
  <2> SUFFICES ASSUME bucket # None PROVE refilled \in Nat
    OBVIOUS
  <2> DEFINE d == now - bucket.last
  <2>1. d \in Nat /\ bucket.tokens \in Nat
    BY <1>1, <1>2
  <2> HIDE DEF d
  <2>2. d * Rate \in Nat
    BY <1>1, <2>1
  <2> QED
    BY <2>1, <2>2 DEF d
<1>4. Tokens = IF bucket = None THEN full
               ELSE IF now > bucket.last THEN Min({full, refilled}) ELSE bucket.tokens
  BY DEF Tokens
<1>5. Budget = Max({full, surplus})
  BY DEF Budget
<1> HIDE DEF full, refilled
<1>6. Budget \in Nat /\ full <= Budget /\ surplus <= Budget
  BY <1>1, <1>5, MinMaxOfTwo
<1>7. bucket # None => Min({full, refilled}) \in Nat /\ Min({full, refilled}) <= full
  BY <1>1, <1>3, MinMaxOfTwo
<1>8. Tokens \in Nat /\ (bucket = None \/ now > bucket.last => Tokens <= full)
  BY <1>1, <1>2, <1>4, <1>7
<1> QED
  BY <1>1, <1>2, <1>4, <1>6, <1>8 DEF full

\* What the invariant says of an interval that ends now.
LEMMA BucketLimit ==
  RateTypeOK /\ LogInv /\ BucketInv /\ params.algo = "bucket"
    => \A s \in 0..now : WithinLimit(s, now)
<1> SUFFICES ASSUME RateTypeOK, LogInv, BucketInv, params.algo = "bucket", NEW s \in 0..now
             PROVE  WithinLimit(s, now)
  OBVIOUS
<1>1. Admitted(s, now) * Scale + Tokens <= Budget + (now - s) * Rate
  BY DEF BucketInv
<1>2. Tokens \in Nat /\ Budget \in Nat
  BY BucketFacts
<1>3. Admitted(s, now) \in Int
  <2>1. now \in Nat /\ MaxTime \in Nat /\ now <= MaxTime
    BY Numbers
  <2>2. log \in [0..(MaxTime + 1) -> Nat] /\ s \in 0..(MaxTime + 1) /\ now + 1 \in 0..(MaxTime + 1)
    BY <2>1 DEF RateTypeOK
  <2>3. log[s] \in Nat /\ log[now + 1] \in Nat
    BY <2>2
  <2> QED
    BY <2>3 DEF Admitted
<1>4. now \in Nat /\ Rate \in Nat /\ Scale \in Nat
  BY Numbers
<1> DEFINE x == Admitted(s, now) * Scale
           y == (now - s) * Rate
<1>5. x \in Int /\ y \in Int
  BY <1>3, <1>4
<1> HIDE DEF x, y
<1>6. x <= Budget + y
  BY <1>1, <1>2, <1>5 DEF x, y
<1> QED
  BY <1>6 DEF WithinLimit, x, y

\* ExecBucket keeps the invariant.
LEMMA ExecBucketInv ==
  ASSUME RateIInv, ~wrapped, NEW cost \in Cost, ExecBucket(cost)
  PROVE  RateIInv'
<1> DEFINE allowed == BucketAllows(cost)
           left == IF allowed THEN Tokens - cost * Scale ELSE Tokens
           rem == left \div Scale
           retry == WaitFor(cost)
<1>1. /\ params.algo = "bucket" /\ bucket' = [tokens |-> left, last |-> now]
      /\ Decide(cost, allowed, rem, retry)
      /\ now' = now /\ params' = params /\ fixed' = fixed /\ sliding' = sliding
      /\ surplus' = surplus /\ wrapped' = wrapped
  BY DEF ExecBucket
<1>2. RateTypeOK /\ LogInv /\ NeverOverLimit /\ BucketInv
  BY <1>1 DEF RateIInv
<1>3. /\ now \in Nat /\ Scale \in Nat \ {0} /\ Rate \in Nat \ {0} /\ cost \in Nat \ {0}
      /\ Tokens \in Nat /\ Budget \in Nat
  BY <1>2, Numbers, BucketFacts, RateAssumption
<1>4. allowed \in BOOLEAN /\ (allowed <=> cost * Scale <= Tokens)
  BY DEF BucketAllows
<1>5. cost * Scale \in Nat
  BY <1>3
<1>6. left \in Nat /\ left <= Tokens
  BY <1>3, <1>4, <1>5
<1>7. /\ retry \in Nat
      /\ ~allowed => Tokens + retry * Rate <= cost * Scale
  <2> DEFINE missing == AtLeast0(cost * Scale - Tokens)
  <2>1. missing \in Nat /\ (~allowed => missing = cost * Scale - Tokens)
    BY <1>3, <1>4, <1>5 DEF AtLeast0
  <2>2. retry = missing \div Rate
    BY DEF WaitFor
  <2> HIDE DEF missing, retry
  <2>3. retry \in Nat /\ retry * Rate <= missing
    BY <1>3, <2>1, <2>2, Aligned
  <2>4. retry * Rate \in Int
    BY <1>3, <2>3
  <2> QED
    BY <1>3, <1>5, <2>1, <2>3, <2>4
<1>8. rem \in Int
  <2> HIDE DEF left
  <2> QED
    BY <1>3, <1>6, Aligned
<1> HIDE DEF allowed, left, rem, retry
<1>9. Tokens' = left /\ Budget' = Budget /\ Rate' = Rate
  <2>1. bucket' # None /\ bucket'.tokens = left /\ bucket'.last = now
    BY <1>1 DEF None
  <2>2. ~(now' > bucket'.last)
    BY <1>1, <1>3, <2>1
  <2>3. Tokens' = bucket'.tokens
    BY <2>1, <2>2 DEF Tokens
  <2> QED
    BY <1>1, <2>1, <2>3 DEF Budget, Rate, W
<1>10. log' \in [0..(MaxTime + 1) -> Nat] /\ LogInv'
  BY <1>1, <1>2, <1>4, Logged
<1>11. RateTypeOK'
  <2>1. /\ bucket' \in [tokens : Nat, last : 0..now] /\ last' \in [remaining : Int]
        /\ denial' = None \/ denial' \in [cost : Cost, until : Int]
    BY <1>1, <1>2, <1>3, <1>6, <1>7, <1>8 DEF Decide, RateTypeOK
  <2> QED
    BY <1>1, <1>2, <1>10, <2>1 DEF RateTypeOK
<1>12. \A s \in 0..now : /\ Admitted(s, now) \in Nat
                         /\ Admitted(s, now)' = Admitted(s, now) + (IF allowed THEN cost ELSE 0)
  BY <1>1, <1>2, <1>4, AdmittedAfter
<1>13. BucketInv'
  <2>1. ASSUME NEW s \in 0..now
        PROVE  (Admitted(s, now) * Scale + Tokens <= Budget + (now - s) * Rate)'
    <3> DEFINE a == Admitted(s, now)
               b == (Admitted(s, now))'
    <3>1. a * Scale + Tokens <= Budget + (now - s) * Rate
      BY <1>2 DEF BucketInv
    <3>2. a \in Nat /\ b = a + (IF allowed THEN cost ELSE 0)
      BY <1>12
    <3> HIDE DEF a, b
    <3>3. b * Scale + left = a * Scale + Tokens
      <4>1. CASE allowed
        <5>1. b = a + cost /\ left = Tokens - cost * Scale
          BY <3>2, <4>1 DEF left
        <5>2. (a + cost) * Scale = a * Scale + cost * Scale
          BY <1>3, <3>2
        <5>3. a * Scale \in Int
          BY <1>3, <3>2
        <5> QED
          BY <1>3, <1>5, <5>1, <5>2, <5>3
      <4>2. CASE ~allowed
        BY <1>3, <3>2, <4>2 DEF left
      <4> QED
        BY <1>4, <4>1, <4>2
    <3> QED
      BY <1>1, <1>9, <3>1, <3>3 DEF a, b
  <2>2. (last # None => last.remaining = Tokens \div Scale)'
    BY <1>1, <1>9 DEF Decide, rem
  <2>3. (denial # None /\ now < denial.until =>
           Tokens + (denial.until - now) * Rate <= denial.cost * Scale)'
    <3>1. CASE allowed
      <4>1. denial' = denial
        BY <1>1, <3>1 DEF Decide
      <4> SUFFICES ASSUME denial # None, now < denial.until
                   PROVE  left + (denial.until - now) * Rate <= denial.cost * Scale
        BY <1>1, <1>9, <4>1
      <4>2. denial.cost \in Nat /\ denial.until \in Int
        BY <1>2, DenialTyped
      <4>3. Tokens + (denial.until - now) * Rate <= denial.cost * Scale
        BY <1>2 DEF BucketInv
      <4> DEFINE x == (denial.until - now) * Rate
                 y == denial.cost * Scale
      <4>4. x \in Int /\ y \in Int
        BY <1>3, <4>2
      <4> HIDE DEF x, y
      <4>5. Tokens + x <= y
        BY <4>3 DEF x, y
      <4>6. left + x <= y
        BY <1>3, <1>6, <4>4, <4>5
      <4> QED
        BY <4>6 DEF x, y
    <3>2. CASE ~allowed
      <4>1. denial' = [cost |-> cost, until |-> now + retry]
        BY <1>1, <3>2 DEF Decide
      <4>2. denial'.cost = cost /\ denial'.until - now = retry
        BY <1>3, <1>7, <4>1
      <4>3. left = Tokens
        BY <3>2 DEF left
      <4> QED
        BY <1>1, <1>7, <1>9, <3>2, <4>2, <4>3
    <3> QED
      BY <1>4, <3>1, <3>2
  <2> QED
    BY <1>1, <2>1, <2>2, <2>3 DEF BucketInv
<1>14. \A s \in 0..now : WithinLimit(s, now)'
  <2>1. (RateTypeOK /\ LogInv /\ BucketInv /\ params.algo = "bucket"
           => \A s \in 0..now : WithinLimit(s, now))'
    BY BucketLimit, PTL
  <2> QED
    BY <1>1, <1>10, <1>11, <1>13, <2>1
<1>15. NeverOverLimit'
  BY <1>1, <1>2, <1>4, <1>14, LimitAfter
<1> QED
  BY <1>1, <1>10, <1>11, <1>13, <1>15 DEF RateIInv

------------------------------------------------------------------------------
(* The clock *)

\* A tick leaves the log alone: the new tick starts with nothing admitted in it.
LEMMA TickLog ==
  ASSUME RateTypeOK, LogInv, Tick
  PROVE  /\ now' = now + 1 /\ now + 1 \in 0..MaxTime /\ 0..now' = (0..now) \cup {now + 1}
         /\ params' = params /\ fixed' = fixed /\ sliding' = sliding /\ bucket' = bucket
         /\ last' = None /\ denial' = denial /\ log' = log /\ surplus' = surplus
         /\ wrapped' = wrapped /\ W' = W /\ Rate' = Rate /\ Budget' = Budget
         /\ RateTypeOK' /\ LogInv'
         /\ \A s \in 0..now : Admitted(s, now)' = Admitted(s, now) /\ Admitted(s, now) \in Nat
         /\ Admitted(now + 1, now + 1) = 0 /\ Admitted(now, now)' = 0
         /\ log'[now' + 1] = log[now + 1]
<1>1. /\ now' = now + 1 /\ now < MaxTime /\ params' = params /\ fixed' = fixed
      /\ sliding' = sliding /\ bucket' = bucket /\ last' = None /\ denial' = denial
      /\ log' = log /\ surplus' = surplus /\ wrapped' = wrapped
  BY DEF Tick, history
<1>2. /\ now \in Nat /\ MaxTime \in Nat /\ log \in [0..(MaxTime + 1) -> Nat]
  BY Numbers DEF RateTypeOK
<1>3. now + 1 \in 0..MaxTime /\ 0..now' = (0..now) \cup {now + 1}
  BY <1>1, <1>2
<1>4. W' = W /\ Rate' = Rate /\ Budget' = Budget
  BY <1>1 DEF W, Rate, Budget
<1>5. RateTypeOK'
  <2>1. bucket' = None \/ bucket' \in [tokens : Nat, last : 0..now']
    <3>1. \A x \in 0..now : x \in 0..now'
      BY <1>3
    <3> QED
      BY <1>1, <3>1 DEF RateTypeOK
  <2> QED
    BY <1>1, <1>3, <2>1 DEF RateTypeOK
<1>6. log[now + 2] = log[now + 1] /\ log[now + 1] \in Nat
  BY <1>1, <1>2 DEF LogInv
<1>7. LogInv'
  <2>1. \A t \in (now' + 1)..(MaxTime + 1) : log'[t] = log'[now' + 1]
    BY <1>1, <1>2, <1>6 DEF LogInv
  <2> QED
    BY <1>1, <2>1 DEF LogInv
<1>8. log'[now' + 1] = log[now + 1]
  <2>1. now' + 1 = now + 2
    BY <1>1, <1>2
  <2> QED
    BY <1>1, <1>6, <2>1
<1>9. ASSUME NEW s \in 0..now
      PROVE  Admitted(s, now)' = Admitted(s, now) /\ Admitted(s, now) \in Nat
  <2>1. log[s] \in Nat /\ log[s] <= log[now + 1]
    BY <1>1, <1>2 DEF LogInv
  <2> QED
    BY <1>1, <1>6, <1>8, <2>1 DEF Admitted
<1>10. Admitted(now + 1, now + 1) = 0 /\ Admitted(now, now)' = 0
  <2>1. (now + 1) + 1 = now + 2
    BY <1>2
  <2> QED
    BY <1>1, <1>6, <1>8, <2>1 DEF Admitted
<1> QED
  BY <1>1, <1>3, <1>4, <1>5, <1>7, <1>8, <1>9, <1>10

\* If the new tick is within the limit, every tick is.
LEMMA LimitTick ==
  ASSUME RateTypeOK, LogInv, NeverOverLimit, Tick,
         ~wrapped => \A s \in 0..now' : WithinLimit(s, now)'
  PROVE  NeverOverLimit'
<1>1. /\ now' = now + 1 /\ 0..now' = (0..now) \cup {now + 1}
      /\ params' = params /\ log' = log /\ wrapped' = wrapped
      /\ W' = W /\ Rate' = Rate /\ Budget' = Budget
  BY TickLog
<1> SUFFICES ASSUME ~wrapped', NEW s \in 0..now', NEW t \in 0..now', s <= t
             PROVE  WithinLimit(s, t)'
  BY DEF NeverOverLimit
<1>2. CASE t = now + 1
  BY <1>1, <1>2 DEF WithinLimit, Admitted
<1>3. CASE t \in 0..now
  <2>1. s \in 0..now
    BY <1>3, Numbers
  <2>2. WithinLimit(s, t)
    BY <1>1, <1>3, <2>1 DEF NeverOverLimit
  <2> QED
    BY <1>1, <2>2 DEF WithinLimit, Admitted
<1> QED
  BY <1>1, <1>2, <1>3

\* A tick stays in the window or starts the next one.
LEMMA TickFixed ==
  ASSUME RateTypeOK, LogInv, NeverOverLimit, FixedInv, ~wrapped, params.algo = "fixed", Tick
  PROVE  FixedInv' /\ \A s \in 0..now' : WithinLimit(s, now)'
<1>1. /\ now' = now + 1 /\ 0..now' = (0..now) \cup {now + 1}
      /\ params' = params /\ fixed' = fixed /\ last' = None /\ denial' = denial
      /\ log' = log /\ W' = W
      /\ \A s \in 0..now : Admitted(s, now)' = Admitted(s, now) /\ Admitted(s, now) \in Nat
      /\ Admitted(now, now)' = 0
  BY TickLog
<1>2. now \in Nat /\ W \in Nat \ {0} /\ params.limit \in Nat \ {0} /\ params \in Params
  BY Numbers DEF RateTypeOK
<1>3. /\ WindowStart \in Nat /\ WindowStart <= now /\ now < WindowStart + W
      /\ WindowStart' \in Nat /\ WindowStart' <= now + 1 /\ now + 1 < WindowStart' + W
  BY <1>1, <1>2, Aligned DEF WindowStart
<1>4. WindowStart' = IF now + 1 < WindowStart + W THEN WindowStart ELSE now + 1
  <2> DEFINE q == now \div W
  <2>1. q \in Nat /\ WindowStart = q * W /\ WindowStart' = ((now + 1) \div W) * W
    BY <1>1, <1>2, Aligned DEF WindowStart
  <2> HIDE DEF q
  <2>2. CASE now + 1 < WindowStart + W
    <3>1. q = (now + 1) \div W
      BY <1>2, <1>3, <2>1, <2>2, AlignedOnce
    <3> QED
      BY <2>1, <2>2, <3>1
  <2>3. CASE ~(now + 1 < WindowStart + W)
    <3>1. now + 1 = WindowStart + W
      BY <1>2, <1>3, <2>3
    <3>2. (q + 1) * W = q * W + W /\ q + 1 \in Nat
      BY <1>2, <2>1
    <3>3. (q + 1) * W <= now + 1 /\ now + 1 < (q + 1) * W + W
      BY <1>2, <2>1, <3>1, <3>2
    <3>4. q + 1 = (now + 1) \div W
      BY <1>2, <3>2, <3>3, AlignedOnce
    <3> QED
      BY <2>1, <2>3, <3>1, <3>2, <3>4
  <2> QED
    BY <2>2, <2>3
<1>5. WithinSomeLimit(0)
  BY <1>2 DEF WithinSomeLimit
<1>6. WithinSomeLimit(FixedUsed') /\ FixedUsed' \in Int
  <2>1. fixed # None => WithinSomeLimit(fixed.used) /\ fixed.used \in Int
    BY DEF FixedInv, RateTypeOK
  <2>2. FixedUsed' = 0 \/ (fixed # None /\ FixedUsed' = fixed.used)
    BY <1>1 DEF FixedUsed
  <2> QED
    BY <1>5, <2>1, <2>2
<1>7. CASE now + 1 < WindowStart + W
  <2>1. WindowStart' = WindowStart
    BY <1>4, <1>7
  <2>2. FixedUsed' = FixedUsed
    BY <1>1, <2>1 DEF FixedUsed
  <2>3. Admitted(WindowStart, now)' <= FixedUsed
    <3>1. Admitted(WindowStart, now)' = Admitted(WindowStart, now)
      <4>1. WindowStart \in 0..now
        BY <1>2, <1>3
      <4> QED
        BY <1>1, <2>1, <4>1 DEF Admitted
    <3> QED
      BY <3>1 DEF FixedInv
  <2>4. denial' # None /\ now' < denial'.until =>
          denial'.until = WindowStart + W /\ FixedUsed + denial'.cost > params.limit
    <3>1. denial # None => denial.until \in Int
      BY DenialTyped
    <3> QED
      BY <1>1, <1>2, <3>1 DEF FixedInv
  <2>5. FixedInv'
    BY <1>1, <1>6, <2>1, <2>2, <2>3, <2>4 DEF FixedInv, WithinSomeLimit
  <2>6. (now + 1) \div W = now \div W
    <3> DEFINE q == now \div W
    <3>1. q \in Nat /\ WindowStart = q * W
      BY <1>2, Aligned DEF WindowStart
    <3> HIDE DEF q
    <3>2. q * W <= now + 1 /\ now + 1 < q * W + W /\ now + 1 \in Nat
      BY <1>2, <1>3, <1>7, <3>1
    <3>3. q = (now + 1) \div W
      BY <1>2, <3>1, <3>2, AlignedOnce
    <3> QED
      BY <3>3 DEF q
  <2>7. ASSUME NEW s \in 0..now' PROVE WithinLimit(s, now)'
    <3> SUFFICES ASSUME s \div W = (now + 1) \div W
                 PROVE  Admitted(s, now)' <= params.limit
      BY <1>1 DEF WithinLimit
    <3>1. CASE s = now + 1
      BY <1>1, <1>2, <3>1 DEF Admitted
    <3>2. CASE s \in 0..now
      <4>1. WithinLimit(s, now)
        BY <1>2, <3>2 DEF NeverOverLimit
      <4> QED
        BY <1>1, <2>6, <3>2, <4>1 DEF WithinLimit
    <3> QED
      BY <1>1, <3>1, <3>2
  <2> QED
    BY <2>5, <2>7
<1>8. CASE ~(now + 1 < WindowStart + W)
  <2>1. WindowStart' = now' /\ now + 1 = WindowStart + W
    BY <1>1, <1>2, <1>3, <1>4, <1>8
  <2>2. Admitted(WindowStart, now)' = 0
    BY <1>1, <2>1 DEF Admitted
  <2>3. ~(denial' # None /\ now' < denial'.until)
    <3> SUFFICES ASSUME denial # None, now + 1 < denial.until PROVE FALSE
      BY <1>1
    <3>1. denial.until \in Int
      BY DenialTyped
    <3>2. now < denial.until
      BY <1>2, <3>1
    <3>3. denial.until = WindowStart + W
      BY <3>2 DEF FixedInv
    <3> QED
      BY <1>2, <1>3, <2>1, <3>1, <3>3
  <2>4. FixedInv'
    BY <1>1, <1>6, <2>2, <2>3 DEF FixedInv, WithinSomeLimit
  <2>5. ASSUME NEW s \in 0..now' PROVE WithinLimit(s, now)'
    <3> SUFFICES ASSUME s \div W = (now + 1) \div W
                 PROVE  Admitted(s, now)' <= params.limit
      BY <1>1 DEF WithinLimit
    <3>1. s \in Nat /\ s <= now + 1
      BY <1>1, <1>2
    <3>2. (s \div W) * W <= s
      BY <1>2, <3>1, Aligned
    <3>3. ((now + 1) \div W) * W = now + 1
      BY <1>1, <2>1 DEF WindowStart
    <3>4. s = now + 1
      BY <1>2, <3>1, <3>2, <3>3
    <3> QED
      BY <1>1, <1>2, <3>4 DEF Admitted
  <2> QED
    BY <2>4, <2>5
<1> QED
  BY <1>7, <1>8

\* A tick only brings the list closer to its next cutoff.
LEMMA TickSliding ==
  ASSUME RateTypeOK, LogInv, NeverOverLimit, SlidingInv, ~wrapped, params.algo = "sliding", Tick
  PROVE  SlidingInv' /\ \A s \in 0..now' : WithinLimit(s, now)'
<1>1. /\ now' = now + 1 /\ 0..now' = (0..now) \cup {now + 1}
      /\ params' = params /\ sliding' = sliding /\ last' = None /\ denial' = denial
      /\ log' = log /\ W' = W
      /\ \A s \in 0..now : Admitted(s, now)' = Admitted(s, now) /\ Admitted(s, now) \in Nat
      /\ Admitted(now, now)' = 0 /\ log'[now' + 1] = log[now + 1]
  BY TickLog
<1>2. now \in Nat /\ W \in Nat \ {0} /\ params.limit \in Nat \ {0}
  BY Numbers
<1>3. ASSUME NEW s \in 0..now' PROVE WithinLimit(s, now)'
  <2> SUFFICES ASSUME (now + 1) - s <= W PROVE Admitted(s, now)' <= params.limit
    BY <1>1 DEF WithinLimit
  <2>1. CASE s = now + 1
    BY <1>1, <1>2, <2>1 DEF Admitted
  <2>2. CASE s \in 0..now
    <3>1. WithinLimit(s, now)
      BY <1>2, <2>2 DEF NeverOverLimit
    <3>2. now - s <= W
      BY <1>2, <2>2
    <3> QED
      BY <1>1, <2>2, <3>1, <3>2 DEF WithinLimit
  <2> QED
    BY <1>1, <2>1, <2>2
<1>4. sliding # None =>
        /\ sliding.events \in Seq(Event) /\ EventsOK(sliding.events)
        /\ \A i \in DOMAIN sliding.events :
             sliding.events[i].t \in Nat /\ sliding.events[i].t <= now + 1
  <2> SUFFICES ASSUME sliding # None
               PROVE  /\ sliding.events \in Seq(Event) /\ EventsOK(sliding.events)
                      /\ \A i \in DOMAIN sliding.events :
                           sliding.events[i].t \in Nat /\ sliding.events[i].t <= now + 1
    OBVIOUS
  <2>1. sliding \in [window : Nat, events : Seq(Event)]
    BY DEF RateTypeOK
  <2>2. sliding.events \in Seq(Event) /\ EventsOK(sliding.events)
    BY <2>1 DEF SlidingInv
  <2>3. \A i \in DOMAIN sliding.events : sliding.events[i].t \in Nat /\ sliding.events[i].t <= now
    BY <2>2, EventFacts DEF SlidingInv
  <2> QED
    BY <1>2, <2>2, <2>3
<1>5. ASSUME sliding # None, sliding.window = W PROVE Covered(sliding.events)'
  <2> DEFINE ev == sliding.events
  <2>1. Covered(ev)
    BY <1>5 DEF SlidingInv
  <2>2. ASSUME NEW n \in 0..Len(ev), NEW s \in 0..now', s >= now' - W,
               \A i \in 1..n : ev[i].t < s
        PROVE  Admitted(s, now)' <= Total(ev) - Sums(ev)[n]
    <3>1. CASE s \in 0..now
      <4>1. s >= now - W
        BY <1>1, <1>2, <2>2, <3>1
      <4> QED
        BY <1>1, <2>1, <2>2, <3>1, <4>1 DEF Covered
    <3>2. CASE s = now + 1
      <4>1. Admitted(s, now)' = 0
        BY <1>1, <3>2 DEF Admitted
      <4>2. /\ Total(ev) \in 0..MaxInt /\ Sums(ev)[n] \in 0..MaxInt /\ Sums(ev)[n] <= Total(ev)
        BY <1>4, <1>5, TotalFacts
      <4> QED
        BY <4>1, <4>2
    <3> QED
      BY <1>1, <3>1, <3>2
  <2>3. sliding'.events = ev
    BY <1>1
  <2> HIDE DEF ev
  <2> QED
    BY <1>1, <2>2, <2>3 DEF Covered
<1>6. denial # None /\ now' < denial.until =>
        /\ now < denial.until /\ denial.until \in Int
        /\ denial.until <= now + W => denial.until <= now' + W
  <2>1. denial # None => denial.until \in Int
    BY DenialTyped
  <2> QED
    BY <1>1, <1>2, <2>1
<1>7. SlidingInv'
  <2>1. (sliding # None =>
           /\ EventsOK(sliding.events)
           /\ \A i \in DOMAIN sliding.events : sliding.events[i].t <= now)'
    BY <1>1, <1>4 DEF EventsOK, Total, Sums
  <2>2. (IF sliding # None /\ sliding.window = W
         THEN Covered(sliding.events) ELSE log[now + 1] = 0)'
    <3>1. ~(sliding # None /\ sliding.window = W) => log[now + 1] = 0
      BY DEF SlidingInv
    <3> QED
      BY <1>1, <1>5, <3>1
  <2>3. (denial # None /\ now < denial.until =>
           /\ sliding # None /\ sliding.window = W /\ denial.until <= now + W
           /\ \A i \in DOMAIN sliding.events : sliding.events[i].t + W >= denial.until
           /\ Total(sliding.events) + denial.cost > params.limit)'
    <3> SUFFICES ASSUME denial # None, now' < denial.until
                 PROVE  /\ sliding # None /\ sliding.window = W /\ denial.until <= now' + W
                        /\ \A i \in DOMAIN sliding.events :
                             sliding.events[i].t + W >= denial.until
                        /\ Total(sliding.events) + denial.cost > params.limit
      BY <1>1 DEF Total, Sums
    <3> QED
      BY <1>6 DEF SlidingInv
  <2> QED
    BY <1>1, <2>1, <2>2, <2>3 DEF SlidingInv
<1> QED
  BY <1>3, <1>7

\* A tick adds at most the rate, and never more than the capacity.
LEMMA TickTokens ==
  ASSUME RateTypeOK, LogInv, Tick
  PROVE  /\ Tokens' \in Nat /\ Tokens' <= Tokens + Rate
         /\ Tokens' <= Budget
<1>1. /\ now' = now + 1 /\ params' = params /\ bucket' = bucket /\ RateTypeOK'
      /\ W' = W /\ Rate' = Rate /\ Budget' = Budget
  BY TickLog
<1>2. now \in Nat /\ Rate \in Nat /\ Tokens \in Nat /\ Budget \in Nat
  BY Numbers, BucketFacts
<1> DEFINE full == Capacity(params) * Scale
<1>3. full \in Nat /\ full <= Budget
  BY BucketFacts
<1>4. CASE bucket = None
  <2>1. Tokens' = full /\ Tokens = full
    BY <1>1, <1>4 DEF Tokens
  <2> HIDE DEF full
  <2> QED
    BY <1>2, <1>3, <2>1
<1>5. CASE bucket # None
  <2>1. bucket.tokens \in Nat /\ bucket.last \in Nat /\ bucket.last <= now
    BY <1>5, BucketFacts
  <2> DEFINE d == now - bucket.last
             x == bucket.tokens + d * Rate
             y == bucket.tokens + (d + 1) * Rate
  <2>2. d \in Nat /\ now' - bucket.last = d + 1 /\ now' > bucket.last
    BY <1>1, <1>2, <2>1
  <2>3. Tokens' = Min({full, y})
    BY <1>1, <1>5, <2>2 DEF Tokens
  <2>4. Tokens = IF now > bucket.last THEN Min({full, x}) ELSE bucket.tokens
    BY <1>5 DEF Tokens
  <2>5. d = 0 => x = bucket.tokens
    BY <1>2, <2>1
  <2>6. now > bucket.last \/ d = 0
    BY <1>2, <2>1
  <2> HIDE DEF d, full
  <2>7. x \in Nat /\ y \in Nat /\ y = x + Rate
    BY <1>2, <2>1, <2>2
  <2> HIDE DEF x, y
  <2>8. Tokens' \in Nat /\ Tokens' <= full /\ Tokens' <= y
    BY <1>3, <2>3, <2>7, MinMaxOfTwo
  <2>9. CASE now > bucket.last
    <3>1. Tokens = full \/ Tokens = x
      <4>1. Min({full, x}) = full \/ Min({full, x}) = x
        BY <1>3, <2>7 DEF Min
      <4> QED
        BY <2>4, <2>9, <4>1
    <3> QED
      BY <1>2, <1>3, <2>7, <2>8, <3>1
  <2>10. CASE ~(now > bucket.last)
    BY <1>2, <1>3, <2>4, <2>5, <2>6, <2>7, <2>8, <2>10
  <2> QED
    BY <2>9, <2>10
<1> QED
  BY <1>4, <1>5

\* A tick keeps the balance between what was admitted and what is left.
LEMMA TickBucket ==
  ASSUME RateTypeOK, LogInv, NeverOverLimit, BucketInv, ~wrapped, params.algo = "bucket", Tick
  PROVE  BucketInv' /\ \A s \in 0..now' : WithinLimit(s, now)'
<1>1. /\ now' = now + 1 /\ 0..now' = (0..now) \cup {now + 1}
      /\ params' = params /\ last' = None /\ denial' = denial
      /\ log' = log /\ Rate' = Rate /\ Budget' = Budget /\ RateTypeOK' /\ LogInv'
      /\ \A s \in 0..now : Admitted(s, now)' = Admitted(s, now) /\ Admitted(s, now) \in Nat
      /\ Admitted(now, now)' = 0
  BY TickLog
<1>2. /\ now \in Nat /\ Rate \in Nat /\ Scale \in Nat /\ Tokens \in Nat /\ Budget \in Nat
  BY Numbers, BucketFacts
<1>3. Tokens' \in Nat /\ Tokens' <= Tokens + Rate /\ Tokens' <= Budget
  BY TickTokens
<1>4. ASSUME NEW s \in 0..now'
      PROVE  (Admitted(s, now) * Scale + Tokens <= Budget + (now - s) * Rate)'
  <2>1. CASE s \in 0..now
    <3> DEFINE a == Admitted(s, now) * Scale
               d == now - s
               y == d * Rate
    <3>1. a + Tokens <= Budget + y
      BY <2>1 DEF BucketInv
    <3>2. a \in Int /\ y \in Int
      BY <1>1, <1>2, <2>1
    <3>3. (now' - s) * Rate = y + Rate
      <4>1. d \in Int /\ now' - s = d + 1
        BY <1>1, <1>2, <2>1
      <4> HIDE DEF d
      <4>2. (d + 1) * Rate = y + Rate
        BY <1>2, <4>1
      <4> QED
        BY <4>1, <4>2
    <3>4. Admitted(s, now)' * Scale = a
      BY <1>1, <2>1
    <3> HIDE DEF a, y
    <3>5. a + Tokens' <= Budget + (y + Rate)
      <4> DEFINE t == Tokens
                 u == Tokens'
                 b == Budget
                 r == Rate
      <4>1. t \in Nat /\ u \in Nat /\ b \in Nat /\ r \in Nat /\ u <= t + r /\ a + t <= b + y
        BY <1>2, <1>3, <3>1
      <4> HIDE DEF t, u, b, r
      <4>2. a + u <= b + (y + r)
        BY <3>2, <4>1
      <4> QED
        BY <4>2 DEF t, u, b, r
    <3>6. Budget' = Budget /\ Rate' = Rate
      BY <1>1
    <3> QED
      BY <3>3, <3>4, <3>5, <3>6
  <2>2. CASE s = now + 1
    <3>1. Admitted(s, now)' = 0 /\ now' - s = 0
      BY <1>1, <1>2, <2>2 DEF Admitted
    <3>2. Admitted(s, now)' * Scale = 0 /\ (now' - s) * Rate = 0
      BY <1>2, <3>1
    <3> DEFINE u == Tokens'
               b == Budget
    <3>3. u \in Nat /\ b \in Nat /\ u <= b
      BY <1>2, <1>3
    <3> HIDE DEF u, b
    <3>4. 0 + u <= b + 0
      BY <3>3
    <3>5. Budget' = b /\ Rate' = Rate /\ Tokens' = u
      BY <1>1 DEF b, u
    <3> QED
      BY <3>2, <3>4, <3>5
  <2> QED
    BY <1>1, <2>1, <2>2
<1>5. (denial # None /\ now < denial.until =>
         Tokens + (denial.until - now) * Rate <= denial.cost * Scale)'
  <2> SUFFICES ASSUME denial # None, now + 1 < denial.until
               PROVE  Tokens' + (denial.until - (now + 1)) * Rate <= denial.cost * Scale
    BY <1>1
  <2>1. denial.until \in Int /\ denial.cost \in Nat
    BY DenialTyped
  <2>2. now < denial.until
    BY <1>2, <2>1
  <2> DEFINE d == denial.until - now
             y == d * Rate
             z == denial.cost * Scale
  <2>3. Tokens + y <= z
    BY <2>2 DEF BucketInv
  <2>4. (denial.until - (now + 1)) * Rate = y - Rate /\ y \in Int /\ z \in Int
    <3>1. d \in Int /\ denial.until - (now + 1) = d - 1
      BY <1>2, <2>1
    <3> HIDE DEF d
    <3>2. (d - 1) * Rate = y - Rate /\ y \in Int
      BY <1>2, <3>1
    <3>3. z \in Int
      BY <1>2, <2>1
    <3> QED
      BY <3>1, <3>2, <3>3
  <2> HIDE DEF y, z
  <2>5. Tokens' + (y - Rate) <= z
    <3> DEFINE t == Tokens
               u == Tokens'
               r == Rate
    <3>1. t \in Nat /\ u \in Nat /\ r \in Nat /\ u <= t + r /\ t + y <= z
      BY <1>2, <1>3, <2>3
    <3> HIDE DEF t, u, r
    <3>2. u + (y - r) <= z
      BY <2>4, <3>1
    <3> QED
      BY <3>2 DEF t, u, r
  <2> QED
    BY <2>4, <2>5 DEF z
<1>6. BucketInv'
  BY <1>1, <1>4, <1>5 DEF BucketInv
<1>7. (RateTypeOK /\ LogInv /\ BucketInv /\ params.algo = "bucket"
         => \A s \in 0..now : WithinLimit(s, now))'
  BY BucketLimit, PTL
<1> QED
  BY <1>1, <1>6, <1>7

\* Tick keeps the invariant.
LEMMA TickInv ==
  ASSUME RateIInv, Tick
  PROVE  RateIInv'
<1>1. RateTypeOK /\ LogInv /\ NeverOverLimit /\ params.algo \in {"fixed", "sliding", "bucket"}
  BY Numbers DEF RateIInv
<1>2. RateTypeOK' /\ LogInv' /\ params' = params /\ wrapped' = wrapped
  BY <1>1, TickLog
<1>3. CASE wrapped
  <2>1. NeverOverLimit'
    BY <1>2, <1>3 DEF NeverOverLimit
  <2> QED
    BY <1>2, <1>3, <2>1 DEF RateIInv
<1>4. CASE ~wrapped
  <2>1. /\ params.algo = "fixed" => FixedInv
        /\ params.algo = "sliding" => SlidingInv
        /\ params.algo = "bucket" => BucketInv
    BY <1>4 DEF RateIInv
  <2>2. /\ params.algo = "fixed" => FixedInv'
        /\ params.algo = "sliding" => SlidingInv'
        /\ params.algo = "bucket" => BucketInv'
        /\ \A s \in 0..now' : WithinLimit(s, now)'
    BY <1>1, <1>4, <2>1, TickFixed, TickSliding, TickBucket
  <2>3. NeverOverLimit'
    BY <1>1, <2>2, LimitTick
  <2> QED
    BY <1>1, <1>2, <2>2, <2>3 DEF RateIInv
<1> QED
  BY <1>3, <1>4

------------------------------------------------------------------------------
(* A change of the rule, and the start *)

\* A log in which nothing was admitted.
LEMMA QuietLog ==
  ASSUME RateTypeOK
  PROVE  /\ Quiet \in [0..(MaxTime + 1) -> Nat] /\ Quiet[now + 1] = 0
         /\ \A t \in 0..now : Quiet[t] = 0 /\ Quiet[t + 1] = 0
         /\ \A t \in 0..(MaxTime + 1) : Quiet[t] = 0
<1>1. now \in Nat /\ MaxTime \in Nat /\ now <= MaxTime
  BY Numbers
<1>2. \A t \in 0..now : t \in 0..(MaxTime + 1) /\ t + 1 \in 0..(MaxTime + 1)
  BY <1>1
<1>3. now + 1 \in 0..(MaxTime + 1)
  BY <1>1
<1> QED
  BY <1>2, <1>3 DEF Quiet

\* Where nothing was admitted no limit is passed.
LEMMA QuietLimit ==
  RateTypeOK /\ log = Quiet => LogInv /\ NeverOverLimit /\ \A s \in 0..now : Admitted(s, now) = 0
<1> SUFFICES ASSUME RateTypeOK, log = Quiet
             PROVE  LogInv /\ NeverOverLimit /\ \A s \in 0..now : Admitted(s, now) = 0
  OBVIOUS
<1>1. /\ log[now + 1] = 0
      /\ \A t \in 0..now : log[t] = 0 /\ log[t + 1] = 0
      /\ \A t \in 0..(MaxTime + 1) : log[t] = 0
  BY QuietLog
<1>2. /\ now \in Nat /\ MaxTime \in Nat /\ params.limit \in Nat
      /\ Scale \in Nat /\ Rate \in Nat /\ Budget \in Nat
      /\ params.algo \in {"fixed", "sliding", "bucket"}
  BY Numbers, BucketFacts
<1>3. LogInv
  <2>1. \A t \in (now + 1)..(MaxTime + 1) : t \in 0..(MaxTime + 1)
    BY <1>2
  <2> QED
    BY <1>1, <2>1 DEF LogInv
<1>4. \A s, t \in 0..now : Admitted(s, t) = 0
  BY <1>1 DEF Admitted
<1>5. NeverOverLimit
  <2> SUFFICES ASSUME NEW s \in 0..now, NEW t \in 0..now, s <= t PROVE WithinLimit(s, t)
    BY DEF NeverOverLimit
  <2> DEFINE d == t - s
  <2>1. Admitted(s, t) = 0 /\ d \in Nat
    BY <1>2, <1>4
  <2> HIDE DEF d
  <2>2. d * Rate \in Nat
    BY <1>2, <2>1
  <2>3. 0 * Scale = 0 /\ 0 <= Budget + d * Rate
    BY <1>2, <2>2
  <2>4. Admitted(s, t) <= params.limit
    BY <1>2, <2>1
  <2>5. Admitted(s, t) * Scale <= Budget + (t - s) * Rate
    BY <2>1, <2>3 DEF d
  <2> QED
    BY <1>2, <2>4, <2>5 DEF WithinLimit
<1>6. \A s \in 0..now : Admitted(s, now) = 0
  <2>1. now \in 0..now
    BY <1>2
  <2> QED
    BY <1>4, <2>1
<1> QED
  BY <1>3, <1>5, <1>6

\* The state that other parameters left behind is a state to start from.
LEMMA FreshInv ==
  RateTypeOK /\ log = Quiet /\ last = None /\ denial = None =>
    /\ (fixed # None => WithinSomeLimit(fixed.used)) => FixedInv
    /\ (sliding # None => /\ EventsOK(sliding.events)
                          /\ \A i \in DOMAIN sliding.events : sliding.events[i].t <= now)
         => SlidingInv
    /\ (bucket # None => bucket.tokens <= surplus) => BucketInv
<1> SUFFICES ASSUME RateTypeOK, log = Quiet, last = None, denial = None
             PROVE  /\ (fixed # None => WithinSomeLimit(fixed.used)) => FixedInv
                    /\ (sliding # None =>
                          /\ EventsOK(sliding.events)
                          /\ \A i \in DOMAIN sliding.events : sliding.events[i].t <= now)
                         => SlidingInv
                    /\ (bucket # None => bucket.tokens <= surplus) => BucketInv
  OBVIOUS
<1>1. \A s \in 0..now : Admitted(s, now) = 0
  BY QuietLimit
<1>2. /\ now \in Nat /\ W \in Nat \ {0} /\ params \in Params /\ params.limit \in Nat
      /\ Scale \in Nat /\ Rate \in Nat
  BY Numbers DEF RateTypeOK
<1>3. ASSUME fixed # None => WithinSomeLimit(fixed.used) PROVE FixedInv
  <2>1. WithinSomeLimit(0)
    BY <1>2 DEF WithinSomeLimit
  <2>2. WithinSomeLimit(FixedUsed)
    BY <1>3, <2>1 DEF FixedUsed
  <2>3. FixedUsed \in Int
    BY DEF FixedUsed, RateTypeOK
  <2>4. WindowStart \in 0..now
    BY <1>2, Aligned DEF WindowStart
  <2>5. Admitted(WindowStart, now) <= FixedUsed
    BY <1>1, <2>2, <2>3, <2>4 DEF WithinSomeLimit
  <2> QED
    BY <1>3, <2>2, <2>5 DEF FixedInv
<1>4. ASSUME sliding # None =>
               /\ EventsOK(sliding.events)
               /\ \A i \in DOMAIN sliding.events : sliding.events[i].t <= now
      PROVE  SlidingInv
  <2>1. log[now + 1] = 0
    BY QuietLog
  <2>2. ASSUME sliding # None PROVE Covered(sliding.events)
    <3> DEFINE ev == sliding.events
    <3>1. ev \in Seq(Event) /\ EventsOK(ev)
      <4>1. sliding \in [window : Nat, events : Seq(Event)]
        BY <2>2 DEF RateTypeOK
      <4> QED
        BY <1>4, <2>2, <4>1
    <3> HIDE DEF ev
    <3>2. \A n \in 0..Len(ev) : 0 <= Total(ev) - Sums(ev)[n]
      <4> TAKE n \in 0..Len(ev)
      <4>1. Total(ev) \in 0..MaxInt /\ Sums(ev)[n] \in 0..MaxInt /\ Sums(ev)[n] <= Total(ev)
        BY <3>1, TotalFacts
      <4> QED
        BY <4>1
    <3>3. Covered(ev)
      BY <1>1, <3>2 DEF Covered
    <3> QED
      BY <3>3 DEF ev
  <2> QED
    BY <1>4, <2>1, <2>2 DEF SlidingInv
<1>5. ASSUME bucket # None => bucket.tokens <= surplus PROVE BucketInv
  <2>1. Tokens \in Nat /\ Budget \in Nat /\ Tokens <= Budget
    <3> DEFINE full == Capacity(params) * Scale
    <3>1. /\ full \in Nat /\ Tokens \in Nat /\ Budget \in Nat /\ full <= Budget
          /\ surplus <= Budget /\ surplus \in Nat
          /\ bucket # None => bucket.tokens \in Nat
          /\ bucket = None \/ now > bucket.last => Tokens <= full
          /\ bucket # None /\ ~(now > bucket.last) => Tokens = bucket.tokens
      BY BucketFacts DEF RateTypeOK
    <3> HIDE DEF full
    <3>2. CASE bucket = None \/ now > bucket.last
      BY <3>1, <3>2
    <3>3. CASE bucket # None /\ ~(now > bucket.last)
      BY <1>5, <3>1, <3>3
    <3> QED
      BY <3>2, <3>3
  <2>2. ASSUME NEW s \in 0..now
        PROVE  Admitted(s, now) * Scale + Tokens <= Budget + (now - s) * Rate
    <3> DEFINE d == now - s
    <3>1. d \in Nat /\ Admitted(s, now) = 0
      BY <1>1, <1>2
    <3> HIDE DEF d
    <3>2. d * Rate \in Nat /\ 0 * Scale = 0
      BY <1>2, <3>1
    <3>3. 0 + Tokens <= Budget + d * Rate
      BY <2>1, <3>2
    <3> QED
      BY <3>1, <3>2, <3>3 DEF d
  <2> QED
    BY <2>2 DEF BucketInv
<1> QED
  BY <1>3, <1>4, <1>5

\* ChangeParams keeps the invariant: the limits are counted afresh.
LEMMA ChangeParamsInv ==
  ASSUME RateIInv, NEW p \in Params, ChangeParams(p)
  PROVE  RateIInv'
<1>1. /\ p.algo = params.algo /\ params' = p /\ last' = None /\ denial' = None /\ log' = Quiet
      /\ surplus' = IF bucket = None THEN 0 ELSE bucket.tokens
      /\ now' = now /\ fixed' = fixed /\ sliding' = sliding /\ bucket' = bucket
      /\ wrapped' = wrapped
  BY DEF ChangeParams
<1>2. RateTypeOK /\ params.algo \in {"fixed", "sliding", "bucket"}
  BY Numbers DEF RateIInv
<1>3. bucket # None => bucket.tokens \in Nat
  BY <1>2, BucketFacts
<1>4. RateTypeOK'
  <2>1. surplus' \in Nat /\ Quiet \in [0..(MaxTime + 1) -> Nat]
    BY <1>1, <1>2, <1>3, QuietLog
  <2> QED
    BY <1>1, <1>2, <2>1 DEF RateTypeOK
<1>5. (RateTypeOK /\ log = Quiet
         => LogInv /\ NeverOverLimit /\ \A s \in 0..now : Admitted(s, now) = 0)'
  BY QuietLimit, PTL
<1>6. Quiet' = Quiet
  BY DEF Quiet
<1>7. LogInv' /\ NeverOverLimit'
  BY <1>1, <1>4, <1>5, <1>6
<1>8. (RateTypeOK /\ log = Quiet /\ last = None /\ denial = None =>
         /\ (fixed # None => WithinSomeLimit(fixed.used)) => FixedInv
         /\ (sliding # None => /\ EventsOK(sliding.events)
                               /\ \A i \in DOMAIN sliding.events : sliding.events[i].t <= now)
              => SlidingInv
         /\ (bucket # None => bucket.tokens <= surplus) => BucketInv)'
  BY FreshInv, PTL
<1>9. None' = None
  BY DEF None
<1>10. ASSUME ~wrapped, params.algo = "fixed" PROVE FixedInv'
  <2>1. fixed # None => WithinSomeLimit(fixed.used)
    BY <1>10 DEF RateIInv, FixedInv
  <2>2. (fixed # None => WithinSomeLimit(fixed.used))'
    BY <1>1, <1>9, <2>1 DEF WithinSomeLimit
  <2> QED
    BY <1>1, <1>4, <1>6, <1>8, <1>9, <2>2
<1>11. ASSUME ~wrapped, params.algo = "sliding" PROVE SlidingInv'
  <2>1. sliding # None => /\ EventsOK(sliding.events)
                          /\ \A i \in DOMAIN sliding.events : sliding.events[i].t <= now
    BY <1>11 DEF RateIInv, SlidingInv
  <2>2. (sliding # None => /\ EventsOK(sliding.events)
                           /\ \A i \in DOMAIN sliding.events : sliding.events[i].t <= now)'
    BY <1>1, <1>9, <2>1 DEF EventsOK, Total, Sums
  <2> QED
    BY <1>1, <1>4, <1>6, <1>8, <1>9, <2>2
<1>12. BucketInv'
  <2>1. (bucket # None => bucket.tokens <= surplus)'
    BY <1>1, <1>3, <1>9
  <2> QED
    BY <1>1, <1>4, <1>6, <1>8, <1>9, <2>1
<1> QED
  BY <1>1, <1>2, <1>4, <1>7, <1>10, <1>11, <1>12 DEF RateIInv

\* The invariant holds at the start.
LEMMA RateInitInv ==
  RateInit => RateIInv
<1> SUFFICES ASSUME RateInit PROVE RateIInv
  OBVIOUS
<1>1. /\ now = 0 /\ params \in Params /\ fixed = None /\ sliding = None /\ bucket = None
      /\ last = None /\ denial = None /\ log = Quiet /\ surplus = 0 /\ wrapped = FALSE
  BY DEF RateInit
<1>2. RateTypeOK
  <2>1. Quiet \in [0..(MaxTime + 1) -> Nat] /\ 0 \in 0..MaxTime
    BY RateAssumption DEF Quiet
  <2> QED
    BY <1>1, <2>1 DEF RateTypeOK
<1>3. LogInv /\ NeverOverLimit /\ params.algo \in {"fixed", "sliding", "bucket"}
  BY <1>1, <1>2, QuietLimit, Numbers
<1>4. FixedInv /\ SlidingInv /\ BucketInv
  BY <1>1, <1>2, FreshInv
<1> QED
  BY <1>2, <1>3, <1>4 DEF RateIInv

\* Every step keeps the invariant.
LEMMA RateNextInv ==
  RateIInv /\ [RateNext]_rateVars => RateIInv'
<1> SUFFICES ASSUME RateIInv, [RateNext]_rateVars PROVE RateIInv'
  OBVIOUS
<1>1. CASE ~wrapped /\ \E cost \in Cost : ExecFixed(cost) \/ ExecSliding(cost) \/ ExecBucket(cost)
  BY <1>1, ExecFixedInv, ExecSlidingInv, ExecBucketInv
<1>2. CASE Tick
  BY <1>2, TickInv
<1>3. CASE \E p \in Params : ChangeParams(p)
  BY <1>3, ChangeParamsInv
<1>4. CASE UNCHANGED rateVars
  <2>1. /\ now' = now /\ params' = params /\ fixed' = fixed /\ sliding' = sliding
        /\ bucket' = bucket /\ last' = last /\ denial' = denial /\ log' = log
        /\ surplus' = surplus /\ wrapped' = wrapped
    BY <1>4 DEF rateVars, history
  <2>2. W' = W /\ Rate' = Rate /\ Budget' = Budget /\ Tokens' = Tokens
    BY <2>1 DEF W, Rate, Budget, Tokens
  <2>3. WindowStart' = WindowStart /\ FixedUsed' = FixedUsed
    BY <2>1, <2>2 DEF WindowStart, FixedUsed
  <2>4. RateTypeOK' = RateTypeOK /\ LogInv' = LogInv
    BY <2>1 DEF RateTypeOK, LogInv
  <2>5. NeverOverLimit => NeverOverLimit'
    BY <2>1, <2>2 DEF NeverOverLimit, WithinLimit, Admitted
  <2>6. FixedInv => FixedInv'
    BY <2>1, <2>2, <2>3 DEF FixedInv, WithinSomeLimit, Admitted
  <2>7. SlidingInv => SlidingInv'
    BY <2>1, <2>2 DEF SlidingInv, EventsOK, Covered, Total, Admitted
  <2>8. BucketInv => BucketInv'
    BY <2>1, <2>2 DEF BucketInv, Admitted
  <2>9. params.algo \in {"fixed", "sliding", "bucket"}
    BY Numbers DEF RateIInv
  <2> QED
    BY <2>1, <2>4, <2>5, <2>6, <2>7, <2>8, <2>9 DEF RateIInv
<1> QED
  BY <1>1, <1>2, <1>3, <1>4 DEF RateNext

\* The invariant holds always.
LEMMA RateInductive ==
  RateSpec => []RateIInv
<1> QED
  BY RateInitInv, RateNextInv, PTL DEF RateSpec

------------------------------------------------------------------------------

\* NeverOverLimit for every rule, cost, width of the integers and number of
\* ticks: none of the three algorithms of redis_inmemory.go admits more than its
\* rule allows, at no window boundary and after no change of the rule.
THEOREM RateNeverOverLimit ==
  RateSpec => []NeverOverLimit
<1>1. RateIInv => NeverOverLimit
  BY DEF RateIInv
<1> QED
  BY <1>1, RateInductive, PTL

\* A number that fits is not above the largest int64.
LEMMA FitsBound ==
  ASSUME NEW x \in Int, Fits(x)
  PROVE  x <= MaxInt
<1> DEFINE m == 2 * (MaxInt + 1)
           y == x + MaxInt + 1
<1>1. m \in Nat \ {0} /\ y \in Int /\ MaxInt \in Nat
  BY RateAssumption
<1>2. (y % m) - (MaxInt + 1) = x
  BY DEF Fits, Int64
<1> HIDE DEF y
<1>3. y % m < m /\ y % m \in Nat
  <2> HIDE DEF m
  <2> QED
    BY <1>1
<1> QED
  BY <1>1, <1>2, <1>3

\* RemainingIsExact for every instance: the remaining count each algorithm
\* reports is the largest cost it still admits at that moment.
THEOREM RateRemainingIsExact ==
  RateSpec => []RemainingIsExact
<1>1. RateIInv => RemainingIsExact
  <2> SUFFICES ASSUME RateIInv, last # None, ~wrapped, NEW cost \in Cost,
                      \A p \in Params : Fits(p.limit + cost)
               PROVE  Allows(cost) <=> cost <= last.remaining
    BY DEF RemainingIsExact
  <2>1. RateTypeOK /\ LogInv
    BY DEF RateIInv
  <2>2. /\ params.limit \in Nat \ {0} /\ MaxInt \in Nat /\ cost \in Nat \ {0}
        /\ params.algo \in {"fixed", "sliding", "bucket"} /\ Scale \in Nat \ {0}
    BY <2>1, Numbers, RateAssumption
  <2>3. ASSUME NEW x \in Int, x >= 0, \E p \in Params : x <= p.limit
        PROVE  /\ Int64(x + cost) = x + cost
               /\ x + cost <= params.limit <=> cost <= AtLeast0(params.limit - x)
    <3>1. PICK p \in Params : x <= p.limit
      BY <2>3
    <3>2. p.limit \in Nat
      BY RuleFacts
    <3>3. p.limit + cost <= MaxInt
      BY <2>2, <3>2, FitsBound
    <3>4. x + cost \in Int /\ -(MaxInt + 1) <= x + cost /\ x + cost <= MaxInt
      BY <2>2, <2>3, <3>1, <3>2, <3>3
    <3>5. Int64(x + cost) = x + cost
      BY <3>4, InRange
    <3>6. x + cost <= params.limit <=> cost <= AtLeast0(params.limit - x)
      BY <2>2, <2>3 DEF AtLeast0
    <3> QED
      BY <3>5, <3>6
  <2>4. CASE params.algo = "fixed"
    <3>1. FixedInv
      BY <2>4 DEF RateIInv
    <3>2. FixedUsed \in Int /\ FixedUsed >= 0 /\ \E p \in Params : FixedUsed <= p.limit
      BY <2>1, <3>1 DEF FixedInv, FixedUsed, RateTypeOK, WithinSomeLimit
    <3>3. last.remaining = AtLeast0(params.limit - FixedUsed)
      BY <3>1 DEF FixedInv
    <3> QED
      BY <2>3, <2>4, <3>2, <3>3 DEF Allows, FixedAllows
  <2>5. CASE params.algo = "sliding"
    <3>1. SlidingInv
      BY <2>5 DEF RateIInv
    <3>2. /\ sliding # None /\ sliding.window = W
          /\ \A i \in DOMAIN sliding.events : sliding.events[i].t >= now - W
          /\ last.remaining = AtLeast0(params.limit - Total(sliding.events))
      BY <3>1 DEF SlidingInv
    <3>3. /\ SlidingEvents \in Seq(Event) /\ EventsOK(SlidingEvents)
          /\ SlidingEvents = sliding.events
      BY <2>1, <3>1, <3>2, SlidingNow
    <3> DEFINE x == Total(SlidingEvents)
    <3>4. x \in 0..MaxInt /\ \E p \in Params : x <= p.limit
      BY <3>3, TotalFacts
    <3>5. Allows(cost) <=> Int64(x + cost) <= params.limit
      BY <2>5 DEF Allows, SlidingAllows
    <3>6. last.remaining = AtLeast0(params.limit - x)
      BY <3>2, <3>3
    <3> HIDE DEF x
    <3>7. x \in Int /\ x >= 0
      BY <2>2, <3>4
    <3> QED
      BY <2>3, <3>4, <3>5, <3>6, <3>7
  <2>6. CASE params.algo = "bucket"
    <3> DEFINE t == Tokens
               q == t \div Scale
    <3>1. last.remaining = q
      BY <2>6 DEF RateIInv, BucketInv
    <3>2. t \in Nat
      BY <2>1, BucketFacts
    <3>3. Allows(cost) <=> cost * Scale <= t
      BY <2>6 DEF Allows, BucketAllows
    <3> HIDE DEF t
    <3>4. q \in Nat /\ q * Scale <= t /\ t < q * Scale + Scale
      BY <2>2, <3>2, Aligned
    <3> HIDE DEF q
    <3>5. CASE cost <= q
      <4>1. cost * Scale <= q * Scale /\ cost * Scale \in Int /\ q * Scale \in Int
        BY <2>2, <3>4, <3>5, TimesMonotone
      <4> QED
        BY <3>1, <3>2, <3>3, <3>4, <3>5, <4>1
    <3>6. CASE q + 1 <= cost
      <4>1. (q + 1) * Scale <= cost * Scale
        BY <2>2, <3>4, <3>6, TimesMonotone
      <4>2. (q + 1) * Scale = q * Scale + Scale /\ q * Scale \in Int /\ cost * Scale \in Int
        BY <2>2, <3>4
      <4>3. ~(cost * Scale <= t) /\ ~(cost <= q)
        BY <2>2, <3>2, <3>4, <3>6, <4>1, <4>2
      <4> QED
        BY <3>1, <3>3, <4>3
    <3> QED
      BY <2>2, <3>4, <3>5, <3>6
  <2> QED
    BY <2>2, <2>4, <2>5, <2>6
<1> QED
  BY <1>1, RateInductive, PTL

\* NoEarlyAdmission for every instance: no algorithm admits the cost it denied
\* before the time it told the caller to wait has passed.
THEOREM RateNoEarlyAdmission ==
  RateSpec => NoEarlyAdmission
<1> DEFINE Early == (log' # log /\ params' = params /\ denial # None /\ ~wrapped' /\
                     log'[now + 1] - log[now + 1] >= denial.cost) => now >= denial.until
<1>1. RateIInv /\ [RateNext]_rateVars => [Early]_rateVars
  <2> SUFFICES ASSUME RateIInv, RateNext, log' # log, params' = params, denial # None, ~wrapped',
                      log'[now + 1] - log[now + 1] >= denial.cost
               PROVE  now >= denial.until
    OBVIOUS
  <2>1. RateTypeOK /\ LogInv
    BY DEF RateIInv
  <2>2. /\ denial.cost \in Nat /\ denial.until \in Int /\ now \in Nat /\ params.limit \in Nat
        /\ log[now + 1] \in Nat /\ Scale \in Nat
    <3>1. log \in [0..(MaxTime + 1) -> Nat] /\ now + 1 \in 0..(MaxTime + 1)
      BY <2>1, Numbers DEF RateTypeOK
    <3> QED
      BY <2>1, <3>1, DenialTyped, Numbers
  <2>3. PICK cost \in Cost : ~wrapped /\ (ExecFixed(cost) \/ ExecSliding(cost) \/ ExecBucket(cost))
    <3>1. ~Tick
      BY DEF Tick, history
    <3>2. ~\E p \in Params : ChangeParams(p)
      BY DEF ChangeParams
    <3> QED
      BY <3>1, <3>2 DEF RateNext
  <2>4. cost \in Nat
    BY RateAssumption
  <2>5. ASSUME NEW allowed \in BOOLEAN, NEW remaining, NEW retryAfter,
               Decide(cost, allowed, remaining, retryAfter), now' = now
        PROVE  allowed /\ cost >= denial.cost
    <3>1. allowed
      BY <2>5 DEF Decide
    <3>2. log'[now + 1] = log[now + 1] + cost
      BY <2>1, <2>5, <3>1, Logged
    <3> QED
      BY <2>2, <2>4, <3>1, <3>2
  <2> SUFFICES ASSUME now < denial.until PROVE FALSE
    BY <2>2
  <2>6. CASE ExecFixed(cost)
    <3>1. FixedInv
      BY <2>3, <2>6 DEF RateIInv, ExecFixed
    <3>2. FixedUsed + denial.cost > params.limit
      BY <3>1 DEF FixedInv
    <3>3. FixedUsed \in Int
      BY <2>1 DEF FixedUsed, RateTypeOK
    <3>4. FixedAllows(cost) \in BOOLEAN
      BY DEF FixedAllows
    <3>5. FixedAllows(cost) /\ cost >= denial.cost
      BY <2>5, <2>6, <3>4 DEF ExecFixed
    <3>6. Int64(FixedUsed + cost) = FixedUsed + cost
      BY <2>6 DEF ExecFixed, Fits
    <3>7. FixedUsed + cost <= params.limit
      BY <3>5, <3>6 DEF FixedAllows
    <3> QED
      BY <2>2, <2>4, <3>2, <3>3, <3>5, <3>7
  <2>7. CASE ExecSliding(cost)
    <3>1. SlidingInv
      BY <2>3, <2>7 DEF RateIInv, ExecSliding
    <3> DEFINE E == SlidingEvents
    <3>2. E \in Seq(Event) /\ EventsOK(E) /\ Total(E) + denial.cost > params.limit
      <4>1. /\ sliding # None /\ sliding.window = W
            /\ \A i \in DOMAIN sliding.events : sliding.events[i].t + W >= denial.until
            /\ Total(sliding.events) + denial.cost > params.limit
        BY <3>1 DEF SlidingInv
      <4>2. \A i \in DOMAIN sliding.events : sliding.events[i].t >= now - W
        <5>1. sliding \in [window : Nat, events : Seq(Event)] /\ W \in Nat
          BY <2>1, <4>1, Numbers DEF RateTypeOK
        <5>2. \A i \in DOMAIN sliding.events : sliding.events[i].t \in Nat
          BY <5>1, EventFacts
        <5> QED
          BY <2>2, <4>1, <5>1, <5>2
      <4> QED
        BY <2>1, <3>1, <4>1, <4>2, SlidingNow
    <3>3. SlidingAllows(cost) \in BOOLEAN
      BY DEF SlidingAllows
    <3>4. SlidingAllows(cost) /\ cost >= denial.cost
      BY <2>5, <2>7, <3>3 DEF ExecSliding
    <3>5. Int64(Total(E) + cost) = Total(E) + cost
      BY <2>7 DEF ExecSliding, Fits
    <3>6. Total(E) + cost <= params.limit
      BY <3>4, <3>5 DEF SlidingAllows
    <3> HIDE DEF E
    <3>7. Total(E) \in Int
      <4>1. Total(E) \in 0..MaxInt
        BY <3>2, TotalFacts
      <4> QED
        BY <4>1
    <3> QED
      BY <2>2, <2>4, <3>2, <3>4, <3>6, <3>7
  <2>8. CASE ExecBucket(cost)
    <3>1. BucketInv
      BY <2>3, <2>8 DEF RateIInv, ExecBucket
    <3>2. BucketAllows(cost) \in BOOLEAN
      BY DEF BucketAllows
    <3>3. BucketAllows(cost) /\ cost >= denial.cost
      BY <2>5, <2>8, <3>2 DEF ExecBucket
    <3> DEFINE t == Tokens
               d == denial.until - now
               r == Rate
    <3>4. t + d * r <= denial.cost * Scale /\ cost * Scale <= t
      BY <3>1, <3>3 DEF BucketInv, BucketAllows
    <3>5. t \in Nat /\ d \in Nat \ {0} /\ r \in Nat \ {0}
      BY <2>1, <2>2, BucketFacts, Numbers
    <3> HIDE DEF t, d, r
    <3>6. d * r \in Nat \ {0}
      BY <3>5
    <3>7. denial.cost * Scale <= cost * Scale
      BY <2>2, <2>4, <3>3, TimesMonotone
    <3>8. denial.cost * Scale \in Int /\ cost * Scale \in Int
      BY <2>2, <2>4
    <3> QED
      BY <3>4, <3>5, <3>6, <3>7, <3>8
  <2> QED
    BY <2>3, <2>6, <2>7, <2>8
<1>2. RateSpec => [][Early]_rateVars
  BY <1>1, RateInductive, PTL DEF RateSpec
<1> QED
  BY <1>2 DEF NoEarlyAdmission

==============================================================================
