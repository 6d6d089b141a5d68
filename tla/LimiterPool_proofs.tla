-------------------------- MODULE LimiterPool_proofs --------------------------
(***************************************************************************)
(* Safety of the limiter pool for every number of keys, requests, entries  *)
(* and every shard size: the invariant IInv is inductive, and it implies   *)
(* the invariants that the model-checking runs look at.  Under IInv each   *)
(* step of the pool is a step of the lease or a stutter, so the pool       *)
(* implements the safety part of the lease.                                *)
(***************************************************************************)
EXTENDS LimiterPoolRefinement, FiniteSetTheorems, TLAPS

------------------------------------------------------------------------------
(* What the LRU operators return, for every list without repetitions. *)

Injective(s) == \A i, j \in 1 .. Len(s) : s[i] = s[j] => i = j

\* Membership in a list, by position.
LEMMA InToSet ==
  ASSUME NEW S, NEW s \in Seq(S), NEW x
  PROVE  x \in ToSet(s) <=> \E i \in 1 .. Len(s) : x = s[i]
PROOF
  BY DEF ToSet

\* Removing a key of a list without repetitions takes out exactly its position.
LEMMA RemoveFirstAt ==
  ASSUME NEW S, NEW s \in Seq(S), Injective(s), NEW p \in 1 .. Len(s)
  PROVE  /\ RemoveFirst(s, s[p]) \in Seq(S)
         /\ Len(RemoveFirst(s, s[p])) = Len(s) - 1
         /\ \A i \in 1 .. Len(s) - 1 :
              RemoveFirst(s, s[p])[i] = IF i < p THEN s[i] ELSE s[i + 1]
PROOF
  <1> DEFINE I == {i \in 1 .. Len(s) : s[i] = s[p]}
  <1>1. I = {p}
    BY DEF Injective
  <1>2. Min(I) = p
    BY <1>1 DEF Min
  <1>3. RemoveFirst(s, s[p]) = RemoveAt(s, p)
    BY <1>1, <1>2 DEF RemoveFirst, SelectInSeq
  <1>4. RemoveAt(s, p) = SubSeq(s, 1, p - 1) \o SubSeq(s, p + 1, Len(s))
    BY DEF RemoveAt
  <1>5. /\ SubSeq(s, 1, p - 1) \in Seq(S)
        /\ Len(SubSeq(s, 1, p - 1)) = p - 1
        /\ \A i \in 1 .. p - 1 : SubSeq(s, 1, p - 1)[i] = s[i]
    OBVIOUS
  <1>6. /\ SubSeq(s, p + 1, Len(s)) \in Seq(S)
        /\ Len(SubSeq(s, p + 1, Len(s))) = Len(s) - p
        /\ \A i \in 1 .. Len(s) - p : SubSeq(s, p + 1, Len(s))[i] = s[i + p]
    OBVIOUS
  <1>7. PICK a, b : a = SubSeq(s, 1, p - 1) /\ b = SubSeq(s, p + 1, Len(s))
    OBVIOUS
  <1>8. a \in Seq(S) /\ b \in Seq(S) /\ Len(a) = p - 1 /\ Len(b) = Len(s) - p
    BY <1>5, <1>6, <1>7
  <1>9. /\ a \o b \in Seq(S)
        /\ Len(a \o b) = Len(s) - 1
        /\ \A i \in 1 .. Len(s) - 1 :
              (a \o b)[i] = IF i <= Len(a) THEN a[i] ELSE b[i - Len(a)]
    BY <1>8
  <1>10. ASSUME NEW i \in 1 .. Len(s) - 1
         PROVE  (a \o b)[i] = IF i < p THEN s[i] ELSE s[i + 1]
    <2>1. CASE i < p
      <3>1. i \in 1 .. p - 1 /\ a[i] = s[i]
        BY <2>1, <1>5, <1>7
      <3>2. (a \o b)[i] = a[i]
        BY <2>1, <1>8, <1>9
      <3> QED BY <2>1, <3>1, <3>2
    <2>2. CASE ~(i < p)
      <3>1. i - (p - 1) \in 1 .. Len(s) - p
        BY <2>2
      <3>2. b[i - (p - 1)] = s[(i - (p - 1)) + p]
        BY <3>1, <1>6, <1>7
      <3> QED BY <2>2, <3>2, <1>8, <1>9
    <2> QED BY <2>1, <2>2
  <1> QED
    BY <1>3, <1>4, <1>7, <1>9, <1>10

\* LruRemove drops the key and nothing else.
LEMMA LruRemoveProps ==
  ASSUME NEW S, NEW s \in Seq(S), Injective(s), NEW k \in S
  PROVE  /\ LruRemove(s, k) \in Seq(S)
         /\ Injective(LruRemove(s, k))
         /\ ToSet(LruRemove(s, k)) = ToSet(s) \ {k}
         /\ Len(LruRemove(s, k)) <= Len(s)
         /\ k \in ToSet(s) => Len(LruRemove(s, k)) = Len(s) - 1
PROOF
  <1>1. CASE k \notin ToSet(s)
    <2>1. RemoveFirst(s, k) = s
      BY <1>1 DEF RemoveFirst, ToSet
    <2> QED
      BY <1>1, <2>1 DEF LruRemove
  <1>2. CASE k \in ToSet(s)
    <2>1. PICK p \in 1 .. Len(s) : k = s[p]
      BY <1>2 DEF ToSet
    <2>0. PICK t : t = RemoveFirst(s, k)
      OBVIOUS
    <2>2. /\ t \in Seq(S)
          /\ Len(t) = Len(s) - 1
          /\ \A i \in 1 .. Len(s) - 1 : t[i] = IF i < p THEN s[i] ELSE s[i + 1]
      BY <2>0, <2>1, RemoveFirstAt
    <2>3. Injective(t)
      BY <2>2 DEF Injective
    <2>4. ASSUME NEW x \in ToSet(t) PROVE x \in ToSet(s) \ {k}
      <3>1. PICK i \in 1 .. Len(s) - 1 : x = t[i]
        BY <2>2 DEF ToSet
      <3>2. PICK j \in 1 .. Len(s) : x = s[j] /\ j # p
        <4>1. CASE i < p
          BY <3>1, <4>1, <2>2
        <4>2. CASE i >= p
          <5>1. i + 1 \in 1 .. Len(s) /\ i + 1 # p
            BY <4>2
          <5>2. x = s[i + 1]
            BY <3>1, <4>2, <2>2
          <5> QED BY <5>1, <5>2
        <4> QED BY <4>1, <4>2
      <3>3. x # k
        BY <3>2, <2>1 DEF Injective
      <3>4. x \in ToSet(s)
        BY <3>2, InToSet
      <3> QED BY <3>3, <3>4
    <2>5. ASSUME NEW x \in ToSet(s) \ {k} PROVE x \in ToSet(t)
      <3>1. PICK i \in 1 .. Len(s) : x = s[i] /\ i # p
        BY <2>1 DEF ToSet
      <3>2. CASE i < p
        BY <3>1, <3>2, <2>2 DEF ToSet
      <3>3. CASE i > p
        <4>1. i - 1 \in 1 .. Len(s) - 1 /\ t[i - 1] = s[i]
          BY <3>3, <2>2
        <4> QED BY <4>1, <3>1, <2>2 DEF ToSet
      <3> QED BY <3>1, <3>2, <3>3
    <2> QED
      BY <2>0, <2>1, <2>2, <2>3, <2>4, <2>5 DEF LruRemove
  <1> QED BY <1>1, <1>2

\* LruAdd puts the key in front and keeps every other key once.
LEMMA LruAddProps ==
  ASSUME NEW S, NEW s \in Seq(S), Injective(s), NEW k \in S
  PROVE  /\ LruAdd(s, k) \in Seq(S)
         /\ Injective(LruAdd(s, k))
         /\ ToSet(LruAdd(s, k)) = ToSet(s) \union {k}
         /\ Len(LruAdd(s, k)) >= 1 /\ LruAdd(s, k)[1] = k
         /\ Len(LruAdd(s, k)) <= Len(s) + 1
         /\ k \in ToSet(s) => Len(LruAdd(s, k)) = Len(s)
PROOF
  <1>0. PICK t, u : t = RemoveFirst(s, k) /\ u = <<k>> \o t
    OBVIOUS
  <1>1. /\ t \in Seq(S)
        /\ Injective(t)
        /\ ToSet(t) = ToSet(s) \ {k}
        /\ Len(t) <= Len(s)
        /\ k \in ToSet(s) => Len(t) = Len(s) - 1
    BY <1>0, LruRemoveProps DEF LruRemove
  <1>2. /\ u \in Seq(S)
        /\ Len(u) = Len(t) + 1
        /\ u[1] = k
        /\ \A i \in 2 .. Len(u) : u[i] = t[i - 1]
    BY <1>0, <1>1
  <1>3. u = LruAdd(s, k)
    BY <1>0 DEF LruAdd
  <1>4. ASSUME NEW i \in 1 .. Len(t) PROVE t[i] # k
    <2>1. t[i] \in ToSet(t)
      BY <1>1, InToSet
    <2> QED BY <2>1, <1>1
  <1>5. ASSUME NEW i \in 1 .. Len(u), NEW j \in 1 .. Len(u), u[i] = u[j]
        PROVE  i = j
    <2>1. CASE i = 1 /\ j = 1
      BY <2>1
    <2>2. CASE i = 1 /\ j # 1
      BY <2>2, <1>1, <1>2, <1>4, <1>5
    <2>3. CASE i # 1 /\ j = 1
      BY <2>3, <1>1, <1>2, <1>4, <1>5
    <2>4. CASE i # 1 /\ j # 1
      <3>1. /\ i - 1 \in 1 .. Len(t) /\ u[i] = t[i - 1]
            /\ j - 1 \in 1 .. Len(t) /\ u[j] = t[j - 1]
        BY <2>4, <1>1, <1>2
      <3>2. i - 1 = j - 1
        BY <3>1, <1>1, <1>5 DEF Injective
      <3> QED BY <3>2
    <2> QED BY <2>1, <2>2, <2>3, <2>4
  <1>6. ToSet(u) = ToSet(t) \union {k}
    <2>1. ASSUME NEW x \in ToSet(u), x # k PROVE x \in ToSet(t)
      <3>1. PICK i \in 1 .. Len(u) : x = u[i]
        BY <1>2, InToSet
      <3>2. i - 1 \in 1 .. Len(t) /\ x = t[i - 1]
        BY <3>1, <2>1, <1>1, <1>2
      <3> QED BY <3>2, <1>1, InToSet
    <2>2. ASSUME NEW x \in ToSet(t) PROVE x \in ToSet(u)
      <3>1. PICK i \in 1 .. Len(t) : x = t[i]
        BY <1>1, InToSet
      <3>2. i + 1 \in 1 .. Len(u) /\ x = u[i + 1]
        BY <3>1, <1>1, <1>2
      <3> QED BY <3>2, <1>2, InToSet
    <2>3. 1 \in 1 .. Len(u) /\ k = u[1]
      BY <1>1, <1>2
    <2>4. k \in ToSet(u)
      BY <2>3, <1>2, InToSet
    <2> QED BY <2>1, <2>2, <2>4
  <1>7. Injective(u)
    BY <1>5 DEF Injective
  <1> QED
    BY <1>1, <1>2, <1>3, <1>6, <1>7

\* EvictIfNeeded splits the list: the front part stays, the rest is returned.
LEMMA LruEvictProps ==
  ASSUME NEW S, NEW s \in Seq(S), Injective(s), NEW max \in Nat
  PROVE  /\ LruKept(s, max) \in Seq(S)
         /\ Injective(LruKept(s, max))
         /\ Len(LruKept(s, max)) <= max
         /\ ToSet(LruKept(s, max)) = ToSet(s) \ LruEvicted(s, max)
         /\ LruEvicted(s, max) \subseteq ToSet(s)
         /\ Len(s) <= max => LruEvicted(s, max) = {}
         /\ max >= 1 /\ Len(s) >= 1 => s[1] \notin LruEvicted(s, max)
         /\ Len(s) <= max + 1 =>
              \A x, y \in LruEvicted(s, max) : x = y
PROOF
  <1>1. CASE Len(s) <= max
    BY <1>1 DEF LruKept, LruEvicted
  <1>2. CASE Len(s) > max
    <2>0. PICK t : t = SubSeq(s, 1, max)
      OBVIOUS
    <2>1. /\ t \in Seq(S)
          /\ Len(t) = max
          /\ \A i \in 1 .. max : t[i] = s[i]
      BY <1>2, <2>0
    <2>2. t = LruKept(s, max)
      BY <1>2, <2>0 DEF LruKept
    <2>3. LruEvicted(s, max) = {s[i] : i \in max + 1 .. Len(s)}
      BY <1>2 DEF LruEvicted
    <2>4. Injective(t)
      BY <1>2, <2>1 DEF Injective
    <2>5. ASSUME NEW x \in ToSet(t) PROVE x \in ToSet(s) \ LruEvicted(s, max)
      <3>1. PICK i \in 1 .. max : x = s[i]
        BY <2>1 DEF ToSet
      <3> QED BY <3>1, <2>3, <1>2 DEF Injective, ToSet
    <2>6. ASSUME NEW x \in ToSet(s) \ LruEvicted(s, max) PROVE x \in ToSet(t)
      <3>1. PICK i \in 1 .. Len(s) : x = s[i]
        BY DEF ToSet
      <3>2. i \in 1 .. max
        BY <3>1, <2>3
      <3> QED BY <3>1, <3>2, <2>1 DEF ToSet
    <2>7. LruEvicted(s, max) \subseteq ToSet(s)
      BY <2>3, <1>2 DEF ToSet
    <2>8. max >= 1 /\ Len(s) >= 1 => s[1] \notin LruEvicted(s, max)
      BY <2>3, <1>2 DEF Injective
    <2>9. Len(s) <= max + 1 => \A x, y \in LruEvicted(s, max) : x = y
      BY <2>3, <1>2
    <2> QED
      BY <1>2, <2>1, <2>2, <2>4, <2>5, <2>6, <2>7, <2>8, <2>9
  <1> QED BY <1>1, <1>2

------------------------------------------------------------------------------
(* The pool *)

\* The holders of an entry can be counted.
LEMMA HoldersFinite ==
  ASSUME NEW e
  PROVE  IsFiniteSet(Holders(e)) /\ Cardinality(Holders(e)) \in Nat
PROOF
  <1>1. Holders(e) \subseteq Req
    BY DEF Holders
  <1> QED
    BY <1>1, PoolAssumption, FS_Subset, FS_CardinalityType

\* An entry nobody holds has count zero, and conversely.
LEMMA HoldersEmpty ==
  ASSUME NEW e
  PROVE  Cardinality(Holders(e)) = 0 <=> Holders(e) = {}
PROOF
  BY HoldersFinite, FS_EmptySet

\* A request that starts, or stops, to hold an entry moves its count by one.
LEMMA HoldersStep ==
  ASSUME NEW e, NEW r \in Req
  PROVE  /\ r \notin Holders(e) =>
              Cardinality(Holders(e) \union {r}) = Cardinality(Holders(e)) + 1
         /\ r \in Holders(e) =>
              Cardinality(Holders(e) \ {r}) = Cardinality(Holders(e)) - 1
PROOF
  BY HoldersFinite, FS_AddElement, FS_RemoveElement

\* An empty pool satisfies the invariant.
LEMMA InitInv == Init => IInv
PROOF
  <1> SUFFICES ASSUME Init PROVE IInv
    OBVIOUS
  <1> USE PoolAssumption
  <1>1. TypeOK
    BY DEF Init, TypeOK, States, CloserPCs, ReqPCs
  <1>2. RefsCountHandles
    <2>1. \A e \in Entry : Holders(e) = {}
      BY DEF Init, Holders
    <2> QED BY <2>1, FS_EmptySet DEF RefsCountHandles, Init
  <1>3. MapMirrorsLRU
    BY DEF Init, MapMirrorsLRU, ToSet
  <1>4. MappedAreActive /\ LifeInv /\ ReqInv /\ VictimInv /\ DrainInv
    BY DEF Init, MappedAreActive, LifeInv, ReqInv, VictimInv, DrainInv, Draining
  <1> QED BY <1>1, <1>2, <1>3, <1>4 DEF IInv

------------------------------------------------------------------------------
(* Steps of the goroutine that drains and closes an entry. *)

\* The closer of an entry touches only that entry, and closes it only at zero
\* references or after its timeout.
LEMMA CloserStepInv ==
  ASSUME IInv, NEW e \in Entry, CloserStep(e)
  PROVE  IInv'
PROOF
  <1> USE DEF IInv
  <1>1. UNCHANGED <<m, lru, victim, refs, pc, ent>>
    BY DEF CloserStep, QuiesceEnds, WaitLock, DeadlinePasses, TimerFires,
           CheckRefs, CheckDeadline, Wake, WaitUnlock, CloseLimiter,
           shardVars, entryVars, reqVars
  <1>2. TypeOK'
    BY DEF TypeOK, States, CloserPCs, CloserStep, QuiesceEnds, WaitLock,
           DeadlinePasses, TimerFires, CheckRefs, CheckDeadline, Wake,
           WaitUnlock, CloseLimiter, Broadcast, shardVars, entryVars, reqVars
  <1>3. RefsCountHandles'
    <2>1. \A x \in Entry : Holders(x)' = Holders(x)
      BY <1>1 DEF Holders
    <2> QED BY <1>1, <2>1 DEF RefsCountHandles
  <1>4. MapMirrorsLRU'
    BY <1>1 DEF MapMirrorsLRU
  <1>5. /\ \A x \in Entry : x # e =>
             state'[x] = state[x] /\ closer'[x] = closer[x] /\ expired'[x] = expired[x]
        /\ state'[e] = state[e] \/ (closer[e] = "close" /\ state'[e] = "closed")
        /\ expired[e] => expired'[e]
    BY DEF TypeOK, CloserStep, QuiesceEnds, WaitLock, DeadlinePasses, TimerFires,
           CheckRefs, CheckDeadline, Wake, WaitUnlock, CloseLimiter,
           Broadcast, entryVars
  <1>6. closer[e] = "close" => state[e] = "quiescing"
    BY DEF LifeInv, ReqInv, VictimInv, Draining
  <1>7. MappedAreActive'
    BY <1>1, <1>5, <1>6 DEF MappedAreActive, TypeOK
  <1>8. /\ state'[e] \in {"free", "active"} <=> closer'[e] = "none"
        /\ state'[e] = "quiescing" <=> closer'[e] \in Draining
        /\ state'[e] = "closed" <=> closer'[e] = "done"
        /\ state'[e] = "active" => state[e] = "active"
        /\ state'[e] = "free" => state[e] = "free"
    BY DEF LifeInv, ReqInv, VictimInv, Draining, TypeOK, States, CloserPCs, CloserStep,
           QuiesceEnds, WaitLock, DeadlinePasses, TimerFires, CheckRefs,
           CheckDeadline, Wake, WaitUnlock, CloseLimiter, Broadcast, entryVars
  <1>9. LifeInv' /\ ReqInv' /\ VictimInv'
    <2>1. LifeInv'
      BY <1>1, <1>5, <1>8 DEF LifeInv
    <2>2. ReqInv'
      BY <1>1, <1>5, <1>8 DEF ReqInv, TypeOK
    <2>3. VictimInv'
      BY <1>1, <1>5, <1>6 DEF VictimInv, TypeOK
    <2> QED BY <2>1, <2>2, <2>3
  <1>10. /\ closer'[e] \in {"exit", "close", "done"} => refs[e] = 0 \/ expired'[e]
         /\ closer'[e] \in {"deadline", "waiting"} =>
              closer[e] \in {"deadline", "waiting"} \/ refs[e] > 0
    BY DEF DrainInv, TypeOK, CloserStep, QuiesceEnds, WaitLock, DeadlinePasses,
           TimerFires, CheckRefs, CheckDeadline, Wake, WaitUnlock, CloseLimiter,
           Broadcast, entryVars
  <1>11. DrainInv'
    BY <1>1, <1>5, <1>10 DEF DrainInv, TypeOK
  <1> QED
    BY <1>2, <1>3, <1>4, <1>7, <1>9, <1>11

\* Cutover unmaps and marks an entry in one critical section.
LEMMA CutoverInv ==
  ASSUME IInv, NEW k \in Key, Cutover(k)
  PROVE  IInv'
PROOF
  <1> USE PoolAssumption DEF IInv, Cutover, ShardFree, reqVars
  <1>1. m[k] \in Entry /\ state[m[k]] = "active" /\ closer[m[k]] = "none"
    BY DEF TypeOK, MappedAreActive, LifeInv, ReqInv, VictimInv
  <1>2. Injective(lru)
    BY DEF MapMirrorsLRU, Injective
  <1>3. /\ lru' \in Seq(Key)
        /\ Injective(lru')
        /\ ToSet(lru') = ToSet(lru) \ {k}
        /\ Len(lru') <= Len(lru)
    BY <1>2, LruRemoveProps DEF TypeOK
  <1>4. TypeOK'
    BY <1>1, <1>3 DEF TypeOK, States, CloserPCs
  <1>5. RefsCountHandles'
    <2>1. \A x \in Entry : Holders(x)' = Holders(x)
      BY DEF Holders
    <2> QED BY <2>1 DEF RefsCountHandles
  <1>6. MapMirrorsLRU'
    <2>1. \A q \in Key : m'[q] # NoEntry <=> q \in ToSet(lru')
      BY <1>3 DEF MapMirrorsLRU, TypeOK
    <2>2. Len(lru') <= MaxEntries
      BY <1>3 DEF MapMirrorsLRU, TypeOK
    <2> QED BY <1>3, <2>1, <2>2 DEF MapMirrorsLRU, Injective
  <1>7. MappedAreActive'
    BY <1>1 DEF MappedAreActive, TypeOK
  <1>8. LifeInv' /\ ReqInv' /\ VictimInv'
    <2>1. LifeInv'
      BY <1>1 DEF LifeInv, TypeOK, Draining
    <2>2. ReqInv' /\ VictimInv'
      BY <1>1 DEF ReqInv, VictimInv, TypeOK
    <2> QED BY <2>1, <2>2
  <1>9. DrainInv'
    BY <1>1 DEF DrainInv, TypeOK
  <1> QED
    BY <1>4, <1>5, <1>6, <1>7, <1>8, <1>9

------------------------------------------------------------------------------
(* Steps of a request. *)

\* A hit adds one reference and one holder to a mapped entry.
LEMMA AcquireHitInv ==
  ASSUME IInv, NEW r \in Req, NEW k \in Key, AcquireHit(r, k)
  PROVE  IInv'
PROOF
  <1> USE PoolAssumption DEF IInv
  <1>0. /\ pc[r] = "idle" /\ victim = NoEntry
        /\ m[k] # NoEntry /\ state[m[k]] = "active"
        /\ refs' = [refs EXCEPT ![m[k]] = @ + 1]
        /\ lru' = LruAdd(lru, k)
        /\ pc' = [pc EXCEPT ![r] = "using"]
        /\ ent' = [ent EXCEPT ![r] = m[k]]
        /\ UNCHANGED <<m, state, closer, expired, timer, victim>>
    BY DEF AcquireHit, ShardFree
  <1>1. m[k] \in Entry /\ closer[m[k]] = "none" /\ ent[r] = NoEntry
    BY <1>0 DEF TypeOK, LifeInv, ReqInv, VictimInv
  <1>2. Injective(lru) /\ k \in ToSet(lru)
    BY <1>0 DEF MapMirrorsLRU, Injective
  <1>3. /\ lru' \in Seq(Key)
        /\ Injective(lru')
        /\ ToSet(lru') = ToSet(lru)
        /\ Len(lru') = Len(lru)
    <2>1. lru \in Seq(Key)
      BY <1>0 DEF TypeOK
    <2>2. /\ LruAdd(lru, k) \in Seq(Key)
          /\ Injective(LruAdd(lru, k))
          /\ ToSet(LruAdd(lru, k)) = ToSet(lru) \union {k}
          /\ k \in ToSet(lru) => Len(LruAdd(lru, k)) = Len(lru)
      BY <1>2, <2>1, LruAddProps
    <2> QED BY <1>0, <1>2, <2>2
  <1>4. TypeOK'
    BY <1>0, <1>1, <1>3 DEF TypeOK, ReqPCs
  <1>5. RefsCountHandles'
    <2>1. Holders(m[k])' = Holders(m[k]) \union {r} /\ r \notin Holders(m[k])
      BY <1>0, <1>1 DEF Holders, TypeOK
    <2>2. \A x \in Entry : x # m[k] => Holders(x)' = Holders(x)
      BY <1>0, <1>1 DEF Holders, TypeOK
    <2>3. Cardinality(Holders(m[k])') = Cardinality(Holders(m[k])) + 1
      BY <2>1, HoldersStep
    <2> QED BY <1>0, <1>1, <2>2, <2>3 DEF RefsCountHandles, TypeOK
  <1>6. MapMirrorsLRU'
    BY <1>0, <1>3 DEF MapMirrorsLRU, Injective
  <1>7. MappedAreActive'
    BY <1>0 DEF MappedAreActive
  <1>8. LifeInv' /\ ReqInv' /\ VictimInv'
    BY <1>0, <1>1 DEF LifeInv, ReqInv, VictimInv, TypeOK
  <1>9. DrainInv'
    <2>1. \A x \in Entry : closer[x] # "none" => refs'[x] = refs[x]
      BY <1>0, <1>1 DEF TypeOK
    <2>2. \A q \in Req : pc[q] \in {"load", "cast"} =>
            pc'[q] = pc[q] /\ ent'[q] = ent[q]
      BY <1>0 DEF TypeOK
    <2> QED BY <1>0, <2>1, <2>2 DEF DrainInv, TypeOK
  <1> QED
    BY <1>4, <1>5, <1>6, <1>7, <1>8, <1>9

\* A miss installs a fresh entry, and unmaps the victim of the LRU order when
\* the shard overflows.
LEMMA AcquireMissInv ==
  ASSUME IInv, NEW r \in Req, NEW k \in Key, NEW e \in Entry, AcquireMiss(r, k, e)
  PROVE  IInv'
PROOF
  <1> USE PoolAssumption DEF IInv
  <1> DEFINE list == LruAdd(lru, k)
             out == LruEvicted(list, MaxEntries)
  <1>1. /\ pc[r] = "idle" /\ victim = NoEntry /\ Fresh(e)
        /\ m[k] # NoEntry => state[m[k]] # "active"
        /\ lru' = LruKept(list, MaxEntries)
        /\ m' = [q \in Key |-> CASE q \in out -> NoEntry
                                 [] q = k /\ q \notin out -> e
                                 [] OTHER -> m[q]]
        /\ \/ out = {} /\ victim' = NoEntry /\ pc' = [pc EXCEPT ![r] = "using"]
           \/ \E q \in out : victim' = m[q] /\ pc' = [pc EXCEPT ![r] = "evict"]
        /\ state' = [state EXCEPT ![e] = "active"]
        /\ refs' = [refs EXCEPT ![e] = 1]
        /\ closer' = [closer EXCEPT ![e] = "none"]
        /\ expired' = [expired EXCEPT ![e] = FALSE]
        /\ timer' = [timer EXCEPT ![e] = FALSE]
        /\ ent' = [ent EXCEPT ![r] = e]
    BY DEF AcquireMiss, ShardFree
  <1>2. m[k] = NoEntry
    BY <1>1 DEF MappedAreActive
  <1>3. Injective(lru)
    BY DEF MapMirrorsLRU, Injective
  <1>4. /\ list \in Seq(Key)
        /\ Injective(list)
        /\ ToSet(list) = ToSet(lru) \union {k}
        /\ Len(list) >= 1 /\ list[1] = k
        /\ Len(list) <= Len(lru) + 1
    BY <1>3, LruAddProps DEF TypeOK
  <1>5. Len(list) \in Nat /\ Len(list) <= MaxEntries + 1
    BY <1>4 DEF MapMirrorsLRU, TypeOK
  <1> HIDE DEF list
  <1>6. /\ lru' \in Seq(Key)
        /\ Injective(lru')
        /\ Len(lru') <= MaxEntries
        /\ ToSet(lru') = ToSet(list) \ out
        /\ out \subseteq ToSet(list)
        /\ k \notin out
        /\ \A x, y \in out : x = y
    BY <1>1, <1>4, <1>5, LruEvictProps
  <1> HIDE DEF out
  <1>7. out \subseteq Key /\ \A q \in out : m[q] # NoEntry /\ q # k
    <2>1. ToSet(lru) \subseteq Key
      BY InToSet DEF TypeOK
    <2> QED BY <2>1, <1>4, <1>6 DEF MapMirrorsLRU
  <1>8. /\ m'[k] = e
        /\ \A q \in out : m'[q] = NoEntry
        /\ \A q \in Key : q \notin out /\ q # k => m'[q] = m[q]
        /\ m' \in [Key -> Entry \union {NoEntry}]
    BY <1>1, <1>6, <1>7 DEF TypeOK
  \* The identity that is taken is in no map slot and in no request.
  <1>9. /\ \A q \in Key : m[q] # e
        /\ \A q \in Req : ent[q] # e
        /\ closer[e] \in {"none", "done"}
    BY <1>1 DEF Fresh, MappedAreActive, LifeInv, ReqInv, VictimInv, TypeOK, Draining, States,
                CloserPCs
  <1>10. ent[r] = NoEntry /\ \A q \in Req : pc[q] \notin {"evict", "mark"}
    BY <1>1 DEF ReqInv, VictimInv
  <1>11. /\ pc' \in [Req -> ReqPCs]
         /\ \A q \in Req : q # r => pc'[q] = pc[q]
         /\ pc'[r] \in {"using", "evict"}
         /\ pc'[r] = "using" => out = {} /\ victim' = NoEntry
         /\ pc'[r] = "evict" => \E q \in out : victim' = m[q]
    BY <1>1 DEF TypeOK, ReqPCs
  <1>12. victim' # NoEntry =>
           \E q \in out : victim' = m[q] /\ m[q] \in Entry /\ out = {q}
    BY <1>6, <1>7, <1>11 DEF TypeOK
  <1>13. TypeOK'
    <2>1. victim' \in Entry \union {NoEntry}
      BY <1>12
    <2> QED BY <1>1, <1>6, <1>8, <1>11, <2>1 DEF TypeOK, States, CloserPCs
  <1>14. RefsCountHandles'
    <2>1. Holders(e) = {} /\ Holders(e)' = {r}
      BY <1>1, <1>9, <1>11 DEF Holders, TypeOK
    <2>2. \A x \in Entry : x # e => Holders(x)' = Holders(x)
      BY <1>1, <1>10, <1>11 DEF Holders, TypeOK
    <2>3. Cardinality(Holders(e)') = 1
      BY <2>1, FS_Singleton
    <2> QED BY <1>1, <2>2, <2>3 DEF RefsCountHandles, TypeOK
  <1>15. MapMirrorsLRU'
    <2>1. \A q \in Key : m'[q] # NoEntry <=> q \in ToSet(lru')
      BY <1>4, <1>6, <1>7, <1>8 DEF MapMirrorsLRU
    <2> QED BY <1>6, <2>1 DEF MapMirrorsLRU, Injective
  <1>16. MappedAreActive'
    BY <1>1, <1>7, <1>8, <1>9 DEF MappedAreActive, TypeOK
  <1>17. LifeInv' /\ ReqInv' /\ VictimInv'
    <2>1. \A x \in Entry :
            /\ state'[x] \in {"free", "active"} <=> closer'[x] = "none"
            /\ state'[x] = "quiescing" <=> closer'[x] \in Draining
            /\ state'[x] = "closed" <=> closer'[x] = "done"
      BY <1>1 DEF LifeInv, ReqInv, VictimInv, TypeOK, Draining
    <2>2. ASSUME NEW x \in Entry, state'[x] = "active"
          PROVE  victim' = x \/ \E q \in Key : m'[q] = x
      <3>1. CASE x = e
        BY <3>1, <1>8
      <3>2. CASE x # e
        <4>1. PICK q \in Key : m[q] = x
          BY <2>2, <3>2, <1>1 DEF LifeInv, ReqInv, VictimInv, TypeOK
        <4>2. CASE q \in out
          BY <4>1, <4>2, <1>11, <1>6
        <4>3. CASE q \notin out
          BY <4>1, <4>3, <1>2, <1>8
        <4> QED BY <4>2, <4>3
      <3> QED BY <3>1, <3>2
    <2>3. \A q \in Req :
            /\ pc'[q] = "idle" <=> ent'[q] = NoEntry
            /\ ent'[q] # NoEntry => state'[ent'[q]] # "free"
      BY <1>1, <1>11 DEF LifeInv, ReqInv, VictimInv, TypeOK
    <2>4. \A q \in Req : pc'[q] \in {"evict", "mark"} => q = r /\ victim' # NoEntry
      BY <1>7, <1>10, <1>11
    <2>5. victim' # NoEntry =>
            state'[victim'] = "active" /\ \A q \in Key : m'[q] # victim'
      <3> SUFFICES ASSUME victim' # NoEntry
                   PROVE  state'[victim'] = "active" /\ \A q \in Key : m'[q] # victim'
        OBVIOUS
      <3>1. PICK v \in out : victim' = m[v] /\ m[v] \in Entry /\ out = {v}
        BY <1>12
      <3>2. state[m[v]] = "active" /\ m[v] # e
        BY <3>1, <1>7, <1>9 DEF MappedAreActive
      <3>3. ASSUME NEW q \in Key PROVE m'[q] # m[v]
        BY <3>1, <3>2, <1>7, <1>8 DEF MappedAreActive
      <3> QED BY <3>1, <3>2, <3>3, <1>1 DEF TypeOK
    <2> QED BY <2>1, <2>2, <2>3, <2>4, <2>5 DEF LifeInv, ReqInv, VictimInv
  <1>18. DrainInv'
    <2>1. \A q \in Req : pc[q] \in {"load", "cast"} =>
            pc'[q] = pc[q] /\ ent'[q] = ent[q]
      BY <1>1, <1>11 DEF TypeOK
    <2>2. ASSUME NEW x \in Entry, x # e
          PROVE  closer'[x] = closer[x] /\ refs'[x] = refs[x] /\ expired'[x] = expired[x]
      BY <2>2, <1>1 DEF TypeOK
    <2>3. closer'[e] = "none"
      BY <1>1 DEF TypeOK
    <2> QED BY <2>1, <2>2, <2>3 DEF DrainInv
  <1> QED
    BY <1>13, <1>14, <1>15, <1>16, <1>17, <1>18

\* The evicting request marks its victim, and closes it or leaves a closer.
LEMMA EvictStepInv ==
  ASSUME IInv, NEW r \in Req, EvictStep(r)
  PROVE  IInv'
PROOF
  <1> USE PoolAssumption DEF IInv
  <1>1. /\ pc[r] \in {"evict", "mark"}
        /\ victim \in Entry /\ state[victim] = "active" /\ closer[victim] = "none"
        /\ \A k \in Key : m[k] # victim
    BY DEF EvictStep, EvictLoad, EvictMark, LifeInv, ReqInv, VictimInv, TypeOK
  <1>2. /\ UNCHANGED <<m, lru, refs, expired, timer, ent>>
        /\ \A q \in Req : q # r => pc'[q] = pc[q]
        /\ \/ /\ refs[victim] = 0 /\ victim' = NoEntry /\ pc'[r] = "using"
              /\ state' = [state EXCEPT ![victim] = "closed"]
              /\ closer' = [closer EXCEPT ![victim] = "done"]
           \/ /\ victim' = victim /\ state' = state /\ closer' = closer
              /\ pc'[r] = "mark"
           \/ /\ victim' = NoEntry /\ pc'[r] = "using"
              /\ state' = [state EXCEPT ![victim] = "quiescing"]
              /\ closer' = [closer EXCEPT ![victim] = "lock"]
    BY DEF EvictStep, EvictLoad, EvictMark, TypeOK
  <1>3. TypeOK'
    BY <1>1 DEF EvictStep, EvictLoad, EvictMark, TypeOK, States, CloserPCs, ReqPCs
  <1>4. RefsCountHandles'
    <2>1. \A x \in Entry : Holders(x)' = Holders(x)
      BY <1>1, <1>2 DEF Holders
    <2> QED BY <1>2, <2>1 DEF RefsCountHandles
  <1>5. MapMirrorsLRU'
    BY <1>2 DEF MapMirrorsLRU
  <1>6. MappedAreActive'
    BY <1>1, <1>2 DEF MappedAreActive, TypeOK
  <1>7. LifeInv' /\ ReqInv' /\ VictimInv'
    <2>1. LifeInv'
      BY <1>1, <1>2 DEF LifeInv, TypeOK, Draining
    <2>2. ReqInv'
      BY <1>1, <1>2 DEF ReqInv, TypeOK
    <2>3. VictimInv'
      BY <1>1, <1>2 DEF VictimInv, TypeOK
    <2> QED BY <2>1, <2>2, <2>3
  <1>8. DrainInv'
    <2>1. \A q \in Req : pc[q] \in {"load", "cast"} => pc'[q] = pc[q]
      BY <1>1, <1>2
    <2>2. \A x \in Entry : x # victim => closer'[x] = closer[x]
      BY <1>2 DEF TypeOK
    <2>3. \/ closer'[victim] = "done" /\ refs[victim] = 0
          \/ closer'[victim] \in {"none", "lock"}
      BY <1>1, <1>2 DEF TypeOK
    <2> QED BY <1>2, <2>1, <2>2, <2>3 DEF DrainInv
  <1> QED
    BY <1>3, <1>4, <1>5, <1>6, <1>7, <1>8

\* Release gives back one reference, once.
LEMMA ReleaseInv ==
  ASSUME IInv, NEW r \in Req, Release(r)
  PROVE  IInv'
PROOF
  <1> USE PoolAssumption DEF IInv
  <1>0. PICK e \in Entry : e = ent[r]
    BY DEF Release, LifeInv, ReqInv, VictimInv, TypeOK
  <1>1. ent[r] = e /\ r \in Holders(e)
    BY <1>0 DEF Release, Holders
  <1>2. refs[e] = Cardinality(Holders(e)) /\ refs[e] \in Nat \ {0}
    BY <1>1, HoldersEmpty, HoldersFinite DEF RefsCountHandles
  <1>3. /\ UNCHANGED <<m, lru, state, closer, expired, timer, victim>>
        /\ refs' = [refs EXCEPT ![e] = @ - 1]
        /\ refs'[e] = refs[e] - 1
        /\ \A q \in Req : q # r => pc'[q] = pc[q] /\ ent'[q] = ent[q]
        /\ \/ refs'[e] = 0 /\ pc'[r] = "load" /\ ent'[r] = e
           \/ refs'[e] # 0 /\ pc'[r] = "idle" /\ ent'[r] = NoEntry
    BY <1>1, <1>2 DEF Release, TypeOK
  <1>4. TypeOK'
    <2>1. refs' \in [Entry -> Nat]
      BY <1>2, <1>3 DEF TypeOK
    <2>2. pc' \in [Req -> ReqPCs] /\ ent' \in [Req -> Entry \union {NoEntry}]
      BY DEF Release, TypeOK, ReqPCs
    <2> QED BY <2>1, <2>2, <1>3 DEF TypeOK
  <1>5. RefsCountHandles'
    <2>1. Holders(e)' = Holders(e) \ {r}
      BY <1>1, <1>3 DEF Holders
    <2>2. \A x \in Entry : x # e => Holders(x)' = Holders(x)
      BY <1>1, <1>3 DEF Holders
    <2>3. Cardinality(Holders(e)') = Cardinality(Holders(e)) - 1
      BY <2>1, <1>1, HoldersStep
    <2> QED BY <1>1, <1>2, <1>3, <2>2, <2>3 DEF RefsCountHandles, TypeOK
  <1>6. MapMirrorsLRU' /\ MappedAreActive'
    BY <1>3 DEF MapMirrorsLRU, MappedAreActive
  <1>7. LifeInv' /\ ReqInv' /\ VictimInv'
    <2>1. LifeInv'
      BY <1>3 DEF LifeInv
    <2>2. ReqInv'
      BY <1>0, <1>1, <1>3 DEF ReqInv
    <2>3. VictimInv'
      BY <1>3 DEF VictimInv, Release
    <2> QED BY <2>1, <2>2, <2>3
  <1>8. DrainInv'
    <2>1. \A q \in Req : pc[q] \in {"load", "cast"} =>
            pc'[q] = pc[q] /\ ent'[q] = ent[q]
      BY <1>3 DEF Release
    <2>2. \A x \in Entry : x # e => refs'[x] = refs[x]
      BY <1>3 DEF TypeOK
    <2>3. refs'[e] = 0 => \E q \in Req : ent'[q] = e /\ pc'[q] \in {"load", "cast"}
      BY <1>3
    <2>4. closer[e] \in {"exit", "close", "done"} => expired[e]
      BY <1>1, <1>2 DEF DrainInv
    <2> QED BY <1>1, <1>3, <2>1, <2>2, <2>3, <2>4 DEF DrainInv
  <1> QED
    BY <1>4, <1>5, <1>6, <1>7, <1>8

\* What the last Release does after its decrement: read the state, broadcast.
LEMMA ReleaseEndInv ==
  ASSUME IInv, NEW r \in Req, ReleaseLoad(r) \/ ReleaseCast(r)
  PROVE  IInv'
PROOF
  <1> USE PoolAssumption DEF IInv
  <1>0. PICK e \in Entry : e = ent[r]
    BY DEF ReleaseLoad, ReleaseCast, LifeInv, ReqInv, VictimInv, TypeOK
  <1>1. ent[r] = e /\ pc[r] \in {"load", "cast"}
    BY <1>0 DEF ReleaseLoad, ReleaseCast
  <1>2. /\ UNCHANGED <<m, lru, state, refs, expired, timer, victim>>
        /\ \A q \in Req : q # r => pc'[q] = pc[q] /\ ent'[q] = ent[q]
        /\ \A x \in Entry : x # e => closer'[x] = closer[x]
        /\ \/ /\ state[e] = "quiescing" /\ pc'[r] = "cast" /\ ent'[r] = e
              /\ closer' = closer
           \/ /\ state[e] # "quiescing" /\ pc'[r] = "idle" /\ ent'[r] = NoEntry
              /\ closer' = closer
           \/ /\ MuFree(e) /\ pc'[r] = "idle" /\ ent'[r] = NoEntry
              /\ closer'[e] = IF closer[e] = "waiting" THEN "wake" ELSE closer[e]
    BY <1>1 DEF ReleaseLoad, ReleaseCast, Broadcast, TypeOK, shardVars, entryVars,
                waitVars
  <1>3. TypeOK'
    <2>1. pc' \in [Req -> ReqPCs] /\ ent' \in [Req -> Entry \union {NoEntry}]
      BY DEF ReleaseLoad, ReleaseCast, TypeOK, ReqPCs
    <2>2. closer' \in [Entry -> CloserPCs]
      BY <1>1 DEF ReleaseLoad, ReleaseCast, Broadcast, TypeOK, CloserPCs, waitVars
    <2> QED BY <2>1, <2>2, <1>2 DEF TypeOK
  <1>4. RefsCountHandles'
    <2>1. \A x \in Entry : Holders(x)' = Holders(x)
      BY <1>1, <1>2 DEF Holders
    <2> QED BY <1>2, <2>1 DEF RefsCountHandles
  <1>5. MapMirrorsLRU' /\ MappedAreActive'
    BY <1>2 DEF MapMirrorsLRU, MappedAreActive
  <1>6. closer'[e] = closer[e] \/ (closer[e] = "waiting" /\ closer'[e] = "wake")
    BY <1>2
  <1>7. LifeInv' /\ ReqInv' /\ VictimInv'
    <2>1. LifeInv'
      BY <1>2, <1>6 DEF LifeInv, Draining
    <2>2. ReqInv'
      BY <1>0, <1>1, <1>2 DEF ReqInv
    <2>3. VictimInv'
      BY <1>1, <1>2 DEF VictimInv
    <2> QED BY <2>1, <2>2, <2>3
  <1>8. DrainInv'
    <2>1. ASSUME NEW x \in Entry, x # e PROVE
            \A q \in Req : ent[q] = x /\ pc[q] \in {"load", "cast"} =>
              ent'[q] = x /\ pc'[q] \in {"load", "cast"}
      BY <2>1, <1>1, <1>2
    <2>2. \/ closer'[e] \notin {"deadline", "waiting"}
          \/ ent'[r] = e /\ pc'[r] \in {"load", "cast"}
      BY <1>1, <1>2 DEF LifeInv, ReqInv, VictimInv, Draining, MuFree
    <2>3. closer'[e] \in {"exit", "close", "done"} => closer[e] = closer'[e]
      BY <1>6
    <2> QED BY <1>1, <1>2, <2>1, <2>2, <2>3 DEF DrainInv
  <1> QED
    BY <1>3, <1>4, <1>5, <1>7, <1>8

------------------------------------------------------------------------------

\* IInv is inductive.
LEMMA NextInv == IInv /\ [Next]_vars => IInv'
PROOF
  <1> SUFFICES ASSUME IInv, [Next]_vars PROVE IInv'
    OBVIOUS
  <1>1. CASE UNCHANGED vars
    BY <1>1 DEF vars, IInv, TypeOK, RefsCountHandles, Holders, MapMirrorsLRU,
                MappedAreActive, LifeInv, ReqInv, VictimInv, DrainInv
  <1>2. ASSUME NEW r \in Req, Acquire(r) PROVE IInv'
    BY <1>2, AcquireHitInv, AcquireMissInv DEF Acquire
  <1>3. ASSUME NEW r \in Req, EvictStep(r) PROVE IInv'
    BY <1>3, EvictStepInv
  <1>4. ASSUME NEW r \in Req, ReleaseStep(r) PROVE IInv'
    BY <1>4, ReleaseInv, ReleaseEndInv DEF ReleaseStep
  <1>5. ASSUME NEW k \in Key, Cutover(k) PROVE IInv'
    BY <1>5, CutoverInv
  <1>6. ASSUME NEW e \in Entry, CloserStep(e) PROVE IInv'
    BY <1>6, CloserStepInv
  <1> QED
    BY <1>1, <1>2, <1>3, <1>4, <1>5, <1>6 DEF Next

\* IInv holds in every reachable state.
LEMMA PoolInvariant == Spec => []IInv
PROOF
  <1> QED BY InitInv, NextInv, PTL DEF Spec

\* Every variable keeps its type.
THEOREM PoolTypeCorrect == Spec => []TypeOK
PROOF
  <1>1. IInv => TypeOK
    BY DEF IInv
  <1> QED BY <1>1, PoolInvariant, PTL

\* The reference count of an entry is the number of its handles
\* (LimiterHandle, Acquire, release), so it never goes negative.
THEOREM PoolRefsCountHandles == Spec => []RefsCountHandles
PROOF
  <1>1. IInv => RefsCountHandles
    BY DEF IInv
  <1> QED BY <1>1, PoolInvariant, PTL

\* The shard's map and LRU list agree and stay within MaxEntriesShard
\* (Acquire, Cutover, evictIfNeededLocked).
THEOREM PoolMapMirrorsLRU == Spec => []MapMirrorsLRU
PROOF
  <1>1. IInv => MapMirrorsLRU
    BY DEF IInv
  <1> QED BY <1>1, PoolInvariant, PTL

\* Acquire never pins an entry that Cutover or an eviction has taken over.
THEOREM PoolMappedAreActive == Spec => []MappedAreActive
PROOF
  <1>1. IInv => MappedAreActive
    BY DEF IInv
  <1> QED BY <1>1, PoolInvariant, PTL

\* An entry that left the map still has a goroutine that closes it.
THEOREM PoolRemovedHasCloser == Spec => []RemovedHasCloser
PROOF
  <1>1. IInv => RemovedHasCloser
    BY DEF IInv, LifeInv, ReqInv, VictimInv, RemovedHasCloser, Draining, TypeOK
  <1> QED BY <1>1, PoolInvariant, PTL

\* closeLimiter runs under a live handle only after CloseTimeout.
THEOREM PoolClosedOnlyWhenDrained == Spec => []ClosedOnlyWhenDrained
PROOF
  <1>1. IInv => ClosedOnlyWhenDrained
    <2> SUFFICES ASSUME IInv, NEW e \in Entry, state[e] = "closed", Holders(e) # {}
                 PROVE  expired[e]
      BY DEF ClosedOnlyWhenDrained
    <2>1. refs[e] # 0
      BY HoldersEmpty DEF IInv, RefsCountHandles
    <2>2. closer[e] = "done"
      BY DEF IInv, LifeInv, ReqInv, VictimInv
    <2> QED BY <2>1, <2>2 DEF IInv, DrainInv
  <1> QED BY <1>1, PoolInvariant, PTL

\* The wait loop of waitForEntry never sleeps through the last release.
THEOREM PoolNoLostWakeup == Spec => []NoLostWakeup
PROOF
  <1>1. IInv => NoLostWakeup
    BY DEF IInv, DrainInv, NoLostWakeup
  <1> QED BY <1>1, PoolInvariant, PTL

------------------------------------------------------------------------------
(* The pool implements the lease *)

\* What a request that is inside Acquire or holds a handle holds.
LEMMA HoldingMeans ==
  ASSUME IInv, NEW r \in Req
  PROVE  /\ Lease!Holding(r) <=> pc[r] \in {"evict", "mark", "using"}
         /\ pc[r] # "idle" => ent[r] \in Entry
PROOF
  <1>1. pc[r] # "idle" => ent[r] \in Entry
    BY DEF IInv, TypeOK, ReqInv
  <1>2. pc[r] \in {"evict", "mark", "using"} => pc[r] # "idle"
    OBVIOUS
  <1> QED
    BY <1>1, <1>2 DEF Lease!Holding, holdersOf, Holders

\* An entry that drains, or that an Acquire evicts, is out of service.
LEMMA RetiredMeans ==
  ASSUME IInv, NEW e \in Entry,
         closer[e] \in Draining \/ (victim = e /\ victim # NoEntry)
  PROVE  Lease!Retired(e)
PROOF
  <1>1. state[e] = "quiescing" \/ (state[e] = "active" /\ \A k \in Key : m[k] # e)
    BY DEF IInv, LifeInv, VictimInv
  <1>2. \A k \in Key : m[k] # e
    BY <1>1, PoolAssumption DEF IInv, MappedAreActive
  <1> QED
    BY <1>1, <1>2 DEF Lease!Retired, lifeOf

\* An entry without references has no holders.
LEMMA UnpinnedMeans ==
  ASSUME IInv, NEW e \in Entry, refs[e] = 0
  PROVE  holdersOf[e] = {}
PROOF
  BY HoldersEmpty DEF IInv, RefsCountHandles, holdersOf

------------------------------------------------------------------------------

\* A hit hands out the current limiter.
LEMMA HitGets ==
  ASSUME IInv, NEW r \in Req, NEW k \in Key, AcquireHit(r, k)
  PROVE  Lease!Get(r, k)
PROOF
  <1> USE DEF AcquireHit
  <1>1. ~Lease!Holding(r)
    BY HoldingMeans
  <1>2. m[k] \in Entry
    BY DEF IInv, TypeOK
  <1>3. holdersOf' = [holdersOf EXCEPT ![m[k]] = @ \cup {r}]
    <2>1. \A x \in Entry : Holders(x)' = IF x = m[k] THEN Holders(x) \cup {r}
                                                     ELSE Holders(x)
      BY PoolAssumption DEF Holders, IInv, TypeOK, ReqInv
    <2> QED BY <2>1 DEF holdersOf
  <1>4. lifeOf' = lifeOf
    BY DEF lifeOf
  <1> QED
    BY <1>1, <1>2, <1>3, <1>4 DEF Lease!Get

\* A miss makes a limiter, and what the LRU list gives up is no longer current.
LEMMA MissMakes ==
  ASSUME IInv, NEW r \in Req, NEW k \in Key, NEW e \in Entry, AcquireMiss(r, k, e)
  PROVE  \E out \in SUBSET Key : Lease!Make(r, k, e, out)
PROOF
  <1> USE DEF AcquireMiss
  <1> DEFINE out == LruEvicted(LruAdd(lru, k), MaxEntries)
  <1>1. ~Lease!Holding(r) /\ ent[r] = NoEntry
    BY HoldingMeans DEF IInv, ReqInv
  <1>2. m[k] = NoEntry
    BY DEF IInv, MappedAreActive
  <1>3. state[e] \in {"free", "closed"} /\ \A q \in Req : ent[q] # e
    BY PoolAssumption DEF Fresh, IInv, ReqInv
  <1>4. lifeOf[e] # "open" /\ holdersOf[e] = {}
    BY <1>3 DEF lifeOf, holdersOf, Holders
  <1>5. k \notin out /\ out \subseteq Key
    <2> DEFINE list == LruAdd(lru, k)
    <2>1. lru \in Seq(Key) /\ Injective(lru)
      BY DEF IInv, TypeOK, MapMirrorsLRU, Injective
    <2>2. /\ list \in Seq(Key) /\ Injective(list)
          /\ Len(list) >= 1 /\ list[1] = k
          /\ Len(list) <= Len(lru) + 1
      BY <2>1, LruAddProps
    <2>3. Len(list) \in Nat /\ Len(list) <= MaxEntries + 1
      BY <2>2, PoolAssumption DEF IInv, TypeOK, MapMirrorsLRU
    <2> HIDE DEF list
    <2>4. LruEvicted(list, MaxEntries) \subseteq ToSet(list)
          /\ k \notin LruEvicted(list, MaxEntries)
      BY <2>2, <2>3, PoolAssumption, LruEvictProps
    <2>5. ToSet(list) \subseteq Key
      BY <2>2 DEF ToSet
    <2> QED BY <2>4, <2>5 DEF list
  <1>6. m' = [q \in Key |-> IF q = k THEN e
                            ELSE IF q \in out THEN NoEntry ELSE m[q]]
    BY <1>5
  <1>7. lifeOf' = [lifeOf EXCEPT ![e] = "open"]
    BY DEF lifeOf, IInv, TypeOK
  <1>8. holdersOf' = [holdersOf EXCEPT ![e] = {r}]
    <2>1. pc'[r] \in {"using", "evict"} /\ \A q \in Req : q # r => pc'[q] = pc[q]
      BY DEF IInv, TypeOK
    <2>2. ent' = [ent EXCEPT ![r] = e]
      OBVIOUS
    <2>3. \A x \in Entry : Holders(x)' = IF x = e THEN {r} ELSE Holders(x)
      BY <1>1, <1>3, <2>1, <2>2, PoolAssumption DEF Holders, IInv, TypeOK
    <2> QED BY <2>3 DEF holdersOf
  <1>9. expired' = [expired EXCEPT ![e] = FALSE]
    OBVIOUS
  <1>10. Lease!Make(r, k, e, out)
    BY <1>1, <1>2, <1>4, <1>6, <1>7, <1>8, <1>9 DEF Lease!Make
  <1> QED
    BY <1>5, <1>10

\* Eviction closes an idle victim, or leaves a pinned one to be drained.
LEMMA EvictCloses ==
  ASSUME IInv, NEW r \in Req, EvictStep(r)
  PROVE  (\E e \in Entry : Lease!Close(e)) \/ UNCHANGED Lease!vars
PROOF
  <1>1. victim \in Entry /\ victim # NoEntry /\ state[victim] = "active"
    BY DEF EvictStep, EvictLoad, EvictMark, IInv, TypeOK, VictimInv
  <1>2. pc'[r] \in {"using", "mark"} /\ pc[r] \in {"evict", "mark"}
        /\ \A q \in Req : q # r => pc'[q] = pc[q]
    BY DEF EvictStep, EvictLoad, EvictMark, IInv, TypeOK
  <1>3. m' = m /\ expired' = expired /\ ent' = ent
    BY DEF EvictStep, EvictLoad, EvictMark
  <1>4. holdersOf' = holdersOf
    <2>1. \A x \in Entry : Holders(x)' = Holders(x)
      BY <1>2, <1>3 DEF Holders
    <2> QED BY <2>1 DEF holdersOf
  <1>5. CASE EvictLoad(r) /\ refs[victim] = 0
    <2>1. state' = [state EXCEPT ![victim] = "closed"]
      BY <1>5 DEF EvictLoad
    <2>2. lifeOf' = [lifeOf EXCEPT ![victim] = "closed"]
      BY <1>1, <2>1 DEF lifeOf, IInv, TypeOK
    <2>3. holdersOf[victim] = {}
      BY <1>1, <1>5, UnpinnedMeans
    <2>4. Lease!Retired(victim)
      BY <1>1, RetiredMeans
    <2>5. Lease!Close(victim)
      BY <1>3, <1>4, <2>2, <2>3, <2>4 DEF Lease!Close
    <2> QED BY <1>1, <2>5
  <1>6. CASE EvictMark(r) \/ (EvictLoad(r) /\ refs[victim] # 0)
    <2>1. state' = state \/ state' = [state EXCEPT ![victim] = "quiescing"]
      BY <1>6 DEF EvictLoad, EvictMark
    <2>2. lifeOf' = lifeOf
      BY <1>1, <2>1 DEF lifeOf, IInv, TypeOK
    <2> QED BY <1>3, <1>4, <2>2 DEF Lease!vars
  <1> QED
    BY <1>5, <1>6 DEF EvictStep

\* Release gives the limiter back with its decrement; the rest is bookkeeping.
LEMMA ReleaseReturns ==
  ASSUME IInv, NEW r \in Req, ReleaseStep(r)
  PROVE  (\E e \in Entry : Lease!Return(r, e)) \/ UNCHANGED Lease!vars
PROOF
  <1>1. pc[r] # "idle" /\ ent[r] \in Entry
    BY HoldingMeans DEF ReleaseStep, Release, ReleaseLoad, ReleaseCast
  <1>2. m' = m /\ expired' = expired /\ state' = state
    BY DEF ReleaseStep, Release, ReleaseLoad, ReleaseCast, shardVars, entryVars, waitVars
  <1>3. lifeOf' = lifeOf
    BY <1>2 DEF lifeOf
  <1>4. /\ pc'[r] \in {"idle", "load", "cast"}
        /\ \A q \in Req : q # r => pc'[q] = pc[q] /\ ent'[q] = ent[q]
    BY DEF ReleaseStep, Release, ReleaseLoad, ReleaseCast, IInv, TypeOK
  <1>5. CASE Release(r)
    <2>1. pc[r] = "using"
      BY <1>5 DEF Release
    <2>2. \A x \in Entry : Holders(x)' = IF x = ent[r] THEN Holders(x) \ {r}
                                                       ELSE Holders(x)
      BY <1>4, <2>1 DEF Holders
    <2>3. holdersOf' = [holdersOf EXCEPT ![ent[r]] = @ \ {r}]
      BY <1>1, <2>2 DEF holdersOf
    <2>4. r \in holdersOf[ent[r]]
      BY <1>1, <2>1 DEF holdersOf, Holders
    <2>5. Lease!Return(r, ent[r])
      BY <1>2, <1>3, <2>3, <2>4 DEF Lease!Return
    <2> QED BY <1>1, <2>5
  <1>6. CASE ReleaseLoad(r) \/ ReleaseCast(r)
    <2>1. pc[r] \in {"load", "cast"}
      BY <1>6 DEF ReleaseLoad, ReleaseCast
    <2>2. \A x \in Entry : Holders(x)' = Holders(x)
      BY <1>4, <2>1 DEF Holders
    <2>3. holdersOf' = holdersOf
      BY <2>2 DEF holdersOf
    <2> QED BY <1>2, <1>3, <2>3 DEF Lease!vars
  <1> QED
    BY <1>5, <1>6 DEF ReleaseStep

\* A cutover makes the next request get another limiter.
LEMMA CutoverRetires ==
  ASSUME IInv, NEW k \in Key, Cutover(k)
  PROVE  Lease!Retire(k)
PROOF
  <1> USE DEF Cutover, reqVars
  <1>1. m[k] \in Entry /\ state[m[k]] = "active"
    BY DEF IInv, TypeOK, MappedAreActive
  <1>2. lifeOf' = lifeOf
    BY <1>1 DEF lifeOf, IInv, TypeOK
  <1>3. holdersOf' = holdersOf
    <2>1. \A x \in Entry : Holders(x)' = Holders(x)
      BY DEF Holders
    <2> QED BY <2>1 DEF holdersOf
  <1> QED
    BY <1>2, <1>3 DEF Lease!Retire

\* A drain lets the deadline pass and closes; its waiting cannot be seen.
LEMMA CloserCloses ==
  ASSUME IInv, NEW e \in Entry, CloserStep(e)
  PROVE  Lease!Expire(e) \/ Lease!Close(e) \/ UNCHANGED Lease!vars
PROOF
  <1>1. m' = m /\ pc' = pc /\ ent' = ent
    BY DEF CloserStep, QuiesceEnds, WaitLock, DeadlinePasses, TimerFires,
           CheckRefs, CheckDeadline, Wake, WaitUnlock, CloseLimiter,
           shardVars, reqVars
  <1>2. holdersOf' = holdersOf
    <2>1. \A x \in Entry : Holders(x)' = Holders(x)
      BY <1>1 DEF Holders
    <2> QED BY <2>1 DEF holdersOf
  <1>3. CASE DeadlinePasses(e)
    <2>1. Lease!Retired(e)
      BY <1>3, RetiredMeans DEF DeadlinePasses, Draining
    <2>2. lifeOf' = lifeOf
      BY <1>3 DEF DeadlinePasses, entryVars, lifeOf
    <2>3. ~expired[e] /\ expired' = [expired EXCEPT ![e] = TRUE]
      BY <1>3 DEF DeadlinePasses
    <2> QED BY <1>1, <1>2, <2>1, <2>2, <2>3 DEF Lease!Expire
  <1>4. CASE CloseLimiter(e)
    <2>1. Lease!Retired(e)
      BY <1>4, RetiredMeans DEF CloseLimiter, Draining
    <2>2. refs[e] = 0 \/ expired[e]
      BY <1>4 DEF CloseLimiter, IInv, DrainInv
    <2>3. holdersOf[e] = {} \/ expired[e]
      BY <2>2, UnpinnedMeans
    <2>4. lifeOf' = [lifeOf EXCEPT ![e] = "closed"] /\ expired' = expired
      BY <1>4 DEF CloseLimiter, lifeOf, IInv, TypeOK
    <2> QED BY <1>1, <1>2, <2>1, <2>3, <2>4 DEF Lease!Close
  <1>5. CASE /\ ~DeadlinePasses(e) /\ ~CloseLimiter(e)
    <2>1. state' = state /\ expired' = expired
      BY <1>5 DEF CloserStep, QuiesceEnds, WaitLock, TimerFires,
             CheckRefs, CheckDeadline, Wake, WaitUnlock, entryVars
    <2>2. lifeOf' = lifeOf
      BY <2>1 DEF lifeOf
    <2> QED BY <1>1, <1>2, <2>1, <2>2 DEF Lease!vars
  <1> QED
    BY <1>3, <1>4, <1>5

------------------------------------------------------------------------------

\* Every step of the pool is a step of the lease or is not seen there.
LEMMA StepsRefine == IInv /\ [Next]_vars => [Lease!Next]_(Lease!vars)
PROOF
  <1> SUFFICES ASSUME IInv, [Next]_vars PROVE Lease!Next \/ UNCHANGED Lease!vars
    OBVIOUS
  <1>1. ASSUME NEW r \in Req, Acquire(r) PROVE Lease!Next
    <2>1. PICK k \in Key : AcquireHit(r, k) \/ \E e \in Entry : AcquireMiss(r, k, e)
      BY <1>1 DEF Acquire
    <2>2. CASE AcquireHit(r, k)
      BY <2>2, HitGets DEF Lease!Next
    <2>3. CASE \E e \in Entry : AcquireMiss(r, k, e)
      BY <2>3, MissMakes DEF Lease!Next
    <2> QED BY <2>1, <2>2, <2>3
  <1>2. ASSUME NEW r \in Req, EvictStep(r) PROVE Lease!Next \/ UNCHANGED Lease!vars
    BY <1>2, EvictCloses DEF Lease!Next
  <1>3. ASSUME NEW r \in Req, ReleaseStep(r) PROVE Lease!Next \/ UNCHANGED Lease!vars
    BY <1>3, ReleaseReturns DEF Lease!Next
  <1>4. ASSUME NEW k \in Key, Cutover(k) PROVE Lease!Next
    BY <1>4, CutoverRetires DEF Lease!Next
  <1>5. ASSUME NEW e \in Entry, CloserStep(e) PROVE Lease!Next \/ UNCHANGED Lease!vars
    BY <1>5, CloserCloses DEF Lease!Next
  <1>6. CASE UNCHANGED vars
    <2>1. \A x \in Entry : Holders(x)' = Holders(x)
      BY <1>6 DEF vars, Holders
    <2> QED BY <1>6, <2>1 DEF vars, Lease!vars, lifeOf, holdersOf
  <1> QED
    BY <1>1, <1>2, <1>3, <1>4, <1>5, <1>6 DEF Next

\* The pool keeps the lease's promises: one current limiter per key, only that
\* one handed out, and none closed under a request before its deadline.  The
\* promise that retired limiters are closed in the end is model-checked.
THEOREM PoolImplementsLease == Spec => Lease!SafeSpec
PROOF
  <1>1. Init => Lease!Init
    <2> SUFFICES ASSUME Init PROVE Lease!Init
      OBVIOUS
    <2>1. \A x \in Entry : Holders(x) = {}
      BY DEF Init, Holders
    <2> QED BY <2>1 DEF Init, Lease!Init, lifeOf, holdersOf
  <1> QED
    BY <1>1, StepsRefine, PoolInvariant, PTL DEF Spec, Lease!SafeSpec

==============================================================================
