---------------------------- MODULE AdminApi_proofs ----------------------------
(***************************************************************************)
(* Safety of the admin calls and the rule database under them, for any     *)
(* keys, bodies, idempotency keys and clients and any bounds: AdminIInv is *)
(* inductive, and it implies the four invariants of the run.               *)
(***************************************************************************)
EXTENDS AdminApi, TLAPS

CallType == [wire : {"http", "grpc"}, row : RowType, before : RuleOrNone]
LastType == [row : RowType \cup {NoRow}, told : {"nobody", "outbox", "caller"}]

------------------------------------------------------------------------------
(* Types *)

\* A rule is told from none by its lifetime.
LEMMA RuleFields ==
  ASSUME NEW x \in RuleOrNone
  PROVE  /\ x.gen \in Nat /\ x.ver \in Nat
         /\ x # NoRule => /\ x \in Rule /\ x.gen > 0 /\ x.ver > 0
                          /\ x.gen \in 1..MaxGen /\ x.ver \in 1..MaxVer
                          /\ x.key \in Key
         /\ x.gen > 0 => x # NoRule
PROOF
  BY RuleDBAssumption DEF RuleOrNone, Rule, NoRule

\* A row names the rule's key, lifetime and version.
LEMMA RowOfRule ==
  ASSUME NEW x \in Rule, NEW act \in {"upsert", "delete"}
  PROVE  /\ Row(x, act) \in RowType /\ Row(x, act).key = x.key
         /\ Row(x, act) # NoRow
PROOF
  <1>1. Row(x, act) \in RowType /\ Row(x, act).key = x.key /\ Row(x, act).act = act
    BY DEF Row, RowType, Rule
  <1>2. NoRow.act = "none"
    BY DEF NoRow
  <1> QED BY <1>1, <1>2

\* A call under way is not the empty call.
LEMMA CallFields ==
  ASSUME NEW x \in {NoCall} \cup CallType, x # NoCall
  PROVE  x \in CallType /\ x.row \in RowType /\ x.before \in RuleOrNone
PROOF
  BY DEF CallType

\* A record is not the missing one.
LEMMA RecordIsRecord ==
  ASSUME NEW k, NEW body
  PROVE  [key |-> k, body |-> body] # NoRecord
PROOF
  <1>1. DOMAIN [key |-> k, body |-> body] = {"key", "body"}
    OBVIOUS
  <1>2. DOMAIN NoRecord = {"key"}
    BY DEF NoRecord
  <1> QED BY <1>1, <1>2

\* An error without a code is a server error on both wires.
LEMMA NoCodeIsServerError ==
  ASSUME NEW wire
  PROVE  Status(wire, "") = "server error"
PROOF
  BY DEF Status, statusForCode, grpcError

\* What a client can be told.
LEMMA StatusType ==
  ASSUME NEW wire, NEW code
  PROVE  Status(wire, code) \in {"none", "success", "client error", "server error"}
PROOF
  BY DEF Status

------------------------------------------------------------------------------
(* The database *)

\* CopyOK of a rule after the step.
CopyNext(x) ==
    x # NoRule =>
        /\ x.gen <= gen'
        /\ \A k \in Key : rules'[k].gen = x.gen =>
             x.ver <= rules'[k].ver /\ (x.ver = rules'[k].ver => x = rules'[k])

\* What an operation of the database keeps: copies stay copies, and so is what
\* clients hold afterwards.
DBKept ==
    /\ rules' \in [Key -> RuleOrNone] /\ gen' \in 0..MaxGen
    /\ idempotency' \in [IdemKey -> Record \cup {NoRecord}]
    /\ origin' \in [IdemKey -> SUBSET Nat]
    /\ held' \in [Client -> RuleOrNone]
    /\ LifetimesDistinct' /\ OriginRecorded' /\ OneCreationPerKey'
    /\ \A x \in RuleOrNone : CopyOK(x) => CopyNext(x)
    /\ \A d \in Client : CopyNext(held'[d])

\* Clients other than c hold what they held.
LEMMA HeldByOthers ==
  ASSUME AdminIInv, NEW c \in Client, NEW x \in RuleOrNone, Returns(c, x)
  PROVE  /\ held' \in [Client -> RuleOrNone] /\ held'[c] = x
         /\ \A d \in Client : d # c => held'[d] = held[d]
PROOF
  BY DEF Returns, AdminIInv, AdminTypeOK

\* What is stored under a key is a rule with that key.
LEMMA StoredRule ==
  ASSUME AdminTypeOK, LifetimesDistinct, NEW k \in Key, rules[k] # NoRule
  PROVE  rules[k] \in Rule /\ rules[k].key = k
PROOF
  <1>1. rules[k] \in RuleOrNone
    BY DEF AdminTypeOK
  <1>2. rules[k] \in Rule
    BY <1>1, RuleFields
  <1> QED BY <1>2 DEF LifetimesDistinct

\* The rule that an update stores.
LEMMA NextVersion ==
  ASSUME NEW x \in Rule, NEW v, NEW body
  PROVE  [[x EXCEPT !.ver = v] EXCEPT !.body = body] =
           [key |-> x.key, gen |-> x.gen, ver |-> v, body |-> body]
PROOF
  <1>1. x = [key |-> x.key, gen |-> x.gen, ver |-> x.ver, body |-> x.body]
    BY DEF Rule
  <1>2. [x EXCEPT !.ver = v] = [key |-> x.key, gen |-> x.gen, ver |-> v, body |-> x.body]
    BY <1>1
  <1>3. ASSUME NEW y, y = [key |-> x.key, gen |-> x.gen, ver |-> v, body |-> x.body]
        PROVE  [y EXCEPT !.body = body] =
                 [key |-> x.key, gen |-> x.gen, ver |-> v, body |-> body]
    BY <1>3
  <1> QED BY <1>2, <1>3

\* A stored rule is a copy of itself and of no other.
LEMMA StoredIsCopy ==
  ASSUME AdminTypeOK, LifetimesDistinct, NEW k \in Key, rules[k] # NoRule
  PROVE  CopyOK(rules[k])
PROOF
  <1>1. \A l \in Key : rules[l] \in RuleOrNone
    BY DEF AdminTypeOK
  <1>2. rules[k].gen <= gen
    BY DEF LifetimesDistinct
  <1>3. ASSUME NEW l \in Key, rules[l].gen = rules[k].gen
        PROVE  rules[k].ver <= rules[l].ver /\ rules[k] = rules[l]
    <2>1. k = l
      BY <1>3 DEF LifetimesDistinct
    <2>2. rules[k].ver \in Nat
      BY <1>1, RuleFields
    <2> QED BY <2>1, <2>2
  <1> QED BY <1>2, <1>3 DEF CopyOK

\* Get, and a create repeated with its idempotency key, return the stored rule.
LEMMA ReadKeeps ==
  ASSUME AdminIInv, NEW c \in Client, NEW k \in Key, rules[k] # NoRule,
         Returns(c, rules[k]), UNCHANGED <<rules, idempotency, gen, origin>>
  PROVE  DBKept
PROOF
  <1> USE DEF AdminIInv
  <1>1. rules[k] \in RuleOrNone
    BY DEF AdminTypeOK
  <1>2. /\ held' \in [Client -> RuleOrNone] /\ held'[c] = rules[k]
        /\ \A d \in Client : d # c => held'[d] = held[d]
    BY <1>1, HeldByOthers
  <1>3. \A x : CopyOK(x) => CopyNext(x)
    BY DEF CopyOK, CopyNext
  <1>4. CopyOK(rules[k])
    BY StoredIsCopy
  <1>5. \A d \in Client : CopyNext(held'[d])
    BY <1>2, <1>3, <1>4 DEF CopiesOK
  <1>6. LifetimesDistinct' /\ OriginRecorded' /\ OneCreationPerKey'
    BY DEF LifetimesDistinct, OriginRecorded, OneCreationPerKey
  <1> QED BY <1>2, <1>3, <1>5, <1>6 DEF DBKept, AdminTypeOK

\* A new rule begins a lifetime that no copy is of.
LEMMA InsertKeeps ==
  ASSUME AdminIInv, NEW c \in Client, NEW k \in Key, NEW body \in Body,
         Insert(c, k, body)
  PROVE  /\ rules' \in [Key -> RuleOrNone] /\ gen' \in 0..MaxGen
         /\ held' \in [Client -> RuleOrNone]
         /\ LifetimesDistinct'
         /\ \A x \in RuleOrNone : CopyOK(x) => CopyNext(x)
         /\ \A d \in Client : CopyNext(held'[d])
         /\ gen' = gen + 1
         /\ rules'[k] \in Rule /\ rules'[k] # NoRule /\ rules'[k].key = k
PROOF
  <1> USE DEF AdminIInv
  <1> DEFINE new == [key |-> k, gen |-> gen + 1, ver |-> 1, body |-> body]
  <1>1. /\ rules[k] = NoRule /\ gen < MaxGen /\ gen' = gen + 1
        /\ rules' = [rules EXCEPT ![k] = new] /\ Returns(c, rules'[k])
    BY DEF Insert
  <1>2. gen' \in 0..MaxGen /\ gen \in Nat
    <2>1. gen \in 0..MaxGen
      BY DEF AdminTypeOK
    <2> QED BY <1>1, <2>1, RuleDBAssumption
  <1>3. new \in Rule /\ new.gen = gen + 1 /\ new.ver = 1 /\ new.key = k
    BY <1>1, <1>2, RuleDBAssumption DEF Rule
  <1>4. new \in RuleOrNone /\ new # NoRule
    BY <1>2, <1>3, RuleFields DEF RuleOrNone, NoRule
  <1> HIDE DEF new
  <1>5. /\ rules' \in [Key -> RuleOrNone] /\ rules'[k] = new
        /\ \A l \in Key : l # k => rules'[l] = rules[l]
    BY <1>1, <1>4 DEF AdminTypeOK
  <1>6. \A l \in Key : rules[l].gen \in Nat /\ rules[l].gen <= gen
    <2> SUFFICES ASSUME NEW l \in Key PROVE rules[l].gen \in Nat /\ rules[l].gen <= gen
      OBVIOUS
    <2>1. rules[l] \in RuleOrNone
      BY DEF AdminTypeOK
    <2>2. CASE rules[l] = NoRule
      BY <1>2, <2>2 DEF NoRule
    <2>3. CASE rules[l] # NoRule
      BY <2>1, <2>3, RuleFields DEF LifetimesDistinct
    <2> QED BY <2>2, <2>3
  <1>7. LifetimesDistinct'
    <2>1. \A l \in Key : rules'[l] # NoRule => rules'[l].key = l /\ rules'[l].gen <= gen'
      BY <1>1, <1>2, <1>3, <1>5, <1>6 DEF LifetimesDistinct
    <2>2. ASSUME NEW i \in Key, NEW l \in Key, rules'[i] # NoRule,
                 rules'[i].gen = rules'[l].gen
          PROVE  i = l
      BY <1>2, <1>3, <1>5, <1>6, <2>2 DEF LifetimesDistinct
    <2> QED BY <2>1, <2>2 DEF LifetimesDistinct
  <1>8. ASSUME NEW x \in RuleOrNone, CopyOK(x) PROVE CopyNext(x)
    <2> SUFFICES ASSUME x # NoRule
                 PROVE  /\ x.gen <= gen'
                        /\ \A l \in Key : rules'[l].gen = x.gen =>
                             x.ver <= rules'[l].ver /\ (x.ver = rules'[l].ver => x = rules'[l])
      BY DEF CopyNext
    <2>1. x.gen \in Nat /\ x.gen <= gen
      BY <1>8, RuleFields DEF CopyOK
    <2> QED BY <1>1, <1>2, <1>3, <1>5, <1>8, <2>1 DEF CopyOK
  <1>9. /\ held' \in [Client -> RuleOrNone] /\ held'[c] = new
        /\ \A d \in Client : d # c => held'[d] = held[d]
    BY <1>1, <1>4, <1>5, HeldByOthers
  <1>10. ASSUME NEW d \in Client PROVE CopyNext(held'[d])
    <2>1. CASE d = c
      <3>1. CopyNext(new)
        <4>1. new.gen <= gen'
          BY <1>1, <1>2, <1>3
        <4>2. ASSUME NEW l \in Key, rules'[l].gen = new.gen
              PROVE  new.ver <= rules'[l].ver /\ new = rules'[l]
          <5>1. l = k
            BY <1>2, <1>3, <1>5, <1>6, <4>2
          <5> QED BY <1>3, <1>5, <5>1
        <4> QED BY <4>1, <4>2 DEF CopyNext
      <3> QED BY <1>9, <2>1, <3>1
    <2>2. CASE d # c
      <3>1. held[d] \in RuleOrNone /\ CopyOK(held[d]) /\ held'[d] = held[d]
        BY <1>9, <2>2 DEF AdminTypeOK, CopiesOK
      <3> QED BY <1>8, <3>1
    <2> QED BY <2>1, <2>2
  <1> QED BY <1>1, <1>2, <1>3, <1>4, <1>5, <1>7, <1>8, <1>9, <1>10

\* Create without an idempotency key leaves the records as they are.
LEMMA CreateKeeps ==
  ASSUME AdminIInv, NEW c \in Client, NEW k \in Key, NEW body \in Body,
         Create(c, k, body)
  PROVE  DBKept /\ rules'[k] \in Rule /\ rules'[k].key = k
PROOF
  <1>1. Insert(c, k, body) /\ UNCHANGED <<idempotency, origin>>
    BY DEF Create
  <1>2. OriginRecorded' /\ OneCreationPerKey'
    BY <1>1 DEF OriginRecorded, OneCreationPerKey, AdminIInv
  <1>3. /\ idempotency' \in [IdemKey -> Record \cup {NoRecord}]
        /\ origin' \in [IdemKey -> SUBSET Nat]
    BY <1>1 DEF AdminIInv, AdminTypeOK
  <1> QED BY <1>1, <1>2, <1>3, InsertKeeps DEF DBKept

\* A new idempotency key has created nothing yet, and is recorded with the
\* creation it causes.
LEMMA CreateOnceKeeps ==
  ASSUME AdminIInv, NEW c \in Client, NEW k \in Key, NEW body \in Body,
         NEW ik \in IdemKey, CreateOnce(c, k, body, ik)
  PROVE  DBKept /\ rules'[k] \in Rule /\ rules'[k].key = k
PROOF
  <1> USE DEF AdminIInv
  <1> DEFINE record == [key |-> k, body |-> body]
  <1>1. /\ Insert(c, k, body) /\ idempotency[ik] = NoRecord
        /\ idempotency' = [idempotency EXCEPT ![ik] = record]
        /\ origin' = [origin EXCEPT ![ik] = origin[ik] \cup {gen'}]
    BY DEF CreateOnce
  <1>2. record \in Record /\ record # NoRecord
    BY RecordIsRecord DEF Record
  <1> HIDE DEF record
  <1>3. gen' \in Nat
    <2>1. gen' \in 0..MaxGen
      BY <1>1, InsertKeeps
    <2> QED BY <2>1
  <1>4. origin[ik] = {}
    BY <1>1 DEF OriginRecorded
  <1>5. /\ idempotency' \in [IdemKey -> Record \cup {NoRecord}]
        /\ idempotency'[ik] = record
        /\ \A j \in IdemKey : j # ik => idempotency'[j] = idempotency[j]
    BY <1>1, <1>2 DEF AdminTypeOK
  <1>6. /\ origin' \in [IdemKey -> SUBSET Nat] /\ origin'[ik] = {gen'}
        /\ \A j \in IdemKey : j # ik => origin'[j] = origin[j]
    BY <1>1, <1>3, <1>4 DEF AdminTypeOK
  <1>7. OriginRecorded'
    BY <1>2, <1>5, <1>6 DEF OriginRecorded
  <1>8. OneCreationPerKey'
    BY <1>6 DEF OneCreationPerKey
  <1> QED BY <1>1, <1>5, <1>6, <1>7, <1>8, InsertKeeps DEF DBKept

\* An update begins the next version of the lifetime: copies of the version
\* before it become older ones.
LEMMA UpdateKeeps ==
  ASSUME AdminIInv, NEW c \in Client, NEW k \in Key, NEW body \in Body,
         Update(c, k, body)
  PROVE  DBKept /\ rules'[k] \in Rule /\ rules'[k].key = k
PROOF
  <1> USE DEF AdminIInv
  <1> DEFINE old == rules[k]
             new == [key |-> k, gen |-> old.gen, ver |-> old.ver + 1, body |-> body]
  <1>1. old \in Rule /\ old # NoRule /\ old.key = k
    BY StoredRule DEF Update
  <1>2. old.ver < MaxVer /\ old.gen \in 1..MaxGen /\ old.ver \in 1..MaxVer
    BY <1>1 DEF Update, Rule
  <1>3. [[old EXCEPT !.ver = old.ver + 1] EXCEPT !.body = body] = new
    BY <1>1, NextVersion
  <1>4. rules' = [rules EXCEPT ![k] = new]
    BY <1>3 DEF Update, AdminTypeOK
  <1>5. new \in Rule /\ new.gen = old.gen /\ new.ver = old.ver + 1 /\ new.key = k
    BY <1>2, RuleDBAssumption DEF Rule
  <1>6. new \in RuleOrNone /\ new # NoRule
    <2>1. NoRule.gen = 0
      BY DEF NoRule
    <2> QED BY <1>2, <1>5, <2>1 DEF RuleOrNone
  <1>7. Returns(c, rules'[k]) /\ UNCHANGED <<idempotency, gen, origin>>
    BY DEF Update
  <1> HIDE DEF new, old
  <1>8. /\ rules' \in [Key -> RuleOrNone] /\ rules'[k] = new
        /\ \A l \in Key : l # k => rules'[l] = rules[l]
    BY <1>4, <1>6 DEF AdminTypeOK
  <1>9. \A l \in Key : rules'[l].gen = rules[l].gen /\ (rules'[l] # NoRule => rules[l] # NoRule)
    BY <1>1, <1>5, <1>8 DEF old
  <1>10. LifetimesDistinct'
    BY <1>1, <1>5, <1>7, <1>8, <1>9 DEF LifetimesDistinct
  <1>11. \A l \in Key : rules'[l].gen = old.gen => l = k
    BY <1>1, <1>9 DEF LifetimesDistinct, old
  <1>12. ASSUME NEW x \in RuleOrNone, CopyOK(x) PROVE CopyNext(x)
    <2> SUFFICES ASSUME x # NoRule, NEW l \in Key, rules'[l].gen = x.gen
                 PROVE  x.ver <= rules'[l].ver /\ (x.ver = rules'[l].ver => x = rules'[l])
      BY <1>7, <1>12 DEF CopyNext, CopyOK
    <2>1. x.ver \in Nat
      BY RuleFields
    <2>2. x.ver <= rules[l].ver /\ (x.ver = rules[l].ver => x = rules[l])
      BY <1>9, <1>12 DEF CopyOK
    <2>3. CASE l = k
      BY <1>2, <1>5, <1>8, <2>1, <2>2, <2>3 DEF old
    <2>4. CASE l # k
      BY <1>8, <2>2, <2>4
    <2> QED BY <2>3, <2>4
  <1>13. /\ held' \in [Client -> RuleOrNone] /\ held'[c] = new
         /\ \A d \in Client : d # c => held'[d] = held[d]
    BY <1>6, <1>7, <1>8, HeldByOthers
  <1>14. CopyNext(new)
    <2>1. new.gen <= gen'
      BY <1>1, <1>5, <1>7 DEF LifetimesDistinct, old
    <2>2. ASSUME NEW l \in Key, rules'[l].gen = new.gen
          PROVE  new.ver <= rules'[l].ver /\ new = rules'[l]
      <3>1. rules'[l] = new
        BY <1>5, <1>8, <1>11, <2>2
      <3> QED BY <1>2, <1>5, <3>1
    <2> QED BY <2>1, <2>2 DEF CopyNext
  <1>15. ASSUME NEW d \in Client PROVE CopyNext(held'[d])
    <2>1. held[d] \in RuleOrNone /\ CopyOK(held[d])
      BY DEF AdminTypeOK, CopiesOK
    <2> QED BY <1>12, <1>13, <1>14, <2>1
  <1>16. OriginRecorded' /\ OneCreationPerKey'
    BY <1>7 DEF OriginRecorded, OneCreationPerKey
  <1>17. /\ idempotency' \in [IdemKey -> Record \cup {NoRecord}]
         /\ origin' \in [IdemKey -> SUBSET Nat] /\ gen' \in 0..MaxGen
    BY <1>7 DEF AdminTypeOK
  <1> QED BY <1>5, <1>8, <1>10, <1>12, <1>13, <1>15, <1>16, <1>17 DEF DBKept

\* A deletion ends a lifetime; its copies are of none that is stored.
LEMMA DeleteKeeps ==
  ASSUME AdminIInv, NEW c \in Client, NEW k \in Key, Delete(c, k)
  PROVE  DBKept /\ rules[k] \in Rule /\ rules[k].key = k
PROOF
  <1> USE DEF AdminIInv
  <1>1. rules[k] \in Rule /\ rules[k].key = k
    BY StoredRule DEF Delete
  <1>2. /\ rules' = [rules EXCEPT ![k] = NoRule]
        /\ UNCHANGED <<idempotency, gen, held, origin>>
    BY DEF Delete
  <1>3. /\ rules' \in [Key -> RuleOrNone] /\ rules'[k] = NoRule
        /\ \A l \in Key : l # k => rules'[l] = rules[l]
    BY <1>2 DEF AdminTypeOK, RuleOrNone
  <1>4. \A l \in Key : rules[l] # NoRule => rules[l].gen > 0
    BY RuleFields DEF AdminTypeOK
  <1>5. NoRule.gen = 0
    BY DEF NoRule
  <1>6. LifetimesDistinct'
    <2>1. \A l \in Key : rules'[l] # NoRule => rules'[l].key = l /\ rules'[l].gen <= gen'
      BY <1>2, <1>3 DEF LifetimesDistinct
    <2>2. ASSUME NEW i \in Key, NEW l \in Key, rules'[i] # NoRule,
                 rules'[i].gen = rules'[l].gen
          PROVE  i = l
      <3>1. i # k /\ rules'[i] = rules[i] /\ rules[i].gen > 0
        BY <1>3, <1>4, <2>2
      <3>2. l # k
        BY <1>3, <1>5, <2>2, <3>1
      <3> QED BY <1>3, <2>2, <3>1, <3>2 DEF LifetimesDistinct
    <2> QED BY <2>1, <2>2 DEF LifetimesDistinct
  <1>7. ASSUME NEW x \in RuleOrNone, CopyOK(x) PROVE CopyNext(x)
    <2> SUFFICES ASSUME x # NoRule, NEW l \in Key, rules'[l].gen = x.gen
                 PROVE  x.ver <= rules'[l].ver /\ (x.ver = rules'[l].ver => x = rules'[l])
      BY <1>2, <1>7 DEF CopyNext, CopyOK
    <2>1. x.gen > 0
      BY RuleFields
    <2>2. l # k /\ rules'[l] = rules[l]
      BY <1>3, <1>5, <2>1
    <2> QED BY <1>7, <2>2 DEF CopyOK
  <1>8. ASSUME NEW d \in Client PROVE CopyNext(held'[d])
    BY <1>2, <1>7 DEF AdminTypeOK, CopiesOK
  <1>9. OriginRecorded' /\ OneCreationPerKey'
    BY <1>2 DEF OriginRecorded, OneCreationPerKey
  <1>10. /\ idempotency' \in [IdemKey -> Record \cup {NoRecord}]
         /\ origin' \in [IdemKey -> SUBSET Nat] /\ gen' \in 0..MaxGen
         /\ held' \in [Client -> RuleOrNone]
    BY <1>2 DEF AdminTypeOK
  <1> QED BY <1>1, <1>3, <1>6, <1>7, <1>8, <1>9, <1>10 DEF DBKept

------------------------------------------------------------------------------
(* The calls *)

\* What a step keeps of the calls, their answers and the announcements.
AdminKept ==
    /\ call' \in [Client -> {NoCall} \cup CallType]
    /\ reply' \in [Client -> {"none", "success", "client error", "server error"}]
    /\ committed' \in [Client -> BOOLEAN]
    /\ last' \in [Key -> LastType]
    /\ \A d \in Client : call'[d] # NoCall => CopyNext(call'[d].before)
    /\ LastUnderKey' /\ RefusalChangesNothing' /\ AnnouncedOrReported'

\* The invariant is that of the database together with that of the calls.
LEMMA BothKept ==
  ASSUME DBKept, AdminKept
  PROVE  AdminIInv'
PROOF
  <1>1. AdminTypeOK'
    BY DEF DBKept, AdminKept, AdminTypeOK, CallType, LastType
  <1>2. CopiesOK'
    BY DEF DBKept, AdminKept, CopiesOK, CopyOK, CopyNext
  <1> QED BY <1>1, <1>2 DEF DBKept, AdminKept, AdminIInv

\* The database as it was.
LEMMA SameDB ==
  ASSUME AdminIInv, UNCHANGED <<rules, idempotency, gen, origin>>
  PROVE  /\ \A x : CopyOK(x) => CopyNext(x)
         /\ UNCHANGED held => DBKept
PROOF
  <1>1. \A x : CopyOK(x) => CopyNext(x)
    BY DEF CopyOK, CopyNext
  <1>2. ASSUME UNCHANGED held PROVE DBKept
    <2>1. LifetimesDistinct' /\ OriginRecorded' /\ OneCreationPerKey'
      BY DEF AdminIInv, LifetimesDistinct, OriginRecorded, OneCreationPerKey
    <2>2. \A d \in Client : CopyNext(held'[d])
      BY <1>1, <1>2 DEF AdminIInv, CopiesOK
    <2> QED BY <1>1, <1>2, <2>1, <2>2 DEF DBKept, AdminIInv, AdminTypeOK
  <1> QED BY <1>1, <1>2

\* What a call under way falls back to is kept as what clients hold is.
LEMMA BeforeKept ==
  ASSUME AdminIInv, DBKept, NEW d \in Client, call[d] # NoCall
  PROVE  CopyNext(call[d].before)
PROOF
  <1>1. call[d] \in {NoCall} \cup CallType
    BY DEF AdminIInv, AdminTypeOK, CallType
  <1>2. call[d].before \in RuleOrNone
    BY <1>1, CallFields
  <1> QED BY <1>2 DEF AdminIInv, CopiesOK, DBKept

\* An answer without a change, and an answer to a read.
LEMMA AnswerKeeps ==
  ASSUME AdminIInv, DBKept, NEW c \in Client,
         NEW r \in {"none", "success", "client error", "server error"},
         reply' = [reply EXCEPT ![c] = r],
         committed' = [committed EXCEPT ![c] = FALSE],
         UNCHANGED <<call, last>>
  PROVE  AdminKept
PROOF
  <1> USE DEF AdminIInv
  <1>1. /\ call' \in [Client -> {NoCall} \cup CallType]
        /\ last' \in [Key -> LastType]
    BY DEF AdminTypeOK, CallType, LastType
  <1>2. /\ reply' \in [Client -> {"none", "success", "client error", "server error"}]
        /\ \A d \in Client : d # c => reply'[d] = reply[d]
    BY DEF AdminTypeOK
  <1>3. /\ committed' \in [Client -> BOOLEAN] /\ committed'[c] = FALSE
        /\ \A d \in Client : d # c => committed'[d] = committed[d]
    BY DEF AdminTypeOK
  <1>4. RefusalChangesNothing'
    BY <1>2, <1>3 DEF RefusalChangesNothing
  <1>5. LastUnderKey' /\ AnnouncedOrReported'
    BY DEF LastUnderKey, AnnouncedOrReported
  <1>6. \A d \in Client : call'[d] # NoCall => CopyNext(call'[d].before)
    BY BeforeKept
  <1> QED BY <1>1, <1>2, <1>3, <1>4, <1>5, <1>6 DEF AdminKept

\* A refused call leaves the database and the other calls alone.
LEMMA RefuseKeeps ==
  ASSUME AdminIInv, NEW c \in Client, NEW wire, NEW code, Refuse(c, wire, code)
  PROVE  AdminIInv'
PROOF
  <1>1. /\ reply' = [reply EXCEPT ![c] = Status(wire, code)]
        /\ committed' = [committed EXCEPT ![c] = FALSE]
        /\ UNCHANGED <<call, last>>
        /\ UNCHANGED <<rules, idempotency, gen, origin>> /\ UNCHANGED held
    BY DEF Refuse, vars
  <1>2. DBKept
    BY <1>1, SameDB
  <1>3. AdminKept
    BY <1>1, <1>2, StatusType, AnswerKeeps
  <1> QED BY <1>2, <1>3, BothKept

\* A call whose change is in the database goes on to announce the row.
LEMMA AnnounceKeeps ==
  ASSUME AdminIInv, DBKept, NEW c \in Client, NEW wire \in {"http", "grpc"},
         NEW row \in RowType, NEW change \in BOOLEAN,
         call[c] = NoCall, row # NoRow, Announce(c, wire, row, change)
  PROVE  AdminKept
PROOF
  <1> USE DEF AdminIInv
  <1> DEFINE new == [wire |-> wire, row |-> row, before |-> held[c]]
             note == [row |-> row, told |-> "nobody"]
  <1>1. /\ call' = [call EXCEPT ![c] = new]
        /\ committed' = [committed EXCEPT ![c] = change]
        /\ reply' = [reply EXCEPT ![c] = "none"]
        /\ last' = IF change THEN [last EXCEPT ![row.key] = note] ELSE last
    BY DEF Announce
  <1>2. held[c] \in RuleOrNone /\ CopyNext(held[c])
    <2>1. held[c] \in RuleOrNone /\ CopyOK(held[c])
      BY DEF AdminTypeOK, CopiesOK
    <2> QED BY <2>1 DEF DBKept
  <1>3. new \in CallType /\ new.row = row /\ new.before = held[c]
    BY <1>2 DEF CallType
  <1>4. new # NoCall
    <2>1. new.wire # "none" /\ NoCall.wire = "none"
      BY DEF NoCall
    <2> QED BY <2>1
  <1>5. note \in LastType /\ note.row = row /\ row.key \in Key
    BY DEF LastType, RowType
  <1> HIDE DEF new, note
  <1>6. /\ call' \in [Client -> {NoCall} \cup CallType] /\ call'[c] = new
        /\ \A d \in Client : d # c => call'[d] = call[d]
    BY <1>1, <1>3 DEF AdminTypeOK, CallType
  <1>7. /\ reply' \in [Client -> {"none", "success", "client error", "server error"}]
        /\ \A d \in Client : d # c => reply'[d] = reply[d]
    BY <1>1 DEF AdminTypeOK
  <1>8. /\ committed' \in [Client -> BOOLEAN]
        /\ \A d \in Client : d # c => committed'[d] = committed[d]
    BY <1>1 DEF AdminTypeOK
  <1>9. last \in [Key -> LastType]
    BY DEF AdminTypeOK, LastType
  <1>10. /\ last' \in [Key -> LastType]
         /\ \A k \in Key : last'[k] = last[k] \/ (k = row.key /\ last'[k] = note)
    BY <1>1, <1>5, <1>9
  <1>11. \A d \in Client : call'[d] # NoCall => CopyNext(call'[d].before)
    BY <1>2, <1>3, <1>6, BeforeKept
  <1>12. LastUnderKey'
    BY <1>5, <1>10 DEF LastUnderKey
  <1>13. RefusalChangesNothing'
    BY <1>4, <1>6, <1>7, <1>8 DEF RefusalChangesNothing
  <1>14. AnnouncedOrReported'
    <2> SUFFICES ASSUME NEW k \in Key, last'[k].row # NoRow, last'[k].told = "nobody"
                 PROVE  \E d \in Client : call'[d] # NoCall /\ call'[d].row = last'[k].row
      BY DEF AnnouncedOrReported
    <2>1. CASE last'[k] = last[k]
      <3>1. PICK d \in Client : call[d] # NoCall /\ call[d].row = last[k].row
        BY <2>1 DEF AnnouncedOrReported
      <3> QED BY <1>6, <2>1, <3>1
    <2>2. CASE last'[k] = note
      BY <1>3, <1>4, <1>5, <1>6, <2>2
    <2> QED BY <1>10, <2>1, <2>2
  <1> QED BY <1>6, <1>7, <1>8, <1>10, <1>11, <1>12, <1>13, <1>14 DEF AdminKept

\* Telling changes at most who was told of the row that is the last of its key.
LEMMA TellChanges ==
  ASSUME last \in [Key -> LastType], NEW row \in RowType,
         NEW whom \in {"outbox", "caller"}, Tell(row, whom)
  PROVE  /\ last' \in [Key -> LastType]
         /\ \A k \in Key : /\ last'[k].row = last[k].row
                           /\ last'[k].told = "nobody" => last[k].told = "nobody"
         /\ last[row.key].row = row => last'[row.key].told # "nobody"
PROOF
  <1> DEFINE k == row.key
             new == [row |-> last[k].row, told |-> whom]
  <1>1. k \in Key
    BY DEF RowType
  <1>2. last[k] \in LastType
    BY <1>1
  <1>3. new \in LastType /\ new.row = last[k].row /\ new.told = whom
    BY <1>2 DEF LastType
  <1>4. ASSUME NEW y \in LastType
        PROVE  [y EXCEPT !.told = whom] = [row |-> y.row, told |-> whom]
    BY DEF LastType
  <1>5. last' = IF last[k].row = row /\ last[k].told # "outbox"
                THEN [last EXCEPT ![k] = new] ELSE last
    BY <1>2, <1>4 DEF Tell
  <1> HIDE DEF new, k
  <1> QED BY <1>1, <1>2, <1>3, <1>5 DEF k

\* A call ends with an answer that is not the client's fault, and the outbox or
\* the caller was told of its row.
LEMMA CallEndKeeps ==
  ASSUME AdminIInv, DBKept, NEW c \in Client, NEW whom \in {"outbox", "caller"},
         NEW r \in {"success", "server error"},
         call[c] # NoCall, Tell(call[c].row, whom),
         reply' = [reply EXCEPT ![c] = r], call' = [call EXCEPT ![c] = NoCall],
         UNCHANGED committed
  PROVE  AdminKept
PROOF
  <1> USE DEF AdminIInv
  <1>1. last \in [Key -> LastType] /\ call \in [Client -> {NoCall} \cup CallType]
    BY DEF AdminTypeOK, LastType, CallType
  <1>2. call[c].row \in RowType
    BY <1>1, CallFields
  <1>3. /\ last' \in [Key -> LastType]
        /\ \A k \in Key : /\ last'[k].row = last[k].row
                          /\ last'[k].told = "nobody" => last[k].told = "nobody"
        /\ last[call[c].row.key].row = call[c].row => last'[call[c].row.key].told # "nobody"
    BY <1>1, <1>2, TellChanges
  <1>4. /\ call' \in [Client -> {NoCall} \cup CallType] /\ call'[c] = NoCall
        /\ \A d \in Client : d # c => call'[d] = call[d]
    BY <1>1
  <1>5. /\ reply' \in [Client -> {"none", "success", "client error", "server error"}]
        /\ reply'[c] # "client error"
        /\ \A d \in Client : d # c => reply'[d] = reply[d]
    BY DEF AdminTypeOK
  <1>6. committed' \in [Client -> BOOLEAN]
    BY DEF AdminTypeOK
  <1>7. \A d \in Client : call'[d] # NoCall => CopyNext(call'[d].before)
    BY <1>4, BeforeKept
  <1>8. LastUnderKey'
    BY <1>3 DEF LastUnderKey
  <1>9. RefusalChangesNothing'
    BY <1>4, <1>5 DEF RefusalChangesNothing
  <1>10. AnnouncedOrReported'
    <2> SUFFICES ASSUME NEW k \in Key, last'[k].row # NoRow, last'[k].told = "nobody"
                 PROVE  \E d \in Client : call'[d] # NoCall /\ call'[d].row = last'[k].row
      BY DEF AnnouncedOrReported
    <2>1. last[k].row # NoRow /\ last[k].told = "nobody" /\ last[k].row.key = k
      BY <1>3 DEF LastUnderKey
    <2>2. PICK d \in Client : call[d] # NoCall /\ call[d].row = last[k].row
      BY <2>1 DEF AnnouncedOrReported
    <2>3. d # c
      BY <1>3, <2>1, <2>2
    <2> QED BY <1>3, <1>4, <2>2, <2>3
  <1> QED BY <1>3, <1>4, <1>5, <1>6, <1>7, <1>8, <1>9, <1>10 DEF AdminKept

\* The outbox row of a committed change is written and the caller answered.
LEMMA EmitKeeps ==
  ASSUME AdminIInv, NEW c \in Client, Emit(c)
  PROVE  AdminIInv'
PROOF
  <1>1. DBKept
    BY SameDB DEF Emit, vars
  <1>2. AdminKept
    BY <1>1, CallEndKeeps DEF Emit
  <1> QED BY <1>1, <1>2, BothKept

\* The row is not written, and the caller is told so.
LEMMA EmitFailsKeeps ==
  ASSUME AdminIInv, NEW c \in Client, EmitFails(c)
  PROVE  AdminIInv'
PROOF
  <1> USE DEF AdminIInv
  <1>1. /\ call[c] # NoCall /\ Tell(call[c].row, "caller")
        /\ reply' = [reply EXCEPT ![c] = "server error"]
        /\ held' = [held EXCEPT ![c] = call[c].before]
        /\ call' = [call EXCEPT ![c] = NoCall] /\ UNCHANGED committed
        /\ UNCHANGED <<rules, idempotency, gen, origin>>
    BY NoCodeIsServerError DEF EmitFails
  <1>2. call[c].before \in RuleOrNone
    BY <1>1, CallFields DEF AdminTypeOK, CallType
  <1>3. /\ held' \in [Client -> RuleOrNone] /\ held'[c] = call[c].before
        /\ \A d \in Client : d # c => held'[d] = held[d]
    BY <1>1, <1>2 DEF AdminTypeOK
  <1>4. \A x : CopyOK(x) => CopyNext(x)
    BY <1>1, SameDB
  <1>5. \A d \in Client : CopyNext(held'[d])
    BY <1>1, <1>3, <1>4 DEF CopiesOK
  <1>6. LifetimesDistinct' /\ OriginRecorded' /\ OneCreationPerKey'
    BY <1>1 DEF LifetimesDistinct, OriginRecorded, OneCreationPerKey
  <1>7. DBKept
    BY <1>1, <1>3, <1>4, <1>5, <1>6 DEF DBKept, AdminTypeOK
  <1>8. AdminKept
    BY <1>1, <1>7, CallEndKeeps
  <1> QED BY <1>7, <1>8, BothKept

\* A create, with or without an idempotency key, or its refusal.
LEMMA CreateRuleKeeps ==
  ASSUME AdminIInv, NEW c \in Client, NEW wire \in {"http", "grpc"}, NEW k \in Key,
         NEW body \in Body, NEW ik \in IdemKey \cup {NoIdem},
         CreateRule(c, wire, k, body, ik)
  PROVE  AdminIInv'
PROOF
  <1>1. call[c] = NoCall
    BY DEF CreateRule
  <1>2. CASE /\ IF ik = NoIdem THEN Create(c, k, body) ELSE CreateOnce(c, k, body, ik)
             /\ Announce(c, wire, Row(rules'[k], "upsert"), TRUE)
    <2>1. DBKept /\ rules'[k] \in Rule
      BY <1>2, CreateKeeps, CreateOnceKeeps
    <2>2. AdminKept
      BY <1>1, <1>2, <2>1, RowOfRule, AnnounceKeeps
    <2> QED BY <2>1, <2>2, BothKept
  <1>3. CASE /\ CreateAgain(c, k, body, ik)
             /\ Announce(c, wire, Row(rules[k], "upsert"), FALSE)
    <2>1. DBKept /\ rules[k] \in Rule
      BY <1>3, ReadKeeps, StoredRule DEF CreateAgain, AdminIInv
    <2>2. AdminKept
      BY <1>1, <1>3, <2>1, RowOfRule, AnnounceKeeps
    <2> QED BY <2>1, <2>2, BothKept
  <1>4. CASE Refuse(c, wire, "CONFLICT")
    BY <1>4, RefuseKeeps
  <1> QED BY <1>2, <1>3, <1>4 DEF CreateRule

\* An update, or its refusal.
LEMMA UpdateRuleKeeps ==
  ASSUME AdminIInv, NEW c \in Client, NEW wire \in {"http", "grpc"}, NEW k \in Key,
         NEW body \in Body, UpdateRule(c, wire, k, body)
  PROVE  AdminIInv'
PROOF
  <1>1. call[c] = NoCall
    BY DEF UpdateRule
  <1>2. CASE Update(c, k, body) /\ Announce(c, wire, Row(rules'[k], "upsert"), TRUE)
    <2>1. DBKept /\ rules'[k] \in Rule
      BY <1>2, UpdateKeeps
    <2>2. AdminKept
      BY <1>1, <1>2, <2>1, RowOfRule, AnnounceKeeps
    <2> QED BY <2>1, <2>2, BothKept
  <1>3. CASE Refuse(c, wire, VersionError(c, k))
    BY <1>3, RefuseKeeps
  <1> QED BY <1>2, <1>3 DEF UpdateRule

\* A delete, or its refusal.
LEMMA DeleteRuleKeeps ==
  ASSUME AdminIInv, NEW c \in Client, NEW wire \in {"http", "grpc"}, NEW k \in Key,
         DeleteRule(c, wire, k)
  PROVE  AdminIInv'
PROOF
  <1>1. call[c] = NoCall
    BY DEF DeleteRule
  <1>2. CASE Delete(c, k) /\ Announce(c, wire, Row(rules[k], "delete"), TRUE)
    <2>1. DBKept /\ rules[k] \in Rule
      BY <1>2, DeleteKeeps
    <2>2. AdminKept
      BY <1>1, <1>2, <2>1, RowOfRule, AnnounceKeeps
    <2> QED BY <2>1, <2>2, BothKept
  <1>3. CASE Refuse(c, wire, VersionError(c, k))
    BY <1>3, RefuseKeeps
  <1> QED BY <1>2, <1>3 DEF DeleteRule

\* A read, or its refusal.
LEMMA GetRuleKeeps ==
  ASSUME AdminIInv, NEW c \in Client, NEW wire, NEW k \in Key, GetRule(c, wire, k)
  PROVE  AdminIInv'
PROOF
  <1>1. CASE /\ Get(c, k) /\ reply' = [reply EXCEPT ![c] = "success"]
             /\ committed' = [committed EXCEPT ![c] = FALSE]
             /\ UNCHANGED <<call, last>>
    <2>1. DBKept
      BY <1>1, ReadKeeps DEF Get
    <2>2. AdminKept
      BY <1>1, <2>1, AnswerKeeps
    <2> QED BY <2>1, <2>2, BothKept
  <1>2. CASE Refuse(c, wire, "NOT_FOUND")
    BY <1>2, RefuseKeeps
  <1> QED BY <1>1, <1>2 DEF GetRule

\* Every call of a client, over either wire.
LEMMA CallsKeep ==
  ASSUME AdminIInv, NEW c \in Client, NEW wire \in {"http", "grpc"},
         NEW bodies \in SUBSET Body, Calls(c, wire, bodies)
  PROVE  AdminIInv'
PROOF
  <1>1. CASE Reject(c, wire)
    BY <1>1, RefuseKeeps DEF Reject
  <1>2. ASSUME NEW k \in Key, GetRule(c, wire, k) PROVE AdminIInv'
    BY <1>2, GetRuleKeeps
  <1>3. ASSUME NEW k \in Key, DeleteRule(c, wire, k) PROVE AdminIInv'
    BY <1>3, DeleteRuleKeeps
  <1>4. ASSUME NEW k \in Key, NEW body \in bodies, UpdateRule(c, wire, k, body)
        PROVE  AdminIInv'
    BY <1>4, UpdateRuleKeeps
  <1>5. ASSUME NEW k \in Key, NEW body \in bodies, NEW ik \in IdemKey \cup {NoIdem},
               CreateRule(c, wire, k, body, ik)
        PROVE  AdminIInv'
    BY <1>5, CreateRuleKeeps
  <1> QED BY <1>1, <1>2, <1>3, <1>4, <1>5 DEF Calls

------------------------------------------------------------------------------
(* The inductive invariant *)

\* The empty database.
LEMMA AdminInitInv ==
  ASSUME AdminInit
  PROVE  AdminIInv
PROOF
  <1> USE DEF AdminInit, Init
  <1>1. NoRule \in RuleOrNone /\ NoRule.gen = 0
    BY DEF RuleOrNone, NoRule
  <1>2. AdminTypeOK
    <2>1. gen \in 0..MaxGen
      BY RuleDBAssumption
    <2>2. /\ rules \in [Key -> RuleOrNone] /\ held \in [Client -> RuleOrNone]
          /\ idempotency \in [IdemKey -> Record \cup {NoRecord}]
          /\ origin \in [IdemKey -> SUBSET Nat]
      BY <1>1
    <2>3. /\ call \in [Client -> {NoCall} \cup CallType]
          /\ reply \in [Client -> {"none", "success", "client error", "server error"}]
          /\ committed \in [Client -> BOOLEAN]
      OBVIOUS
    <2>4. last \in [Key -> LastType]
      BY DEF LastType
    <2> QED BY <2>1, <2>2, <2>3, <2>4 DEF AdminTypeOK, CallType, LastType
  <1>3. LifetimesDistinct /\ CopiesOK
    BY <1>1 DEF LifetimesDistinct, CopiesOK, CopyOK
  <1>4. OriginRecorded /\ OneCreationPerKey
    BY DEF OriginRecorded, OneCreationPerKey
  <1>5. LastUnderKey /\ RefusalChangesNothing /\ AnnouncedOrReported
    BY DEF LastUnderKey, RefusalChangesNothing, AnnouncedOrReported
  <1> QED BY <1>2, <1>3, <1>4, <1>5 DEF AdminIInv

\* Every step keeps the invariant.
LEMMA AdminNextInv ==
  ASSUME AdminIInv, [AdminNext]_allVars
  PROVE  AdminIInv'
PROOF
  <1>1. CASE UNCHANGED allVars
    <2>1. DBKept
      BY <1>1, SameDB DEF allVars, vars
    <2>2. AdminKept
      <3>1. UNCHANGED <<call, reply, committed, last>>
        BY <1>1 DEF allVars, adminVars
      <3>2. LastUnderKey' /\ RefusalChangesNothing' /\ AnnouncedOrReported'
        BY <3>1 DEF AdminIInv, LastUnderKey, RefusalChangesNothing, AnnouncedOrReported
      <3>3. \A d \in Client : call'[d] # NoCall => CopyNext(call'[d].before)
        BY <2>1, <3>1, BeforeKept
      <3> QED BY <3>1, <3>2, <3>3 DEF AdminKept, AdminIInv, AdminTypeOK, CallType, LastType
    <2> QED BY <2>1, <2>2, BothKept
  <1>2. ASSUME NEW c \in Client, Emit(c) PROVE AdminIInv'
    BY <1>2, EmitKeeps
  <1>3. ASSUME NEW c \in Client, EmitFails(c) PROVE AdminIInv'
    BY <1>3, EmitFailsKeeps
  <1>4. ASSUME NEW c \in Client, handleRules(c) PROVE AdminIInv'
    BY <1>4, CallsKeep DEF handleRules
  <1>5. ASSUME NEW c \in Client, grpcAdminServer(c) PROVE AdminIInv'
    BY <1>5, CallsKeep DEF grpcAdminServer
  <1> QED BY <1>1, <1>2, <1>3, <1>4, <1>5 DEF AdminNext

\* Hence the invariant always holds.
LEMMA AdminInductive == AdminSpec => []AdminIInv
PROOF
  BY AdminInitInv, AdminNextInv, PTL DEF AdminSpec

\* Whatever the clients retry, whoever deletes or updates the rule in between,
\* InMemoryRuleDB.Create creates at most one rule for an idempotency key.
THEOREM AdminOneCreationPerKey == AdminSpec => []OneCreationPerKey
PROOF
  <1>1. AdminIInv => OneCreationPerKey
    BY DEF AdminIInv
  <1> QED BY <1>1, AdminInductive, PTL

\* The version that Update and Delete compare names the contents of the rule:
\* what a client holds is the stored rule or an older version of it, also when
\* its last call failed in the outbox and it went back to what it held before.
THEOREM AdminVersionIdentifiesRule == AdminSpec => []VersionIdentifiesRule
PROOF
  <1>1. AdminIInv => VersionIdentifiesRule
    BY DEF AdminIInv, CopiesOK, CopyOK, VersionIdentifiesRule
  <1> QED BY <1>1, AdminInductive, PTL

\* On neither wire does a client error hide a change that was made.
THEOREM AdminRefusalChangesNothing == AdminSpec => []RefusalChangesNothing
PROOF
  <1>1. AdminIInv => RefusalChangesNothing
    BY DEF AdminIInv
  <1> QED BY <1>1, AdminInductive, PTL

\* The last change of a rule is in the outbox, or a call is about to put it
\* there, or its caller was told of a server error.
THEOREM AdminAnnouncedOrReported == AdminSpec => []AnnouncedOrReported
PROOF
  <1>1. AdminIInv => AnnouncedOrReported
    BY DEF AdminIInv
  <1> QED BY <1>1, AdminInductive, PTL

\* A call that changes the database changes one rule: one that was not there, or
\* one whose version is that of the client's copy.
LEMMA WriterHoldsVersion ==
  ASSUME AdminTypeOK, NEW d \in Client, NEW wire, NEW bodies, Calls(d, wire, bodies),
         NEW k \in Key, rules'[k] # rules[k], rules[k] # NoRule
  PROVE  /\ held[d] # NoRule /\ rules[k].ver = held[d].ver
         /\ \A c \in Client : c # d => call'[c] = call[c]
PROOF
  <1>1. DOMAIN rules = Key /\ DOMAIN call = Client
    BY DEF AdminTypeOK
  <1>2. rules' # rules
    OBVIOUS
  <1>3. PICK l \in Key : \/ DeleteRule(d, wire, l)
                         \/ \E body \in bodies :
                              \/ UpdateRule(d, wire, l, body)
                              \/ \E ik \in IdemKey \cup {NoIdem} : CreateRule(d, wire, l, body, ik)
    BY <1>2 DEF Calls, Reject, GetRule, Get, Refuse, vars
  <1>4. ASSUME NEW row, NEW change, Announce(d, wire, row, change)
        PROVE  \A c \in Client : c # d => call'[c] = call[c]
    BY <1>1, <1>4 DEF Announce
  <1>5. CASE DeleteRule(d, wire, l)
    <2>1. Delete(d, l) /\ Announce(d, wire, Row(rules[l], "delete"), TRUE)
      BY <1>2, <1>5 DEF DeleteRule, Refuse, vars
    <2>2. k = l
      BY <1>1, <2>1 DEF Delete
    <2> QED BY <1>4, <2>1, <2>2 DEF Delete
  <1>6. ASSUME NEW body \in bodies, UpdateRule(d, wire, l, body)
        PROVE  /\ held[d] # NoRule /\ rules[k].ver = held[d].ver
               /\ \A c \in Client : c # d => call'[c] = call[c]
    <2>1. Update(d, l, body) /\ Announce(d, wire, Row(rules'[l], "upsert"), TRUE)
      BY <1>2, <1>6 DEF UpdateRule, Refuse, vars
    <2>2. k = l
      BY <1>1, <2>1 DEF Update
    <2> QED BY <1>4, <2>1, <2>2 DEF Update
  <1>7. ASSUME NEW body \in bodies, NEW ik \in IdemKey \cup {NoIdem},
               CreateRule(d, wire, l, body, ik)
        PROVE  FALSE
    <2>1. Insert(d, l, body)
      BY <1>2, <1>7 DEF CreateRule, Create, CreateOnce, CreateAgain, Refuse, vars
    <2> QED BY <1>1, <2>1 DEF Insert
  <1> QED BY <1>3, <1>5, <1>6, <1>7

\* Update and Delete of InMemoryRuleDB replace only what their caller has seen,
\* for any number of clients on both wires, because within a lifetime the version
\* they compare identifies the rule.
THEOREM AdminNoLostUpdate == AdminSpec => NoLostUpdate
PROOF
  <1> DEFINE Seen == \A c \in Client, k \in Key :
                       /\ call'[c] # call[c] /\ rules'[k] # rules[k]
                       /\ rules[k] # NoRule /\ held[c].gen = rules[k].gen
                       => held[c] = rules[k]
  <1>1. AdminIInv /\ [AdminNext]_allVars => [Seen]_allVars
    <2> SUFFICES ASSUME AdminIInv, AdminNext, NEW c \in Client, NEW k \in Key,
                        call'[c] # call[c], rules'[k] # rules[k],
                        rules[k] # NoRule, held[c].gen = rules[k].gen
                 PROVE  held[c] = rules[k]
      OBVIOUS
    <2>1. PICK d \in Client : handleRules(d) \/ grpcAdminServer(d)
      BY DEF AdminNext, Emit, EmitFails, vars
    <2>2. /\ held[d] # NoRule /\ rules[k].ver = held[d].ver
          /\ \A e \in Client : e # d => call'[e] = call[e]
      BY <2>1, WriterHoldsVersion DEF handleRules, grpcAdminServer, AdminIInv
    <2>3. c = d
      BY <2>2
    <2>4. VersionIdentifiesRule
      BY DEF AdminIInv, CopiesOK, CopyOK, VersionIdentifiesRule
    <2> QED BY <2>2, <2>3, <2>4 DEF VersionIdentifiesRule
  <1>2. AdminSpec => [][Seen]_allVars
    BY <1>1, AdminInductive, PTL DEF AdminSpec
  <1> QED BY <1>2 DEF NoLostUpdate

==============================================================================
