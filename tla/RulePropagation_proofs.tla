------------------------ MODULE RulePropagation_proofs ------------------------
(***************************************************************************)
(* Safety of the path from an admin write to the limiters, for any number  *)
(* of instances, publishers, admin calls and requests, and any bound on    *)
(* the writes: IInv is inductive, and it has the three invariants of the   *)
(* runs among its parts.                                                   *)
(***************************************************************************)
EXTENDS RulePropagation, TLAPS

------------------------------------------------------------------------------
(* Operators *)

\* An appended row is a new one; the others keep their place.
LEMMA AppendRow ==
  ASSUME NEW s \in Seq(Row), NEW e \in Row
  PROVE  /\ Append(s, e) \in Seq(Row)
         /\ DOMAIN Append(s, e) = DOMAIN s \cup {Len(s) + 1}
         /\ Len(s) + 1 \notin DOMAIN s
         /\ \A i \in DOMAIN s : Append(s, e)[i] = s[i]
         /\ Append(s, e)[Len(s) + 1] = e
PROOF
  OBVIOUS

\* A cached rule never becomes older by UpsertIfNewer, and is then at least as
\* new as the rule offered.
LEMMA UpsertGrows ==
  ASSUME NEW old \in Version, NEW rule \in Version
  PROVE  /\ UpsertIfNewer(old, rule) \in Version
         /\ UpsertIfNewer(old, rule).ver >= old.ver
         /\ UpsertIfNewer(old, rule).ver >= rule.ver
PROOF
  BY DEF UpsertIfNewer, Version

\* A deletion leaves a rule.
LEMMA DeleteType ==
  ASSUME NEW old \in Version, NEW ver \in Nat
  PROVE  DeleteIfOlderOrEqual(old, ver) \in Version
PROOF
  BY DEF DeleteIfOlderOrEqual, Version, NoRule

\* An update raises the version and nothing else.
LEMMA NextVersion ==
  ASSUME NEW rule \in Version
  PROVE  [rule EXCEPT !.ver = @ + 1] = [gen |-> rule.gen, ver |-> rule.ver + 1]
PROOF
  BY DEF Version

\* What the type invariant says of a row, a handler, a call and a request.
LEMMA RowType ==
  ASSUME TypeOK, NEW i \in DOMAIN outbox
  PROVE  /\ outbox[i] \in Row /\ outbox[i].act \in {"upsert", "delete"}
         /\ outbox[i].ver \in Nat /\ outbox[i].to \subseteq Node
         /\ outbox[i].sent \in BOOLEAN
PROOF
  <1>1. outbox[i] \in Row
    BY DEF TypeOK
  <1> QED BY <1>1 DEF Row

\* Marking a row changes nothing but its mark.
LEMMA MarkRow ==
  ASSUME TypeOK, NEW i \in DOMAIN outbox, outbox' = [outbox EXCEPT ![i].sent = TRUE]
  PROVE  /\ outbox' \in Seq(Row) /\ DOMAIN outbox' = DOMAIN outbox
         /\ \A j \in DOMAIN outbox :
              /\ outbox'[j].act = outbox[j].act /\ outbox'[j].ver = outbox[j].ver
              /\ outbox'[j].to = outbox[j].to
         /\ \A j \in DOMAIN outbox : j # i => outbox'[j].sent = outbox[j].sent
PROOF
  <1>1. outbox \in [1..Len(outbox) -> Row] /\ Len(outbox) \in Nat
    BY DEF TypeOK
  <1>2. outbox[i] \in Row
    BY RowType
  <1>3. [outbox[i] EXCEPT !.sent = TRUE] \in Row
    BY <1>2 DEF Row
  <1>4. outbox' = [outbox EXCEPT ![i] = [outbox[i] EXCEPT !.sent = TRUE]]
    OBVIOUS
  <1>5. outbox' \in [1..Len(outbox) -> Row]
    BY <1>1, <1>3, <1>4
  <1>6. outbox'[i] = [outbox[i] EXCEPT !.sent = TRUE]
    BY <1>1, <1>4
  <1>7. /\ outbox'[i].act = outbox[i].act /\ outbox'[i].ver = outbox[i].ver
        /\ outbox'[i].to = outbox[i].to
    BY <1>2, <1>6 DEF Row
  <1>8. \A j \in DOMAIN outbox : j # i => outbox'[j] = outbox[j]
    BY <1>1, <1>4
  <1> QED BY <1>1, <1>5, <1>7, <1>8

\* The fields of a handler.
LEMMA HandlerType ==
  ASSUME TypeOK, NEW h \in handlers
  PROVE  /\ h \in Handler /\ h.node \in Node /\ h.row \in DOMAIN outbox
         /\ h.rule \in Version /\ h.rule.ver \in Nat
         /\ h.pc \in {"drop", "get", "upsert", "cutover"}
PROOF
  BY DEF TypeOK, Handler, Version

\* A handler that has found the rule.
LEMMA FoundRecord ==
  ASSUME NEW h \in Handler, NEW rule \in Version
  PROVE  [node |-> h.node, by |-> h.by, row |-> h.row, rule |-> rule, pc |-> "upsert"]
           = [h EXCEPT !.pc = "upsert", !.rule = rule]
PROOF
  <1>1. [h EXCEPT !.pc = "upsert", !.rule = rule]
          = [[h EXCEPT !.pc = "upsert"] EXCEPT !.rule = rule]
    BY DEF Handler
  <1>2. [h EXCEPT !.pc = "upsert"] =
          [node |-> h.node, by |-> h.by, row |-> h.row, rule |-> h.rule, pc |-> "upsert"]
    BY DEF Handler
  <1> DEFINE g == [node |-> h.node, by |-> h.by, row |-> h.row, rule |-> h.rule, pc |-> "upsert"]
  <1>3. g \in Handler
    BY DEF Handler
  <1>4. /\ g.node = h.node /\ g.by = h.by /\ g.row = h.row /\ g.pc = "upsert"
    OBVIOUS
  <1> HIDE DEF g
  <1>5. [g EXCEPT !.rule = rule] =
          [node |-> g.node, by |-> g.by, row |-> g.row, rule |-> rule, pc |-> g.pc]
    BY <1>3 DEF Handler
  <1>6. [h EXCEPT !.pc = "upsert"] = g
    BY <1>2 DEF g
  <1> QED BY <1>1, <1>4, <1>5, <1>6

\* The fields of an admin call under way.
LEMMA CallType ==
  ASSUME TypeOK, NEW a \in Admin, admin[a] # Idle
  PROVE  /\ admin[a] \in Call /\ admin[a].pc \in {"cache", "emit"}
         /\ admin[a].act \in {"upsert", "delete"}
         /\ admin[a].rule \in Version /\ admin[a].rule.ver \in Nat
PROOF
  BY DEF TypeOK, Call, Version

\* The fields of a request inside Acquire.
LEMMA ReadType ==
  ASSUME TypeOK, NEW r \in Request, req[r] # Idle
  PROVE  /\ req[r] \in Read /\ req[r].pc = "read" /\ req[r].node \in Node
         /\ req[r].rule \in Version /\ req[r].crossed \in BOOLEAN
PROOF
  BY DEF TypeOK, Read, Version

------------------------------------------------------------------------------
(* Steps that leave a part of the state alone *)

\* Delivery depends on the outbox, the publishers and the handlers only.
LEMMA DeliveryFrame ==
  ASSUME PublishedIsDelivered, AtLeastOnce, UNCHANGED <<messages, consumers>>
  PROVE  PublishedIsDelivered' /\ AtLeastOnce'
PROOF
  BY DEF PublishedIsDelivered, AtLeastOnce, Delivered, IsHead, messages, consumers

\* A part of the invariant that looks at nothing a step changes stays true.
LEMMA LifeFrame ==
  ASSUME LifetimeInv, AnnouncedInv, UNCHANGED <<store, outbox, consumers, admin>>
  PROVE  LifetimeInv' /\ AnnouncedInv'
PROOF
  BY DEF LifetimeInv, AnnouncedInv, NeverDeleted, store, consumers

\* A step that leaves the pools and what was handled alone.
LEMMA PoolFrame ==
  ASSUME ReadInv, PoolFollowsEvents, UNCHANGED <<db, outbox, handled, pools>>,
         regressed \subseteq regressed'
  PROVE  ReadInv' /\ PoolFollowsEvents'
PROOF
  BY DEF ReadInv, PoolFollowsEvents, NeverDeleted, pools

\* A step that leaves the caches and handlers alone.
LEMMA CacheFrame ==
  ASSUME HandlerInv, EventsSuffice,
         UNCHANGED <<db, outbox, consumers, cache, regressed>>
  PROVE  HandlerInv' /\ EventsSuffice'
PROOF
  BY DEF HandlerInv, EventsSuffice, NeverDeleted, consumers

\* As long as caches only get newer, or are known to have gone back, what was
\* achieved stays achieved.
LEMMA CacheGrows ==
  ASSUME TypeOK, HandlerInv, EventsSuffice,
         UNCHANGED <<db, outbox, consumers>>,
         cache' \in [Node -> Version], regressed \subseteq regressed',
         NeverDeleted => \A n \in Node \ regressed' : cache'[n].ver >= cache[n].ver
  PROVE  HandlerInv' /\ EventsSuffice'
PROOF
  <1> USE DEF NeverDeleted, consumers
  <1>1. \A n \in Node : cache[n].ver \in Nat /\ cache'[n].ver \in Nat
    BY DEF TypeOK, Version
  <1>2. \A i \in DOMAIN outbox : outbox[i].ver \in Nat
    BY RowType
  <1>3. HandlerInv'
    BY <1>1, <1>2, HandlerType DEF HandlerInv
  <1>4. EventsSuffice'
    BY <1>1, <1>2 DEF EventsSuffice
  <1> QED BY <1>3, <1>4

------------------------------------------------------------------------------

\* An empty deployment satisfies the invariant.
LEMMA InitInv == Init => IInv
PROOF
  <1> SUFFICES ASSUME Init PROVE IInv
    OBVIOUS
  <1> USE DEF Init
  <1>1. TypeOK
    BY DEF TypeOK, Version, NoRule, NoSnapshot, Idle
  <1>2. PublishedIsDelivered /\ AtLeastOnce
    BY DEF PublishedIsDelivered, AtLeastOnce
  <1>3. ~NeverDeleted
    BY DEF NeverDeleted, NoRule
  <1>4. LifetimeInv
    BY DEF LifetimeInv
  <1> QED
    BY <1>1, <1>2, <1>3, <1>4
    DEF IInv, AnnouncedInv, HandlerInv, EventsSuffice, ReadInv, PoolFollowsEvents

------------------------------------------------------------------------------
(* AdminHandler *)

\* A write that commits starts the first lifetime, stays in it and only raises
\* the version, or leaves it.
LEMMA CommitInv ==
  ASSUME IInv, NEW a \in Admin, NEW n \in AdminNode, AdminCall(a, n)
  PROVE  IInv'
PROOF
  <1> USE DEF IInv
  <1>1. PICK act \in {"upsert", "delete"}, rule \in Version :
          /\ Committed(a, n, act, rule)
          /\ \/ /\ db = NoRule /\ act = "upsert" /\ rule = db'
                /\ db' = [gen |-> gens + 1, ver |-> 1] /\ gens' = gens + 1
             \/ /\ db # NoRule /\ act = "upsert" /\ rule = db'
                /\ db'.gen = db.gen /\ db'.ver \in {db.ver, db.ver + 1} /\ gens' = gens
             \/ db # NoRule /\ db' = NoRule /\ gens' = gens
    <2>1. CASE CreateRule(a, n)
      <3>1. /\ db = NoRule /\ db' = [gen |-> gens + 1, ver |-> 1] /\ gens' = gens + 1
            /\ Committed(a, n, "upsert", db')
        BY <2>1 DEF CreateRule
      <3>2. db' \in Version
        BY <3>1 DEF TypeOK, Version
      <3> QED BY <3>1, <3>2
    <2>2. CASE ReplayCreate(a, n)
      BY <2>2 DEF ReplayCreate, TypeOK
    <2>3. CASE UpdateRule(a, n)
      <3>1. db' = [gen |-> db.gen, ver |-> db.ver + 1]
        BY <2>3, NextVersion DEF UpdateRule, TypeOK
      <3>2. db' \in Version /\ db'.gen = db.gen /\ db'.ver = db.ver + 1
        BY <3>1 DEF TypeOK, Version
      <3>3. db # NoRule /\ Committed(a, n, "upsert", db') /\ gens' = gens
        BY <2>3 DEF UpdateRule
      <3> QED BY <3>2, <3>3
    <2>4. CASE DeleteRule(a, n)
      BY <2>4 DEF DeleteRule, TypeOK
    <2> QED BY <2>1, <2>2, <2>3, <2>4 DEF AdminCall
  <1>2. /\ admin[a] = Idle /\ writes' = writes + 1
        /\ admin' = [admin EXCEPT ![a] =
                       [pc |-> "cache", node |-> n, act |-> act, rule |-> rule]]
        /\ UNCHANGED <<caches, messages, consumers, pools>>
    BY <1>1 DEF Committed
  <1>3. db' \in Version /\ gens' \in Nat
    BY <1>1 DEF TypeOK, Version, NoRule
  <1>4. TypeOK'
    BY <1>2, <1>3 DEF TypeOK, Call, caches, messages, consumers, pools
  <1>5. PublishedIsDelivered' /\ AtLeastOnce'
    BY <1>2, DeliveryFrame
  <1>6. LifetimeInv'
    <2>1. db' # NoRule => db'.gen = gens' /\ gens' > 0
      BY <1>1 DEF LifetimeInv, TypeOK
    <2>2. gens' # 0
      BY <1>1 DEF LifetimeInv, TypeOK
    <2> QED BY <2>1, <2>2 DEF LifetimeInv
  <1>7. CASE NeverDeleted'
    <2>1. act = "upsert" /\ rule = db'
      BY <1>1, <1>7 DEF NeverDeleted, NoRule
    <2>2. \A b \in Admin : b # a => admin'[b] = admin[b]
      BY <1>2 DEF TypeOK
    <2>3. admin'[a].act = "upsert" /\ admin'[a].rule = db'
      BY <1>2, <2>1 DEF TypeOK
    <2>4. CASE db = NoRule
      <3>1. gens = 0
        BY <1>1, <1>7, <2>4 DEF NeverDeleted, NoRule, TypeOK
      <3>2. /\ outbox' = << >> /\ handlers' = {} /\ handled' = {}
            /\ \A b \in Admin : admin[b] = Idle
        BY <1>2, <3>1 DEF LifetimeInv, messages, consumers
      <3>3. db'.ver \in Nat
        BY <1>3 DEF Version
      <3>4. AnnouncedInv'
        BY <2>2, <2>3, <3>2, <3>3 DEF AnnouncedInv
      <3>5. HandlerInv' /\ EventsSuffice' /\ ReadInv' /\ PoolFollowsEvents'
        BY <3>2 DEF HandlerInv, EventsSuffice, ReadInv, PoolFollowsEvents
      <3> QED BY <1>4, <1>5, <1>6, <3>4, <3>5
    <2>5. CASE db # NoRule
      <3>1. NeverDeleted /\ db'.ver >= db.ver
        BY <1>1, <1>7, <2>5 DEF NeverDeleted, NoRule, TypeOK, Version
      <3>2. db.ver \in Nat /\ db'.ver \in Nat
        BY <1>3 DEF TypeOK, Version
      <3>3. AnnouncedInv'
        <4>1. ASSUME NEW b \in Admin, admin'[b] # Idle
              PROVE  admin'[b].act = "upsert" /\ admin'[b].rule.ver <= db'.ver
          <5>1. CASE b = a
            BY <2>3, <3>2, <5>1
          <5>2. CASE b # a
            BY <2>2, <3>1, <3>2, <4>1, <5>2, CallType DEF AnnouncedInv
          <5> QED BY <5>1, <5>2
        <4>2. ASSUME NEW i \in DOMAIN outbox'
              PROVE  outbox'[i].act = "upsert" /\ outbox'[i].ver <= db'.ver
          BY <1>2, <3>1, <3>2, RowType DEF AnnouncedInv, messages
        <4> QED BY <4>1, <4>2 DEF AnnouncedInv
      <3>4. HandlerInv' /\ EventsSuffice' /\ ReadInv' /\ PoolFollowsEvents'
        BY <1>2, <3>1
        DEF HandlerInv, EventsSuffice, ReadInv, PoolFollowsEvents,
            caches, messages, consumers, pools
      <3> QED BY <1>4, <1>5, <1>6, <3>3, <3>4
    <2> QED BY <2>4, <2>5
  <1>8. CASE ~NeverDeleted'
    BY <1>4, <1>5, <1>6, <1>8
    DEF AnnouncedInv, HandlerInv, EventsSuffice, ReadInv, PoolFollowsEvents
  <1> QED BY <1>7, <1>8

\* The instance's own cache: an upsert makes it newer, and a deletion is not in
\* the first lifetime.
LEMMA AdminCacheInv ==
  ASSUME IInv, NEW a \in Admin, AdminCache(a)
  PROVE  IInv'
PROOF
  <1> USE DEF IInv
  <1>1. /\ admin[a].pc = "cache" /\ admin' = [admin EXCEPT ![a].pc = "emit"]
        /\ UNCHANGED <<store, up, snap, regressed, messages, consumers, pools>>
    BY DEF AdminCache
  <1>2. admin[a] # Idle
    BY <1>1 DEF Idle
  <1>3. admin[a] \in Call /\ admin[a].rule \in Version /\ admin[a].rule.ver \in Nat
    BY <1>2, CallType
  <1>4. [admin[a] EXCEPT !.pc = "emit"] =
          [pc |-> "emit", node |-> admin[a].node, act |-> admin[a].act,
           rule |-> admin[a].rule]
    BY <1>3 DEF Call
  <1>5. admin' = [admin EXCEPT ![a] =
          [pc |-> "emit", node |-> admin[a].node, act |-> admin[a].act,
           rule |-> admin[a].rule]]
    BY <1>1, <1>4
  <1>6. \A n \in Node :
          \/ cache'[n] = cache[n]
          \/ cache'[n] = UpsertIfNewer(cache[n], admin[a].rule)
          \/ /\ admin[a].act = "delete"
             /\ cache'[n] = DeleteIfOlderOrEqual(cache[n], admin[a].rule.ver)
    BY <1>3 DEF AdminCache, Call
  <1>7. \A n \in Node : cache'[n] \in Version
    <2> SUFFICES ASSUME NEW n \in Node PROVE cache'[n] \in Version
      OBVIOUS
    <2>1. cache[n] \in Version
      BY DEF TypeOK
    <2>2. UpsertIfNewer(cache[n], admin[a].rule) \in Version
      BY <1>3, <2>1, UpsertGrows
    <2>3. DeleteIfOlderOrEqual(cache[n], admin[a].rule.ver) \in Version
      BY <1>3, <2>1, DeleteType
    <2> QED BY <1>6, <2>1, <2>2, <2>3
  <1>8. cache' \in [Node -> Version]
    BY <1>7 DEF AdminCache
  <1>9. TypeOK'
    <2>1. [pc |-> "emit", node |-> admin[a].node, act |-> admin[a].act,
           rule |-> admin[a].rule] \in Call
      BY <1>3 DEF Call
    <2>2. admin' \in [Admin -> {Idle} \cup Call]
      BY <1>5, <2>1 DEF TypeOK
    <2> QED BY <1>1, <1>8, <2>2 DEF TypeOK, store, messages, consumers, pools
  <1>10. PublishedIsDelivered' /\ AtLeastOnce'
    BY <1>1, DeliveryFrame
  <1>11. /\ admin'[a].act = admin[a].act /\ admin'[a].rule = admin[a].rule
         /\ \A b \in Admin : b # a => admin'[b] = admin[b]
    BY <1>5 DEF TypeOK
  <1>12. LifetimeInv' /\ AnnouncedInv'
    BY <1>1, <1>2, <1>11
    DEF LifetimeInv, AnnouncedInv, NeverDeleted, store, messages, consumers
  <1>13. NeverDeleted => \A n \in Node : cache'[n].ver >= cache[n].ver
    <2> SUFFICES ASSUME NeverDeleted, NEW n \in Node PROVE cache'[n].ver >= cache[n].ver
      OBVIOUS
    <2>1. admin[a].act = "upsert"
      BY <1>2 DEF AnnouncedInv
    <2>2. cache[n] \in Version /\ cache[n].ver \in Nat
      BY DEF TypeOK, Version
    <2> QED BY <1>3, <1>6, <2>1, <2>2, UpsertGrows
  <1>14. HandlerInv' /\ EventsSuffice'
    BY <1>1, <1>8, <1>13, CacheGrows DEF store, messages
  <1>15. ReadInv' /\ PoolFollowsEvents'
    BY <1>1, PoolFrame DEF store, messages, consumers
  <1> QED BY <1>9, <1>10, <1>12, <1>14, <1>15

\* A new row is unsent, nobody has handled it, and it announces a version that
\* the database has reached.
LEMMA AdminEmitInv ==
  ASSUME IInv, NEW a \in Admin, AdminEmit(a)
  PROVE  IInv'
PROOF
  <1> USE DEF IInv
  <1> DEFINE row == [act |-> admin[a].act, ver |-> admin[a].rule.ver,
                     sent |-> FALSE, to |-> subs]
  <1>1. /\ admin[a].pc = "emit" /\ outbox' = Append(outbox, row)
        /\ admin' = [admin EXCEPT ![a] = Idle]
        /\ UNCHANGED <<store, caches, batch, marking, subs, consumers, pools>>
    BY DEF AdminEmit
  <1>2. admin[a] # Idle
    BY <1>1 DEF Idle
  <1>3. admin[a] \in Call /\ admin[a].act \in {"upsert", "delete"} /\ admin[a].rule.ver \in Nat
    BY <1>2, CallType
  <1>4. row \in Row
    BY <1>3 DEF Row, TypeOK
  <1> HIDE DEF row
  <1>5. /\ outbox' \in Seq(Row)
        /\ DOMAIN outbox' = DOMAIN outbox \cup {Len(outbox) + 1}
        /\ Len(outbox) + 1 \notin DOMAIN outbox
        /\ \A i \in DOMAIN outbox : outbox'[i] = outbox[i]
        /\ outbox'[Len(outbox) + 1] = row
    BY <1>1, <1>4, AppendRow DEF TypeOK
  <1>6. row.sent = FALSE /\ row.to = subs /\ row.act = admin[a].act
        /\ row.ver = admin[a].rule.ver
    BY DEF row
  <1>7. TypeOK'
    BY <1>1, <1>5 DEF TypeOK, store, caches, consumers, pools
  <1>8. AtLeastOnce'
    BY <1>1, <1>5, <1>6 DEF AtLeastOnce, consumers
  <1>9. PublishedIsDelivered'
    <2>1. \A i \in DOMAIN outbox' : outbox'[i].to \subseteq subs'
      BY <1>1, <1>5, <1>6 DEF PublishedIsDelivered
    <2>2. ASSUME NEW p \in marking'
          PROVE  \E i \in batch'[p] :
                   IsHead(p, i)' /\ \A n \in outbox'[i].to : Delivered(n, i)'
      <3>1. PICK i \in batch[p] : IsHead(p, i) /\ \A n \in outbox[i].to : Delivered(n, i)
        BY <1>1, <2>2 DEF PublishedIsDelivered
      <3>2. i \in DOMAIN outbox
        BY <1>1, <2>2, <3>1 DEF TypeOK
      <3> QED BY <1>1, <1>5, <3>1, <3>2 DEF IsHead, Delivered, consumers
    <2> QED BY <2>1, <2>2 DEF PublishedIsDelivered
  <1>10. /\ admin'[a] = Idle
         /\ \A b \in Admin : b # a => admin'[b] = admin[b]
    BY <1>1 DEF TypeOK
  <1>11. gens # 0
    BY <1>2 DEF LifetimeInv
  <1>12. LifetimeInv'
    BY <1>1, <1>11 DEF LifetimeInv, store
  <1>13. AnnouncedInv'
    BY <1>1, <1>2, <1>5, <1>6, <1>10 DEF AnnouncedInv, NeverDeleted, store
  <1>14. \A h \in handlers : h.row \in DOMAIN outbox
    BY HandlerType
  <1>15. \A n, i : <<n, i>> \in handled => i \in DOMAIN outbox
    BY DEF TypeOK
  <1>16. HandlerInv'
    BY <1>1, <1>5, <1>14 DEF HandlerInv, NeverDeleted, store, caches, consumers
  <1>17. EventsSuffice'
    BY <1>1, <1>5, <1>15 DEF EventsSuffice, NeverDeleted, store, caches, consumers
  <1>18. ReadInv'
    BY <1>1, <1>5, <1>15 DEF ReadInv, NeverDeleted, store, caches, consumers, pools
  <1>19. PoolFollowsEvents'
    BY <1>1, <1>5, <1>15 DEF PoolFollowsEvents, NeverDeleted, store, caches, consumers, pools
  <1> QED BY <1>7, <1>8, <1>9, <1>12, <1>13, <1>16, <1>17, <1>18, <1>19

\* A call that could not announce its write leaves no trace in the outbox.
LEMMA AdminEmitFailsInv ==
  ASSUME IInv, NEW a \in Admin, AdminEmitFails(a)
  PROVE  IInv'
PROOF
  <1> USE DEF IInv
  <1>1. /\ admin[a].pc = "emit" /\ admin' = [admin EXCEPT ![a] = Idle]
        /\ UNCHANGED <<store, caches, messages, consumers, pools>>
    BY DEF AdminEmitFails
  <1>2. admin'[a] = Idle /\ \A b \in Admin : b # a => admin'[b] = admin[b]
    BY <1>1 DEF TypeOK
  <1>3. TypeOK'
    BY <1>1 DEF TypeOK, store, caches, messages, consumers, pools
  <1>4. PublishedIsDelivered' /\ AtLeastOnce'
    BY <1>1, DeliveryFrame
  <1>5. LifetimeInv' /\ AnnouncedInv'
    BY <1>1, <1>2 DEF LifetimeInv, AnnouncedInv, NeverDeleted, store, messages, consumers
  <1>6. HandlerInv' /\ EventsSuffice'
    BY <1>1 DEF HandlerInv, EventsSuffice, NeverDeleted, store, caches, messages, consumers
  <1>7. ReadInv' /\ PoolFollowsEvents'
    BY <1>1, PoolFrame DEF store, caches, messages, consumers
  <1> QED BY <1>3, <1>4, <1>5, <1>6, <1>7

------------------------------------------------------------------------------
(* OutboxPublisher and PubSub *)

\* A publisher that fetches is not about to mark anything.
LEMMA FetchInv ==
  ASSUME IInv, NEW p \in Publisher, FetchPending(p)
  PROVE  IInv'
PROOF
  <1> USE DEF IInv
  <1>1. PICK b \in SUBSET (DOMAIN outbox) : batch' = [batch EXCEPT ![p] = b]
    BY DEF FetchPending, Pending
  <1>2. batch[p] = {} /\ UNCHANGED <<store, caches, outbox, marking, subs, consumers, pools, admin>>
    BY DEF FetchPending
  <1>3. TypeOK'
    BY <1>1, <1>2 DEF TypeOK, store, caches, consumers, pools
  <1>4. AtLeastOnce'
    BY <1>2 DEF AtLeastOnce, consumers
  <1>5. p \notin marking
    BY <1>2 DEF PublishedIsDelivered
  <1>6. \A q \in marking : batch'[q] = batch[q]
    BY <1>1, <1>5 DEF TypeOK
  <1>7. PublishedIsDelivered'
    BY <1>2, <1>6 DEF PublishedIsDelivered, IsHead, Delivered, consumers
  <1>8. LifetimeInv' /\ AnnouncedInv'
    BY <1>2, LifeFrame
  <1>9. HandlerInv' /\ EventsSuffice'
    BY <1>2, CacheFrame DEF store, caches
  <1>10. ReadInv' /\ PoolFollowsEvents'
    BY <1>2, PoolFrame DEF store, caches, consumers
  <1> QED BY <1>3, <1>4, <1>7, <1>8, <1>9, <1>10

\* Every subscriber gets a handler, and whoever was listening when the row was
\* written is a subscriber now.
LEMMA PublishInv ==
  ASSUME IInv, NEW p \in Publisher, NEW i \in batch[p], Publish(p, i)
  PROVE  IInv'
PROOF
  <1> USE DEF IInv
  <1> DEFINE new(m) == [node |-> m, by |-> p, row |-> i, rule |-> NoRule,
                        pc |-> IF outbox[i].act = "delete" THEN "drop" ELSE "get"]
  <1>1. /\ IsHead(p, i) /\ p \notin marking
        /\ handlers' = handlers \cup {new(m) : m \in subs}
        /\ marking' = marking \cup {p}
        /\ UNCHANGED <<store, caches, outbox, batch, subs, handled, pools, admin>>
    BY DEF Publish
  <1>2. i \in DOMAIN outbox /\ i \in Nat
    BY DEF TypeOK
  <1>3. \A m \in subs : new(m) \in Handler /\ new(m).row = i /\ new(m).node = m
    BY <1>2 DEF TypeOK, Handler, Version, NoRule
  <1>4. \A m \in subs :
          /\ new(m).pc \in {"drop", "get"}
          /\ new(m).pc = "drop" => outbox[i].act = "delete"
    OBVIOUS
  <1> HIDE DEF new
  <1>5. TypeOK'
    BY <1>1, <1>2, <1>3 DEF TypeOK, store, caches, pools
  <1>6. AtLeastOnce'
    BY <1>1 DEF AtLeastOnce
  <1>7. PublishedIsDelivered'
    <2>1. \A n \in outbox[i].to : Delivered(n, i)'
      BY <1>1, <1>2, <1>3 DEF PublishedIsDelivered, Delivered
    <2>2. \A q \in marking' :
            \E j \in batch'[q] : IsHead(q, j)' /\ \A n \in outbox'[j].to : Delivered(n, j)'
      <3> SUFFICES ASSUME NEW q \in marking'
                   PROVE  \E j \in batch'[q] :
                            IsHead(q, j)' /\ \A n \in outbox'[j].to : Delivered(n, j)'
        OBVIOUS
      <3>1. CASE q = p
        BY <1>1, <2>1, <3>1 DEF IsHead
      <3>2. CASE q \in marking
        <4>1. PICK j \in batch[q] : IsHead(q, j) /\ \A n \in outbox[j].to : Delivered(n, j)
          BY <3>2 DEF PublishedIsDelivered
        <4> QED BY <1>1, <4>1 DEF IsHead, Delivered
      <3> QED BY <1>1, <3>1, <3>2
    <2> QED BY <1>1, <2>2 DEF PublishedIsDelivered
  <1>8. gens # 0
    BY <1>2 DEF LifetimeInv
  <1>9. LifetimeInv' /\ AnnouncedInv'
    BY <1>1, <1>8 DEF LifetimeInv, AnnouncedInv, NeverDeleted, store
  <1>10. NeverDeleted => outbox[i].act # "delete"
    BY <1>2 DEF AnnouncedInv
  <1>11. HandlerInv'
    BY <1>1, <1>4, <1>10 DEF HandlerInv, NeverDeleted, store, caches
  <1>12. EventsSuffice'
    BY <1>1 DEF EventsSuffice, NeverDeleted, store, caches
  <1>13. ReadInv' /\ PoolFollowsEvents'
    BY <1>1, PoolFrame DEF store, caches
  <1> QED BY <1>5, <1>6, <1>7, <1>9, <1>11, <1>12, <1>13

\* A publisher that gives a row up was not about to mark it.
LEMMA PublishFailsInv ==
  ASSUME IInv, NEW p \in Publisher, NEW i \in batch[p], PublishFails(p, i)
  PROVE  IInv'
PROOF
  <1> USE DEF IInv
  <1>1. /\ p \notin marking /\ batch' = [batch EXCEPT ![p] = @ \ {i}]
        /\ UNCHANGED <<store, caches, outbox, marking, subs, consumers, pools, admin>>
    BY DEF PublishFails
  <1>2. TypeOK'
    BY <1>1 DEF TypeOK, store, caches, consumers, pools
  <1>3. AtLeastOnce'
    BY <1>1 DEF AtLeastOnce, consumers
  <1>4. \A q \in marking : batch'[q] = batch[q]
    BY <1>1 DEF TypeOK
  <1>5. PublishedIsDelivered'
    BY <1>1, <1>4 DEF PublishedIsDelivered, IsHead, Delivered, consumers
  <1>6. LifetimeInv' /\ AnnouncedInv'
    BY <1>1, LifeFrame
  <1>7. HandlerInv' /\ EventsSuffice'
    BY <1>1, CacheFrame DEF store, caches
  <1>8. ReadInv' /\ PoolFollowsEvents'
    BY <1>1, PoolFrame DEF store, caches, consumers
  <1> QED BY <1>2, <1>3, <1>5, <1>6, <1>7, <1>8

\* The head of a batch is unique, so the row that is marked is the one that
\* was delivered.
LEMMA MarkSentInv ==
  ASSUME IInv, NEW p \in Publisher, NEW i \in batch[p], MarkSent(p, i)
  PROVE  IInv'
PROOF
  <1> USE DEF IInv
  <1>1. /\ IsHead(p, i) /\ p \in marking
        /\ outbox' = [outbox EXCEPT ![i].sent = TRUE]
        /\ batch' = [batch EXCEPT ![p] = @ \ {i}] /\ marking' = marking \ {p}
        /\ UNCHANGED <<store, caches, subs, consumers, pools, admin>>
    BY DEF MarkSent
  <1>2. i \in DOMAIN outbox /\ i \in Nat /\ batch[p] \subseteq Nat
    BY DEF TypeOK
  <1>3. /\ outbox' \in Seq(Row) /\ DOMAIN outbox' = DOMAIN outbox
        /\ \A j \in DOMAIN outbox :
             /\ outbox'[j].act = outbox[j].act /\ outbox'[j].ver = outbox[j].ver
             /\ outbox'[j].to = outbox[j].to
        /\ \A j \in DOMAIN outbox : j # i => outbox'[j].sent = outbox[j].sent
    BY <1>1, <1>2, MarkRow
  <1>4. TypeOK'
    BY <1>1, <1>3 DEF TypeOK, store, caches, consumers, pools
  <1>5. \A n \in outbox[i].to : Delivered(n, i)
    <2>1. PICK j \in batch[p] : IsHead(p, j) /\ \A n \in outbox[j].to : Delivered(n, j)
      BY <1>1 DEF PublishedIsDelivered
    <2>2. j = i
      BY <1>1, <1>2, <2>1 DEF IsHead
    <2> QED BY <2>1, <2>2
  <1>6. AtLeastOnce'
    <2> SUFFICES ASSUME NEW j \in DOMAIN outbox, outbox'[j].sent, NEW n \in outbox[j].to
                 PROVE  Delivered(n, j)
      BY <1>1, <1>3 DEF AtLeastOnce, Delivered, consumers
    <2>1. CASE j = i
      BY <1>5, <2>1
    <2>2. CASE j # i
      BY <1>3, <2>2 DEF AtLeastOnce, Delivered
    <2> QED BY <2>1, <2>2
  <1>7. \A q \in marking' : batch'[q] = batch[q]
    BY <1>1 DEF TypeOK
  <1>8. PublishedIsDelivered'
    <2>1. \A j \in DOMAIN outbox' : outbox'[j].to \subseteq subs'
      BY <1>1, <1>3 DEF PublishedIsDelivered
    <2>2. ASSUME NEW q \in marking'
          PROVE  \E j \in batch'[q] :
                   IsHead(q, j)' /\ \A n \in outbox'[j].to : Delivered(n, j)'
      <3>1. PICK j \in batch[q] : IsHead(q, j) /\ \A n \in outbox[j].to : Delivered(n, j)
        BY <1>1, <2>2 DEF PublishedIsDelivered
      <3>2. j \in DOMAIN outbox
        BY <1>1, <2>2, <3>1 DEF TypeOK
      <3> QED BY <1>1, <1>3, <1>7, <2>2, <3>1, <3>2 DEF IsHead, Delivered, consumers
    <2> QED BY <2>1, <2>2 DEF PublishedIsDelivered
  <1>9. gens # 0
    BY <1>2 DEF LifetimeInv
  <1>10. LifetimeInv' /\ AnnouncedInv'
    BY <1>1, <1>3, <1>9 DEF LifetimeInv, AnnouncedInv, NeverDeleted, store
  <1>11. HandlerInv'
    BY <1>1, <1>3, HandlerType DEF HandlerInv, NeverDeleted, store, caches, consumers
  <1>12. EventsSuffice'
    BY <1>1, <1>3 DEF EventsSuffice, NeverDeleted, store, caches, consumers
  <1>13. ReadInv'
    BY <1>1, <1>3 DEF ReadInv, NeverDeleted, store, caches, consumers, pools
  <1>14. PoolFollowsEvents'
    BY <1>1, <1>3 DEF PoolFollowsEvents, NeverDeleted, store, caches, consumers, pools
  <1> QED BY <1>4, <1>6, <1>8, <1>10, <1>11, <1>12, <1>13, <1>14

\* A new subscriber was not promised anything yet.
LEMMA SubscribeInv ==
  ASSUME IInv, NEW n \in Node, Subscribe(n)
  PROVE  IInv'
PROOF
  <1> USE DEF IInv
  <1>1. /\ subs' = subs \cup {n}
        /\ UNCHANGED <<store, caches, outbox, batch, marking, consumers, pools, admin>>
    BY DEF Subscribe
  <1>2. TypeOK'
    BY <1>1 DEF TypeOK, store, caches, consumers, pools
  <1>3. PublishedIsDelivered' /\ AtLeastOnce'
    BY <1>1 DEF PublishedIsDelivered, AtLeastOnce, IsHead, Delivered, consumers
  <1>4. LifetimeInv' /\ AnnouncedInv'
    BY <1>1, LifeFrame
  <1>5. HandlerInv' /\ EventsSuffice'
    BY <1>1, CacheFrame DEF store, caches
  <1>6. ReadInv' /\ PoolFollowsEvents'
    BY <1>1, PoolFrame DEF store, caches, consumers
  <1> QED BY <1>2, <1>3, <1>4, <1>5, <1>6

------------------------------------------------------------------------------
(* CacheInvalidator.handle *)

\* A handler that goes on to its next call still stands for its row.
LEMMA BecomesDelivers ==
  ASSUME PublishedIsDelivered, AtLeastOnce, NEW h \in handlers, NEW g,
         g.node = h.node, g.row = h.row, Becomes(h, g),
         UNCHANGED <<messages, handled>>
  PROVE  PublishedIsDelivered' /\ AtLeastOnce'
PROOF
  <1>1. \A n, i : Delivered(n, i) => Delivered(n, i)'
    BY DEF Becomes, Delivered
  <1>2. PublishedIsDelivered'
    <2>1. \A i \in DOMAIN outbox' : outbox'[i].to \subseteq subs'
      BY DEF PublishedIsDelivered, messages
    <2>2. ASSUME NEW p \in marking'
          PROVE  \E i \in batch'[p] :
                   IsHead(p, i)' /\ \A n \in outbox'[i].to : Delivered(n, i)'
      <3>1. PICK i \in batch[p] : IsHead(p, i) /\ \A n \in outbox[i].to : Delivered(n, i)
        BY <2>2 DEF PublishedIsDelivered, messages
      <3> QED BY <1>1, <3>1 DEF IsHead, messages
    <2> QED BY <2>1, <2>2 DEF PublishedIsDelivered
  <1>3. \A i \in DOMAIN outbox' : outbox'[i].sent => \A n \in outbox'[i].to : Delivered(n, i)'
    <2>1. \A i \in DOMAIN outbox : outbox[i].sent => \A n \in outbox[i].to : Delivered(n, i)
      BY DEF AtLeastOnce, Delivered
    <2> QED BY <1>1, <2>1 DEF messages
  <1>4. AtLeastOnce'
    BY <1>3 DEF AtLeastOnce, Delivered
  <1> QED BY <1>2, <1>4

\* A deletion may empty the cache: not in the first lifetime.
LEMMA HandleDropInv ==
  ASSUME IInv, NEW h \in handlers, HandleDrop(h)
  PROVE  IInv'
PROOF
  <1> USE DEF IInv
  <1> DEFINE g == [node |-> h.node, by |-> h.by, row |-> h.row, rule |-> h.rule,
                   pc |-> "cutover"]
  <1>1. /\ h \in Handler /\ h.node \in Node /\ h.row \in DOMAIN outbox
        /\ outbox[h.row].ver \in Nat
    BY HandlerType, RowType
  <1>2. g \in Handler /\ g = [h EXCEPT !.pc = "cutover"]
    BY <1>1 DEF Handler
  <1>3. g.node = h.node /\ g.row = h.row
    OBVIOUS
  <1>4. /\ h.pc = "drop"
        /\ cache' = [cache EXCEPT ![h.node] =
                       DeleteIfOlderOrEqual(@, outbox[h.row].ver)]
        /\ Becomes(h, g)
        /\ UNCHANGED <<store, up, snap, regressed, messages, handled, pools, admin>>
    BY <1>2, Zenon DEF HandleDrop
  <1> HIDE DEF g
  <1>5. DeleteIfOlderOrEqual(cache[h.node], outbox[h.row].ver) \in Version
    BY <1>1, DeleteType DEF TypeOK
  <1>6. TypeOK'
    <2>1. cache' \in [Node -> Version]
      BY <1>4, <1>5 DEF TypeOK
    <2>2. handlers' \subseteq {x \in Handler : x.row \in DOMAIN outbox'}
      BY <1>1, <1>2, <1>3, <1>4 DEF TypeOK, Becomes, messages
    <2> QED BY <1>4, <2>1, <2>2 DEF TypeOK, store, messages, pools
  <1>7. PublishedIsDelivered' /\ AtLeastOnce'
    BY <1>3, <1>4, BecomesDelivers
  <1>8. ~NeverDeleted /\ ~NeverDeleted'
    BY <1>4 DEF HandlerInv, NeverDeleted, store
  <1>9. LifetimeInv'
    BY <1>1, <1>4 DEF LifetimeInv, store
  <1> QED
    BY <1>6, <1>7, <1>8, <1>9
    DEF AnnouncedInv, HandlerInv, EventsSuffice, ReadInv, PoolFollowsEvents

\* What is read now is no older than any announcement.
LEMMA HandleGetInv ==
  ASSUME IInv, NEW h \in handlers, HandleGet(h)
  PROVE  IInv'
PROOF
  <1> USE DEF IInv
  <1> DEFINE gone == [node |-> h.node, by |-> h.by, row |-> h.row, rule |-> h.rule,
                      pc |-> "cutover"]
             found == [node |-> h.node, by |-> h.by, row |-> h.row, rule |-> db,
                       pc |-> "upsert"]
             g == IF db = NoRule THEN gone ELSE found
  <1>1. /\ h \in Handler /\ h.node \in Node /\ h.row \in DOMAIN outbox
        /\ outbox[h.row].ver \in Nat
    BY HandlerType, RowType
  <1>2. /\ gone \in Handler /\ gone = [h EXCEPT !.pc = "cutover"]
        /\ found \in Handler /\ found = [h EXCEPT !.pc = "upsert", !.rule = db]
    <2>1. db \in Version
      BY DEF TypeOK
    <2>2. gone \in Handler /\ gone = [h EXCEPT !.pc = "cutover"]
      BY <1>1 DEF Handler
    <2>3. found \in Handler
      BY <1>1, <2>1 DEF Handler
    <2>4. found = [h EXCEPT !.pc = "upsert", !.rule = db]
      BY <1>1, <2>1, FoundRecord
    <2> QED BY <2>2, <2>3, <2>4
  <1>3. /\ h.pc = "get" /\ Becomes(h, g)
        /\ UNCHANGED <<store, caches, messages, handled, pools, admin>>
    BY <1>2, Zenon DEF HandleGet
  <1>4. /\ g \in Handler /\ g.node = h.node /\ g.row = h.row
        /\ db # NoRule => g.pc = "upsert" /\ g.rule = db
    BY <1>2
  <1> HIDE DEF gone, found, g
  <1>5. TypeOK'
    <2>1. handlers' \subseteq {x \in Handler : x.row \in DOMAIN outbox'}
      BY <1>1, <1>3, <1>4 DEF TypeOK, Becomes, messages
    <2> QED BY <1>3, <2>1 DEF TypeOK, store, caches, messages, pools
  <1>6. PublishedIsDelivered' /\ AtLeastOnce'
    BY <1>3, <1>4, BecomesDelivers
  <1>7. LifetimeInv'
    BY <1>1, <1>3 DEF LifetimeInv, store
  <1>8. AnnouncedInv'
    BY <1>3 DEF AnnouncedInv, NeverDeleted, store, messages
  <1>9. HandlerInv'
    <2> SUFFICES ASSUME NeverDeleted
                 PROVE  \A x \in handlers' :
                          /\ x.pc # "drop"
                          /\ x.pc = "upsert" => x.rule.ver >= outbox[x.row].ver
                          /\ x.pc = "cutover" /\ x.node \notin regressed =>
                               cache[x.node].ver >= outbox[x.row].ver
      BY <1>3 DEF HandlerInv, NeverDeleted, store, caches, messages
    <2>1. db # NoRule
      BY DEF NeverDeleted, NoRule
    <2>2. db.ver \in Nat /\ outbox[h.row].ver <= db.ver
      BY <1>1 DEF AnnouncedInv, TypeOK, Version
    <2>3. g.pc = "upsert" /\ g.rule.ver >= outbox[g.row].ver
      BY <1>1, <1>4, <2>1, <2>2
    <2> QED BY <1>3, <2>3 DEF HandlerInv, Becomes
  <1>10. EventsSuffice'
    BY <1>3 DEF EventsSuffice, NeverDeleted, store, caches, messages
  <1>11. ReadInv' /\ PoolFollowsEvents'
    BY <1>3, PoolFrame DEF store, caches, messages
  <1> QED BY <1>5, <1>6, <1>7, <1>8, <1>9, <1>10, <1>11

\* The cache is then at least as new as what was read.
LEMMA HandleUpsertInv ==
  ASSUME IInv, NEW h \in handlers, HandleUpsert(h)
  PROVE  IInv'
PROOF
  <1> USE DEF IInv
  <1> DEFINE g == [node |-> h.node, by |-> h.by, row |-> h.row, rule |-> h.rule,
                   pc |-> "cutover"]
  <1>1. /\ h \in Handler /\ h.node \in Node /\ h.row \in DOMAIN outbox
        /\ outbox[h.row].ver \in Nat /\ h.rule \in Version /\ h.rule.ver \in Nat
    BY HandlerType, RowType
  <1>2. g \in Handler /\ g = [h EXCEPT !.pc = "cutover"]
    BY <1>1 DEF Handler
  <1>3. g.node = h.node /\ g.row = h.row /\ g.pc = "cutover"
    OBVIOUS
  <1>4. /\ h.pc = "upsert"
        /\ cache' = [cache EXCEPT ![h.node] = UpsertIfNewer(@, h.rule)]
        /\ Becomes(h, g)
        /\ UNCHANGED <<store, up, snap, regressed, messages, handled, pools, admin>>
    BY <1>2, Zenon DEF HandleUpsert
  <1> HIDE DEF g
  <1>5. /\ UpsertIfNewer(cache[h.node], h.rule) \in Version
        /\ UpsertIfNewer(cache[h.node], h.rule).ver >= cache[h.node].ver
        /\ UpsertIfNewer(cache[h.node], h.rule).ver >= h.rule.ver
    BY <1>1, UpsertGrows DEF TypeOK
  <1>6. cache' \in [Node -> Version]
    BY <1>4, <1>5 DEF TypeOK
  <1>7. /\ cache'[h.node].ver >= h.rule.ver
        /\ \A n \in Node : /\ cache'[n].ver >= cache[n].ver
                           /\ cache[n].ver \in Nat /\ cache'[n].ver \in Nat
    <2>1. cache[h.node] \in Version /\ cache'[h.node] = UpsertIfNewer(cache[h.node], h.rule)
      BY <1>1, <1>4 DEF TypeOK
    <2>2. \A n \in Node : cache[n].ver \in Nat /\ cache'[n].ver \in Nat
      BY <1>6 DEF TypeOK, Version
    <2>3. \A n \in Node : n # h.node => cache'[n] = cache[n]
      BY <1>4 DEF TypeOK
    <2> QED BY <1>5, <2>1, <2>2, <2>3
  <1>8. TypeOK'
    <2>1. handlers' \subseteq {x \in Handler : x.row \in DOMAIN outbox'}
      BY <1>1, <1>2, <1>3, <1>4 DEF TypeOK, Becomes, messages
    <2> QED BY <1>4, <1>6, <2>1 DEF TypeOK, store, messages, pools
  <1>9. PublishedIsDelivered' /\ AtLeastOnce'
    BY <1>3, <1>4, BecomesDelivers
  <1>10. LifetimeInv'
    BY <1>1, <1>4 DEF LifetimeInv, store
  <1>11. AnnouncedInv'
    BY <1>4 DEF AnnouncedInv, NeverDeleted, store, messages
  <1>12. \A i \in DOMAIN outbox : outbox[i].ver \in Nat
    BY RowType
  <1>13. HandlerInv'
    <2> SUFFICES ASSUME NeverDeleted, NEW x \in handlers'
                 PROVE  /\ x.pc # "drop"
                        /\ x.pc = "upsert" => x.rule.ver >= outbox[x.row].ver
                        /\ x.pc = "cutover" /\ x.node \notin regressed =>
                             cache'[x.node].ver >= outbox[x.row].ver
      BY <1>4 DEF HandlerInv, NeverDeleted, store, messages
    <2>1. CASE x = g
      BY <1>1, <1>3, <1>4, <1>7, <2>1 DEF HandlerInv
    <2>2. CASE x \in handlers
      <3>1. x.node \in Node /\ x.row \in DOMAIN outbox
        BY <2>2, HandlerType
      <3> QED BY <1>7, <1>12, <2>2, <3>1 DEF HandlerInv
    <2> QED BY <1>4, <2>1, <2>2 DEF Becomes
  <1>14. EventsSuffice'
    BY <1>4, <1>7, <1>12 DEF EventsSuffice, NeverDeleted, store, messages
  <1>15. ReadInv' /\ PoolFollowsEvents'
    BY <1>4, PoolFrame DEF store, messages
  <1> QED BY <1>8, <1>9, <1>10, <1>11, <1>13, <1>14, <1>15

\* The handler returns: its row is handled, nothing is mapped any more, and
\* requests that read before this Cutover are known to have crossed it.
LEMMA HandleCutoverInv ==
  ASSUME IInv, NEW h \in handlers, HandleCutover(h)
  PROVE  IInv'
PROOF
  <1> USE DEF IInv
  <1>1. /\ h.pc = "cutover"
        /\ pool' = [pool EXCEPT ![h.node] = NoRule]
        /\ late' = late \ {h.node}
        /\ handlers' = handlers \ {h}
        /\ handled' = handled \cup {<<h.node, h.row>>}
        /\ UNCHANGED <<store, caches, messages, admin>>
    BY DEF HandleCutover
  <1>2. h.node \in Node /\ h.row \in DOMAIN outbox
    BY HandlerType
  <1>3. \A r \in Request :
          /\ req'[r] \in {Idle} \cup Read
          /\ req[r] = Idle => req'[r] = Idle
          /\ req[r] # Idle =>
               /\ req'[r] # Idle
               /\ req'[r].node = req[r].node /\ req'[r].rule = req[r].rule
               /\ req[r].node = h.node => req'[r].crossed = TRUE
               /\ req[r].node # h.node => req'[r].crossed = req[r].crossed
    <2> SUFFICES ASSUME NEW r \in Request
                 PROVE  /\ req'[r] \in {Idle} \cup Read
                        /\ req[r] = Idle => req'[r] = Idle
                        /\ req[r] # Idle =>
                             /\ req'[r] # Idle
                             /\ req'[r].node = req[r].node /\ req'[r].rule = req[r].rule
                             /\ req[r].node = h.node => req'[r].crossed = TRUE
                             /\ req[r].node # h.node => req'[r].crossed = req[r].crossed
      OBVIOUS
    <2>1. req'[r] = IF req[r].pc = "read" /\ req[r].node = h.node
                      THEN [req[r] EXCEPT !.crossed = TRUE] ELSE req[r]
      BY DEF HandleCutover
    <2>2. CASE req[r] = Idle
      BY <2>1, <2>2 DEF Idle
    <2>3. CASE req[r] # Idle
      <3>1. req[r] \in Read /\ req[r].pc = "read"
        BY <2>3, ReadType
      <3>2. CASE req[r].node = h.node
        <4>1. req'[r] = [req[r] EXCEPT !.crossed = TRUE]
          BY <2>1, <3>1, <3>2
        <4>2. req'[r] \in Read /\ req'[r].crossed = TRUE
              /\ req'[r].node = req[r].node /\ req'[r].rule = req[r].rule /\ req'[r].pc = "read"
          BY <3>1, <4>1 DEF Read
        <4>3. req'[r] # Idle
          BY <4>2 DEF Idle
        <4> QED BY <2>3, <3>2, <4>2, <4>3
      <3>3. CASE req[r].node # h.node
        BY <2>1, <2>3, <3>1, <3>3
      <3> QED BY <3>2, <3>3
    <2> QED BY <2>2, <2>3
  <1>4. req' \in [Request -> {Idle} \cup Read]
    BY <1>3 DEF HandleCutover
  <1>5. TypeOK'
    <2>1. pool' \in [Node -> Version]
      BY <1>1 DEF TypeOK, Version, NoRule
    <2> QED BY <1>1, <1>2, <1>4, <2>1 DEF TypeOK, store, caches, messages
  <1>6. \A n, i : Delivered(n, i) => Delivered(n, i)'
    BY <1>1 DEF Delivered
  <1>7. PublishedIsDelivered'
    <2>1. \A i \in DOMAIN outbox' : outbox'[i].to \subseteq subs'
      BY <1>1 DEF PublishedIsDelivered, messages
    <2>2. ASSUME NEW p \in marking'
          PROVE  \E i \in batch'[p] :
                   IsHead(p, i)' /\ \A n \in outbox'[i].to : Delivered(n, i)'
      <3>1. PICK i \in batch[p] : IsHead(p, i) /\ \A n \in outbox[i].to : Delivered(n, i)
        BY <1>1, <2>2 DEF PublishedIsDelivered, messages
      <3> QED BY <1>1, <1>6, <3>1 DEF IsHead, messages
    <2> QED BY <2>1, <2>2 DEF PublishedIsDelivered
  <1>8. AtLeastOnce'
    <2>1. \A i \in DOMAIN outbox : outbox[i].sent => \A n \in outbox[i].to : Delivered(n, i)
      BY DEF AtLeastOnce, Delivered
    <2>2. \A i \in DOMAIN outbox' :
            outbox'[i].sent => \A n \in outbox'[i].to : Delivered(n, i)'
      BY <1>1, <1>6, <2>1 DEF messages
    <2> QED BY <2>2 DEF AtLeastOnce, Delivered
  <1>9. LifetimeInv'
    BY <1>1, <1>2 DEF LifetimeInv, store
  <1>10. AnnouncedInv'
    BY <1>1 DEF AnnouncedInv, NeverDeleted, store, messages
  <1>11. HandlerInv'
    BY <1>1 DEF HandlerInv, NeverDeleted, store, caches, messages
  <1>12. EventsSuffice'
    BY <1>1 DEF EventsSuffice, HandlerInv, NeverDeleted, store, caches, messages
  <1>13. ReadInv'
    <2> SUFFICES ASSUME NeverDeleted', NEW r \in Request, req'[r] # Idle,
                        ~req'[r].crossed, req'[r].node \notin regressed',
                        NEW i \in DOMAIN outbox', <<req'[r].node, i>> \in handled'
                 PROVE  req'[r].rule.ver >= outbox'[i].ver
      BY DEF ReadInv
    <2>1. req[r] # Idle /\ req[r].node # h.node
      BY <1>3
    <2>2. /\ req'[r].node = req[r].node /\ req'[r].rule = req[r].rule
          /\ ~req[r].crossed
      BY <1>3, <2>1
    <2>3. <<req[r].node, i>> \in handled
      BY <1>1, <2>1, <2>2
    <2> QED BY <1>1, <2>1, <2>2, <2>3 DEF ReadInv, NeverDeleted, store, caches, messages
  <1>14. PoolFollowsEvents'
    <2> SUFFICES ASSUME NeverDeleted', NEW n \in Node \ (regressed' \cup late'),
                        NEW i \in DOMAIN outbox', <<n, i>> \in handled', pool'[n] # NoRule
                 PROVE  pool'[n].ver >= outbox'[i].ver
      BY DEF PoolFollowsEvents
    <2>1. n # h.node /\ pool'[n] = pool[n]
      BY <1>1 DEF TypeOK
    <2>2. <<n, i>> \in handled /\ n \notin late
      BY <1>1, <2>1
    <2> QED BY <1>1, <2>1, <2>2 DEF PoolFollowsEvents, NeverDeleted, store, caches, messages
  <1> QED
    BY <1>5, <1>7, <1>8, <1>9, <1>10, <1>11, <1>12, <1>13, <1>14

------------------------------------------------------------------------------
(* CacheSyncWorker and LimiterPool *)

\* A snapshot is stored over a newer rule only with a record of it.
LEMMA SyncInv ==
  ASSUME IInv, NEW n \in Node, SyncStep(n)
  PROVE  IInv'
PROOF
  <1> USE DEF IInv
  <1>1. /\ UNCHANGED <<store, messages, consumers, pools, admin>>
        /\ cache' \in [Node -> Version] /\ regressed \subseteq regressed'
        /\ regressed' \subseteq Node /\ up' \subseteq Node
        /\ snap' \in [Node -> [loaded : BOOLEAN, rule : Version]]
        /\ \A m \in Node \ regressed' : cache'[m].ver >= cache[m].ver
    <2>1. CASE SyncLoad(n)
      <3>1. /\ snap' = [snap EXCEPT ![n] = [loaded |-> TRUE, rule |-> db]]
            /\ UNCHANGED <<store, cache, up, regressed, messages, consumers, pools, admin>>
        BY <2>1 DEF SyncLoad
      <3>2. \A m \in Node : cache[m].ver \in Nat
        BY DEF TypeOK, Version
      <3> QED BY <3>1, <3>2 DEF TypeOK
    <2>2. CASE SyncReplace(n)
      <3>1. /\ cache' = [cache EXCEPT ![n] = snap[n].rule]
            /\ regressed' = IF snap[n].rule.ver < cache[n].ver
                              THEN regressed \cup {n} ELSE regressed
            /\ up' = up \cup {n} /\ snap' = [snap EXCEPT ![n] = NoSnapshot]
            /\ UNCHANGED <<store, messages, consumers, pools, admin>>
        BY <2>2 DEF SyncReplace
      <3>2. snap[n].rule \in Version /\ snap[n].rule.ver \in Nat
        BY DEF TypeOK, Version
      <3>3. \A m \in Node : cache[m].ver \in Nat
        BY DEF TypeOK, Version
      <3>4. NoSnapshot \in [loaded : BOOLEAN, rule : Version]
        BY DEF NoSnapshot, NoRule, Version
      <3>5. snap' \in [Node -> [loaded : BOOLEAN, rule : Version]]
        BY <3>1, <3>4 DEF TypeOK
      <3>6. \A m \in Node \ regressed' : cache'[m].ver >= cache[m].ver
        BY <3>1, <3>2, <3>3 DEF TypeOK
      <3> QED BY <3>1, <3>2, <3>5, <3>6 DEF TypeOK
    <2> QED BY <2>1, <2>2 DEF SyncStep
  <1>2. TypeOK'
    BY <1>1 DEF TypeOK, store, messages, consumers, pools
  <1>3. PublishedIsDelivered' /\ AtLeastOnce'
    BY <1>1, DeliveryFrame
  <1>4. LifetimeInv' /\ AnnouncedInv'
    BY <1>1, LifeFrame DEF messages
  <1>5. HandlerInv' /\ EventsSuffice'
    BY <1>1, CacheGrows DEF store, messages
  <1>6. ReadInv' /\ PoolFollowsEvents'
    BY <1>1, PoolFrame DEF store, messages, consumers
  <1> QED BY <1>2, <1>3, <1>4, <1>5, <1>6

\* Steps of the pool leave the rest alone.
LEMMA PoolStepFrame ==
  ASSUME IInv, UNCHANGED <<store, caches, messages, consumers, admin>>,
         pool' \in [Node -> Version], late' \subseteq Node,
         req' \in [Request -> {Idle} \cup Read],
         ReadInv', PoolFollowsEvents'
  PROVE  IInv'
PROOF
  <1> USE DEF IInv
  <1>1. TypeOK'
    BY DEF TypeOK, store, caches, messages, consumers
  <1>2. PublishedIsDelivered' /\ AtLeastOnce'
    BY DeliveryFrame
  <1>3. LifetimeInv' /\ AnnouncedInv'
    BY LifeFrame DEF messages
  <1>4. HandlerInv' /\ EventsSuffice'
    BY CacheFrame DEF store, caches, messages
  <1> QED BY <1>1, <1>2, <1>3, <1>4

\* What a request reads is as new as every announcement handled so far.
LEMMA AcquireReadInv ==
  ASSUME IInv, NEW r \in Request, NEW n \in Node, AcquireRead(r, n)
  PROVE  IInv'
PROOF
  <1> USE DEF IInv
  <1> DEFINE read == [pc |-> "read", node |-> n, rule |-> cache[n], crossed |-> FALSE]
  <1>1. /\ req' = [req EXCEPT ![r] = read]
        /\ UNCHANGED <<store, caches, messages, consumers, pool, late, admin>>
    BY DEF AcquireRead
  <1>2. read \in Read /\ read.node = n /\ read.rule = cache[n]
    BY DEF Read, TypeOK
  <1> HIDE DEF read
  <1>3. req' \in [Request -> {Idle} \cup Read]
    BY <1>1, <1>2 DEF TypeOK
  <1>4. req'[r] = read /\ \A q \in Request : q # r => req'[q] = req[q]
    BY <1>1 DEF TypeOK
  <1>5. ReadInv'
    <2> SUFFICES ASSUME NeverDeleted, NEW q \in Request, req'[q] # Idle,
                        ~req'[q].crossed, req'[q].node \notin regressed,
                        NEW i \in DOMAIN outbox, <<req'[q].node, i>> \in handled
                 PROVE  req'[q].rule.ver >= outbox[i].ver
      BY <1>1 DEF ReadInv, NeverDeleted, store, caches, messages, consumers
    <2>1. CASE q = r
      BY <1>2, <1>4, <2>1 DEF EventsSuffice
    <2>2. CASE q # r
      BY <1>4, <2>2 DEF ReadInv
    <2> QED BY <2>1, <2>2
  <1>6. PoolFollowsEvents'
    BY <1>1 DEF PoolFollowsEvents, NeverDeleted, store, caches, messages, consumers
  <1>7. pool' \in [Node -> Version] /\ late' \subseteq Node
    BY <1>1 DEF TypeOK
  <1> QED BY <1>1, <1>3, <1>5, <1>6, <1>7, PoolStepFrame

\* A limiter that is mapped is as new as the read it was built from, or late.
LEMMA AcquireLockInv ==
  ASSUME IInv, NEW r \in Request, AcquireLock(r)
  PROVE  IInv'
PROOF
  <1> USE DEF IInv
  <1> DEFINE n == req[r].node
  <1>1. /\ req[r].pc = "read" /\ req' = [req EXCEPT ![r] = Idle]
        /\ UNCHANGED <<store, caches, messages, consumers, admin>>
        /\ \/ UNCHANGED <<pool, late>>
           \/ /\ pool' = [pool EXCEPT ![n] = req[r].rule]
              /\ late' = IF req[r].crossed THEN late \cup {n} ELSE late
    BY DEF AcquireLock
  <1>2. req[r] # Idle
    BY <1>1 DEF Idle
  <1>3. n \in Node /\ req[r].rule \in Version /\ req[r].crossed \in BOOLEAN
    BY <1>2, ReadType
  <1>4. req'[r] = Idle /\ \A q \in Request : q # r => req'[q] = req[q]
    BY <1>1 DEF TypeOK
  <1>5. ReadInv'
    BY <1>1, <1>4 DEF ReadInv, NeverDeleted, store, caches, messages, consumers
  <1>6. PoolFollowsEvents'
    <2> SUFFICES ASSUME NeverDeleted, NEW m \in Node \ (regressed \cup late'),
                        NEW i \in DOMAIN outbox, <<m, i>> \in handled, pool'[m] # NoRule
                 PROVE  pool'[m].ver >= outbox[i].ver
      BY <1>1 DEF PoolFollowsEvents, NeverDeleted, store, caches, messages, consumers
    <2>1. CASE pool'[m] = pool[m] /\ m \notin late
      BY <2>1 DEF PoolFollowsEvents
    <2>2. CASE m = n /\ pool'[m] = req[r].rule /\ ~req[r].crossed
      BY <1>2, <2>2 DEF ReadInv
    <2> QED BY <1>1, <1>3, <2>1, <2>2 DEF TypeOK
  <1>7. pool' \in [Node -> Version] /\ late' \subseteq Node
    BY <1>1, <1>3 DEF TypeOK
  <1>8. req' \in [Request -> {Idle} \cup Read]
    BY <1>1 DEF TypeOK
  <1> QED BY <1>1, <1>5, <1>6, <1>7, <1>8, PoolStepFrame

\* An eviction leaves no limiter.
LEMMA EvictInv ==
  ASSUME IInv, NEW n \in Node, Evict(n)
  PROVE  IInv'
PROOF
  <1> USE DEF IInv
  <1>1. /\ pool' = [pool EXCEPT ![n] = NoRule] /\ late' = late \ {n}
        /\ UNCHANGED <<store, caches, messages, consumers, req, admin>>
    BY DEF Evict
  <1>2. ReadInv'
    BY <1>1 DEF ReadInv, NeverDeleted, store, caches, messages, consumers
  <1>3. PoolFollowsEvents'
    BY <1>1 DEF PoolFollowsEvents, NeverDeleted, TypeOK, store, caches, messages, consumers
  <1>4. pool' \in [Node -> Version] /\ late' \subseteq Node
    BY <1>1 DEF TypeOK, Version, NoRule
  <1>5. req' \in [Request -> {Idle} \cup Read]
    BY <1>1 DEF TypeOK
  <1> QED BY <1>1, <1>2, <1>3, <1>4, <1>5, PoolStepFrame

------------------------------------------------------------------------------

\* Every step preserves the invariant.
LEMMA StepInv == IInv /\ [Next]_vars => IInv'
PROOF
  <1> SUFFICES ASSUME IInv, [Next]_vars PROVE IInv'
    OBVIOUS
  <1>1. ASSUME NEW a \in Admin, AdminStep(a) PROVE IInv'
    BY <1>1, AdminCacheInv, AdminEmitInv, AdminEmitFailsInv DEF AdminStep
  <1>2. ASSUME NEW a \in Admin, NEW n \in AdminNode, AdminCall(a, n) PROVE IInv'
    BY <1>2, CommitInv
  <1>3. ASSUME NEW p \in Publisher, PublisherStep(p) PROVE IInv'
    BY <1>3, FetchInv, PublishInv, MarkSentInv DEF PublisherStep
  <1>4. ASSUME NEW p \in Publisher, NEW i \in batch[p], PublishFails(p, i) PROVE IInv'
    BY <1>4, PublishFailsInv
  <1>5. ASSUME NEW n \in Node, Subscribe(n) \/ SyncStep(n) \/ Evict(n) PROVE IInv'
    BY <1>5, SubscribeInv, SyncInv, EvictInv
  <1>6. ASSUME NEW h \in handlers, HandlerStep(h) PROVE IInv'
    BY <1>6, HandleDropInv, HandleGetInv, HandleUpsertInv, HandleCutoverInv DEF HandlerStep
  <1>7. ASSUME NEW r \in Request, AcquireLock(r) \/ \E n \in Node : AcquireRead(r, n)
        PROVE  IInv'
    BY <1>7, AcquireLockInv, AcquireReadInv
  <1>8. CASE UNCHANGED vars
    <2>1. TypeOK'
      BY <1>8 DEF IInv, TypeOK, vars, store, caches, messages, consumers, pools
    <2>2. PublishedIsDelivered' /\ AtLeastOnce'
      BY <1>8, DeliveryFrame DEF IInv, vars
    <2>3. LifetimeInv' /\ AnnouncedInv'
      BY <1>8, LifeFrame DEF IInv, vars, messages
    <2>4. HandlerInv' /\ EventsSuffice'
      BY <1>8, CacheFrame DEF IInv, vars, store, caches, messages
    <2>5. ReadInv' /\ PoolFollowsEvents'
      BY <1>8, PoolFrame DEF IInv, vars, store, caches, messages, consumers
    <2> QED BY <2>1, <2>2, <2>3, <2>4, <2>5 DEF IInv
  <1> QED BY <1>1, <1>2, <1>3, <1>4, <1>5, <1>6, <1>7, <1>8 DEF Next

\* The invariant holds throughout.
LEMMA AlwaysIInv == Spec => []IInv
PROOF
  BY InitInv, StepInv, PTL DEF Spec

\* At-least-once delivery (OutboxPublisher, InMemoryPubSub), for any number of
\* publishers on one outbox and any failures: a row is marked sent only after
\* everyone who was subscribed when it was written has it.
THEOREM PropagationAtLeastOnce == Spec => []AtLeastOnce
PROOF
  <1>1. IInv => AtLeastOnce
    BY DEF IInv
  <1> QED BY <1>1, AlwaysIInv, PTL

\* CacheInvalidator.handle: in the first lifetime of a rule a handled
\* announcement leaves the cache at least as new as the write, whatever the
\* order of announcements, unless a full sync stored an older snapshot.
THEOREM PropagationEventsSuffice == Spec => []EventsSuffice
PROOF
  <1>1. IInv => EventsSuffice
    BY DEF IInv
  <1> QED BY <1>1, AlwaysIInv, PTL

\* The limiter that the pool maps follows the handled announcements, unless a
\* request carried its rule across a Cutover.
THEOREM PropagationPoolFollowsEvents == Spec => []PoolFollowsEvents
PROOF
  <1>1. IInv => PoolFollowsEvents
    BY DEF IInv
  <1> QED BY <1>1, AlwaysIInv, PTL

==============================================================================
