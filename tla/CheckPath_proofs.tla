---------------------------- MODULE CheckPath_proofs ----------------------------
(***************************************************************************)
(* Safety of the coalescer and of the check path around it, for any        *)
(* requests, users, entries and buffers.  CoalescerIInv is inductive for   *)
(* every coalescer step; a step of the check path is a coalescer step or   *)
(* leaves the coalescer alone, so CoalescerIInv holds there too, and with  *)
(* it CheckIInv is inductive.                                              *)
(***************************************************************************)
EXTENDS CheckPath, TLAPS

------------------------------------------------------------------------------
(* The coalescer *)

\* What the invariant says of a caller inside Do.
LEMMA InsideMeans ==
  ASSUME CoalescerIInv, NEW c \in Caller, cpc[c] \in Leading \cup {"wait"}
  PROVE  ent[c] \in Entry /\ ent[c] # NoEntry /\ ckey[c] \in CKey
PROOF
  BY DEF CoalescerIInv, CoalescerTypeOK, EntryOwned

\* An empty coalescer satisfies the invariant.
LEMMA CoalescerInitInv == CoalescerInit => CoalescerIInv
PROOF
  <1> SUFFICES ASSUME CoalescerInit PROVE CoalescerIInv
    OBVIOUS
  <1> USE CoalescerAssumption DEF CoalescerInit, Leading
  <1>1. CoalescerTypeOK
    BY DEF CoalescerTypeOK, CoalescerPCs
  <1>2. NoOrphanEntry
    BY DEF NoOrphanEntry
  <1>3. EntryOwned
    BY DEF EntryOwned
  <1>4. FreshIsMapped
    BY DEF FreshIsMapped
  <1> QED BY <1>1, <1>2, <1>3, <1>4 DEF CoalescerIInv

------------------------------------------------------------------------------

\* A follower joins an entry whose leader is still at work.
LEMMA JoinInv ==
  ASSUME CoalescerIInv, NEW c \in Caller, NEW k \in CKey, DoJoin(c, k)
  PROVE  CoalescerIInv'
PROOF
  <1> USE CoalescerAssumption DEF CoalescerIInv, Leading
  <1>1. /\ cpc[c] = "out" /\ m[k] \in fresh
        /\ cpc' = [cpc EXCEPT ![c] = "wait"]
        /\ ckey' = [ckey EXCEPT ![c] = k]
        /\ ent' = [ent EXCEPT ![c] = m[k]]
        /\ m' = m /\ fresh' = fresh /\ result' = result /\ got' = got
    BY DEF DoJoin, Enter
  <1>2. m[k] \in Entry /\ m[k] # NoEntry /\ ent[c] = NoEntry
    BY <1>1 DEF CoalescerTypeOK, EntryOwned
  <1>3. CoalescerTypeOK'
    BY <1>1, <1>2 DEF CoalescerTypeOK, CoalescerPCs
  <1>4. /\ cpc'[c] = "wait" /\ ckey'[c] = k /\ ent'[c] = m[k]
        /\ \A d \in Caller : d # c =>
             cpc'[d] = cpc[d] /\ ckey'[d] = ckey[d] /\ ent'[d] = ent[d]
    BY <1>1 DEF CoalescerTypeOK
  <1>5. PICK l \in Caller : ent[l] = m[k] /\ ckey[l] = k /\ cpc[l] \in {"fn", "remove"}
    BY <1>2 DEF NoOrphanEntry
  <1>6. l # c
    BY <1>1, <1>5
  <1>7. NoOrphanEntry'
    <2>1. ASSUME NEW q \in CKey, m'[q] # NoEntry
          PROVE  \E d \in Caller : ent'[d] = m'[q] /\ ckey'[d] = q /\ cpc'[d] \in {"fn", "remove"}
      <3>1. PICK d \in Caller : ent[d] = m[q] /\ ckey[d] = q /\ cpc[d] \in {"fn", "remove"}
        BY <1>1, <2>1 DEF NoOrphanEntry
      <3>2. d # c
        BY <1>1, <3>1
      <3> QED BY <1>1, <1>4, <3>1, <3>2
    <2>2. ASSUME NEW w \in Caller, cpc'[w] = "wait"
          PROVE  \/ result'[ent'[w]] # Nothing
                 \/ \E d \in Caller : ent'[d] = ent'[w] /\ ckey'[d] = ckey'[w] /\ cpc'[d] = "fn"
      <3>1. CASE w = c
        BY <1>1, <1>4, <1>5, <1>6, <3>1 DEF FreshIsMapped
      <3>2. CASE w # c
        <4>1. cpc[w] = "wait"
          BY <1>4, <2>2, <3>2
        <4>2. CASE result[ent[w]] # Nothing
          BY <1>1, <1>4, <3>2, <4>2
        <4>3. CASE \E d \in Caller : ent[d] = ent[w] /\ ckey[d] = ckey[w] /\ cpc[d] = "fn"
          <5>1. PICK d \in Caller : ent[d] = ent[w] /\ ckey[d] = ckey[w] /\ cpc[d] = "fn"
            BY <4>3
          <5>2. d # c
            BY <1>1, <5>1
          <5> QED BY <1>4, <3>2, <5>1, <5>2
        <4> QED BY <4>1, <4>2, <4>3 DEF NoOrphanEntry
      <3> QED BY <3>1, <3>2
    <2> QED BY <2>1, <2>2 DEF NoOrphanEntry
  <1>8. EntryOwned'
    <2>1. \A d \in Caller :
            /\ ent'[d] # NoEntry <=> cpc'[d] \in {"fn", "remove", "wait"}
            /\ ent'[d] # NoEntry => ckey'[d] \in CKey
      BY <1>2, <1>4 DEF EntryOwned
    <2>2. \A a, b \in Caller :
            cpc'[a] \in {"fn", "remove"} /\ cpc'[b] \in {"fn", "remove"} /\ ent'[a] = ent'[b]
              => a = b
      BY <1>4 DEF EntryOwned
    <2>3. \A e \in Entry : result'[e] # Nothing => \E d \in Caller : ent'[d] = e
      BY <1>1, <1>2, <1>4 DEF EntryOwned
    <2> QED BY <2>1, <2>2, <2>3 DEF EntryOwned
  <1>9. FreshIsMapped'
    BY <1>1, <1>4 DEF FreshIsMapped
  <1> QED BY <1>3, <1>7, <1>8, <1>9

\* A new leader takes an entry nobody knows, in place of none or of an old one.
LEMMA LeadInv ==
  ASSUME CoalescerIInv, NEW c \in Caller, NEW k \in CKey, DoLead(c, k)
  PROVE  CoalescerIInv'
PROOF
  <1> USE CoalescerAssumption DEF CoalescerIInv, Leading
  <1>1. PICK e \in Entry :
        /\ cpc[c] = "out" /\ m[k] \notin fresh /\ Unreferenced(e)
        /\ m' = [m EXCEPT ![k] = e]
        /\ fresh' = fresh \cup {e}
        /\ cpc' = [cpc EXCEPT ![c] = "fn"]
        /\ ckey' = [ckey EXCEPT ![c] = k]
        /\ ent' = [ent EXCEPT ![c] = e]
        /\ result' = result /\ got' = got
    BY DEF DoLead, Enter
  <1>2. /\ \A q \in CKey : m[q] # e
        /\ \A d \in Caller : ent[d] # e
        /\ e # NoEntry /\ ent[c] = NoEntry
    BY <1>1 DEF Unreferenced, EntryOwned
  <1>3. CoalescerTypeOK'
    BY <1>1 DEF CoalescerTypeOK, CoalescerPCs
  <1>4. /\ cpc'[c] = "fn" /\ ckey'[c] = k /\ ent'[c] = e /\ m'[k] = e
        /\ \A d \in Caller : d # c =>
             cpc'[d] = cpc[d] /\ ckey'[d] = ckey[d] /\ ent'[d] = ent[d]
        /\ \A q \in CKey : q # k => m'[q] = m[q]
    BY <1>1 DEF CoalescerTypeOK
  <1>5. NoOrphanEntry'
    <2>1. ASSUME NEW q \in CKey, m'[q] # NoEntry
          PROVE  \E d \in Caller : ent'[d] = m'[q] /\ ckey'[d] = q /\ cpc'[d] \in {"fn", "remove"}
      <3>1. CASE q = k
        BY <1>4, <3>1
      <3>2. CASE q # k
        <4>1. m[q] = m'[q]
          BY <1>4, <3>2
        <4>2. PICK d \in Caller : ent[d] = m[q] /\ ckey[d] = q /\ cpc[d] \in {"fn", "remove"}
          BY <2>1, <4>1 DEF NoOrphanEntry
        <4>3. d # c
          BY <1>1, <4>2
        <4> QED BY <1>4, <4>1, <4>2, <4>3
      <3> QED BY <3>1, <3>2
    <2>2. ASSUME NEW w \in Caller, cpc'[w] = "wait"
          PROVE  \/ result'[ent'[w]] # Nothing
                 \/ \E d \in Caller : ent'[d] = ent'[w] /\ ckey'[d] = ckey'[w] /\ cpc'[d] = "fn"
      <3>1. w # c /\ cpc[w] = "wait"
        BY <1>4, <2>2
      <3>2. CASE result[ent[w]] # Nothing
        BY <1>1, <1>4, <3>1, <3>2
      <3>3. CASE \E d \in Caller : ent[d] = ent[w] /\ ckey[d] = ckey[w] /\ cpc[d] = "fn"
        <4>1. PICK d \in Caller : ent[d] = ent[w] /\ ckey[d] = ckey[w] /\ cpc[d] = "fn"
          BY <3>3
        <4>2. d # c
          BY <1>1, <4>1
        <4> QED BY <1>4, <3>1, <4>1, <4>2
      <3> QED BY <3>1, <3>2, <3>3 DEF NoOrphanEntry
    <2> QED BY <2>1, <2>2 DEF NoOrphanEntry
  <1>6. EntryOwned'
    <2>1. \A d \in Caller :
            /\ ent'[d] # NoEntry <=> cpc'[d] \in {"fn", "remove", "wait"}
            /\ ent'[d] # NoEntry => ckey'[d] \in CKey
      BY <1>2, <1>4 DEF EntryOwned
    <2>2. \A a, b \in Caller :
            cpc'[a] \in {"fn", "remove"} /\ cpc'[b] \in {"fn", "remove"} /\ ent'[a] = ent'[b]
              => a = b
      BY <1>2, <1>4 DEF EntryOwned
    <2>3. \A x \in Entry : result'[x] # Nothing => \E d \in Caller : ent'[d] = x
      BY <1>1, <1>2, <1>4 DEF EntryOwned
    <2> QED BY <2>1, <2>2, <2>3 DEF EntryOwned
  <1>7. FreshIsMapped'
    <2>1. result[e] = Nothing
      BY <1>2 DEF EntryOwned
    <2>2. ASSUME NEW d \in Caller, d # c, cpc[d] \in {"fn", "remove"}, ent[d] \in fresh
          PROVE  m'[ckey[d]] = ent[d]
      <3>1. m[ckey[d]] = ent[d] /\ ckey[d] \in CKey
        BY <2>2, InsideMeans DEF FreshIsMapped
      <3>2. ckey[d] # k
        BY <1>1, <2>2, <3>1
      <3> QED BY <1>4, <3>1, <3>2
    <2>3. ASSUME NEW d \in Caller
          PROVE  /\ cpc'[d] = "fn" => result'[ent'[d]] = Nothing
                 /\ cpc'[d] = "remove" => result'[ent'[d]] # Nothing
                 /\ cpc'[d] \in {"fn", "remove"} /\ ent'[d] \in fresh' => m'[ckey'[d]] = ent'[d]
      <3>1. CASE d = c
        BY <1>1, <1>4, <2>1, <3>1
      <3>2. CASE d # c
        BY <1>1, <1>2, <1>4, <2>2, <3>2 DEF FreshIsMapped
      <3> QED BY <3>1, <3>2
    <2> QED BY <2>3 DEF FreshIsMapped
  <1> QED BY <1>3, <1>5, <1>6, <1>7

\* fn returns: from now on its followers find a result.
LEMMA FnReturnInv ==
  ASSUME CoalescerIInv, NEW c \in Caller, NEW v \in Decision, FnReturn(c, v)
  PROVE  CoalescerIInv'
PROOF
  <1> USE CoalescerAssumption DEF CoalescerIInv, Leading
  <1>1. /\ cpc[c] = "fn"
        /\ result' = [result EXCEPT ![ent[c]] = v]
        /\ cpc' = [cpc EXCEPT ![c] = "remove"]
        /\ m' = m /\ fresh' = fresh /\ ckey' = ckey /\ ent' = ent /\ got' = got
    BY DEF FnReturn
  <1>2. ent[c] \in Entry /\ v # Nothing
    BY <1>1, InsideMeans
  <1>3. CoalescerTypeOK'
    BY <1>1, <1>2 DEF CoalescerTypeOK, CoalescerPCs
  <1>4. /\ cpc'[c] = "remove" /\ result'[ent[c]] # Nothing
        /\ \A d \in Caller : d # c => cpc'[d] = cpc[d]
        /\ \A x \in Entry : x # ent[c] => result'[x] = result[x]
    BY <1>1, <1>2 DEF CoalescerTypeOK
  <1>5. NoOrphanEntry'
    <2>1. \A q \in CKey : m'[q] # NoEntry =>
            \E d \in Caller : ent'[d] = m'[q] /\ ckey'[d] = q /\ cpc'[d] \in {"fn", "remove"}
      BY <1>1, <1>4 DEF NoOrphanEntry
    <2>2. ASSUME NEW w \in Caller, cpc'[w] = "wait"
          PROVE  \/ result'[ent'[w]] # Nothing
                 \/ \E d \in Caller : ent'[d] = ent'[w] /\ ckey'[d] = ckey'[w] /\ cpc'[d] = "fn"
      <3>1. cpc[w] = "wait" /\ ent'[w] = ent[w] /\ ent[w] \in Entry
        BY <1>1, <1>4, <2>2, InsideMeans
      <3>2. CASE ent[w] = ent[c]
        BY <1>4, <3>1, <3>2
      <3>3. CASE ent[w] # ent[c]
        <4>1. result'[ent[w]] = result[ent[w]]
          BY <1>4, <3>1, <3>3
        <4>2. \A d \in Caller : ent[d] = ent[w] => cpc'[d] = cpc[d]
          BY <1>4, <3>3
        <4> QED BY <1>1, <3>1, <4>1, <4>2 DEF NoOrphanEntry
      <3> QED BY <3>2, <3>3
    <2> QED BY <2>1, <2>2 DEF NoOrphanEntry
  <1>6. EntryOwned'
    <2>1. \A d \in Caller :
            /\ ent'[d] # NoEntry <=> cpc'[d] \in {"fn", "remove", "wait"}
            /\ ent'[d] # NoEntry => ckey'[d] \in CKey
      BY <1>1, <1>4 DEF EntryOwned
    <2>2. \A a, b \in Caller :
            cpc'[a] \in {"fn", "remove"} /\ cpc'[b] \in {"fn", "remove"} /\ ent'[a] = ent'[b]
              => a = b
      BY <1>1, <1>4 DEF EntryOwned
    <2>3. \A x \in Entry : result'[x] # Nothing => \E d \in Caller : ent'[d] = x
      BY <1>1, <1>4 DEF EntryOwned
    <2> QED BY <2>1, <2>2, <2>3 DEF EntryOwned
  <1>7. FreshIsMapped'
    <2>1. ASSUME NEW d \in Caller
          PROVE  /\ cpc'[d] = "fn" => result'[ent'[d]] = Nothing
                 /\ cpc'[d] = "remove" => result'[ent'[d]] # Nothing
                 /\ cpc'[d] \in {"fn", "remove"} /\ ent'[d] \in fresh' => m'[ckey'[d]] = ent'[d]
      <3>1. CASE d = c
        BY <1>1, <1>4, <3>1 DEF FreshIsMapped
      <3>2. CASE d # c
        <4>1. cpc[d] \in {"fn", "remove"} => ent[d] # ent[c] /\ ent[d] \in Entry
          BY <1>1, <3>2, InsideMeans DEF EntryOwned
        <4> QED BY <1>1, <1>4, <3>2, <4>1 DEF FreshIsMapped
      <3> QED BY <3>1, <3>2
    <2> QED BY <2>1 DEF FreshIsMapped
  <1> QED BY <1>3, <1>5, <1>6, <1>7

------------------------------------------------------------------------------
(* The ways out of Do: the leader removes its entry, a follower goes. *)

\* What a return from Do does, whoever returns.
LEMMA ReturnFacts ==
  ASSUME CoalescerIInv, NEW c \in Caller, NEW v \in Decision \cup {Nothing, CtxErr},
         cpc[c] \in Leading \cup {"wait"}, Return(c, v)
  PROVE  /\ cpc'[c] = "returned" /\ ckey'[c] = NoKey /\ ent'[c] = NoEntry
         /\ \A d \in Caller : d # c =>
              cpc'[d] = cpc[d] /\ ckey'[d] = ckey[d] /\ ent'[d] = ent[d]
         /\ \A d \in Caller : d # c /\ ent[d] \in Entry =>
              result'[ent[d]] = result[ent[d]]
         /\ \A e \in Entry : result'[e] # Nothing =>
              result[e] # Nothing /\ \E d \in Caller : d # c /\ ent[d] = e
         /\ result' \in [Entry -> Decision \cup {Nothing}]
         /\ cpc' \in [Caller -> CoalescerPCs]
         /\ ckey' \in [Caller -> CKey \cup {NoKey}]
         /\ ent' \in [Caller -> Entry \cup {NoEntry}]
         /\ got' \in [Caller -> Decision \cup {Nothing, CtxErr}]
PROOF
  <1> USE DEF CoalescerIInv, CoalescerTypeOK
  <1>1. ent[c] \in Entry
    BY InsideMeans
  <1>2. /\ cpc' = [cpc EXCEPT ![c] = "returned"]
        /\ ckey' = [ckey EXCEPT ![c] = NoKey]
        /\ ent' = [ent EXCEPT ![c] = NoEntry]
        /\ got' = [got EXCEPT ![c] = v]
    BY DEF Return
  <1>3. CASE \E q \in Caller \ {c} : ent[q] = ent[c]
    <2>1. result' = result
      BY <1>3 DEF Return
    <2>2. \A e \in Entry : result[e] # Nothing => \E d \in Caller : d # c /\ ent[d] = e
      BY <1>3 DEF EntryOwned
    <2> QED BY <1>2, <2>1, <2>2 DEF CoalescerPCs
  <1>4. CASE ~\E q \in Caller \ {c} : ent[q] = ent[c]
    <2>1. result' = [result EXCEPT ![ent[c]] = Nothing]
      BY <1>4 DEF Return
    <2>2. result'[ent[c]] = Nothing /\ \A e \in Entry : e # ent[c] => result'[e] = result[e]
      BY <1>1, <2>1
    <2>3. \A d \in Caller : d # c => ent[d] # ent[c]
      BY <1>4
    <2>4. \A e \in Entry : result'[e] # Nothing =>
            result[e] # Nothing /\ \E d \in Caller : d # c /\ ent[d] = e
      BY <2>2 DEF EntryOwned
    <2> QED BY <1>1, <1>2, <2>1, <2>2, <2>3, <2>4 DEF CoalescerPCs
  <1> QED BY <1>3, <1>4

\* The leader takes its own entry out of the map, and no other.
LEMMA RemoveInv ==
  ASSUME CoalescerIInv, NEW c \in Caller, Remove(c)
  PROVE  CoalescerIInv'
PROOF
  <1> USE CoalescerAssumption DEF CoalescerIInv, Leading
  <1>1. /\ cpc[c] = "remove"
        /\ m' = [m EXCEPT ![ckey[c]] = IF @ = ent[c] THEN NoEntry ELSE @]
        /\ fresh' = fresh \ {ent[c]}
        /\ Return(c, result[ent[c]])
    BY DEF Remove
  <1>2. ent[c] \in Entry /\ ckey[c] \in CKey /\ result[ent[c]] \in Decision \cup {Nothing, CtxErr}
    BY <1>1, InsideMeans DEF CoalescerTypeOK
  <1>3. /\ cpc'[c] = "returned" /\ ckey'[c] = NoKey /\ ent'[c] = NoEntry
        /\ \A d \in Caller : d # c =>
             cpc'[d] = cpc[d] /\ ckey'[d] = ckey[d] /\ ent'[d] = ent[d]
        /\ \A d \in Caller : d # c /\ ent[d] \in Entry =>
             result'[ent[d]] = result[ent[d]]
        /\ \A e \in Entry : result'[e] # Nothing =>
             result[e] # Nothing /\ \E d \in Caller : d # c /\ ent[d] = e
    BY <1>1, <1>2, ReturnFacts
  <1>4. CoalescerTypeOK'
    <2>1. /\ result' \in [Entry -> Decision \cup {Nothing}]
          /\ cpc' \in [Caller -> CoalescerPCs]
          /\ ckey' \in [Caller -> CKey \cup {NoKey}]
          /\ ent' \in [Caller -> Entry \cup {NoEntry}]
          /\ got' \in [Caller -> Decision \cup {Nothing, CtxErr}]
      BY <1>1, <1>2, ReturnFacts
    <2>2. m' \in [CKey -> Entry \cup {NoEntry}] /\ fresh' \subseteq Entry
      BY <1>1 DEF CoalescerTypeOK
    <2> QED BY <2>1, <2>2 DEF CoalescerTypeOK
  <1>5. /\ m[ckey[c]] = ent[c] => m'[ckey[c]] = NoEntry
        /\ \A q \in CKey : q # ckey[c] \/ m[q] # ent[c] => m'[q] = m[q]
        /\ \A q \in CKey : m'[q] # NoEntry => m'[q] = m[q]
    BY <1>1, <1>2 DEF CoalescerTypeOK
  <1>6. NoOrphanEntry'
    <2>1. ASSUME NEW q \in CKey, m'[q] # NoEntry
          PROVE  \E d \in Caller : ent'[d] = m'[q] /\ ckey'[d] = q /\ cpc'[d] \in {"fn", "remove"}
      <3>1. m'[q] = m[q] /\ m[q] # NoEntry
        BY <1>5, <2>1
      <3>2. PICK d \in Caller : ent[d] = m[q] /\ ckey[d] = q /\ cpc[d] \in {"fn", "remove"}
        BY <3>1 DEF NoOrphanEntry
      <3>3. d # c
        BY <1>5, <2>1, <3>1, <3>2
      <3> QED BY <1>3, <3>1, <3>2, <3>3
    <2>2. ASSUME NEW w \in Caller, cpc'[w] = "wait"
          PROVE  \/ result'[ent'[w]] # Nothing
                 \/ \E d \in Caller : ent'[d] = ent'[w] /\ ckey'[d] = ckey'[w] /\ cpc'[d] = "fn"
      <3>1. w # c /\ cpc[w] = "wait"
        BY <1>3, <2>2
      <3>2. ent[w] \in Entry
        BY <3>1, InsideMeans
      <3>3. CASE result[ent[w]] # Nothing
        BY <1>3, <3>1, <3>2, <3>3
      <3>4. CASE \E d \in Caller : ent[d] = ent[w] /\ ckey[d] = ckey[w] /\ cpc[d] = "fn"
        <4>1. PICK d \in Caller : ent[d] = ent[w] /\ ckey[d] = ckey[w] /\ cpc[d] = "fn"
          BY <3>4
        <4>2. d # c
          BY <1>1, <4>1
        <4> QED BY <1>3, <3>1, <4>1, <4>2
      <3> QED BY <3>1, <3>3, <3>4 DEF NoOrphanEntry
    <2> QED BY <2>1, <2>2 DEF NoOrphanEntry
  <1>7. EntryOwned'
    <2>1. \A d \in Caller :
            /\ ent'[d] # NoEntry <=> cpc'[d] \in {"fn", "remove", "wait"}
            /\ ent'[d] # NoEntry => ckey'[d] \in CKey
      BY <1>3 DEF EntryOwned
    <2>2. \A a, b \in Caller :
            cpc'[a] \in {"fn", "remove"} /\ cpc'[b] \in {"fn", "remove"} /\ ent'[a] = ent'[b]
              => a = b
      BY <1>3 DEF EntryOwned
    <2>3. \A x \in Entry : result'[x] # Nothing => \E d \in Caller : ent'[d] = x
      BY <1>3
    <2> QED BY <2>1, <2>2, <2>3 DEF EntryOwned
  <1>8. FreshIsMapped'
    <2>1. ASSUME NEW d \in Caller
          PROVE  /\ cpc'[d] = "fn" => result'[ent'[d]] = Nothing
                 /\ cpc'[d] = "remove" => result'[ent'[d]] # Nothing
                 /\ cpc'[d] \in {"fn", "remove"} /\ ent'[d] \in fresh' => m'[ckey'[d]] = ent'[d]
      <3>1. CASE d = c
        BY <1>3, <3>1
      <3>2. CASE d # c /\ cpc[d] \notin {"fn", "remove"}
        BY <1>3, <3>2
      <3>3. CASE d # c /\ cpc[d] \in {"fn", "remove"}
        <4>1. ent[d] \in Entry /\ ckey[d] \in CKey /\ ent[d] # ent[c]
          BY <1>1, <3>3, InsideMeans DEF EntryOwned
        <4>2. ent[d] \in fresh => m'[ckey[d]] = ent[d]
          BY <1>5, <3>3, <4>1 DEF FreshIsMapped
        <4>3. /\ cpc[d] = "fn" => result[ent[d]] = Nothing
              /\ cpc[d] = "remove" => result[ent[d]] # Nothing
          BY DEF FreshIsMapped
        <4> QED BY <1>1, <1>3, <3>3, <4>1, <4>2, <4>3
      <3> QED BY <3>1, <3>2, <3>3
    <2> QED BY <2>1 DEF FreshIsMapped
  <1> QED BY <1>4, <1>6, <1>7, <1>8

\* A follower leaves nothing behind and takes nothing from the others.
LEMMA WaitInv ==
  ASSUME CoalescerIInv, NEW c \in Caller, WaitDone(c) \/ WaitCtx(c)
  PROVE  CoalescerIInv'
PROOF
  <1> USE CoalescerAssumption DEF CoalescerIInv, Leading
  <1>1. cpc[c] = "wait" /\ m' = m /\ fresh' = fresh
    BY DEF WaitDone, WaitCtx
  <1>2. ent[c] \in Entry
    BY <1>1, InsideMeans
  <1>3. PICK v \in Decision \cup {Nothing, CtxErr} : Return(c, v)
    BY <1>2 DEF WaitDone, WaitCtx, CoalescerTypeOK
  <1>4. /\ cpc'[c] = "returned" /\ ckey'[c] = NoKey /\ ent'[c] = NoEntry
        /\ \A d \in Caller : d # c =>
             cpc'[d] = cpc[d] /\ ckey'[d] = ckey[d] /\ ent'[d] = ent[d]
        /\ \A d \in Caller : d # c /\ ent[d] \in Entry =>
             result'[ent[d]] = result[ent[d]]
        /\ \A e \in Entry : result'[e] # Nothing =>
             result[e] # Nothing /\ \E d \in Caller : d # c /\ ent[d] = e
    BY <1>1, <1>3, ReturnFacts
  <1>5. CoalescerTypeOK'
    <2>1. /\ result' \in [Entry -> Decision \cup {Nothing}]
          /\ cpc' \in [Caller -> CoalescerPCs]
          /\ ckey' \in [Caller -> CKey \cup {NoKey}]
          /\ ent' \in [Caller -> Entry \cup {NoEntry}]
          /\ got' \in [Caller -> Decision \cup {Nothing, CtxErr}]
      BY <1>1, <1>3, ReturnFacts
    <2> QED BY <1>1, <2>1 DEF CoalescerTypeOK
  <1>6. NoOrphanEntry'
    <2>1. ASSUME NEW q \in CKey, m'[q] # NoEntry
          PROVE  \E d \in Caller : ent'[d] = m'[q] /\ ckey'[d] = q /\ cpc'[d] \in {"fn", "remove"}
      <3>1. PICK d \in Caller : ent[d] = m[q] /\ ckey[d] = q /\ cpc[d] \in {"fn", "remove"}
        BY <1>1, <2>1 DEF NoOrphanEntry
      <3>2. d # c
        BY <1>1, <3>1
      <3> QED BY <1>1, <1>4, <3>1, <3>2
    <2>2. ASSUME NEW w \in Caller, cpc'[w] = "wait"
          PROVE  \/ result'[ent'[w]] # Nothing
                 \/ \E d \in Caller : ent'[d] = ent'[w] /\ ckey'[d] = ckey'[w] /\ cpc'[d] = "fn"
      <3>1. w # c /\ cpc[w] = "wait"
        BY <1>4, <2>2
      <3>2. ent[w] \in Entry
        BY <3>1, InsideMeans
      <3>3. CASE result[ent[w]] # Nothing
        BY <1>4, <3>1, <3>2, <3>3
      <3>4. CASE \E d \in Caller : ent[d] = ent[w] /\ ckey[d] = ckey[w] /\ cpc[d] = "fn"
        <4>1. PICK d \in Caller : ent[d] = ent[w] /\ ckey[d] = ckey[w] /\ cpc[d] = "fn"
          BY <3>4
        <4>2. d # c
          BY <1>1, <4>1
        <4> QED BY <1>4, <3>1, <4>1, <4>2
      <3> QED BY <3>1, <3>3, <3>4 DEF NoOrphanEntry
    <2> QED BY <2>1, <2>2 DEF NoOrphanEntry
  <1>7. EntryOwned'
    <2>1. \A d \in Caller :
            /\ ent'[d] # NoEntry <=> cpc'[d] \in {"fn", "remove", "wait"}
            /\ ent'[d] # NoEntry => ckey'[d] \in CKey
      BY <1>4 DEF EntryOwned
    <2>2. \A a, b \in Caller :
            cpc'[a] \in {"fn", "remove"} /\ cpc'[b] \in {"fn", "remove"} /\ ent'[a] = ent'[b]
              => a = b
      BY <1>4 DEF EntryOwned
    <2>3. \A x \in Entry : result'[x] # Nothing => \E d \in Caller : ent'[d] = x
      BY <1>4
    <2> QED BY <2>1, <2>2, <2>3 DEF EntryOwned
  <1>8. FreshIsMapped'
    <2>1. ASSUME NEW d \in Caller, cpc'[d] \in {"fn", "remove"}
          PROVE  d # c /\ ent[d] \in Entry /\ cpc[d] = cpc'[d]
      BY <1>4, <2>1, InsideMeans
    <2> QED BY <1>1, <1>4, <2>1 DEF FreshIsMapped
  <1> QED BY <1>5, <1>6, <1>7, <1>8

------------------------------------------------------------------------------

\* Taking the result, and the ttl of an entry, touch nothing that matters.
LEMMA LeaveInv ==
  ASSUME CoalescerIInv, NEW c \in Caller, Leave(c)
  PROVE  CoalescerIInv'
PROOF
  <1> USE DEF CoalescerIInv, Leading
  <1>1. /\ cpc[c] = "returned" /\ cpc' = [cpc EXCEPT ![c] = "out"]
        /\ got' = [got EXCEPT ![c] = Nothing]
        /\ UNCHANGED <<m, fresh, result, ckey, ent>>
    BY DEF Leave
  <1>2. CoalescerTypeOK'
    BY <1>1 DEF CoalescerTypeOK, CoalescerPCs
  <1>3. /\ cpc'[c] = "out"
        /\ \A d \in Caller : d # c => cpc'[d] = cpc[d]
    BY <1>1 DEF CoalescerTypeOK
  <1>4. NoOrphanEntry'
    BY <1>1, <1>3 DEF NoOrphanEntry
  <1>5. EntryOwned'
    BY <1>1, <1>3 DEF EntryOwned
  <1>6. FreshIsMapped'
    BY <1>1, <1>3 DEF FreshIsMapped
  <1> QED BY <1>2, <1>4, <1>5, <1>6

\* An entry that grows old frees its key and orphans nobody.
LEMMA ExpireInv ==
  ASSUME CoalescerIInv, NEW k \in CKey, Expire(k)
  PROVE  CoalescerIInv'
PROOF
  <1> USE DEF CoalescerIInv, Expire
  <1>1. CoalescerTypeOK'
    BY DEF CoalescerTypeOK
  <1>2. NoOrphanEntry' /\ EntryOwned'
    BY DEF NoOrphanEntry, EntryOwned
  <1>3. FreshIsMapped'
    BY DEF FreshIsMapped
  <1> QED BY <1>1, <1>2, <1>3

\* A step of the coalescer preserves the invariant.
LEMMA CoalescerStepInv ==
  ASSUME CoalescerIInv, [CoalescerNext]_coalescerVars
  PROVE  CoalescerIInv'
PROOF
  <1>1. ASSUME NEW c \in Caller, NEW k \in CKey, DoJoin(c, k) \/ DoLead(c, k)
        PROVE  CoalescerIInv'
    BY <1>1, JoinInv, LeadInv
  <1>2. ASSUME NEW c \in Caller, NEW v \in Decision, FnReturn(c, v)
        PROVE  CoalescerIInv'
    BY <1>2, FnReturnInv
  <1>3. ASSUME NEW c \in Caller, Remove(c) \/ WaitDone(c) \/ WaitCtx(c) \/ Leave(c)
        PROVE  CoalescerIInv'
    BY <1>3, RemoveInv, WaitInv, LeaveInv
  <1>4. ASSUME NEW k \in CKey, Expire(k) PROVE CoalescerIInv'
    BY <1>4, ExpireInv
  <1>5. CASE UNCHANGED coalescerVars
    BY <1>5 DEF coalescerVars, CoalescerIInv, CoalescerTypeOK, NoOrphanEntry,
                EntryOwned, FreshIsMapped, Leading
  <1> QED BY <1>1, <1>2, <1>3, <1>4, <1>5 DEF CoalescerNext

\* The invariant of the coalescer by itself.
LEMMA CoalescerInvariant == CoalescerSpec => []CoalescerIInv
PROOF
  BY CoalescerInitInv, CoalescerStepInv, PTL DEF CoalescerSpec

\* Nobody waits for a call that nobody is making, and a decision is shared only
\* with calls for the same key that overlap (Do in core/coalescer.go), for any
\* number of callers and keys.
THEOREM CoalescerNoOrphanEntry == CoalescerSpec => []NoOrphanEntry
PROOF
  <1>1. CoalescerIInv => NoOrphanEntry
    BY DEF CoalescerIInv
  <1> QED BY <1>1, CoalescerInvariant, PTL

\* At most one call per key that is younger than the ttl runs fn, however many
\* leaders have outlived theirs and come back to the map late.
THEOREM CoalescerOneFreshLeader == CoalescerSpec => []OneFreshLeader
PROOF
  <1>1. CoalescerIInv => OneFreshLeader
    BY DEF CoalescerIInv, OneFreshLeader, FreshIsMapped, EntryOwned, Leading
  <1> QED BY <1>1, CoalescerInvariant, PTL

------------------------------------------------------------------------------
(* The check path *)

\* What CheckIInv says of one request.
RequestOK(r) ==
    /\ r \in inflight <=> hpc[r] # "idle"
    /\ hpc[r] # "idle" => user[r] \in CKey
    /\ handle[r] => hpc[r] \in {"key", "do", "unkey", "unhandle"}
    /\ buf[r] # NoBuffer <=> hpc[r] \in {"do", "unkey"}
    /\ hpc[r] # "do" => cpc[r] = "out"
    /\ charged[r] # NoKey => \/ hpc[r] = "do" /\ cpc[r] \in {"remove", "returned"}
                            \/ hpc[r] \in {"unkey", "unhandle", "end"}
    /\ charged[r] # NoKey /\ cpc[r] = "returned" => got[r] # CtxErr
    /\ charged[r] # NoKey /\ hpc[r] \in {"unkey", "unhandle", "end"} =>
         reply[r] = "decision"
    /\ reply[r] # "none" => hpc[r] \in {"unkey", "unhandle", "end"}

\* The invariant of the check path, one request at a time.
LEMMA RequestsOK ==
  HoldsByPC /\ ChargedByPC <=> \A r \in Caller : RequestOK(r)
PROOF
  BY DEF HoldsByPC, ChargedByPC, RequestOK

\* A step of one request leaves what is known of the others alone.
LEMMA OthersKeep ==
  ASSUME CheckIInv, NEW r \in Caller, CheckTypeOK', RequestOK(r)',
         \A q \in Caller : q # r =>
           /\ hpc'[q] = hpc[q] /\ cpc'[q] = cpc[q] /\ user'[q] = user[q]
           /\ handle'[q] = handle[q] /\ buf'[q] = buf[q] /\ charged'[q] = charged[q]
           /\ got'[q] = got[q] /\ reply'[q] = reply[q]
           /\ q \in inflight' <=> q \in inflight
  PROVE  HoldsByPC' /\ ChargedByPC'
PROOF
  <1>1. \A q \in Caller : RequestOK(q)
    BY RequestsOK DEF CheckIInv
  <1>2. ASSUME NEW q \in Caller, q # r PROVE RequestOK(q)'
    BY <1>1, <1>2 DEF RequestOK
  <1>3. \A q \in Caller : RequestOK(q)'
    BY <1>2
  <1> QED BY <1>3 DEF HoldsByPC, ChargedByPC, RequestOK

\* A step of the coalescer for caller r changes nothing of other callers' calls.
LEMMA CallersApart ==
  ASSUME CoalescerTypeOK, NEW r \in Caller, NEW k, NEW v,
         \/ UNCHANGED coalescerVars \/ DoJoin(r, k) \/ DoLead(r, k) \/ FnReturn(r, v)
         \/ Remove(r) \/ WaitDone(r) \/ WaitCtx(r) \/ Leave(r)
  PROVE  \A q \in Caller : q # r => cpc'[q] = cpc[q] /\ got'[q] = got[q]
PROOF
  BY DEF CoalescerTypeOK, coalescerVars, DoJoin, DoLead, FnReturn, Remove, WaitDone,
         WaitCtx, Leave, Enter, Return

\* While a request is in the coalescer its buffer holds its user.
LEMMA KeyOfRequest ==
  ASSUME CheckIInv, NEW r \in Caller, hpc[r] = "do"
  PROVE  bytes[buf[r]] = user[r] /\ user[r] \in CKey
PROOF
  BY DEF CheckIInv, HoldsByPC, BufferInv

\* Every step of the check path is a step of the coalescer or leaves it alone.
LEMMA StepRefinesCoalescer ==
  ASSUME CheckIInv, [Next]_vars
  PROVE  [CoalescerNext]_coalescerVars
PROOF
  <1>1. CASE UNCHANGED vars
    BY <1>1 DEF vars
  <1>2. ASSUME NEW r \in Caller, Do(r) PROVE CoalescerNext
    BY <1>2, KeyOfRequest DEF Do, CoalescerNext
  <1>3. ASSUME NEW r \in Caller, AllowRedis(r) \/ AllowFallback(r) PROVE CoalescerNext
    BY <1>3, CheckPathAssumption DEF AllowRedis, AllowFallback, CoalescerNext
  <1>4. ASSUME NEW r \in Caller, DoStep(r) \/ WaitExpires(r) \/ Respond(r)
        PROVE  CoalescerNext
    BY <1>4 DEF DoStep, WaitExpires, Respond, CoalescerNext
  <1>5. CASE Tick
    BY <1>5 DEF Tick, CoalescerNext
  <1>6. ASSUME NEW r \in Caller,
               \/ handleCheck(r) \/ GetRule(r) \/ AcquireLookup(r) \/ AcquireEntry(r)
               \/ BuildKey(r) \/ ReleaseKey(r) \/ ReleaseHandle(r) \/ End(r)
        PROVE  UNCHANGED coalescerVars
    BY <1>6 DEF handleCheck, Begin, GetRule, AcquireLookup, AcquireEntry, BuildKey,
                ReleaseKey, ReleaseHandle, End
  <1>7. CASE RuleChanges \/ DropLimiter \/ CloseInFlight
    BY <1>7 DEF RuleChanges, DropLimiter, CloseInFlight
  <1> QED BY <1>1, <1>2, <1>3, <1>4, <1>5, <1>6, <1>7 DEF Next, RequestStep

\* Nobody's buffer or key changes.
LEMMA KeysKept ==
  ASSUME BufferInv, UNCHANGED <<buf, bytes, bufPool, user>>
  PROVE  BufferInv'
PROOF
  BY DEF BufferInv

------------------------------------------------------------------------------

\* A request begins and is counted.
LEMMA BeginInv ==
  ASSUME CheckIInv, NEW r \in Caller, NEW u \in CKey, Begin(r, u)
  PROVE  CheckTypeOK' /\ HoldsByPC' /\ ChargedByPC' /\ BufferInv'
PROOF
  <1> USE DEF CheckIInv
  <1>1. /\ hpc[r] = "idle" /\ inflight' = inflight \cup {r}
        /\ user' = [user EXCEPT ![r] = u] /\ hpc' = [hpc EXCEPT ![r] = "rule"]
        /\ UNCHANGED <<cpc, got, handle, buf, bytes, bufPool, charged, reply>>
    BY DEF Begin, Goto, coalescerVars, keyVars
  <1>2. CheckTypeOK'
    BY <1>1 DEF CheckTypeOK, RequestPCs
  <1>3. RequestOK(r)
    BY RequestsOK
  <1>4. RequestOK(r)'
    BY <1>1, <1>3 DEF CheckTypeOK, RequestOK
  <1>5. HoldsByPC' /\ ChargedByPC'
    BY <1>1, <1>2, <1>4, OthersKeep DEF CheckTypeOK
  <1>6. buf[r] = NoBuffer
    BY <1>1, <1>3 DEF RequestOK
  <1>7. BufferInv'
    BY <1>1, <1>6 DEF BufferInv, CheckTypeOK
  <1> QED BY <1>2, <1>5, <1>7

\* The steps that end at a point of CheckLimit, perhaps with a reply, without
\* touching buffers or the coalescer.
LEMMA MoveInv ==
  ASSUME CheckIInv, NEW r \in Caller, RequestOK(r)', CheckTypeOK',
         UNCHANGED <<cpc, got, inflight, user, buf, bytes, bufPool, charged>>,
         \A q \in Caller : q # r =>
            hpc'[q] = hpc[q] /\ handle'[q] = handle[q] /\ reply'[q] = reply[q]
  PROVE  CheckTypeOK' /\ HoldsByPC' /\ ChargedByPC' /\ BufferInv'
PROOF
  <1>1. BufferInv'
    BY KeysKept DEF CheckIInv
  <1>2. HoldsByPC' /\ ChargedByPC'
    BY OthersKeep
  <1> QED BY <1>1, <1>2

\* The two looks at the rule: by the check itself and by Acquire.
LEMMA GetRuleInv ==
  ASSUME CheckIInv, NEW r \in Caller, GetRule(r) \/ AcquireLookup(r)
  PROVE  CheckTypeOK' /\ HoldsByPC' /\ ChargedByPC' /\ BufferInv'
PROOF
  <1> USE DEF CheckIInv
  <1>1. PICK a \in {"RULE_NOT_FOUND", "LIMITER_UNAVAILABLE"} :
          /\ hpc[r] \in {"rule", "acquire"}
          /\ \/ hpc' = [hpc EXCEPT ![r] = "end"] /\ reply' = [reply EXCEPT ![r] = a]
             \/ hpc' = [hpc EXCEPT ![r] = "acquire"] /\ reply' = reply
             \/ hpc' = [hpc EXCEPT ![r] = "pool"] /\ reply' = reply
    BY DEF GetRule, AcquireLookup, Goto, Answer
  <1>2. UNCHANGED <<cpc, got, inflight, user, handle, buf, bytes, bufPool, charged>>
    BY DEF GetRule, AcquireLookup, coalescerVars, keyVars
  <1>3. CheckTypeOK'
    BY <1>1, <1>2 DEF CheckTypeOK, RequestPCs, Replies
  <1>4. RequestOK(r)
    BY RequestsOK
  <1>5. RequestOK(r)'
    BY <1>1, <1>2, <1>4 DEF CheckTypeOK, RequestOK
  <1>6. \A q \in Caller : q # r =>
           hpc'[q] = hpc[q] /\ handle'[q] = handle[q] /\ reply'[q] = reply[q]
    BY <1>1, <1>2 DEF CheckTypeOK
  <1> QED BY <1>2, <1>3, <1>5, <1>6, MoveInv

\* Acquire, with a handle or with an error.
LEMMA AcquireEntryInv ==
  ASSUME CheckIInv, NEW r \in Caller, AcquireEntry(r)
  PROVE  CheckTypeOK' /\ HoldsByPC' /\ ChargedByPC' /\ BufferInv'
PROOF
  <1> USE DEF CheckIInv
  <1>1. /\ hpc[r] = "pool"
        /\ \/ /\ hpc' = [hpc EXCEPT ![r] = "key"] /\ reply' = reply
              /\ handle' = [handle EXCEPT ![r] = TRUE]
           \/ /\ hpc' = [hpc EXCEPT ![r] = "end"] /\ handle' = handle
              /\ reply' = [reply EXCEPT ![r] = "LIMITER_UNAVAILABLE"]
    BY DEF AcquireEntry, Goto, Answer
  <1>2. UNCHANGED <<cpc, got, inflight, user, buf, bytes, bufPool, charged>>
    BY DEF AcquireEntry, coalescerVars, keyVars
  <1>3. CheckTypeOK'
    BY <1>1, <1>2 DEF CheckTypeOK, RequestPCs, Replies
  <1>4. RequestOK(r)
    BY RequestsOK
  <1>5. RequestOK(r)'
    BY <1>1, <1>2, <1>4 DEF CheckTypeOK, RequestOK
  <1>6. \A q \in Caller : q # r =>
           hpc'[q] = hpc[q] /\ handle'[q] = handle[q] /\ reply'[q] = reply[q]
    BY <1>1, <1>2 DEF CheckTypeOK
  <1> QED BY <1>2, <1>3, <1>5, <1>6, MoveInv

\* What the pool hands out is used by nobody; it is filled with the request's
\* own key.
LEMMA BuildKeyInv ==
  ASSUME CheckIInv, NEW r \in Caller, BuildKey(r)
  PROVE  CheckTypeOK' /\ HoldsByPC' /\ ChargedByPC' /\ BufferInv'
PROOF
  <1> USE CheckPathAssumption DEF CheckIInv
  <1>1. PICK b \in Buffer :
          /\ hpc[r] = "key" /\ Get(b)
          /\ buf' = [buf EXCEPT ![r] = b] /\ bytes' = [bytes EXCEPT ![b] = user[r]]
          /\ hpc' = [hpc EXCEPT ![r] = "do"]
    BY DEF BuildKey, Goto
  <1>2. UNCHANGED <<cpc, got, inflight, user, handle, charged, reply>>
    BY DEF BuildKey, coalescerVars
  <1>3. /\ bufPool[b] \in 0..1 /\ \A q \in Caller : buf[q] # b
        /\ bufPool' = [bufPool EXCEPT ![b] = 0]
    BY <1>1 DEF Get, BufferInv, CheckTypeOK
  <1>4. CheckTypeOK'
    BY <1>1, <1>2, <1>3 DEF CheckTypeOK, RequestPCs
  <1>5. RequestOK(r)
    BY RequestsOK
  <1>6. RequestOK(r)'
    BY <1>1, <1>2, <1>5 DEF CheckTypeOK, RequestOK
  <1>7. HoldsByPC' /\ ChargedByPC'
    BY <1>1, <1>2, <1>4, <1>6, OthersKeep DEF CheckTypeOK
  <1>8. /\ buf'[r] = b /\ bytes'[b] = user[r] /\ bufPool'[b] = 0
        /\ \A q \in Caller : q # r => buf'[q] = buf[q] /\ buf'[q] # b
        /\ \A x \in Buffer : x # b => bytes'[x] = bytes[x] /\ bufPool'[x] = bufPool[x]
    BY <1>1, <1>3 DEF CheckTypeOK
  <1>9. ASSUME NEW x \in Buffer
        PROVE  bufPool'[x] <= 1 /\ (bufPool'[x] = 1 => \A q \in Caller : buf'[q] # x)
    BY <1>8 DEF BufferInv
  <1>10. ASSUME NEW q \in Caller, buf'[q] # NoBuffer
         PROVE  bytes'[buf'[q]] = user'[q] /\ \A p \in Caller \ {q} : buf'[p] # buf'[q]
    <2>1. CASE q = r
      BY <1>2, <1>8, <2>1
    <2>2. CASE q # r
      BY <1>2, <1>8, <1>10, <2>2 DEF BufferInv, CheckTypeOK
    <2> QED BY <2>1, <2>2
  <1>11. BufferInv'
    BY <1>9, <1>10 DEF BufferInv
  <1> QED BY <1>4, <1>7, <1>11

\* The buffer goes back; nobody else held it, and it was not in the pool.
LEMMA ReleaseKeyInv ==
  ASSUME CheckIInv, NEW r \in Caller, ReleaseKey(r)
  PROVE  CheckTypeOK' /\ HoldsByPC' /\ ChargedByPC' /\ BufferInv'
PROOF
  <1> USE CheckPathAssumption DEF CheckIInv
  <1>1. /\ hpc[r] = "unkey" /\ Put(buf[r])
        /\ buf' = [buf EXCEPT ![r] = NoBuffer]
        /\ hpc' = [hpc EXCEPT ![r] = "unhandle"]
    BY DEF ReleaseKey, Goto
  <1>2. UNCHANGED <<cpc, got, inflight, user, handle, bytes, charged, reply>>
    BY DEF ReleaseKey, coalescerVars
  <1>3. RequestOK(r) /\ buf[r] \in Buffer
    BY <1>1, RequestsOK DEF RequestOK, CheckTypeOK
  <1>4. bufPool[buf[r]] = 0
    BY <1>3 DEF BufferInv, CheckTypeOK
  <1>5. PICK i \in 0..1 : bufPool' = [bufPool EXCEPT ![buf[r]] = i]
    BY <1>1, <1>3, <1>4 DEF Put, CheckTypeOK
  <1>6. CheckTypeOK'
    BY <1>1, <1>2, <1>3, <1>5 DEF CheckTypeOK, RequestPCs
  <1>7. RequestOK(r)'
    BY <1>1, <1>2, <1>3 DEF CheckTypeOK, RequestOK
  <1>8. HoldsByPC' /\ ChargedByPC'
    BY <1>1, <1>2, <1>6, <1>7, OthersKeep DEF CheckTypeOK
  <1>9. /\ buf'[r] = NoBuffer /\ bufPool'[buf[r]] = i
        /\ \A q \in Caller : q # r => buf'[q] = buf[q] /\ buf'[q] # buf[r]
        /\ \A x \in Buffer : x # buf[r] => bufPool'[x] = bufPool[x]
    BY <1>1, <1>3, <1>5 DEF CheckTypeOK, BufferInv
  <1>10. ASSUME NEW x \in Buffer
         PROVE  bufPool'[x] <= 1 /\ (bufPool'[x] = 1 => \A q \in Caller : buf'[q] # x)
    <2>1. CASE x = buf[r]
      BY <1>3, <1>9, <2>1
    <2>2. CASE x # buf[r]
      BY <1>9, <2>2 DEF BufferInv
    <2> QED BY <2>1, <2>2
  <1>11. ASSUME NEW q \in Caller, buf'[q] # NoBuffer
         PROVE  bytes'[buf'[q]] = user'[q] /\ \A p \in Caller \ {q} : buf'[p] # buf'[q]
    BY <1>2, <1>9, <1>11 DEF BufferInv
  <1>12. BufferInv'
    BY <1>10, <1>11 DEF BufferInv
  <1> QED BY <1>6, <1>8, <1>12

\* The handle goes back before the request stops being counted.
LEMMA ReleaseHandleInv ==
  ASSUME CheckIInv, NEW r \in Caller, ReleaseHandle(r)
  PROVE  CheckTypeOK' /\ HoldsByPC' /\ ChargedByPC' /\ BufferInv'
PROOF
  <1> USE DEF CheckIInv
  <1>1. /\ hpc[r] = "unhandle" /\ hpc' = [hpc EXCEPT ![r] = "end"]
        /\ handle' = [handle EXCEPT ![r] = FALSE]
        /\ UNCHANGED <<cpc, got, inflight, user, buf, bytes, bufPool, charged, reply>>
    BY DEF ReleaseHandle, Goto, coalescerVars, keyVars
  <1>2. CheckTypeOK'
    BY <1>1 DEF CheckTypeOK, RequestPCs
  <1>3. RequestOK(r)
    BY RequestsOK
  <1>4. RequestOK(r)'
    BY <1>1, <1>3 DEF CheckTypeOK, RequestOK
  <1>5. \A q \in Caller : q # r =>
           hpc'[q] = hpc[q] /\ handle'[q] = handle[q] /\ reply'[q] = reply[q]
    BY <1>1 DEF CheckTypeOK
  <1> QED BY <1>1, <1>2, <1>4, <1>5, MoveInv

\* The request ends, with nothing held.
LEMMA EndInv ==
  ASSUME CheckIInv, NEW r \in Caller, End(r)
  PROVE  CheckTypeOK' /\ HoldsByPC' /\ ChargedByPC' /\ BufferInv'
PROOF
  <1> USE DEF CheckIInv
  <1>1. /\ hpc[r] = "end" /\ hpc' = [hpc EXCEPT ![r] = "idle"]
        /\ inflight' = inflight \ {r}
        /\ user' = [user EXCEPT ![r] = NoKey]
        /\ charged' = [charged EXCEPT ![r] = NoKey]
        /\ reply' = [reply EXCEPT ![r] = "none"]
        /\ UNCHANGED <<cpc, got, handle, buf, bytes, bufPool>>
    BY DEF End, Goto, Answer, coalescerVars, keyVars
  <1>2. CheckTypeOK'
    BY <1>1 DEF CheckTypeOK, RequestPCs, Replies
  <1>3. RequestOK(r)
    BY RequestsOK
  <1>4. RequestOK(r)'
    BY <1>1, <1>3 DEF CheckTypeOK, RequestOK
  <1>5. HoldsByPC' /\ ChargedByPC'
    BY <1>1, <1>2, <1>4, OthersKeep DEF CheckTypeOK
  <1>6. buf[r] = NoBuffer
    BY <1>1, <1>3 DEF RequestOK
  <1>7. BufferInv'
    BY <1>1, <1>6 DEF BufferInv, CheckTypeOK
  <1> QED BY <1>2, <1>5, <1>7

------------------------------------------------------------------------------
(* The steps in the coalescer *)

\* A step that changes only the coalescer's part of request r.
LEMMA InCoalescer ==
  ASSUME CheckIInv, NEW r \in Caller, RequestOK(r)',
         UNCHANGED <<inflight, hpc, user, handle, buf, bytes, bufPool, charged, reply>>,
         \A q \in Caller : q # r => cpc'[q] = cpc[q] /\ got'[q] = got[q]
  PROVE  CheckTypeOK' /\ HoldsByPC' /\ ChargedByPC' /\ BufferInv'
PROOF
  <1>1. CheckTypeOK'
    BY DEF CheckIInv, CheckTypeOK
  <1>2. BufferInv'
    BY KeysKept DEF CheckIInv
  <1>3. HoldsByPC' /\ ChargedByPC'
    BY <1>1, OthersKeep
  <1> QED BY <1>1, <1>2, <1>3

\* A step inside Do changes nothing outside the coalescer.
LEMMA DoInv ==
  ASSUME CheckIInv, NEW r \in Caller, Do(r)
  PROVE  CheckTypeOK' /\ HoldsByPC' /\ ChargedByPC' /\ BufferInv'
PROOF
  <1> USE DEF CheckIInv
  <1>1. UNCHANGED <<inflight, hpc, user, handle, buf, bytes, bufPool, charged, reply>>
    BY DEF Do, requestVars, keyVars
  <1>2. \A q \in Caller : q # r => cpc'[q] = cpc[q] /\ got'[q] = got[q]
    BY CallersApart DEF CoalescerIInv, Do
  <1>3. hpc[r] = "do" /\ cpc[r] = "out" /\ cpc'[r] \in {"wait", "fn"}
    BY DEF Do, DoJoin, DoLead, Enter, CoalescerIInv, CoalescerTypeOK
  <1>4. RequestOK(r)
    BY RequestsOK
  <1>5. RequestOK(r)'
    BY <1>1, <1>3, <1>4 DEF RequestOK
  <1> QED BY <1>1, <1>2, <1>5, InCoalescer

\* The leader charges while it runs fn.
LEMMA AllowInv ==
  ASSUME CheckIInv, NEW r \in Caller, AllowRedis(r) \/ AllowFallback(r)
  PROVE  CheckTypeOK' /\ HoldsByPC' /\ ChargedByPC' /\ BufferInv'
PROOF
  <1> USE DEF CheckIInv
  <1>1. /\ cpc[r] = "fn" /\ charged' = [charged EXCEPT ![r] = bytes[buf[r]]]
        /\ UNCHANGED <<inflight, hpc, user, handle, buf, bytes, bufPool, reply>>
    BY DEF AllowRedis, AllowFallback, keyVars
  <1>2. PICK v \in {"redis", "fallback"} : FnReturn(r, v)
    BY DEF AllowRedis, AllowFallback
  <1>3. \A q \in Caller : q # r => cpc'[q] = cpc[q] /\ got'[q] = got[q]
    BY <1>2, CallersApart DEF CoalescerIInv
  <1>4. cpc'[r] = "remove"
    BY <1>2 DEF FnReturn, CoalescerIInv, CoalescerTypeOK
  <1>5. RequestOK(r)
    BY RequestsOK
  <1>6. CheckTypeOK'
    <2>1. hpc[r] = "do"
      BY <1>1, <1>5 DEF RequestOK
    <2> QED BY <1>1, <2>1, KeyOfRequest DEF CheckTypeOK
  <1>7. RequestOK(r)'
    BY <1>1, <1>4, <1>5 DEF RequestOK
  <1>8. HoldsByPC' /\ ChargedByPC'
    BY <1>1, <1>3, <1>6, <1>7, OthersKeep DEF CheckTypeOK
  <1>9. BufferInv'
    BY <1>1, KeysKept
  <1> QED BY <1>6, <1>8, <1>9

\* A leader returns with the result of its own fn.
LEMMA RemoveStepInv ==
  ASSUME CheckIInv, NEW r \in Caller, Remove(r),
         UNCHANGED <<inflight, hpc, user, handle, buf, bytes, bufPool, charged, reply>>
  PROVE  CheckTypeOK' /\ HoldsByPC' /\ ChargedByPC' /\ BufferInv'
PROOF
  <1> USE DEF CheckIInv
  <1>1. \A q \in Caller : q # r => cpc'[q] = cpc[q] /\ got'[q] = got[q]
    BY CallersApart DEF CoalescerIInv
  <1>2. cpc[r] = "remove" /\ cpc'[r] = "returned" /\ got'[r] = result[ent[r]]
    BY DEF Remove, Return, CoalescerIInv, CoalescerTypeOK
  <1>3. ent[r] \in Entry
    BY <1>2, InsideMeans DEF Leading
  <1>4. got'[r] # CtxErr
    BY <1>2, <1>3, CoalescerAssumption DEF CoalescerIInv, FreshIsMapped, CoalescerTypeOK
  <1>5. RequestOK(r)
    BY RequestsOK
  <1>6. RequestOK(r)'
    BY <1>2, <1>4, <1>5 DEF RequestOK
  <1> QED BY <1>1, <1>6, InCoalescer

\* A follower has charged nothing, however its wait ends.
LEMMA WaitStepInv ==
  ASSUME CheckIInv, NEW r \in Caller, WaitDone(r) \/ WaitCtx(r),
         UNCHANGED <<inflight, hpc, user, handle, buf, bytes, bufPool, charged, reply>>
  PROVE  CheckTypeOK' /\ HoldsByPC' /\ ChargedByPC' /\ BufferInv'
PROOF
  <1> USE DEF CheckIInv
  <1>1. \A q \in Caller : q # r => cpc'[q] = cpc[q] /\ got'[q] = got[q]
    BY CallersApart DEF CoalescerIInv
  <1>2. cpc[r] = "wait" /\ cpc'[r] = "returned"
    BY DEF WaitDone, WaitCtx, Return, CoalescerIInv, CoalescerTypeOK
  <1>3. RequestOK(r)
    BY RequestsOK
  <1>4. RequestOK(r)'
    BY <1>2, <1>3 DEF RequestOK
  <1> QED BY <1>1, <1>4, InCoalescer

\* The reply is the error only for a request whose wait was ended, and that one
\* has charged nothing.
LEMMA RespondInv ==
  ASSUME CheckIInv, NEW r \in Caller, Respond(r)
  PROVE  CheckTypeOK' /\ HoldsByPC' /\ ChargedByPC' /\ BufferInv'
PROOF
  <1> USE DEF CheckIInv
  <1> DEFINE a == IF got[r] = CtxErr THEN "LIMITER_ERROR" ELSE "decision"
  <1>1. /\ cpc[r] = "returned" /\ hpc' = [hpc EXCEPT ![r] = "unkey"]
        /\ reply' = [reply EXCEPT ![r] = a]
        /\ UNCHANGED <<inflight, user, handle, buf, bytes, bufPool, charged>>
    BY DEF Respond, Goto, Answer, Leave, keyVars
  <1>2. \A q \in Caller : q # r => cpc'[q] = cpc[q] /\ got'[q] = got[q]
    BY CallersApart DEF CoalescerIInv, Respond
  <1>3. cpc'[r] = "out"
    BY DEF Respond, Leave, CoalescerIInv, CoalescerTypeOK
  <1>4. RequestOK(r)
    BY RequestsOK
  <1>5. hpc[r] = "do"
    BY <1>1, <1>4 DEF RequestOK
  <1>6. CheckTypeOK'
    BY <1>1 DEF CheckTypeOK, RequestPCs, Replies
  <1>7. RequestOK(r)'
    BY <1>1, <1>3, <1>4, <1>5 DEF RequestOK, CheckTypeOK
  <1>8. HoldsByPC' /\ ChargedByPC'
    BY <1>1, <1>2, <1>6, <1>7, OthersKeep DEF CheckTypeOK
  <1>9. BufferInv'
    BY <1>1, KeysKept
  <1> QED BY <1>6, <1>8, <1>9

\* The steps that touch no request.
LEMMA RestInv ==
  ASSUME CheckIInv, UNCHANGED <<cpc, got, inflight, requestVars>>
  PROVE  CheckTypeOK' /\ HoldsByPC' /\ ChargedByPC' /\ BufferInv'
PROOF
  <1> USE DEF CheckIInv, requestVars, keyVars
  <1>1. CheckTypeOK' /\ BufferInv'
    BY KeysKept DEF CheckTypeOK
  <1>2. HoldsByPC' /\ ChargedByPC'
    BY DEF HoldsByPC, ChargedByPC
  <1> QED BY <1>1, <1>2

------------------------------------------------------------------------------

\* Do is called with, and Allow charges, what the request's buffer holds; while
\* a request is in Do, or has charged, its user stays.
LEMMA KeyIntactStep ==
  ASSUME CheckIInv, [Next]_vars
  PROVE  KeyIntact'
PROOF
  <1> DEFINE Own(r) == /\ ent[r] # NoEntry => ckey[r] = user[r]
                       /\ charged[r] # NoKey => charged[r] = user[r]
  <1>1. \A r \in Caller : Own(r)
    BY DEF CheckIInv, KeyIntact
  <1> USE DEF CheckIInv, CheckTypeOK, CoalescerIInv, CoalescerTypeOK
  <1> SUFFICES ASSUME NEW r \in Caller PROVE Own(r)'
    BY DEF KeyIntact
  <1>2. CASE UNCHANGED <<ckey, ent, user, charged>>
    BY <1>1, <1>2
  <1>3. ASSUME NEW q \in Caller, NEW u \in CKey, Begin(q, u) PROVE Own(r)'
    <2>1. ent[q] = NoEntry /\ charged[q] = NoKey
      BY <1>3 DEF Begin, HoldsByPC, ChargedByPC, EntryOwned, Leading
    <2>2. UNCHANGED <<ckey, ent, charged>> /\ user' = [user EXCEPT ![q] = u]
      BY <1>3 DEF Begin, coalescerVars
    <2> QED BY <1>1, <2>1, <2>2
  <1>4. ASSUME NEW q \in Caller, Do(q) PROVE Own(r)'
    <2>1. hpc[q] = "do" /\ bytes[buf[q]] = user[q]
      BY <1>4, KeyOfRequest DEF Do
    <2>2. ckey' = [ckey EXCEPT ![q] = user[q]] /\ UNCHANGED <<user, charged>>
      BY <1>4, <2>1 DEF Do, DoJoin, DoLead, Enter, requestVars
    <2>3. r # q => ent'[r] = ent[r]
      BY <1>4 DEF Do, DoJoin, DoLead, Enter
    <2>4. r = q => charged'[r] = charged[r] /\ ckey'[r] = user'[r]
      BY <2>2
    <2>5. r # q => ckey'[r] = ckey[r] /\ user'[r] = user[r] /\ charged'[r] = charged[r]
      BY <2>2
    <2> QED BY <1>1, <2>2, <2>3, <2>4, <2>5
  <1>5. ASSUME NEW q \in Caller, AllowRedis(q) \/ AllowFallback(q) PROVE Own(r)'
    <2>1. hpc[q] = "do"
      BY <1>5 DEF AllowRedis, AllowFallback, HoldsByPC
    <2>2. bytes[buf[q]] = user[q]
      BY <2>1, KeyOfRequest
    <2>3. charged' = [charged EXCEPT ![q] = user[q]] /\ UNCHANGED <<ckey, ent, user>>
      BY <1>5, <2>2 DEF AllowRedis, AllowFallback, FnReturn
    <2> QED BY <1>1, <2>3
  <1>6. ASSUME NEW q \in Caller, Remove(q) \/ WaitDone(q) \/ WaitCtx(q),
               UNCHANGED <<user, charged>>
        PROVE  Own(r)'
    <2>1. ckey' = [ckey EXCEPT ![q] = NoKey] /\ ent' = [ent EXCEPT ![q] = NoEntry]
      BY <1>6 DEF Remove, WaitDone, WaitCtx, Return
    <2> QED BY <1>1, <1>6, <2>1
  <1>7. ASSUME NEW q \in Caller, End(q) PROVE Own(r)'
    <2>1. ent[q] = NoEntry
      BY <1>7 DEF End, HoldsByPC, EntryOwned, Leading
    <2>2. /\ UNCHANGED <<ckey, ent>> /\ user' = [user EXCEPT ![q] = NoKey]
          /\ charged' = [charged EXCEPT ![q] = NoKey]
      BY <1>7 DEF End, coalescerVars
    <2> QED BY <1>1, <2>1, <2>2
  <1>8. ASSUME NEW q \in Caller,
               \/ GetRule(q) \/ AcquireLookup(q) \/ AcquireEntry(q) \/ BuildKey(q)
               \/ Respond(q) \/ ReleaseKey(q) \/ ReleaseHandle(q)
        PROVE  UNCHANGED <<ckey, ent, user, charged>>
    BY <1>8 DEF GetRule, AcquireLookup, AcquireEntry, BuildKey, Respond, Leave,
                ReleaseKey, ReleaseHandle, coalescerVars
  <1>9. CASE RuleChanges \/ DropLimiter \/ CloseInFlight \/ Tick \/ UNCHANGED vars
    <2>1. UNCHANGED <<ckey, ent, user, charged>>
      BY <1>9 DEF RuleChanges, DropLimiter, CloseInFlight, Tick, Expire, requestVars,
                  coalescerVars, vars
    <2> QED BY <1>2, <2>1
  <1>10. ASSUME NEW q \in Caller, DoStep(q) \/ WaitExpires(q) PROVE Own(r)'
    BY <1>6, <1>10 DEF DoStep, WaitExpires, requestVars
  <1> HIDE DEF Own
  <1> QED BY <1>2, <1>3, <1>4, <1>5, <1>7, <1>8, <1>9, <1>10
          DEF Next, RequestStep, handleCheck

\* No request has begun.
LEMMA CheckInitInv ==
  ASSUME Init
  PROVE  CheckIInv
PROOF
  <1> USE CoalescerAssumption, CheckPathAssumption DEF Init
  <1>1. CoalescerIInv
    BY CoalescerInitInv
  <1>2. CheckTypeOK
    BY DEF CheckTypeOK, RequestPCs, Replies
  <1>3. HoldsByPC /\ ChargedByPC /\ BufferInv /\ KeyIntact
    BY DEF HoldsByPC, ChargedByPC, BufferInv, KeyIntact, CoalescerInit
  <1> QED BY <1>1, <1>2, <1>3 DEF CheckIInv

\* Every step keeps the invariant.
LEMMA CheckNextInv ==
  ASSUME CheckIInv, [Next]_vars
  PROVE  CheckIInv'
PROOF
  <1> DEFINE Kept == CheckTypeOK' /\ HoldsByPC' /\ ChargedByPC' /\ BufferInv'
  <1>1. CoalescerIInv'
    BY StepRefinesCoalescer, CoalescerStepInv DEF CheckIInv
  <1>2. ASSUME NEW r \in Caller, handleCheck(r) PROVE Kept
    BY <1>2, BeginInv DEF handleCheck
  <1>3. ASSUME NEW r \in Caller,
               GetRule(r) \/ AcquireLookup(r) \/ AcquireEntry(r) \/ BuildKey(r)
        PROVE  Kept
    BY <1>3, GetRuleInv, AcquireEntryInv, BuildKeyInv
  <1>4. ASSUME NEW r \in Caller, Do(r) \/ AllowRedis(r) \/ AllowFallback(r) PROVE Kept
    BY <1>4, DoInv, AllowInv
  <1>5. ASSUME NEW r \in Caller, DoStep(r) PROVE Kept
    BY <1>5, RemoveStepInv, WaitStepInv DEF DoStep, requestVars, keyVars
  <1>6. ASSUME NEW r \in Caller, WaitExpires(r) PROVE Kept
    BY <1>6, WaitStepInv DEF WaitExpires, requestVars, keyVars
  <1>7. ASSUME NEW r \in Caller, Respond(r) \/ ReleaseKey(r) \/ ReleaseHandle(r) \/ End(r)
        PROVE  Kept
    BY <1>7, RespondInv, ReleaseKeyInv, ReleaseHandleInv, EndInv
  <1>8. ASSUME RuleChanges \/ DropLimiter \/ CloseInFlight PROVE Kept
    BY <1>8, RestInv DEF RuleChanges, DropLimiter, CloseInFlight, coalescerVars
  <1>9. ASSUME Tick PROVE Kept
    BY <1>9, RestInv DEF Tick, Expire
  <1>10. ASSUME UNCHANGED vars PROVE Kept
    BY <1>10, RestInv DEF vars, coalescerVars
  <1>11. Kept
    <2> HIDE DEF Kept
    <2> QED BY <1>2, <1>3, <1>4, <1>5, <1>6, <1>7, <1>8, <1>9, <1>10 DEF Next, RequestStep
  <1> QED BY <1>1, <1>11, KeyIntactStep DEF CheckIInv

\* Hence the invariant always holds.
LEMMA CheckInductive == Spec => []CheckIInv
PROOF
  BY CheckInitInv, CheckNextInv, PTL DEF Spec

\* CheckLimit and the transports use the coalescer as Do allows: what they do
\* to it is a behaviour of the coalescer alone, so everything proved of that
\* holds of the check path.
THEOREM CheckPathUsesCoalescer == Spec => CoalescerSpec
PROOF
  <1>1. Init => CoalescerInit
    BY DEF Init
  <1>2. CheckIInv /\ [Next]_vars => [CoalescerNext]_coalescerVars
    BY StepRefinesCoalescer
  <1> QED BY <1>1, <1>2, CheckInductive, PTL DEF Spec, CoalescerSpec

\* Of the check path: nobody waits for a call that nobody is making.
THEOREM CheckNoOrphanEntry == Spec => []NoOrphanEntry
PROOF
  BY CheckPathUsesCoalescer, CoalescerNoOrphanEntry, PTL

\* Of the check path: one young leader per key.
THEOREM CheckOneFreshLeader == Spec => []OneFreshLeader
PROOF
  BY CheckPathUsesCoalescer, CoalescerOneFreshLeader, PTL

\* However buffers go round through the pool, Do coalesces and Allow charges
\* under the key of the request's own user: what the pool hands out is in
\* nobody's use, and a buffer stays its request's until after the reply.
THEOREM CheckKeyIntact == Spec => []KeyIntact
PROOF
  <1>1. CheckIInv => KeyIntact
    BY DEF CheckIInv
  <1> QED BY <1>1, CheckInductive, PTL

\* A request outside the in-flight tracker holds no handle, no key buffer and no
\* coalescer entry, whichever return of CheckLimit it took.
THEOREM CheckInFlightCoversResources == Spec => []InFlightCoversResources
PROOF
  <1>1. CheckIInv => InFlightCoversResources
    <2> SUFFICES ASSUME CheckIInv, NEW r \in Caller \ inflight
                 PROVE  ~handle[r] /\ buf[r] = NoBuffer /\ ent[r] = NoEntry /\ hpc[r] = "idle"
      BY DEF InFlightCoversResources
    <2>1. hpc[r] = "idle" /\ ~handle[r] /\ buf[r] = NoBuffer /\ cpc[r] = "out"
      BY DEF CheckIInv, HoldsByPC
    <2>2. ent[r] = NoEntry
      BY <2>1 DEF CheckIInv, CoalescerIInv, EntryOwned, Leading
    <2> QED BY <2>1, <2>2
  <1> QED BY <1>1, CheckInductive, PTL

\* Whoever charged a store is answered with the decision; an error code only
\* reaches requests that charged nothing.
THEOREM CheckPaidIsAnswered == Spec => []PaidIsAnswered
PROOF
  <1>1. CheckIInv => PaidIsAnswered
    BY DEF CheckIInv, ChargedByPC, PaidIsAnswered
  <1> QED BY <1>1, CheckInductive, PTL

==============================================================================
