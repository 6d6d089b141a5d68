-------------------------------- MODULE RuleDB --------------------------------
(***************************************************************************)
(* The rule database (store/inmemory/db_inmemory.go) and the admin clients *)
(* that read a rule and then update or delete it at the version they read. *)
(*                                                                         *)
(* Each call holds db.mu from its first look at the maps to its return, so *)
(* it is one step; what interleaves is the calls of different clients.  A  *)
(* call that returns an error changes nothing and is not a step.           *)
(***************************************************************************)
EXTENDS Integers

CONSTANTS
    Key,          \* tenant and resource (ruleKey)
    Body,         \* algorithm, limit, window and burst of a request
    IdemKey,      \* non-empty idempotency keys
    Client,
    MaxGen,       \* bound: creations
    MaxVer        \* bound: versions of one lifetime

ASSUME RuleDBAssumption == MaxGen \in Nat /\ MaxVer \in Nat \ {0}

VARIABLES
    rules,        \* db.rules
    idempotency,  \* db.idempotency
    gen,          \* history: number of creations
    held,         \* the rule that each client's last call returned
    origin        \* history: which creations each idempotency key caused

vars == <<rules, idempotency, gen, held, origin>>

\* gen is history: it tells apart the lifetimes of a rule that is deleted and
\* created again.  The code has key, body and ver.
Rule == [key : Key, gen : 1..MaxGen, ver : 1..MaxVer, body : Body]
NoRule == [gen |-> 0, ver |-> 0]

\* ruleKey and payloadHash; the hash covers the key and the body.
Record == [key : Key, body : Body]
NoRecord == [key |-> "none"]

Init ==
    /\ rules = [k \in Key |-> NoRule]
    /\ idempotency = [ik \in IdemKey |-> NoRecord]
    /\ gen = 0
    /\ held = [c \in Client |-> NoRule]
    /\ origin = [ik \in IdemKey |-> {}]

Returns(c, rule) == held' = [held EXCEPT ![c] = rule]

------------------------------------------------------------------------------

\* Get
Get(c, k) ==
    /\ rules[k] # NoRule
    /\ Returns(c, rules[k])
    /\ UNCHANGED <<rules, idempotency, gen, origin>>

\* The part of Create that inserts.
Insert(c, k, body) ==
    /\ rules[k] = NoRule
    /\ gen < MaxGen
    /\ gen' = gen + 1
    /\ rules' = [rules EXCEPT ![k] =
                   [key |-> k, gen |-> gen', ver |-> 1, body |-> body]]
    /\ Returns(c, rules'[k])

\* Create without an idempotency key.
Create(c, k, body) ==
    /\ Insert(c, k, body)
    /\ UNCHANGED <<idempotency, origin>>

\* Mutant: the key is looked up but never recorded.
CreateOnce_NotRecorded(c, k, body, ik) ==
    /\ idempotency[ik] = NoRecord
    /\ Insert(c, k, body)
    /\ origin' = [origin EXCEPT ![ik] = @ \cup {gen'}]
    /\ UNCHANGED idempotency

\* Create with an idempotency key that is new.
CreateOnce(c, k, body, ik) ==
    /\ idempotency[ik] = NoRecord
    /\ Insert(c, k, body)
    /\ idempotency' = [idempotency EXCEPT ![ik] = [key |-> k, body |-> body]]
    /\ origin' = [origin EXCEPT ![ik] = @ \cup {gen'}]

\* Create with a key seen before and the same payload: whatever rule now has
\* the recorded rule key, if there is one.
CreateAgain(c, k, body, ik) ==
    /\ idempotency[ik] = [key |-> k, body |-> body]
    /\ rules[k] # NoRule
    /\ Returns(c, rules[k])
    /\ UNCHANGED <<rules, idempotency, gen, origin>>

\* Mutant: the new rule keeps the version of the one it replaces.
Update_SameVersion(c, k, body) ==
    /\ held[c] # NoRule /\ held[c].key = k
    /\ rules[k] # NoRule /\ rules[k].ver = held[c].ver
    /\ rules' = [rules EXCEPT ![k].body = body]
    /\ Returns(c, rules'[k])
    /\ UNCHANGED <<idempotency, gen, origin>>

\* Update, at the version that the client holds.
Update(c, k, body) ==
    /\ held[c] # NoRule /\ held[c].key = k
    /\ rules[k] # NoRule /\ rules[k].ver = held[c].ver
    /\ rules[k].ver < MaxVer
    /\ rules' = [rules EXCEPT ![k].ver = @ + 1, ![k].body = body]
    /\ Returns(c, rules'[k])
    /\ UNCHANGED <<idempotency, gen, origin>>

\* Mutant: the version that the client sends is not compared.
Delete_Unchecked(c, k) ==
    /\ held[c] # NoRule /\ held[c].key = k
    /\ rules[k] # NoRule
    /\ rules' = [rules EXCEPT ![k] = NoRule]
    /\ UNCHANGED <<idempotency, gen, held, origin>>

\* Delete, at the version that the client holds.
Delete(c, k) ==
    /\ held[c] # NoRule /\ held[c].key = k
    /\ rules[k] # NoRule /\ rules[k].ver = held[c].ver
    /\ rules' = [rules EXCEPT ![k] = NoRule]
    /\ UNCHANGED <<idempotency, gen, held, origin>>

------------------------------------------------------------------------------

Next ==
    \E c \in Client, k \in Key :
        \/ Get(c, k)
        \/ Delete(c, k)
        \/ \E body \in Body :
             \/ Create(c, k, body)
             \/ Update(c, k, body)
             \/ \E ik \in IdemKey :
                  CreateOnce(c, k, body, ik) \/ CreateAgain(c, k, body, ik)

Spec == Init /\ [][Next]_vars

------------------------------------------------------------------------------
(* Properties *)

\* An idempotency key creates at most one rule, ever: retries by any client,
\* also after the rule was updated or deleted, create nothing.
OneCreationPerKey ==
    \A ik \in IdemKey : \A g, h \in origin[ik] : g = h

\* Within one lifetime of a rule the version identifies its contents, and what
\* any client holds is never ahead of the database.  This is what makes the
\* version check of Update and Delete an optimistic lock.
VersionIdentifiesRule ==
    \A c \in Client, k \in Key :
        (held[c] # NoRule /\ rules[k] # NoRule /\ held[c].gen = rules[k].gen) =>
            /\ held[c].ver <= rules[k].ver
            /\ held[c].ver = rules[k].ver => held[c] = rules[k]

==============================================================================
