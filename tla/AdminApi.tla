------------------------------- MODULE AdminApi --------------------------------
(***************************************************************************)
(* The admin calls from the wire to the reply: the HTTP handlers and the   *)
(* gRPC admin server with their authentication and error mapping,          *)
(* AdminHandler (core/admin_handler.go), and the rule database, which is   *)
(* module RuleDB.                                                          *)
(*                                                                         *)
(* A change commits in the database first and is announced in the outbox   *)
(* afterwards; in between other calls run, and the outbox may refuse.  The *)
(* instance's own rule cache, also written in between, is in module        *)
(* RulePropagation.                                                        *)
(***************************************************************************)
EXTENDS RuleDB

CONSTANTS
    NoIdem,       \* the empty idempotency key
    NoAlgorithm   \* a body whose algorithm is empty

ASSUME AdminApiAssumption == NoIdem \notin IdemKey

VARIABLES
    call,         \* each client's call, once its change has committed
    reply,        \* how its last call was answered
    committed,    \* history: its last call changed the database
    last          \* of each rule key: the last change, and whether its row is
                  \* in the outbox, or else its caller got a server error

adminVars == <<call, reply, committed, last>>
allVars == <<vars, adminVars>>

NoCall == [wire |-> "none"]
Row(rule, act) == [key |-> rule.key, gen |-> rule.gen, ver |-> rule.ver, act |-> act]
NoRow == [act |-> "none"]

AdminInit ==
    /\ Init
    /\ call = [c \in Client |-> NoCall]
    /\ reply = [c \in Client |-> "none"]
    /\ committed = [c \in Client |-> FALSE]
    /\ last = [k \in Key |-> [row |-> NoRow, told |-> "nobody"]]

------------------------------------------------------------------------------
(* Error codes on the wire *)

\* Mutant: what is not one of the known codes is the client's fault.
statusForCode_BadRequest(code) ==
    CASE code = "CONFLICT"     -> "409"
      [] code = "NOT_FOUND"    -> "404"
      [] code = "UNAUTHORIZED" -> "401"
      [] OTHER                 -> "400"

\* core.CodeOf gives "" for an error without a code.
statusForCode(code) ==
    CASE code = "INVALID_INPUT" -> "400"
      [] code = "CONFLICT"      -> "409"
      [] code = "NOT_FOUND"     -> "404"
      [] code = "UNAUTHORIZED"  -> "401"
      [] OTHER                  -> "500"

grpcError(code) ==
    CASE code = "INVALID_INPUT" -> "InvalidArgument"
      [] code = "CONFLICT"      -> "FailedPrecondition"
      [] code = "NOT_FOUND"     -> "NotFound"
      [] code = "UNAUTHORIZED"  -> "Unauthenticated"
      [] OTHER                  -> "Internal"

\* What a status says: that the call was at fault, or that the server was.
Status(wire, code) ==
    LET status == IF wire = "http" THEN statusForCode(code) ELSE grpcError(code)
    IN IF status \in {"500", "Internal"} THEN "server error" ELSE "client error"

------------------------------------------------------------------------------
(* Calls *)

\* The call is answered without a change.
Refuse(c, wire, code) ==
    /\ reply' = [reply EXCEPT ![c] = Status(wire, code)]
    /\ committed' = [committed EXCEPT ![c] = FALSE]
    /\ UNCHANGED <<vars, call, last>>

\* The change is in the database: what remains is to announce the row.
Announce(c, wire, row, change) ==
    /\ call' = [call EXCEPT ![c] = [wire |-> wire, row |-> row, before |-> held[c]]]
    /\ committed' = [committed EXCEPT ![c] = change]
    /\ reply' = [reply EXCEPT ![c] = "none"]
    /\ last' = IF change THEN [last EXCEPT ![row.key] = [row |-> row, told |-> "nobody"]]
                         ELSE last

\* Turned away by the authentication, the decoder or the field checks of the
\* transport or the database.
Reject(c, wire) ==
    /\ call[c] = NoCall
    /\ Refuse(c, wire, "UNAUTHORIZED") \/ Refuse(c, wire, "INVALID_INPUT")

CreateConflicts(k, body, ik) ==
    IF ik # NoIdem /\ idempotency[ik] # NoRecord
    THEN idempotency[ik] # [key |-> k, body |-> body] \/ rules[k] = NoRule
    ELSE rules[k] # NoRule

CreateRule(c, wire, k, body, ik) ==
    /\ call[c] = NoCall
    /\ \/ /\ IF ik = NoIdem THEN Create(c, k, body) ELSE CreateOnce(c, k, body, ik)
          /\ Announce(c, wire, Row(rules'[k], "upsert"), TRUE)
       \/ /\ ik # NoIdem /\ CreateAgain(c, k, body, ik)
          /\ Announce(c, wire, Row(rules[k], "upsert"), FALSE)
       \/ /\ CreateConflicts(k, body, ik)
          /\ Refuse(c, wire, "CONFLICT")

\* The version the client sends is that of the rule it holds.
VersionError(c, k) ==
    IF rules[k] = NoRule THEN "NOT_FOUND"
    ELSE IF rules[k].ver # held[c].ver THEN "CONFLICT" ELSE ""

Knows(c, k) == held[c] # NoRule /\ held[c].key = k

UpdateRule(c, wire, k, body) ==
    /\ call[c] = NoCall /\ Knows(c, k)
    /\ \/ /\ Update(c, k, body)
          /\ Announce(c, wire, Row(rules'[k], "upsert"), TRUE)
       \/ /\ VersionError(c, k) # ""
          /\ Refuse(c, wire, VersionError(c, k))

DeleteRule(c, wire, k) ==
    /\ call[c] = NoCall /\ Knows(c, k)
    /\ \/ /\ Delete(c, k)
          /\ Announce(c, wire, Row(rules[k], "delete"), TRUE)
       \/ /\ VersionError(c, k) # ""
          /\ Refuse(c, wire, VersionError(c, k))

\* GetRule, and ListRules for the rule the client then works on.
GetRule(c, wire, k) ==
    /\ call[c] = NoCall
    /\ \/ /\ Get(c, k)
          /\ reply' = [reply EXCEPT ![c] = "success"]
          /\ committed' = [committed EXCEPT ![c] = FALSE]
          /\ UNCHANGED <<call, last>>
       \/ rules[k] = NoRule /\ Refuse(c, wire, "NOT_FOUND")

\* Somebody hears of a row: it counts if it is of the last change.
Tell(row, whom) ==
    last' = IF last[row.key].row = row /\ last[row.key].told # "outbox"
            THEN [last EXCEPT ![row.key].told = whom] ELSE last

\* emitInvalidation inserts the row, and the client gets the rule.
Emit(c) ==
    /\ call[c] # NoCall
    /\ Tell(call[c].row, "outbox")
    /\ reply' = [reply EXCEPT ![c] = "success"]
    /\ call' = [call EXCEPT ![c] = NoCall]
    /\ UNCHANGED <<vars, committed>>

\* Mutant: the error of the outbox is dropped.
EmitFails_Ignored(c) ==
    /\ call[c] # NoCall
    /\ reply' = [reply EXCEPT ![c] = "success"]
    /\ call' = [call EXCEPT ![c] = NoCall]
    /\ UNCHANGED <<vars, committed, last>>

\* The outbox fails: an error without a code, although the change is there.
\* The client gets no rule and knows what it knew before.
EmitFails(c) ==
    /\ call[c] # NoCall
    /\ Tell(call[c].row, "caller")
    /\ reply' = [reply EXCEPT ![c] = Status(call[c].wire, "")]
    /\ held' = [held EXCEPT ![c] = call[c].before]
    /\ call' = [call EXCEPT ![c] = NoCall]
    /\ UNCHANGED <<rules, idempotency, gen, origin, committed>>

------------------------------------------------------------------------------

\* The calls a transport passes on; it fills the body from what was sent.
Calls(c, wire, bodies) ==
    \/ Reject(c, wire)
    \/ \E k \in Key :
         \/ GetRule(c, wire, k) \/ DeleteRule(c, wire, k)
         \/ \E body \in bodies :
              \/ UpdateRule(c, wire, k, body)
              \/ \E ik \in IdemKey \cup {NoIdem} : CreateRule(c, wire, k, body, ik)

\* HTTP asks for an algorithm, gRPC does not.
handleRules(c) == Calls(c, "http", Body \ {NoAlgorithm})
grpcAdminServer(c) == Calls(c, "grpc", Body)

AdminNext ==
    \E c \in Client : Emit(c) \/ EmitFails(c) \/ handleRules(c) \/ grpcAdminServer(c)

AdminSpec == AdminInit /\ [][AdminNext]_allVars

------------------------------------------------------------------------------
(* Properties *)

\* A caller that is told the call was its own mistake may rely on it: only a
\* server error can hide a change that was made, on either wire.
RefusalChangesNothing ==
    \A c \in Client : call[c] = NoCall /\ committed[c] => reply[c] # "client error"

\* The last change of a rule is announced, or its announcement is on the way,
\* or the caller that made it was told of a server error: nobody who got an
\* answer believes a change to be out that no instance will hear of.
AnnouncedOrReported ==
    \A k \in Key : last[k].row # NoRow /\ last[k].told = "nobody" =>
        \E c \in Client : call[c] # NoCall /\ call[c].row = last[k].row

\* No lost update: a call that replaces or removes a rule finds it exactly as
\* its client last saw it, contents included, unless the rule was created again
\* in between.  The code compares versions only.
NoLostUpdate ==
    [][\A c \in Client, k \in Key :
         /\ call'[c] # call[c] /\ rules'[k] # rules[k]
         /\ rules[k] # NoRule /\ held[c].gen = rules[k].gen
         => held[c] = rules[k]]_allVars

------------------------------------------------------------------------------
(* The inductive invariant of the proofs. *)

RuleOrNone == Rule \cup {NoRule}
RowType == [key : Key, gen : 1..MaxGen, ver : 1..MaxVer, act : {"upsert", "delete"}]

AdminTypeOK ==
    /\ rules \in [Key -> RuleOrNone]
    /\ idempotency \in [IdemKey -> Record \cup {NoRecord}]
    /\ gen \in 0..MaxGen
    /\ held \in [Client -> RuleOrNone]
    /\ origin \in [IdemKey -> SUBSET Nat]
    /\ call \in [Client -> {NoCall} \cup
                   [wire : {"http", "grpc"}, row : RowType, before : RuleOrNone]]
    /\ reply \in [Client -> {"none", "success", "client error", "server error"}]
    /\ committed \in [Client -> BOOLEAN]
    /\ last \in [Key -> [row : RowType \cup {NoRow}, told : {"nobody", "outbox", "caller"}]]

\* A rule is stored under its key, in a lifetime of its own.
LifetimesDistinct ==
    /\ \A k \in Key : rules[k] # NoRule => rules[k].key = k /\ rules[k].gen <= gen
    /\ \A k, l \in Key : rules[k] # NoRule /\ rules[k].gen = rules[l].gen => k = l

\* A rule that was returned once is the stored one or an older version of it,
\* as long as its lifetime lasts.
CopyOK(x) ==
    x # NoRule =>
        /\ x.gen <= gen
        /\ \A k \in Key : rules[k].gen = x.gen =>
             x.ver <= rules[k].ver /\ (x.ver = rules[k].ver => x = rules[k])

\* That holds of what clients hold, and of what a client falls back to when
\* its call ends in an error.
CopiesOK ==
    \A c \in Client : CopyOK(held[c]) /\ (call[c] # NoCall => CopyOK(call[c].before))

\* A key without a record has created nothing.
OriginRecorded ==
    \A ik \in IdemKey : idempotency[ik] = NoRecord => origin[ik] = {}

\* The last change of a rule is noted under its key.
LastUnderKey == \A k \in Key : last[k].row # NoRow => last[k].row.key = k

AdminIInv ==
    /\ AdminTypeOK /\ LifetimesDistinct /\ CopiesOK
    /\ OriginRecorded /\ OneCreationPerKey
    /\ LastUnderKey /\ RefusalChangesNothing /\ AnnouncedOrReported

==============================================================================
