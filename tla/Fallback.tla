------------------------------- MODULE Fallback -------------------------------
(***************************************************************************)
(* What the instances of the service do while Redis does not answer: the   *)
(* degrade controller and its health loop (core/mode.go, health_loop.go),  *)
(* static membership (membership_static.go), rendezvous ownership          *)
(* (ownership.go) and the fallback limiter with its local fixed-window     *)
(* counters (fallback.go).                                                 *)
(*                                                                         *)
(* Time advances in ticks.  Only ages up to the thresholds and the place   *)
(* in the current window matter, so no clock is kept: instances read the   *)
(* same time and windows of all of them begin together.                    *)
(***************************************************************************)
EXTENDS MachineInt, Sequences, FiniteSetsExt, SequencesExt

CONSTANTS
    Listed,          \* configured members: a sequence of id, region, weight
    Instance,        \* ids of the instances that run
    Key,
    Score,           \* Score[id, key]: the 64-bit hash of both
    HashBits,        \* 64
    EnableGlobal,    \* ownership over all regions
    Weights,         \* values of RegionInstanceWeight
    RedisUnhealthyFor, MembershipUnhealthy,   \* thresholds, in ticks
    Interval,        \* the health loop runs at least once in so many ticks
    RequireQuorum, QuorumNum, QuorumDen,      \* quorumFraction
    LocalCap, EmergencyCap,                   \* normalized policy
    WindowTicks,     \* window of the rule
    Cost

Ids == {Listed[n].id : n \in DOMAIN Listed}
RegionOf(i) == (CHOOSE m \in {Listed[n] : n \in DOMAIN Listed} : m.id = i).region

ASSUME FallbackAssumption ==
    /\ Instance \subseteq Ids
    /\ Score \in [Ids \X Key -> 0..(2^HashBits - 1)]
    /\ \A m, n \in DOMAIN Listed : Listed[m].id = Listed[n].id => m = n
    /\ {RedisUnhealthyFor, MembershipUnhealthy, Interval, WindowTicks,
        QuorumDen, MaxInt} \subseteq Nat \ {0}
    /\ {LocalCap, EmergencyCap} \subseteq 1..MaxInt
    /\ Cost \subseteq 1..MaxInt

VARIABLES
    weight,      \* each instance's own RegionInstanceWeight
    redisUp,     \* Redis answers health checks
    mshipUp,     \* membership.healthy of each instance
    redisAge,    \* ticks since lastRedisHealthy, up to the threshold
    mshipAge,    \* ticks since lastMshipHealthy, up to the threshold
    mode,        \* dc.mode
    late,        \* ticks since the last Update
    phase,       \* ticks since the current window began
    used,        \* counter.used of each instance and key, for this window
    down, up,    \* history: ticks that Redis has been down or up without a break
    admitted,    \* history: cost each instance's fallback let in this window,
                 \* counted as far as MaxInt
    wrapped      \* history: used has left the int64 range in this window

health == <<redisUp, mshipUp, redisAge, mshipAge, mode, late, down, up>>
counters == <<used, admitted, wrapped>>
vars == <<weight, health, phase, counters>>

Capped(x, max) == IF x < max THEN x + 1 ELSE max
Patience == RedisUnhealthyFor + Interval     \* as far as down and up count

------------------------------------------------------------------------------
(* Membership and ownership *)

\* The list as instance i sees it: NewStaticMembership makes weights positive,
\* SetSelfWeight then puts its own setting into its own entry.
View(i) ==
    [n \in DOMAIN Listed |->
        [Listed[n] EXCEPT !.weight = IF Listed[n].id = i THEN weight[i]
                                     ELSE IF @ <= 0 THEN 1 ELSE @]]

InRegion(view, region) == SelectSeq(view, LAMBDA m : m.region = region)

\* Whom i considers for ownership; GlobalOwnershipFallback is always on.
Candidates(i) ==
    LET own == InRegion(View(i), RegionOf(i)) IN
    IF EnableGlobal \/ own = << >> THEN View(i) ELSE own

Points(m, key) == (Score[m.id, key] * m.weight) % 2^HashBits

\* The first of the candidates with the highest score.
Owner(i, key) ==
    LET c == Candidates(i) IN
    c[Min({n \in DOMAIN c :
             \A o \in DOMAIN c : Points(c[n], key) >= Points(c[o], key)})].id

\* Mutant: every instance takes itself for the owner.
IsOwner_Always(i, key) == TRUE

IsOwner(i, key) == Owner(i, key) = i

\* RegionStatus: Ceil(total * quorumFraction), at least 1, of the list.
HasQuorum(i) ==
    Len(InRegion(View(i), RegionOf(i))) >=
        Max({1, (Len(Listed) * QuorumNum + QuorumDen - 1) \div QuorumDen})

\* effectiveShardFactor; no region group is set.  An instance always finds
\* itself in its list, since SetSelfWeight would have added it.
ShardFactor(i) == Max({1, Len(InRegion(View(i), RegionOf(i)))})

------------------------------------------------------------------------------

Init ==
    /\ weight \in [Instance -> Weights]
    /\ redisUp = TRUE /\ mshipUp = [i \in Instance |-> TRUE]
    /\ redisAge = [i \in Instance |-> 0]
    /\ mshipAge = [i \in Instance |-> 0]
    /\ mode = [i \in Instance |-> "normal"]
    /\ late = [i \in Instance |-> 0]
    /\ phase = 0
    /\ used = [i \in Instance |-> [k \in Key |-> 0]]
    /\ admitted = used
    /\ wrapped = [i \in Instance |-> [k \in Key |-> FALSE]]
    /\ down = 0 /\ up = Patience

(* The degrade controller *)

ModeOf(r, m) ==
    IF r < RedisUnhealthyFor THEN "normal"
    ELSE IF m < MembershipUnhealthy THEN "degraded" ELSE "emergency"

\* Mutant: a healthy answer does not move lastRedisHealthy.
Update_NoReset(i) ==
    /\ LET m == mshipUp[i] /\ (RequireQuorum => HasQuorum(i)) IN
         mshipAge' = [mshipAge EXCEPT ![i] = IF m THEN 0 ELSE @]
    /\ mode' = [mode EXCEPT ![i] = ModeOf(redisAge[i], mshipAge'[i])]
    /\ late' = [late EXCEPT ![i] = 0]
    /\ UNCHANGED <<weight, redisUp, mshipUp, redisAge, phase, counters, down, up>>

\* Update, called by the health loop.
Update(i) ==
    /\ redisAge' = [redisAge EXCEPT ![i] = IF redisUp THEN 0 ELSE @]
    /\ LET m == mshipUp[i] /\ (RequireQuorum => HasQuorum(i)) IN
         mshipAge' = [mshipAge EXCEPT ![i] = IF m THEN 0 ELSE @]
    /\ mode' = [mode EXCEPT ![i] = ModeOf(redisAge'[i], mshipAge'[i])]
    /\ late' = [late EXCEPT ![i] = 0]
    /\ UNCHANGED <<weight, redisUp, mshipUp, phase, counters, down, up>>

------------------------------------------------------------------------------
(* The fallback limiter *)

\* The cap of instance i in mode m.
CapOf(i, m) ==
    LET whole == IF m = "emergency" THEN EmergencyCap ELSE LocalCap IN
    Max({1, whole \div ShardFactor(i)})

Saturated(x) == IF x <= MaxInt THEN x ELSE MaxInt

\* Allow and AllowFixedWindow: the owner counts against its cap.  Calls of a
\* non-owner, and calls that exceed the cap, are denied and change nothing.
\* Any mode may fall back: the breaker refuses or Redis fails in normal mode.
\* A cost is only known to be positive, so the sum may wrap below the cap.
FallbackAllow(i, key, cost) ==
    /\ IsOwner(i, key)
    /\ LET sum == used[i][key] + cost IN
         /\ Int64(sum) <= CapOf(i, mode[i])
         /\ used' = [used EXCEPT ![i][key] = Int64(sum)]
         /\ wrapped' = [wrapped EXCEPT ![i][key] = @ \/ ~Fits(sum)]
    /\ admitted' = [admitted EXCEPT ![i][key] = Saturated(@ + cost)]
    /\ UNCHANGED <<weight, health, phase>>

------------------------------------------------------------------------------
(* The environment *)

\* A tick.  The health loop of every instance keeps its interval.  When a
\* window ends, the next use of a counter finds another windowStart and resets.
Tick ==
    /\ \A i \in Instance : late[i] < Interval
    /\ late' = [i \in Instance |-> late[i] + 1]
    /\ redisAge' = [i \in Instance |-> Capped(redisAge[i], RedisUnhealthyFor)]
    /\ mshipAge' = [i \in Instance |-> Capped(mshipAge[i], MembershipUnhealthy)]
    /\ down' = IF redisUp THEN 0 ELSE Capped(down, Patience)
    /\ up' = IF redisUp THEN Capped(up, Patience) ELSE 0
    /\ phase' = (phase + 1) % WindowTicks
    /\ IF phase' = 0
         THEN /\ used' = [i \in Instance |-> [k \in Key |-> 0]]
              /\ admitted' = used'
              /\ wrapped' = [i \in Instance |-> [k \in Key |-> FALSE]]
         ELSE UNCHANGED counters
    /\ UNCHANGED <<weight, redisUp, mshipUp, mode>>

RedisFlips ==
    /\ redisUp' = ~redisUp
    /\ down' = 0 /\ up' = 0
    /\ UNCHANGED <<weight, mshipUp, redisAge, mshipAge, mode, late, phase, counters>>

MembershipFlips(i) ==
    /\ mshipUp' = [mshipUp EXCEPT ![i] = ~@]
    /\ UNCHANGED <<weight, redisUp, redisAge, mshipAge, mode, late, down, up,
                   phase, counters>>

Next ==
    \/ Tick \/ RedisFlips
    \/ \E i \in Instance :
         \/ Update(i) \/ MembershipFlips(i)
         \/ \E k \in Key, c \in Cost : FallbackAllow(i, k, c)

Spec == Init /\ [][Next]_vars

------------------------------------------------------------------------------
(* Properties *)

\* Every instance reads the same list: its own setting is the listed weight.
ViewsAgree == \A i, j \in Instance : View(i) = View(j)

Scope(i) == {j \in Instance : EnableGlobal \/ RegionOf(j) = RegionOf(i)}

\* Of the instances that share ownership at most one lets in anything of a key
\* in one window if their views agree, whatever the modes of the others are; and
\* unless the counter wraps it lets in no more than one of the modes allows it: a
\* mode change within the window does not open a second allowance.  So together
\* they admit at most the larger cap of one of them.  A counter that has wrapped
\* counts right again in the next window.
SharedCap ==
    \A i \in Instance, k \in Key : admitted[i][k] > 0 =>
        /\ wrapped[i][k] \/
             \E m \in {"normal", "degraded", "emergency"} : admitted[i][k] <= CapOf(i, m)
        /\ ViewsAgree => \A j \in Scope(i) \ {i} : admitted[j][k] = 0

\* The mode tracks Redis within one health interval, however the loop's samples
\* fall: an outage that outlasts the threshold by an interval takes every
\* instance out of normal mode, and an interval after Redis is back for good
\* every instance is in normal mode again.
ModeTracksRedis ==
    \A i \in Instance :
        /\ down >= Patience => mode[i] # "normal"
        /\ up > Interval => mode[i] = "normal"

------------------------------------------------------------------------------
(* The inductive invariant of the proofs. *)

FallbackTypeOK ==
    /\ redisUp \in BOOLEAN
    /\ redisAge \in [Instance -> 0..RedisUnhealthyFor]
    /\ mshipAge \in [Instance -> 0..MembershipUnhealthy]
    /\ mode \in [Instance -> {"normal", "degraded", "emergency"}]
    /\ late \in [Instance -> 0..Interval]
    /\ down \in 0..Patience /\ up \in 0..Patience
    /\ used \in [Instance -> [Key -> Int]]
    /\ admitted \in [Instance -> [Key -> Nat]]
    /\ wrapped \in [Instance -> [Key -> BOOLEAN]]

\* What an instance knows of Redis lags by the ticks since its last Update.
ModeLags ==
    /\ down > 0 => ~redisUp
    /\ up > 0 => redisUp
    /\ \A i \in Instance :
         /\ redisAge[i] >= down \/ redisAge[i] = RedisUnhealthyFor
         /\ mode[i] = "normal" => down < RedisUnhealthyFor + late[i]
         /\ mode[i] # "normal" => up <= late[i]

\* Only the owner of a key counts; until it wraps the counter is exact, and
\* at most one of the caps.
OwnerCounts ==
    \A i \in Instance, k \in Key :
        /\ admitted[i][k] > 0 => IsOwner(i, k)
        /\ ~wrapped[i][k] => used[i][k] = admitted[i][k]
        /\ ~wrapped[i][k] /\ admitted[i][k] > 0 =>
             \E m \in {"normal", "degraded", "emergency"} : admitted[i][k] <= CapOf(i, m)

FallbackIInv == FallbackTypeOK /\ ModeLags /\ OwnerCounts

==============================================================================
