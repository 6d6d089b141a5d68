---------------------------- MODULE Fallback_proofs ----------------------------
(***************************************************************************)
(* Safety of the fallback for any membership list, hashes, weights, caps,  *)
(* thresholds and number of instances.  ModeLags bounds what an instance   *)
(* has missed by the ticks since its last Update; OwnerCounts says that    *)
(* only the owner of a key counts.                                         *)
(***************************************************************************)
EXTENDS Fallback, TLAPS

Modes == {"normal", "degraded", "emergency"}

\* The thresholds are positive.
LEMMA Thresholds ==
  /\ RedisUnhealthyFor \in Nat /\ RedisUnhealthyFor > 0
  /\ MembershipUnhealthy \in Nat /\ MembershipUnhealthy > 0
  /\ Interval \in Nat /\ Interval > 0
  /\ Patience \in Nat /\ Patience = RedisUnhealthyFor + Interval
PROOF
  BY FallbackAssumption DEF Patience

\* A capped age grows by one or has reached its cap.
LEMMA CappedStep ==
  ASSUME NEW max \in Nat, NEW x \in 0..max
  PROVE  /\ Capped(x, max) \in 0..max
         /\ Capped(x, max) = x + 1 \/ (x = max /\ Capped(x, max) = max)
PROOF
  BY DEF Capped

\* Weights are read once, so views, owners and caps never change.
LEMMA SameViews ==
  ASSUME UNCHANGED weight, NEW i \in Instance, NEW k \in Key, NEW m
  PROVE  /\ View(i)' = View(i)
         /\ IsOwner(i, k)' <=> IsOwner(i, k)
         /\ CapOf(i, m)' = CapOf(i, m)
PROOF
  <1>1. View(i)' = View(i)
    BY DEF View
  <1>2. Candidates(i)' = Candidates(i)
    BY <1>1 DEF Candidates
  <1>3. Owner(i, k)' = Owner(i, k)
    BY <1>2 DEF Owner
  <1>4. ShardFactor(i)' = ShardFactor(i)
    BY <1>1 DEF ShardFactor
  <1> QED BY <1>1, <1>3, <1>4 DEF IsOwner, CapOf

\* Instances that see the same list and share ownership agree on the owner.
LEMMA SameOwner ==
  ASSUME ViewsAgree, NEW i \in Instance, NEW j \in Scope(i), NEW k \in Key
  PROVE  Owner(i, k) = Owner(j, k)
PROOF
  <1>1. View(i) = View(j) /\ (EnableGlobal \/ RegionOf(i) = RegionOf(j))
    BY DEF ViewsAgree, Scope
  <1>2. Candidates(i) = Candidates(j)
    BY <1>1 DEF Candidates
  <1> QED BY <1>2 DEF Owner

\* A number that fits is not above the largest one.
LEMMA FitsBelowMax ==
  ASSUME NEW x \in Int
  PROVE  Int64(x) \in Int /\ (Fits(x) => x <= MaxInt)
PROOF
  <1> DEFINE m == 2 * (MaxInt + 1)
             y == x + MaxInt + 1
  <1>1. MaxInt \in Nat /\ y \in Int /\ m \in Nat \ {0}
    BY FallbackAssumption
  <1>2. \A a \in Int, b \in Nat \ {0} : a % b \in 0..(b - 1)
    OBVIOUS
  <1>3. y % m \in 0..(m - 1)
    BY <1>1, <1>2
  <1>4. Int64(x) = (y % m) - (MaxInt + 1)
    BY DEF Int64
  <1>5. Int64(x) \in Int /\ Int64(x) <= MaxInt
    BY <1>1, <1>3, <1>4
  <1> QED BY <1>5 DEF Fits

\* What OwnerCounts says of one instance and key.
CountOK(i, k) ==
    /\ admitted[i][k] > 0 => IsOwner(i, k)
    /\ ~wrapped[i][k] => used[i][k] = admitted[i][k]
    /\ ~wrapped[i][k] /\ admitted[i][k] > 0 => \E m \in Modes : admitted[i][k] <= CapOf(i, m)

CounterTypes ==
    /\ used \in [Instance -> [Key -> Int]]
    /\ admitted \in [Instance -> [Key -> Nat]]
    /\ wrapped \in [Instance -> [Key -> BOOLEAN]]

------------------------------------------------------------------------------
(* Steps *)

\* A step that leaves the counters alone.
LEMMA CountersKept ==
  ASSUME FallbackIInv, UNCHANGED <<weight, used, admitted, wrapped>>
  PROVE  CounterTypes' /\ OwnerCounts'
PROOF
  <1>1. CounterTypes'
    BY DEF FallbackIInv, FallbackTypeOK, CounterTypes
  <1>2. ASSUME NEW i \in Instance, NEW k \in Key PROVE CountOK(i, k)'
    <2>1. CountOK(i, k)
      BY DEF FallbackIInv, OwnerCounts, CountOK, Modes
    <2> QED BY <2>1, SameViews DEF CountOK
  <1>3. OwnerCounts'
    BY <1>2 DEF OwnerCounts, CountOK, Modes
  <1> QED BY <1>1, <1>3

\* A step that leaves the health alone.
LEMMA HealthKept ==
  ASSUME FallbackIInv, UNCHANGED <<redisUp, redisAge, mshipAge, mode, late, down, up>>,
         CounterTypes'
  PROVE  FallbackTypeOK' /\ ModeLags'
PROOF
  BY DEF FallbackIInv, FallbackTypeOK, ModeLags, CounterTypes

\* The mode is normal exactly when the last healthy answer is recent.
LEMMA NormalIsRecent ==
  ASSUME NEW r \in Nat, NEW m \in Nat
  PROVE  /\ ModeOf(r, m) \in Modes
         /\ ModeOf(r, m) = "normal" <=> r < RedisUnhealthyFor
PROOF
  BY Thresholds DEF ModeOf, Modes

\* An Update while Redis answers ends in normal mode; one while it does not
\* leaves normal mode only to an outage younger than the threshold.
LEMMA UpdateInv ==
  ASSUME FallbackIInv, NEW i \in Instance, Update(i)
  PROVE  FallbackIInv'
PROOF
  <1> USE DEF FallbackIInv, FallbackTypeOK, ModeLags
  <1> DEFINE r == IF redisUp THEN 0 ELSE redisAge[i]
             healthy == mshipUp[i] /\ (RequireQuorum => HasQuorum(i))
             m == IF healthy THEN 0 ELSE mshipAge[i]
  <1>0. m \in 0..MembershipUnhealthy
    BY Thresholds
  <1>1. /\ redisAge' = [redisAge EXCEPT ![i] = r]
        /\ mshipAge' = [mshipAge EXCEPT ![i] = m]
        /\ mode' = [mode EXCEPT ![i] = ModeOf(redisAge'[i], mshipAge'[i])]
        /\ late' = [late EXCEPT ![i] = 0]
    BY DEF Update
  <1>2. UNCHANGED <<weight, redisUp, used, admitted, wrapped, down, up>>
    BY DEF Update, counters
  <1>3. r \in 0..RedisUnhealthyFor
    BY Thresholds
  <1> HIDE DEF r, m, healthy
  <1>4. /\ redisAge' \in [Instance -> 0..RedisUnhealthyFor] /\ redisAge'[i] = r
        /\ mshipAge' \in [Instance -> 0..MembershipUnhealthy] /\ mshipAge'[i] = m
        /\ late' \in [Instance -> 0..Interval] /\ late'[i] = 0
        /\ \A j \in Instance : j # i => redisAge'[j] = redisAge[j] /\ late'[j] = late[j]
    BY <1>0, <1>1, <1>3, Thresholds
  <1>5. ModeOf(r, m) \in Modes /\ (ModeOf(r, m) = "normal" <=> r < RedisUnhealthyFor)
    BY <1>0, <1>3, NormalIsRecent, Thresholds
  <1>6. /\ mode' \in [Instance -> Modes] /\ mode'[i] = ModeOf(r, m)
        /\ \A j \in Instance : j # i => mode'[j] = mode[j]
    BY <1>1, <1>4, <1>5 DEF Modes
  <1>7. CounterTypes' /\ OwnerCounts'
    BY <1>2, CountersKept
  <1>8. FallbackTypeOK'
    BY <1>2, <1>4, <1>6, <1>7 DEF Modes, CounterTypes
  <1>9. ASSUME NEW j \in Instance
        PROVE  /\ redisAge'[j] >= down' \/ redisAge'[j] = RedisUnhealthyFor
               /\ mode'[j] = "normal" => down' < RedisUnhealthyFor + late'[j]
               /\ mode'[j] # "normal" => up' <= late'[j]
    <2>1. CASE j # i
      BY <1>2, <1>4, <1>6, <2>1
    <2>2. CASE j = i
      <3>1. r >= down \/ r = RedisUnhealthyFor
        BY Thresholds DEF r
      <3>2. r < RedisUnhealthyFor => down < RedisUnhealthyFor
        BY <1>3, <3>1, Thresholds
      <3>3. r >= RedisUnhealthyFor => up = 0
        BY Thresholds DEF r
      <3> QED BY <1>2, <1>3, <1>4, <1>5, <1>6, <2>2, <3>1, <3>2, <3>3, Thresholds
    <2> QED BY <2>1, <2>2
  <1>10. ModeLags'
    BY <1>2, <1>9
  <1> QED BY <1>7, <1>8, <1>10

\* The owner counts what it lets in against the cap of its mode; if the sum
\* fits, that is what it has admitted.
LEMMA AllowInv ==
  ASSUME FallbackIInv, NEW i \in Instance, NEW k \in Key, NEW c \in Cost,
         FallbackAllow(i, k, c)
  PROVE  FallbackIInv'
PROOF
  <1> USE DEF FallbackIInv
  <1> DEFINE sum == used[i][k] + c
             adm == Saturated(admitted[i][k] + c)
             wr == wrapped[i][k] \/ ~Fits(sum)
  <1>1. c \in Nat /\ c > 0 /\ MaxInt \in Nat /\ MaxInt > 0
    BY FallbackAssumption
  <1>2. /\ used[i][k] \in Int /\ admitted[i][k] \in Nat /\ wrapped[i][k] \in BOOLEAN
        /\ mode[i] \in Modes
    BY DEF FallbackTypeOK, Modes
  <1>3. /\ IsOwner(i, k) /\ Int64(sum) <= CapOf(i, mode[i])
        /\ used' = [used EXCEPT ![i] = [used[i] EXCEPT ![k] = Int64(sum)]]
        /\ admitted' = [admitted EXCEPT ![i] = [admitted[i] EXCEPT ![k] = adm]]
        /\ wrapped' = [wrapped EXCEPT ![i] = [wrapped[i] EXCEPT ![k] = wr]]
        /\ UNCHANGED <<weight, redisUp, redisAge, mshipAge, mode, late, down, up>>
    BY DEF FallbackAllow, health
  <1>4. sum \in Int /\ Int64(sum) \in Int /\ (Fits(sum) => sum <= MaxInt /\ Int64(sum) = sum)
    BY <1>1, <1>2, FitsBelowMax DEF Fits
  <1>5. adm \in Nat /\ (admitted[i][k] + c <= MaxInt => adm = admitted[i][k] + c)
    BY <1>1, <1>2 DEF Saturated
  <1>6. wr \in BOOLEAN
    BY Zenon DEF wr
  <1> HIDE DEF sum, adm, wr
  <1>7. /\ used' \in [Instance -> [Key -> Int]] /\ used'[i][k] = Int64(sum)
        /\ \A j \in Instance, l \in Key : j # i \/ l # k => used'[j][l] = used[j][l]
    BY <1>3, <1>4 DEF FallbackTypeOK
  <1>8. /\ admitted' \in [Instance -> [Key -> Nat]] /\ admitted'[i][k] = adm
        /\ \A j \in Instance, l \in Key : j # i \/ l # k => admitted'[j][l] = admitted[j][l]
    BY <1>3, <1>5 DEF FallbackTypeOK
  <1>9. /\ wrapped' \in [Instance -> [Key -> BOOLEAN]] /\ wrapped'[i][k] = wr
        /\ \A j \in Instance, l \in Key : j # i \/ l # k => wrapped'[j][l] = wrapped[j][l]
    BY <1>3, <1>6 DEF FallbackTypeOK
  <1>10. ASSUME ~wr PROVE Int64(sum) = adm
    <2>1. Fits(sum) /\ ~wrapped[i][k]
      BY <1>10 DEF wr
    <2>2. used[i][k] = admitted[i][k]
      BY <2>1 DEF OwnerCounts
    <2> QED BY <1>4, <1>5, <2>1, <2>2 DEF sum
  <1>11. ASSUME NEW j \in Instance, NEW l \in Key PROVE CountOK(j, l)'
    <2>1. CASE j = i /\ l = k
      <3>1. IsOwner(i, k)' /\ CapOf(i, mode[i])' = CapOf(i, mode[i])
        BY <1>3, SameViews
      <3>2. ~wrapped'[i][k] => used'[i][k] = admitted'[i][k] /\ admitted'[i][k] <= CapOf(i, mode[i])
        BY <1>3, <1>7, <1>8, <1>9, <1>10
      <3>3. ~wrapped'[i][k] => admitted'[i][k] <= CapOf(i, mode[i])'
        BY <3>1, <3>2
      <3>4. ~wrapped'[i][k] => \E m \in Modes : admitted'[i][k] <= CapOf(i, m)'
        BY <1>2, <1>3, <3>3
      <3> QED BY <2>1, <3>1, <3>2, <3>4 DEF CountOK
    <2>2. CASE j # i \/ l # k
      <3>1. CountOK(j, l)
        BY DEF OwnerCounts, CountOK, Modes
      <3>2. /\ admitted'[j][l] = admitted[j][l] /\ used'[j][l] = used[j][l]
            /\ wrapped'[j][l] = wrapped[j][l]
        BY <1>7, <1>8, <1>9, <2>2
      <3> QED BY <1>3, <3>1, <3>2, SameViews DEF CountOK
    <2> QED BY <2>1, <2>2
  <1>12. OwnerCounts'
    BY <1>11 DEF OwnerCounts, CountOK, Modes
  <1> QED BY <1>3, <1>7, <1>8, <1>9, <1>12, HealthKept DEF CounterTypes

\* A tick ages everything by one; at the end of a window nothing is admitted.
LEMMA TickInv ==
  ASSUME FallbackIInv, Tick
  PROVE  FallbackIInv'
PROOF
  <1> USE DEF FallbackIInv
  <1>1. /\ \A i \in Instance : late[i] < Interval
        /\ late' = [i \in Instance |-> late[i] + 1]
        /\ redisAge' = [i \in Instance |-> Capped(redisAge[i], RedisUnhealthyFor)]
        /\ mshipAge' = [i \in Instance |-> Capped(mshipAge[i], MembershipUnhealthy)]
        /\ down' = IF redisUp THEN 0 ELSE Capped(down, Patience)
        /\ up' = IF redisUp THEN Capped(up, Patience) ELSE 0
        /\ UNCHANGED <<weight, redisUp, mode>>
    BY DEF Tick
  <1>2. CounterTypes' /\ OwnerCounts'
    <2>1. CASE UNCHANGED counters
      BY <1>1, <2>1, CountersKept DEF counters
    <2>2. CASE /\ admitted' = [i \in Instance |-> [k \in Key |-> 0]] /\ used' = admitted'
               /\ wrapped' = [i \in Instance |-> [k \in Key |-> FALSE]]
      BY <2>2 DEF OwnerCounts, CounterTypes
    <2> QED BY <2>1, <2>2 DEF Tick
  <1>3. \A i \in Instance : /\ late[i] \in 0..Interval
                            /\ redisAge[i] \in 0..RedisUnhealthyFor
                            /\ mshipAge[i] \in 0..MembershipUnhealthy
    BY DEF FallbackTypeOK
  <1>4. down \in 0..Patience /\ up \in 0..Patience
    BY DEF FallbackTypeOK
  <1>5. ASSUME NEW i \in Instance
        PROVE  /\ late'[i] = late[i] + 1 /\ late'[i] \in 0..Interval
               /\ redisAge'[i] = Capped(redisAge[i], RedisUnhealthyFor)
               /\ redisAge'[i] \in 0..RedisUnhealthyFor
               /\ mshipAge'[i] \in 0..MembershipUnhealthy
    <2>1. late'[i] = late[i] + 1 /\ late'[i] \in 0..Interval
      BY <1>1, <1>3, Thresholds
    <2> QED BY <1>1, <1>3, <2>1, CappedStep, Thresholds
  <1>6. down' \in 0..Patience /\ up' \in 0..Patience
    BY <1>1, <1>4, CappedStep, Thresholds
  <1>7. FallbackTypeOK'
    BY <1>1, <1>2, <1>5, <1>6 DEF FallbackTypeOK, CounterTypes
  <1>8. /\ down' = 0 \/ (~redisUp /\ (down' = down + 1 \/ (down = Patience /\ down' = Patience)))
        /\ up' = 0 \/ (redisUp /\ (up' = up + 1 \/ (up = Patience /\ up' = Patience)))
    BY <1>1, <1>4, CappedStep, Thresholds
  <1>9. ASSUME NEW i \in Instance
        PROVE  /\ redisAge'[i] >= down' \/ redisAge'[i] = RedisUnhealthyFor
               /\ mode'[i] = "normal" => down' < RedisUnhealthyFor + late'[i]
               /\ mode'[i] # "normal" => up' <= late'[i]
    <2>1. /\ redisAge[i] >= down \/ redisAge[i] = RedisUnhealthyFor
          /\ mode[i] = "normal" => down < RedisUnhealthyFor + late[i]
          /\ mode[i] # "normal" => up <= late[i]
      BY DEF ModeLags
    <2>2. redisAge'[i] = redisAge[i] + 1 \/ redisAge'[i] = RedisUnhealthyFor
      BY <1>3, <1>5, CappedStep, Thresholds
    <2>3. redisAge'[i] >= down' \/ redisAge'[i] = RedisUnhealthyFor
      BY <1>3, <1>4, <1>5, <1>6, <1>8, <2>1, <2>2, Thresholds
    <2>4. mode'[i] = mode[i]
      BY <1>1
    <2>5. mode[i] = "normal" => down' < RedisUnhealthyFor + late'[i]
      BY <1>3, <1>4, <1>5, <1>8, <2>1, Thresholds
    <2>6. mode[i] # "normal" => up' <= late'[i]
      BY <1>3, <1>4, <1>5, <1>8, <2>1, Thresholds
    <2> QED BY <2>3, <2>4, <2>5, <2>6
  <1>10. ModeLags'
    BY <1>1, <1>8, <1>9 DEF ModeLags
  <1> QED BY <1>2, <1>7, <1>10

\* When Redis goes or comes back, the outage or the recovery is young.
LEMMA RedisFlipsInv ==
  ASSUME FallbackIInv, RedisFlips
  PROVE  FallbackIInv'
PROOF
  <1> USE DEF FallbackIInv
  <1>1. /\ redisUp' = ~redisUp /\ down' = 0 /\ up' = 0
        /\ UNCHANGED <<weight, redisAge, mshipAge, mode, late, used, admitted, wrapped>>
    BY DEF RedisFlips, counters
  <1>2. CounterTypes' /\ OwnerCounts'
    BY <1>1, CountersKept
  <1>3. FallbackTypeOK'
    BY <1>1, <1>2, Thresholds DEF FallbackTypeOK, CounterTypes
  <1>4. \A i \in Instance : redisAge[i] \in 0..RedisUnhealthyFor /\ late[i] \in 0..Interval
    BY DEF FallbackTypeOK
  <1>5. ModeLags'
    BY <1>1, <1>4, Thresholds DEF ModeLags
  <1> QED BY <1>2, <1>3, <1>5

------------------------------------------------------------------------------
(* The inductive invariant *)

\* Healthy instances and empty windows.
LEMMA FallbackInitInv ==
  ASSUME Init
  PROVE  FallbackIInv
PROOF
  <1>1. FallbackTypeOK
    BY Thresholds DEF Init, FallbackTypeOK
  <1>2. ModeLags
    BY Thresholds DEF Init, ModeLags
  <1>3. OwnerCounts
    <2>1. used = admitted /\ \A i \in Instance, k \in Key : admitted[i][k] = 0
      BY DEF Init
    <2> QED BY <2>1 DEF OwnerCounts
  <1> QED BY <1>1, <1>2, <1>3 DEF FallbackIInv

\* Every step keeps the invariant.
LEMMA FallbackNextInv ==
  ASSUME FallbackIInv, [Next]_vars
  PROVE  FallbackIInv'
PROOF
  <1>1. ASSUME UNCHANGED <<weight, used, admitted, wrapped, redisUp, redisAge, mshipAge, mode,
                           late, down, up>>
        PROVE  FallbackIInv'
    BY <1>1, CountersKept, HealthKept DEF FallbackIInv
  <1>2. CASE UNCHANGED vars
    BY <1>1, <1>2 DEF vars, health, counters
  <1>3. ASSUME NEW i \in Instance, MembershipFlips(i) PROVE FallbackIInv'
    BY <1>1, <1>3 DEF MembershipFlips, counters
  <1> QED BY <1>2, <1>3, UpdateInv, AllowInv, TickInv, RedisFlipsInv DEF Next

\* Hence the invariant always holds.
LEMMA FallbackInductive == Spec => []FallbackIInv
PROOF
  BY FallbackInitInv, FallbackNextInv, PTL DEF Spec

\* However the samples of HealthLoop fall, an outage that outlasts the threshold
\* by an interval takes every instance out of normal mode, and an interval after
\* Redis is back for good every instance is in normal mode.
THEOREM FallbackModeTracksRedis == Spec => []ModeTracksRedis
PROOF
  <1>1. FallbackIInv => ModeTracksRedis
    <2> SUFFICES ASSUME FallbackIInv, NEW i \in Instance
                 PROVE  /\ down >= Patience => mode[i] # "normal"
                        /\ up > Interval => mode[i] = "normal"
      BY DEF ModeTracksRedis
    <2>1. late[i] \in 0..Interval /\ down \in 0..Patience /\ up \in 0..Patience
      BY DEF FallbackIInv, FallbackTypeOK
    <2>2. /\ mode[i] = "normal" => down < RedisUnhealthyFor + late[i]
          /\ mode[i] # "normal" => up <= late[i]
      BY DEF FallbackIInv, ModeLags
    <2> QED BY <2>1, <2>2, Thresholds
  <1> QED BY <1>1, FallbackInductive, PTL

\* Among instances that see the same list one alone lets in calls of a key
\* (RendezvousOwnership.IsOwner), and in one window no more than one of its
\* modes allows (FallbackLimiter.Allow), unless a cost so large that used+cost
\* leaves the int64 range has been let in (AllowFixedWindow).
THEOREM FallbackSharedCap == Spec => []SharedCap
PROOF
  <1>1. FallbackIInv => SharedCap
    <2> SUFFICES ASSUME FallbackIInv, NEW i \in Instance, NEW k \in Key,
                        admitted[i][k] > 0
                 PROVE  /\ wrapped[i][k] \/ \E m \in Modes : admitted[i][k] <= CapOf(i, m)
                        /\ ViewsAgree => \A j \in Scope(i) \ {i} : admitted[j][k] = 0
      BY DEF SharedCap, Modes
    <2>1. /\ IsOwner(i, k)
          /\ wrapped[i][k] \/ \E m \in Modes : admitted[i][k] <= CapOf(i, m)
      BY DEF FallbackIInv, OwnerCounts, Modes
    <2>2. ASSUME ViewsAgree, NEW j \in Scope(i) \ {i} PROVE admitted[j][k] = 0
      <3>1. j \in Instance /\ admitted[j][k] \in Nat
        BY DEF Scope, FallbackIInv, FallbackTypeOK
      <3>2. ~IsOwner(j, k)
        BY <2>1, <2>2, <3>1, SameOwner DEF IsOwner
      <3> QED BY <3>1, <3>2 DEF FallbackIInv, OwnerCounts
    <2> QED BY <2>1, <2>2
  <1> QED BY <1>1, FallbackInductive, PTL

==============================================================================
