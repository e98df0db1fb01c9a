------------------------- MODULE AccountPoolProofs -------------------------
(***************************************************************************)
(* What the operators of AccountPool.tla do, for every set of accounts and *)
(* every horizon: the facts that the proofs about SocketSession.tla and    *)
(* Failover.tla share.                                                     *)
(***************************************************************************)
EXTENDS AccountPool, WellFoundedInduction, TLAPS

\* A non-empty set of naturals has a least element, and Min returns it.
LEMMA MinOfNaturals ==
  ASSUME NEW T \in SUBSET Nat, T # {}
  PROVE  Min(T) \in T /\ \A n \in T : Min(T) <= n
<1>1. \E m \in T : \A n \in T : ~(<<n, m>> \in OpToRel(<, Nat))
  BY NatLessThanWellFounded, WFMin
<1>2. \A m, n \in Nat : n < m => <<n, m>> \in OpToRel(<, Nat)
  BY DEF OpToRel
<1>3. PICK m \in T : \A n \in T : ~(n < m)
  BY <1>1, <1>2
<1>4. \A n \in T : m <= n
  BY <1>3
<1> QED BY <1>4 DEF Min

\* A two-element set of naturals has a largest element, and Max returns it.
LEMMA MaxOfTwo ==
  ASSUME NEW m \in Nat, NEW n \in Nat
  PROVE  Max({m, n}) = IF m >= n THEN m ELSE n
<1>1. \E x \in {m, n} : \A y \in {m, n} : x >= y
  OBVIOUS
<1>2. Max({m, n}) \in {m, n} /\ \A y \in {m, n} : Max({m, n}) >= y
  BY <1>1 DEF Max
<1> QED BY <1>2

\* The time to an account's recovery is a time within the horizon.
LEMMA RecoveryAtType ==
  ASSUME PoolTypeOK, NEW a \in Accounts
  PROVE  RecoveryAt(a) \in 0..Horizon
<1>1. cooldown[a] \in 0..Horizon /\ quota[a] \in 0..Horizon /\ Horizon \in Nat
  BY HorizonAssumption DEF PoolTypeOK
<1>2. cooldown[a] \in Nat /\ quota[a] \in Nat
  BY <1>1
<1>3. Max({cooldown[a], quota[a]}) \in {cooldown[a], quota[a]}
  BY <1>2, MaxOfTwo
<1> QED BY <1>1, <1>3 DEF RecoveryAt

\* The earliest recovery among some accounts is a time within the horizon, and
\* when it is not 0 it is the recovery of one of them, none of whose others is
\* earlier.
LEMMA EarliestAvailabilityExact ==
  ASSUME PoolTypeOK, NEW S \in SUBSET Accounts
  PROVE  /\ EarliestAvailability(S) \in 0..Horizon
         /\ EarliestAvailability(S) = 0 => \A a \in S : RecoveryAt(a) = 0
         /\ EarliestAvailability(S) # 0
              => /\ \E a \in S : EarliestAvailability(S) = RecoveryAt(a)
                 /\ \A a \in S : RecoveryAt(a) # 0 => EarliestAvailability(S) <= RecoveryAt(a)
<1> DEFINE known == {RecoveryAt(a) : a \in S} \ {0}
<1>1. \A a \in S : RecoveryAt(a) \in 0..Horizon
  BY RecoveryAtType
<1>2. Horizon \in Nat /\ 0 \in 0..Horizon
  BY HorizonAssumption
<1>3. known \in SUBSET Nat /\ known \subseteq 0..Horizon
  BY <1>1, <1>2
<1>4. EarliestAvailability(S) = IF known = {} THEN 0 ELSE Min(known)
  BY DEF EarliestAvailability
<1>5. \A a \in S : RecoveryAt(a) # 0 => RecoveryAt(a) \in known
  OBVIOUS
<1>6. \A n \in known : n # 0 /\ \E a \in S : n = RecoveryAt(a)
  OBVIOUS
<1> HIDE DEF known
<1>7. CASE known = {}
  BY <1>2, <1>4, <1>5, <1>7
<1>8. CASE known # {}
  <2>1. Min(known) \in known /\ \A n \in known : Min(known) <= n
    BY <1>3, <1>8, MinOfNaturals
  <2> QED BY <1>3, <1>4, <1>5, <1>6, <1>8, <2>1
<1> QED BY <1>7, <1>8
-----------------------------------------------------------------------------
(* The operations keep the saved accounts well-typed. *)

\* MarkError keeps the types.
LEMMA MarkErrorType ==
  ASSUME PoolTypeOK, NEW a \in Accounts, MarkError(a)
  PROVE  PoolTypeOK'
BY HorizonAssumption DEF PoolTypeOK, MarkError, Statuses

\* SetCooldown keeps the types.
LEMMA SetCooldownType ==
  ASSUME PoolTypeOK, NEW a \in Accounts, NEW d \in 0..Horizon, SetCooldown(a, d)
  PROVE  PoolTypeOK'
BY DEF PoolTypeOK, SetCooldown, Statuses

\* UpdateAuth keeps the types.
LEMMA UpdateAuthType ==
  ASSUME PoolTypeOK, NEW a \in Accounts, UpdateAuth(a)
  PROVE  PoolTypeOK'
BY DEF PoolTypeOK, UpdateAuth, Statuses

\* ObserveQuota keeps the types.
LEMMA ObserveQuotaType ==
  ASSUME PoolTypeOK, NEW a \in Accounts, NEW q \in 0..Horizon, ObserveQuota(a, q)
  PROVE  PoolTypeOK'
BY HorizonAssumption DEF PoolTypeOK, ObserveQuota, Statuses

\* A quota that was observed, or none, keeps the types.
LEMMA ObservedType ==
  ASSUME PoolTypeOK, NEW a \in Accounts, UNCHANGED pool \/ \E q \in 0..Horizon : ObserveQuota(a, q)
  PROVE  PoolTypeOK'
<1>1. CASE UNCHANGED pool
  BY <1>1 DEF PoolTypeOK, pool
<1>2. CASE \E q \in 0..Horizon : ObserveQuota(a, q)
  BY <1>2, ObserveQuotaType
<1> QED BY <1>1, <1>2

\* What an upstream error does to its account keeps the types.
LEMMA ClassifyType ==
  ASSUME PoolTypeOK, NEW a \in Accounts, NEW f, Classify(a, f)
  PROVE  PoolTypeOK'
<1>1. CASE MarkError(a)
  BY <1>1, MarkErrorType
<1>2. CASE SetCooldown(a, Fallback)
  <2>1. Fallback \in 0..Horizon
    BY HorizonAssumption
  <2> QED BY <1>2, <2>1, SetCooldownType
<1>3. CASE \E d \in 1..Horizon : SetCooldown(a, d)
  <2>1. PICK d \in 1..Horizon : SetCooldown(a, d)
    BY <1>3
  <2>2. d \in 0..Horizon
    BY HorizonAssumption
  <2> QED BY <2>1, <2>2, SetCooldownType
<1>4. CASE UNCHANGED pool
  BY <1>4 DEF PoolTypeOK, pool
<1> QED BY <1>1, <1>2, <1>3, <1>4 DEF Classify

\* The time that is left stays within the horizon.
LEMMA LessType ==
  ASSUME NEW m \in Nat, NEW n \in 0..m
  PROVE  Less(n) \in 0..m
BY DEF Less

\* Time that passes keeps the types.
LEMMA PoolTickType ==
  ASSUME PoolTypeOK, PoolTick
  PROVE  PoolTypeOK'
<1>1. \A a \in Accounts : Less(cooldown[a]) \in 0..Horizon /\ Less(quota[a]) \in 0..Horizon
  BY LessType, HorizonAssumption DEF PoolTypeOK
<1> QED BY <1>1 DEF PoolTypeOK, PoolTick

\* What happens to an account from outside keeps the types.
LEMMA PoolChangeType ==
  ASSUME PoolTypeOK, NEW a \in Accounts, PoolChange(a)
  PROVE  PoolTypeOK'
<1>1. ASSUME NEW s \in {"active", "disabled"}, Patch(a, s)
      PROVE  PoolTypeOK'
  BY <1>1, HorizonAssumption DEF PoolTypeOK, Patch, Statuses
<1>2. CASE UpsertFromToken(a)
  BY <1>2, HorizonAssumption DEF PoolTypeOK, UpsertFromToken, Statuses
<1>3. CASE \E q \in 0..Horizon : ObserveQuota(a, q)
  BY <1>3, ObserveQuotaType
<1> QED BY <1>1, <1>2, <1>3 DEF PoolChange
=============================================================================
