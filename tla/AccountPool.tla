---------------------------- MODULE AccountPool ----------------------------
(***************************************************************************)
(* The routing-relevant part of the saved accounts (internal/accounts) as  *)
(* the request paths see it: a status, the transient cooldown and the      *)
(* blocking quota window of every account.  Each service method holds the  *)
(* service's mutex, so an operator here is part of one atomic step.        *)
(* Deadlines are kept as the time left, which one Tick makes smaller: 0    *)
(* means that the cooldown or the window has passed or was never set.      *)
(***************************************************************************)
EXTENDS Integers, FiniteSetsExt

CONSTANTS Accounts,   \* saved account ids
          Horizon,    \* bound: the longest cooldown or quota window, in ticks
          Fallback,   \* DefaultRateLimitFallback, in ticks
          Failures    \* the upstream failures explored, a subset of AllFailures

\* "forbidden" is a 403 that is no Cloudflare block; "transient" is a Cloudflare
\* 403, 408, 500, 502, 503, 504 or a transport error.
AllFailures == {"unauthorized", "forbidden", "payment", "rateLimited", "transient"}

ASSUME HorizonAssumption == Horizon \in Nat /\ Fallback \in 1..Horizon
ASSUME FailuresAssumption == Failures \subseteq AllFailures

VARIABLES
  status,     \* Record.Status
  cooldown,   \* Record.CooldownUntil, as the time left
  quota       \* the reset of a reached limit in Record.CachedQuota, as the time left

pool == <<status, cooldown, quota>>

Statuses == {"active", "disabled", "expired"}

PoolTypeOK == /\ status \in [Accounts -> Statuses]
              /\ cooldown \in [Accounts -> 0..Horizon]
              /\ quota \in [Accounts -> 0..Horizon]

\* The accounts file may hold any status and any deadline from an earlier run.
PoolInit == PoolTypeOK

\* isEligible
Eligible(a) == status[a] = "active" /\ cooldown[a] = 0 /\ quota[a] = 0

\* recordRecoveryAt: the time until the last blocker of an active account has
\* passed, 0 when the account has no blocker or can never recover by itself.
RecoveryAt(a) ==
  IF status[a] # "active" THEN 0 ELSE Max({cooldown[a], quota[a]})

EarliestAvailability(S) ==
  LET known == {RecoveryAt(a) : a \in S} \ {0}
  IN IF known = {} THEN 0 ELSE Min(known)

MarkError(a) == /\ status' = [status EXCEPT ![a] = "expired"]
                /\ cooldown' = [cooldown EXCEPT ![a] = 0]
                /\ UNCHANGED quota

SetCooldown(a, d) == /\ cooldown' = [cooldown EXCEPT ![a] = d]
                     /\ UNCHANGED <<status, quota>>

\* UpdateAuth after a token refresh.
UpdateAuth(a) ==
  /\ status' = [status EXCEPT ![a] = IF @ = "disabled" THEN @ ELSE "active"]
  /\ UNCHANGED <<cooldown, quota>>

\* UpsertFromToken for an account that is already saved.
UpsertFromToken(a) == /\ status' = [status EXCEPT ![a] = "active"]
                      /\ cooldown' = [cooldown EXCEPT ![a] = 0]
                      /\ UNCHANGED quota

\* The admin API lets Patch set "active" and "disabled".
Patch(a, s) ==
  /\ status' = [status EXCEPT ![a] = s]
  /\ cooldown' = [cooldown EXCEPT ![a] = 0]
  /\ quota' = IF s = "active" THEN [quota EXCEPT ![a] = 0] ELSE quota

\* A snapshot with a reached limit keeps the cooldown, any other clears it.
ObserveQuota(a, q) ==
  /\ quota' = [quota EXCEPT ![a] = q]
  /\ cooldown' = IF q = 0 THEN [cooldown EXCEPT ![a] = 0] ELSE cooldown
  /\ UNCHANGED status

\* classifyUpstreamError.  The cooldowns after 402 and 429 come from Retry-After,
\* from a quota reset or from a default: any length.
Classify(a, f) ==
  \/ f = "unauthorized" /\ MarkError(a)
  \/ f = "forbidden" /\ SetCooldown(a, Fallback)
  \/ f \in {"payment", "rateLimited"} /\ \E d \in 1..Horizon : SetCooldown(a, d)
  \/ f = "transient" /\ UNCHANGED pool

Lower(m, n) == IF m <= n THEN m ELSE n

Less(n) == IF n = 0 THEN 0 ELSE n - 1

\* refreshAllLocked runs before every read, so a deadline that has passed is
\* never seen again.
PoolTick == /\ cooldown' = [a \in Accounts |-> Less(cooldown[a])]
            /\ quota' = [a \in Accounts |-> Less(quota[a])]
            /\ UNCHANGED status

\* What the admin API, device logins and other traffic do to an account.
PoolChange(a) == \/ \E s \in {"active", "disabled"} : Patch(a, s)
                 \/ UpsertFromToken(a)
                 \/ \E q \in 0..Horizon : ObserveQuota(a, q)
=============================================================================
