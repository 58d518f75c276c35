---------------------------- MODULE RateLimiter -----------------------------
(***************************************************************************)
(* The token bucket that limits how often a user may export orders: a hash  *)
(* in Redis per user, read and written by a script that runs atomically,    *)
(* but with the clock of the console process that calls it, and a key that  *)
(* expires when it has not been written for a while.                        *)
(*                                                                         *)
(* Tokens are measured by the time in which they are refilled, so that the  *)
(* rate is one: a request takes Cost, the bucket holds PolicyLimit of them. *)
(***************************************************************************)
EXTENDS Integers

CONSTANTS
  Users,
  Pods,
  Skew,         \* what the clock of a pod is ahead of that of Redis
  MaxSkew,
  Cost,         \* time in which a token is refilled: interval / limit
  PolicyLimit,  \* policy.Limit
  Horizon       \* bounds the clock

BucketSize == PolicyLimit * Cost
KeyExpiration == 2 * BucketSize

ASSUME RateLimiterAssumption ==
  /\ {MaxSkew, Horizon} \subseteq Nat
  /\ {Cost, PolicyLimit} \subseteq Nat \ {0}
  /\ BucketSize \in Nat /\ BucketSize >= Cost
  /\ Skew \in [Pods -> Int]
  /\ \A p \in Pods : -MaxSkew <= Skew[p] /\ Skew[p] <= MaxSkew
  /\ 2 * MaxSkew <= BucketSize

VARIABLES
  now,         \* the clock of Redis
  tokens,      \* fields of the user's key
  lastRefill,
  expireAt,    \* when the key expires; Never if it was never written
  spent,       \* what the user was allowed since he is being watched
  since        \* when that was

limiterVars == <<now, tokens, lastRefill, expireAt, spent, since>>

Never == -1

LimiterTypeOK ==
  /\ now \in 0..Horizon
  /\ tokens \in [Users -> 0..BucketSize]
  /\ lastRefill \in [Users -> Int]
  /\ expireAt \in [Users -> Nat \union {Never}]
  /\ spent \in [Users -> Nat]
  /\ since \in [Users -> 0..now]

LimiterInit ==
  /\ now = 0
  /\ tokens = [u \in Users |-> 0]
  /\ lastRefill = [u \in Users |-> 0]
  /\ expireAt = [u \in Users |-> Never]
  /\ spent = [u \in Users |-> 0]
  /\ since = [u \in Users |-> 0]

-----------------------------------------------------------------------------
Tick ==
  /\ now < Horizon
  /\ now' = now + 1
  /\ UNCHANGED <<tokens, lastRefill, expireAt, spent, since>>

Exists(u) == expireAt[u] # Never /\ now < expireAt[u]

Clock(p) == now + Skew[p]

(* Mutant: a refill may overfill the bucket. *)
Mutant_Capped(amount) == amount

Capped(amount) == IF amount > BucketSize THEN BucketSize ELSE amount

(* Mutant: the rate is taken from the key's expiration, not the interval. *)
Mutant_Refilled(p, u) ==
  IF Exists(u) THEN Capped(tokens[u] + (Clock(p) - lastRefill[u]) \div 2)
  ELSE BucketSize

(* What the script finds in the bucket, given the clock of a pod.           *)
Refilled(p, u) ==
  IF Exists(u) THEN Capped(tokens[u] + (Clock(p) - lastRefill[u]))
  ELSE BucketSize

(* Mutant: a refill is not dated, the next one counts it again. *)
Mutant_Store(p, u) ==
  /\ tokens' = [tokens EXCEPT ![u] = Refilled(p, u) - Cost]
  /\ lastRefill' = IF Exists(u) THEN lastRefill
                   ELSE [lastRefill EXCEPT ![u] = Clock(p)]
  /\ expireAt' = [expireAt EXCEPT ![u] = now + KeyExpiration]

(* HSET and EXPIRE.  A denied request stores nothing, not even the refill.  *)
Store(p, u) ==
  /\ tokens' = [tokens EXCEPT ![u] = Refilled(p, u) - Cost]
  /\ lastRefill' = [lastRefill EXCEPT ![u] = Clock(p)]
  /\ expireAt' = [expireAt EXCEPT ![u] = now + KeyExpiration]

Allow(p, u) ==
  /\ Refilled(p, u) >= Cost
  /\ Store(p, u)
  /\ spent' = [spent EXCEPT ![u] = @ + Cost]
  /\ UNCHANGED <<now, since>>

(* The script has run but its answer is lost: the middleware reports an     *)
(* error, the token is gone.                                                *)
AllowFails(p, u) ==
  /\ Refilled(p, u) >= Cost
  /\ Store(p, u)
  /\ UNCHANGED <<now, spent, since>>

(* Watch a user from here on; no part of the system.                        *)
Watch(u) ==
  /\ spent' = [spent EXCEPT ![u] = 0]
  /\ since' = [since EXCEPT ![u] = now]
  /\ UNCHANGED <<now, tokens, lastRefill, expireAt>>

LimiterNext ==
  \/ Tick
  \/ \E u \in Users :
       \/ Watch(u)
       \/ \E p \in Pods : Allow(p, u) \/ AllowFails(p, u)

LimiterSpec == LimiterInit /\ [][LimiterNext]_limiterVars

-----------------------------------------------------------------------------
(* Over any stretch of time a user is allowed no more than one full bucket  *)
(* and what is refilled meanwhile, although pods refill by clocks of their  *)
(* own and a key that expires comes back full: all that their clocks can    *)
(* add is twice the skew, once.                                             *)
SpentWithinLimit ==
  \A u \in Users : spent[u] <= BucketSize + (now - since[u]) + 2 * MaxSkew

(* When a user was last allowed something.                                  *)
LastAllowed(u) == expireAt[u] - KeyExpiration

(* A user who has been quiet for the interval of the policy finds a full    *)
(* bucket at every pod, even if one with a fast clock had dated the refill  *)
(* in the future of the others.                                             *)
QuietUserHasFullBucket ==
  \A u \in Users, p \in Pods :
    (expireAt[u] # Never => now >= LastAllowed(u) + BucketSize + 2 * MaxSkew)
      => Refilled(p, u) = BucketSize
=============================================================================
