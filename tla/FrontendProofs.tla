--------------------------- MODULE FrontendProofs ---------------------------
(***************************************************************************)
(* What holds of the frontend for every value of the constants: the rate    *)
(* limiter in front of the handlers, the calls they answer, and the pages   *)
(* they list orders by.                                                     *)
(*                                                                         *)
(* The limiter: for any users, pods and policy, and clocks that differ by   *)
(* at most half a bucket, no user is allowed more than the policy says, and *)
(* one who waited finds a full bucket.                                      *)
(* What was allowed is bounded through the bucket: as long as the key lives *)
(* every token handed out was in the bucket or was refilled between two     *)
(* dates of the refill, and a key that expires has been left alone for so   *)
(* long that the full bucket it comes back with would have been refilled.   *)
(*                                                                         *)
(* The calls: what is on record of each, between its stages.                *)
(*                                                                         *)
(* The listings: what a client has not been shown of the orders it began    *)
(* with is behind the cursor or was skipped with a second, or has a place,  *)
(* which is the number of the orders newer than it, further on.             *)
(***************************************************************************)
EXTENDS RateLimiter, Requests, OrderListing, FiniteSetTheorems, WellFoundedInduction, TLAPS

BucketIsDated ==
  \A u \in Users : expireAt[u] # Never =>
    /\ expireAt[u] - KeyExpiration <= now
    /\ lastRefill[u] <= expireAt[u] - KeyExpiration + MaxSkew

SpentWasInBucket ==
  \A u \in Users : spent[u] > 0 =>
    /\ expireAt[u] # Never
    /\ spent[u] <= lastRefill[u] - tokens[u] + BucketSize + MaxSkew - since[u]

LimiterInv == LimiterTypeOK /\ BucketIsDated /\ SpentWasInBucket

LEMMA InitHolds == LimiterInit => LimiterInv
  BY RateLimiterAssumption
     DEF LimiterInit, LimiterInv, LimiterTypeOK, BucketIsDated, SpentWasInBucket, Never

-----------------------------------------------------------------------------
LEMMA ClockIsNearNow ==
  ASSUME LimiterTypeOK, NEW p \in Pods
  PROVE  Clock(p) \in Int /\ now - MaxSkew <= Clock(p) /\ Clock(p) <= now + MaxSkew
  BY RateLimiterAssumption DEF LimiterTypeOK, Clock

(* A refill leaves a bucket that holds what the key and the time account    *)
(* for, or a full one where there is no key.                                *)
LEMMA RefillIsBounded ==
  ASSUME LimiterTypeOK, NEW p \in Pods, NEW u \in Users
  PROVE  /\ Refilled(p, u) \in Int /\ Refilled(p, u) <= BucketSize
         /\ Exists(u) => Refilled(p, u) <= tokens[u] + (Clock(p) - lastRefill[u])
         /\ ~Exists(u) => Refilled(p, u) = BucketSize
<1>1. /\ tokens[u] \in Int /\ lastRefill[u] \in Int /\ BucketSize \in Int
      /\ Clock(p) \in Int
  BY ClockIsNearNow, RateLimiterAssumption DEF LimiterTypeOK
<1> QED
  BY <1>1 DEF Refilled, Capped

(* One token less, dated by the pod's clock, keeps the bounds of the user's *)
(* bucket, whether the user learns of the token or not.                     *)
LEMMA StoringKeepsBounds ==
  ASSUME LimiterInv, NEW p \in Pods, NEW u \in Users,
         Refilled(p, u) >= Cost, Store(p, u),
         now' = now, since' = since,
         NEW got \in {0, Cost}, spent' = [spent EXCEPT ![u] = @ + got]
  PROVE  LimiterInv'
<1>0. LimiterTypeOK /\ BucketIsDated /\ SpentWasInBucket
  BY DEF LimiterInv
<1>c. /\ BucketSize \in Nat /\ Cost \in Nat /\ Cost > 0 /\ MaxSkew \in Nat
      /\ 2 * MaxSkew <= BucketSize /\ KeyExpiration = 2 * BucketSize
      /\ Horizon \in Nat
  BY RateLimiterAssumption DEF KeyExpiration
<1>t. /\ now \in Nat /\ now <= Horizon
      /\ tokens[u] \in Nat /\ tokens[u] <= BucketSize
      /\ lastRefill[u] \in Int /\ expireAt[u] \in Nat \union {Never}
      /\ spent[u] \in Nat /\ since[u] \in Nat /\ since[u] <= now
  BY <1>0, <1>c DEF LimiterTypeOK
<1>k. Clock(p) \in Int /\ now - MaxSkew <= Clock(p) /\ Clock(p) <= now + MaxSkew
  BY <1>0, ClockIsNearNow
<1>r. /\ Refilled(p, u) \in Int /\ Refilled(p, u) <= BucketSize
      /\ Exists(u) => Refilled(p, u) <= tokens[u] + (Clock(p) - lastRefill[u])
      /\ ~Exists(u) => Refilled(p, u) = BucketSize
  BY <1>0, RefillIsBounded
<1>s. /\ tokens'[u] = Refilled(p, u) - Cost
      /\ lastRefill'[u] = Clock(p)
      /\ expireAt'[u] = now + KeyExpiration
      /\ spent'[u] = spent[u] + got
  BY <1>0 DEF LimiterTypeOK, Store
<1>o. \A v \in Users \ {u} :
        /\ tokens'[v] = tokens[v] /\ lastRefill'[v] = lastRefill[v]
        /\ expireAt'[v] = expireAt[v] /\ spent'[v] = spent[v]
  BY <1>0 DEF LimiterTypeOK, Store
<1>1. LimiterTypeOK'
  <2>1. Refilled(p, u) - Cost \in 0..BucketSize
    BY <1>c, <1>r
  <2>2. now + KeyExpiration \in Nat /\ spent[u] + got \in Nat
    BY <1>c, <1>t
  <2> QED
    BY <2>1, <2>2, <1>0, <1>k DEF LimiterTypeOK, Store
<1>2. BucketIsDated'
  <2>1. /\ now + KeyExpiration - KeyExpiration <= now
        /\ Clock(p) <= now + KeyExpiration - KeyExpiration + MaxSkew
    BY <1>c, <1>t, <1>k
  <2> SUFFICES ASSUME NEW v \in Users, expireAt'[v] # Never
               PROVE  /\ expireAt'[v] - KeyExpiration <= now
                      /\ lastRefill'[v] <= expireAt'[v] - KeyExpiration + MaxSkew
    BY DEF BucketIsDated, KeyExpiration, BucketSize
  <2>2. CASE v = u
    BY <2>2, <1>s, <1>c, <1>t, <1>k
  <2>3. CASE v # u
    BY <2>3, <1>0, <1>o DEF BucketIsDated
  <2> QED
    BY <2>2, <2>3
<1>3. SpentWasInBucket'
  <2>1. spent[u] + got <= Clock(p) - (Refilled(p, u) - Cost) + BucketSize + MaxSkew - since[u]
    <3>1. CASE spent[u] = 0
      BY <3>1, <1>c, <1>t, <1>k, <1>r
    <3>2. CASE spent[u] > 0 /\ Exists(u)
      <4>1. spent[u] <= lastRefill[u] - tokens[u] + BucketSize + MaxSkew - since[u]
        BY <3>2, <1>0 DEF SpentWasInBucket
      <4> QED
        BY <4>1, <3>2, <1>c, <1>t, <1>k, <1>r
    <3>3. CASE spent[u] > 0 /\ ~Exists(u)
      <4>1. /\ spent[u] <= lastRefill[u] - tokens[u] + BucketSize + MaxSkew - since[u]
            /\ expireAt[u] # Never
        BY <3>3, <1>0 DEF SpentWasInBucket
      <4>2. lastRefill[u] <= expireAt[u] - KeyExpiration + MaxSkew
        BY <4>1, <1>0 DEF BucketIsDated
      <4>3. expireAt[u] \in Nat /\ expireAt[u] <= now
        BY <3>3, <4>1, <1>t DEF Exists
      <4>4. spent[u] <= now - since[u]
        BY <4>1, <4>2, <4>3, <1>c, <1>t
      <4>5. Refilled(p, u) = BucketSize
        BY <3>3, <1>r
      <4> QED
        BY <4>4, <4>5, <1>c, <1>t, <1>k
    <3> QED
      BY <3>1, <3>2, <3>3, <1>t
  <2>2. expireAt'[u] # Never
    BY <1>s, <1>c, <1>t DEF Never
  <2> SUFFICES ASSUME NEW v \in Users, spent'[v] > 0
               PROVE  /\ expireAt'[v] # Never
                      /\ spent'[v] <= lastRefill'[v] - tokens'[v] + BucketSize
                                        + MaxSkew - since[v]
    BY DEF SpentWasInBucket, BucketSize
  <2>3. CASE v = u
    BY <2>1, <2>2, <2>3, <1>s
  <2>4. CASE v # u
    BY <2>4, <1>0, <1>o DEF SpentWasInBucket
  <2> QED
    BY <2>3, <2>4
<1> QED
  BY <1>1, <1>2, <1>3 DEF LimiterInv

LEMMA AllowKeeps ==
  ASSUME LimiterInv, NEW p \in Pods, NEW u \in Users, Allow(p, u)
  PROVE  LimiterInv'
  BY StoringKeepsBounds DEF Allow

LEMMA AllowFailsKeeps ==
  ASSUME LimiterInv, NEW p \in Pods, NEW u \in Users, AllowFails(p, u)
  PROVE  LimiterInv'
<1>1. spent' = [spent EXCEPT ![u] = @ + 0]
  BY DEF AllowFails, LimiterInv, LimiterTypeOK
<1> QED
  BY <1>1, StoringKeepsBounds DEF AllowFails

LEMMA WatchKeeps ==
  ASSUME LimiterInv, NEW u \in Users, Watch(u)
  PROVE  LimiterInv'
<1>0. LimiterTypeOK /\ BucketIsDated /\ SpentWasInBucket
  BY DEF LimiterInv
<1>1. LimiterTypeOK'
  BY <1>0, RateLimiterAssumption DEF LimiterTypeOK, Watch
<1>2. BucketIsDated'
  BY <1>0 DEF Watch, BucketIsDated, KeyExpiration, BucketSize
<1>3. SpentWasInBucket'
  <2> SUFFICES ASSUME NEW v \in Users, spent'[v] > 0
               PROVE  /\ expireAt[v] # Never
                      /\ spent'[v] <= lastRefill[v] - tokens[v] + BucketSize
                                        + MaxSkew - since'[v]
    BY DEF SpentWasInBucket, Watch, BucketSize
  <2>1. v # u /\ spent'[v] = spent[v] /\ since'[v] = since[v]
    BY <1>0 DEF Watch, LimiterTypeOK
  <2> QED
    BY <2>1, <1>0 DEF SpentWasInBucket
<1> QED
  BY <1>1, <1>2, <1>3 DEF LimiterInv

LEMMA TickKeeps ==
  ASSUME LimiterInv, Tick
  PROVE  LimiterInv'
<1>0. LimiterTypeOK /\ BucketIsDated /\ SpentWasInBucket
  BY DEF LimiterInv
<1>c. BucketSize \in Nat /\ MaxSkew \in Nat /\ Horizon \in Nat
      /\ KeyExpiration = 2 * BucketSize
  BY RateLimiterAssumption DEF KeyExpiration
<1>1. LimiterTypeOK'
  BY <1>0, <1>c DEF LimiterTypeOK, Tick
<1>2. BucketIsDated'
  <2> SUFFICES ASSUME NEW u \in Users, expireAt[u] # Never
               PROVE  /\ expireAt[u] - KeyExpiration <= now + 1
                      /\ lastRefill[u] <= expireAt[u] - KeyExpiration + MaxSkew
    BY DEF BucketIsDated, Tick, KeyExpiration, BucketSize
  <2>1. expireAt[u] \in Nat /\ now \in Nat
    BY <1>0, <1>c DEF LimiterTypeOK
  <2> QED
    BY <2>1, <1>0, <1>c DEF BucketIsDated
<1>3. SpentWasInBucket'
  BY <1>0 DEF Tick, SpentWasInBucket, BucketSize
<1> QED
  BY <1>1, <1>2, <1>3 DEF LimiterInv

LEMMA StepHolds == LimiterInv /\ [LimiterNext]_limiterVars => LimiterInv'
<1> SUFFICES ASSUME LimiterInv, [LimiterNext]_limiterVars
             PROVE  LimiterInv'
  OBVIOUS
<1>1. ASSUME Tick
      PROVE  LimiterInv'
  BY <1>1, TickKeeps
<1>2. ASSUME NEW u \in Users, Watch(u)
      PROVE  LimiterInv'
  BY <1>2, WatchKeeps
<1>3. ASSUME NEW u \in Users, NEW p \in Pods, Allow(p, u) \/ AllowFails(p, u)
      PROVE  LimiterInv'
  BY <1>3, AllowKeeps, AllowFailsKeeps
<1>4. ASSUME UNCHANGED limiterVars
      PROVE  LimiterInv'
  BY <1>4 DEF limiterVars, LimiterInv, LimiterTypeOK, BucketIsDated, SpentWasInBucket,
              KeyExpiration, BucketSize
<1> QED
  BY <1>1, <1>2, <1>3, <1>4 DEF LimiterNext

(* Every state of the limiter satisfies the inductive invariant.            *)
THEOREM InvariantHolds == LimiterSpec => []LimiterInv
<1>1. LimiterInit => LimiterInv
  BY InitHolds
<1>2. LimiterInv /\ [LimiterNext]_limiterVars => LimiterInv'
  BY StepHolds
<1> QED
  BY <1>1, <1>2, PTL DEF LimiterSpec

(* Every bucket holds between nothing and its size, whatever the clocks of  *)
(* the pods that refill it say.                                             *)
THEOREM TypeCorrect == LimiterSpec => []LimiterTypeOK
<1>1. LimiterInv => LimiterTypeOK
  BY DEF LimiterInv
<1> QED
  BY <1>1, InvariantHolds, PTL

-----------------------------------------------------------------------------
LEMMA SpentIsWithinLimit == LimiterInv => SpentWithinLimit
<1> SUFFICES ASSUME LimiterInv, NEW u \in Users
             PROVE  spent[u] <= BucketSize + (now - since[u]) + 2 * MaxSkew
  BY DEF SpentWithinLimit
<1>c. BucketSize \in Nat /\ MaxSkew \in Nat /\ KeyExpiration = 2 * BucketSize
      /\ Horizon \in Nat
  BY RateLimiterAssumption DEF KeyExpiration
<1>t. /\ now \in Nat /\ tokens[u] \in Nat /\ lastRefill[u] \in Int
      /\ expireAt[u] \in Nat \union {Never}
      /\ spent[u] \in Nat /\ since[u] \in Nat /\ since[u] <= now
  BY <1>c DEF LimiterInv, LimiterTypeOK
<1>1. CASE spent[u] = 0
  BY <1>1, <1>c, <1>t
<1>2. CASE spent[u] > 0
  <2>1. /\ expireAt[u] # Never
        /\ spent[u] <= lastRefill[u] - tokens[u] + BucketSize + MaxSkew - since[u]
    BY <1>2 DEF LimiterInv, SpentWasInBucket
  <2>2. /\ expireAt[u] - KeyExpiration <= now
        /\ lastRefill[u] <= expireAt[u] - KeyExpiration + MaxSkew
    BY <2>1 DEF LimiterInv, BucketIsDated
  <2> QED
    BY <2>1, <2>2, <1>c, <1>t
<1> QED
  BY <1>1, <1>2, <1>t

(* Over any stretch of time no user is allowed more than a full bucket and  *)
(* what the policy refills meanwhile, up to the difference of the clocks.   *)
THEOREM LimitIsKept == LimiterSpec => []SpentWithinLimit
  BY SpentIsWithinLimit, InvariantHolds, PTL

LEMMA QuietBucketIsFull == LimiterInv => QuietUserHasFullBucket
<1> SUFFICES ASSUME LimiterInv, NEW u \in Users, NEW p \in Pods,
                    expireAt[u] # Never => now >= LastAllowed(u) + BucketSize + 2 * MaxSkew
             PROVE  Refilled(p, u) = BucketSize
  BY DEF QuietUserHasFullBucket
<1>1. CASE ~Exists(u)
  BY <1>1 DEF Refilled
<1>2. CASE Exists(u)
  <2>c. BucketSize \in Nat /\ MaxSkew \in Nat /\ KeyExpiration = 2 * BucketSize
        /\ Horizon \in Nat
    BY RateLimiterAssumption DEF KeyExpiration
  <2>t. /\ now \in Nat /\ tokens[u] \in Nat /\ lastRefill[u] \in Int
        /\ expireAt[u] \in Nat \union {Never} /\ expireAt[u] # Never
    BY <1>2, <2>c DEF LimiterInv, LimiterTypeOK, Exists
  <2>k. Clock(p) \in Int /\ now - MaxSkew <= Clock(p)
    BY ClockIsNearNow DEF LimiterInv
  <2>1. lastRefill[u] <= expireAt[u] - KeyExpiration + MaxSkew
    BY <2>t DEF LimiterInv, BucketIsDated
  <2>2. now >= expireAt[u] - KeyExpiration + BucketSize + 2 * MaxSkew
    BY <2>t DEF LastAllowed
  <2>3. tokens[u] + (Clock(p) - lastRefill[u]) >= BucketSize
    BY <2>1, <2>2, <2>c, <2>t, <2>k
  <2> QED
    BY <1>2, <2>3, <2>c, <2>t, <2>k DEF Refilled, Capped
<1> QED
  BY <1>1, <1>2

(* Whoever has not been allowed anything for the interval of the policy     *)
(* finds a full bucket at every pod.                                        *)
THEOREM QuietUserIsServed == LimiterSpec => []QuietUserHasFullBucket
  BY QuietBucketIsFull, InvariantHolds, PTL

-----------------------------------------------------------------------------
(* The calls, each at its stage.                                            *)

(* The maps from calls are maps, which is all the argument needs of types.  *)
PerCall ==
  /\ route = [c \in Calls |-> route[c]]
  /\ owner = [c \in Calls |-> owner[c]]
  /\ skipped = [c \in Calls |-> skipped[c]]
  /\ written = [c \in Calls |-> written[c]]
  /\ durable = [c \in Calls |-> durable[c]]
  /\ answer = [c \in Calls |-> answer[c]]

(* A call that is not at its transaction has written nothing, and one that  *)
(* was not sent has no answer.                                              *)
NothingBefore(c) ==
  /\ ~Changes(c) => written[c] = 0 /\ durable[c] = 0
  /\ route[c] = <<>> => answer[c] = "none"

(* Of one that has no answer, a transaction shows nothing and the no-op     *)
(* manager shows all it has written.                                        *)
UnderWay(c) ==
  answer[c] = "none" => durable[c] = IF manager = "noop" THEN written[c] ELSE 0

(* The stages there are; those but the looks at the owner.                  *)
PlainStages == Checks \union {"limit", "read", "transaction", "checkIn"}
Stages == PlainStages \union OwnerChecks

(* The look at the owner is ahead, with nothing before it that could        *)
(* change or show an order.                                                 *)
CheckedFirst(stages) ==
  \E i \in DOMAIN stages :
    stages[i] \in OwnerChecks /\ \A j \in 1..i-1 : stages[j] \in Checks

(* A call about another's order that has not skipped that look.             *)
Stranger(c) == owner[c] = "other" /\ ~skipped[c]

(* It has the look ahead, or is where it ended.                             *)
StrangerIsStopped(c) ==
  Stranger(c) =>
    /\ route[c] \in Seq(Stages) /\ CheckedFirst(route[c])
    /\ answer[c] # "OK" /\ durable[c] = 0

TrueAnswer(c) ==
  /\ answer[c] \in Refusals => durable[c] = 0
  /\ answer[c] = "OK" /\ Changes(c) => durable[c] = Writes
  /\ manager = "mongo" => durable[c] \in {0, Writes}

CallInv(c) == NothingBefore(c) /\ UnderWay(c) /\ StrangerIsStopped(c) /\ TrueAnswer(c)

CallsInv == PerCall /\ \A c \in Calls : CallInv(c)

LEMMA CallsBegin == Init => CallsInv
  BY DEF Init, CallsInv, PerCall, CallInv, NothingBefore, UnderWay, StrangerIsStopped, Stranger,
         TrueAnswer, Refusals, Changes, At

(* What a step leaves alone of a call stays in order.                       *)
LEMMA OtherCall ==
  ASSUME NEW d \in Calls, CallInv(d), manager' = manager, route'[d] = route[d],
         owner'[d] = owner[d], skipped'[d] = skipped[d], written'[d] = written[d], durable'[d] = durable[d],
         answer'[d] = answer[d]
  PROVE  CallInv(d)'
BY DEF CallInv, NothingBefore, UnderWay, StrangerIsStopped, Stranger, TrueAnswer, Changes, At

(* A step of one call.                                                      *)
StepOf(c) ==
  /\ manager' = manager
  /\ PerCall'
  /\ \A d \in Calls \ {c} :
       /\ route'[d] = route[d] /\ owner'[d] = owner[d] /\ skipped'[d] = skipped[d] /\ written'[d] = written[d]
       /\ durable'[d] = durable[d] /\ answer'[d] = answer[d]

LEMMA OneCall ==
  ASSUME CallsInv, NEW c \in Calls, StepOf(c), CallInv(c)'
  PROVE  CallsInv'
<1>1. ASSUME NEW d \in Calls \ {c} PROVE CallInv(d)'
  <2>1. CallInv(d)
    BY DEF CallsInv
  <2> QED
    BY <2>1, OtherCall DEF StepOf
<1>2. \A d \in Calls : CallInv(d)'
  BY <1>1
<1> QED
  BY <1>2 DEF CallsInv, StepOf

-----------------------------------------------------------------------------
(* The way to the look at the owner.                                        *)
LEMMA AheadOfTheLook ==
  ASSUME NEW stages \in Seq(Stages), CheckedFirst(stages)
  PROVE  /\ stages # <<>>
         /\ Head(stages) \in Checks \union OwnerChecks
         /\ Head(stages) \in Checks =>
              Tail(stages) \in Seq(Stages) /\ CheckedFirst(Tail(stages))
<1>1. PICK i \in DOMAIN stages :
        stages[i] \in OwnerChecks /\ \A j \in 1..i-1 : stages[j] \in Checks
  BY DEF CheckedFirst
<1>2. i \in 1..Len(stages) /\ Len(stages) \in Nat
  OBVIOUS
<1>3. stages # <<>>
  BY <1>2
<1>4. Head(stages) = stages[1]
  BY <1>3
<1>5. Head(stages) \in Checks \union OwnerChecks
  <2>1. CASE i = 1
    BY <1>1, <1>4, <2>1
  <2>2. CASE i # 1
    <3>1. 1 \in 1..i-1
      BY <1>2, <2>2
    <3> QED
      BY <1>1, <1>4, <3>1
  <2> QED
    BY <2>1, <2>2
<1>6. ASSUME Head(stages) \in Checks
      PROVE  Tail(stages) \in Seq(Stages) /\ CheckedFirst(Tail(stages))
  <2>1. i # 1
    BY <1>1, <1>4, <1>6 DEF Checks, RefusalsOf, OwnerChecks
  <2>2. /\ Tail(stages) \in Seq(Stages)
        /\ Len(Tail(stages)) = Len(stages) - 1
        /\ \A j \in 1..Len(stages)-1 : Tail(stages)[j] = stages[j + 1]
    BY <1>3
  <2>3. i - 1 \in 1..Len(stages)-1 /\ i - 1 \in DOMAIN Tail(stages)
    BY <1>2, <2>1, <2>2
  <2>4. Tail(stages)[i - 1] \in OwnerChecks
    BY <1>1, <1>2, <2>2, <2>3
  <2>5. ASSUME NEW j \in 1..(i-1)-1 PROVE Tail(stages)[j] \in Checks
    <3>1. j \in 1..Len(stages)-1 /\ j + 1 \in 1..i-1
      BY <1>2
    <3> QED
      BY <1>1, <2>2, <3>1
  <2> QED
    BY <2>2, <2>3, <2>4, <2>5 DEF CheckedFirst
<1> QED
  BY <1>3, <1>5, <1>6

(* A way that does not look at the owner, or does so first of all.          *)
InOrder(stages) ==
  stages \in Seq(Stages) /\ (stages \in Seq(PlainStages) \/ CheckedFirst(stages))

(* More checks in front of a way do not change that.                        *)
LEMMA ChecksInFront ==
  ASSUME NEW first \in Seq(Checks), NEW stages, InOrder(stages)
  PROVE  InOrder(first \o stages)
<1> DEFINE whole == first \o stages
<1>1. first \in Seq(PlainStages) /\ first \in Seq(Stages)
  BY DEF PlainStages, Stages
<1>2. whole \in Seq(Stages)
  BY <1>1 DEF InOrder
<1>3. CASE stages \in Seq(PlainStages)
  <2>1. whole \in Seq(PlainStages)
    BY <1>1, <1>3
  <2> QED
    BY <1>2, <2>1 DEF InOrder
<1>4. CASE CheckedFirst(stages)
  <2>1. /\ Len(whole) = Len(first) + Len(stages)
        /\ \A j \in 1..Len(first) : whole[j] = first[j] /\ first[j] \in Checks
        /\ \A j \in 1..Len(stages) : whole[Len(first) + j] = stages[j]
        /\ Len(first) \in Nat /\ Len(stages) \in Nat
        /\ DOMAIN stages = 1..Len(stages) /\ DOMAIN whole = 1..Len(whole)
    BY <1>1 DEF InOrder
  <2> HIDE DEF whole
  <2>2. PICK i \in 1..Len(stages) :
          stages[i] \in OwnerChecks /\ \A j \in 1..i-1 : stages[j] \in Checks
    BY <1>4, <2>1 DEF CheckedFirst
  <2>3. Len(first) + i \in DOMAIN whole /\ whole[Len(first) + i] \in OwnerChecks
    BY <2>1, <2>2
  <2>4. ASSUME NEW j \in 1..(Len(first) + i)-1 PROVE whole[j] \in Checks
    <3>1. CASE j \in 1..Len(first)
      BY <2>1, <3>1
    <3>2. CASE j \notin 1..Len(first)
      <4>1. j - Len(first) \in 1..i-1 /\ j - Len(first) \in 1..Len(stages)
            /\ j = Len(first) + (j - Len(first))
        BY <2>1, <2>2, <3>2
      <4>2. whole[Len(first) + (j - Len(first))] = stages[j - Len(first)]
        BY <2>1, <4>1
      <4> QED
        BY <2>2, <4>1, <4>2
    <3> QED
      BY <3>1, <3>2
  <2>5. CheckedFirst(whole)
    BY <2>3, <2>4 DEF CheckedFirst
  <2> QED
    BY <1>2, <2>5 DEF InOrder, whole
<1> QED
  BY <1>3, <1>4 DEF InOrder

LEMMA ShortWays ==
  ASSUME NEW S, NEW a \in S, NEW b \in S, NEW c \in S
  PROVE  <<a>> \in Seq(S) /\ <<a, b>> \in Seq(S) /\ <<a, b, c>> \in Seq(S)
  OBVIOUS

(* Every handler that looks at the owner has only parsed before.            *)
LEMMA HandlersInOrder ==
  ASSUME NEW service \in FrontendServices \union ConsoleServices,
         NEW m \in DOMAIN service
  PROVE  InOrder(service[m])
<1> DEFINE Asking == {CancelOrder, RequestOrderItemRefund, GetOrderByID, GetTransactionHistory}
           Others == {GetUserOrders, AddOrder, IsEventHasOpenOrders, GetOrdersByEvent,
                      GetOrdersBySession, ChangeOrderItemStatus, AdminCancelOrder,
                      RejectOrderItemRefund, CreateBill, CancelBill, CreateRefundBill,
                      GetBillsByOrder, GetEventTickets, GetSessionTickets, CheckInTicket,
                      AddTicketType, UpdateTicketType, GetEventTicketTypes,
                      DeleteTicketType, UpdateTicketTypesOrder}
<1>1. service[m] \in Asking \union Others
  <2>1. CASE service = OrderService
    BY <2>1 DEF OrderService
  <2>2. CASE service = BillService
    BY <2>2 DEF BillService
  <2>3. CASE service = TicketsService
    BY <2>3 DEF TicketsService
  <2>4. CASE service = OrdersAdminService
    BY <2>4 DEF OrdersAdminService
  <2>5. CASE service = BillAdminService
    BY <2>5 DEF BillAdminService
  <2>6. CASE service = TicketsAdminService
    BY <2>6 DEF TicketsAdminService
  <2> QED
    BY <2>1, <2>2, <2>3, <2>4, <2>5, <2>6 DEF FrontendServices, ConsoleServices
<1>2. ASSUME NEW parsed \in Checks, NEW asked \in OwnerChecks, NEW last \in Stages
      PROVE  CheckedFirst(<<parsed, asked>>) /\ CheckedFirst(<<parsed, asked, last>>)
  <2>1. \A j \in 1..2-1 : j = 1
    OBVIOUS
  <2> QED
    BY <2>1 DEF CheckedFirst
<1>3. /\ {"parse"} \subseteq Checks /\ "transaction" \in Stages
      /\ {"parse", "transaction", "authorize", "authorizeLeniently",
          "readOwn", "readPermitted"} \subseteq Stages
      /\ {"authorize", "authorizeLeniently", "readOwn", "readPermitted"} \subseteq OwnerChecks
      /\ {"token", "parse", "tickets", "sessions", "qrCode", "limit", "read",
          "transaction", "checkIn"} \subseteq PlainStages
      /\ PlainStages \subseteq Stages
  BY DEF Checks, RefusalsOf, OwnerChecks, PlainStages, Stages
<1>4. ASSUME NEW stages \in Asking PROVE InOrder(stages)
  <2>1. stages \in Seq(Stages)
    <3>1. /\ CancelOrder \in Seq(Stages) /\ RequestOrderItemRefund \in Seq(Stages)
          /\ GetOrderByID \in Seq(Stages) /\ GetTransactionHistory \in Seq(Stages)
      BY <1>3, ShortWays
         DEF CancelOrder, RequestOrderItemRefund, GetOrderByID, GetTransactionHistory
    <3> QED
      BY <3>1
  <2>2. CheckedFirst(stages)
    BY <1>2, <1>3 DEF CancelOrder, RequestOrderItemRefund, GetOrderByID, GetTransactionHistory
  <2> QED
    BY <2>1, <2>2 DEF InOrder
<1>5. ASSUME NEW stages \in Others PROVE InOrder(stages)
  <2>1. /\ GetUserOrders \in Seq(PlainStages) /\ AddOrder \in Seq(PlainStages)
        /\ IsEventHasOpenOrders \in Seq(PlainStages)
        /\ GetOrdersByEvent \in Seq(PlainStages) /\ GetOrdersBySession \in Seq(PlainStages)
        /\ ChangeOrderItemStatus \in Seq(PlainStages) /\ AdminCancelOrder \in Seq(PlainStages)
        /\ RejectOrderItemRefund \in Seq(PlainStages)
    BY <1>3, ShortWays
       DEF GetUserOrders, AddOrder, IsEventHasOpenOrders, GetOrdersByEvent, GetOrdersBySession,
           ChangeOrderItemStatus, AdminCancelOrder, RejectOrderItemRefund
  <2>2. /\ CreateBill \in Seq(PlainStages) /\ CancelBill \in Seq(PlainStages)
        /\ CreateRefundBill \in Seq(PlainStages) /\ GetBillsByOrder \in Seq(PlainStages)
    BY <1>3, ShortWays DEF CreateBill, CancelBill, CreateRefundBill, GetBillsByOrder
  <2>3. /\ GetEventTickets \in Seq(PlainStages) /\ GetSessionTickets \in Seq(PlainStages)
        /\ CheckInTicket \in Seq(PlainStages) /\ AddTicketType \in Seq(PlainStages)
        /\ UpdateTicketType \in Seq(PlainStages) /\ GetEventTicketTypes \in Seq(PlainStages)
        /\ DeleteTicketType \in Seq(PlainStages)
        /\ UpdateTicketTypesOrder \in Seq(PlainStages)
    BY <1>3, ShortWays
       DEF GetEventTickets, GetSessionTickets, CheckInTicket, AddTicketType, UpdateTicketType,
           GetEventTicketTypes, DeleteTicketType, UpdateTicketTypesOrder
  <2>4. stages \in Seq(PlainStages)
    BY <2>1, <2>2, <2>3
  <2>5. stages \in Seq(Stages)
    BY <1>3, <2>4
  <2> QED
    BY <2>4, <2>5 DEF InOrder
<1> QED
  BY <1>1, <1>4, <1>5

(* What comes before a handler only checks.                                 *)
LEMMA InterceptorsCheck ==
  Interceptors \in Seq(Checks) /\ <<"annotate">> \in Seq(Checks)
<1>1. {"annotate", "decode", "identify", "startTimer", "validate"} \subseteq Checks
  BY DEF Checks, RefusalsOf
<1> QED
  BY <1>1 DEF Interceptors

LEMMA GatewaysCheck ==
  ASSUME NEW g \in Gateways, NEW m \in DOMAIN g[1]
  PROVE  g[1][m] \in Seq(Checks) /\ m \in DOMAIN g[2]
         /\ g[2] \in FrontendServices \union ConsoleServices
<1> DEFINE Forms == {<<"query">>, <<"body">>, <<"path">>, <<"body", "path">>,
                     <<"path", "query">>, <<"body", "path", "path">>}
<1>1. ASSUME NEW form \in Forms PROVE form \in Seq(Checks)
  <2>1. "query" \in Checks /\ "body" \in Checks /\ "path" \in Checks
    BY DEF Checks, RefusalsOf
  <2>2. /\ <<"query">> \in Seq(Checks) /\ <<"body">> \in Seq(Checks)
        /\ <<"path">> \in Seq(Checks) /\ <<"body", "path">> \in Seq(Checks)
        /\ <<"path", "query">> \in Seq(Checks)
        /\ <<"body", "path", "path">> \in Seq(Checks)
    BY <2>1, ShortWays
  <2> QED
    BY <2>2
<1>2. g[1][m] \in Forms /\ m \in DOMAIN g[2]
  <2>1. CASE g = <<OrderGateway, OrderService>>
    BY <2>1 DEF OrderGateway, OrderService, GetUserOrdersRequest, AddOrderRequest,
                CancelOrderRequest, RequestOrderItemRefundRequest
  <2>2. CASE g = <<OrdersAdminGateway, OrdersAdminService>>
    BY <2>2 DEF OrdersAdminGateway, OrdersAdminService, GetOrdersByEventRequest,
                GetOrdersBySessionRequest, ChangeOrderItemStatusRequest, GetOrderByIDRequest,
                AdminCancelOrderRequest, RejectOrderItemRefundRequest
  <2>3. CASE g = <<BillGateway, BillService>>
    BY <2>3 DEF BillGateway, BillService, GetTransactionHistoryRequest
  <2>4. CASE g = <<BillAdminGateway, BillAdminService>>
    BY <2>4 DEF BillAdminGateway, BillAdminService, CreateBillRequest, CancelBillRequest,
                CreateRefundBillRequest, GetBillsByOrderRequest
  <2>5. CASE g = <<TicketsGateway, TicketsService>>
    BY <2>5 DEF TicketsGateway, TicketsService, GetEventTicketsRequest,
                GetSessionTicketsRequest
  <2>6. CASE g = <<TicketsAdminGateway, TicketsAdminService>>
    BY <2>6 DEF TicketsAdminGateway, TicketsAdminService, CheckInTicketRequest,
                AddTicketTypeRequest, GetEventTicketTypesRequest, DeleteTicketTypeRequest,
                UpdateTicketTypeRequest, UpdateTicketTypesOrderRequest
  <2> QED
    BY <2>1, <2>2, <2>3, <2>4, <2>5, <2>6 DEF Gateways
<1>3. g[2] \in FrontendServices \union ConsoleServices
  BY DEF Gateways, FrontendServices, ConsoleServices
<1> QED
  BY <1>1, <1>2, <1>3

LEMMA RoutesInOrder ==
  ASSUME NEW stages \in Routes(app)
  PROVE  InOrder(stages)
<1>1. {"unknown", "identify", "limit", "parse", "read"} \subseteq PlainStages
      /\ PlainStages \subseteq Stages
  BY DEF PlainStages, Stages, Checks, RefusalsOf
<1>2. InOrder(<<"unknown">>) /\ InOrder(ExportOrders)
  BY <1>1 DEF InOrder, ExportOrders
<1>3. ASSUME NEW service \in FrontendServices \union ConsoleServices, NEW m \in DOMAIN service
      PROVE  InOrder(Interceptors \o service[m])
  BY HandlersInOrder, ChecksInFront, InterceptorsCheck
<1>4. CASE stages \in GrpcRoutes(app)
  <2>1. PICK service \in Registered(app) :
          \E m \in DOMAIN service : stages = Interceptors \o service[m]
    BY <1>4 DEF GrpcRoutes
  <2>2. service \in FrontendServices \union ConsoleServices
    BY DEF Registered
  <2> QED
    BY <1>3, <2>1, <2>2
<1>5. CASE stages \in GatewayRoutes(app)
  <2>1. PICK g \in Gateways :
          \E m \in DOMAIN g[1] :
            stages = <<"annotate">> \o g[1][m] \o Dispatch(app, g[2], m)
    BY <1>5 DEF GatewayRoutes
  <2>2. PICK m \in DOMAIN g[1] :
          stages = (<<"annotate">> \o g[1][m]) \o Dispatch(app, g[2], m)
    BY <2>1
  <2>3. /\ g[1][m] \in Seq(Checks) /\ m \in DOMAIN g[2]
        /\ g[2] \in FrontendServices \union ConsoleServices
    BY GatewaysCheck
  <2>4. InOrder(Dispatch(app, g[2], m))
    BY <1>2, <1>3, <2>3 DEF Dispatch
  <2>5. <<"annotate">> \o g[1][m] \in Seq(Checks)
    BY <2>3, InterceptorsCheck
  <2> QED
    BY <2>2, <2>4, <2>5, ChecksInFront
<1>6. stages \in GatewayRoutes(app) \union GrpcRoutes(app) \union {ExportOrders}
  BY DEF Routes
<1> QED
  BY <1>2, <1>4, <1>5, <1>6

(* A stranger's call is neither at a query nor at a transaction.            *)
LEMMA StrangerIsBefore ==
  ASSUME NEW c \in Calls, CallInv(c), Stranger(c)
  PROVE  Head(route[c]) \in Checks \union OwnerChecks /\ ~Changes(c)
<1>1. Head(route[c]) \in Checks \union OwnerChecks
  BY AheadOfTheLook DEF CallInv, StrangerIsStopped
<1> QED
  BY <1>1 DEF Changes, At, Checks, RefusalsOf, OwnerChecks

-----------------------------------------------------------------------------
(* A refusal, a message or an error before anything was written.            *)
LEMMA AnsweredUnwritten ==
  ASSUME CallsInv, NEW c \in Calls, Open(c), NEW code,
         \/ ~Changes(c) /\ code # "OK"
         \/ ~Changes(c) /\ ~Stranger(c)
         \/ written[c] = 0 /\ code # "OK",
         code # "none", Answered(c, code), UNCHANGED <<ownership, written, durable>>
  PROVE  CallsInv'
<1>1. /\ PerCall /\ CallInv(c) /\ answer[c] = "none" /\ manager' = manager /\ route' = route
      /\ route[c] # <<>>
      /\ answer' = [answer EXCEPT ![c] = code] /\ UNCHANGED <<owner, skipped>>
  BY DEF CallsInv, Open, Answered, ownership
<1>2. durable[c] = 0
  BY <1>1 DEF CallInv, NothingBefore, UnderWay
<1>3. answer'[c] = code /\ StepOf(c)
  BY <1>1 DEF PerCall, StepOf
<1>4. Stranger(c)' => code # "OK" /\ StrangerIsStopped(c)
  <2>1. ASSUME Stranger(c) PROVE code # "OK"
    BY <1>1, <2>1, StrangerIsBefore
  <2> QED
    BY <1>1, <2>1 DEF Stranger, CallInv
<1>5. CallInv(c)'
  BY <1>1, <1>2, <1>3, <1>4
     DEF CallInv, NothingBefore, UnderWay, StrangerIsStopped, Stranger, TrueAnswer, Changes,
         At
<1> QED
  BY <1>3, <1>5, OneCall

LEMMA ProceedKeeps ==
  ASSUME CallsInv, NEW c \in Calls, Open(c), ~Changes(c), Proceed(c),
         UNCHANGED <<owner, written, durable>>,
         \/ skipped' = skipped /\ (owner[c] # "other" \/ Head(route[c]) \in Checks)
         \/ skipped' = [skipped EXCEPT ![c] = TRUE]
  PROVE  CallsInv'
<1>1. /\ PerCall /\ CallInv(c) /\ answer[c] = "none" /\ manager' = manager /\ answer' = answer
      /\ route' = [route EXCEPT ![c] = Tail(@)]
  BY DEF CallsInv, Open, Proceed
<1>2. written[c] = 0 /\ durable[c] = 0
  BY <1>1 DEF CallInv, NothingBefore
<1>3. StepOf(c) /\ route'[c] = Tail(route[c])
  BY <1>1 DEF PerCall, StepOf
<1>4. StrangerIsStopped(c)'
  <2> SUFFICES ASSUME Stranger(c)'
               PROVE  /\ route'[c] \in Seq(Stages) /\ CheckedFirst(route'[c])
                      /\ answer'[c] # "OK" /\ durable'[c] = 0
    BY DEF StrangerIsStopped, CheckedFirst
  <2>1. Stranger(c) /\ Head(route[c]) \in Checks
    BY <1>1 DEF Stranger, PerCall
  <2>2. route[c] \in Seq(Stages) /\ CheckedFirst(route[c])
    BY <1>1, <2>1 DEF CallInv, StrangerIsStopped
  <2> QED
    BY <1>1, <1>2, <1>3, <2>1, <2>2, AheadOfTheLook
<1>5. CallInv(c)'
  BY <1>1, <1>2, <1>3, <1>4
     DEF CallInv, NothingBefore, UnderWay, TrueAnswer, Refusals
<1> QED
  BY <1>3, <1>5, OneCall

LEMMA SendKeeps ==
  ASSUME CallsInv, NEW c \in Calls, Send(c)
  PROVE  CallsInv'
<1>1. /\ PerCall /\ CallInv(c) /\ route[c] = <<>>
      /\ UNCHANGED <<manager, skipped, written, durable, answer>>
  BY DEF CallsInv, Send
<1>2. written[c] = 0 /\ durable[c] = 0 /\ answer[c] = "none"
  BY <1>1 DEF CallInv, NothingBefore, Changes, At
<1>3. PICK stages \in Routes(app) :
        /\ route' = [route EXCEPT ![c] = stages]
        /\ \E o \in Owners(stages) : owner' = [owner EXCEPT ![c] = o]
  BY DEF Send
<1>o. PICK o \in Owners(stages) : owner' = [owner EXCEPT ![c] = o]
  BY <1>3
<1>4. StepOf(c) /\ route'[c] = stages /\ owner'[c] = o
  BY <1>1, <1>3, <1>o DEF PerCall, StepOf
<1>5. o = "other" => stages \in Seq(Stages) /\ CheckedFirst(stages)
  <2>1. InOrder(stages)
    BY RoutesInOrder
  <2>2. ASSUME stages \in Seq(PlainStages) PROVE Owners(stages) = {"nobody"}
    <3>1. \A i \in DOMAIN stages : stages[i] \in PlainStages
      BY <2>2
    <3>2. PlainStages \intersect OwnerChecks = {}
      BY DEF PlainStages, OwnerChecks, Checks, RefusalsOf
    <3> QED
      BY <3>1, <3>2 DEF Owners
  <2> QED
    BY <2>1, <2>2 DEF InOrder
<1>6. StrangerIsStopped(c)'
  BY <1>1, <1>2, <1>4, <1>5 DEF StrangerIsStopped, Stranger, CheckedFirst
<1>7. CallInv(c)'
  BY <1>1, <1>2, <1>6 DEF CallInv, NothingBefore, UnderWay, TrueAnswer, Refusals
<1> QED
  BY <1>4, <1>7, OneCall

LEMMA DeadlineKeeps ==
  ASSUME CallsInv, NEW c \in Calls, Deadline(c)
  PROVE  CallsInv'
<1>1. UNCHANGED <<manager, route, owner, skipped, written, durable, answer>>
  BY DEF Deadline, ownership
<1> QED
  BY <1>1, OtherCall DEF CallsInv, PerCall

-----------------------------------------------------------------------------
(* The stages before a transaction.                                         *)
LEMMA StagesApart ==
  ASSUME NEW c \in Calls,
         In(c, Checks)
           \/ In(c, {"limit"}) \/ In(c, {"authorize"})
           \/ In(c, {"authorize", "authorizeLeniently"})
           \/ In(c, {"authorizeLeniently"}) \/ In(c, {"read"})
           \/ In(c, {"readOwn"}) \/ In(c, {"readOwn", "readPermitted"})
           \/ In(c, {"read", "readOwn", "readPermitted"})
  PROVE  Open(c) /\ ~Changes(c)
BY DEF In, At, Changes, Checks, RefusalsOf

LEMMA CheckKeeps ==
  ASSUME CallsInv, NEW c \in Calls, Check(c)
  PROVE  CallsInv'
<1>1. Open(c) /\ ~Changes(c)
  BY StagesApart DEF Check
<1>2. Head(route[c]) \in Checks
  BY DEF Check, In, At
<1>3. ASSUME NEW code \in RefusalsOf[Head(route[c])] PROVE code \notin {"none", "OK"}
  BY <1>2, <1>3 DEF Checks, RefusalsOf
<1>4. UNCHANGED <<ownership, written, durable>>
  BY DEF Check, NothingWritten
<1>5. CASE Proceed(c)
  BY <1>1, <1>2, <1>4, <1>5, ProceedKeeps DEF ownership
<1>6. ASSUME NEW code \in RefusalsOf[Head(route[c])], Answered(c, code)
      PROVE  CallsInv'
  BY <1>1, <1>3, <1>4, <1>6, AnsweredUnwritten
<1> QED
  BY <1>5, <1>6 DEF Check

LEMMA LimitKeeps ==
  ASSUME CallsInv, NEW c \in Calls, Limit(c)
  PROVE  CallsInv'
<1>1. Open(c) /\ ~Changes(c)
  BY StagesApart DEF Limit
<1>2. UNCHANGED <<ownership, written, durable>>
  BY DEF Limit, NothingWritten
<1>3. \/ Proceed(c)
      \/ \E code \in {"ResourceExhausted", "Internal"} : Answered(c, code)
  BY DEF Limit
<1>4. ~Stranger(c)
  <2>1. Head(route[c]) = "limit"
    BY DEF Limit, In, At
  <2> QED
    BY <2>1, StrangerIsBefore DEF CallsInv, Checks, RefusalsOf, OwnerChecks
<1>5. CASE Proceed(c)
  <2>1. \/ owner[c] # "other"
        \/ skipped[c] /\ skipped' = [skipped EXCEPT ![c] = TRUE]
    BY <1>2, <1>4 DEF Stranger, ownership, CallsInv, PerCall
  <2> QED
    BY <1>1, <1>2, <1>5, <2>1, ProceedKeeps DEF ownership
<1>6. CASE \E code \in {"ResourceExhausted", "Internal"} : Answered(c, code)
  BY <1>1, <1>2, <1>6, AnsweredUnwritten
<1> QED
  BY <1>3, <1>5, <1>6

LEMMA AuthorizeKeeps ==
  ASSUME CallsInv, NEW c \in Calls, Authorize(c) \/ AuthorizeFails(c)
  PROVE  CallsInv'
<1>1. Open(c) /\ ~Changes(c)
  BY StagesApart DEF Authorize, AuthorizeFails
<1>2. UNCHANGED <<owner, written, durable>>
  BY DEF Authorize, AuthorizeFails, NothingWritten, ownership
<1>3. \/ /\ Proceed(c)
         /\ \/ skipped' = skipped /\ owner[c] # "other"
            \/ skipped' = [skipped EXCEPT ![c] = TRUE]
      \/ Answered(c, "PermissionDenied") /\ UNCHANGED ownership
  BY DEF Authorize, AuthorizeFails, ownership
<1> QED
  BY <1>1, <1>2, <1>3, ProceedKeeps, AnsweredUnwritten

LEMMA ReadKeeps ==
  ASSUME CallsInv, NEW c \in Calls,
         Read(c) \/ ReadOwn(c) \/ ReadFails(c)
  PROVE  CallsInv'
<1>1. Open(c) /\ ~Changes(c)
  BY StagesApart DEF Read, ReadOwn, ReadFails
<1>2. UNCHANGED <<ownership, written, durable>>
  BY DEF Read, ReadOwn, ReadFails, NothingWritten
<1>3. CASE Read(c)
  <2>1. Head(route[c]) = "read"
    BY <1>3 DEF Read, In, At
  <2>2. ~Stranger(c)
    BY <2>1, StrangerIsBefore DEF CallsInv, Checks, RefusalsOf, OwnerChecks
  <2> QED
    BY <1>1, <1>2, <1>3, <2>2, AnsweredUnwritten DEF Read
<1>4. CASE ReadFails(c)
  BY <1>1, <1>2, <1>4, AnsweredUnwritten DEF ReadFails
<1>5. CASE ReadOwn(c)
  <2>1. CASE owner[c] = "caller"
    <3>1. Answered(c, "OK") /\ ~Stranger(c)
      BY <1>5, <2>1 DEF ReadOwn, Stranger
    <3> QED
      BY <1>1, <1>2, <3>1, AnsweredUnwritten
  <2>2. CASE owner[c] # "caller"
    <3>1. \E code \in {"NotFound", "Internal"} : Answered(c, code)
      BY <1>5, <2>2 DEF ReadOwn
    <3> QED
      BY <1>1, <1>2, <3>1, AnsweredUnwritten
  <2> QED
    BY <2>1, <2>2
<1> QED
  BY <1>3, <1>4, <1>5

-----------------------------------------------------------------------------
LEMMA TransactionOpen ==
  ASSUME NEW c \in Calls, InTransaction(c)
  PROVE  Open(c) /\ Changes(c)
BY DEF InTransaction, In, At, Changes

LEMMA WriteKeeps ==
  ASSUME CallsInv, NEW c \in Calls, Write(c) \/ Conflict(c)
  PROVE  CallsInv'
<1>1. Open(c) /\ Changes(c)
  BY TransactionOpen DEF Write, Conflict
<1>2. /\ PerCall /\ CallInv(c) /\ answer[c] = "none" /\ route[c] # <<>>
      /\ UNCHANGED <<manager, route, owner, skipped, answer>>
  BY <1>1 DEF CallsInv, Open, Write, Conflict, ownership
<1>3. ~Stranger(c) /\ durable[c] = IF manager = "noop" THEN written[c] ELSE 0
  BY <1>1, <1>2, StrangerIsBefore DEF CallInv, UnderWay
<1>4. /\ StepOf(c)
      /\ durable'[c] = IF manager = "noop" THEN written'[c] ELSE 0
  <2>1. CASE Write(c)
    BY <1>2, <1>3, <2>1 DEF Write, PerCall, StepOf
  <2>2. CASE Conflict(c)
    BY <1>2, <1>3, <2>2 DEF Conflict, PerCall, StepOf
  <2> QED
    BY <2>1, <2>2 DEF Write, Conflict
<1>5. CallInv(c)'
  BY <1>1, <1>2, <1>3, <1>4
     DEF CallInv, NothingBefore, UnderWay, StrangerIsStopped, Stranger, TrueAnswer, Changes,
         At, Refusals
<1> QED
  BY <1>4, <1>5, OneCall

LEMMA CommitKeeps ==
  ASSUME CallsInv, NEW c \in Calls,
         Commits(c) \/ TransactionFails(c)
  PROVE  CallsInv'
<1>1. Open(c) /\ Changes(c)
  BY TransactionOpen
     DEF Commits, Commit, CommitInDoubt, TransactionFails
<1>2. /\ PerCall /\ CallInv(c) /\ answer[c] = "none" /\ route[c] # <<>>
      /\ UNCHANGED <<manager, route, owner, skipped>>
  BY <1>1 DEF CallsInv, Open, Commits, Commit, CommitInDoubt,
              TransactionFails, Answered, ownership
<1>3. manager = "mongo" => durable[c] = 0
  BY <1>2 DEF CallInv, UnderWay
<1>4. ~Stranger(c)
  BY <1>1, <1>2, StrangerIsBefore
<1>5. \E code \in {"OK", "Notice", "Internal"} :
        /\ answer' = [answer EXCEPT ![c] = code]
        /\ code = "OK" => durable' = [durable EXCEPT ![c] = Writes]
  BY DEF Commits, Commit, CommitInDoubt, CommitError,
         TransactionFails, Answered
<1>6. /\ durable' = durable \/ durable' = [durable EXCEPT ![c] = Writes]
      /\ written' = written \/ written' = [written EXCEPT ![c] = 0]
  BY DEF Commits, Commit, CommitInDoubt, TransactionFails
<1>7. StepOf(c)
  BY <1>2, <1>5, <1>6 DEF PerCall, StepOf
<1>8. /\ answer'[c] \in {"OK", "Notice", "Internal"}
      /\ answer'[c] = "OK" => durable'[c] = Writes
      /\ durable'[c] \in {durable[c], Writes}
  BY <1>2, <1>5, <1>6 DEF PerCall
<1>9. CallInv(c)'
  BY <1>1, <1>2, <1>3, <1>4, <1>8
     DEF CallInv, NothingBefore, UnderWay, StrangerIsStopped, Stranger, TrueAnswer, Changes,
         At, Refusals
<1> QED
  BY <1>7, <1>9, OneCall

LEMMA CheckInRefusedKeeps ==
  ASSUME CallsInv, NEW c \in Calls, CheckInRefused(c)
  PROVE  CallsInv'
<1>1. Open(c) /\ written[c] = 0
  BY DEF CheckInRefused, In
<1>2. UNCHANGED <<ownership, written, durable>>
  BY DEF CheckInRefused, NothingWritten
<1>3. \E code \in {"NotFound", "Notice"} : Answered(c, code)
  BY DEF CheckInRefused
<1> QED
  BY <1>1, <1>2, <1>3, AnsweredUnwritten

(* The calls under way lose their connection, and only commits that were    *)
(* being sent may show.                                                     *)
LEMMA ExitKeeps ==
  ASSUME CallsInv, Exit
  PROVE  CallsInv'
<1>1. /\ UNCHANGED <<manager, route, owner, skipped, written>>
      /\ answer' = [c \in Calls |-> IF Open(c) THEN "Unavailable" ELSE answer[c]]
      /\ PerCall
  BY DEF Exit, CallsInv, ownership
<1>2. PICK done \in SUBSET {c \in Calls : InTransaction(c) /\ written[c] = Writes} :
        durable' = [c \in Calls |-> IF c \in done THEN Writes ELSE durable[c]]
  BY DEF Exit
<1>3. PerCall'
  BY <1>1, <1>2 DEF PerCall
<1>4. ASSUME NEW c \in Calls PROVE CallInv(c)'
  <2>1. CallInv(c)
    BY DEF CallsInv
  <2>2. CASE ~Open(c)
    <3>1. c \notin done
      BY <2>2, TransactionOpen
    <3> QED
      BY <1>1, <1>2, <2>1, <2>2, <3>1, OtherCall
  <2>3. CASE Open(c)
    <3>1. answer'[c] = "Unavailable" /\ answer[c] = "none" /\ route[c] # <<>>
      BY <1>1, <2>3 DEF Open
    <3>2. /\ durable'[c] \in {durable[c], Writes}
          /\ ~Changes(c) => durable'[c] = durable[c]
      BY <1>2, TransactionOpen
    <3>3. Stranger(c) => ~Changes(c)
      BY <2>1, StrangerIsBefore
    <3> QED
      BY <1>1, <2>1, <3>1, <3>2, <3>3
         DEF CallInv, NothingBefore, UnderWay, StrangerIsStopped, Stranger, TrueAnswer, Changes,
             At, Refusals
  <2> QED
    BY <2>2, <2>3
<1> QED
  BY <1>3, <1>4 DEF CallsInv

LEMMA StartKeeps ==
  ASSUME CallsInv, Start \/ UNCHANGED vars
  PROVE  CallsInv'
<1>1. UNCHANGED <<manager, route, owner, skipped, written, durable, answer>>
  BY DEF Start, vars, ownership
<1> QED
  BY <1>1, OtherCall DEF CallsInv, PerCall

LEMMA CallsStep == CallsInv /\ [Next]_vars => CallsInv'
  BY SendKeeps, CheckKeeps, LimitKeeps, DeadlineKeeps, AuthorizeKeeps, ReadKeeps, WriteKeeps,
     CommitKeeps, CheckInRefusedKeeps, ExitKeeps, StartKeeps
  DEF Next, Succeeds, Fails

THEOREM CallsInOrder == Spec => []CallsInv
  BY CallsBegin, CallsStep, PTL DEF Spec

(* Whatever the deadline, the driver's retries, a commit in doubt and the   *)
(* end of the process do in between: a refusal has changed nothing, a       *)
(* success is on record, and with MongoDB nothing is left half done.        *)
THEOREM CallersAreToldTheTruth == Spec => []AnswerTellsTruth
<1>1. CallsInv => AnswerTellsTruth
  BY DEF CallsInv, CallInv, TrueAnswer, AnswerTellsTruth
<1> QED
  BY <1>1, CallsInOrder, PTL

(* Whatever fails on the way, no call about another's order is answered     *)
(* with a success or leaves anything on record, unless it is a refund       *)
(* request that went on after its look at the owner had failed.             *)
THEOREM ForeignOrdersAreSafe == Spec => []OwnOrdersOnly
<1>1. CallsInv => OwnOrdersOnly
  BY DEF CallsInv, CallInv, StrangerIsStopped, Stranger, OwnOrdersOnly
<1> QED
  BY <1>1, CallsInOrder, PTL

-----------------------------------------------------------------------------
(* The listings of orders, read while new ones arrive.                      *)

LEMMA LeastNumber ==
  ASSUME NEW T \in SUBSET Nat, T # {}
  PROVE  \E n \in T : \A m \in T : n <= m
<1> DEFINE R == OpToRel(<, Nat)
<1>1. IsWellFoundedOn(R, Nat)
  BY NatLessThanWellFounded
<1>2. \A m, n \in Nat : <<m, n>> \in R <=> m < n
  BY DEF OpToRel
<1> HIDE DEF R
<1>3. PICK n \in T : \A m \in T : ~(<<m, n>> \in R)
  BY <1>1, WFMin
<1>4. ASSUME NEW m \in T PROVE n <= m
  <2>1. m \in Nat /\ n \in Nat /\ ~(m < n)
    BY <1>2, <1>3
  <2> QED
    BY <2>1
<1> QED
  BY <1>4

LEMMA Numbers ==
  /\ Orders \subseteq Nat
  /\ PageSize \in Nat /\ PageSize > 0 /\ Second \in Nat /\ Second > 0
<1>1. PageSize \in Nat \ {0} /\ Second \in Nat \ {0}
  BY ListingAssumption
<1> QED
  BY <1>1, ListingAssumption

(* Orders that show have a date and an id, by which they are in line.       *)
Dated(S) == S \subseteq Nat /\ \A o \in S : created[o] \in Nat

LEMMA InLine ==
  ASSUME NEW S, Dated(S), NEW a \in S, NEW b \in S, NEW c \in S
  PROVE  /\ ~Precedes(a, a)
         /\ a = b \/ Precedes(a, b) \/ Precedes(b, a)
         /\ ~(Precedes(a, b) /\ Precedes(b, a))
         /\ Precedes(a, b) /\ Precedes(b, c) => Precedes(a, c)
BY DEF Dated, Precedes

(* The last of a page, which is the only one.                               *)
IsLast(l, page) == l \in page /\ \A p \in page \ {l} : Precedes(p, l)

LEMMA OneLast ==
  ASSUME NEW page, Dated(page), NEW l, IsLast(l, page)
  PROVE  LastOf(page) = l
<1>1. /\ LastOf(page) \in page
      /\ \A p \in page \ {LastOf(page)} : Precedes(p, LastOf(page))
  BY Zenon DEF LastOf, IsLast
<1>2. l \in page /\ \A p \in page \ {l} : Precedes(p, l)
  BY DEF IsLast
<1>3. ASSUME LastOf(page) # l PROVE FALSE
  BY <1>1, <1>2, <1>3, InLine
<1> QED
  BY <1>3

LEMMA SomeLast ==
  ASSUME NEW page, Dated(page), page # {}
  PROVE  \E l : IsLast(l, page)
<1> DEFINE dates == {created[o] : o \in page}
<1>1. dates \in SUBSET Nat /\ dates # {}
  BY DEF Dated
<1>2. PICK d \in dates : \A e \in dates : d <= e
  BY <1>1, LeastNumber
<1> DEFINE oldest == {o \in page : created[o] = d}
<1>3. oldest \in SUBSET Nat /\ oldest # {}
  BY DEF Dated
<1>4. PICK l \in oldest : \A o \in oldest : l <= o
  BY <1>3, LeastNumber
<1>5. ASSUME NEW p \in page \ {l} PROVE Precedes(p, l)
  <2>1. created[p] \in dates /\ created[p] \in Nat /\ p \in Nat /\ l \in Nat /\ created[l] = d
        /\ d \in Nat
    BY DEF Dated
  <2>2. d <= created[p]
    BY <1>2, <2>1
  <2>3. CASE created[p] = d
    <3>1. l <= p /\ l # p
      BY <1>4, <2>3
    <3> QED
      BY <2>1, <2>3, <3>1 DEF Precedes
  <2>4. CASE created[p] # d
    BY <2>1, <2>2, <2>4 DEF Precedes
  <2> QED
    BY <2>3, <2>4
<1> QED
  BY <1>4, <1>5 DEF IsLast

LEMMA LastIsLast ==
  ASSUME NEW page, Dated(page), page # {}
  PROVE  IsLast(LastOf(page), page)
BY OneLast, SomeLast

-----------------------------------------------------------------------------
(* A first page is the head of the line, and a full one unless it is all.   *)
Before(S, o) == {p \in S : Precedes(p, o)}

LEMMA BeforeIsFinite ==
  ASSUME NEW S, IsFiniteSet(S), NEW o
  PROVE  /\ IsFiniteSet(Before(S, o)) /\ Cardinality(Before(S, o)) \in Nat
         /\ Before(S, o) \subseteq S
BY FS_Subset, FS_CardinalityType DEF Before

LEMMA BeforeGrows ==
  ASSUME NEW S, IsFiniteSet(S), Dated(S), NEW a \in S, NEW b \in S, Precedes(a, b)
  PROVE  Cardinality(Before(S, a)) < Cardinality(Before(S, b))
<1>1. Before(S, a) \subseteq Before(S, b)
  BY InLine DEF Before
<1>2. a \in Before(S, b) /\ a \notin Before(S, a)
  BY InLine DEF Before
<1>3. Before(S, a) # Before(S, b)
  BY <1>2
<1>4. /\ Cardinality(Before(S, a)) <= Cardinality(Before(S, b))
      /\ Cardinality(Before(S, b)) = Cardinality(Before(S, a)) => Before(S, b) = Before(S, a)
  BY <1>1, BeforeIsFinite, FS_Subset
<1> QED
  BY <1>3, <1>4, BeforeIsFinite

LEMMA HeadOfLine ==
  ASSUME NEW S, IsFiniteSet(S), Dated(S)
  PROVE  /\ FirstPage(S) \subseteq S
         /\ \A q \in FirstPage(S) : \A o \in S \ FirstPage(S) : Precedes(q, o)
         /\ S \ FirstPage(S) # {} => Cardinality(FirstPage(S)) = PageSize
<1> DEFINE page == FirstPage(S)
<1>0. PageSize \in Nat /\ PageSize > 0
  BY Numbers
<1>1. page \subseteq S /\ \A o \in S : o \in page <=> Cardinality(Before(S, o)) < PageSize
  BY DEF FirstPage, Before
<1> HIDE DEF page
<1>2. \A o \in S : Cardinality(Before(S, o)) \in Nat
  BY BeforeIsFinite
<1>3. ASSUME NEW q \in S, NEW o \in S, Precedes(q, o), o \in page PROVE q \in page
  BY <1>0, <1>1, <1>2, <1>3, BeforeGrows
<1>4. ASSUME NEW q \in page, NEW o \in S \ page PROVE Precedes(q, o)
  BY <1>1, <1>3, InLine
<1>5. ASSUME S \ page # {} PROVE Cardinality(page) = PageSize
  <2> DEFINE ranks == {Cardinality(Before(S, o)) : o \in S \ page}
  <2>1. ranks \in SUBSET Nat /\ ranks # {}
    BY <1>2, <1>5
  <2>2. PICK n \in ranks : \A m \in ranks : n <= m
    BY <2>1, LeastNumber
  <2>3. PICK o \in S \ page : n = Cardinality(Before(S, o))
    BY <2>2
  <2>4. ASSUME NEW p \in S, Precedes(p, o) PROVE p \in page
    <3>1. SUFFICES ASSUME p \notin page PROVE FALSE
      OBVIOUS
    <3>2. Cardinality(Before(S, p)) < Cardinality(Before(S, o))
      BY <2>3, <2>4, BeforeGrows
    <3>3. Cardinality(Before(S, p)) \in ranks
      BY <3>1
    <3> HIDE DEF ranks
    <3> QED
      BY <1>2, <2>1, <2>2, <2>3, <3>2, <3>3
  <2>5. Before(S, o) = page
    BY <1>1, <1>4, <2>4 DEF Before
  <2>6. Cardinality(page) >= PageSize /\ IsFiniteSet(page) /\ Cardinality(page) \in Nat
    BY <1>0, <1>1, <1>2, <2>5, BeforeIsFinite
  <2>7. page # {}
    BY <1>0, <2>6, FS_EmptySet
  <2>8. PICK l : IsLast(l, page)
    BY <1>1, <2>7, SomeLast DEF Dated
  <2>9. l \in page /\ l \in S
    BY <1>1, <2>8 DEF IsLast
  <2>10. Before(S, l) = page \ {l}
    BY <1>1, <1>3, <2>8, <2>9, InLine DEF IsLast, Before
  <2>11. Cardinality(page \ {l}) = Cardinality(page) - 1
    BY <2>6, <2>9, FS_RemoveElement
  <2>12. Cardinality(page \ {l}) < PageSize
    BY <1>1, <2>9, <2>10
  <2> QED
    BY <1>0, <2>6, <2>11, <2>12
<1> QED
  BY <1>1, <1>4, <1>5 DEF page

-----------------------------------------------------------------------------
(* What both listings rest on: finitely many orders show, those that do     *)
(* have a date, and a client is shown no others.                            *)
Listed ==
  /\ clock \in Nat
  /\ created = [o \in Orders |-> created[o]]
  /\ \A o \in Orders : created[o] \in Nat \union {NotYet}
  /\ stored \subseteq Orders /\ IsFiniteSet(stored) /\ \A o \in stored : created[o] \in Nat
  /\ pages \in Seq(SUBSET stored)
  /\ initial \subseteq stored
  /\ phase \in {"idle", "listing", "counted", "done", "refused"}
  /\ phase = "idle" => pages = <<>>
  /\ total \in Nat /\ raced \in BOOLEAN

LEMMA StoredIsDated ==
  ASSUME Listed
  PROVE  Dated(stored) /\ \A S \in SUBSET stored : Dated(S) /\ IsFiniteSet(S)
BY FS_Subset, Numbers DEF Listed, Dated

LEMMA PagesGrow ==
  ASSUME Listed, NEW page \in SUBSET stored, ShowPage(page), stored' = stored
  PROVE  /\ pages' \in Seq(SUBSET stored') /\ Len(pages') = Len(pages) + 1
         /\ Len(pages) \in Nat
         /\ DOMAIN pages' = 1 .. Len(pages) + 1 /\ DOMAIN pages = 1 .. Len(pages)
         /\ pages'[Len(pages) + 1] = page
         /\ \A i \in DOMAIN pages : pages'[i] = pages[i]
         /\ Shown' = Shown \union page
<1>1. /\ pages \in Seq(SUBSET stored) /\ pages' = Append(pages, page)
  BY DEF Listed, ShowPage
<1>2. /\ pages' \in Seq(SUBSET stored') /\ Len(pages') = Len(pages) + 1
      /\ Len(pages) \in Nat
      /\ DOMAIN pages' = 1 .. Len(pages) + 1 /\ DOMAIN pages = 1 .. Len(pages)
      /\ pages'[Len(pages) + 1] = page
      /\ \A i \in DOMAIN pages : pages'[i] = pages[i]
  BY <1>1
<1>3. Shown' = Shown \union page
  <2>1. ASSUME NEW o \in Shown' PROVE o \in Shown \union page
    <3>1. PICK i \in DOMAIN pages' : o \in pages'[i]
      BY DEF Shown
    <3>2. i \in DOMAIN pages \/ i = Len(pages) + 1
      BY <1>2
    <3> QED
      BY <1>2, <3>1, <3>2 DEF Shown
  <2>2. ASSUME NEW o \in Shown \union page PROVE o \in Shown'
    <3>1. CASE o \in page
      BY <1>2, <3>1 DEF Shown
    <3>2. CASE o \in Shown
      <4>1. PICK i \in DOMAIN pages : o \in pages[i]
        BY <3>2 DEF Shown
      <4>2. i \in DOMAIN pages' /\ o \in pages'[i]
        BY <1>2, <4>1
      <4> QED
        BY <4>2 DEF Shown
    <3> QED
      BY <3>1, <3>2
  <2> QED
    BY <2>1, <2>2
<1> QED
  BY <1>2, <1>3

LEMMA PagesAreStored == Listed => Shown \subseteq stored
BY DEF Listed, Shown

-----------------------------------------------------------------------------
(* The cursor is the last order shown, and what a client has not been shown *)
(* of the orders it began with is after the cursor or was skipped: it is of *)
(* the second in which a page ended.                                        *)
Skipped(o) ==
  \E i \in DOMAIN pages : \E l :
    IsLast(l, pages[i]) /\ created[l] \div Second = created[o] \div Second

CursorAtEnd ==
  /\ token # NoToken =>
       /\ token.id \in stored /\ token.ts = created[token.id] \div Second
       /\ \A a \in Shown : a = token.id \/ Precedes(a, token.id)
  /\ phase = "listing" => token # NoToken

LeftIsAhead ==
  phase \in {"listing", "done"} =>
    \A o \in initial \ Shown : Skipped(o) \/ (phase = "listing" /\ o \in After(token))

CursorInv ==
  listing = "cursor" =>
    /\ phase # "counted" /\ (phase = "idle" => token = NoToken)
    /\ CursorGoesDown /\ CursorAtEnd /\ LeftIsAhead

(* A query finds only orders behind the cursor.                             *)
LEMMA AfterIsBehind ==
  ASSUME Listed, CursorAtEnd, token # NoToken,
         NEW b \in After(token),
         NEW a \in Shown
  PROVE  Precedes(a, b)
<1>1. /\ token.id \in stored /\ token.ts = created[token.id] \div Second
      /\ a = token.id \/ Precedes(a, token.id)
  BY DEF CursorAtEnd
<1>2. /\ b \in stored /\ a \in stored /\ Dated(stored)
      /\ created[b] < token.ts * Second \/ (created[b] = token.ts * Second /\ b < token.id)
  BY StoredIsDated, PagesAreStored DEF After
<1> DEFINE t == token.id
           d == created[t]
<1>3. t \in Nat /\ d \in Nat /\ b \in Nat /\ created[b] \in Nat /\ Second \in Nat /\ Second > 0
  BY <1>1, <1>2, Numbers DEF Dated
<1>4. (d \div Second) * Second <= d /\ (d \div Second) * Second \in Nat
  <2> HIDE DEF d
  <2> QED
    BY <1>3
<1>5. Precedes(t, b)
  BY <1>1, <1>2, <1>3, <1>4 DEF Precedes
<1> QED
  BY <1>1, <1>2, <1>5, InLine

(* What is behind the last order of a page but not found from there on is   *)
(* of its second.                                                           *)
LEMMA NotAfterIsSameSecond ==
  ASSUME Listed, NEW l \in stored, NEW o \in stored, Precedes(l, o),
         o \notin After(TokenOf(l))
  PROVE  created[l] \div Second = created[o] \div Second
<1> DEFINE c == created[l]
           d == created[o]
           s == c \div Second
<1>1. c \in Nat /\ d \in Nat /\ d <= c /\ Second \in Nat /\ Second > 0
  <2>1. c \in Nat /\ d \in Nat
    BY DEF Listed
  <2>2. c > d \/ c = d
    BY DEF Precedes
  <2>3. Second \in Nat /\ Second > 0
    BY Numbers
  <2> HIDE DEF c, d
  <2> QED
    BY <2>1, <2>2, <2>3
<1>2. ~(d < s * Second)
  BY DEF After, TokenOf
<1>3. s \in Nat /\ c = (s * Second) + (c % Second) /\ (c % Second) \in 0 .. Second - 1
  <2> HIDE DEF c
  <2> QED
    BY <1>1
<1>4. d = (s * Second) + (d - (s * Second)) /\ d - (s * Second) \in 0 .. Second - 1
  <2> DEFINE x == s * Second
             y == c % Second
  <2>1. x \in Nat /\ y \in 0 .. Second - 1 /\ c = x + y /\ ~(d < x)
    BY <1>1, <1>2, <1>3
  <2> HIDE DEF x, y, c, d, s
  <2>2. d = x + (d - x) /\ d - x \in 0 .. Second - 1
    BY <1>1, <2>1
  <2> QED
    BY <2>2 DEF x
<1> HIDE DEF c, d, s
<1>5. \A q, r, n \in Nat : n > 0 /\ r < n => ((q * n) + r) \div n = q
  OBVIOUS
<1>6. d \div Second = s
  <2> DEFINE r == d - (s * Second)
  <2>1. r \in Nat /\ r < Second /\ d = (s * Second) + r
    BY <1>1, <1>4
  <2> HIDE DEF r
  <2> QED
    BY <1>1, <1>3, <1>5, <2>1
<1> QED
  BY <1>6 DEF s, c, d

(* What the listing knows outlives the arrival of orders.                   *)
LEMMA CursorSurvives ==
  ASSUME Listed, CursorInv, stored \subseteq stored',
         \A o \in stored : created'[o] = created[o],
         UNCHANGED <<listing, phase, token, pages, initial>>
  PROVE  CursorInv'
<1> SUFFICES ASSUME listing = "cursor"
             PROVE  /\ phase # "counted" /\ (phase = "idle" => token = NoToken)
                    /\ CursorGoesDown' /\ CursorAtEnd' /\ LeftIsAhead'
  BY DEF CursorInv
<1>1. CursorGoesDown /\ CursorAtEnd /\ LeftIsAhead
      /\ phase # "counted" /\ (phase = "idle" => token = NoToken)
  BY DEF CursorInv
<1>2. /\ pages \in Seq(SUBSET stored) /\ Shown \subseteq stored /\ Shown' = Shown
      /\ initial \subseteq stored
  BY PagesAreStored DEF Listed, Shown
<1>3. \A a, b \in stored : Precedes(a, b)' <=> Precedes(a, b)
  BY DEF Precedes
<1>4. CursorGoesDown'
  BY <1>1, <1>2, <1>3 DEF CursorGoesDown
<1>5. CursorAtEnd'
  BY <1>1, <1>2, <1>3 DEF CursorAtEnd, NoToken
<1>6. \A o \in stored : Skipped(o) => Skipped(o)'
  <2> SUFFICES ASSUME NEW o \in stored, Skipped(o) PROVE Skipped(o)'
    OBVIOUS
  <2>1. PICK i \in DOMAIN pages : \E l :
          IsLast(l, pages[i]) /\ created[l] \div Second = created[o] \div Second
    BY DEF Skipped
  <2>2. PICK l : IsLast(l, pages[i]) /\ created[l] \div Second = created[o] \div Second
    BY <2>1
  <2>3. pages[i] \subseteq stored /\ l \in stored
    BY <1>2, <2>2 DEF IsLast
  <2>4. IsLast(l, pages[i])'
    BY <1>3, <2>2, <2>3 DEF IsLast
  <2>5. created'[l] = created[l] /\ created'[o] = created[o]
    BY <2>3
  <2> QED
    BY <2>2, <2>4, <2>5 DEF Skipped
<1>7. \A o \in stored : o \in After(token) => o \in After(token)'
  BY DEF After, NoToken
<1>8. LeftIsAhead'
  BY <1>1, <1>2, <1>6, <1>7 DEF LeftIsAhead
<1> QED
  BY <1>1, <1>4, <1>5, <1>8

(* A page that ends in a second skips what is left of it.                   *)
LEMMA PageSkips ==
  ASSUME created' = created, NEW o, NEW page, NEW l, IsLast(l, page),
         created[l] \div Second = created[o] \div Second,
         NEW i, i \in DOMAIN pages', pages'[i] = page
  PROVE  Skipped(o)'
<1>1. IsLast(l, pages[i])'
  BY DEF IsLast, Precedes
<1> QED
  BY <1>1 DEF Skipped

(* A page of the cursor: nothing is left between it and what came before,   *)
(* and what is left behind it is found from its last order or skipped.      *)
LEMMA GetOrdersByUserKeeps ==
  ASSUME Listed, CursorInv, GetOrdersByUser
  PROVE  CursorInv'
<1> DEFINE found == After(token)
           page == FirstPage(found)
           n == Len(pages) + 1
<1>1. /\ listing = "cursor" /\ listing' = listing /\ phase \in {"idle", "listing"}
      /\ CursorGoesDown /\ CursorAtEnd /\ LeftIsAhead
      /\ phase = "idle" => token = NoToken
      /\ created' = created /\ stored' = stored /\ Begin /\ ShowPage(page)
      /\ \/ /\ Cardinality(page) = PageSize
            /\ phase' = "listing" /\ token' = TokenOf(LastOf(page))
         \/ /\ Cardinality(page) # PageSize /\ phase' = "done" /\ token' = NoToken
  BY DEF GetOrdersByUser, CursorInv
<1>2. found \in SUBSET stored /\ Dated(found) /\ IsFiniteSet(found) /\ Dated(stored)
  BY StoredIsDated DEF After
<1> HIDE DEF found
<1>3. /\ page \subseteq found
      /\ \A q \in page : \A o \in found \ page : Precedes(q, o)
      /\ found \ page # {} => Cardinality(page) = PageSize
  BY <1>2, HeadOfLine
<1> HIDE DEF page
<1>4. page \in SUBSET stored /\ Dated(page) /\ IsFiniteSet(page)
  BY <1>2, <1>3, StoredIsDated
<1>5. /\ n \in Nat /\ n >= 1 /\ DOMAIN pages = 1 .. n - 1 /\ DOMAIN pages' = 1 .. n
      /\ pages'[n] = page /\ \A i \in DOMAIN pages : pages'[i] = pages[i]
      /\ Shown' = Shown \union page /\ Shown \subseteq stored
      /\ \A i \in DOMAIN pages : pages[i] \subseteq Shown
  BY <1>1, <1>4, PagesGrow, PagesAreStored DEF Shown
<1> HIDE DEF n
<1>6. \A a, b : Precedes(a, b)' <=> Precedes(a, b)
  BY <1>1 DEF Precedes
<1>7. \A a \in Shown, b \in page : Precedes(a, b)
  <2> SUFFICES ASSUME NEW a \in Shown, NEW b \in page PROVE Precedes(a, b)
    OBVIOUS
  <2>1. token # NoToken
    <3>1. phase # "idle"
      BY DEF Listed, Shown
    <3> QED
      BY <1>1, <3>1 DEF CursorAtEnd
  <2>2. b \in After(token)
    BY <1>3 DEF found
  <2> QED
    BY <1>1, <2>1, <2>2, AfterIsBehind
<1>8. CursorGoesDown'
  <2> SUFFICES ASSUME NEW i \in 1 .. n, NEW j \in 1 .. n, i < j,
                      NEW a \in pages'[i], NEW b \in pages'[j]
               PROVE  Precedes(a, b)
    BY <1>5, <1>6 DEF CursorGoesDown
  <2>1. i \in DOMAIN pages /\ pages'[i] = pages[i]
    BY <1>5
  <2>2. CASE j = n
    BY <1>5, <1>7, <2>1, <2>2
  <2>3. CASE j # n
    <3>1. j \in DOMAIN pages /\ pages'[j] = pages[j]
      BY <1>5, <2>3
    <3> QED
      BY <1>1, <2>1, <3>1 DEF CursorGoesDown
  <2> QED
    BY <2>2, <2>3
<1>9. CASE Cardinality(page) = PageSize
  <2> DEFINE l == LastOf(page)
  <2>1. page # {}
    BY <1>9, Numbers, FS_EmptySet
  <2>2. IsLast(l, page) /\ l \in page /\ l \in stored
    BY <1>4, <2>1, LastIsLast DEF IsLast
  <2>3. token' = TokenOf(l) /\ phase' = "listing"
    BY <1>1, <1>9
  <2> HIDE DEF l
  <2>4. token' # NoToken /\ token'.id = l /\ token'.ts = created[l] \div Second
    <3>1. l \in Nat
      BY <1>2, <2>2 DEF Dated
    <3>2. /\ TokenOf(l).id = l /\ TokenOf(l).ts = created[l] \div Second
          /\ NoToken.id = -1
      BY DEF TokenOf, NoToken, NotYet
    <3>3. l # -1
      BY <3>1
    <3> QED
      BY <2>3, <3>2, <3>3
  <2>5. \A a \in Shown \union page : a = l \/ Precedes(a, l)
    BY <1>7, <2>2 DEF IsLast
  <2>6. CursorAtEnd'
    BY <1>1, <1>5, <1>6, <2>2, <2>4, <2>5 DEF CursorAtEnd, NoToken
  <2>7. \A o \in found \ page : Skipped(o)' \/ o \in After(token)'
    <3> SUFFICES ASSUME NEW o \in found \ page, o \notin After(token)' PROVE Skipped(o)'
      OBVIOUS
    <3>1. o \in stored /\ Precedes(l, o)
      BY <1>2, <1>3, <2>2
    <3>2. o \notin After(TokenOf(l))
      BY <1>1, <2>3 DEF After, NoToken
    <3>3. created[l] \div Second = created[o] \div Second
      BY <2>2, <3>1, <3>2, NotAfterIsSameSecond
    <3>4. n \in DOMAIN pages' /\ pages'[n] = page
      BY <1>5
    <3> QED
      BY <1>1, <2>2, <3>3, <3>4, PageSkips
  <2>8. \A o \in initial' \ Shown' : Skipped(o)' \/ o \in After(token)'
    <3> SUFFICES ASSUME NEW o \in initial', o \notin Shown'
                 PROVE  Skipped(o)' \/ o \in After(token)'
      OBVIOUS
    <3>1. CASE o \in found
      BY <1>5, <2>7, <3>1
    <3>2. CASE o \notin found
      <4>1. phase = "listing" /\ initial' = initial
        <5>1. phase = "idle" => found = stored /\ initial' = stored
          BY <1>1 DEF Begin, found, After
        <5> QED
          BY <1>1, <3>2, <5>1 DEF Begin
      <4>2. Skipped(o)
        BY <1>1, <1>5, <3>2, <4>1 DEF LeftIsAhead, found
      <4>3. PICK i \in DOMAIN pages : \E k :
              IsLast(k, pages[i]) /\ created[k] \div Second = created[o] \div Second
        BY <4>2 DEF Skipped
      <4>4. PICK k : IsLast(k, pages[i]) /\ created[k] \div Second = created[o] \div Second
        BY <4>3
      <4>5. i \in DOMAIN pages' /\ pages'[i] = pages[i]
        BY <1>5
      <4> QED
        BY <1>1, <4>4, <4>5, PageSkips
    <3> QED
      BY <3>1, <3>2
  <2>9. LeftIsAhead'
    BY <2>3, <2>8 DEF LeftIsAhead
  <2> QED
    BY <1>1, <1>8, <2>3, <2>6, <2>9 DEF CursorInv
<1>10. CASE Cardinality(page) # PageSize
  <2>1. phase' = "done" /\ token' = NoToken /\ found \subseteq page
    BY <1>1, <1>3, <1>10
  <2>2. CursorAtEnd'
    BY <2>1 DEF CursorAtEnd, NoToken
  <2>3. \A o \in initial' \ Shown' : Skipped(o)'
    <3> SUFFICES ASSUME NEW o \in initial', o \notin Shown' PROVE Skipped(o)'
      OBVIOUS
    <3>1. o \notin found /\ o \notin Shown
      BY <1>5, <2>1
    <3>2. phase = "listing" /\ initial' = initial
      <4>1. phase = "idle" => found = stored /\ initial' = stored
        BY <1>1 DEF Begin, found, After
      <4> QED
        BY <1>1, <3>1, <4>1 DEF Begin
    <3>3. Skipped(o)
      BY <1>1, <3>1, <3>2 DEF LeftIsAhead, found
    <3>4. PICK i \in DOMAIN pages : \E k :
            IsLast(k, pages[i]) /\ created[k] \div Second = created[o] \div Second
      BY <3>3 DEF Skipped
    <3>5. PICK k : IsLast(k, pages[i]) /\ created[k] \div Second = created[o] \div Second
      BY <3>4
    <3>6. i \in DOMAIN pages' /\ pages'[i] = pages[i]
      BY <1>5
    <3> QED
      BY <1>1, <3>5, <3>6, PageSkips
  <2>4. LeftIsAhead'
    BY <2>1, <2>3 DEF LeftIsAhead
  <2> QED
    BY <1>1, <1>8, <2>1, <2>2, <2>4 DEF CursorInv
<1> QED
  BY <1>9, <1>10

LEMMA TokenRefusedKeeps ==
  ASSUME CursorInv, TokenRefused
  PROVE  CursorInv'
BY DEF TokenRefused, CursorInv, CursorGoesDown, CursorAtEnd, LeftIsAhead,
       Shown, Precedes, NoToken

-----------------------------------------------------------------------------
(* An order that is not tied with another has its place: the number of      *)
(* those that are newer.                                                    *)
Tied(o) == \E p \in stored \ {o} : created[p] = created[o]

Newer(o) == {p \in stored : created[p] > created[o]}

NumberedInv ==
  listing = "numbered" =>
    /\ phase \in {"idle", "listing", "counted"} =>
         \A o \in initial \ Shown : Tied(o) \/ Cardinality(Newer(o)) >= Len(pages) * PageSize
    /\ phase = "counted" => raced \/ total = Cardinality(stored)
    /\ phase = "done" => \A o \in initial \ Shown : raced \/ Tied(o)

LEMMA NewerIsFinite ==
  ASSUME Listed, NEW o
  PROVE  /\ IsFiniteSet(Newer(o)) /\ Cardinality(Newer(o)) \in Nat /\ Newer(o) \subseteq stored
         /\ IsFiniteSet(stored) /\ Cardinality(stored) \in Nat
BY FS_Subset, FS_CardinalityType DEF Newer, Listed

(* The page in which the place of an order without ties lies shows it.      *)
LEMMA PageReachesPlace ==
  ASSUME Listed, NEW o \in stored, ~Tied(o), NEW m \in Nat,
         Cardinality(Newer(o)) >= m, NEW front \in Newest(stored, m),
         NEW page \in Newest(stored \ front, PageSize), o \notin page
  PROVE  Cardinality(Newer(o)) >= m + PageSize
<1>0. PageSize \in Nat /\ \A p \in stored : created[p] \in Nat
  BY Numbers DEF Listed
<1>1. /\ IsFiniteSet(Newer(o)) /\ Cardinality(Newer(o)) \in Nat /\ Newer(o) \subseteq stored
      /\ IsFiniteSet(stored) /\ Cardinality(stored) \in Nat
  BY NewerIsFinite
<1>2. o \notin Newer(o)
  BY <1>0 DEF Newer
<1>3. Cardinality(stored) > m
  <2>1. Cardinality(Newer(o)) <= Cardinality(stored) /\ Cardinality(Newer(o)) # Cardinality(stored)
    BY <1>1, <1>2, FS_Subset
  <2> QED
    BY <1>1, <2>1
<1>4. /\ front \subseteq stored
      /\ Cardinality(front) = IF m < Cardinality(stored) THEN m ELSE Cardinality(stored)
      /\ \A a \in front, b \in stored \ front : created[a] >= created[b]
  BY DEF Newest
<1>5. IsFiniteSet(front) /\ Cardinality(front) = m
  BY <1>1, <1>3, <1>4, FS_Subset
<1>6. o \notin front
  <2> SUFFICES ASSUME o \in front PROVE FALSE
    OBVIOUS
  <2>1. ASSUME NEW p \in Newer(o), p \notin front PROVE FALSE
    <3>1. created[p] > created[o] /\ created[o] >= created[p] /\ p \in stored
      BY <1>4, <2>1 DEF Newer
    <3> QED
      BY <1>0, <3>1
  <2>2. Newer(o) \subseteq front
    BY <2>1
  <2>3. Cardinality(Newer(o)) <= m /\ (Cardinality(Newer(o)) = m => Newer(o) = front)
    BY <1>5, <2>2, FS_Subset
  <2> QED
    BY <1>1, <1>2, <2>3
<1> DEFINE rest == stored \ front
<1>7. /\ page \subseteq rest /\ o \in rest \ page
      /\ Cardinality(page) = IF PageSize < Cardinality(rest) THEN PageSize ELSE Cardinality(rest)
      /\ \A a \in page, b \in rest \ page : created[a] >= created[b]
  BY <1>6 DEF Newest
<1>8. IsFiniteSet(rest) /\ IsFiniteSet(page) /\ Cardinality(rest) \in Nat
  BY <1>1, <1>7, FS_Subset, FS_CardinalityType
<1>9. Cardinality(page) = PageSize
  <2> HIDE DEF rest
  <2>1. Cardinality(page) # Cardinality(rest)
    BY <1>7, <1>8, FS_Subset
  <2> QED
    BY <1>7, <2>1
<1>10. \A p \in stored \ {o} : created[p] # created[o]
  BY DEF Tied
<1>11. front \subseteq Newer(o)
  <2> SUFFICES ASSUME NEW p \in front PROVE p \in Newer(o)
    OBVIOUS
  <2>1. created[p] >= created[o] /\ p \in stored \ {o}
    BY <1>4, <1>6
  <2> QED
    BY <1>0, <1>10, <2>1 DEF Newer
<1>12. page \subseteq Newer(o)
  <2> SUFFICES ASSUME NEW p \in page PROVE p \in Newer(o)
    OBVIOUS
  <2>1. created[p] >= created[o] /\ p \in stored \ {o}
    BY <1>7
  <2> QED
    BY <1>0, <1>10, <2>1 DEF Newer
<1>13. front \cap page = {}
  BY <1>7
<1>14. Cardinality(front \cup page) = m + PageSize
  <2>1. Cardinality(front \cap page) = 0
    BY <1>13, FS_EmptySet
  <2> HIDE DEF rest
  <2>2. Cardinality(front \cup page)
          = Cardinality(front) + Cardinality(page) - Cardinality(front \cap page)
    BY <1>5, <1>8, FS_Union
  <2> QED
    BY <1>0, <1>5, <1>9, <2>1, <2>2
<1>15. Cardinality(front \cup page) <= Cardinality(Newer(o))
  BY <1>1, <1>11, <1>12, FS_Subset
<1> QED
  BY <1>14, <1>15

LEMMA NumberedSurvives ==
  ASSUME Listed, Listed', NumberedInv, stored \subseteq stored',
         \A o \in stored : created'[o] = created[o],
         UNCHANGED <<listing, phase, pages, initial, total>>,
         raced => raced',
         phase = "counted" => raced' \/ stored' = stored
  PROVE  NumberedInv'
<1> SUFFICES ASSUME listing = "numbered" PROVE NumberedInv'
  BY DEF NumberedInv
<1>1. Shown' = Shown /\ initial \subseteq stored
  BY DEF Shown, Listed
<1>2. \A o \in stored : Tied(o) => Tied(o)'
  BY DEF Tied
<1>3. ASSUME NEW o \in stored
      PROVE  /\ Cardinality(Newer(o)) <= Cardinality(Newer(o)')
             /\ Cardinality(Newer(o)) \in Nat /\ Cardinality(Newer(o)') \in Nat
  <2>1. Newer(o) \subseteq Newer(o)'
    BY DEF Newer
  <2>2. IsFiniteSet(Newer(o)')
    <3>1. IsFiniteSet(stored') /\ Newer(o)' \subseteq stored'
      BY DEF Listed, Newer
    <3> QED
      BY <3>1, FS_Subset
  <2> QED
    BY <2>1, <2>2, FS_Subset, FS_CardinalityType
<1>4. Len(pages) * PageSize \in Nat
  <2>1. Len(pages) \in Nat /\ PageSize \in Nat
    BY Numbers DEF Listed
  <2> QED
    BY <2>1
<1>5. ASSUME NEW o \in stored, Cardinality(Newer(o)) >= Len(pages) * PageSize
      PROVE  Cardinality(Newer(o)') >= Len(pages) * PageSize
  <2> DEFINE x == Len(pages) * PageSize
  <2>1. x \in Nat
    BY <1>4
  <2> HIDE DEF x
  <2>2. Cardinality(Newer(o)) >= x
    BY <1>5 DEF x
  <2>3. Cardinality(Newer(o)') >= x
    BY <1>3, <2>1, <2>2
  <2> QED
    BY <2>3 DEF x
<1>6. /\ phase \in {"idle", "listing", "counted"} =>
           \A o \in initial \ Shown : Tied(o) \/ Cardinality(Newer(o)) >= Len(pages) * PageSize
      /\ phase = "counted" => raced \/ total = Cardinality(stored)
      /\ phase = "done" => \A o \in initial \ Shown : raced \/ Tied(o)
  BY DEF NumberedInv
<1>7. phase \in {"idle", "listing", "counted"} =>
        \A o \in initial \ Shown : Tied(o)' \/ Cardinality(Newer(o)') >= Len(pages) * PageSize
  BY <1>1, <1>2, <1>5, <1>6
<1>8. phase = "counted" => raced' \/ total = Cardinality(stored')
  BY <1>6
<1>9. phase = "done" => \A o \in initial \ Shown : raced' \/ Tied(o)'
  BY <1>1, <1>2, <1>6
<1> QED
  BY <1>1, <1>7, <1>8, <1>9 DEF NumberedInv

LEMMA CountDocumentsKeeps ==
  ASSUME Listed, NumberedInv, CountDocuments
  PROVE  NumberedInv'
<1>1. /\ listing = "numbered" /\ phase \in {"idle", "listing"} /\ Begin
      /\ total' = Cardinality(stored) /\ created' = created /\ stored' = stored
      /\ \/ stored = {} /\ phase' = "done" /\ ShowPage({})
         \/ stored # {} /\ phase' = "counted" /\ pages' = pages
  BY DEF CountDocuments
<1>2. /\ initial' \subseteq stored
      /\ phase = "idle" => pages = <<>>
      /\ phase = "listing" => initial' = initial
  BY <1>1 DEF Begin, Listed
<1>3. \A o : (Tied(o)' <=> Tied(o)) /\ Newer(o)' = Newer(o)
  BY <1>1 DEF Tied, Newer
<1>4. CASE stored = {}
  BY <1>1, <1>2, <1>4 DEF NumberedInv
<1>5. CASE stored # {}
  <2>1. /\ phase' = "counted" /\ pages' = pages /\ Shown' = Shown
    BY <1>1, <1>5 DEF Shown
  <2>2. ASSUME NEW o \in initial', o \notin Shown
        PROVE  Tied(o) \/ Cardinality(Newer(o)) >= Len(pages) * PageSize
    <3>1. CASE phase = "idle"
      <4>1. Len(pages) * PageSize = 0
        <5>1. Len(pages) = 0 /\ PageSize \in Nat
          BY <1>2, <3>1, Numbers
        <5> QED
          BY <5>1
      <4>2. Cardinality(Newer(o)) \in Nat
        BY NewerIsFinite
      <4> QED
        BY <4>1, <4>2
    <3>2. CASE phase = "listing"
      BY <1>1, <1>2, <2>2, <3>2 DEF NumberedInv
    <3> QED
      BY <1>1, <3>1, <3>2
  <2>3. \A o \in initial' \ Shown' :
          Tied(o)' \/ Cardinality(Newer(o)') >= Len(pages') * PageSize
    <3> SUFFICES ASSUME NEW o \in initial', o \notin Shown'
                 PROVE  Tied(o)' \/ Cardinality(Newer(o)') >= Len(pages') * PageSize
      OBVIOUS
    <3>1. Tied(o) \/ Cardinality(Newer(o)) >= Len(pages) * PageSize
      BY <2>1, <2>2
    <3>2. (Tied(o)' <=> Tied(o)) /\ Newer(o)' = Newer(o)
      BY <1>3
    <3> QED
      BY <2>1, <3>1, <3>2
  <2> QED
    BY <1>1, <2>1, <2>3 DEF NumberedInv
<1> QED
  BY <1>4, <1>5

(* The pages up to the number that the count fills hold all that was        *)
(* counted.                                                                 *)
LEMMA PagesHoldTotal ==
  ASSUME NEW n \in Nat, total \in Nat, ~(n < TotalPages)
  PROVE  total <= n * PageSize
<1> DEFINE t == total
           x == t + PageSize - 1
           q == x \div PageSize
<1>1. PageSize \in Nat /\ PageSize > 0 /\ t \in Nat
  BY Numbers
<1>2. x \in Nat
  BY <1>1
<1>3. q \in Nat /\ x = (q * PageSize) + (x % PageSize) /\ (x % PageSize) \in 0 .. PageSize - 1
  <2> HIDE DEF x
  <2> QED
    BY <1>1, <1>2
<1>4. q <= n
  <2>1. ~(n < q)
    BY DEF TotalPages
  <2> HIDE DEF q
  <2> QED
    BY <1>3, <2>1
<1>5. \A a, b, c \in Nat : a <= b => (b * c) - (a * c) >= 0
  <2> SUFFICES ASSUME NEW a \in Nat, NEW b \in Nat, NEW c \in Nat, a <= b
               PROVE  (b * c) - (a * c) >= 0
    OBVIOUS
  <2>1. (b * c) - (a * c) = (b - a) * c /\ b - a \in Nat
    OBVIOUS
  <2>2. (b - a) * c >= 0
    BY <2>1
  <2> QED
    BY <2>1, <2>2
<1> DEFINE y == q * PageSize
           z == n * PageSize
           r == x % PageSize
<1>6. y \in Nat /\ z \in Nat /\ r \in 0 .. PageSize - 1
  <2> HIDE DEF q
  <2>1. y \in Nat /\ z \in Nat
    BY <1>1, <1>3
  <2> QED
    BY <1>3, <2>1
<1>7. z - y >= 0
  <2> HIDE DEF q
  <2> QED
    BY <1>1, <1>3, <1>4, <1>5
<1>8. t + PageSize - 1 = y + r
  BY <1>3
<1> HIDE DEF q, x, y, z, r
<1>9. t <= z
  BY <1>1, <1>6, <1>7, <1>8
<1> QED
  BY <1>9 DEF z

LEMMA NextPlaces ==
  ASSUME NEW n \in Nat, NEW p \in Nat
  PROVE  (n * p) + p = (n + 1) * p /\ n * p \in Nat
OBVIOUS

LEMMA GetPaginatedOrdersKeeps ==
  ASSUME Listed, NumberedInv, GetPaginatedOrders
  PROVE  NumberedInv'
<1> SUFFICES ASSUME listing = "numbered" PROVE NumberedInv'
  BY DEF NumberedInv, GetPaginatedOrders
<1> DEFINE n == Len(pages)
<1>1. /\ phase = "counted" /\ created' = created /\ stored' = stored /\ initial' = initial
      /\ total' = total /\ raced' = raced /\ listing' = listing
      /\ phase' = IF n + 1 < TotalPages THEN "listing" ELSE "done"
  BY DEF GetPaginatedOrders
<1>2. PICK front \in Newest(stored, GetOffset) :
        \E page \in Newest(stored \ front, PageSize) : ShowPage(page)
  BY DEF GetPaginatedOrders
<1>3. PICK page \in Newest(stored \ front, PageSize) : ShowPage(page)
  BY <1>2
<1>4. page \in SUBSET stored
  BY DEF Newest
<1>5. n \in Nat /\ Len(pages') = n + 1 /\ Shown' = Shown \union page /\ PageSize \in Nat
      /\ Shown \subseteq stored /\ initial \subseteq stored
  BY <1>1, <1>3, <1>4, PagesGrow, PagesAreStored, Numbers DEF Listed
<1>6. GetOffset = n * PageSize /\ n * PageSize \in Nat
      /\ (n * PageSize) + PageSize = (n + 1) * PageSize /\ (n + 1) * PageSize \in Nat
  <2> HIDE DEF n
  <2>1. n * PageSize \in Nat /\ (n * PageSize) + PageSize = (n + 1) * PageSize
    BY <1>5, NextPlaces
  <2>2. (n + 1) * PageSize \in Nat
    BY <1>5, NextPlaces
  <2>3. GetOffset = n * PageSize
    BY DEF GetOffset, n
  <2> QED
    BY <2>1, <2>2, <2>3
<1> DEFINE place == n * PageSize
           next == (n + 1) * PageSize
<1>7. ASSUME NEW o \in initial, o \notin Shown, o \notin page, ~Tied(o)
      PROVE  Cardinality(Newer(o)) >= next
  <2>1. Cardinality(Newer(o)) >= place
    BY <1>1, <1>7 DEF NumberedInv
  <2>2. o \in stored /\ place \in Nat /\ GetOffset = place /\ place + PageSize = next
    BY <1>5, <1>6
  <2> HIDE DEF place, next
  <2>3. front \in Newest(stored, place)
    BY <1>2, <2>2
  <2>4. Cardinality(Newer(o)) >= place + PageSize
    BY <1>7, <2>1, <2>2, <2>3, PageReachesPlace
  <2> QED
    BY <2>2, <2>4
<1> HIDE DEF place, next, n
<1>8. \A o : (Tied(o)' <=> Tied(o)) /\ Newer(o)' = Newer(o)
  BY <1>1 DEF Tied, Newer
<1>9. CASE n + 1 < TotalPages
  <2>1. ASSUME NEW o \in initial', o \notin Shown'
        PROVE  Tied(o)' \/ Cardinality(Newer(o)') >= Len(pages') * PageSize
    <3>1. Tied(o) \/ Cardinality(Newer(o)) >= Len(pages') * PageSize
      BY <1>1, <1>5, <1>7, <2>1 DEF next
    <3> QED
      BY <1>8, <3>1
  <2> QED
    BY <1>1, <1>9, <2>1 DEF NumberedInv
<1>10. CASE ~(n + 1 < TotalPages)
  <2>1. ASSUME NEW o \in initial', o \notin Shown', ~raced, ~Tied(o) PROVE FALSE
    <3>1. Cardinality(Newer(o)) >= next
      BY <1>1, <1>5, <1>7, <2>1
    <3>2. total = Cardinality(stored)
      BY <1>1, <2>1 DEF NumberedInv
    <3>3. total <= next
      <4>1. n + 1 \in Nat
        BY <1>5
      <4> QED
        BY <1>10, <4>1, PagesHoldTotal DEF Listed, next
    <3>4. o \in stored /\ o \notin Newer(o)
      <4>1. o \in stored /\ created[o] \in Nat
        BY <1>1, <1>5, <2>1 DEF Listed
      <4> QED
        BY <4>1 DEF Newer
    <3>5. /\ IsFiniteSet(stored) /\ Newer(o) \subseteq stored
          /\ Cardinality(Newer(o)) \in Nat /\ Cardinality(stored) \in Nat
      BY NewerIsFinite
    <3>6. Cardinality(Newer(o)) < Cardinality(stored)
      <4>1. /\ Cardinality(Newer(o)) <= Cardinality(stored)
            /\ Cardinality(Newer(o)) # Cardinality(stored)
        BY <3>4, <3>5, FS_Subset
      <4> QED
        BY <3>5, <4>1
    <3>7. next \in Nat
      BY <1>6 DEF next
    <3> QED
      BY <3>1, <3>2, <3>3, <3>5, <3>6, <3>7
  <2>2. \A o \in initial' \ Shown' : raced' \/ Tied(o)'
    BY <1>1, <1>8, <2>1 DEF Listed
  <2> QED
    BY <1>1, <1>10, <2>2 DEF NumberedInv
<1> QED
  BY <1>9, <1>10

-----------------------------------------------------------------------------
ListingInv == Listed /\ CursorInv /\ NumberedInv

LEMMA ListingBegins == ListingInit => ListingInv
<1> SUFFICES ASSUME ListingInit PROVE ListingInv
  OBVIOUS
<1>1. Listed
  <2>1. IsFiniteSet({}) /\ <<>> \in Seq(SUBSET {}) /\ 0 \in Nat
    BY FS_EmptySet
  <2>2. /\ created = [o \in Orders |-> created[o]]
        /\ \A o \in Orders : created[o] \in Nat \union {NotYet}
    BY DEF ListingInit
  <2> QED
    BY <2>1, <2>2 DEF ListingInit, Listed
<1>2. CursorInv
  BY DEF ListingInit, CursorInv, CursorGoesDown, CursorAtEnd, LeftIsAhead
<1>3. NumberedInv
  BY DEF ListingInit, NumberedInv
<1> QED
  BY <1>1, <1>2, <1>3 DEF ListingInv

(* Time passes, an order is begun, or one shows.                            *)
LEMMA ArrivalsKeep ==
  ASSUME ListingInv,
         \/ UNCHANGED listingVars \/ ClockTicks
         \/ \E o \in Orders : BeginOrder(o) \/ CommitOrder(o)
  PROVE  ListingInv'
<1>1. Listed /\ CursorInv /\ NumberedInv
  BY DEF ListingInv
<1>2. /\ UNCHANGED <<listing, phase, token, pages, initial, total>>
      /\ stored \subseteq stored' /\ (raced => raced')
      /\ phase = "counted" => raced' \/ stored' = stored
      /\ \A o \in stored : created'[o] = created[o]
      /\ created' = [o \in Orders |-> created'[o]]
      /\ \A o \in Orders : created'[o] \in Nat \union {NotYet}
      /\ clock' \in Nat /\ raced' \in BOOLEAN
  <2>1. CASE UNCHANGED listingVars \/ ClockTicks
    BY <1>1, <2>1 DEF listingVars, client, ClockTicks, Listed
  <2>2. CASE \E o \in Orders : BeginOrder(o)
    <3>1. PICK o \in Orders : BeginOrder(o)
      BY <2>2
    <3>2. o \notin stored
      <4>1. created[o] = -1
        BY <3>1 DEF BeginOrder, NotYet
      <4>2. o \in stored => created[o] \in Nat
        BY <1>1 DEF Listed
      <4> QED
        BY <4>1, <4>2
    <3> QED
      BY <1>1, <3>1, <3>2 DEF client, BeginOrder, Listed
  <2>3. CASE \E o \in Orders : CommitOrder(o)
    <3>1. PICK o \in Orders : CommitOrder(o)
      BY <2>3
    <3>2. UNCHANGED <<clock, created, listing, phase, token, pages, initial, total>>
          /\ stored' = stored \union {o}
      BY <3>1 DEF client, CommitOrder
    <3>3. raced' = (raced \/ phase = "counted")
      BY <3>1 DEF CommitOrder
    <3>4. raced' \in BOOLEAN /\ (raced => raced') /\ (phase = "counted" => raced')
      BY <3>3, Zenon
    <3> QED
      BY <1>1, <3>2, <3>4 DEF Listed
  <2> QED
    BY <2>1, <2>2, <2>3
<1>3. Listed'
  <2>1. clock' \in Nat /\ raced' \in BOOLEAN
    BY <1>2
  <2>2. /\ stored' \subseteq Orders /\ IsFiniteSet(stored')
        /\ \A o \in stored' : created'[o] \in Nat
    <3>1. CASE stored' = stored
      BY <1>1, <1>2, <3>1 DEF Listed
    <3>2. CASE \E o \in Orders : CommitOrder(o)
      <4>1. PICK o \in Orders : CommitOrder(o)
        BY <3>2
      <4>2. stored' = stored \union {o} /\ created' = created /\ created[o] \in Nat
        BY <1>1, <4>1 DEF CommitOrder, Began, Listed
      <4> QED
        BY <1>1, <4>2, FS_AddElement DEF Listed
    <3> QED
      BY <3>1, <3>2 DEF listingVars, client, ClockTicks, BeginOrder
  <2>3. pages' \in Seq(SUBSET stored')
    <3>1. pages \in Seq(SUBSET stored) /\ SUBSET stored \subseteq SUBSET stored'
      BY <1>1, <1>2 DEF Listed
    <3>2. pages \in Seq(SUBSET stored')
      BY <3>1
    <3> QED
      BY <1>2, <3>2
  <2> QED
    BY <1>1, <1>2, <2>1, <2>2, <2>3 DEF Listed
<1> QED
  BY <1>1, <1>2, <1>3, CursorSurvives, NumberedSurvives DEF ListingInv

LEMMA PagesKeep ==
  ASSUME ListingInv,
         \/ GetOrdersByUser \/ TokenRefused
         \/ CountDocuments \/ GetPaginatedOrders
  PROVE  ListingInv'
<1>1. Listed /\ CursorInv /\ NumberedInv
  BY DEF ListingInv
<1>2. /\ UNCHANGED <<clock, created, stored, listing>>
      /\ \/ pages' = pages /\ phase' # "idle"
         \/ \E page \in SUBSET stored : ShowPage(page) /\ phase' # "idle"
  <2>1. CASE GetOrdersByUser
    <3> DEFINE page == FirstPage(After(token))
    <3>1. page \in SUBSET stored
      BY DEF FirstPage, After
    <3>2. ShowPage(page) /\ phase' # "idle" /\ UNCHANGED <<clock, created, stored, listing>>
      BY <2>1 DEF GetOrdersByUser
    <3> HIDE DEF page
    <3> QED
      BY <3>1, <3>2
  <2>2. CASE TokenRefused
    BY <2>2 DEF TokenRefused
  <2>3. CASE CountDocuments
    BY <2>3 DEF CountDocuments
  <2>4. CASE GetPaginatedOrders
    <3>1. UNCHANGED <<clock, created, stored, listing>> /\ phase' # "idle"
      BY <2>4 DEF GetPaginatedOrders
    <3>2. PICK front \in Newest(stored, GetOffset) :
            \E page \in Newest(stored \ front, PageSize) : ShowPage(page)
      BY <2>4 DEF GetPaginatedOrders
    <3>3. PICK page \in Newest(stored \ front, PageSize) : ShowPage(page)
      BY <3>2
    <3>4. page \in SUBSET stored
      BY DEF Newest
    <3> QED
      BY <3>1, <3>3, <3>4
  <2> QED
    BY <2>1, <2>2, <2>3, <2>4
<1>3. /\ initial' \subseteq stored /\ total' \in Nat /\ raced' \in BOOLEAN
      /\ phase' \in {"idle", "listing", "counted", "done", "refused"}
  <2>1. Cardinality(stored) \in Nat
    BY <1>1, FS_CardinalityType DEF Listed
  <2> QED
    BY <1>1, <2>1
       DEF GetOrdersByUser, TokenRefused, CountDocuments,
           GetPaginatedOrders, Begin, Listed
<1>4. pages' \in Seq(SUBSET stored')
  BY <1>1, <1>2, PagesGrow DEF Listed
<1>5. Listed'
  BY <1>1, <1>2, <1>3, <1>4 DEF Listed
<1>6. CursorInv'
  <2>1. CASE GetOrdersByUser
    BY <1>1, <2>1, GetOrdersByUserKeeps
  <2>2. CASE TokenRefused
    BY <1>1, <2>2, TokenRefusedKeeps
  <2>3. CASE CountDocuments
    BY <2>3 DEF CountDocuments, CursorInv
  <2>4. CASE GetPaginatedOrders
    BY <1>1, <2>4 DEF GetPaginatedOrders, CursorInv
  <2> QED
    BY <2>1, <2>2, <2>3, <2>4
<1>7. NumberedInv'
  <2>1. CASE GetOrdersByUser \/ TokenRefused
    BY <2>1 DEF GetOrdersByUser, TokenRefused, NumberedInv
  <2> QED
    BY <1>1, <2>1, CountDocumentsKeeps, GetPaginatedOrdersKeeps
<1> QED
  BY <1>5, <1>6, <1>7 DEF ListingInv

LEMMA ListingSteps == ListingInv /\ [ListingNext]_listingVars => ListingInv'
  BY ArrivalsKeep, PagesKeep DEF ListingNext

(* Both listings keep their books, whatever arrives while a client reads.    *)
THEOREM ListingInOrder == ListingSpec => []ListingInv
<1>1. ListingInit => ListingInv
  BY ListingBegins
<1>2. ListingInv /\ [ListingNext]_listingVars => ListingInv'
  BY ListingSteps
<1> QED
  BY <1>1, <1>2, PTL DEF ListingSpec

(* For any orders, pages, seconds and age of tokens: a consumer's listing    *)
(* shows no order twice and none out of line, whatever GetOrdersByUser finds *)
(* to have appeared meanwhile.                                              *)
THEOREM CursorAlwaysGoesDown == ListingSpec => []CursorGoesDown
<1>1. ListingInv => CursorGoesDown
  BY DEF ListingInv, CursorInv, CursorGoesDown
<1>2. ListingSpec => []ListingInv
  BY ListingInOrder
<1> QED
  BY <1>1, <1>2, PTL

(* What a consumer's listing that ended has not shown, of the orders that    *)
(* were there at its begin, is of the second in which a page ended, which is *)
(* all that the token keeps of the date of its order.                       *)
THEOREM OnlyASecondIsSkipped == ListingSpec => []CursorSkipsWithinSecond
<1>1. ListingInv => CursorSkipsWithinSecond
  <2> SUFFICES ASSUME ListingInv, listing = "cursor", phase = "done", NEW o \in initial \ Shown
               PROVE  \E i \in DOMAIN pages :
                        /\ pages[i] # {}
                        /\ created[LastOf(pages[i])] \div Second = created[o] \div Second
    BY DEF CursorSkipsWithinSecond
  <2>1. Skipped(o) /\ Listed
    BY DEF ListingInv, CursorInv, LeftIsAhead
  <2>2. PICK i \in DOMAIN pages : \E l :
          IsLast(l, pages[i]) /\ created[l] \div Second = created[o] \div Second
    BY <2>1 DEF Skipped
  <2>3. PICK l : IsLast(l, pages[i]) /\ created[l] \div Second = created[o] \div Second
    BY <2>2
  <2>4. pages[i] \in SUBSET stored
    BY <2>1 DEF Listed
  <2>5. Dated(pages[i])
    BY <2>1, <2>4, StoredIsDated
  <2>6. LastOf(pages[i]) = l /\ pages[i] # {}
    BY <2>3, <2>5, OneLast DEF IsLast
  <2> QED
    BY <2>3, <2>6
<1>2. ListingSpec => []ListingInv
  BY ListingInOrder
<1> QED
  BY <1>1, <1>2, PTL

(* Numbered pages read up to the last show all that was there at the begin,  *)
(* but for orders with the same date, and for an order that appeared between *)
(* the count and the query of the last page.                                *)
THEOREM NumberedPagesAreComplete == ListingSpec => []NumberedMissesNothing
<1>1. ListingInv => NumberedMissesNothing
  BY DEF ListingInv, NumberedInv, NumberedMissesNothing, Tied
<1>2. ListingSpec => []ListingInv
  BY ListingInOrder
<1> QED
  BY <1>1, <1>2, PTL
=============================================================================
