-------------------------- MODULE RateLimiterProofs --------------------------
(***************************************************************************)
(* Proofs about RateLimiter, for any clients and requests, any rate and    *)
(* any length of a tick.                                                   *)
(***************************************************************************)
EXTENDS RateLimiter, TLAPS

LEMMA RateFacts ==
  Rate \in Nat /\ Rate >= 1 /\ Full \in Nat /\ Full >= Ticks /\ Ticks \in Nat /\ Ticks >= 1
  <1>1. Rate \in Nat /\ Rate >= 1
    BY LimiterAssumption DEF Rate
  <1>2. Ticks \in Nat /\ Ticks >= 1
    BY LimiterAssumption
  <1>3. \A r, t \in Nat : r >= 1 /\ t >= 1 => r * t \in Nat /\ r * t >= t
    OBVIOUS
  <1> QED BY <1>1, <1>2, <1>3 DEF Full

LEMMA Times ==
  ASSUME NEW r \in Nat, NEW x \in Int, NEW y \in Int
  PROVE  /\ r * x \in Int
         /\ r * (x + y) = r * x + r * y
         /\ r * (x - y) = r * x - r * y
         /\ x * r = r * x
         /\ x >= 0 => r * x >= 0
         /\ x >= 1 => r * x >= r
  OBVIOUS

\* A refill brings what the elapsed time is worth, or fills the bucket (ratelimit.go:38-44).
LEMMA RefilledFacts ==
  ASSUME LimitInv, NEW l \in Limiters
  PROVE  LET worth == level[l] + Rate * (now - last[l])
         IN  /\ Refilled(l) \in 0..Full
             /\ Refilled(l) <= worth
             /\ Refilled(l) >= level[l]
             /\ Refilled(l) = Full \/ Refilled(l) = worth
  <1>1. level[l] \in 0..Full /\ last[l] \in Nat /\ now \in Nat /\ now - last[l] >= 0
    BY LimiterAssumption DEF LimitInv, LimitTypeOK, Time
  <1>2. /\ Rate * (now - last[l]) \in Int
        /\ Rate * (now - last[l]) >= 0
        /\ (now - last[l]) * Rate = Rate * (now - last[l])
    BY <1>1, RateFacts, Times
  <1>3. Refilled(l) = IF level[l] + Rate * (now - last[l]) > Full THEN Full
                      ELSE level[l] + Rate * (now - last[l])
    BY <1>2 DEF Refilled, AtMost
  <1> DEFINE add == Rate * (now - last[l])
             old == level[l]
             new == Refilled(l)
  <1>4. /\ add \in Int /\ add >= 0 /\ old \in 0..Full
        /\ new = IF old + add > Full THEN Full ELSE old + add
    BY <1>1, <1>2, <1>3
  <1> HIDE DEF add, old, new
  <1>5. new \in 0..Full /\ new <= old + add /\ new >= old /\ (new = Full \/ new = old + add)
    BY <1>4, RateFacts
  <1> QED BY <1>5 DEF add, old, new

LEMMA LimitInitInv == LimitInit => LimitIInv
  <1> SUFFICES ASSUME LimitInit PROVE LimitIInv
    OBVIOUS
  <1>1. LimitTypeOK
    <2>1. now \in Time /\ cleanups \in 0..MaxCleanups /\ made \in 0..MaxLimiters
      BY LimiterAssumption DEF LimitInit, Time
    <2>2. level \in [Limiters -> 0..Full]
      BY RateFacts DEF LimitInit
    <2>3. last \in [Limiters -> Time] /\ born \in [Limiters -> 0..MaxCleanups]
      BY LimiterAssumption DEF LimitInit, Time
    <2>4. table \in [Clients -> 0..MaxLimiters] /\ lim \in [Requests -> 0..MaxLimiters]
      BY LimiterAssumption DEF LimitInit
    <2> QED BY <2>1, <2>2, <2>3, <2>4 DEF LimitInit, LimitTypeOK
  <1>2. LimitInv
    BY <1>1, LimiterAssumption DEF LimitInit, LimitInv, Limiters
  <1>3. OneBucket
    BY DEF LimitInit, OneBucket
  <1>4. BucketInv
    <2> SUFFICES ASSUME NEW l \in Limiters, NEW a \in 0..now
                 PROVE  /\ total[l] = 0 /\ ~ l <= made
                        /\ before[l][a] = 0
                        /\ Since(l, a) = 0
                        /\ NotTooMuch(l, a)
      BY DEF BucketInv, LimitInit
    <2>1. a = 0 /\ a \in Time /\ l >= 1
      BY LimiterAssumption DEF LimitInit, Time, Limiters
    <2>2. total[l] = 0 /\ before[l][a] = 0 /\ Since(l, a) = 0
      BY <2>1 DEF LimitInit, Since
    <2>3. NotTooMuch(l, a)
      BY <2>1, <2>2, RateFacts DEF LimitInit, NotTooMuch, Flow
    <2> QED BY <2>1, <2>2, <2>3 DEF LimitInit, Limiters
  <1>5. InMap
    BY LimiterAssumption DEF LimitInit, InMap, Limiters
  <1> QED BY <1>2, <1>3, <1>4, <1>5 DEF LimitIInv

LEMMA BucketTypes ==
  ASSUME LimitInv, NEW l \in Limiters, NEW a \in 0..now
  PROVE  /\ now \in Nat /\ a \in Nat /\ a \in Time
         /\ level[l] \in Nat /\ last[l] \in Nat /\ last[l] <= now
         /\ total[l] \in Nat /\ before[l][a] \in Nat
         /\ Since(l, a) \in Int
         /\ Flow(l, a) \in Int
  <1>1. now \in Nat /\ now <= MaxTime /\ a \in Time
    BY LimiterAssumption DEF LimitInv, LimitTypeOK, Time
  <1>2. level[l] \in Nat /\ last[l] \in Nat /\ last[l] <= now
    BY LimiterAssumption, RateFacts DEF LimitInv, LimitTypeOK, Time
  <1>3. total[l] \in Nat /\ before[l][a] \in Nat
    BY <1>1 DEF LimitInv, LimitTypeOK
  <1>4. Since(l, a) \in Int
    BY <1>3 DEF Since
  <1>5. Since(l, a) * Ticks \in Int
    BY <1>4, RateFacts
  <1>6. Flow(l, a) \in Int
    BY <1>2, <1>5 DEF Flow
  <1> QED BY <1>1, <1>2, <1>3, <1>4, <1>6

(***************************************************************************)
(* The steps that leave the buckets alone.                                 *)
(***************************************************************************)
LEMMA SameBuckets ==
  ASSUME LimitIInv, UNCHANGED <<now, made, bucketVars>>
  PROVE  BucketInv'
  BY DEF LimitIInv, BucketInv, bucketVars, Since, Flow, NotTooMuch, NotTooLittle

LEMMA RequestsOnly ==
  ASSUME LimitIInv, NEW q \in Requests,
         (\E c \in Clients : Arrive(q, c)) \/ Found(q) \/ NotFound(q)
  PROVE  LimitIInv'
  <1> USE DEF Arrive, Found, NotFound, Given, tableVars, bucketVars
  <1>1. LimitTypeOK'
    <2>1. CASE \E c \in Clients : Arrive(q, c)
      BY <2>1 DEF LimitIInv, LimitInv, LimitTypeOK
    <2>2. CASE Found(q)
      <3>1. client[q] \in Clients /\ table[client[q]] \in 0..MaxLimiters
        BY <2>2 DEF LimitIInv, LimitInv, LimitTypeOK
      <3>2. lim' \in [Requests -> 0..MaxLimiters]
        BY <2>2, <3>1 DEF LimitIInv, LimitInv, LimitTypeOK
      <3> QED BY <2>2, <3>2 DEF LimitIInv, LimitInv, LimitTypeOK
    <2>3. CASE NotFound(q)
      BY <2>3 DEF LimitIInv, LimitInv, LimitTypeOK
    <2> QED BY <2>1, <2>2, <2>3
  <1>2. (client[q] # NoClient => client[q] \in Clients) /\ NoClient \notin Clients
    BY LimiterAssumption DEF LimitIInv, LimitInv, LimitTypeOK
  <1>3. LimitInv'
    <2>1. \A l \in Limiters : (owner[l] # NoClient <=> l <= made)'
      BY DEF LimitIInv, LimitInv
    <2>2. \A l \in Limiters : (born[l] <= cleanups /\ last[l] <= now)'
      BY DEF LimitIInv, LimitInv
    <2>3. \A c \in Clients : (table[c] # 0 => owner[table[c]] = c /\ born[table[c]] = cleanups)'
      BY DEF LimitIInv, LimitInv
    <2>4. ASSUME NEW r \in Requests
          PROVE  /\ pc'[r] = "idle" <=> client'[r] = NoClient
                 /\ pc'[r] = "allow" <=> lim'[r] # 0
                 /\ lim'[r] # 0 => owner'[lim'[r]] = client'[r]
      BY <1>2 DEF LimitIInv, LimitInv, LimitTypeOK
    <2> QED BY <1>1, <2>1, <2>2, <2>3, <2>4 DEF LimitInv
  <1>4. OneBucket'
    BY DEF LimitIInv, OneBucket
  <1>5. BucketInv'
    BY SameBuckets
  <1>6. InMap'
    BY DEF LimitIInv, InMap
  <1> QED BY <1>3, <1>4, <1>5, <1>6 DEF LimitIInv

LEMMA CleanupInv == LimitIInv /\ Cleanup => LimitIInv'
  <1> SUFFICES ASSUME LimitIInv, Cleanup PROVE LimitIInv'
    OBVIOUS
  <1> USE DEF Cleanup, bucketVars, requestVars
  <1>1. LimitTypeOK'
    <2>1. cleanups + 1 \in 0..MaxCleanups /\ 0 \in 0..MaxLimiters
      BY LimiterAssumption DEF LimitIInv, LimitInv, LimitTypeOK
    <2>2. cleanups' \in 0..MaxCleanups /\ table' \in [Clients -> 0..MaxLimiters]
      BY <2>1
    <2> QED BY <2>2 DEF LimitIInv, LimitInv, LimitTypeOK
  <1>2. LimitInv'
    BY <1>1, LimiterAssumption DEF LimitIInv, LimitInv, LimitTypeOK
  <1>3. OneBucket'
    BY DEF LimitIInv, OneBucket
  <1>4. BucketInv'
    BY SameBuckets
  <1>5. InMap'
    BY LimiterAssumption DEF LimitIInv, LimitInv, LimitTypeOK, InMap
  <1> QED BY <1>2, <1>3, <1>4, <1>5 DEF LimitIInv

LEMMA TickInv == LimitIInv /\ Tick => LimitIInv'
  <1> SUFFICES ASSUME LimitIInv, Tick PROVE LimitIInv'
    OBVIOUS
  <1> USE DEF Tick, tableVars, requestVars
  <1>1. now \in Nat /\ now + 1 \in Time /\ \A l \in Limiters : last[l] \in Nat /\ last[l] <= now
    BY LimiterAssumption DEF LimitIInv, LimitInv, LimitTypeOK, Time
  <1>2. LimitTypeOK'
    BY <1>1 DEF LimitIInv, LimitInv, LimitTypeOK
  <1>3. LimitInv'
    BY <1>1, <1>2 DEF LimitIInv, LimitInv
  <1>4. OneBucket'
    BY DEF LimitIInv, OneBucket
  <1>5. \A l \in Limiters, a \in Time :
          before'[l][a] = IF a = now + 1 THEN total[l] ELSE before[l][a]
    BY <1>1 DEF LimitIInv, LimitInv, LimitTypeOK
  <1>6. BucketInv'
    <2> SUFFICES ASSUME NEW l \in Limiters
                 PROVE  /\ l > made => total[l] = 0
                        /\ l <= made => Flow(l, 0)' >= Full
                        /\ \A a \in 0..now' :
                             /\ Since(l, a)' >= 0
                             /\ l > made => before'[l][a] = 0
                             /\ a > last[l] => Since(l, a)' = 0
                             /\ a <= last[l] => NotTooMuch(l, a)'
                             /\ a <= last[l] /\ l <= made => NotTooLittle(l, a)'
      BY DEF BucketInv
    <2>1. l > made => total[l] = 0
      BY DEF LimitIInv, BucketInv
    <2>2. ASSUME NEW a \in 0..now PROVE before'[l][a] = before[l][a]
      <3>1. a \in Time /\ a # now + 1
        BY <1>1, LimiterAssumption DEF Time
      <3> QED BY <3>1, <1>5
    <2>3. l <= made => Flow(l, 0)' >= Full
      BY <1>1, <2>2 DEF LimitIInv, BucketInv, Flow, Since
    <2>4. ASSUME NEW a \in 0..now
          PROVE  /\ Since(l, a)' >= 0
                 /\ l > made => before'[l][a] = 0
                 /\ a > last[l] => Since(l, a)' = 0
                 /\ a <= last[l] => NotTooMuch(l, a)'
                 /\ a <= last[l] /\ l <= made => NotTooLittle(l, a)'
      BY <2>2 DEF LimitIInv, BucketInv, Since, Flow, NotTooMuch, NotTooLittle
    <2>5. ASSUME NEW a \in Nat, a = now + 1
          PROVE  /\ l > made => before'[l][a] = 0
                 /\ a > last[l] /\ Since(l, a)' = 0
      <3>1. before'[l][a] = total[l] /\ a > last[l]
        BY <1>1, <1>5, <2>5
      <3>2. total[l] \in Nat
        BY DEF LimitIInv, LimitInv, LimitTypeOK
      <3> QED BY <2>1, <3>1, <3>2 DEF Since
    <2>6. ASSUME NEW a \in 0..now'
          PROVE  a \in 0..now \/ (a \in Nat /\ a = now + 1)
      BY <1>1
    <2>7. ASSUME NEW a \in Nat, a = now + 1
          PROVE  ~ a <= last[l]
      BY <1>1, <2>7
    <2> QED BY <2>1, <2>3, <2>4, <2>5, <2>6, <2>7
  <1>7. InMap'
    BY DEF LimitIInv, InMap
  <1> QED BY <1>3, <1>4, <1>6, <1>7 DEF LimitIInv

(***************************************************************************)
(* A new limiter: full, unused, the only one of its client in this round.  *)
(***************************************************************************)
LEMMA MakeInv ==
  ASSUME LimitIInv, NEW q \in Requests, Make(q)
  PROVE  LimitIInv'
  <1> DEFINE new == made + 1
  <1> USE DEF Make, MakeLimiter, Given
  <1>1. /\ made \in Nat /\ new \in Limiters /\ new \in 1..MaxLimiters /\ new # 0
        /\ client[q] \in Clients /\ client[q] # NoClient
    BY LimiterAssumption DEF LimitIInv, LimitInv, LimitTypeOK, Limiters
  <1>2. LimitTypeOK'
    <2>1. Full \in 0..Full /\ now \in Time /\ cleanups \in 0..MaxCleanups
      BY RateFacts DEF LimitIInv, LimitInv, LimitTypeOK
    <2>2. made' \in 0..MaxLimiters
      BY <1>1
    <2>3. /\ table' \in [Clients -> 0..MaxLimiters]
          /\ lim' \in [Requests -> 0..MaxLimiters]
          /\ pc' \in [Requests -> {"idle", "lookup", "create", "allow"}]
      BY <1>1 DEF LimitIInv, LimitInv, LimitTypeOK
    <2>4. /\ owner' \in [Limiters -> Clients \union {NoClient}]
          /\ born' \in [Limiters -> 0..MaxCleanups]
          /\ level' \in [Limiters -> 0..Full]
          /\ last' \in [Limiters -> Time]
      BY <1>1, <2>1 DEF LimitIInv, LimitInv, LimitTypeOK
    <2> QED BY <2>2, <2>3, <2>4 DEF LimitIInv, LimitInv, LimitTypeOK
  <1>3. /\ \A l \in Limiters : owner'[l] = IF l = new THEN client[q] ELSE owner[l]
        /\ \A l \in Limiters : born'[l] = IF l = new THEN cleanups ELSE born[l]
        /\ \A l \in Limiters : level'[l] = IF l = new THEN Full ELSE level[l]
        /\ \A l \in Limiters : last'[l] = IF l = new THEN now ELSE last[l]
        /\ \A c \in Clients : table'[c] = IF c = client[q] THEN new ELSE table[c]
        /\ \A r \in Requests : lim'[r] = IF r = q THEN new ELSE lim[r]
        /\ \A r \in Requests : pc'[r] = IF r = q THEN "allow" ELSE pc[r]
    BY <1>1 DEF LimitIInv, LimitInv, LimitTypeOK
  <1>4. \A l \in Limiters : l \in Nat /\ (l <= made' <=> l <= made \/ l = new)
    BY <1>1 DEF Limiters
  <1>5. owner[new] = NoClient
    BY <1>1 DEF LimitIInv, LimitInv
  <1>6. LimitInv'
    <2>1. \A l \in Limiters : (owner[l] # NoClient <=> l <= made)'
      BY <1>1, <1>3, <1>4 DEF LimitIInv, LimitInv
    <2>2. \A l \in Limiters : (born[l] <= cleanups /\ last[l] <= now)'
      <3>1. cleanups <= cleanups /\ now <= now
        BY LimiterAssumption DEF LimitIInv, LimitInv, LimitTypeOK, Time
      <3> QED BY <1>3, <3>1 DEF LimitIInv, LimitInv
    <2>3. ASSUME NEW c \in Clients, table'[c] # 0
          PROVE  owner'[table'[c]] = c /\ born'[table'[c]] = cleanups'
      <3>1. CASE c = client[q]
        BY <1>1, <1>3, <3>1
      <3>2. CASE c # client[q]
        <4>1. /\ table'[c] = table[c] /\ table[c] \in Limiters
              /\ owner[table[c]] = c /\ born[table[c]] = cleanups
          BY <1>3, <2>3, <3>2, LimiterAssumption DEF LimitIInv, LimitInv, LimitTypeOK, Limiters
        <4>2. table[c] # new
          BY <1>5, <4>1, LimiterAssumption
        <4> QED BY <1>3, <4>1, <4>2
      <3> QED BY <3>1, <3>2
    <2>4. ASSUME NEW r \in Requests
          PROVE  /\ pc'[r] = "idle" <=> client'[r] = NoClient
                 /\ pc'[r] = "allow" <=> lim'[r] # 0
                 /\ lim'[r] # 0 => owner'[lim'[r]] = client'[r]
      <3>1. CASE r = q
        BY <1>1, <1>3, <3>1
      <3>2. CASE r # q
        <4>1. lim'[r] = lim[r] /\ pc'[r] = pc[r] /\ client'[r] = client[r]
          BY <1>3, <3>2
        <4>2. lim[r] # 0 => lim[r] \in Limiters /\ owner[lim[r]] = client[r] /\ client[r] # NoClient
          BY DEF LimitIInv, LimitInv, LimitTypeOK, Limiters
        <4>3. lim[r] # 0 => owner'[lim[r]] = client[r]
          BY <1>3, <1>5, <4>2
        <4> QED BY <4>1, <4>3 DEF LimitIInv, LimitInv
      <3> QED BY <3>1, <3>2
    <2> QED BY <1>2, <2>1, <2>2, <2>3, <2>4 DEF LimitInv
  <1>7. InMap'
    <2> SUFFICES ASSUME NEW l \in Limiters, l <= made', born'[l] = cleanups'
                 PROVE  table'[owner'[l]] = l
      BY DEF InMap
    <2>1. CASE l = new
      BY <1>1, <1>3, <2>1
    <2>2. CASE l # new
      <3>1. l <= made /\ owner'[l] = owner[l] /\ born[l] = cleanups
        BY <1>3, <1>4, <2>2
      <3>2. owner[l] \in Clients /\ table[owner[l]] = l /\ l # 0
        BY <3>1 DEF LimitIInv, LimitInv, LimitTypeOK, InMap, Limiters
      <3> QED BY <1>3, <3>1, <3>2
    <2> QED BY <2>1, <2>2
  <1>8. OneBucket'
    <2> SUFFICES ASSUME NEW l \in 1..made', NEW m \in 1..made',
                        owner'[l] = owner'[m], born'[l] = born'[m], l # m
                 PROVE  FALSE
      BY DEF OneBucket
    <2>1. l \in Limiters /\ m \in Limiters /\ l <= made' /\ m <= made'
      BY <1>1, LimiterAssumption DEF Limiters
    <2>2. CASE l # new /\ m # new
      <3>1. l \in 1..made /\ m \in 1..made
        BY <1>1, <1>4, <2>1, <2>2
      <3> QED BY <1>3, <2>1, <2>2, <3>1 DEF LimitIInv, OneBucket
    <2>3. CASE l = new \/ m = new
      <3>1. born'[l] = cleanups' /\ born'[m] = cleanups'
        BY <1>1, <1>3, <2>1, <2>3
      <3> QED BY <1>7, <2>1, <3>1 DEF InMap
    <2> QED BY <2>2, <2>3
  <1>9. BucketInv'
    <2> SUFFICES ASSUME NEW l \in Limiters, NEW a \in 0..now
                 PROVE  /\ l > made' => total[l] = 0 /\ before[l][a] = 0
                        /\ l <= made' => Flow(l, 0)' >= Full
                        /\ Since(l, a)' >= 0
                        /\ a > last'[l] => Since(l, a)' = 0
                        /\ a <= last'[l] => NotTooMuch(l, a)'
                        /\ a <= last'[l] /\ l <= made' => NotTooLittle(l, a)'
      <3>1. 0 \in 0..now
        BY LimiterAssumption DEF LimitIInv, LimitInv, LimitTypeOK, Time
      <3> QED BY <3>1 DEF BucketInv
    <2>0. 0 \in 0..now /\ now \in Nat
      BY LimiterAssumption DEF LimitIInv, LimitInv, LimitTypeOK, Time
    <2>1. CASE l # new
      <3>1. level'[l] = level[l] /\ last'[l] = last[l] /\ (l <= made' <=> l <= made)
        BY <1>3, <1>4, <2>1
      <3>2. l > made' => l > made
        BY <1>1, <1>4 DEF Limiters
      <3> QED BY <2>0, <3>1, <3>2
              DEF LimitIInv, BucketInv, Since, Flow, NotTooMuch, NotTooLittle
    <2>2. CASE l = new
      <3>1. total[l] = 0 /\ before[l][a] = 0 /\ before[l][0] = 0
        BY <1>1, <2>0, <2>2 DEF LimitIInv, BucketInv
      <3>2. level'[l] = Full /\ last'[l] = now
        BY <1>3, <2>2
      <3>3. Since(l, a)' = 0 /\ Since(l, 0)' = 0
        BY <3>1 DEF Since
      <3>4. Flow(l, a)' = Full /\ Flow(l, 0)' = Full
        BY <3>2, <3>3, RateFacts DEF Flow
      <3>5. Rate * (now - a) \in Int /\ Rate * (now - a) >= 0
        BY <2>0, RateFacts, Times
      <3>6. NotTooMuch(l, a)' /\ NotTooLittle(l, a)'
        BY <3>2, <3>4, <3>5, RateFacts DEF NotTooMuch, NotTooLittle
      <3>7. ~ l > made'
        BY <1>1, <2>2
      <3> QED BY <3>3, <3>4, <3>6, <3>7, RateFacts
    <2> QED BY <2>1, <2>2
  <1> QED BY <1>6, <1>7, <1>8, <1>9 DEF LimitIInv

(***************************************************************************)
(* Allow: the bucket is refilled up to now; a token goes for a request.    *)
(***************************************************************************)
LEMMA AllowBucket ==
  ASSUME LimitIInv, NEW q \in Requests, Grant(q) \/ Refuse(q)
  PROVE  LET l == lim[q]
         IN  /\ l \in Limiters /\ l <= made
             /\ last' = [last EXCEPT ![l] = now]
             /\ \E g \in {0, 1} :
                  /\ level' = [level EXCEPT ![l] = Refilled(l) - g * Ticks]
                  /\ Refilled(l) - g * Ticks \in 0..Full
                  /\ total' = [total EXCEPT ![l] = @ + g]
  <1> DEFINE l == lim[q]
  <1>1. l \in Limiters /\ l <= made
    BY LimiterAssumption DEF LimitIInv, LimitInv, LimitTypeOK, Limiters, Grant, Refuse
  <1>2. Refilled(l) \in 0..Full
    BY <1>1, RefilledFacts DEF LimitIInv
  <1>3. CASE Grant(q)
    <2>1. 1 * Ticks = Ticks /\ Refilled(l) - Ticks \in 0..Full
      BY <1>2, <1>3, RateFacts DEF Grant
    <2> QED BY <1>1, <1>3, <2>1 DEF Grant
  <1>4. CASE Refuse(q)
    <2>1. 0 * Ticks = 0 /\ Refilled(l) - 0 = Refilled(l)
      BY <1>2, RateFacts
    <2>2. total = [total EXCEPT ![l] = @ + 0]
      BY <1>1 DEF LimitIInv, LimitInv, LimitTypeOK
    <2> QED BY <1>1, <1>2, <1>4, <2>1, <2>2 DEF Refuse
  <1> QED BY <1>3, <1>4

\* What goes out of the bucket is on the other side of the balance.
LEMMA AllowFlow ==
  ASSUME LimitIInv, NEW l \in Limiters, NEW g \in {0, 1}, NEW b \in 0..now,
         level' = [level EXCEPT ![l] = Refilled(l) - g * Ticks],
         total' = [total EXCEPT ![l] = @ + g],
         before' = before
  PROVE  /\ Since(l, b)' = Since(l, b) + g
         /\ Flow(l, b)' = Refilled(l) + Since(l, b) * Ticks
  <1>1. /\ total[l] \in Nat /\ before[l][b] \in Nat /\ Since(l, b) \in Int
        /\ Refilled(l) \in Nat
    BY BucketTypes, RefilledFacts, RateFacts DEF LimitIInv
  <1>2. Since(l, b)' = Since(l, b) + g
    BY <1>1 DEF LimitIInv, LimitInv, LimitTypeOK, Since
  <1>3. level'[l] = Refilled(l) - g * Ticks
    BY DEF LimitIInv, LimitInv, LimitTypeOK
  <1>4. (Since(l, b) + g) * Ticks = Since(l, b) * Ticks + g * Ticks
    BY <1>1, RateFacts, Times
  <1>5. Since(l, b) * Ticks \in Int /\ g * Ticks \in Int
    BY <1>1, RateFacts
  <1> QED BY <1>1, <1>2, <1>3, <1>4, <1>5 DEF Flow

LEMMA AllowBalance ==
  ASSUME LimitIInv, NEW l \in Limiters, l <= made, NEW b \in 0..now
  PROVE  LET flow == Refilled(l) + Since(l, b) * Ticks
         IN  /\ flow <= Full + Rate * (now - b)
             /\ flow >= Full \/ flow >= Rate * (now - b)
             /\ b = 0 => flow >= Full
  <1> DEFINE lv   == level[l]
             rest == Rate * (last[l] - b)
             add  == Rate * (now - last[l])
             all  == Rate * (now - b)
             s    == Since(l, b) * Ticks
             r    == Refilled(l)
  <1>1. /\ lv \in Nat /\ last[l] \in Nat /\ last[l] <= now /\ now \in Nat
        /\ b \in Nat /\ b <= now /\ Since(l, b) \in Int /\ Flow(l, b) = lv + s
    BY BucketTypes DEF LimitIInv, Flow
  <1>2. Since(l, b) >= 0 /\ (b > last[l] => Since(l, b) = 0)
    BY DEF LimitIInv, BucketInv
  <1>3. s \in Int /\ s >= 0 /\ (b > last[l] => s = 0)
    BY <1>1, <1>2, RateFacts, Times
  <1>4. /\ rest \in Int /\ add \in Int /\ all \in Int /\ add >= 0 /\ all >= 0
        /\ all = rest + add
    BY <1>1, RateFacts, Times
  <1>5. b > last[l] => all <= add
    <2>1. b > last[l] => Rate * (b - last[l]) >= 0 /\ Rate * (b - last[l]) \in Int
      BY <1>1, RateFacts, Times
    <2>2. add = all + Rate * (b - last[l])
      BY <1>1, RateFacts, Times
    <2> QED BY <1>4, <2>1, <2>2
  <1>6. r \in 0..Full /\ r <= lv + add /\ r >= lv /\ (r = Full \/ r = lv + add)
    BY RefilledFacts DEF LimitIInv
  <1>7. b <= last[l] => /\ lv + s <= Full + rest
                        /\ lv + s >= Full \/ lv + s >= rest
    BY <1>1 DEF LimitIInv, BucketInv, NotTooMuch, NotTooLittle
  <1>8. b = 0 => lv + s >= Full
    BY <1>1 DEF LimitIInv, BucketInv
  <1>9. Full \in Nat
    BY RateFacts
  <1> HIDE DEF lv, rest, add, all, s, r
  <1>10. CASE b <= last[l]
    BY <1>1, <1>3, <1>4, <1>6, <1>7, <1>8, <1>9, <1>10 DEF r, s, all
  <1>11. CASE b > last[l]
    BY <1>1, <1>3, <1>4, <1>5, <1>6, <1>8, <1>9, <1>11 DEF r, s, all
  <1> QED BY <1>1, <1>10, <1>11

LEMMA AllowInv ==
  ASSUME LimitIInv, NEW q \in Requests, Grant(q) \/ Refuse(q)
  PROVE  LimitIInv'
  <1> DEFINE l == lim[q]
  <1>1. l \in Limiters /\ l <= made /\ last' = [last EXCEPT ![l] = now]
    BY AllowBucket
  <1>2. PICK g \in {0, 1} :
          /\ level' = [level EXCEPT ![l] = Refilled(l) - g * Ticks]
          /\ Refilled(l) - g * Ticks \in 0..Full
          /\ total' = [total EXCEPT ![l] = @ + g]
    BY AllowBucket
  <1>3. /\ UNCHANGED <<now, tableVars, before>>
        /\ pc' = [pc EXCEPT ![q] = "idle"]
        /\ client' = [client EXCEPT ![q] = NoClient]
        /\ lim' = [lim EXCEPT ![q] = 0]
    BY DEF Grant, Refuse, Answered
  <1>4. LimitTypeOK'
    <2>1. total[l] + g \in Nat /\ now \in Time
      BY <1>1 DEF LimitIInv, LimitInv, LimitTypeOK
    <2>2. /\ level' \in [Limiters -> 0..Full]
          /\ last' \in [Limiters -> Time]
          /\ total' \in [Limiters -> Nat]
      BY <1>1, <1>2, <2>1 DEF LimitIInv, LimitInv, LimitTypeOK
    <2>3. 0 \in 0..MaxLimiters
      BY LimiterAssumption
    <2> QED BY <1>3, <2>2, <2>3 DEF LimitIInv, LimitInv, LimitTypeOK, tableVars
  <1>5. LimitInv'
    <2>1. \A m \in Limiters : last'[m] <= now
      <3>1. now <= now
        BY LimiterAssumption DEF LimitIInv, LimitInv, LimitTypeOK, Time
      <3> QED BY <1>1, <3>1 DEF LimitIInv, LimitInv, LimitTypeOK
    <2>2. ASSUME NEW r \in Requests
          PROVE  /\ pc'[r] = "idle" <=> client'[r] = NoClient
                 /\ pc'[r] = "allow" <=> lim'[r] # 0
                 /\ lim'[r] # 0 => owner[lim'[r]] = client'[r]
      BY <1>3 DEF LimitIInv, LimitInv, LimitTypeOK
    <2> QED BY <1>3, <1>4, <2>1, <2>2 DEF LimitIInv, LimitInv, tableVars
  <1>6. OneBucket' /\ InMap'
    BY <1>3 DEF LimitIInv, OneBucket, InMap, tableVars
  <1>7. BucketInv'
    <2> SUFFICES ASSUME NEW m \in Limiters, NEW a \in 0..now
                 PROVE  /\ m > made => total'[m] = 0 /\ before[m][a] = 0
                        /\ m <= made => Flow(m, 0)' >= Full
                        /\ Since(m, a)' >= 0
                        /\ a > last'[m] => Since(m, a)' = 0
                        /\ a <= last'[m] => NotTooMuch(m, a)'
                        /\ a <= last'[m] /\ m <= made => NotTooLittle(m, a)'
      <3>1. 0 \in 0..now
        BY LimiterAssumption DEF LimitIInv, LimitInv, LimitTypeOK, Time
      <3> QED BY <1>3, <3>1 DEF BucketInv, tableVars
    <2>0. 0 \in 0..now /\ now \in Nat
      BY LimiterAssumption DEF LimitIInv, LimitInv, LimitTypeOK, Time
    <2>1. CASE m # l
      <3>1. level'[m] = level[m] /\ last'[m] = last[m] /\ total'[m] = total[m]
        BY <1>1, <1>2, <2>1 DEF LimitIInv, LimitInv, LimitTypeOK
      <3> QED BY <1>3, <2>0, <3>1
              DEF LimitIInv, BucketInv, Since, Flow, NotTooMuch, NotTooLittle, tableVars
    <2>2. CASE m = l
      <3>1. /\ level' = [level EXCEPT ![m] = Refilled(m) - g * Ticks]
            /\ total' = [total EXCEPT ![m] = @ + g]
            /\ before' = before /\ now' = now /\ last'[m] = now /\ m <= made
        BY <1>1, <1>2, <1>3, <2>2 DEF LimitIInv, LimitInv, LimitTypeOK
      <3>2. /\ Since(m, a)' = Since(m, a) + g
            /\ Flow(m, a)' = Refilled(m) + Since(m, a) * Ticks
            /\ Flow(m, 0)' = Refilled(m) + Since(m, 0) * Ticks
        BY <2>0, <3>1, AllowFlow
      <3>3. Since(m, a) \in Int /\ Since(m, a) >= 0
        BY BucketTypes DEF LimitIInv, BucketInv
      <3>4. NotTooMuch(m, a)' /\ NotTooLittle(m, a)'
        BY <3>1, <3>2, AllowBalance DEF NotTooMuch, NotTooLittle
      <3>5. Flow(m, 0)' >= Full
        BY <2>0, <3>1, <3>2, AllowBalance
      <3>6. ~ a > now /\ ~ m > made
        BY <2>0, <3>1, LimiterAssumption DEF LimitIInv, LimitInv, LimitTypeOK, Limiters
      <3> QED BY <3>1, <3>2, <3>3, <3>4, <3>5, <3>6
    <2> QED BY <2>1, <2>2
  <1> QED BY <1>5, <1>6, <1>7 DEF LimitIInv

THEOREM LimitInvariance == LimitSpec => []LimitIInv
  <1>1. LimitIInv /\ [LimitNext]_limitVars => LimitIInv'
    <2> SUFFICES ASSUME LimitIInv, [LimitNext]_limitVars PROVE LimitIInv'
      OBVIOUS
    <2>1. CASE Tick
      BY <2>1, TickInv
    <2>2. CASE Cleanup
      BY <2>2, CleanupInv
    <2>3. ASSUME NEW q \in Requests,
                 (\E c \in Clients : Arrive(q, c)) \/ Found(q) \/ NotFound(q)
          PROVE  LimitIInv'
      BY <2>3, RequestsOnly
    <2>4. ASSUME NEW q \in Requests, Make(q) PROVE LimitIInv'
      BY <2>4, MakeInv
    <2>5. ASSUME NEW q \in Requests, Grant(q) \/ Refuse(q) PROVE LimitIInv'
      BY <2>5, AllowInv
    <2>6. CASE UNCHANGED limitVars
      <3>1. LimitInv'
        BY <2>6 DEF limitVars, tableVars, bucketVars, requestVars, LimitIInv, LimitInv, LimitTypeOK
      <3>2. OneBucket' /\ InMap'
        BY <2>6 DEF limitVars, tableVars, LimitIInv, OneBucket, InMap
      <3>3. BucketInv'
        BY <2>6, SameBuckets DEF limitVars, tableVars
      <3> QED BY <3>1, <3>2, <3>3 DEF LimitIInv
    <2> QED BY <2>1, <2>2, <2>3, <2>4, <2>5, <2>6 DEF LimitNext
  <1> QED BY <1>1, LimitInitInv, PTL DEF LimitSpec

\* Every variable keeps its type, and the table, the buckets and the requests under
\* way agree about whose a bucket is (GetLimiter, Allow, cleanupLoop).
THEOREM LimitersAgree == LimitSpec => []LimitInv
  <1>1. LimitIInv => LimitInv
    BY DEF LimitIInv
  <1> QED BY <1>1, LimitInvariance, PTL

\* A client has one bucket between two rounds of the cleanup loop, whatever requests
\* come at once (GetLimiter: the second look under the write lock).
THEOREM OneBucketPerRound == LimitSpec => []OneBucket
  <1>1. LimitIInv => OneBucket
    BY DEF LimitIInv
  <1> QED BY <1>1, LimitInvariance, PTL

\* In every window a bucket lets through at most a burst and what the window is
\* worth, for every rate and every length of a tick (Allow).
THEOREM WindowsAreBounded == LimitSpec => []WindowBound
  <1>1. LimitIInv => WindowBound
    <2> SUFFICES ASSUME LimitIInv, NEW l \in Limiters, NEW a \in 0..now
                 PROVE  Since(l, a) * Ticks <= Full + Rate * (now - a)
      BY DEF WindowBound
    <2> DEFINE s    == Since(l, a) * Ticks
               rest == Rate * (last[l] - a)
               add  == Rate * (now - last[l])
               all  == Rate * (now - a)
    <2>1. /\ level[l] \in Nat /\ last[l] \in Nat /\ last[l] <= now /\ now \in Nat
          /\ a \in Nat /\ a <= now /\ Since(l, a) \in Int /\ Flow(l, a) = level[l] + s
      BY BucketTypes DEF LimitIInv, Flow
    <2>2. /\ s \in Int /\ rest \in Int /\ add \in Int /\ all \in Int
          /\ all = rest + add /\ add >= 0 /\ all >= 0
      BY <2>1, RateFacts, Times
    <2>3. a <= last[l] => level[l] + s <= Full + rest
      BY <2>1 DEF LimitIInv, BucketInv, NotTooMuch
    <2>4. a > last[l] => s = 0
      BY <2>1, RateFacts DEF LimitIInv, BucketInv
    <2>5. Full \in Nat
      BY RateFacts
    <2>6. s <= Full + all
      <3> HIDE DEF s, rest, add, all
      <3> QED BY <2>1, <2>2, <2>3, <2>4, <2>5
    <2> QED BY <2>6
  <1> QED BY <1>1, LimitInvariance, PTL

\* A request is refused only after a second in which its bucket let through Rate
\* others (Allow, ClientRateLimit).
THEOREM RefusalsAreDeserved == LimitSpec => []NoFalseRefusal
  <1>1. LimitIInv => NoFalseRefusal
    <2> SUFFICES ASSUME LimitIInv, NEW q \in Requests, pc[q] = "allow",
                        Refilled(lim[q]) < Ticks
                 PROVE  Since(lim[q], ASecondAgo) >= Rate
      BY DEF NoFalseRefusal
    <2> DEFINE l == lim[q]
               a == ASecondAgo
    <2>1. l \in Limiters /\ l <= made
      BY LimiterAssumption DEF LimitIInv, LimitInv, LimitTypeOK, Limiters
    <2>2. now \in Nat /\ a \in 0..now /\ (a = 0 \/ now - a = Ticks)
      BY LimiterAssumption, RateFacts DEF LimitIInv, LimitInv, LimitTypeOK, Time, ASecondAgo
    <2>3. Refilled(l) \in Nat /\ Since(l, a) \in Int
      BY <2>1, <2>2, RefilledFacts, BucketTypes, RateFacts DEF LimitIInv
    <2>4. Refilled(l) + Since(l, a) * Ticks >= Full
      <3>1. CASE a = 0
        BY <2>1, <2>2, <3>1, AllowBalance
      <3>2. CASE now - a = Ticks
        <4>1. Rate * (now - a) = Full
          BY <3>2 DEF Full
        <4> QED BY <2>1, <2>2, <4>1, AllowBalance
      <3> QED BY <2>2, <3>1, <3>2
    <2> DEFINE S == Since(l, a)
               R == Refilled(l)
    <2>5. ASSUME S < Rate PROVE FALSE
      <3>1. Ticks * (Rate - S) >= Ticks
        BY <2>3, <2>5, RateFacts, Times
      <3>2. Ticks * (Rate - S) = Full - S * Ticks
        BY <2>3, RateFacts, Times DEF Full
      <3>3. S * Ticks \in Int /\ Full \in Nat /\ R < Ticks /\ R \in Nat
        BY <2>3, RateFacts
      <3> HIDE DEF S, R
      <3> QED BY <2>4, <3>1, <3>2, <3>3, RateFacts DEF S, R
    <2> QED BY <2>3, <2>5, RateFacts
  <1> QED BY <1>1, LimitInvariance, PTL

=============================================================================
