----------------------------- MODULE RateLimiter -----------------------------
(***************************************************************************)
(* The rate limit in front of the API (internal/api/middleware/            *)
(* ratelimit.go): a token bucket per client, handed out by                 *)
(* ClientRateLimiter and emptied into the garbage by its cleanup loop.     *)
(* Requests run concurrently; what happens under a lock is one step.       *)
(*                                                                         *)
(* A second has Ticks ticks.  The bucket is counted in Ticks-ths of a      *)
(* token, so that a tick refills a whole number of them: the rounding of   *)
(* the float64 is left out.                                                *)
(***************************************************************************)
EXTENDS Integers

CONSTANTS
  Clients,      \* X-Forwarded-For or the remote address
  Requests,     \* goroutines that serve requests
  Rps,          \* queue.rate_limit_rps
  Ticks,        \* ticks of a second
  MaxTime,      \* bound on the clock
  MaxCleanups,  \* bound on the rounds of the cleanup loop
  MaxLimiters,  \* bound on the limiters that are made
  NoClient      \* no client

ASSUME LimiterAssumption ==
  /\ Rps \in Int
  /\ Ticks \in Nat \ {0}
  /\ {MaxTime, MaxCleanups, MaxLimiters} \subseteq Nat
  /\ NoClient \notin Clients

VARIABLES
  now,
  cleanups,  \* rounds of cleanupLoop so far
  table,     \* ClientRateLimiter.limiters; 0 for none
  made,      \* limiters are numbered as they are made
  owner,     \* whom a limiter was made for
  born,      \* cleanups when it was made
  level,     \* RateLimiter.tokens
  last,      \* RateLimiter.lastRefill
  total,     \* requests it has let through
  before,    \* of these, the ones before a given time
  pc,        \* where a request is in ClientRateLimit
  client,    \* its client
  lim        \* the limiter it was given

bucketVars  == <<level, last, total, before>>
tableVars   == <<cleanups, table, made, owner, born>>
requestVars == <<pc, client, lim>>
limitVars   == <<now, tableVars, bucketVars, requestVars>>

Limiters == 1..MaxLimiters

Time == 0..MaxTime

\* NewRateLimiter.
Rate == IF Rps > 0 THEN Rps ELSE 1000

Full == Rate * Ticks

LimitTypeOK ==
  /\ now \in Time /\ cleanups \in 0..MaxCleanups
  /\ table \in [Clients -> 0..MaxLimiters]
  /\ made \in 0..MaxLimiters
  /\ owner \in [Limiters -> Clients \union {NoClient}]
  /\ born \in [Limiters -> 0..MaxCleanups]
  /\ level \in [Limiters -> 0..Full]
  /\ last \in [Limiters -> Time]
  /\ total \in [Limiters -> Nat]
  /\ before \in [Limiters -> [Time -> Nat]]
  /\ pc \in [Requests -> {"idle", "lookup", "create", "allow"}]
  /\ client \in [Requests -> Clients \union {NoClient}]
  /\ lim \in [Requests -> 0..MaxLimiters]

LimitInit ==
  /\ now = 0 /\ cleanups = 0 /\ made = 0
  /\ table = [c \in Clients |-> 0]
  /\ owner = [l \in Limiters |-> NoClient]
  /\ born = [l \in Limiters |-> 0]
  /\ level = [l \in Limiters |-> 0]
  /\ last = [l \in Limiters |-> 0]
  /\ total = [l \in Limiters |-> 0]
  /\ before = [l \in Limiters |-> [a \in Time |-> 0]]
  /\ pc = [q \in Requests |-> "idle"]
  /\ client = [q \in Requests |-> NoClient]
  /\ lim = [q \in Requests |-> 0]

\* The clock moves on.
Tick ==
  /\ now < MaxTime
  /\ now' = now + 1
  /\ before' = [l \in Limiters |-> [before[l] EXCEPT ![now + 1] = total[l]]]
  /\ UNCHANGED <<tableVars, level, last, total, requestVars>>

\* A round of cleanupLoop replaces the map, whoever holds a limiter of the old one.
Cleanup ==
  /\ cleanups < MaxCleanups
  /\ cleanups' = cleanups + 1
  /\ table' = [c \in Clients |-> 0]
  /\ UNCHANGED <<now, made, owner, born, bucketVars, requestVars>>

(***************************************************************************)
(* ClientRateLimit and GetLimiter: a look under the read lock, and when it *)
(* found nothing another under the write lock.                             *)
(***************************************************************************)
Arrive(q, c) ==
  /\ pc[q] = "idle"
  /\ pc' = [pc EXCEPT ![q] = "lookup"]
  /\ client' = [client EXCEPT ![q] = c]
  /\ UNCHANGED <<now, tableVars, bucketVars, lim>>

Given(q, l) ==
  /\ pc' = [pc EXCEPT ![q] = "allow"]
  /\ lim' = [lim EXCEPT ![q] = l]
  /\ UNCHANGED <<now, cleanups, client>>

Found(q) ==
  /\ pc[q] \in {"lookup", "create"}
  /\ table[client[q]] # 0
  /\ Given(q, table[client[q]])
  /\ UNCHANGED <<table, made, owner, born, bucketVars>>

NotFound(q) ==
  /\ pc[q] = "lookup"
  /\ table[client[q]] = 0
  /\ pc' = [pc EXCEPT ![q] = "create"]
  /\ UNCHANGED <<now, tableVars, bucketVars, client, lim>>

MakeLimiter(q) ==
  /\ made < MaxLimiters
  /\ made' = made + 1
  /\ table' = [table EXCEPT ![client[q]] = made + 1]
  /\ owner' = [owner EXCEPT ![made + 1] = client[q]]
  /\ born' = [born EXCEPT ![made + 1] = cleanups]
  /\ level' = [level EXCEPT ![made + 1] = Full]
  /\ last' = [last EXCEPT ![made + 1] = now]
  /\ Given(q, made + 1)
  /\ UNCHANGED <<total, before>>

\* Variant: the map is not looked at again under the write lock.
MakeUnseen(q) ==
  /\ pc[q] = "create"
  /\ MakeLimiter(q)

Make(q) ==
  /\ pc[q] = "create"
  /\ table[client[q]] = 0
  /\ MakeLimiter(q)

(***************************************************************************)
(* Allow.                                                                  *)
(***************************************************************************)
AtMost(n, max) == IF n > max THEN max ELSE n

\* Variants: without the cap; with a whole number of seconds.
RefilledAbove(l) == level[l] + (now - last[l]) * Rate

RefilledWhole(l) == AtMost(level[l] + ((now - last[l]) \div Ticks) * Ticks * Rate, Full)

Refilled(l) == AtMost(level[l] + (now - last[l]) * Rate, Full)

Answered(q) ==
  /\ pc' = [pc EXCEPT ![q] = "idle"]
  /\ client' = [client EXCEPT ![q] = NoClient]
  /\ lim' = [lim EXCEPT ![q] = 0]
  /\ UNCHANGED <<now, tableVars, before>>

\* Variant: any rest of a token will do.
GrantRest(q) ==
  /\ pc[q] = "allow"
  /\ Refilled(lim[q]) > 0
  /\ level' = [level EXCEPT ![lim[q]] = Refilled(lim[q]) - Ticks]
  /\ last' = [last EXCEPT ![lim[q]] = now]
  /\ total' = [total EXCEPT ![lim[q]] = @ + 1]
  /\ Answered(q)

Grant(q) ==
  /\ pc[q] = "allow"
  /\ Refilled(lim[q]) >= Ticks
  /\ level' = [level EXCEPT ![lim[q]] = Refilled(lim[q]) - Ticks]
  /\ last' = [last EXCEPT ![lim[q]] = now]
  /\ total' = [total EXCEPT ![lim[q]] = @ + 1]
  /\ Answered(q)

\* 429.
Refuse(q) ==
  /\ pc[q] = "allow"
  /\ Refilled(lim[q]) < Ticks
  /\ level' = [level EXCEPT ![lim[q]] = Refilled(lim[q])]
  /\ last' = [last EXCEPT ![lim[q]] = now]
  /\ Answered(q)
  /\ UNCHANGED total

LimitNext ==
  \/ Tick \/ Cleanup
  \/ \E q \in Requests :
       \/ \E c \in Clients : Arrive(q, c)
       \/ Found(q) \/ NotFound(q) \/ Make(q)
       \/ Grant(q) \/ Refuse(q)

LimitSpec == LimitInit /\ [][LimitNext]_limitVars

(***************************************************************************)
(* Properties.                                                             *)
(***************************************************************************)

\* Only limiters that were made are in use, by the client they were made for, and
\* the map holds limiters of the present round (GetLimiter, cleanupLoop).
LimitInv ==
  /\ LimitTypeOK
  /\ \A l \in Limiters : owner[l] # NoClient <=> l <= made
  /\ \A l \in Limiters : born[l] <= cleanups /\ last[l] <= now
  /\ \A c \in Clients : table[c] # 0 =>
       owner[table[c]] = c /\ born[table[c]] = cleanups
  /\ \A q \in Requests :
       /\ pc[q] = "idle" <=> client[q] = NoClient
       /\ pc[q] = "allow" <=> lim[q] # 0
       /\ lim[q] # 0 => owner[lim[q]] = client[q]

\* Between two rounds of the cleanup loop all requests of a client draw on one
\* bucket, however many of them come first at once (GetLimiter's second look).
OneBucket ==
  \A l, m \in 1..made : owner[l] = owner[m] /\ born[l] = born[m] => l = m

Since(l, a) == total[l] - before[l][a]

\* From any moment on a bucket lets through at most a burst of Rate requests and
\* Rate more a second: no order of requests, refills and pauses gets past it
\* (Allow: the cap, and lastRefill moving with every refill).
WindowBound ==
  \A l \in Limiters, a \in 0..now :
    Since(l, a) * Ticks <= Full + Rate * (now - a)

ASecondAgo == IF now < Ticks THEN 0 ELSE now - Ticks

\* Who is refused has had Rate requests let through within the last second:
\* a client below the limit is served, and one that was refused is after the
\* second that Retry-After names (Allow, ClientRateLimit).
NoFalseRefusal ==
  \A q \in Requests :
    pc[q] = "allow" /\ Refilled(lim[q]) < Ticks => Since(lim[q], ASecondAgo) >= Rate

(***************************************************************************)
(* The inductive invariant.  For a bucket: what it holds and what it has   *)
(* let through since time a, in Ticks-ths of a request, against what it    *)
(* was refilled with since then.                                           *)
(***************************************************************************)
Flow(l, a) == level[l] + Since(l, a) * Ticks

NotTooMuch(l, a) == Flow(l, a) <= Full + Rate * (last[l] - a)

NotTooLittle(l, a) == Flow(l, a) >= Full \/ Flow(l, a) >= Rate * (last[l] - a)

BucketInv ==
  \A l \in Limiters :
    /\ l > made => total[l] = 0
    /\ l <= made => Flow(l, 0) >= Full
    /\ \A a \in 0..now :
         /\ Since(l, a) >= 0
         /\ l > made => before[l][a] = 0
         /\ a > last[l] => Since(l, a) = 0
         /\ a <= last[l] => NotTooMuch(l, a)
         /\ a <= last[l] /\ l <= made => NotTooLittle(l, a)

\* A limiter stays in the map until the next round.
InMap ==
  \A l \in Limiters : l <= made /\ born[l] = cleanups => table[owner[l]] = l

LimitIInv == LimitInv /\ OneBucket /\ InMap /\ BucketInv

=============================================================================
