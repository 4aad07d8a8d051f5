----------------------------- MODULE RateLimiter -----------------------------
(***************************************************************************)
(* The token buckets of middleware/ratelimit.go.  A bucket refills Burst   *)
(* tokens in Window ticks; tokens are counted in parts, Window of them a   *)
(* token, so that the refill of a tick is Burst parts.  A janitor forgets  *)
(* buckets that nobody used, a restart forgets all.                        *)
(***************************************************************************)
EXTENDS Integers

CONSTANTS
    Keys,      \* callers: addresses, or tenants
    Burst,     \* requests of a window
    Window,    \* ticks of a window: the code's 60 seconds
    Idle,      \* ticks after which the janitor forgets a bucket: 10 minutes
    MaxTicks,  \* bound: ticks of the clock
    MaxStarts  \* bound: restarts of the process

ASSUME LimiterAssumption ==
    /\ Burst \in Nat \ {0} /\ Window \in Nat \ {0}
    /\ Idle \in Nat /\ Idle >= Window
    /\ MaxTicks \in Nat /\ MaxStarts \in Nat

VARIABLES
    clock,     \* the clock
    held,      \* whether there is a bucket for each key
    tokens,    \* the parts in each bucket at its last refill
    lastRefill,\* the time of the last refill of each bucket
    mark,      \* ghost: since when requests are counted
    allowed,   \* ghost: requests of each key let through since then
    restarts   \* ghost: restarts since then

limiterVars == <<clock, held, tokens, lastRefill, mark, allowed, restarts>>

Full == Burst * Window

LimiterInit ==
    /\ clock = 0
    /\ held = [k \in Keys |-> FALSE]
    /\ tokens = [k \in Keys |-> 0]
    /\ lastRefill = [k \in Keys |-> 0]
    /\ mark = 0 /\ restarts = 0
    /\ allowed = [k \in Keys |-> 0]

Elapsed(k) == clock - lastRefill[k]

\* Mutant of Refilled: the bucket is not capped.
RefilledEndless(k) == tokens[k] + Elapsed(k) * Burst

\* What is in the bucket of k now.
Refilled(k) ==
    IF tokens[k] + Elapsed(k) * Burst > Full THEN Full ELSE tokens[k] + Elapsed(k) * Burst

\* The first request of a key: it gets a bucket.
AllowFirst(k) ==
    /\ ~held[k]
    /\ held' = [held EXCEPT ![k] = TRUE]
    /\ tokens' = [tokens EXCEPT ![k] = Full - Window]
    /\ lastRefill' = [lastRefill EXCEPT ![k] = clock]
    /\ allowed' = [allowed EXCEPT ![k] = @ + 1]
    /\ UNCHANGED <<clock, mark, restarts>>

Allow(k) ==
    /\ held[k] /\ Refilled(k) >= Window
    /\ tokens' = [tokens EXCEPT ![k] = Refilled(k) - Window]
    /\ lastRefill' = [lastRefill EXCEPT ![k] = clock]
    /\ allowed' = [allowed EXCEPT ![k] = @ + 1]
    /\ UNCHANGED <<clock, held, mark, restarts>>

\* A refused request refills the bucket too.
Refuse(k) ==
    /\ held[k] /\ Refilled(k) < Window
    /\ tokens' = [tokens EXCEPT ![k] = Refilled(k)]
    /\ lastRefill' = [lastRefill EXCEPT ![k] = clock]
    /\ UNCHANGED <<clock, held, mark, allowed, restarts>>

Evict(k) ==
    /\ held[k] /\ Elapsed(k) > Idle
    /\ held' = [held EXCEPT ![k] = FALSE]
    /\ UNCHANGED <<clock, tokens, lastRefill, mark, allowed, restarts>>

LimiterRestarts ==
    /\ restarts < MaxStarts
    /\ held' = [k \in Keys |-> FALSE]
    /\ restarts' = restarts + 1
    /\ UNCHANGED <<clock, tokens, lastRefill, mark, allowed>>

LimiterTick ==
    /\ clock < MaxTicks
    /\ clock' = clock + 1
    /\ UNCHANGED <<held, tokens, lastRefill, mark, allowed, restarts>>

\* Ghost: from now on requests are counted.
StartCounting ==
    /\ mark' = clock /\ restarts' = 0
    /\ allowed' = [k \in Keys |-> 0]
    /\ UNCHANGED <<clock, held, tokens, lastRefill>>

LimiterStep ==
    \/ LimiterTick \/ LimiterRestarts \/ StartCounting
    \/ \E k \in Keys : AllowFirst(k) \/ Allow(k) \/ Refuse(k) \/ Evict(k)

\* Whenever one starts to count, a key gets at most a full bucket and what
\* flows in since, and a full bucket more for each restart; that the janitor
\* forgets a bucket gives nothing away.
RequestsBounded ==
    \A k \in Keys : allowed[k] * Window <= Full + restarts * Full + (clock - mark) * Burst

LimiterTypeOK ==
    /\ clock \in Nat /\ mark \in 0 .. clock /\ restarts \in Nat
    /\ held \in [Keys -> BOOLEAN] /\ allowed \in [Keys -> Nat]
    /\ tokens \in [Keys -> 0 .. Full]
    /\ lastRefill \in [Keys -> 0 .. clock]
=============================================================================
