---------------------------- MODULE RpmLimiter ----------------------------
(***************************************************************************)
(* The requests-per-minute budget that the worker processes share through  *)
(* a Redis sorted set (src/llm/rate_limiter.py).  The Lua script is atomic,*)
(* so a try is one step; any number of coroutines of a process may be      *)
(* trying, waiting and falling back to the process's own window, and the   *)
(* client they share can be dropped by one of them and opened again by     *)
(* another.  A tick is one millisecond of the script's clock.              *)
(***************************************************************************)
EXTENDS Naturals, FiniteSets, FiniteSetsExt

CONSTANTS
    Procs,   \* worker processes (WORKER_COUNT)
    Rpm,     \* LLM_MAX_RPM, not 0: the limiter is on
    Minute,  \* ticks in the window
    MaxUnlisted  \* bound on the misread slots of a minute

ASSUME RpmConstants ==
    /\ IsFiniteSet(Procs) /\ Procs /= {}
    /\ Rpm \in Nat \ {0} /\ Minute \in Nat \ {0}
    /\ MaxUnlisted \in Nat

VARIABLES
    zset,       \* the sorted set: slots by age
    unlisted,   \* slots granted without an entry, by age
    local,      \* each process's degraded window: slots by age
    redisClient,\* processes that hold a Redis client
    degraded,   \* processes whose degraded window exists
    looping     \* processes with a coroutine in the Redis wait loop

rpmVars == <<zset, unlisted, local, redisClient, degraded, looping>>

Milliseconds == 0..(Minute - 1)
Window == [Milliseconds -> Nat]
NoSlots == [a \in Milliseconds |-> 0]

RpmTypeOK ==
    /\ zset \in Window /\ unlisted \in Window
    /\ local \in [Procs -> Window]
    /\ redisClient \subseteq Procs /\ degraded \subseteq Procs
    /\ looping \subseteq redisClient \cup degraded
    /\ \A p \in Procs: local[p] /= NoSlots => p \in degraded

RpmInit ==
    /\ zset = NoSlots /\ unlisted = NoSlots
    /\ local = [p \in Procs |-> NoSlots]
    /\ redisClient = {} /\ degraded = {} /\ looping = {}

Slots(w) == MapThenSumSet(LAMBDA a: w[a], Milliseconds)

Take(w) == [w EXCEPT ![0] = @ + 1]

\* Entries a minute old are removed before the count: their age is out of range.
Aged(w) == [a \in Milliseconds |-> IF a = 0 THEN 0 ELSE w[a - 1]]

SlotFree(w) == Slots(w) < Rpm

\* Milliseconds until the oldest entry leaves.
Remaining(w) ==
    Minute - CHOOSE a \in Milliseconds: w[a] > 0 /\ \A b \in Milliseconds: w[b] > 0 => b <= a

\* The script returns 1 for a slot and the remaining wait otherwise; the caller
\* takes every 1 for a slot.
Misread(w) == ~SlotFree(w) /\ Remaining(w) = 1

\* Variant: every degraded process takes the whole budget.
LocalBudget_Whole == Rpm

LocalBudget ==
    IF Rpm \div Cardinality(Procs) > 1 THEN Rpm \div Cardinality(Procs) ELSE 1

\* A new call goes to Redis unless the process has failed over and no other
\* coroutine has opened the client again; one in the wait loop always does.
TriesRedis(p) == p \notin degraded \/ p \in redisClient \/ p \in looping

\* Any waiting coroutine may be the one that is served; others may still wait.
Leave(p) == looping' \in {looping, looping \ {p}}

RedisAcquire(p) ==
    /\ TriesRedis(p)
    /\ redisClient' = redisClient \cup {p}
    /\ \/ /\ SlotFree(zset)
          /\ zset' = Take(zset) /\ Leave(p) /\ UNCHANGED unlisted
       \/ /\ Misread(zset) /\ Slots(unlisted) < MaxUnlisted
          /\ unlisted' = Take(unlisted) /\ Leave(p) /\ UNCHANGED zset
       \/ /\ ~SlotFree(zset) /\ ~Misread(zset)
          /\ looping' = looping \cup {p} /\ UNCHANGED <<zset, unlisted>>
    /\ UNCHANGED <<local, degraded>>

\* A connection error or a time-out; the script may have run all the same.
RedisError(p) ==
    /\ TriesRedis(p)
    /\ redisClient' = redisClient \ {p}
    /\ degraded' = degraded \cup {p}
    /\ \/ zset' = IF SlotFree(zset) THEN Take(zset) ELSE zset
       \/ UNCHANGED zset
    /\ Leave(p)
    /\ UNCHANGED <<unlisted, local>>

\* Variant: the degraded window is used without a failure.
LocalAcquire_Always(p) ==
    /\ Slots(local[p]) < LocalBudget
    /\ local' = [local EXCEPT ![p] = Take(@)]
    /\ UNCHANGED <<zset, unlisted, redisClient, degraded, looping>>

\* The call that saw the error, or a later one, uses the process's own window.
LocalAcquire(p) ==
    /\ p \in degraded
    /\ Slots(local[p]) < LocalBudget
    /\ local' = [local EXCEPT ![p] = Take(@)]
    /\ UNCHANGED <<zset, unlisted, redisClient, degraded, looping>>

RpmTick ==
    /\ zset' = Aged(zset) /\ unlisted' = Aged(unlisted)
    /\ local' = [p \in Procs |-> Aged(local[p])]
    /\ UNCHANGED <<redisClient, degraded, looping>>

RpmNext ==
    \/ \E p \in Procs: RedisAcquire(p) \/ RedisError(p) \/ LocalAcquire(p)
    \/ RpmTick

RpmSpec == RpmInit /\ [][RpmNext]_rpmVars

(***************************************************************************)
(* Properties.                                                             *)
(***************************************************************************)
LocalSlots == MapThenSumSet(LAMBDA p: Slots(local[p]), Procs)

\* Whatever mix of Redis answers and failures the processes see, and although a
\* process may go back and forth between the two windows (rate_limiter.py:104-131),
\* a minute never holds more than twice the budget (or the budget and one slot per
\* process), apart from the slots granted by misreading a wait of 1 ms (line 146).
FleetAtMostTwice ==
    Slots(zset) + LocalSlots <=
        Rpm + (IF Rpm > Cardinality(Procs) THEN Rpm ELSE Cardinality(Procs))
=============================================================================
