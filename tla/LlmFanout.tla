----------------------------- MODULE LlmFanout -----------------------------
(***************************************************************************)
(* The fan-out of one batch over the LLM gateway                           *)
(* (src/agent/simulator.py, src/llm/openai_compatible_adapter.py).  Every  *)
(* persona is a coroutine that holds a place of the semaphore from its     *)
(* first attempt to its report, back-off included; all of them share one   *)
(* HTTP client, which any of them may replace when its connection breaks.  *)
(***************************************************************************)
EXTENDS Naturals, FiniteSets

CONSTANTS
    Personas,
    Concurrency,  \* places of the semaphore
    Attempts,     \* LLM_RETRY_ATTEMPTS + 1
    MaxPools      \* bound on the HTTP clients built

ASSUME FanoutConstants ==
    /\ IsFiniteSet(Personas)
    /\ Concurrency \in Nat \ {0} /\ Attempts \in Nat \ {0} /\ MaxPools \in Nat \ {0}

VARIABLES
    coro,    \* each persona's coroutine
    pool,    \* self.client
    open,    \* clients that were built and not closed
    done,    \* completed["n"]
    gather   \* BatchSimulator.run

fanoutVars == <<coro, pool, open, done, gather>>

Pools == 1..MaxPools

\* A place is held from "limited" (in acquire_llm_slot) to "report".
Inside == {"limited", "call", "recall", "reset", "sleep", "report"}
Coroutine == [step: Inside \cup {"wait", "done", "raised", "gone"},
              attempt: 0..(Attempts - 1), on: Pools]

FanoutTypeOK ==
    /\ coro \in [Personas -> Coroutine]
    /\ pool \in Pools /\ open \subseteq Pools
    /\ done \in 0..Cardinality(Personas)
    /\ gather \in {"running", "closing", "closed", "returned", "failed"}
    /\ Cardinality({p \in Personas: coro[p].step \in Inside}) <= Concurrency

FanoutInit ==
    /\ coro = [p \in Personas |-> [step |-> "wait", attempt |-> 0, on |-> 1]]
    /\ pool = 1 /\ open = {1} /\ done = 0
    /\ gather = "running"

At(p, steps) == coro[p].step \in steps

Goes(p, step) == coro' = [coro EXCEPT ![p].step = step]

\* The attempt is over without an answer: sleep and try again, or report the error.
Fails(p) ==
    coro' = [coro EXCEPT ![p].step = IF coro[p].attempt + 1 < Attempts THEN "sleep" ELSE "report",
                         ![p].on = 1]

\* Variant: no semaphore.
EnterSemaphore_Free(p) ==
    /\ At(p, {"wait"})
    /\ Goes(p, "limited")
    /\ UNCHANGED <<pool, open, done, gather>>

EnterSemaphore(p) ==
    /\ At(p, {"wait"})
    /\ Cardinality({q \in Personas: At(q, Inside)}) < Concurrency
    /\ Goes(p, "limited")
    /\ UNCHANGED <<pool, open, done, gather>>

\* acquire_llm_slot returns; the request goes out on the client of this moment.
Send(p) ==
    /\ At(p, {"limited"})
    /\ coro' = [coro EXCEPT ![p].step = "call", ![p].on = pool]
    /\ UNCHANGED <<pool, open, done, gather>>

ReceiveAnswer(p) ==
    /\ At(p, {"call", "recall"}) /\ coro[p].on \in open
    /\ coro' = [coro EXCEPT ![p].step = "report", ![p].on = 1]
    /\ UNCHANGED <<pool, open, done, gather>>

\* The provider refuses, or the client was closed under the request and its error
\* is not a connection error.
ReceiveError(p) ==
    /\ At(p, {"call", "recall"})
    /\ Fails(p)
    /\ UNCHANGED <<pool, open, done, gather>>

\* _reset_client: a new client takes the place of the broken one, which is closed
\* afterwards: the close awaits.
ConnectionLost(p) ==
    /\ At(p, {"call"}) /\ pool < MaxPools
    /\ pool' = pool + 1 /\ open' = open \cup {pool + 1}
    /\ coro' = [coro EXCEPT ![p].step = "reset", ![p].on = pool]
    /\ UNCHANGED <<done, gather>>

\* Variant: the client that is current by now is closed.
Broken_Current(p) == pool

\* The client that is closed is the one this coroutine replaced.
Broken(p) == coro[p].on

CloseBroken(p) ==
    /\ At(p, {"reset"})
    /\ open' = open \ {Broken(p)}
    /\ coro' = [coro EXCEPT ![p].step = "recall", ![p].on = pool]
    /\ UNCHANGED <<pool, done, gather>>

\* The second connection error of an attempt is a RuntimeError.
ConnectionLostAgain(p) ==
    /\ At(p, {"recall"})
    /\ Fails(p)
    /\ UNCHANGED <<pool, open, done, gather>>

\* Variant: wait_for covers the HTTP call only.
TimesOut_CallOnly(p) == At(p, {"call", "recall"})

\* wait_for ends the whole attempt, the wait for a slot and the reset included.
TimesOut(p) == At(p, {"limited", "call", "recall", "reset"})

AttemptTimeout(p) ==
    /\ TimesOut(p)
    /\ Fails(p)
    /\ UNCHANGED <<pool, open, done, gather>>

Wake(p) ==
    /\ At(p, {"sleep"})
    /\ coro' = [coro EXCEPT ![p].step = "limited", ![p].attempt = @ + 1]
    /\ UNCHANGED <<pool, open, done, gather>>

\* Variant: completed is counted after the callbacks.
Report_CountLast(p) ==
    /\ At(p, {"report"})
    /\ \/ Goes(p, "done") /\ done' = done + 1 /\ UNCHANGED gather
       \/ Goes(p, "raised") /\ gather' = (IF gather = "running" THEN "closing" ELSE gather) /\ UNCHANGED done
    /\ UNCHANGED <<pool, open>>

\* The callbacks run without an await; one of them may raise, which gather
\* passes on to run at once, while the other coroutines stay alive.
Report(p) ==
    /\ At(p, {"report"})
    /\ done' = done + 1
    /\ \/ Goes(p, "done") /\ UNCHANGED gather
       \/ Goes(p, "raised") /\ gather' = IF gather = "running" THEN "closing" ELSE gather
    /\ UNCHANGED <<pool, open>>

AllDone == \A p \in Personas: At(p, {"done"})

\* gather returns when every coroutine has.
Gathered ==
    /\ gather = "running" /\ AllDone
    /\ gather' = "closing"
    /\ UNCHANGED <<coro, pool, open, done>>

\* The finally block closes the client that is current, and awaits the close: the
\* coroutines gather left behind go on, on the closed client or on a new one.
CloseOwned ==
    /\ gather = "closing"
    /\ open' = open \ {pool}
    /\ gather' = "closed"
    /\ UNCHANGED <<coro, pool, done>>

\* The close is over: run returns its results, or raises and asyncio.run cancels
\* the coroutines that are left.
Unwind ==
    /\ gather = "closed"
    /\ IF AllDone
       THEN gather' = "returned" /\ UNCHANGED coro
       ELSE /\ gather' = "failed"
            /\ coro' = [p \in Personas |->
                 IF At(p, {"done", "raised"}) THEN coro[p] ELSE [coro[p] EXCEPT !.step = "gone"]]
    /\ UNCHANGED <<pool, open, done>>

\* What the program does by itself: timers, callbacks, the semaphore.
Proceeds(p) ==
    \/ EnterSemaphore(p) \/ CloseBroken(p) \/ AttemptTimeout(p)
    \/ Wake(p) \/ Report(p)

\* What the provider and the network do.
Happens(p) ==
    \/ Send(p) \/ ReceiveAnswer(p) \/ ReceiveError(p)
    \/ ConnectionLost(p) \/ ConnectionLostAgain(p)

FanoutNext ==
    \/ \E p \in Personas: Proceeds(p) \/ Happens(p)
    \/ Gathered \/ CloseOwned \/ Unwind

FanoutFairness ==
    /\ \A p \in Personas: /\ WF_fanoutVars(EnterSemaphore(p)) /\ WF_fanoutVars(AttemptTimeout(p))
                          /\ WF_fanoutVars(Wake(p)) /\ WF_fanoutVars(Report(p))
    /\ WF_fanoutVars(Gathered) /\ WF_fanoutVars(CloseOwned) /\ WF_fanoutVars(Unwind)

FanoutSpec == FanoutInit /\ [][FanoutNext]_fanoutVars /\ FanoutFairness

(***************************************************************************)
(* Properties.                                                             *)
(***************************************************************************)
\* While a batch runs, and however many coroutines lose their connection at the
\* same time, the client the next request goes out on is never a closed one: each
\* coroutine closes what it replaced (openai_compatible_adapter.py:66-89).
CurrentPoolUsable ==
    gather = "running" => pool \in open

\* The simulator's count is the number of coroutines that reported, and a batch
\* that returns has one result for each persona (simulator.py:124-143).
EveryResultCounted ==
    /\ done = Cardinality({p \in Personas: At(p, {"done", "raised"})})
    /\ gather = "returned" => done = Cardinality(Personas)

\* When a batch returns, nobody has replaced the client that its finally block
\* closed (simulator.py:136-143).
ReturnsClosed == gather = "returned" => pool \notin open

\* A batch ends even when the provider never answers, no slot is ever granted and
\* connections hang while they are closed (simulator.py:145-173).
BatchEnds == <>(gather \in {"returned", "failed"})

\* A batch keeps its books while its coroutines fail, wait and reconnect: requests
\* go out on an open pool, every persona is counted once, and what returns is closed.
BatchKeepsCount == CurrentPoolUsable /\ EveryResultCounted /\ ReturnsClosed
=============================================================================
