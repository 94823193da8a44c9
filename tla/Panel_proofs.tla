---------------------------- MODULE Panel_proofs ----------------------------
(***************************************************************************)
(* One panel from its calls to its verdict: the batch of calls (LlmFanout),*)
(* several questions to each persona (PanelProtocol), the agents and the   *)
(* quality gate (AgentWorkflow), questions asked of the panel afterwards   *)
(* (CohortQuestions); and the script that guards the site (AccessPolicy).  *)
(* For panels, pools and lists of any size.                                *)
(***************************************************************************)
EXTENDS LlmFanout, AgentWorkflow, PanelProtocol, CohortQuestions, AccessPolicy,
        FiniteSums, SequenceTheorems, TLAPS

---------------------------------------------------------------------------
(* The books of a batch: which client is open, and how many coroutines     *)
(* reported.                                                               *)

\* A coroutine, however often it has tried.
Task == [step: Inside \cup {"wait", "done", "raised", "gone"}, attempt: Nat, on: Pools]

Finished == {p \in Personas: At(p, {"done", "raised"})}

\* A coroutine that replaced the client has an older one in hand.
ResetsOlder == \A p \in Personas: coro[p].step = "reset" => coro[p].on < pool

\* A batch is closed early because a callback raised.
Raised == \E p \in Personas: At(p, {"raised"})

BooksInv ==
    /\ coro \in [Personas -> Task] /\ pool \in Pools
    /\ ResetsOlder /\ CurrentPoolUsable
    /\ done = Cardinality(Finished)
    /\ gather = "returned" => AllDone
    /\ gather /= "running" => AllDone \/ Raised
    /\ gather \in {"closed", "returned"} /\ AllDone => pool \notin open

\* Nobody has asked yet, nobody is counted.
LEMMA BooksOpen == FanoutInit => BooksInv
<1> SUFFICES ASSUME FanoutInit PROVE BooksInv
  OBVIOUS
<1>1. 1 \in Pools /\ 0 \in Nat
  BY FanoutConstants DEF Pools
<1>2. coro \in [Personas -> Task] /\ pool \in Pools
  BY <1>1 DEF FanoutInit, Task
<1>3. Finished = {}
  BY DEF FanoutInit, Finished, At
<1>4. done = Cardinality(Finished)
  BY <1>3, FS_EmptySet DEF FanoutInit
<1>5. QED BY <1>2, <1>4 DEF FanoutInit, BooksInv, ResetsOlder, CurrentPoolUsable

\* A step of one coroutine that neither was nor becomes counted.
LEMMA OneMoves ==
    ASSUME BooksInv, NEW p \in Personas, NEW c \in Task, coro' = [coro EXCEPT ![p] = c],
           coro[p].step \notin {"done", "raised"}, c.step \notin {"done", "raised"},
           pool' \in Pools, pool <= pool', c.step = "reset" => c.on < pool',
           done' = done, gather' = gather, CurrentPoolUsable'
    PROVE BooksInv'
<1>1. coro'[p] = c /\ \A q \in Personas \ {p}: coro'[q] = coro[q]
  BY DEF BooksInv
<1>2. coro' \in [Personas -> Task]
  BY DEF BooksInv
<1>3. Finished' = Finished
  BY <1>1 DEF Finished, At
<1>4. ASSUME NEW q \in Personas, coro'[q].step = "reset" PROVE coro'[q].on < pool'
  <2>1. CASE q = p
    BY <1>1, <1>4, <2>1
  <2>2. CASE q /= p
    <3>1. coro'[q] = coro[q] /\ coro[q].on < pool
      BY <1>1, <1>4, <2>2 DEF BooksInv, ResetsOlder
    <3>2. coro[q].on \in Nat /\ pool \in Nat /\ pool' \in Nat
      BY DEF BooksInv, Task, Pools
    <3>3. QED BY <3>1, <3>2
  <2>3. QED BY <2>1, <2>2
<1>5. ~AllDone /\ ~AllDone'
  BY <1>1 DEF AllDone, At
<1>6. Raised => Raised'
  BY <1>1 DEF Raised, At
<1>7. QED BY <1>2, <1>3, <1>4, <1>5, <1>6 DEF BooksInv, ResetsOlder

\* A failed attempt leads to another one or to the report.
LEMMA OneFails ==
    ASSUME BooksInv, NEW p \in Personas, Fails(p), coro[p].step \notin {"done", "raised"},
           UNCHANGED <<pool, open, done, gather>>
    PROVE BooksInv'
<1> DEFINE next == IF coro[p].attempt + 1 < Attempts THEN "sleep" ELSE "report"
           c == [coro[p] EXCEPT !.step = next, !.on = 1]
<1>1. coro[p] \in Task /\ next \in {"sleep", "report"} /\ 1 \in Pools
  BY FanoutConstants DEF BooksInv, Pools
<1>2. c \in Task /\ c.step = next
  BY <1>1 DEF Task, Inside
<1>3. coro' = [coro EXCEPT ![p] = c]
  BY DEF Fails
<1>4. pool' \in Pools /\ pool <= pool' /\ CurrentPoolUsable'
  BY DEF BooksInv, CurrentPoolUsable, Pools
<1> HIDE DEF c, next
<1>5. QED BY <1>1, <1>2, <1>3, <1>4, OneMoves

\* The callbacks of one persona count it, whether or not they raise.
LEMMA OneReports == BooksInv /\ (\E p \in Personas: Report(p)) => BooksInv'
<1> SUFFICES ASSUME BooksInv, NEW p \in Personas, Report(p) PROVE BooksInv'
  OBVIOUS
<1>1. PICK step \in {"done", "raised"}: coro' = [coro EXCEPT ![p] = [coro[p] EXCEPT !.step = step]]
  BY DEF Report, Goes
<1>2. /\ coro[p].step = "report" /\ done' = done + 1 /\ UNCHANGED <<pool, open>>
      /\ gather' = gather \/ (gather = "running" /\ gather' = "closing")
  BY DEF Report, At
<1>3. /\ coro'[p] = [coro[p] EXCEPT !.step = step] /\ coro[p] \in Task
      /\ \A q \in Personas \ {p}: coro'[q] = coro[q]
  BY <1>1 DEF BooksInv
<1>4. coro'[p] \in Task /\ coro'[p].step = step
  BY <1>3 DEF Task
<1>5. coro' \in [Personas -> Task]
  BY <1>1, <1>3, <1>4 DEF BooksInv
<1>6. Finished' = Finished \cup {p} /\ p \notin Finished
  BY <1>2, <1>3, <1>4 DEF Finished, At
<1>7. IsFiniteSet(Finished)
  BY FanoutConstants, FS_Subset DEF Finished
<1>8. done' = Cardinality(Finished')
  BY <1>2, <1>6, <1>7, FS_AddElement DEF BooksInv
<1>9. ResetsOlder'
  BY <1>2, <1>3, <1>4 DEF BooksInv, ResetsOlder
<1>10. ~AllDone /\ gather /= "returned" /\ gather' /= "returned"
  BY <1>2 DEF BooksInv, AllDone, At
<1>11. CurrentPoolUsable'
  BY <1>2 DEF BooksInv, CurrentPoolUsable
<1>12. gather' /= "running" => Raised'
  <2>1. CASE gather /= "running"
    <3>1. Raised
      BY <1>10, <2>1 DEF BooksInv
    <3>2. QED BY <1>2, <1>3, <3>1 DEF Raised, At
  <2>2. CASE gather = "running" /\ gather' /= "running"
    <3>1. coro' = [coro EXCEPT ![p] = [coro[p] EXCEPT !.step = "raised"]]
      BY <2>2 DEF Report, Goes
    <3>2. coro'[p] = [coro[p] EXCEPT !.step = "raised"]
      BY <3>1 DEF BooksInv
    <3>3. coro'[p].step = "raised"
      BY <1>3, <3>2 DEF Task
    <3>4. QED BY <3>3 DEF Raised, At
  <2>3. QED BY <2>1, <2>2
<1>13. gather' = "closed" => ~AllDone'
  BY <1>12 DEF Raised, AllDone, At
<1>14. QED BY <1>2, <1>5, <1>8, <1>9, <1>10, <1>11, <1>12, <1>13 DEF BooksInv

\* Closing the current client counts nobody.
LEMMA BooksClose == BooksInv /\ CloseOwned => BooksInv'
<1> SUFFICES ASSUME BooksInv, CloseOwned PROVE BooksInv'
  OBVIOUS
<1>1. /\ UNCHANGED <<coro, pool, done>> /\ gather' = "closed" /\ gather = "closing"
      /\ pool' \notin open'
  BY DEF CloseOwned
<1>2. Finished' = Finished /\ AllDone' = AllDone /\ Raised' = Raised
  BY <1>1 DEF Finished, AllDone, Raised, At
<1>3. QED BY <1>1, <1>2 DEF BooksInv, ResetsOlder, CurrentPoolUsable

\* Whoever is cancelled was not counted and is not counted.
LEMMA BooksUnwind == BooksInv /\ Unwind => BooksInv'
<1> SUFFICES ASSUME BooksInv, Unwind PROVE BooksInv'
  OBVIOUS
<1>1. UNCHANGED <<pool, open, done>> /\ gather = "closed"
  BY DEF Unwind
<1>2. CASE AllDone
  <2>1. coro' = coro /\ gather' = "returned"
    BY <1>2 DEF Unwind
  <2>2. Finished' = Finished /\ AllDone' = AllDone /\ Raised' = Raised
    BY <2>1 DEF Finished, AllDone, Raised, At
  <2>3. QED BY <1>1, <1>2, <2>1, <2>2 DEF BooksInv, ResetsOlder, CurrentPoolUsable
<1>3. CASE ~AllDone
  <2>1. /\ gather' = "failed"
        /\ coro' = [p \in Personas |->
             IF At(p, {"done", "raised"}) THEN coro[p] ELSE [coro[p] EXCEPT !.step = "gone"]]
    BY <1>3 DEF Unwind
  <2>2. ASSUME NEW p \in Personas
        PROVE /\ coro'[p] \in Task /\ coro'[p].step /= "reset"
              /\ coro'[p].step \in {"done", "raised"} <=> coro[p].step \in {"done", "raised"}
              /\ coro[p].step = "raised" => coro'[p].step = "raised"
    <3>1. coro[p] \in Task
      BY DEF BooksInv
    <3>2. CASE At(p, {"done", "raised"})
      BY <2>1, <3>1, <3>2 DEF At
    <3>3. CASE ~At(p, {"done", "raised"})
      <4>1. coro'[p] = [coro[p] EXCEPT !.step = "gone"]
        BY <2>1, <3>3
      <4>2. QED BY <3>1, <3>3, <4>1 DEF At, Task
    <3>4. QED BY <3>2, <3>3
  <2>3. coro' \in [Personas -> Task]
    BY <2>1, <2>2
  <2>4. Finished' = Finished
    BY <2>2 DEF Finished, At
  <2>5. Raised'
    BY <1>1, <1>3, <2>2 DEF BooksInv, Raised, At
  <2>6. QED BY <1>1, <2>1, <2>2, <2>3, <2>4, <2>5 DEF BooksInv, ResetsOlder, CurrentPoolUsable
<1>4. QED BY <1>2, <1>3

\* Every step keeps the books.
LEMMA BooksStep == BooksInv /\ [FanoutNext]_fanoutVars => BooksInv'
<1> SUFFICES ASSUME BooksInv, [FanoutNext]_fanoutVars PROVE BooksInv'
  OBVIOUS
<1>0. \A p \in Personas: coro[p] \in Task /\ coro[p].attempt \in Nat /\ coro[p].on \in Nat
  BY DEF BooksInv, Task, Pools
<1>1. ASSUME NEW p \in Personas, EnterSemaphore(p) PROVE BooksInv'
  <2>1. /\ coro[p].step = "wait" /\ UNCHANGED <<pool, open, done, gather>>
        /\ coro' = [coro EXCEPT ![p] = [coro[p] EXCEPT !.step = "limited"]]
    BY <1>1 DEF EnterSemaphore, At, Goes
  <2>2. /\ [coro[p] EXCEPT !.step = "limited"] \in Task
        /\ [coro[p] EXCEPT !.step = "limited"].step = "limited"
    BY <1>0 DEF Task, Inside
  <2>3. pool' \in Pools /\ pool <= pool' /\ CurrentPoolUsable'
    BY <2>1 DEF BooksInv, CurrentPoolUsable, Pools
  <2>4. QED BY <2>1, <2>2, <2>3, OneMoves
<1>2. ASSUME NEW p \in Personas, CloseBroken(p) PROVE BooksInv'
  <2>1. /\ coro[p].step = "reset" /\ open' = open \ {coro[p].on} /\ UNCHANGED <<pool, done, gather>>
        /\ coro' = [coro EXCEPT ![p] = [coro[p] EXCEPT !.step = "recall", !.on = pool]]
    BY <1>2 DEF CloseBroken, At, Broken
  <2>2. coro[p].on /= pool
    BY <1>0, <2>1 DEF BooksInv, ResetsOlder, Pools
  <2>3. /\ [coro[p] EXCEPT !.step = "recall", !.on = pool] \in Task
        /\ [coro[p] EXCEPT !.step = "recall", !.on = pool].step = "recall"
    BY <1>0 DEF BooksInv, Task, Inside
  <2>4. pool' \in Pools /\ pool <= pool' /\ CurrentPoolUsable'
    BY <2>1, <2>2 DEF BooksInv, CurrentPoolUsable, Pools
  <2>5. QED BY <2>1, <2>3, <2>4, OneMoves
<1>3. ASSUME NEW p \in Personas, AttemptTimeout(p) PROVE BooksInv'
  BY <1>3, OneFails DEF AttemptTimeout, TimesOut, At
<1>4. ASSUME NEW p \in Personas, Wake(p) PROVE BooksInv'
  <2>1. /\ coro[p].step = "sleep" /\ UNCHANGED <<pool, open, done, gather>>
        /\ coro' = [coro EXCEPT ![p] = [coro[p] EXCEPT !.step = "limited", !.attempt = coro[p].attempt + 1]]
    BY <1>4 DEF Wake, At
  <2>2. PICK k \in Nat: k = coro[p].attempt + 1
    BY <1>0
  <2>3. /\ [coro[p] EXCEPT !.step = "limited", !.attempt = k] \in Task
        /\ [coro[p] EXCEPT !.step = "limited", !.attempt = k].step = "limited"
    BY <1>0 DEF Task, Inside
  <2>4. coro' = [coro EXCEPT ![p] = [coro[p] EXCEPT !.step = "limited", !.attempt = k]]
    BY <2>1, <2>2
  <2>5. pool' \in Pools /\ pool <= pool' /\ CurrentPoolUsable'
    BY <2>1 DEF BooksInv, CurrentPoolUsable, Pools
  <2>6. QED BY <2>1, <2>3, <2>4, <2>5, OneMoves
<1>5. ASSUME NEW p \in Personas, Report(p) PROVE BooksInv'
  BY <1>5, OneReports
<1>6. ASSUME NEW p \in Personas, Send(p) PROVE BooksInv'
  <2>1. /\ coro[p].step = "limited" /\ UNCHANGED <<pool, open, done, gather>>
        /\ coro' = [coro EXCEPT ![p] = [coro[p] EXCEPT !.step = "call", !.on = pool]]
    BY <1>6 DEF Send, At
  <2>2. /\ [coro[p] EXCEPT !.step = "call", !.on = pool] \in Task
        /\ [coro[p] EXCEPT !.step = "call", !.on = pool].step = "call"
    BY <1>0 DEF BooksInv, Task, Inside
  <2>3. pool' \in Pools /\ pool <= pool' /\ CurrentPoolUsable'
    BY <2>1 DEF BooksInv, CurrentPoolUsable, Pools
  <2>4. QED BY <2>1, <2>2, <2>3, OneMoves
<1>7. ASSUME NEW p \in Personas, ReceiveAnswer(p) PROVE BooksInv'
  <2>1. /\ coro[p].step \in {"call", "recall"} /\ UNCHANGED <<pool, open, done, gather>>
        /\ coro' = [coro EXCEPT ![p] = [coro[p] EXCEPT !.step = "report", !.on = 1]]
    BY <1>7 DEF ReceiveAnswer, At
  <2>2. 1 \in Pools
    BY FanoutConstants DEF Pools
  <2>3. /\ [coro[p] EXCEPT !.step = "report", !.on = 1] \in Task
        /\ [coro[p] EXCEPT !.step = "report", !.on = 1].step = "report"
    BY <1>0, <2>2 DEF Task, Inside
  <2>4. pool' \in Pools /\ pool <= pool' /\ CurrentPoolUsable'
    BY <2>1 DEF BooksInv, CurrentPoolUsable, Pools
  <2>5. QED BY <2>1, <2>3, <2>4, OneMoves
<1>8. ASSUME NEW p \in Personas, ReceiveError(p) \/ ConnectionLostAgain(p) PROVE BooksInv'
  BY <1>8, OneFails DEF ReceiveError, ConnectionLostAgain, At
<1>9. ASSUME NEW p \in Personas, ConnectionLost(p) PROVE BooksInv'
  <2>1. /\ coro[p].step = "call" /\ pool < MaxPools /\ pool' = pool + 1 /\ open' = open \cup {pool + 1}
        /\ UNCHANGED <<done, gather>>
        /\ coro' = [coro EXCEPT ![p] = [coro[p] EXCEPT !.step = "reset", !.on = pool]]
    BY <1>9 DEF ConnectionLost, At
  <2>2. /\ [coro[p] EXCEPT !.step = "reset", !.on = pool] \in Task
        /\ [coro[p] EXCEPT !.step = "reset", !.on = pool].step = "reset"
        /\ [coro[p] EXCEPT !.step = "reset", !.on = pool].on = pool
    BY <1>0 DEF BooksInv, Task, Inside
  <2>3. pool' \in Pools /\ pool < pool' /\ pool <= pool' /\ CurrentPoolUsable'
    BY <2>1, FanoutConstants DEF BooksInv, CurrentPoolUsable, Pools
  <2>4. QED BY <2>1, <2>2, <2>3, OneMoves
<1>10. CASE Gathered
  BY <1>10 DEF Gathered, BooksInv, ResetsOlder, CurrentPoolUsable, AllDone, Raised, Finished, At
<1>11. CASE CloseOwned
  BY <1>11, BooksClose
<1>12. CASE Unwind
  BY <1>12, BooksUnwind
<1>13. CASE UNCHANGED fanoutVars
  BY <1>13 DEF fanoutVars, BooksInv, ResetsOlder, CurrentPoolUsable, AllDone, Raised, Finished, At
<1>14. QED
  BY <1>1, <1>2, <1>3, <1>4, <1>5, <1>6, <1>7, <1>8, <1>9, <1>10, <1>11, <1>12, <1>13
     DEF FanoutNext, Proceeds, Happens

\* The claim of the evaluation run for every batch: while it runs the next request
\* goes out on an open client, every coroutine is counted once, the ones that go on
\* while the client is closed included, and a batch that returns has closed the
\* current client (simulator.py:124-143, openai_compatible_adapter.py:66-89).
THEOREM BatchBooks == FanoutSpec => []BatchKeepsCount
<1>1. BooksInv => BatchKeepsCount
  BY DEF BooksInv, BatchKeepsCount, EveryResultCounted, ReturnsClosed, AllDone, Finished, At
<1>2. QED BY <1>1, BooksOpen, BooksStep, PTL DEF FanoutSpec

\* The types of the batch: a coroutine that sleeps has an attempt left, and no more of
\* them hold a place than the semaphore has.
Holding == {p \in Personas: coro[p].step \in Inside}

FanoutTypes ==
    /\ coro \in [Personas -> Coroutine]
    /\ \A p \in Personas: coro[p].step = "sleep" => coro[p].attempt + 1 < Attempts
    /\ open \subseteq Pools
    /\ gather \in {"running", "closing", "closed", "returned", "failed"}
    /\ Cardinality(Holding) <= Concurrency

\* Whoever is among those that hold a place, or comes when there is one, has one.
LEMMA PlacesEnough ==
    ASSUME NEW A, NEW B, NEW p, NEW n \in Nat, IsFiniteSet(A), B \subseteq A \cup {p},
           (p \in A /\ Cardinality(A) <= n) \/ Cardinality(A) < n
    PROVE  Cardinality(B) <= n
<1>1. /\ IsFiniteSet(A \cup {p}) /\ Cardinality(A) \in Nat
      /\ Cardinality(A \cup {p}) = IF p \in A THEN Cardinality(A) ELSE Cardinality(A) + 1
  BY FS_AddElement, FS_CardinalityType
<1>2. Cardinality(B) <= Cardinality(A \cup {p}) /\ Cardinality(B) \in Nat
  BY <1>1, FS_Subset, FS_CardinalityType
<1>3. Cardinality(A \cup {p}) <= n
  BY <1>1
<1>4. Cardinality(A \cup {p}) \in Nat
  BY <1>1, FS_CardinalityType
<1>5. QED BY <1>2, <1>3, <1>4

\* One coroutine moves.
LEMMA OneStepTyped ==
    ASSUME FanoutTypes, NEW p \in Personas, NEW t \in Coroutine,
           t.step = "sleep" => t.attempt + 1 < Attempts,
           coro' = [coro EXCEPT ![p] = t], open' \subseteq Pools,
           gather' \in {"running", "closing", "closed", "returned", "failed"},
           p \in Holding \/ Cardinality(Holding) < Concurrency
    PROVE  FanoutTypes'
<1>1. /\ coro' \in [Personas -> Coroutine]
      /\ \A q \in Personas: coro'[q] = IF q = p THEN t ELSE coro[q]
  BY DEF FanoutTypes
<1>2. \A q \in Personas: coro'[q].step = "sleep" => coro'[q].attempt + 1 < Attempts
  BY <1>1 DEF FanoutTypes
<1>3. IsFiniteSet(Holding) /\ Concurrency \in Nat
  BY FanoutConstants, FS_Subset DEF Holding
<1>4. Holding' \subseteq Holding \cup {p}
  BY <1>1 DEF Holding
<1>5. Cardinality(Holding') <= Concurrency
  <2> DEFINE A == Holding  B == Holding'
  <2>1. (p \in A /\ Cardinality(A) <= Concurrency) \/ Cardinality(A) < Concurrency
    BY DEF FanoutTypes
  <2>2. IsFiniteSet(A) /\ B \subseteq A \cup {p}
    BY <1>3, <1>4
  <2> HIDE DEF A, B
  <2>3. Cardinality(B) <= Concurrency
    BY <1>3, <2>1, <2>2, PlacesEnough
  <2>4. QED BY <2>3 DEF B
<1>6. QED BY <1>1, <1>2, <1>5 DEF FanoutTypes

\* At the start nobody holds a place.
LEMMA FanoutTypesInit == FanoutInit => FanoutTypes
<1> SUFFICES ASSUME FanoutInit PROVE FanoutTypes
  OBVIOUS
<1>1. 0 \in 0..(Attempts - 1) /\ 1 \in Pools
  BY FanoutConstants DEF Pools
<1>2. Holding = {}
  BY DEF FanoutInit, Holding, Inside
<1>3. Cardinality(Holding) <= Concurrency
  <2>1. Cardinality(Holding) = 0
    BY <1>2, FS_EmptySet
  <2>2. QED BY <2>1, FanoutConstants
<1>4. coro \in [Personas -> Coroutine]
  BY <1>1 DEF FanoutInit, Coroutine
<1>5. QED BY <1>1, <1>3, <1>4 DEF FanoutInit, FanoutTypes

\* A persona's attempt fails.
LEMMA FailsTyped ==
    ASSUME FanoutTypes, NEW p \in Personas, At(p, Inside), Fails(p), open' = open, gather' = gather
    PROVE  FanoutTypes'
<1> DEFINE t == [coro[p] EXCEPT !.step = IF coro[p].attempt + 1 < Attempts THEN "sleep" ELSE "report",
                                !.on = 1]
<1>1. coro[p] \in Coroutine /\ 1 \in Pools
  BY FanoutConstants DEF FanoutTypes, Pools
<1>2. t \in Coroutine /\ (t.step = "sleep" => t.attempt + 1 < Attempts)
  BY <1>1 DEF Coroutine, Inside
<1>3. coro' = [coro EXCEPT ![p] = t]
  BY <1>1 DEF Fails, FanoutTypes
<1>4. p \in Holding
  BY DEF At, Holding
<1> HIDE DEF t
<1>5. QED BY <1>2, <1>3, <1>4, OneStepTyped DEF FanoutTypes

\* Every step keeps the types.
LEMMA FanoutTypesStep ==
    FanoutTypes /\ BooksInv /\ [FanoutNext]_fanoutVars => FanoutTypes'
<1> SUFFICES ASSUME FanoutTypes, BooksInv, [FanoutNext]_fanoutVars PROVE FanoutTypes'
  OBVIOUS
<1>1. pool \in Pools /\ Attempts \in Nat \ {0} /\ MaxPools \in Nat \ {0}
  BY FanoutConstants DEF BooksInv
<1>2. ASSUME NEW p \in Personas, Proceeds(p) \/ Happens(p) PROVE FanoutTypes'
  <2>1. coro[p] \in Coroutine
    BY DEF FanoutTypes
  <2>2. CASE EnterSemaphore(p)
    <3> DEFINE t == [coro[p] EXCEPT !.step = "limited"]
    <3>1. t \in Coroutine /\ t.step /= "sleep"
      BY <2>1 DEF Coroutine, Inside
    <3>2. /\ coro' = [coro EXCEPT ![p] = t] /\ open' = open /\ gather' = gather
          /\ Cardinality(Holding) < Concurrency
      BY <2>2 DEF EnterSemaphore, Goes, At, Holding, FanoutTypes
    <3> HIDE DEF t
    <3>3. QED BY <3>1, <3>2, OneStepTyped DEF FanoutTypes
  <2>3. CASE Send(p)
    <3> DEFINE t == [coro[p] EXCEPT !.step = "call", !.on = pool]
    <3>1. t \in Coroutine /\ t.step /= "sleep"
      BY <1>1, <2>1 DEF Coroutine, Inside
    <3>2. coro' = [coro EXCEPT ![p] = t] /\ open' = open /\ gather' = gather /\ p \in Holding
      BY <2>3 DEF Send, At, Holding, Inside, FanoutTypes
    <3> HIDE DEF t
    <3>3. QED BY <3>1, <3>2, OneStepTyped DEF FanoutTypes
  <2>4. CASE ReceiveAnswer(p)
    <3> DEFINE t == [coro[p] EXCEPT !.step = "report", !.on = 1]
    <3>0. 1 \in Pools
      BY <1>1 DEF Pools
    <3>1. t \in Coroutine /\ t.step /= "sleep"
      BY <2>1, <3>0 DEF Coroutine, Inside
    <3>2. coro' = [coro EXCEPT ![p] = t] /\ open' = open /\ gather' = gather /\ p \in Holding
      BY <2>4 DEF ReceiveAnswer, At, Holding, Inside, FanoutTypes
    <3> HIDE DEF t
    <3>3. QED BY <3>1, <3>2, OneStepTyped DEF FanoutTypes
  <2>5. CASE ReceiveError(p) \/ ConnectionLostAgain(p) \/ AttemptTimeout(p)
    <3>1. At(p, Inside) /\ Fails(p) /\ open' = open /\ gather' = gather
      BY <2>5 DEF ReceiveError, ConnectionLostAgain, AttemptTimeout, TimesOut, At, Inside
    <3>2. QED BY <3>1, FailsTyped
  <2>6. CASE ConnectionLost(p)
    <3> DEFINE t == [coro[p] EXCEPT !.step = "reset", !.on = pool]
    <3>1. t \in Coroutine /\ t.step /= "sleep"
      BY <1>1, <2>1 DEF Coroutine, Inside
    <3>2. /\ coro' = [coro EXCEPT ![p] = t] /\ open' = open \cup {pool + 1} /\ gather' = gather
          /\ pool < MaxPools /\ p \in Holding
      BY <2>6 DEF ConnectionLost, At, Holding, Inside, FanoutTypes
    <3>3. pool + 1 \in Pools
      BY <1>1, <3>2 DEF Pools
    <3> HIDE DEF t
    <3>4. QED BY <3>1, <3>2, <3>3, OneStepTyped DEF FanoutTypes
  <2>7. CASE CloseBroken(p)
    <3> DEFINE t == [coro[p] EXCEPT !.step = "recall", !.on = pool]
    <3>1. t \in Coroutine /\ t.step /= "sleep"
      BY <1>1, <2>1 DEF Coroutine, Inside
    <3>2. /\ coro' = [coro EXCEPT ![p] = t] /\ open' \subseteq open /\ gather' = gather /\ p \in Holding
      BY <2>7 DEF CloseBroken, At, Holding, Inside, FanoutTypes
    <3> HIDE DEF t
    <3>3. QED BY <3>1, <3>2, OneStepTyped DEF FanoutTypes
  <2>8. CASE Wake(p)
    <3> DEFINE t == [coro[p] EXCEPT !.step = "limited", !.attempt = coro[p].attempt + 1]
    <3>1. coro[p].attempt + 1 < Attempts /\ coro[p].attempt \in 0..(Attempts - 1)
      BY <2>1, <2>8 DEF Wake, At, FanoutTypes, Coroutine
    <3>2. coro[p].attempt + 1 \in 0..(Attempts - 1)
      BY <1>1, <3>1
    <3>3. t \in Coroutine /\ t.step /= "sleep"
      BY <2>1, <3>2 DEF Coroutine, Inside
    <3>4. coro' = [coro EXCEPT ![p] = t] /\ open' = open /\ gather' = gather /\ p \in Holding
      BY <2>8 DEF Wake, At, Holding, Inside, FanoutTypes
    <3> HIDE DEF t
    <3>5. QED BY <3>3, <3>4, OneStepTyped DEF FanoutTypes
  <2>9. CASE Report(p)
    <3>1. PICK s \in {"done", "raised"}: Goes(p, s)
      BY <2>9 DEF Report
    <3> DEFINE t == [coro[p] EXCEPT !.step = s]
    <3>2. t \in Coroutine /\ t.step /= "sleep"
      BY <2>1 DEF Coroutine, Inside
    <3>3. coro' = [coro EXCEPT ![p] = t] /\ p \in Holding
      BY <2>9, <3>1 DEF Report, Goes, At, Holding, Inside, FanoutTypes
    <3>4. open' = open /\ gather' \in {"running", "closing", "closed", "returned", "failed"}
      BY <2>9 DEF Report, FanoutTypes
    <3> HIDE DEF t
    <3>5. QED BY <3>2, <3>3, <3>4, OneStepTyped DEF FanoutTypes
  <2>10. QED BY <1>2, <2>2, <2>3, <2>4, <2>5, <2>6, <2>7, <2>8, <2>9 DEF Proceeds, Happens
<1>3. CASE Gathered
  BY <1>3 DEF Gathered, FanoutTypes, Holding
<1>4. CASE Unwind
  <2>1. open' \subseteq open /\ gather' \in {"returned", "failed"}
    BY <1>4 DEF Unwind
  <2>2. CASE coro' = coro
    BY <2>1, <2>2 DEF FanoutTypes, Holding
  <2>3. CASE coro' = [p \in Personas |->
                        IF At(p, {"done", "raised"}) THEN coro[p] ELSE [coro[p] EXCEPT !.step = "gone"]]
    <3>1. ASSUME NEW p \in Personas
          PROVE  /\ coro'[p] \in Coroutine /\ coro'[p].step /= "sleep" /\ coro'[p].step \notin Inside
      <4>1. coro[p] \in Coroutine
        BY DEF FanoutTypes
      <4>2. QED BY <2>3, <4>1 DEF At, Coroutine, Inside
    <3>2. coro' \in [Personas -> Coroutine]
      BY <2>3, <3>1
    <3>3. Holding' = {}
      BY <3>1 DEF Holding
    <3>4. Cardinality(Holding') <= Concurrency
      <4>1. Cardinality(Holding') = 0
        BY <3>3, FS_EmptySet
      <4>2. QED BY <4>1, FanoutConstants
    <3>5. QED BY <2>1, <3>1, <3>2, <3>4 DEF FanoutTypes
  <2>4. QED BY <1>4, <2>2, <2>3 DEF Unwind
<1>5. CASE CloseOwned
  BY <1>5 DEF CloseOwned, FanoutTypes, Holding
<1>6. CASE UNCHANGED fanoutVars
  BY <1>6 DEF fanoutVars, FanoutTypes, Holding
<1>7. QED BY <1>2, <1>3, <1>4, <1>5, <1>6 DEF FanoutNext

\* Types and books together are the type invariant of the batch.
LEMMA FanoutTyped == ASSUME FanoutTypes, BooksInv PROVE FanoutTypeOK
<1>1. Finished \subseteq Personas
  BY DEF Finished
<1>2. done \in Nat /\ done <= Cardinality(Personas) /\ Cardinality(Personas) \in Nat
  BY <1>1, FanoutConstants, FS_Subset, FS_CardinalityType DEF BooksInv
<1>3. QED BY <1>2 DEF FanoutTypes, FanoutTypeOK, BooksInv, Holding

---------------------------------------------------------------------------
(* The three agents and the gate.                                          *)

\* The points before the gate has decided, and the ones after it.
Deciding == {"start", "analysis", "report", "qa", "gate"}
Decided == {"records", "save", "done"}

\* What has been said by the time the gate decides: a panel that cannot be used and an
\* agent that did not answer both ask for a review.
Warned ==
    /\ InsufficientYield(envelope) => NeedsReview(agentOutputs)
    /\ \A a \in AgentNames: agentOutputs[a].mode \in {"llm", "deterministic"} \/ NeedsReview(agentOutputs)

\* Agents that spoke before the one whose turn it is.
SpokenBefore ==
    /\ workflow \in {"report", "qa"} => agentOutputs["analysis"].mode \in {"llm", "fallback"}
    /\ workflow = "qa" => agentOutputs["report"].mode \in {"llm", "fallback"}

NoTopUnderReview(e) == e.complete /\ e.review => e.grade /= "A"

WorkflowTypes ==
    /\ envelope \in Envelope /\ stored \in Envelope
    /\ envelope.failed <= envelope.total
    /\ stored.total = envelope.total /\ stored.failed = envelope.failed
    /\ stored.complete = envelope.complete /\ stored.ranking = envelope.ranking
    /\ agentOutputs \in [AgentNames -> Output]
    /\ workflow \in Deciding \cup Decided

BeforeTheGate ==
    workflow \in Deciding =>
        /\ envelope.orchestration = "none"
        /\ checkpoints = <<>> /\ agentRuns = <<>>
        /\ workflow \in {"analysis", "report", "qa"} => ~InsufficientYield(envelope)
        /\ SpokenBefore
        /\ workflow = "gate" => Warned

AfterTheGate ==
    workflow \in Decided =>
        \/ /\ envelope.orchestration = "completed"
           /\ envelope.review = NeedsReview(agentOutputs)
           /\ Warned
        \/ /\ envelope.orchestration = "degraded" /\ envelope.review /\ workflow /= "records"
           /\ checkpoints = <<>> /\ agentRuns = <<>>

Recorded ==
    /\ \E n \in 0..3: checkpoints = SubSeq(Agents, 1, n)
    /\ \E n \in 0..3: agentRuns = SubSeq(Agents, 1, n)
    /\ agentRuns /= <<>> => Len(checkpoints) = 3
    /\ workflow = "records" => Len(agentRuns) < 3

WorkflowInv ==
    /\ WorkflowTypes /\ BeforeTheGate /\ AfterTheGate /\ Recorded
    /\ NoTopUnderReview(envelope) /\ NoTopUnderReview(stored)
    /\ workflow = "done" => stored = envelope

\* The rounded rate of quality() is below the limit only where the exact one is.
LEMMA RateBelow ==
  ASSUME NEW total \in Nat \ {0}, NEW failed \in 0..total, ParseRate(total, failed) < 150
  PROVE  100 * (total - failed) < 15 * total
<1> DEFINE n == 2000 * (total - failed) + total
           d == 2 * total
           q == n \div d
<1>1. n \in Nat /\ d \in Nat \ {0} /\ q < 150
  BY DEF ParseRate
<1>2. q \in Int /\ n < d * (q + 1)
  <2>1. \A a \in Nat, b \in Nat \ {0}: a \div b \in Int /\ a < b * (a \div b + 1)
    OBVIOUS
  <2> HIDE DEF n, d
  <2>2. QED BY <1>1, <2>1
<1>3. q + 1 <= 150
  BY <1>1, <1>2
<1>4. d * (q + 1) <= d * 150
  <2>1. \A a \in Nat, b \in Int, c \in Int: b <= c => a * b <= a * c
    OBVIOUS
  <2> HIDE DEF n, d, q
  <2>2. QED BY <1>1, <1>2, <1>3, <2>1
<1>5. n < d * 150
  <2>1. d * (q + 1) \in Int /\ d * 150 \in Int
    BY <1>1, <1>2
  <2> HIDE DEF n, d, q
  <2>2. QED BY <1>1, <1>2, <1>4, <2>1
<1>6. QED BY <1>5

\* A yield that quality() flags is one the agents refuse.
LEMMA FlaggedIsRefused ==
  ASSUME NEW e \in Envelope, e.failed <= e.total, LowYield(e.total, e.failed)
  PROVE  InsufficientYield(e)
<1>1. e.total \in Nat /\ e.failed \in Nat
  BY DEF Envelope
<1>2. CASE e.total = e.failed
  BY <1>2 DEF InsufficientYield
<1>3. CASE e.total >= 20 /\ ParseRate(e.total, e.failed) < 150
  <2>1. 100 * (e.total - e.failed) < 15 * e.total
    BY <1>1, <1>3, RateBelow
  <2>2. QED BY <1>3, <2>1 DEF InsufficientYield
<1>4. QED BY <1>2, <1>3 DEF LowYield

\* Nor does it get the best grade.
LEMMA FlaggedNotTop ==
  ASSUME NEW total \in Nat, NEW failed \in 0..total, LowYield(total, failed)
  PROVE  Grade(total, failed) /= "A"
<1>1. CASE total = failed
  <2>1. total = 0 => Grade(total, failed) \in {"C", "D"}
    BY <1>1 DEF Grade, ParseRate
  <2>2. total > 0 => Grade(total, failed) = "D"
    BY <1>1 DEF Grade
  <2>3. QED BY <2>1, <2>2
<1>2. CASE total /= failed /\ ParseRate(total, failed) < 150
  <2>1. ParseRate(total, failed) \in Int
    BY DEF ParseRate
  <2>2. QED BY <1>2, <2>1 DEF Grade
<1>3. QED BY <1>1, <1>2 DEF LowYield

\* How many agents a part of the list names.
LEMMA PartOfAgents ==
  ASSUME NEW n \in 0..3
  PROVE  /\ Len(SubSeq(Agents, 1, n)) = n
         /\ n = 0 <=> SubSeq(Agents, 1, n) = <<>>
<1>1. \A i \in 1..n: Agents[i] \in AgentNames
  BY DEF Agents, AgentNames
<1>2. /\ SubSeq(Agents, 1, n) \in Seq(AgentNames)
      /\ Len(SubSeq(Agents, 1, n)) = IF 1 <= n THEN n - 1 + 1 ELSE 0
  <2>1. 1 \in Int /\ n \in Int
    OBVIOUS
  <2>2. QED BY <1>1, <2>1, SubSeqProperties
<1>3. Len(SubSeq(Agents, 1, n)) = n
  BY <1>2
<1>4. \A seq \in Seq(AgentNames): Len(seq) = 0 <=> seq = <<>>
  BY EmptySeq
<1>5. QED BY <1>2, <1>3, <1>4

\* The worker begins with a fresh envelope and nothing stored.
LEMMA WorkflowInitInv == WorkflowInit => WorkflowInv
<1> SUFFICES ASSUME WorkflowInit PROVE WorkflowInv
  OBVIOUS
<1>1. PICK s \in Samples, complete \in BOOLEAN, ranking \in {"none", "yes", "no"}:
        envelope = Built(s, complete, ranking)
  BY DEF WorkflowInit
<1>2. s[1] \in Nat /\ s[2] \in 0..s[1]
  BY SampleConstants
<1>3. Grade(s[1], s[2]) \in {"A", "B", "C", "D"}
  BY DEF Grade
<1>4. LowYield(s[1], s[2]) \in BOOLEAN
  BY DEF LowYield
<1>5. envelope \in Envelope /\ envelope.failed <= envelope.total /\ envelope.orchestration = "none"
  BY <1>1, <1>2, <1>3, <1>4 DEF Built, Envelope
<1>6. NoTopUnderReview(envelope)
  <2> SUFFICES ASSUME envelope.complete, envelope.review PROVE envelope.grade /= "A"
    BY DEF NoTopUnderReview
  <2>1. LowYield(s[1], s[2]) /\ envelope.grade = Grade(s[1], s[2])
    BY <1>1 DEF Built
  <2>2. QED BY <1>2, <2>1, FlaggedNotTop
<1>7. agentOutputs \in [AgentNames -> Output]
  BY DEF WorkflowInit, NoOutput, Output, Modes, Severities
<1>8. stored = envelope /\ workflow = "start" /\ checkpoints = <<>> /\ agentRuns = <<>>
  BY DEF WorkflowInit
<1>9. Recorded
  <2>1. <<>> = SubSeq(Agents, 1, 0)
    BY PartOfAgents
  <2>2. QED BY <1>8, <2>1 DEF Recorded
<1>10. QED
  BY <1>5, <1>6, <1>7, <1>8, <1>9
  DEF WorkflowInv, WorkflowTypes, BeforeTheGate, AfterTheGate, SpokenBefore, Deciding, Decided

\* An envelope that has been through the gate, or past it.
Marked(e, review, o) == [Under(e, review) EXCEPT !.orchestration = o]

\* An envelope with another verdict is the same envelope otherwise.
LEMMA VerdictOnly ==
  ASSUME NEW e \in Envelope, NEW review \in BOOLEAN, NEW o \in {"completed", "degraded"},
         NEW f, f = Marked(e, review, o)
  PROVE  /\ f \in Envelope /\ f.total = e.total /\ f.failed = e.failed
         /\ f.complete = e.complete /\ f.ranking = e.ranking
         /\ f.review = review /\ f.orchestration = o
         /\ NoTopUnderReview(f)
<1> DEFINE g == IF review /\ e.grade = "A" THEN "B" ELSE e.grade
<1>1. f = [e EXCEPT !.review = review, !.grade = g, !.orchestration = o]
  BY DEF Marked, Under, Envelope
<1>2. g \in {"A", "B", "C", "D"} /\ (review => g /= "A")
  BY DEF Envelope
<1> HIDE DEF g
<1>3. /\ f \in Envelope /\ f.total = e.total /\ f.failed = e.failed
      /\ f.complete = e.complete /\ f.ranking = e.ranking
      /\ f.review = review /\ f.orchestration = o /\ f.grade = g
  BY <1>1, <1>2 DEF Envelope
<1>4. NoTopUnderReview(f)
  BY <1>2, <1>3 DEF NoTopUnderReview
<1>5. QED BY <1>3, <1>4

\* An agent says something while it is its turn.
LEMMA AgentSpeaks ==
  ASSUME WorkflowInv, NEW a \in AgentNames, workflow = a,
         NEW o \in Output, o.mode \in {"llm", "fallback"},
         agentOutputs' = [agentOutputs EXCEPT ![a] = o], workflow' = After(a), Keep
  PROVE  WorkflowInv'
<1>1. /\ agentOutputs' \in [AgentNames -> Output]
      /\ agentOutputs'[a] = o /\ \A b \in AgentNames \ {a}: agentOutputs'[b] = agentOutputs[b]
  BY DEF WorkflowInv, WorkflowTypes
<1>2. /\ workflow \in {"analysis", "report", "qa"} /\ workflow \in Deciding
      /\ workflow' \in {"report", "qa", "gate"}
      /\ a = "analysis" => workflow' = "report"
      /\ a = "report" => workflow' = "qa"
      /\ a = "qa" => workflow' = "gate"
  BY DEF AgentNames, After, Deciding
<1>3. UNCHANGED <<envelope, stored, checkpoints, agentRuns>>
  BY DEF Keep
<1>4. ~InsufficientYield(envelope) /\ SpokenBefore
  BY <1>2 DEF WorkflowInv, BeforeTheGate
<1>5. ~InsufficientYield(envelope')
  BY <1>3, <1>4
<1>6. SpokenBefore'
  BY <1>1, <1>2, <1>4 DEF SpokenBefore, AgentNames
<1>7. ASSUME workflow' = "gate" PROVE Warned'
  <2>1. a = "qa"
    BY <1>2, <1>7 DEF AgentNames
  <2>2. \A b \in AgentNames: agentOutputs'[b].mode \in {"llm", "fallback"}
    BY <1>1, <1>4, <2>1 DEF SpokenBefore, AgentNames
  <2>3. \A b \in AgentNames: agentOutputs'[b].mode = "fallback" => NeedsReview(agentOutputs')
    BY DEF NeedsReview
  <2>4. QED BY <1>5, <2>2, <2>3 DEF Warned
<1>8. BeforeTheGate' /\ AfterTheGate'
  <2>1. /\ envelope.orchestration = "none" /\ checkpoints = <<>> /\ agentRuns = <<>>
    BY <1>2 DEF WorkflowInv, BeforeTheGate
  <2>2. workflow' \notin Decided
    BY <1>2 DEF Decided
  <2>3. QED BY <1>3, <1>5, <1>6, <1>7, <2>1, <2>2 DEF BeforeTheGate, AfterTheGate
<1>9. WorkflowTypes'
  <2>1. workflow' \in Deciding \cup Decided
    BY <1>2 DEF Deciding
  <2>2. QED BY <1>1, <1>3, <2>1 DEF WorkflowInv, WorkflowTypes
<1>10. Recorded' /\ NoTopUnderReview(envelope') /\ NoTopUnderReview(stored')
  BY <1>2, <1>3 DEF WorkflowInv, Recorded
<1>11. workflow' /= "done"
  BY <1>2
<1>12. QED BY <1>8, <1>9, <1>10, <1>11 DEF WorkflowInv

\* The deterministic answers: what is refused asks for a review.
LEMMA DeterministicHeard ==
  ASSUME NEW e \in Envelope, NEW outputs, outputs = RunAgents(e)
  PROVE  /\ outputs \in [AgentNames -> Output]
         /\ InsufficientYield(e) => NeedsReview(outputs)
         /\ ~InsufficientYield(e) => \A a \in AgentNames: outputs[a].mode = "deterministic"
<1>1. QaSeverity(e) \in Severities
  BY DEF QaSeverity, Severities
<1>2. /\ [mode |-> "fail_closed", passed |-> FALSE, severity |-> "fail"] \in Output
      /\ [mode |-> "deterministic", passed |-> TRUE, severity |-> QaSeverity(e)] \in Output
  BY <1>1 DEF Output, Modes, Severities
<1>3. outputs \in [AgentNames -> Output]
  BY <1>2 DEF RunAgents
<1>4. InsufficientYield(e) => NeedsReview(outputs)
  BY DEF NeedsReview, RunAgents, AgentNames
<1>5. ~InsufficientYield(e) => \A a \in AgentNames: outputs[a].mode = "deterministic"
  BY DEF RunAgents
<1>6. QED BY <1>3, <1>4, <1>5

\* Grade, agents, gate and records keep the account of the review.
LEMMA WorkflowNextInv == WorkflowInv /\ [WorkflowNext]_workflowVars => WorkflowInv'
<1> SUFFICES ASSUME WorkflowInv, [WorkflowNext]_workflowVars PROVE WorkflowInv'
  OBVIOUS
<1>a. WorkflowTypes /\ BeforeTheGate /\ AfterTheGate /\ Recorded
      /\ NoTopUnderReview(envelope) /\ NoTopUnderReview(stored)
  BY DEF WorkflowInv
<1>b. NeedsReview(agentOutputs) \in BOOLEAN
  BY DEF NeedsReview
<1>1. CASE AnswerWithoutModel
  <2>1. /\ workflow = "start" /\ workflow' = "gate" /\ agentOutputs' = RunAgents(envelope)
        /\ UNCHANGED <<envelope, stored, checkpoints, agentRuns>>
    BY <1>1 DEF AnswerWithoutModel, Keep
  <2>2. envelope \in Envelope
    BY <1>a DEF WorkflowTypes
  <2>3. /\ agentOutputs' \in [AgentNames -> Output]
        /\ InsufficientYield(envelope) => NeedsReview(agentOutputs')
        /\ ~InsufficientYield(envelope) => \A a \in AgentNames: agentOutputs'[a].mode = "deterministic"
    BY <2>1, <2>2, DeterministicHeard
  <2>4. InsufficientYield(envelope') <=> InsufficientYield(envelope)
    BY <2>1
  <2>5. Warned'
    BY <2>3, <2>4 DEF Warned
  <2>6. BeforeTheGate' /\ AfterTheGate'
    <3>1. /\ envelope.orchestration = "none" /\ checkpoints = <<>> /\ agentRuns = <<>>
      BY <1>a, <2>1 DEF BeforeTheGate, Deciding
    <3>2. SpokenBefore'
      BY <2>1 DEF SpokenBefore
    <3>3. QED BY <2>1, <2>5, <3>1, <3>2 DEF BeforeTheGate, AfterTheGate, Decided
  <2>7. WorkflowTypes' /\ Recorded' /\ NoTopUnderReview(envelope') /\ NoTopUnderReview(stored')
    BY <1>a, <2>1, <2>3 DEF WorkflowTypes, Recorded, Deciding
  <2>8. QED BY <2>1, <2>6, <2>7 DEF WorkflowInv
<1>2. CASE StartGraph
  <2>1. /\ workflow = "start" /\ workflow' = "analysis" /\ ~InsufficientYield(envelope)
        /\ UNCHANGED <<envelope, stored, agentOutputs, checkpoints, agentRuns>>
    BY <1>2 DEF StartGraph, Keep
  <2>2. ~InsufficientYield(envelope')
    BY <2>1
  <2>3. BeforeTheGate' /\ AfterTheGate'
    <3>1. /\ envelope.orchestration = "none" /\ checkpoints = <<>> /\ agentRuns = <<>>
      BY <1>a, <2>1 DEF BeforeTheGate, Deciding
    <3>2. SpokenBefore'
      BY <2>1 DEF SpokenBefore
    <3>3. QED BY <2>1, <2>2, <3>1, <3>2 DEF BeforeTheGate, AfterTheGate, Decided
  <2>4. WorkflowTypes' /\ Recorded' /\ NoTopUnderReview(envelope') /\ NoTopUnderReview(stored')
    BY <1>a, <2>1 DEF WorkflowTypes, Recorded, Deciding
  <2>5. QED BY <2>1, <2>3, <2>4 DEF WorkflowInv
<1>3. ASSUME NEW a \in AgentNames, AgentAnswers(a) PROVE WorkflowInv'
  <2>1. PICK o \in Output: o.mode = "llm" /\ agentOutputs' = [agentOutputs EXCEPT ![a] = o]
    BY <1>3 DEF AgentAnswers
  <2>2. QED BY <1>3, <2>1, AgentSpeaks DEF AgentAnswers
<1>4. ASSUME NEW a \in AgentNames, AgentFallsBack(a) PROVE WorkflowInv'
  <2> DEFINE o == [RunAgents(envelope)[a] EXCEPT !.mode = "fallback"]
  <2>1. RunAgents(envelope)[a] \in Output
    BY <1>a, DeterministicHeard DEF WorkflowTypes
  <2>2. o \in Output /\ o.mode = "fallback"
    BY <2>1 DEF Output, Modes
  <2>3. workflow = a /\ agentOutputs' = [agentOutputs EXCEPT ![a] = o] /\ workflow' = After(a) /\ Keep
    BY <1>4 DEF AgentFallsBack
  <2> HIDE DEF o
  <2>4. QED BY <2>2, <2>3, AgentSpeaks
<1>5. CASE ApplyGate
  <2>1. /\ workflow = "gate" /\ workflow' = "records"
        /\ envelope' = [Under(envelope, NeedsReview(agentOutputs)) EXCEPT !.orchestration = "completed"]
        /\ UNCHANGED <<stored, agentOutputs, checkpoints, agentRuns>>
    BY <1>5 DEF ApplyGate, Gated
  <2>2. /\ envelope' \in Envelope /\ envelope'.total = envelope.total /\ envelope'.failed = envelope.failed
        /\ envelope'.complete = envelope.complete /\ envelope'.ranking = envelope.ranking
        /\ envelope'.review = NeedsReview(agentOutputs) /\ envelope'.orchestration = "completed"
        /\ NoTopUnderReview(envelope')
        /\ InsufficientYield(envelope') <=> InsufficientYield(envelope)
    <3>1. ASSUME NEW review \in BOOLEAN, envelope' = Marked(envelope, review, "completed")
          PROVE  /\ envelope' \in Envelope
                 /\ envelope'.total = envelope.total /\ envelope'.failed = envelope.failed
                 /\ envelope'.complete = envelope.complete /\ envelope'.ranking = envelope.ranking
                 /\ envelope'.review = review /\ envelope'.orchestration = "completed"
                 /\ NoTopUnderReview(envelope')
      <4>1. envelope \in Envelope /\ "completed" \in {"completed", "degraded"}
        BY <1>a DEF WorkflowTypes
      <4>2. CASE review = TRUE
        <5>1. envelope' = Marked(envelope, TRUE, "completed") /\ TRUE \in BOOLEAN
          BY <3>1, <4>2
        <5>2. QED BY <4>1, <4>2, <5>1, VerdictOnly, Zenon
      <4>3. CASE review = FALSE
        <5>1. envelope' = Marked(envelope, FALSE, "completed") /\ FALSE \in BOOLEAN
          BY <3>1, <4>3
        <5>2. QED BY <4>1, <4>3, <5>1, VerdictOnly, Zenon
      <4>4. QED BY <4>2, <4>3
    <3>2. envelope' = Marked(envelope, NeedsReview(agentOutputs), "completed")
      BY <2>1 DEF Marked
    <3>3. /\ envelope' \in Envelope
          /\ envelope'.total = envelope.total /\ envelope'.failed = envelope.failed
          /\ envelope'.complete = envelope.complete /\ envelope'.ranking = envelope.ranking
          /\ envelope'.review = NeedsReview(agentOutputs) /\ envelope'.orchestration = "completed"
          /\ NoTopUnderReview(envelope')
      BY <1>b, <3>1, <3>2, Zenon
    <3>4. InsufficientYield(envelope') <=> InsufficientYield(envelope)
      BY <3>3 DEF InsufficientYield
    <3>5. QED BY <3>3, <3>4
  <2>3. Warned /\ checkpoints = <<>> /\ agentRuns = <<>>
    BY <1>a, <2>1 DEF BeforeTheGate, Deciding
  <2>4. Warned'
    BY <2>1, <2>2, <2>3 DEF Warned
  <2>5. envelope'.review = NeedsReview(agentOutputs')
    BY <2>1, <2>2
  <2>6. BeforeTheGate' /\ AfterTheGate'
    BY <2>1, <2>2, <2>4, <2>5 DEF BeforeTheGate, AfterTheGate, Deciding
  <2>7. WorkflowTypes'
    BY <1>a, <2>1, <2>2 DEF WorkflowTypes, Decided
  <2>8. Recorded'
    BY <1>a, <2>1, <2>3, PartOfAgents DEF Recorded
  <2>9. QED BY <1>a, <2>1, <2>2, <2>6, <2>7, <2>8 DEF WorkflowInv
<1>6. CASE Degrade
  <2>1. /\ workflow \in Deciding /\ workflow' = "save"
        /\ envelope' = [Under(envelope, TRUE) EXCEPT !.orchestration = "degraded"]
        /\ UNCHANGED <<stored, agentOutputs, checkpoints, agentRuns>>
    BY <1>6 DEF Degrade, Deciding
  <2>2. /\ envelope' \in Envelope /\ envelope'.total = envelope.total /\ envelope'.failed = envelope.failed
        /\ envelope'.complete = envelope.complete /\ envelope'.ranking = envelope.ranking
        /\ envelope'.review = TRUE /\ envelope'.orchestration = "degraded"
        /\ NoTopUnderReview(envelope')
    <3>1. /\ envelope \in Envelope /\ TRUE \in BOOLEAN
          /\ envelope' = Marked(envelope, TRUE, "degraded") /\ "degraded" \in {"completed", "degraded"}
      BY <1>a, <2>1 DEF WorkflowTypes, Marked
    <3>2. QED BY <3>1, VerdictOnly, Zenon
  <2>3. checkpoints = <<>> /\ agentRuns = <<>>
    BY <1>a, <2>1 DEF BeforeTheGate
  <2>4. BeforeTheGate' /\ AfterTheGate'
    BY <2>1, <2>2, <2>3 DEF BeforeTheGate, AfterTheGate, Deciding
  <2>5. WorkflowTypes'
    BY <1>a, <2>1, <2>2 DEF WorkflowTypes, Decided
  <2>6. Recorded'
    BY <1>a, <2>1 DEF Recorded
  <2>7. QED BY <1>a, <2>1, <2>2, <2>4, <2>5, <2>6 DEF WorkflowInv
<1>7. CASE SaveCheckpoint
  <2>1. /\ workflow = "records" /\ Len(checkpoints) < 3
        /\ checkpoints' = SubSeq(Agents, 1, Len(checkpoints) + 1)
        /\ UNCHANGED <<envelope, stored, agentOutputs, workflow, agentRuns>>
    BY <1>7 DEF SaveCheckpoint
  <2>2. PICK n \in 0..3: checkpoints = SubSeq(Agents, 1, n)
    BY <1>a DEF Recorded
  <2>3. Len(checkpoints) = n
    BY <2>2, PartOfAgents
  <2>4. n + 1 \in 0..3 /\ checkpoints' = SubSeq(Agents, 1, n + 1)
    BY <2>1, <2>3
  <2>5. agentRuns = <<>>
    BY <1>a, <2>1, <2>3 DEF Recorded
  <2>6. Recorded'
    BY <1>a, <2>1, <2>4, <2>5 DEF Recorded
  <2>7. WorkflowTypes' /\ NoTopUnderReview(envelope') /\ NoTopUnderReview(stored')
    BY <1>a, <2>1 DEF WorkflowTypes
  <2>8. /\ envelope.orchestration = "completed" /\ envelope.review = NeedsReview(agentOutputs) /\ Warned
    BY <1>a, <2>1 DEF AfterTheGate, Decided
  <2>9. Warned' /\ envelope'.review = NeedsReview(agentOutputs')
    BY <2>1, <2>8 DEF Warned
  <2>10. BeforeTheGate' /\ AfterTheGate'
    BY <2>1, <2>8, <2>9 DEF BeforeTheGate, AfterTheGate, Deciding
  <2>11. QED BY <2>1, <2>6, <2>7, <2>10 DEF WorkflowInv
<1>8. CASE SaveAgentRun \/ RecordsFail
  <2>1. /\ workflow = "records" /\ workflow' \in {"records", "save"}
        /\ UNCHANGED <<envelope, stored, agentOutputs, checkpoints>>
    BY <1>8 DEF SaveAgentRun, RecordsFail
  <2>2. Recorded'
    <3>1. CASE SaveAgentRun
      <4>1. /\ Len(checkpoints) = 3 /\ agentRuns' = SubSeq(Agents, 1, Len(agentRuns) + 1)
            /\ workflow' = IF Len(agentRuns') = 3 THEN "save" ELSE "records"
        BY <3>1 DEF SaveAgentRun
      <4>2. PICK n \in 0..3: agentRuns = SubSeq(Agents, 1, n)
        BY <1>a DEF Recorded
      <4>3. Len(agentRuns) = n /\ n < 3
        BY <1>a, <2>1, <4>2, PartOfAgents DEF Recorded
      <4>4. n + 1 \in 0..3 /\ agentRuns' = SubSeq(Agents, 1, n + 1) /\ n + 1 /= 0
        BY <4>1, <4>3
      <4>5. Len(agentRuns') = n + 1
        BY <4>4, PartOfAgents
      <4>6. workflow' = "records" => Len(agentRuns') < 3
        BY <4>1, <4>4, <4>5
      <4>7. QED BY <1>a, <2>1, <4>1, <4>4, <4>6 DEF Recorded
    <3>2. CASE RecordsFail
      BY <1>a, <3>2 DEF RecordsFail, Recorded
    <3>3. QED BY <1>8, <3>1, <3>2
  <2>3. WorkflowTypes' /\ NoTopUnderReview(envelope') /\ NoTopUnderReview(stored')
    BY <1>a, <2>1 DEF WorkflowTypes, Decided
  <2>4. /\ envelope.orchestration = "completed" /\ envelope.review = NeedsReview(agentOutputs) /\ Warned
    BY <1>a, <2>1 DEF AfterTheGate, Decided
  <2>5. Warned' /\ envelope'.review = NeedsReview(agentOutputs')
    BY <2>1, <2>4 DEF Warned
  <2>6. BeforeTheGate' /\ AfterTheGate'
    BY <2>1, <2>4, <2>5 DEF BeforeTheGate, AfterTheGate, Deciding
  <2>7. QED BY <2>1, <2>2, <2>3, <2>6 DEF WorkflowInv
<1>9. CASE SaveEnvelope
  <2>1. /\ workflow = "save" /\ workflow' = "done" /\ stored' = envelope
        /\ UNCHANGED <<envelope, agentOutputs, checkpoints, agentRuns>>
    BY <1>9 DEF SaveEnvelope
  <2>2. WorkflowTypes' /\ NoTopUnderReview(envelope') /\ NoTopUnderReview(stored') /\ Recorded'
    BY <1>a, <2>1 DEF WorkflowTypes, Decided, Recorded
  <2>3. Warned => Warned'
    BY <2>1 DEF Warned
  <2>4. NeedsReview(agentOutputs') <=> NeedsReview(agentOutputs)
    BY <2>1
  <2>5. BeforeTheGate' /\ AfterTheGate'
    BY <1>a, <2>1, <2>3, <2>4 DEF BeforeTheGate, AfterTheGate, Deciding, Decided
  <2>6. QED BY <2>1, <2>2, <2>5 DEF WorkflowInv
<1>10. CASE UNCHANGED workflowVars
  BY <1>10 DEF workflowVars, WorkflowInv, WorkflowTypes, BeforeTheGate, AfterTheGate, Recorded,
               SpokenBefore, Warned, NoTopUnderReview
<1>11. QED BY <1>1, <1>2, <1>3, <1>4, <1>5, <1>6, <1>7, <1>8, <1>9, <1>10 DEF WorkflowNext

\* The review flag agrees with the yield, the grade and the agents, and the records with
\* the envelope, for panels of any size, whatever the models answer and whichever step of
\* the worker failed.
THEOREM ReviewHolds == WorkflowSpec => []ReviewConsistent
<1>1. WorkflowSpec => []WorkflowInv
  BY WorkflowInitInv, WorkflowNextInv, PTL DEF WorkflowSpec
<1>2. WorkflowInv => ReviewConsistent
  <2> SUFFICES ASSUME WorkflowInv PROVE ReviewConsistent
    OBVIOUS
  <2>1. NoTopGradeUnderReview
    BY DEF WorkflowInv, NoTopUnderReview, NoTopGradeUnderReview
  <2>2. RecordsMatchEnvelope
    BY DEF WorkflowInv, WorkflowTypes, BeforeTheGate, AfterTheGate, Recorded, RecordsMatchEnvelope
  <2>3. ASSUME workflow = "done", stored.complete, ~stored.review
        PROVE  /\ ~LowYield(stored.total, stored.failed) /\ stored.ranking /= "no"
               /\ stored.orchestration = "completed"
               /\ \A a \in AgentNames: agentOutputs[a].mode \in {"llm", "deterministic"}
    <3>1. stored = envelope /\ envelope \in Envelope /\ envelope.failed <= envelope.total
      BY <2>3 DEF WorkflowInv, WorkflowTypes
    <3>2. /\ envelope.orchestration = "completed" /\ ~NeedsReview(agentOutputs) /\ Warned
      BY <2>3, <3>1 DEF WorkflowInv, AfterTheGate, Decided
    <3>3. ~InsufficientYield(envelope)
      BY <3>2 DEF Warned
    <3>4. ~LowYield(envelope.total, envelope.failed)
      BY <3>1, <3>3, FlaggedIsRefused
    <3>5. envelope.ranking /= "no"
      BY <3>3 DEF InsufficientYield
    <3>6. QED BY <3>1, <3>2, <3>4, <3>5 DEF Warned
  <2>4. QED BY <2>1, <2>2, <2>3 DEF ReviewConsistent, UnreviewedIsUsable
<1>3. QED BY <1>1, <1>2, PTL

---------------------------------------------------------------------------
(* Panels of several questions.                                            *)

\* A persona between two steps: the headline answer decides what it has said.
AtStep(m, r) ==
    /\ m.answered \in 0..3 /\ r = m.answered
    /\ \A s \in 1..Steps: m.calls[s] = IF s <= m.answered THEN 1 ELSE 0
    /\ m.answered < Headline => m.intent = "none" /\ m.condition = "none"
    /\ m.answered >= Headline => m.intent \in {"maybe", "no"}
    /\ m.answered = Headline => m.condition = "none"
    /\ m.answered > Headline => m.condition \in Conditions

\* A persona between two attempts of the structured call.
AtAttempt(m, r) ==
    /\ m.attempt \in {0, 1} /\ r = m.attempt
    /\ \A s \in 1..Steps: m.calls[s] = IF s = 1 THEN m.attempt ELSE 0

\* A persona and the answers received for it: an error or a headline intent at the end,
\* with a condition exactly where it refused, and each answer among its calls.
MemberOK(m, r) ==
    /\ m \in Member /\ r \in 0..Steps /\ CallsOf(m) = r
    /\ m.place = "wait" => m = NewMember
    /\ m.place = "inside" =>
         /\ ~m.parsed /\ ~m.error
         /\ IF protocol = "structured" THEN AtAttempt(m, r) ELSE AtStep(m, r)
    /\ m.place = "done" =>
         /\ m.error <=> ~m.parsed
         /\ m.parsed => m.intent \in Intents /\ (m.condition = "none" <=> m.intent = "yes")

Reported ==
    /\ \A p \in Panel: member[p].place = "done"
    /\ report.total = Cardinality(Panel)
    /\ report.failed = Cardinality({p \in Panel: member[p].error \/ ~member[p].parsed})
    /\ \A i \in Intents: report.intents[i] = With("intent", i)
    /\ \A c \in Conditions: report.conditions[c] = With("condition", c)
    /\ report.calls = Total([p \in Panel |-> CallsOf(member[p])], Panel)

PanelInv ==
    /\ protocol \in Protocols
    /\ member \in [Panel -> Member] /\ received \in [Panel -> 0..Steps]
    /\ \A p \in Panel: MemberOK(member[p], received[p])
    /\ report.ready \in BOOLEAN
    /\ report.ready => Reported

\* The steps of a protocol.
LEMMA StepsAre == /\ IsFiniteSet(1..Steps) /\ 1..Steps = {1, 2, 3, 4} /\ 1 \in 1..Steps
                  /\ Headline \in {1, 3}
<1>1. IsFiniteSet(1..4)
  <2>1. 1 \in Int /\ 4 \in Int
    OBVIOUS
  <2>2. QED BY <2>1, FS_Interval
<1>2. QED BY <1>1 DEF Steps, Headline

\* The calls of a persona are a sum over its steps.
LEMMA CallsAre == ASSUME NEW m PROVE CallsOf(m) = Total(m.calls, 1..Steps)
BY DEF CallsOf, Total

\* Personas with the same calls cost the same.
LEMMA SameCalls == ASSUME NEW m, NEW n, n.calls = m.calls PROVE CallsOf(n) = CallsOf(m)
BY CallsAre

\* No call at any step, none in all.
LEMMA NoneCost ==
  ASSUME NEW S, IsFiniteSet(S)
  PROVE  Total([s \in S |-> 0], S) = 0
<1> DEFINE zero == [s \in S |-> 0]
<1>1. \A s \in S: zero[s] = 0
  OBVIOUS
<1>2. Cardinality(S) \in Nat
  BY FS_CardinalityType
<1> HIDE DEF zero
<1>3. Total(zero, S) = 0 * Cardinality(S)
  BY <1>1, TotalConstant
<1>4. Total(zero, S) = 0
  BY <1>2, <1>3
<1>5. QED BY <1>4 DEF zero

\* One call more at one place, one more in all.
LEMMA OneCallMore ==
  ASSUME NEW S, IsFiniteSet(S), NEW e \in S, NEW f, NEW g,
         \A s \in S: f[s] \in Nat, g[e] = f[e] + 1, \A s \in S \ {e}: f[s] = g[s]
  PROVE  Total(g, S) = Total(f, S) + 1 /\ Total(f, S) \in Nat
<1>1. \A s \in S: f[s] \in Int /\ g[s] \in Int
  OBVIOUS
<1>2. Total(g, S) = Total(f, S) - f[e] + g[e]
  BY <1>1, TotalChange
<1>3. Total(f, S) \in Nat
  BY TotalNat
<1>4. QED BY <1>1, <1>2, <1>3

\* A persona begins without a call.
LEMMA NewCalls == NewMember \in Member /\ CallsOf(NewMember) = 0
<1> DEFINE calls == [s \in 1..Steps |-> 0]
<1>1. calls \in [1..Steps -> 0..StructuredAttempts] /\ \A s \in 1..Steps: calls[s] = 0
  BY DEF StructuredAttempts
<1>2. Total(calls, 1..Steps) = 0
  BY StepsAre, NoneCost
<1>3. NewMember.calls = calls
  BY DEF NewMember
<1>4. NewMember \in Member
  BY <1>1 DEF NewMember, Member, Steps, StructuredAttempts
<1>5. QED BY <1>2, <1>3, <1>4, CallsAre

\* One more call of a step.
Charged(m, step) == Tracked(m, step, TRUE)

\* A charged persona has one call more at that step.
LEMMA TrackedIs ==
  ASSUME NEW m \in Member, NEW step \in 1..Steps, m.calls[step] < StructuredAttempts,
         NEW n, n = Charged(m, step)
  PROVE  /\ n \in Member /\ CallsOf(n) = CallsOf(m) + 1 /\ CallsOf(m) \in Int
         /\ n.calls[step] = m.calls[step] + 1
         /\ \A s \in 1..Steps \ {step}: n.calls[s] = m.calls[s]
         /\ n.place = m.place /\ n.answered = m.answered /\ n.attempt = m.attempt
         /\ n.intent = m.intent /\ n.condition = m.condition
         /\ n.parsed = m.parsed /\ n.error = m.error
<1>1. PICK f \in [1..Steps -> 0..StructuredAttempts]: f = m.calls
  BY DEF Member
<1> DEFINE g == [f EXCEPT ![step] = f[step] + 1]
<1>2. f \in [1..Steps -> Nat] /\ g \in [1..Steps -> 0..StructuredAttempts]
  <2>1. f[step] < StructuredAttempts
    BY <1>1
  <2>2. 0..StructuredAttempts = {0, 1, 2}
    BY DEF StructuredAttempts
  <2>3. f[step] \in {0, 1}
    <3>1. f[step] \in 0..StructuredAttempts
      BY <1>1
    <3>2. f[step] \in {0, 1, 2}
      BY <2>2, <3>1
    <3>3. f[step] < 2
      BY <2>1 DEF StructuredAttempts
    <3>4. QED BY <3>2, <3>3
  <2>4. QED BY <1>1, <2>2, <2>3
<1>3. n = [m EXCEPT !.calls = g]
  BY <1>1 DEF Charged, Tracked, Member
<1>4. /\ Total(g, 1..Steps) = Total(f, 1..Steps) + 1 /\ Total(f, 1..Steps) \in Nat
      /\ g[step] = f[step] + 1 /\ \A s \in 1..Steps \ {step}: g[s] = f[s]
  <2>1. /\ \A s \in 1..Steps: f[s] \in Nat
        /\ g[step] = f[step] + 1 /\ \A s \in 1..Steps \ {step}: f[s] = g[s]
    BY <1>2
  <2> HIDE DEF g
  <2>2. Total(g, 1..Steps) = Total(f, 1..Steps) + 1 /\ Total(f, 1..Steps) \in Nat
    BY <2>1, StepsAre, OneCallMore
  <2>3. QED BY <2>1, <2>2
<1> HIDE DEF g
<1>5. /\ n \in Member /\ n.calls = g
      /\ n.place = m.place /\ n.answered = m.answered /\ n.attempt = m.attempt
      /\ n.intent = m.intent /\ n.condition = m.condition
      /\ n.parsed = m.parsed /\ n.error = m.error
  BY <1>2, <1>3 DEF Member
<1>6. CallsOf(n) = Total(g, 1..Steps) /\ CallsOf(m) = Total(f, 1..Steps)
  BY <1>1, <1>5, CallsAre
<1>7. QED BY <1>1, <1>4, <1>5, <1>6

\* A discarded persona keeps its calls and counts as failed.
LEMMA DiscardedIs ==
  ASSUME NEW m \in Member, NEW n, n = Discarded(m)
  PROVE  /\ n \in Member /\ CallsOf(n) = CallsOf(m)
         /\ n.place = "done" /\ n.error = TRUE /\ n.parsed = FALSE
<1>1. n \in Member /\ n.calls = m.calls /\ n.place = "done" /\ n.error = TRUE /\ n.parsed = FALSE
  BY DEF Discarded, Member
<1>2. QED BY <1>1, SameCalls

\* A completed persona keeps its calls and its answers.
LEMMA CompletedIs ==
  ASSUME NEW m \in Member, NEW n, n = Completed(m)
  PROVE  /\ n \in Member /\ CallsOf(n) = CallsOf(m)
         /\ n.place = "done" /\ n.error = m.error /\ n.parsed = TRUE
         /\ n.intent = m.intent /\ n.condition = m.condition
<1>1. /\ n \in Member /\ n.calls = m.calls /\ n.place = "done" /\ n.error = m.error /\ n.parsed = TRUE
      /\ n.intent = m.intent /\ n.condition = m.condition
  BY DEF Completed, Member
<1>2. QED BY <1>1, SameCalls

\* What is true of a persona depends on the protocol only.
LEMMA MemberLater ==
  ASSUME NEW m, NEW r, protocol' = protocol, MemberOK(m, r)
  PROVE  MemberOK(m, r)'
BY DEF MemberOK, AtStep, AtAttempt, Headline

\* A dropped persona is all right, whatever it had answered.
LEMMA DropOK ==
  ASSUME NEW m \in Member, NEW r \in 0..Steps, CallsOf(m) = r, NEW n, n = Discarded(m)
  PROVE  MemberOK(n, r)
<1>1. n \in Member /\ CallsOf(n) = r /\ n.place = "done" /\ n.error = TRUE /\ n.parsed = FALSE
  BY DiscardedIs
<1>2. QED BY <1>1 DEF MemberOK

\* A step of one persona, which is not over yet.
LEMMA MemberSteps ==
  ASSUME PanelInv, NEW p \in Panel, member[p].place /= "done",
         NEW m, NEW r, MemberOK(m, r),
         member' = [member EXCEPT ![p] = m], received' = [received EXCEPT ![p] = r],
         UNCHANGED <<protocol, report>>
  PROVE  PanelInv'
<1>1. m \in Member /\ r \in 0..Steps
  BY DEF MemberOK
<1>2. /\ member' \in [Panel -> Member] /\ received' \in [Panel -> 0..Steps]
      /\ member'[p] = m /\ received'[p] = r
      /\ \A q \in Panel \ {p}: member'[q] = member[q] /\ received'[q] = received[q]
  BY <1>1 DEF PanelInv
<1>3. MemberOK(m, r)'
  BY MemberLater
<1>4. \A q \in Panel: MemberOK(member[q], received[q])'
  <2> SUFFICES ASSUME NEW q \in Panel PROVE MemberOK(member[q], received[q])'
    OBVIOUS
  <2>1. CASE q = p
    BY <1>2, <1>3, <2>1 DEF MemberOK, AtStep, AtAttempt, Headline
  <2>2. CASE q /= p
    <3>1. MemberOK(member[q], received[q])
      BY DEF PanelInv
    <3>2. member'[q] = member[q] /\ received'[q] = received[q]
      BY <1>2, <2>2
    <3>3. QED BY <3>1, <3>2 DEF MemberOK, AtStep, AtAttempt, Headline
  <2>3. QED BY <2>1, <2>2
<1>5. ~report.ready
  BY DEF PanelInv, Reported
<1>6. QED BY <1>2, <1>4, <1>5 DEF PanelInv

\* Nobody has been asked at first.
LEMMA PanelInitInv == PanelInit => PanelInv
<1> SUFFICES ASSUME PanelInit PROVE PanelInv
  OBVIOUS
<1>1. /\ protocol \in Protocols /\ member = [p \in Panel |-> NewMember]
      /\ received = [p \in Panel |-> 0] /\ ~report.ready /\ report.ready \in BOOLEAN
  BY DEF PanelInit, NoReport
<1>2. NewMember \in Member /\ CallsOf(NewMember) = 0 /\ NewMember.place = "wait"
  BY NewCalls DEF NewMember
<1>3. MemberOK(NewMember, 0)
  BY <1>2 DEF MemberOK, Steps
<1>4. 0 \in 0..Steps
  BY DEF Steps
<1>5. QED BY <1>1, <1>2, <1>3, <1>4 DEF PanelInv

\* A persona that waited has said and cost nothing yet.
LEMMA SeatOK ==
  ASSUME NEW r, MemberOK(NewMember, r), NEW n, n = [NewMember EXCEPT !.place = "inside"]
  PROVE  MemberOK(n, r)
<1>1. PICK calls: calls = NewMember.calls
  OBVIOUS
<1>2. \A s \in 1..Steps: calls[s] = 0
  BY <1>1 DEF NewMember
<1>3. /\ n.place = "inside" /\ n.answered = 0 /\ n.attempt = 0 /\ n.intent = "none"
      /\ n.condition = "none" /\ n.parsed = FALSE /\ n.error = FALSE /\ n.calls = calls
  BY <1>1 DEF NewMember
<1>4. r = 0 /\ r \in 0..Steps /\ CallsOf(n) = r
  BY <1>1, <1>3, NewCalls, SameCalls DEF MemberOK
<1>5. n \in Member
  <2>1. NewMember \in Member
    BY NewCalls
  <2>2. QED BY <2>1 DEF Member
<1>6. AtAttempt(n, r)
  BY <1>2, <1>3, <1>4 DEF AtAttempt
<1>7. AtStep(n, r)
  <2>1. \A s \in 1..Steps: ~(s <= 0)
    BY DEF Steps
  <2>2. \A s \in 1..Steps: n.calls[s] = IF s <= n.answered THEN 1 ELSE 0
    BY <1>2, <1>3, <2>1
  <2>3. QED BY <1>3, <1>4, <2>2, StepsAre DEF AtStep
<1>8. QED BY <1>3, <1>4, <1>5, <1>6, <1>7 DEF MemberOK

\* A persona between two steps, and its next answer.
LEMMA StepTracked ==
  ASSUME NEW m, NEW r, MemberOK(m, r), m.place = "inside", protocol /= "structured",
         NEW t, t = Charged(m, m.answered + 1)
  PROVE  /\ t \in Member /\ CallsOf(t) = r + 1 /\ r + 1 \in 0..Steps /\ AtStep(m, r)
         /\ t.place = "inside" /\ t.answered = m.answered /\ ~t.parsed /\ ~t.error
         /\ t.intent = m.intent /\ t.condition = m.condition
         /\ \A s \in 1..Steps: t.calls[s] = IF s <= m.answered + 1 THEN 1 ELSE 0
<1>1. AtStep(m, r) /\ m \in Member /\ CallsOf(m) = r /\ ~m.parsed /\ ~m.error
  BY DEF MemberOK
<1> DEFINE step == m.answered + 1
<1>2. m.answered \in 0..3 /\ step \in 1..Steps /\ r + 1 \in 0..Steps /\ ~(step <= m.answered)
  BY <1>1 DEF AtStep, Steps
<1>3. m.calls[step] = 0 /\ m.calls[step] < StructuredAttempts
  BY <1>1, <1>2 DEF AtStep, StructuredAttempts
<1> HIDE DEF step
<1>4. /\ t \in Member /\ CallsOf(t) = CallsOf(m) + 1
      /\ t.calls[step] = m.calls[step] + 1
      /\ \A s \in 1..Steps \ {step}: t.calls[s] = m.calls[s]
      /\ t.place = m.place /\ t.answered = m.answered
      /\ t.intent = m.intent /\ t.condition = m.condition
      /\ t.parsed = m.parsed /\ t.error = m.error
  <2>1. t = Charged(m, step)
    BY DEF step
  <2>2. QED BY <1>1, <1>2, <1>3, <2>1, TrackedIs
<1>5. \A s \in 1..Steps: t.calls[s] = IF s <= m.answered + 1 THEN 1 ELSE 0
  <2> SUFFICES ASSUME NEW s \in 1..Steps PROVE t.calls[s] = IF s <= m.answered + 1 THEN 1 ELSE 0
    OBVIOUS
  <2>1. m.calls[s] = IF s <= m.answered THEN 1 ELSE 0
    BY <1>1 DEF AtStep
  <2>2. CASE s = step
    <3>1. s <= m.answered + 1
      BY <1>2, <2>2 DEF step
    <3>2. QED BY <1>3, <1>4, <2>2, <3>1
  <2>3. CASE s /= step
    <3>1. s <= m.answered + 1 <=> s <= m.answered
      BY <1>2, <2>3 DEF step
    <3>2. t.calls[s] = m.calls[s]
      BY <1>4, <2>3
    <3>3. QED BY <2>1, <3>1, <3>2
  <2>4. QED BY <2>2, <2>3
<1>6. QED BY <1>1, <1>2, <1>4, <1>5

\* The persona after a readable answer.
Settled(n) == IF Over(n) THEN Completed(n) ELSE n

\* A readable answer: the persona goes on, or it is complete.
LEMMA SaysOK ==
  ASSUME NEW m, NEW r, MemberOK(m, r), m.place = "inside", protocol /= "structured", protocol \in Protocols,
         NEW t, t = Charged(m, m.answered + 1),
         NEW i \in MayIntend(t, m.answered + 1), NEW c \in MayStipulate(t, m.answered + 1),
         NEW n, n = Says(t, m.answered + 1, i, c),
         NEW k, k = Settled(n)
  PROVE  MemberOK(k, r + 1)
<1> DEFINE step == m.answered + 1
<1>2. /\ t \in Member /\ CallsOf(t) = r + 1 /\ r + 1 \in 0..Steps /\ AtStep(m, r)
      /\ t.place = "inside" /\ t.answered = m.answered /\ ~t.parsed /\ ~t.error
      /\ t.intent = m.intent /\ t.condition = m.condition
      /\ \A s \in 1..Steps: t.calls[s] = IF s <= m.answered + 1 THEN 1 ELSE 0
  BY StepTracked
<1>3. /\ i \in (IF step = Headline THEN Intents ELSE {t.intent})
      /\ c \in (IF AsksCondition(step) THEN Conditions ELSE {t.condition})
      /\ n = [t EXCEPT !.answered = step, !.intent = i, !.condition = c]
  BY DEF Says, MayIntend, MayStipulate
<1>4. m.answered \in 0..3 /\ r = m.answered /\ step \in 1..4 /\ step \in 0..Steps
  BY <1>2 DEF AtStep, Steps
<1>5. i \in Intents \cup {"none"} /\ c \in Conditions \cup {"none"}
  BY <1>2, <1>3 DEF Member
<1>6. /\ n \in Member /\ n.calls = t.calls /\ n.place = "inside" /\ n.answered = step
      /\ n.intent = i /\ n.condition = c /\ n.parsed = FALSE /\ n.error = FALSE
  BY <1>2, <1>3, <1>4, <1>5 DEF Member
<1>7. CallsOf(n) = r + 1
  BY <1>2, <1>6, SameCalls
<1>8. /\ step < Headline => i = "none" /\ c = "none"
      /\ step = Headline => i \in Intents /\ c = "none"
      /\ step > Headline => i \in {"maybe", "no"} /\ c \in Conditions
  <2>1. /\ m.answered < Headline => m.intent = "none" /\ m.condition = "none"
        /\ m.answered >= Headline => m.intent \in {"maybe", "no"}
        /\ m.answered = Headline => m.condition = "none"
        /\ m.answered > Headline => m.condition \in Conditions
    BY <1>2 DEF AtStep
  <2>2. /\ step = Headline => i \in Intents
        /\ step /= Headline => i = m.intent
        /\ step = Headline + 1 => c \in Conditions
        /\ step /= Headline + 1 => c = m.condition
    BY <1>2, <1>3 DEF AsksCondition
  <2>3. Headline \in {1, 3}
    BY StepsAre
  <2>4. CASE step < Headline
    BY <1>4, <2>1, <2>2, <2>3, <2>4
  <2>5. CASE step = Headline
    BY <1>4, <2>1, <2>2, <2>3, <2>5
  <2>6. CASE step > Headline
    BY <1>4, <2>1, <2>2, <2>3, <2>6
  <2>7. QED BY <1>4, <2>3, <2>4, <2>5, <2>6
<1> HIDE DEF step
<1>9. CASE Over(n)
  <2>1. /\ k \in Member /\ CallsOf(k) = r + 1 /\ k.place = "done" /\ k.error = FALSE /\ k.parsed = TRUE
        /\ k.intent = i /\ k.condition = c
    <3>1. k = Completed(n)
      BY <1>9 DEF Settled
    <3>2. /\ k \in Member /\ CallsOf(k) = CallsOf(n) /\ k.place = "done" /\ k.error = n.error
          /\ k.parsed = TRUE /\ k.intent = n.intent /\ k.condition = n.condition
      <4>1. n \in Member
        BY <1>6
      <4>2. QED BY <3>1, <4>1, CompletedIs, Zenon
    <3>3. QED BY <1>6, <1>7, <3>2
  <2>2. (step = 4 /\ Headline < 4) \/ (step = Headline /\ i = "yes")
    <3>1. Headline \in {1, 3}
      BY StepsAre
    <3>2. step = 4 \/ (step = Headline /\ i = "yes")
      BY <1>6, <1>9 DEF Over, Steps
    <3>3. QED BY <3>1, <3>2
  <2>3. i \in Intents /\ (c = "none" <=> i = "yes")
    BY <1>8, <2>2 DEF Intents, Conditions
  <2>4. QED BY <1>2, <2>1, <2>3 DEF MemberOK
<1>10. CASE ~Over(n)
  <2>1. k = n
    BY <1>10 DEF Settled
  <2>2. step /= 4 /\ ~(step = Headline /\ i = "yes")
    BY <1>6, <1>10 DEF Over, Steps
  <2>3. step \in 0..3 /\ r + 1 = step
    BY <1>4, <2>2 DEF step
  <2>4. \A s \in 1..Steps: n.calls[s] = IF s <= step THEN 1 ELSE 0
    BY <1>2, <1>6 DEF step
  <2>5. AtStep(n, r + 1)
    <3>1. /\ n.answered \in 0..3 /\ r + 1 = n.answered
          /\ \A s \in 1..Steps: n.calls[s] = IF s <= n.answered THEN 1 ELSE 0
      BY <1>6, <2>3, <2>4
    <3>2. /\ n.answered < Headline => n.intent = "none" /\ n.condition = "none"
          /\ n.answered = Headline => n.intent \in Intents \ {"yes"} /\ n.condition = "none"
          /\ n.answered > Headline => n.intent \in {"maybe", "no"} /\ n.condition \in Conditions
      BY <1>6, <1>8, <2>2
    <3>3. n.answered >= Headline => n.answered = Headline \/ n.answered > Headline
      <4>1. n.answered \in Int /\ Headline \in {1, 3}
        BY <3>1, StepsAre
      <4>2. QED BY <4>1
    <3>4. Intents \ {"yes"} = {"maybe", "no"}
      BY DEF Intents
    <3>5. QED BY <3>1, <3>2, <3>3, <3>4 DEF AtStep
  <2>6. QED BY <1>2, <1>6, <1>7, <2>1, <2>5 DEF MemberOK
<1>11. QED BY <1>9, <1>10

\* A persona between two attempts, and the answer to one.
LEMMA AttemptTracked ==
  ASSUME NEW m, NEW r, MemberOK(m, r), m.place = "inside", protocol = "structured",
         NEW t, t = Charged(m, 1)
  PROVE  /\ t \in Member /\ CallsOf(t) = r + 1 /\ r + 1 \in 0..Steps /\ AtAttempt(m, r)
         /\ t.place = "inside" /\ t.attempt = m.attempt /\ ~t.parsed /\ ~t.error
         /\ \A s \in 1..Steps: t.calls[s] = IF s = 1 THEN m.attempt + 1 ELSE 0
<1>1. AtAttempt(m, r) /\ m \in Member /\ CallsOf(m) = r /\ ~m.parsed /\ ~m.error
  BY DEF MemberOK
<1>2. m.attempt \in {0, 1} /\ 1 \in 1..Steps /\ r + 1 \in 0..Steps
  BY <1>1 DEF AtAttempt, Steps
<1>3. m.calls[1] = m.attempt /\ m.calls[1] < StructuredAttempts
  BY <1>1, <1>2 DEF AtAttempt, StructuredAttempts
<1>4. /\ t \in Member /\ CallsOf(t) = CallsOf(m) + 1
      /\ t.calls[1] = m.calls[1] + 1
      /\ \A s \in 1..Steps \ {1}: t.calls[s] = m.calls[s]
      /\ t.place = m.place /\ t.attempt = m.attempt
      /\ t.parsed = m.parsed /\ t.error = m.error
  BY <1>1, <1>2, <1>3, TrackedIs
<1>5. \A s \in 1..Steps: t.calls[s] = IF s = 1 THEN m.attempt + 1 ELSE 0
  BY <1>1, <1>3, <1>4 DEF AtAttempt
<1>6. QED BY <1>1, <1>2, <1>4, <1>5

\* One action of one persona.
LEMMA MemberActs ==
  ASSUME PanelInv, NEW p \in Panel,
         \/ TakeSeat(p) \/ StepRaises(p) \/ StepUnreadable(p) \/ StepAnswered(p)
         \/ CallRaises(p) \/ CallInvalid(p) \/ CallValid(p)
  PROVE  PanelInv'
<1> DEFINE m == member[p]
           r == received[p]
<1>1. /\ MemberOK(m, r) /\ m \in Member /\ r \in 0..Steps /\ CallsOf(m) = r
      /\ protocol \in Protocols
      /\ received = [received EXCEPT ![p] = r]
  BY DEF PanelInv, MemberOK
<1>2. CASE TakeSeat(p)
  <2>1. m.place = "wait" /\ m = NewMember
    BY <1>1, <1>2 DEF TakeSeat, MemberOK
  <2>2. PICK n: n = [NewMember EXCEPT !.place = "inside"]
    OBVIOUS
  <2>3. MemberOK(n, r)
    <3>1. MemberOK(NewMember, r)
      BY <1>1, <2>1
    <3>2. QED BY <2>2, <3>1, SeatOK
  <2>4. member' = [member EXCEPT ![p] = n] /\ received' = [received EXCEPT ![p] = r] /\ UNCHANGED <<protocol, report>>
    BY <1>1, <1>2, <2>1, <2>2 DEF TakeSeat
  <2> HIDE DEF r
  <2>5. QED BY <2>1, <2>3, <2>4, MemberSteps
<1>3. CASE StepRaises(p) \/ CallRaises(p)
  <2>1. m.place = "inside"
    BY <1>3 DEF StepRaises, StepByStep, CallRaises, Structured, In
  <2>2. PICK n: n = Discarded(m)
    OBVIOUS
  <2>3. MemberOK(n, r)
    BY <1>1, <2>2, DropOK
  <2>4. member' = [member EXCEPT ![p] = n] /\ received' = [received EXCEPT ![p] = r] /\ UNCHANGED <<protocol, report>>
    BY <1>1, <1>3, <2>2 DEF StepRaises, CallRaises
  <2> HIDE DEF r
  <2>5. QED BY <2>1, <2>3, <2>4, MemberSteps
<1>4. CASE StepUnreadable(p)
  <2>1. m.place = "inside" /\ protocol /= "structured"
    BY <1>4 DEF StepUnreadable, StepByStep, In
  <2>2. PICK t: t = Charged(m, m.answered + 1)
    OBVIOUS
  <2>3. t \in Member /\ CallsOf(t) = r + 1 /\ r + 1 \in 0..Steps
    <3> HIDE DEF m, r
    <3>1. QED BY <1>1, <2>1, <2>2, StepTracked
  <2>4. PICK n: n = Discarded(t)
    OBVIOUS
  <2>5. MemberOK(n, r + 1)
    <3> HIDE DEF r
    <3>1. QED BY <2>3, <2>4, DropOK
  <2>6. /\ member' = [member EXCEPT ![p] = n] /\ received' = [received EXCEPT ![p] = r + 1]
        /\ UNCHANGED <<protocol, report>>
    BY <1>4, <2>2, <2>4 DEF StepUnreadable, Tracked, Charged
  <2> HIDE DEF r
  <2>7. QED BY <2>1, <2>5, <2>6, MemberSteps
<1>5. CASE StepAnswered(p)
  <2>1. m.place = "inside" /\ protocol /= "structured"
    BY <1>5 DEF StepAnswered, StepByStep, In
  <2>2. PICK t: t = Charged(m, m.answered + 1)
    OBVIOUS
  <2>3. PICK i \in MayIntend(t, m.answered + 1), c \in MayStipulate(t, m.answered + 1):
          member' = [member EXCEPT ![p] = IF Over(Says(t, m.answered + 1, i, c))
                       THEN Completed(Says(t, m.answered + 1, i, c)) ELSE Says(t, m.answered + 1, i, c)]
    BY <1>5, <2>2 DEF StepAnswered, Charged
  <2>4. PICK n: n = Says(t, m.answered + 1, i, c)
    OBVIOUS
  <2>5. PICK k: k = Settled(n)
    OBVIOUS
  <2>6. MemberOK(k, r + 1)
    <3> HIDE DEF m, r
    <3>1. QED BY <1>1, <2>1, <2>2, <2>4, <2>5, SaysOK
  <2>7. /\ member' = [member EXCEPT ![p] = k] /\ received' = [received EXCEPT ![p] = r + 1]
        /\ UNCHANGED <<protocol, report>>
    BY <1>5, <2>3, <2>4, <2>5 DEF StepAnswered, Settled
  <2> HIDE DEF r
  <2>8. QED BY <2>1, <2>6, <2>7, MemberSteps
<1>6. CASE CallInvalid(p)
  <2>1. m.place = "inside" /\ protocol = "structured"
    BY <1>6 DEF CallInvalid, Structured, In
  <2>2. PICK t: t = Charged(m, 1)
    OBVIOUS
  <2>3. /\ t \in Member /\ CallsOf(t) = r + 1 /\ r + 1 \in 0..Steps /\ AtAttempt(m, r)
        /\ t.place = "inside" /\ t.attempt = m.attempt /\ ~t.parsed /\ ~t.error
        /\ \A s \in 1..Steps: t.calls[s] = IF s = 1 THEN m.attempt + 1 ELSE 0
    <3> HIDE DEF m, r
    <3>1. QED BY <1>1, <2>1, <2>2, AttemptTracked
  <2>4. PICK n: n = [t EXCEPT !.attempt = t.attempt + 1]
    OBVIOUS
  <2>5. /\ n \in Member /\ CallsOf(n) = r + 1 /\ n.attempt = m.attempt + 1
        /\ n.place = "inside" /\ ~n.parsed /\ ~n.error /\ n.calls = t.calls
    <3>1. m.attempt \in {0, 1} /\ t.attempt + 1 \in 0..StructuredAttempts
      BY <2>3 DEF AtAttempt, StructuredAttempts
    <3>2. /\ n \in Member /\ n.attempt = m.attempt + 1 /\ n.calls = t.calls
          /\ n.place = t.place /\ n.parsed = t.parsed /\ n.error = t.error
      BY <2>3, <2>4, <3>1 DEF Member
    <3>3. QED BY <2>3, <3>2, SameCalls
  <2>6. PICK k: k = IF n.attempt = StructuredAttempts THEN Discarded(n) ELSE n
    OBVIOUS
  <2>7. MemberOK(k, r + 1)
    <3>1. CASE n.attempt = StructuredAttempts
      <4>1. k = Discarded(n)
        BY <2>6, <3>1
      <4> HIDE DEF r
      <4>2. QED BY <2>3, <2>5, <4>1, DropOK
    <3>2. CASE n.attempt /= StructuredAttempts
      <4>1. m.attempt = 0 /\ r = 0
        BY <2>3, <2>5, <3>2 DEF AtAttempt, StructuredAttempts
      <4>2. AtAttempt(n, r + 1)
        BY <2>3, <2>5, <4>1 DEF AtAttempt
      <4>3. k = n
        BY <2>6, <3>2
      <4>4. QED BY <2>1, <2>3, <2>5, <4>2, <4>3 DEF MemberOK
    <3>3. QED BY <3>1, <3>2
  <2>8. /\ member' = [member EXCEPT ![p] = k] /\ received' = [received EXCEPT ![p] = r + 1]
        /\ UNCHANGED <<protocol, report>>
    BY <1>6, <2>2, <2>4, <2>6 DEF CallInvalid, Charged, Tracked
  <2> HIDE DEF r
  <2>9. QED BY <2>1, <2>7, <2>8, MemberSteps
<1>7. CASE CallValid(p)
  <2>1. m.place = "inside" /\ protocol = "structured"
    BY <1>7 DEF CallValid, Structured, In
  <2>2. PICK t: t = Charged(m, 1)
    OBVIOUS
  <2>3. t \in Member /\ CallsOf(t) = r + 1 /\ r + 1 \in 0..Steps /\ ~t.parsed /\ ~t.error
    <3> HIDE DEF m, r
    <3>1. QED BY <1>1, <2>1, <2>2, AttemptTracked
  <2>4. PICK u: u = Completed(t)
    OBVIOUS
  <2>5. /\ u \in Member /\ CallsOf(u) = r + 1 /\ u.place = "done" /\ u.error = FALSE /\ u.parsed = TRUE
    <3>1. /\ u \in Member /\ CallsOf(u) = CallsOf(t) /\ u.place = "done" /\ u.error = t.error
          /\ u.parsed = TRUE
      BY <2>3, <2>4, CompletedIs, Zenon
    <3>2. t.error = FALSE
      BY <2>3 DEF Member
    <3>3. QED BY <2>3, <3>1, <3>2
  <2>6. PICK i \in Intents, c \in Conditions \cup {"none"}:
          /\ i = "yes" <=> c = "none"
          /\ member' = [member EXCEPT ![p] = [u EXCEPT !.intent = i, !.condition = c, !.answered = Steps]]
    BY <1>7, <2>2, <2>4 DEF CallValid, Charged
  <2>7. PICK k: k = [u EXCEPT !.intent = i, !.condition = c, !.answered = Steps]
    OBVIOUS
  <2>8. /\ k \in Member /\ CallsOf(k) = r + 1 /\ k.place = "done" /\ k.error = FALSE /\ k.parsed = TRUE
        /\ k.intent = i /\ k.condition = c
    <3>1. Steps \in 0..Steps
      BY DEF Steps
    <3>2. /\ k \in Member /\ k.place = "done" /\ k.error = FALSE /\ k.parsed = TRUE
          /\ k.intent = i /\ k.condition = c /\ k.calls = u.calls
      BY <2>5, <2>7, <3>1 DEF Member
    <3>3. QED BY <2>5, <3>2, SameCalls
  <2>9. MemberOK(k, r + 1)
    BY <2>3, <2>6, <2>8 DEF MemberOK
  <2>10. /\ member' = [member EXCEPT ![p] = k] /\ received' = [received EXCEPT ![p] = r + 1]
         /\ UNCHANGED <<protocol, report>>
    BY <1>7, <2>6, <2>7 DEF CallValid
  <2> HIDE DEF r
  <2>11. QED BY <2>1, <2>9, <2>10, MemberSteps
<1>8. QED BY <1>2, <1>3, <1>4, <1>5, <1>6, <1>7

\* The usage of the whole panel is the sum over its personas.
LEMMA PanelCalls ==
  MapThenSumSet(LAMBDA p: CallsOf(member[p]), Panel) = Total([p \in Panel |-> CallsOf(member[p])], Panel)
<1> DEFINE f == [p \in Panel |-> CallsOf(member[p])]
           body(g, s) == IF s = {} THEN 0 ELSE CallsOf(member[Pick(s)]) + g[s \ {Pick(s)}]
<1>1. \A g: IsFold(g, f, Panel) <=> g = [s \in SUBSET Panel |-> body(g, s)]
  <2>1. \A s \in SUBSET Panel: s /= {} => f[Pick(s)] = CallsOf(member[Pick(s)])
    BY Picked
  <2> HIDE DEF f
  <2> SUFFICES ASSUME NEW g
               PROVE  IsFold(g, f, Panel) <=> g = [s \in SUBSET Panel |-> body(g, s)]
    OBVIOUS
  <2>2. \A s \in SUBSET Panel: Unfolded(g, f, s) = body(g, s)
    BY <2>1 DEF Unfolded
  <2>3. QED BY <2>2 DEF IsFold
<1>2. MapThenSumSet(LAMBDA p: CallsOf(member[p]), Panel)
        = (CHOOSE g: g = [s \in SUBSET Panel |-> body(g, s)])[Panel]
  BY DEF MapThenSumSet, MapThenFoldSet, Pick
<1>3. (CHOOSE g: g = [s \in SUBSET Panel |-> body(g, s)]) = Fold(f, Panel)
  <2> HIDE DEF f, body
  <2> QED BY <1>1 DEF Fold
<1> HIDE DEF f
<1>4. QED BY <1>2, <1>3, TotalIsFold DEF f

\* Every call, answer and failure keeps the account.
LEMMA PanelNextInv == PanelInv /\ [PanelNext]_panelVars => PanelInv'
<1> SUFFICES ASSUME PanelInv, [PanelNext]_panelVars PROVE PanelInv'
  OBVIOUS
<1>1. ASSUME NEW p \in Panel,
             \/ TakeSeat(p) \/ StepRaises(p) \/ StepUnreadable(p) \/ StepAnswered(p)
             \/ CallRaises(p) \/ CallInvalid(p) \/ CallValid(p)
      PROVE  PanelInv'
  BY <1>1, MemberActs
\* What is known of the personas and their report while they stay as they are.
<1>2. ASSUME UNCHANGED <<protocol, member, received>>
      PROVE  \A p \in Panel: MemberOK(member[p], received[p])'
  <2> SUFFICES ASSUME NEW p \in Panel PROVE MemberOK(member[p], received[p])'
    OBVIOUS
  <2>1. MemberOK(member[p], received[p])
    BY DEF PanelInv
  <2>2. QED BY <1>2, <2>1 DEF MemberOK, AtStep, AtAttempt, Headline
<1>3. CASE Aggregate
  <2>1. /\ UNCHANGED <<protocol, member, received>> /\ \A p \in Panel: member[p].place = "done"
        /\ report'.ready = TRUE /\ report'.total = Cardinality(Panel)
        /\ report'.failed = Cardinality({p \in Panel: member[p].error \/ ~member[p].parsed})
        /\ report'.intents = [i \in Intents |-> With("intent", i)]
        /\ report'.conditions = [c \in Conditions |-> With("condition", c)]
        /\ report'.calls = Total([p \in Panel |-> CallsOf(member[p])], Panel)
    BY <1>3, PanelCalls DEF Aggregate
  <2>2. Reported'
    <3>1. \A f, v: With(f, v)' = With(f, v)
      BY <2>1 DEF With, Parsed
    <3>2. /\ \A i \in Intents: report'.intents[i] = With("intent", i)'
          /\ \A c \in Conditions: report'.conditions[c] = With("condition", c)'
      BY <2>1, <3>1
    <3>3. QED BY <2>1, <3>2 DEF Reported
  <2>3. QED BY <1>2, <2>1, <2>2 DEF PanelInv
<1>4. CASE UNCHANGED panelVars
  <2>1. UNCHANGED <<protocol, member, received, report>>
    BY <1>4 DEF panelVars
  <2>2. Reported => Reported'
    BY <2>1 DEF Reported, With, Parsed
  <2>3. QED BY <1>2, <2>1, <2>2 DEF PanelInv
<1>5. QED BY <1>1, <1>3, <1>4 DEF PanelNext

\* The report accounts for everything that was asked.
LEMMA PanelInvAccounts == PanelInv => PanelAccounted
<1> SUFFICES ASSUME PanelInv, report.ready PROVE PanelAccounted
  BY DEF PanelAccounted, PanelAddsUp, ConditionsAreRefusals, EveryAnswerPaid
<1>1. Reported
  BY DEF PanelInv
<1>2. \A p \in Panel: /\ member[p] \in Member /\ CallsOf(member[p]) = received[p] /\ received[p] \in 0..Steps
                      /\ member[p].error <=> ~member[p].parsed
                      /\ member[p].parsed => /\ member[p].intent \in Intents
                                             /\ member[p].condition = "none" <=> member[p].intent = "yes"
  BY <1>1 DEF PanelInv, MemberOK, Reported
<1> DEFINE Meaning(i) == {p \in Parsed: member[p].intent = i}
           Stating(c) == {p \in Parsed: member[p].condition = c}
           failed == {p \in Panel: member[p].error \/ ~member[p].parsed}
<1>3. /\ Meaning("yes") \in SUBSET Panel /\ Meaning("maybe") \in SUBSET Panel /\ Meaning("no") \in SUBSET Panel
      /\ Stating("conditional") \in SUBSET Panel /\ Stating("still") \in SUBSET Panel
      /\ failed \in SUBSET Panel
  BY DEF Parsed
<1>4. \A T \in SUBSET Panel: IsFiniteSet(T) /\ Cardinality(T) \in Nat
  BY PanelConstants, FS_Subset, FS_CardinalityType
<1>5. /\ failed \cap Meaning("yes") = {} /\ (failed \cup Meaning("yes")) \cap Meaning("maybe") = {}
      /\ (failed \cup Meaning("yes") \cup Meaning("maybe")) \cap Meaning("no") = {}
      /\ failed \cup Meaning("yes") \cup Meaning("maybe") \cup Meaning("no") = Panel
  BY <1>2 DEF Parsed, Intents
<1>6. /\ Stating("conditional") \cap Stating("still") = {} /\ Meaning("maybe") \cap Meaning("no") = {}
      /\ Stating("conditional") \cup Stating("still") = Meaning("maybe") \cup Meaning("no")
  BY <1>2 DEF Parsed, Intents, Conditions, Member
<1>7. /\ report.total = Cardinality(Panel) /\ report.failed = Cardinality(failed)
      /\ report.intents["yes"] = Cardinality(Meaning("yes"))
      /\ report.intents["maybe"] = Cardinality(Meaning("maybe"))
      /\ report.intents["no"] = Cardinality(Meaning("no"))
      /\ report.conditions["conditional"] = Cardinality(Stating("conditional"))
      /\ report.conditions["still"] = Cardinality(Stating("still"))
  BY <1>1 DEF Reported, With, Intents, Conditions
<1>8. \A S, T \in SUBSET Panel:
        S \cap T = {} => Cardinality(S \cup T) = Cardinality(S) + Cardinality(T)
  <2> SUFFICES ASSUME NEW S \in SUBSET Panel, NEW T \in SUBSET Panel, S \cap T = {}
               PROVE  Cardinality(S \cup T) = Cardinality(S) + Cardinality(T)
    OBVIOUS
  <2>1. Cardinality(S \cup T) = Cardinality(S) + Cardinality(T) - Cardinality(S \cap T)
    BY <1>4, FS_Union
  <2>2. Cardinality(S \cap T) = 0 /\ Cardinality(S) \in Nat /\ Cardinality(T) \in Nat
    BY <1>4, FS_EmptySet
  <2>3. QED BY <2>1, <2>2
<1> HIDE DEF Meaning, Stating, failed
<1>9. PanelAddsUp
  <2>1. /\ Cardinality(failed \cup Meaning("yes")) = Cardinality(failed) + Cardinality(Meaning("yes"))
        /\ failed \cup Meaning("yes") \in SUBSET Panel
    BY <1>3, <1>5, <1>8
  <2>2. /\ Cardinality(failed \cup Meaning("yes") \cup Meaning("maybe"))
             = Cardinality(failed \cup Meaning("yes")) + Cardinality(Meaning("maybe"))
        /\ failed \cup Meaning("yes") \cup Meaning("maybe") \in SUBSET Panel
    BY <1>3, <1>5, <1>8, <2>1
  <2>3. Cardinality(Panel)
          = Cardinality(failed \cup Meaning("yes") \cup Meaning("maybe")) + Cardinality(Meaning("no"))
    BY <1>3, <1>5, <1>8, <2>2
  <2>4. QED BY <1>7, <2>1, <2>2, <2>3 DEF PanelAddsUp
<1>10. ConditionsAreRefusals
  <2>1. Cardinality(Stating("conditional") \cup Stating("still"))
          = Cardinality(Stating("conditional")) + Cardinality(Stating("still"))
    BY <1>3, <1>6, <1>8
  <2>2. Cardinality(Meaning("maybe") \cup Meaning("no"))
          = Cardinality(Meaning("maybe")) + Cardinality(Meaning("no"))
    BY <1>3, <1>6, <1>8
  <2>3. QED BY <1>6, <1>7, <2>1, <2>2 DEF ConditionsAreRefusals
<1>11. EveryAnswerPaid
  <2> DEFINE f == [p \in Panel |-> CallsOf(member[p])]
  <2>1. \A p \in Panel: f[p] \in Int /\ f[p] = received[p]
    BY <1>2 DEF Steps
  <2>2. report.calls = Total(f, Panel)
    BY <1>1 DEF Reported
  <2> HIDE DEF f
  <2>3. Total(f, Panel) = Total(received, Panel)
    BY <2>1, PanelConstants, TotalSame
  <2>4. Total(received, Panel) = MapThenSumSet(LAMBDA p: received[p], Panel)
    BY DEF Total
  <2>5. QED BY <2>2, <2>3, <2>4 DEF EveryAnswerPaid
<1>12. QED BY <1>9, <1>10, <1>11 DEF PanelAccounted

\* Every persona, every refusal and every answer that was paid for is in the report, for
\* any panel, any number of seats and each of the three protocols.
THEOREM PanelAddsAllUp == PanelSpec => []PanelAccounted
<1>1. PanelSpec => []PanelInv
  BY PanelInitInv, PanelNextInv, PTL DEF PanelSpec
<1>2. QED BY <1>1, PanelInvAccounts, PTL

\* No more personas are inside than there are places.
Seated == {p \in Panel: In(p)}
SeatsKept == Cardinality(Seated) <= Seats

\* At the start everyone waits.
LEMMA SeatsFree == PanelInit => SeatsKept
<1> SUFFICES ASSUME PanelInit PROVE SeatsKept
  OBVIOUS
<1>1. Seated = {}
  BY DEF PanelInit, Seated, In, NewMember
<1>2. Cardinality(Seated) = 0
  BY <1>1, FS_EmptySet
<1>3. QED BY <1>2, PanelConstants DEF SeatsKept

\* Only who found a free place comes in.
LEMMA SeatsStay == SeatsKept /\ PanelInv /\ [PanelNext]_panelVars => SeatsKept'
<1> SUFFICES ASSUME SeatsKept, PanelInv, [PanelNext]_panelVars PROVE SeatsKept'
  OBVIOUS
<1>1. CASE member' = member
  BY <1>1 DEF SeatsKept, Seated, In
<1>2. ASSUME NEW p \in Panel, NEW m, member' = [member EXCEPT ![p] = m],
             In(p) \/ Cardinality(Seated) < Seats
      PROVE  SeatsKept'
  <2> DEFINE A == Seated  B == Seated'
  <2>1. IsFiniteSet(A) /\ Seats \in Nat
    BY PanelConstants, FS_Subset DEF Seated
  <2>2. B \subseteq A \cup {p}
    BY <1>2 DEF Seated, In, PanelInv
  <2>3. (p \in A /\ Cardinality(A) <= Seats) \/ Cardinality(A) < Seats
    BY <1>2 DEF SeatsKept, Seated
  <2> HIDE DEF A, B
  <2>4. Cardinality(B) <= Seats
    BY <2>1, <2>2, <2>3, PlacesEnough
  <2>5. QED BY <2>4 DEF SeatsKept, B
<1>3. ASSUME NEW p \in Panel,
             \/ TakeSeat(p) \/ StepRaises(p) \/ StepUnreadable(p) \/ StepAnswered(p)
             \/ CallRaises(p) \/ CallInvalid(p) \/ CallValid(p)
      PROVE  SeatsKept'
  <2>1. CASE TakeSeat(p)
    <3>1. member' = [member EXCEPT ![p] = [member[p] EXCEPT !.place = "inside"]]
      BY <2>1 DEF TakeSeat, PanelInv
    <3>2. Cardinality(Seated) < Seats
      BY <2>1 DEF TakeSeat, Seated
    <3>3. QED BY <1>2, <3>1, <3>2
  <2>2. CASE StepRaises(p) \/ StepUnreadable(p) \/ StepAnswered(p) \/ CallRaises(p) \/ CallInvalid(p) \/ CallValid(p)
    <3>1. In(p) /\ \E m: member' = [member EXCEPT ![p] = m]
      BY <2>2 DEF StepRaises, StepUnreadable, StepAnswered, CallRaises, CallInvalid, CallValid, StepByStep,
                  Structured, PanelInv
    <3>2. QED BY <1>2, <3>1
  <2>3. QED BY <1>3, <2>1, <2>2
<1>4. CASE Aggregate
  BY <1>1, <1>4 DEF Aggregate
<1>5. CASE UNCHANGED panelVars
  BY <1>1, <1>5 DEF panelVars
<1>6. QED BY <1>3, <1>4, <1>5 DEF PanelNext

---------------------------------------------------------------------------
(* Questions to the panel of a finished run.                               *)

CohortTypes ==
    /\ row \in [Respondents -> PolicyRows \cup ScoredRows] /\ origin \in Origins
    /\ question \in [kind: {"none", "followup", "persuasion"}, cohort: Cohorts, size: Nat]
    /\ asked \subseteq Everyone /\ said \in [asked -> Sayings]

\* Whom a persuasion asks.
OpposersAsked ==
    /\ asked \subseteq Members("opposed")
    /\ origin = "default" /\ question.size = 0 => asked = Members("opposed")
    /\ origin = "campus" => asked = {}

\* Who is asked fits the question, and the response counts what was said.
CohortInv ==
    /\ CohortTypes /\ OnlyCohortAsked
    /\ question = NoQuestion => summary = NoSummary /\ asked = {} /\ said = <<>>
    /\ question.kind = "persuasion" => OpposersAsked
    /\ question.kind = "none" => question = NoQuestion
    /\ summary.size \in Nat /\ summary.size <= Cardinality(Everyone)
    /\ summary.ready =>
         /\ summary.size = Cardinality(asked)
         /\ question.kind = "persuasion" =>
              summary.converted = Saying({"for"}) /\ summary.held = Saying({"against"})

\* The respondents and the strangers are finitely many.
LEMMA EveryoneFinite ==
  /\ IsFiniteSet(Everyone) /\ Cardinality(Everyone) \in Nat
  /\ \A T \in SUBSET Everyone:
       IsFiniteSet(T) /\ Cardinality(T) \in Nat /\ Cardinality(T) <= Cardinality(Everyone)
<1>1. IsFiniteSet(Everyone)
  BY CohortConstants, FS_Union DEF Everyone
<1>2. QED BY <1>1, FS_Subset, FS_CardinalityType

\* Whoever a list or a draw yields is someone of it.
LEMMA FirstsAmong ==
  ASSUME NEW people, NEW n, NEW T \in Firsts(people, n)
  PROVE  T \subseteq people
BY DEF Firsts, kSubset

\* A fresh panel is drawn from everyone.
LEMMA DrawAmong ==
  ASSUME NEW kept, NEW T \in Redraws(kept)
  PROVE  T \subseteq Everyone
<1>1. CASE origin = "default" \/ (origin = "filtered" /\ kept)
  BY <1>1 DEF Redraws, Everyone
<1>2. CASE origin = "filtered" /\ ~kept
  BY <1>2 DEF Redraws, Everyone
<1>3. CASE ~(origin = "default" \/ (origin = "filtered" /\ kept)) /\ ~(origin = "filtered" /\ ~kept)
  BY <1>3 DEF Redraws, Everyone
<1>4. QED BY <1>1, <1>2, <1>3

\* The default pool yields the panel of a run that was drawn from it again, and
\* strangers to a campus run.
LEMMA DrawAgain ==
  ASSUME NEW kept, NEW T \in Redraws(kept)
  PROVE  /\ origin = "default" \/ (origin = "filtered" /\ kept) => T = Respondents
         /\ origin = "campus" => T \subseteq Strangers
<1>1. CASE origin = "default" \/ (origin = "filtered" /\ kept)
  BY <1>1 DEF Redraws
<1>2. CASE origin = "campus"
  BY <1>2 DEF Redraws
<1>3. QED BY <1>1, <1>2

\* A cohort is part of the panel.
LEMMA MembersAmong == ASSUME NEW c PROVE Members(c) \subseteq Everyone
BY DEF Members, Everyone

\* More ways to answer, more people who answered so.
LEMMA SayingsGrow ==
  ASSUME CohortTypes, NEW T, NEW U, T \subseteq U
  PROVE  Saying(T) \in Nat /\ Saying(U) \in Nat /\ Saying(T) <= Saying(U)
<1> DEFINE A == {p \in asked: said[p] \in T}
           B == {p \in asked: said[p] \in U}
<1>1. IsFiniteSet(asked)
  BY EveryoneFinite DEF CohortTypes
<1>2. B \subseteq asked /\ A \subseteq B
  OBVIOUS
<1>3. Saying(T) = Cardinality(A) /\ Saying(U) = Cardinality(B)
  BY DEF Saying
<1> HIDE DEF A, B
<1>4. QED BY <1>1, <1>2, <1>3, FS_Subset, FS_CardinalityType

\* Nothing is asked at first.
LEMMA CohortInitInv == CohortInit => CohortInv
<1> SUFFICES ASSUME CohortInit PROVE CohortInv
  OBVIOUS
<1>1. row \in [Respondents -> PolicyRows \cup ScoredRows]
  BY DEF CohortInit
<1>2. question = NoQuestion /\ asked = {} /\ said = <<>> /\ summary = NoSummary /\ origin \in Origins
  BY DEF CohortInit
<1>3. said \in [asked -> Sayings]
  BY <1>2
<1>4. CohortTypes
  BY <1>1, <1>2, <1>3 DEF CohortTypes, NoQuestion, Cohorts
<1>5. Cardinality(Everyone) \in Nat
  BY EveryoneFinite
<1>6. QED BY <1>2, <1>4, <1>5 DEF CohortInv, OnlyCohortAsked, NoQuestion, NoSummary

\* A question is put to some of the people there are.
LEMMA QuestionPut ==
  ASSUME CohortInv, question = NoQuestion, question'.kind \in {"followup", "persuasion"},
         question' \in [kind: {"none", "followup", "persuasion"}, cohort: Cohorts, size: Nat],
         asked' \subseteq Everyone, said' \in [asked' -> Sayings],
         OnlyCohortAsked', question'.kind = "persuasion" => OpposersAsked',
         UNCHANGED <<row, origin, summary>>
  PROVE  CohortInv'
<1>1. CohortTypes'
  BY DEF CohortInv, CohortTypes
<1>2. summary' = NoSummary /\ NoSummary.ready = FALSE /\ NoSummary.size = 0
  BY DEF CohortInv, NoSummary
<1>3. question' /= NoQuestion /\ question'.kind /= "none"
  BY DEF NoQuestion
<1>4. Cardinality(Everyone) \in Nat
  BY EveryoneFinite
<1>5. QED BY <1>1, <1>2, <1>3, <1>4 DEF CohortInv, NoSummary

\* Choosing, answering and summing up keep to the cohort.
LEMMA CohortNextInv == CohortInv /\ [CohortNext]_cohortVars => CohortInv'
<1> SUFFICES ASSUME CohortInv, [CohortNext]_cohortVars PROVE CohortInv'
  OBVIOUS
<1>1. ASSUME NEW c \in Cohorts, NEW n \in {0, 1}, AskCohort(c, n) PROVE CohortInv'
  <2>1. /\ question = NoQuestion /\ question' = [kind |-> "followup", cohort |-> c, size |-> n]
        /\ said' \in [asked' -> Sayings] /\ UNCHANGED <<row, origin, summary>>
    BY <1>1 DEF AskCohort
  <2>2. PICK people \in Addressees(c): asked' \in Firsts(people, n)
    BY <1>1 DEF AskCohort
  <2>3. people \subseteq Everyone
    BY <2>2, MembersAmong, DrawAmong DEF Addressees
  <2>4. asked' \subseteq people /\ (n = 0 => asked' = people)
    BY <2>2, FirstsAmong DEF Firsts
  <2>5. Members(c)' = Members(c)
    BY <2>1 DEF Members
  <2>6. /\ Members(c) /= {} => people = Members(c)
        /\ Members(c) = {} /\ origin /= "campus" => people = Respondents
        /\ Members(c) = {} /\ origin = "campus" => people \subseteq Strangers
    <3>1. origin \in Origins
      BY DEF CohortInv, CohortTypes
    <3>2. CASE Members(c) /= {}
      BY <2>2, <3>2 DEF Addressees
    <3>3. CASE Members(c) = {}
      <4>1. people \in Redraws(TRUE)
        BY <2>2, <3>3 DEF Addressees
      <4>2. CASE origin = "campus"
        BY <3>3, <4>1, <4>2, DrawAgain
      <4>3. CASE origin /= "campus"
        BY <3>1, <3>3, <4>1, <4>3, DrawAgain DEF Origins
      <4>4. QED BY <4>2, <4>3
    <3>4. QED BY <3>2, <3>3
  <2>7. question'.cohort = c /\ question'.size = n /\ question'.kind = "followup"
    BY <2>1
  <2>8. OnlyCohortAsked'
    <3>1. Members(question.cohort)' = Members(c)
      BY <2>1, <2>7 DEF Members
    <3>2. QED BY <2>1, <2>4, <2>6, <2>7, <3>1 DEF OnlyCohortAsked
  <2>9. question' \in [kind: {"none", "followup", "persuasion"}, cohort: Cohorts, size: Nat]
    BY <2>1
  <2>10. QED BY <2>1, <2>3, <2>4, <2>7, <2>8, <2>9, QuestionPut
<1>2. ASSUME NEW n \in {0, 1}, AskOpposers(n) PROVE CohortInv'
  <2>1. /\ question = NoQuestion /\ question' = [kind |-> "persuasion", cohort |-> "opposed", size |-> n]
        /\ said' \in [asked' -> Sayings] /\ UNCHANGED <<row, origin, summary>>
    BY <1>2 DEF AskOpposers
  <2>2. PICK opposers \in Firsts(Members("opposed"), n), draw \in Redraws(FALSE):
          asked' = Persuadable(draw, opposers)
    BY <1>2 DEF AskOpposers
  <2>3. asked' \subseteq Members("opposed")
    BY <2>2, FirstsAmong DEF Persuadable
  <2>4. asked' \subseteq Everyone
    BY <2>3, MembersAmong
  <2>5. OpposersAsked'
    <3>1. Members("opposed")' = Members("opposed") /\ Members("opposed") \subseteq Respondents
      BY <2>1 DEF Members
    <3>2. n = 0 => opposers = Members("opposed")
      BY <2>2 DEF Firsts
    <3>3. opposers \subseteq Respondents
      BY <2>2, <3>1, FirstsAmong
    <3>4. /\ origin = "default" => draw = Respondents
          /\ origin = "campus" => draw \subseteq Strangers
      BY <2>2, DrawAgain
    <3>5. asked' = draw \cap opposers /\ origin' = origin /\ question'.size = n
      BY <2>1, <2>2 DEF Persuadable
    <3>6. origin = "campus" => asked' = {}
      BY <3>3, <3>4, <3>5, CohortConstants
    <3>7. origin = "default" /\ n = 0 => asked' = Members("opposed")
      BY <3>1, <3>2, <3>4, <3>5
    <3>8. QED BY <2>3, <3>1, <3>5, <3>6, <3>7 DEF OpposersAsked
  <2>6. question'.kind = "persuasion" /\ OnlyCohortAsked'
    BY <2>1 DEF OnlyCohortAsked
  <2>7. question' \in [kind: {"none", "followup", "persuasion"}, cohort: Cohorts, size: Nat]
    BY <2>1 DEF Cohorts
  <2>8. QED BY <2>1, <2>4, <2>5, <2>6, <2>7, QuestionPut
<1>3. CASE Summarize
  <2>1. /\ question /= NoQuestion /\ UNCHANGED <<row, origin, question, asked, said>>
        /\ summary'.ready /\ summary'.size = Cardinality(asked)
        /\ question.kind = "persuasion" =>
             summary'.converted = Saying(Parsable \cap Converting) /\ summary'.held = Saying({"against"})
    BY <1>3 DEF Summarize, Held
  <2>2. Parsable \cap Converting = {"for"}
    BY DEF Parsable, Converting
  <2>3. CohortTypes' /\ OnlyCohortAsked'
    BY <2>1 DEF CohortInv, CohortTypes, OnlyCohortAsked, Members
  <2>4. Saying({"for"})' = Saying({"for"}) /\ Saying({"against"})' = Saying({"against"})
        /\ OpposersAsked' = OpposersAsked
    BY <2>1 DEF Saying, Members, OpposersAsked
  <2>5. Cardinality(asked) \in Nat /\ Cardinality(asked) <= Cardinality(Everyone)
    BY EveryoneFinite DEF CohortInv, CohortTypes
  <2>6. QED BY <2>1, <2>2, <2>3, <2>4, <2>5 DEF CohortInv
<1>4. CASE NextQuestion
  <2>1. /\ question' = NoQuestion /\ asked' = {} /\ said' = <<>> /\ summary' = NoSummary
        /\ UNCHANGED <<row, origin>>
    BY <1>4 DEF NextQuestion
  <2>2. CohortTypes'
    <3>1. said' \in [asked' -> Sayings]
      BY <2>1
    <3>2. QED BY <2>1, <3>1 DEF CohortInv, CohortTypes, NoQuestion, Cohorts
  <2>3. Cardinality(Everyone) \in Nat
    BY EveryoneFinite
  <2>4. QED BY <2>1, <2>2, <2>3 DEF CohortInv, OnlyCohortAsked, NoQuestion, NoSummary
<1>5. CASE UNCHANGED cohortVars
  BY <1>5 DEF cohortVars, CohortInv, CohortTypes, OnlyCohortAsked, OpposersAsked, Members, Saying
<1>6. QED BY <1>1, <1>2, <1>3, <1>4, <1>5 DEF CohortNext

\* A question is answered by the cohort it was put to or, when that is empty, by the
\* new draw; only people who opposed are asked to change their mind, and each is
\* counted on the side taken, for any panel and any pool of strangers.
THEOREM CohortHolds == CohortSpec => []CohortRespected
<1>1. CohortSpec => []CohortInv
  BY CohortInitInv, CohortNextInv, PTL DEF CohortSpec
<1>2. CohortInv => CohortRespected
  <2> SUFFICES ASSUME CohortInv PROVE CohortRespected
    OBVIOUS
  <2>1. CohortTypes /\ OnlyCohortAsked
    BY DEF CohortInv
  <2>2. ConvertsWereOpposed
    <3>1. {"for"} \subseteq Converting
      BY DEF Converting
    <3>2. Saying({"for"}) <= Saying({"for"}) /\ Saying({"for"}) <= Saying(Converting)
      BY <2>1, <3>1, SayingsGrow
    <3>3. QED BY <3>2 DEF CohortInv, ConvertsWereOpposed, OpposersAsked
  <2>3. QED BY <2>1, <2>2 DEF CohortRespected
<1>3. QED BY <1>1, <1>2, PTL

---------------------------------------------------------------------------
(* The script that guards the site.                                        *)

\* An application, and a script at work: an allowlist is never empty.
NamedApp == [paths: PathSets, policies: Seq(Allowlists \ {{}})]
Work == [step: ScriptSteps \ {"idle"}, paths: PathSets, allow: Allowlists,
         found: BOOLEAN, app: 0..MaxObjects]
Applying == {"listApps", "putApp", "listPolicies", "putPolicy"}

\* One object of each name.
OneNamed ==
    /\ accessApps \in Seq(NamedApp) /\ Len(accessApps) <= 1 /\ providers \in 0..1
    /\ \A i \in DOMAIN accessApps: Len(accessApps[i].policies) <= 1

\* The script at work found what is there, and outcomeOf carries its configuration.
WorkKnows ==
    script.step /= "idle" =>
        /\ script \in Work
        /\ outcomeOf = [mode |-> "running", paths |-> script.paths, allow |-> script.allow]
        /\ script.step \in Applying => script.allow /= {}
        /\ script.step = "putApp" => (script.found <=> Len(accessApps) > 0)
        /\ script.step \in {"listPolicies", "putPolicy"} =>
             Len(accessApps) = 1 /\ script.app = 1 /\ accessApps[1].paths = script.paths
        /\ script.step = "putPolicy" => (script.found <=> Len(accessApps[1].policies) > 0)
        /\ script.step = "deleteApp" => Len(accessApps) = 1
        /\ script.step = "putProvider" => (script.found <=> providers > 0)

AccessInv ==
    /\ OneNamed /\ WorkKnows /\ LastRunHolds
    /\ script.step = "idle" <=> script = Idle

\* The script begins with at most one application of the name.
LEMMA AccessInitInv == AccessInit => AccessInv
<1> SUFFICES ASSUME AccessInit PROVE AccessInv
  OBVIOUS
<1>1. script.step = "idle" /\ script = Idle
  BY DEF AccessInit, Idle
<1>2. OneNamed
  BY DEF AccessInit, OneNamed
<1>3. WorkKnows /\ LastRunHolds
  BY <1>1 DEF AccessInit, WorkKnows, LastRunHolds
<1>4. QED BY <1>1, <1>2, <1>3 DEF AccessInv

\* A run that ends, and one that goes on to its next request.
LEMMA RunEnds ==
  ASSUME WorkKnows, script.step /= "idle", NEW mode \in {"failed", "applied", "disabled", "provided"}, Ends(mode)
  PROVE  /\ script' = Idle /\ script'.step = "idle"
         /\ outcomeOf' = [mode |-> mode, paths |-> script.paths, allow |-> script.allow]
BY DEF Ends, WorkKnows, Idle

\* A continued run keeps what it was called with.
LEMMA RunContinues ==
  ASSUME WorkKnows, script.step /= "idle", NEW step \in ScriptSteps \ {"idle"}, NEW found \in BOOLEAN,
         Continues(step, found)
  PROVE  /\ script' \in Work /\ script'.step = step /\ script'.found = found
         /\ script'.paths = script.paths /\ script'.allow = script.allow /\ script'.app = script.app
         /\ outcomeOf' = [mode |-> "running", paths |-> script'.paths, allow |-> script'.allow]
BY DEF Continues, WorkKnows, Work

\* A run that ends without having changed anything leaves what is there.
LEMMA EndKeeps ==
  ASSUME AccessInv, script.step /= "idle", Ends("failed") \/ Ends("provided"), OneNamed'
  PROVE  AccessInv'
<1>1. script' = Idle /\ script'.step = "idle" /\ outcomeOf'.mode \in {"failed", "provided"}
  BY RunEnds DEF AccessInv
<1>2. QED BY <1>1 DEF AccessInv, WorkKnows, LastRunHolds

\* A sequence of one element.
LEMMA Single ==
  ASSUME NEW S, NEW s \in Seq(S), Len(s) = 1
  PROVE  s[1] \in S /\ s = <<s[1]>>
<1>1. 1 \in DOMAIN s /\ DOMAIN s = 1..1
  OBVIOUS
<1>2. s[1] \in S
  BY <1>1
<1>3. QED BY <1>1, <1>2

\* The only element set anew, and the first one added.
LEMMA SetFirst ==
  ASSUME NEW S, NEW s \in Seq(S), NEW x \in S
  PROVE  /\ Len(s) = 1 => [s EXCEPT ![1] = x] = <<x>>
         /\ Len(s) = 0 => Append(s, x) = <<x>>
         /\ <<x>> \in Seq(S) /\ Len(<<x>>) = 1 /\ <<x>>[1] = x
<1>1. CASE Len(s) = 1
  <2>1. s = <<s[1]>>
    BY <1>1, Single
  <2>2. [<<s[1]>> EXCEPT ![1] = x] = <<x>>
    OBVIOUS
  <2>3. QED BY <1>1, <2>1, <2>2
<1>2. CASE Len(s) = 0
  <2>1. s = <<>>
    BY <1>2
  <2>2. QED BY <1>2, <2>1
<1>3. CASE Len(s) \notin {0, 1}
  BY <1>3
<1>4. QED BY <1>1, <1>2, <1>3

\* The first element added.
LEMMA FirstAdded ==
  ASSUME NEW S, NEW s \in Seq(S), NEW x \in S, Len(s) = 0
  PROVE  Append(s, x) = <<x>>
BY SetFirst

\* A look that leaves the objects as they are.
LEMMA OneKept == OneNamed /\ UNCHANGED <<accessApps, providers>> => OneNamed'
BY DEF OneNamed

\* Each call of the script keeps what it knows about the account.
LEMMA AccessNextInv == AccessInv /\ [AccessNext]_accessVars => AccessInv'
<1> SUFFICES ASSUME AccessInv, [AccessNext]_accessVars PROVE AccessInv'
  OBVIOUS
<1>a. OneNamed /\ WorkKnows /\ LastRunHolds /\ (script.step = "idle" <=> script = Idle)
  BY DEF AccessInv
<1>b. MaxObjects \in Nat \ {0}
  BY AccessConstants
\* A look that finds how many there are.
<1>c. ASSUME NEW step \in ScriptSteps \ {"idle"}, NEW n \in Nat, script.step /= "idle",
             Replies(step, FindNamed(n)), UNCHANGED <<accessApps, providers>>,
             step \in Applying => script.allow /= {},
             step = "putApp" => n = Len(accessApps),
             step \in {"listPolicies", "putPolicy"} =>
               Len(accessApps) = 1 /\ script.app = 1 /\ accessApps[1].paths = script.paths,
             step = "putPolicy" => n = Len(accessApps[1].policies),
             step = "deleteApp" => Len(accessApps) = 1,
             step = "putProvider" => n = providers
      PROVE  AccessInv'
  <2>1. OneNamed'
    BY <1>a, <1>c, OneKept
  <2>2. CASE Ends("failed")
    BY <1>c, <2>1, <2>2, EndKeeps
  <2>3. CASE Continues(step, FindNamed(n))
    <3>1. FindNamed(n) \in BOOLEAN /\ (FindNamed(n) <=> n > 0)
      BY DEF FindNamed
    <3>2. /\ script' \in Work /\ script'.step = step /\ (script'.found <=> n > 0)
          /\ script'.paths = script.paths /\ script'.allow = script.allow /\ script'.app = script.app
          /\ outcomeOf' = [mode |-> "running", paths |-> script'.paths, allow |-> script'.allow]
      <4> DEFINE found == FindNamed(n)
      <4>1. found \in BOOLEAN /\ (found <=> n > 0) /\ Continues(step, found)
        BY <2>3, <3>1
      <4> HIDE DEF found
      <4>2. QED BY <1>a, <1>c, <4>1, RunContinues
    <3>3. script'.step /= "idle" /\ script' /= Idle
      BY <3>2 DEF Idle
    <3>4. WorkKnows'
      BY <1>c, <3>2 DEF WorkKnows
    <3>5. LastRunHolds'
      BY <3>2 DEF LastRunHolds
    <3>6. QED BY <2>1, <3>3, <3>4, <3>5 DEF AccessInv
  <2>4. QED BY <1>c, <2>2, <2>3 DEF Replies
<1>1. ASSUME NEW paths \in PathSets, NEW allow \in Allowlists,
             NEW step \in {"listApps", "listForDelete", "listProviders"}, StartScript(step, paths, allow)
      PROVE  AccessInv'
  <2>1. /\ script' = [step |-> step, paths |-> paths, allow |-> allow, found |-> FALSE, app |-> 0]
        /\ outcomeOf' = [mode |-> "running", paths |-> paths, allow |-> allow]
        /\ UNCHANGED <<accessApps, providers>> /\ (step = "listApps" => allow /= {})
    BY <1>1 DEF StartScript
  <2>2. script' \in Work /\ script'.step = step /\ script' /= Idle /\ script'.step /= "idle"
    BY <1>b, <2>1 DEF Work, ScriptSteps, Idle
  <2>3. OneNamed'
    BY <1>a, <2>1, OneKept
  <2>4. WorkKnows'
    BY <2>1, <2>2 DEF WorkKnows, Applying
  <2>5. LastRunHolds'
    BY <2>1 DEF LastRunHolds
  <2>6. QED BY <2>2, <2>3, <2>4, <2>5 DEF AccessInv
<1>2. CASE ListApps
  <2>1. Len(accessApps) \in Nat
    BY <1>a DEF OneNamed
  <2>2. QED BY <1>2, <1>a, <1>c, <2>1 DEF ListApps, WorkKnows, Applying, ScriptSteps
<1>3. CASE PutApp
  <2>1. /\ script.step = "putApp" /\ script \in Work /\ script.allow /= {}
        /\ (script.found <=> Len(accessApps) > 0)
        /\ outcomeOf = [mode |-> "running", paths |-> script.paths, allow |-> script.allow]
        /\ accessApps \in Seq(NamedApp) /\ Len(accessApps) <= 1 /\ Len(accessApps) \in Nat
        /\ providers' = providers
    BY <1>3, <1>a DEF PutApp, WorkKnows, OneNamed, Applying
  <2>2. CASE UNCHANGED accessApps /\ Ends("failed")
    <3>1. OneNamed'
      BY <1>a, <2>1, <2>2, OneKept
    <3>2. QED BY <2>1, <2>2, <3>1, EndKeeps
  <2>3. CASE ~(UNCHANGED accessApps /\ Ends("failed"))
    <3>1. /\ accessApps' = IF script.found THEN [accessApps EXCEPT ![1].paths = script.paths]
                           ELSE Append(accessApps, App(script.paths, <<>>))
          /\ \/ /\ script' = [script EXCEPT !.step = "listPolicies",
                              !.app = IF script.found THEN 1 ELSE Len(accessApps')]
                /\ UNCHANGED outcomeOf
             \/ Ends("failed")
      BY <1>3, <2>3 DEF PutApp
    <3>2. script.paths \in PathSets
      BY <2>1 DEF Work
    <3>3. /\ accessApps' \in Seq(NamedApp) /\ Len(accessApps') = 1
          /\ accessApps'[1].paths = script.paths /\ Len(accessApps'[1].policies) <= 1
      <4>1. CASE script.found
        <5>0. Len(accessApps) = 1
          BY <2>1, <4>1
        <5>1. Len(accessApps) = 1 /\ accessApps[1] \in NamedApp /\ Len(accessApps[1].policies) <= 1
          BY <1>a, <2>1, <5>0, Single DEF OneNamed
        <5>2. [accessApps[1] EXCEPT !.paths = script.paths] \in NamedApp
              /\ [accessApps[1] EXCEPT !.paths = script.paths].paths = script.paths
              /\ [accessApps[1] EXCEPT !.paths = script.paths].policies = accessApps[1].policies
          BY <3>2, <5>1 DEF NamedApp
        <5>3. accessApps' = [accessApps EXCEPT ![1] = [accessApps[1] EXCEPT !.paths = script.paths]]
          BY <3>1, <4>1
        <5> DEFINE app == [accessApps[1] EXCEPT !.paths = script.paths]
        <5>4. app \in NamedApp /\ app.paths = script.paths /\ app.policies = accessApps[1].policies
              /\ accessApps' = [accessApps EXCEPT ![1] = app]
          BY <5>2, <5>3
        <5> HIDE DEF app
        <5>5. accessApps' = <<app>> /\ <<app>> \in Seq(NamedApp) /\ Len(<<app>>) = 1 /\ <<app>>[1] = app
          BY <2>1, <5>0, <5>4, SetFirst
        <5>6. QED BY <5>1, <5>4, <5>5
      <4>2. CASE ~script.found
        <5>1. Len(accessApps) = 0
          BY <2>1, <4>2
        <5>2. App(script.paths, <<>>) \in NamedApp /\ App(script.paths, <<>>).paths = script.paths
              /\ App(script.paths, <<>>).policies = <<>>
          BY <3>2 DEF App, NamedApp
        <5>3. accessApps' = Append(accessApps, App(script.paths, <<>>))
          BY <3>1, <4>2
        <5> DEFINE app == App(script.paths, <<>>)
        <5>e. app \in NamedApp /\ accessApps' = Append(accessApps, app)
          BY <5>2, <5>3
        <5> HIDE DEF app
        <5>f. accessApps'[1] = app /\ Len(accessApps') = 1 /\ accessApps' \in Seq(NamedApp)
          BY <2>1, <5>1, <5>e, SetFirst
        <5>4. accessApps'[1] = App(script.paths, <<>>) /\ Len(accessApps') = 1
              /\ accessApps' \in Seq(NamedApp)
          BY <5>f DEF app
        <5>5. QED BY <5>2, <5>4
      <4>3. QED BY <4>1, <4>2
    <3>o. DOMAIN accessApps' = 1..1
      BY <3>3
    <3>4. OneNamed'
      BY <1>a, <2>1, <3>3, <3>o DEF OneNamed
    <3>5. CASE Ends("failed")
      BY <2>1, <3>4, <3>5, EndKeeps
    <3>6. CASE ~Ends("failed")
      <4>1. script' = [script EXCEPT !.step = "listPolicies", !.app = 1] /\ outcomeOf' = outcomeOf
        BY <3>1, <3>3, <3>6
      <4>2. /\ script' \in Work /\ script'.step = "listPolicies" /\ script'.app = 1
            /\ script'.paths = script.paths /\ script'.allow = script.allow
        <5>1. 1 \in 0..MaxObjects /\ "listPolicies" \in ScriptSteps \ {"idle"}
          BY <1>b DEF ScriptSteps
        <5>2. QED BY <2>1, <4>1, <5>1 DEF Work
      <4>3. script'.step /= "idle" /\ script' /= Idle
        BY <4>2 DEF Idle
      <4>4. WorkKnows'
        BY <2>1, <3>3, <4>1, <4>2 DEF WorkKnows
      <4>5. LastRunHolds'
        BY <2>1, <4>1 DEF LastRunHolds
      <4>6. QED BY <3>4, <4>3, <4>4, <4>5 DEF AccessInv
    <3>7. QED BY <3>5, <3>6
  <2>4. QED BY <2>2, <2>3
<1>4. CASE ListPolicies
  <2>1. /\ script.step = "listPolicies" /\ script.allow /= {}
        /\ Len(accessApps) = 1 /\ script.app = 1 /\ accessApps[1].paths = script.paths
    BY <1>4, <1>a DEF ListPolicies, WorkKnows, Applying
  <2>2. accessApps[1] \in NamedApp /\ Len(accessApps[1].policies) \in Nat
    <3>1. accessApps \in Seq(NamedApp)
      BY <1>a DEF OneNamed
    <3>2. accessApps[1] \in NamedApp
      BY <2>1, <3>1, Single
    <3>3. accessApps[1].policies \in Seq(Allowlists \ {{}})
      BY <3>2 DEF NamedApp
    <3>4. QED BY <3>2, <3>3
  <2>3. Replies("putPolicy", FindNamed(Len(accessApps[1].policies))) /\ UNCHANGED <<accessApps, providers>>
    BY <1>4, <2>1 DEF ListPolicies
  <2>4. QED BY <1>c, <2>1, <2>2, <2>3 DEF ScriptSteps
<1>5. CASE PutPolicy
  <2>1. /\ script.step = "putPolicy" /\ script \in Work /\ script.allow /= {}
        /\ Len(accessApps) = 1 /\ script.app = 1 /\ accessApps[1].paths = script.paths
        /\ (script.found <=> Len(accessApps[1].policies) > 0)
        /\ accessApps \in Seq(NamedApp) /\ accessApps[1] \in NamedApp /\ Len(accessApps[1].policies) <= 1
        /\ providers' = providers
    <3>1. /\ script.step = "putPolicy" /\ script \in Work /\ script.allow /= {}
          /\ Len(accessApps) = 1 /\ script.app = 1 /\ accessApps[1].paths = script.paths
          /\ (script.found <=> Len(accessApps[1].policies) > 0)
          /\ accessApps \in Seq(NamedApp) /\ providers' = providers
      BY <1>5, <1>a DEF PutPolicy, WorkKnows, OneNamed, Applying
    <3>2. accessApps[1] \in NamedApp /\ 1 \in DOMAIN accessApps
      BY <3>1, Single
    <3>3. Len(accessApps[1].policies) <= 1
      BY <1>a, <3>2 DEF OneNamed
    <3>4. QED BY <3>1, <3>2, <3>3
  <2>2. CASE UNCHANGED accessApps /\ Ends("failed")
    <3>1. OneNamed'
      BY <1>a, <2>1, <2>2, OneKept
    <3>2. QED BY <2>1, <2>2, <3>1, EndKeeps
  <2>3. CASE ~(UNCHANGED accessApps /\ Ends("failed"))
    <3> DEFINE old == accessApps[1].policies
               new == IF script.found THEN [old EXCEPT ![1] = script.allow]
                      ELSE Append(old, script.allow)
    <3>1. /\ accessApps' = [accessApps EXCEPT ![1].policies = new]
          /\ Ends("applied") \/ Ends("failed")
      BY <1>5, <2>1, <2>3 DEF PutPolicy, PoliciesPut, PolicyBody
    <3>2. old \in Seq(Allowlists \ {{}}) /\ Len(old) \in Nat /\ script.allow \in Allowlists \ {{}}
      BY <2>1 DEF NamedApp, Work
    <3>3. new = <<script.allow>> /\ <<script.allow>> \in Seq(Allowlists \ {{}})
      <4>1. CASE script.found
        <5>1. Len(old) = 1
          BY <2>1, <3>2, <4>1
        <5>2. QED BY <3>2, <4>1, <5>1, SetFirst
      <4>2. CASE ~script.found
        <5>1. Len(old) = 0
          BY <2>1, <3>2, <4>2
        <5>2. new = Append(old, script.allow)
          BY <4>2
        <5>3. Append(old, script.allow) = <<script.allow>> /\ <<script.allow>> \in Seq(Allowlists \ {{}})
          <6> DEFINE T == Allowlists \ {{}}
          <6>1. old \in Seq(T) /\ script.allow \in T /\ Len(old) = 0
            BY <3>2, <5>1
          <6> HIDE DEF T
          <6> DEFINE allow == script.allow
          <6>2. allow \in T
            BY <6>1
          <6> HIDE DEF allow
          <6>3. Append(old, allow) = <<allow>>
            BY <6>1, <6>2, FirstAdded
          <6>4. <<allow>> \in Seq(T)
            BY <6>1, <6>2, SetFirst
          <6>5. QED BY <6>3, <6>4 DEF T, allow
        <5>4. QED BY <5>2, <5>3
      <4>3. QED BY <4>1, <4>2
    <3> HIDE DEF new, old
    <3>4. accessApps' = [accessApps EXCEPT ![1] = [accessApps[1] EXCEPT !.policies = <<script.allow>>]]
      BY <3>1, <3>3
    <3>5. /\ [accessApps[1] EXCEPT !.policies = <<script.allow>>] = App(script.paths, <<script.allow>>)
          /\ App(script.paths, <<script.allow>>) \in NamedApp
          /\ Len(App(script.paths, <<script.allow>>).policies) = 1
      BY <2>1, <3>3 DEF NamedApp, App, Work
    <3> DEFINE app == App(script.paths, <<script.allow>>)
    <3>e. app \in NamedApp /\ accessApps' = [accessApps EXCEPT ![1] = app]
      BY <3>4, <3>5
    <3> HIDE DEF app
    <3>f. accessApps' = <<app>> /\ <<app>> \in Seq(NamedApp) /\ Len(<<app>>) = 1 /\ <<app>>[1] = app
      BY <2>1, <3>e, SetFirst
    <3>7. accessApps' = <<App(script.paths, <<script.allow>>)>>
      BY <3>f DEF app
    <3>h. Len(app.policies) <= 1
      <4>1. Len(app.policies) = 1
        BY <3>5, Zenon DEF app
      <4>2. QED BY <4>1
    <3>g. DOMAIN accessApps' = 1..1 /\ Len(app.policies) <= 1
      BY <3>f, <3>h
    <3>8. OneNamed'
      BY <1>a, <2>1, <3>f, <3>g DEF OneNamed
    <3>9. CASE Ends("failed")
      BY <2>1, <3>8, <3>9, EndKeeps
    <3>10. CASE Ends("applied")
      <4>1. /\ script' = Idle /\ script'.step = "idle"
            /\ outcomeOf' = [mode |-> "applied", paths |-> script.paths, allow |-> script.allow]
        BY <1>a, <2>1, <3>10, RunEnds
      <4>2. LastRunHolds'
        BY <3>7, <4>1 DEF LastRunHolds
      <4>3. QED BY <3>8, <4>1, <4>2 DEF AccessInv, WorkKnows
    <3>11. QED BY <3>1, <3>9, <3>10
  <2>4. QED BY <2>2, <2>3
<1>6. CASE ListForDelete
  <2>1. script.step = "listForDelete" /\ UNCHANGED <<accessApps, providers>>
    BY <1>6 DEF ListForDelete
  <2>2. OneNamed'
    BY <1>a, <2>1, OneKept
  <2>3. CASE Ends("failed")
    BY <2>1, <2>2, <2>3, EndKeeps
  <2>4. CASE Ends("disabled") /\ accessApps = <<>>
    <3>1. script' = Idle /\ script'.step = "idle" /\ outcomeOf'.mode = "disabled"
      BY <1>a, <2>1, <2>4, RunEnds
    <3>2. LastRunHolds'
      BY <2>1, <2>4, <3>1 DEF LastRunHolds
    <3>3. QED BY <2>2, <3>1, <3>2 DEF AccessInv, WorkKnows
  <2>5. CASE accessApps /= <<>> /\ Replies("deleteApp", TRUE)
    <3>0. accessApps \in Seq(NamedApp) /\ Len(accessApps) <= 1 /\ accessApps /= <<>>
      BY <1>a, <2>5 DEF OneNamed
    <3>b. Len(accessApps) \in Nat /\ (Len(accessApps) = 0 => accessApps = <<>>)
      BY <3>0
    <3>d. Len(accessApps) \in Nat /\ Len(accessApps) <= 1 /\ Len(accessApps) /= 0
      <4>1. Len(accessApps) /= 0
        BY <3>0, <3>b, Zenon
      <4>2. QED BY <3>0, <3>b, <4>1, Zenon
    <3>1. Len(accessApps) = 1
      BY <3>d
    <3>a. FindNamed(1) = TRUE
      BY DEF FindNamed
    <3>2. Replies("deleteApp", FindNamed(1))
      BY <2>5, <3>a
    <3>3. QED BY <1>c, <2>1, <3>1, <3>2 DEF ScriptSteps, Applying
  <2>6. QED BY <1>6, <2>3, <2>4, <2>5 DEF ListForDelete
<1>7. CASE DeleteApp
  <2>1. script.step = "deleteApp" /\ Len(accessApps) = 1 /\ providers' = providers
    BY <1>7, <1>a DEF DeleteApp, WorkKnows
  <2>2. CASE UNCHANGED accessApps /\ Ends("failed")
    <3>1. OneNamed'
      BY <1>a, <2>1, <2>2, OneKept
    <3>2. QED BY <2>1, <2>2, <3>1, EndKeeps
  <2>3. CASE accessApps' = Tail(accessApps) /\ (Ends("disabled") \/ Ends("failed"))
    <3>1. accessApps' = <<>>
      <4>1. accessApps \in Seq(NamedApp)
        BY <1>a DEF OneNamed
      <4>2. QED BY <2>1, <2>3, <4>1
    <3>2. OneNamed'
      BY <1>a, <2>1, <3>1 DEF OneNamed
    <3>3. CASE Ends("failed")
      BY <2>1, <3>2, <3>3, EndKeeps
    <3>4. CASE Ends("disabled")
      <4>1. script' = Idle /\ script'.step = "idle" /\ outcomeOf'.mode = "disabled"
        BY <1>a, <2>1, <3>4, RunEnds
      <4>2. LastRunHolds'
        BY <3>1, <4>1 DEF LastRunHolds
      <4>3. QED BY <3>2, <4>1, <4>2 DEF AccessInv, WorkKnows
    <3>5. QED BY <2>3, <3>3, <3>4
  <2>4. QED BY <1>7, <2>2, <2>3 DEF DeleteApp
<1>8. CASE ListProviders
  <2>1. providers \in Nat
    BY <1>a DEF OneNamed
  <2>2. QED BY <1>8, <1>c, <2>1 DEF ListProviders, Applying, ScriptSteps
<1>9. CASE PutProvider
  <2>1. /\ script.step = "putProvider" /\ providers \in 0..1
        /\ (script.found <=> providers > 0) /\ accessApps' = accessApps
        /\ providers' \in {providers, IF script.found THEN providers ELSE providers + 1}
    BY <1>9, <1>a DEF PutProvider, WorkKnows, OneNamed
  <2>2. providers' \in 0..1
    BY <2>1
  <2>3. OneNamed'
    BY <1>a, <2>1, <2>2 DEF OneNamed
  <2>4. Ends("failed") \/ Ends("provided")
    BY <1>9 DEF PutProvider
  <2>5. QED BY <2>1, <2>3, <2>4, EndKeeps
<1>10. CASE UNCHANGED accessVars
  <2>1. OneNamed'
    BY <1>10, <1>a DEF accessVars, OneNamed
  <2>2. QED BY <1>10, <1>a, <2>1 DEF accessVars, AccessInv, WorkKnows, LastRunHolds
<1>11. QED BY <1>1, <1>2, <1>3, <1>4, <1>5, <1>6, <1>7, <1>8, <1>9, <1>10 DEF AccessNext

\* The script can be repeated until it reports ok, for any allowlists and paths and
\* wherever its runs died: there is one object of each name, and the rules of the last
\* run that reported ok hold.
THEOREM AccessComesToRest == AccessSpec => []AccessSettles
<1>1. AccessSpec => []AccessInv
  BY AccessInitInv, AccessNextInv, PTL DEF AccessSpec
<1>2. AccessInv => AccessSettles
  BY DEF AccessInv, OneNamed, AccessSettles, OneOfEachName
<1>3. QED BY <1>1, <1>2, PTL

\* The types of the account and of the script.
LEMMA AccessTyped == AccessInv => AccessTypeOK
<1> SUFFICES ASSUME AccessInv PROVE AccessTypeOK
  OBVIOUS
<1>1. Len(accessApps) <= MaxObjects /\ providers \in 0..MaxObjects
  <2>1. Len(accessApps) <= 1 /\ Len(accessApps) \in Nat /\ providers \in 0..1
    BY DEF AccessInv, OneNamed
  <2>2. QED BY <2>1, AccessConstants
<1>2. ASSUME NEW i \in DOMAIN accessApps
      PROVE  /\ accessApps[i].paths \in PathSets
             /\ \A j \in DOMAIN accessApps[i].policies: accessApps[i].policies[j] \in Allowlists \ {{}}
  <2>1. accessApps[i] \in NamedApp
    BY ElementOfSeq DEF AccessInv, OneNamed
  <2>2. accessApps[i].policies \in Seq(Allowlists \ {{}})
    BY <2>1 DEF NamedApp
  <2>3. QED BY <2>1, <2>2, ElementOfSeq DEF NamedApp
<1>3. script.step \in ScriptSteps
  BY DEF AccessInv, WorkKnows, Work, Idle, ScriptSteps
<1>4. QED BY <1>1, <1>2, <1>3 DEF AccessTypeOK, AccessInv
=============================================================================
