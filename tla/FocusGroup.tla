----------------------------- MODULE FocusGroup -----------------------------
(***************************************************************************)
(* The focus-group sessions of one completed run: the API's threadpool     *)
(* inserts a session, charges it and schedules it on RQ or, when the queue *)
(* is unhealthy or the enqueue raises, on a daemon thread of the API; the  *)
(* executor writes its progress; every list or get reclaims sessions whose *)
(* row nobody touched for 35 minutes.                                      *)
(*                                                                         *)
(* Time is counted in ticks.  updated_at is modelled by the session's age, *)
(* the ticks since the row was last written.                               *)
(***************************************************************************)
EXTENDS Naturals, FiniteSets

CONSTANTS
  Sessions,    \* session identifiers (uuid4: never used twice)
  Turns,       \* progress reports of the protocol
  JobTimeout,  \* RQ job_timeout, 30 minutes
  StaleAfter,  \* FOCUS_GROUP_STALE_AFTER_SECONDS, 35 minutes
  Env          \* environment events of this instance, see EnvEvents

\* "redis"  the queue is unhealthy, or the enqueue raises before or after the push
\* "raise"  an LLM, client or store call raises
\* "crash"  the API or an RQ worker dies
EnvEvents == {"redis", "raise", "crash"}

ASSUME FocusGroupConstants ==
  /\ Turns \in Nat /\ JobTimeout \in Nat /\ StaleAfter \in Nat
  /\ Env \subseteq EnvEvents

\* Slightly above the RQ job_timeout, so that a killed job is reclaimable.
ASSUME StaleAboveTimeout == JobTimeout <= StaleAfter

VARIABLES
  status,  \* focus_groups.status, "none" before the row exists
  age,     \* ticks since updated_at, counted while the session is active
  cpc,     \* where the request that created the session stands
  pc,      \* where each executor of the session stands
  turn,    \* progress reports each executor has written
  life     \* ticks since the RQ job of the session was taken

vars == <<status, age, cpc, pc, turn, life>>

Kinds     == {"rq", "thread"}
Executors == Sessions \X Kinds

Active(s)  == status[s] \in {"queued", "running"}
Settled(s) == status[s] \in {"completed", "failed"}
Stale(s)   == Active(s) /\ age[s] > StaleAfter

CreatorPc  == {"none", "charge", "refuse", "schedule", "enqueue", "jobId", "thread", "done"}
ExecutorPc == {"none", "queued", "read", "claim", "talk", "saved", "close", "fail",
               "hook", "hookMark", "lost", "done"}

\* Points at which RQ's job timeout strikes.
Timed == {"read", "claim", "talk", "saved"}

Init ==
  /\ status = [s \in Sessions |-> "none"]
  /\ age    = [s \in Sessions |-> 0]
  /\ cpc    = [s \in Sessions |-> "none"]
  /\ pc     = [e \in Executors |-> "none"]
  /\ turn   = [e \in Executors |-> 0]
  /\ life   = [s \in Sessions |-> 0]

---------------------------------------------------------------------------
(* update_focus_group: no condition on the status it overwrites.           *)

Write(s, new) == /\ status' = [status EXCEPT ![s] = new]
                 /\ age' = [age EXCEPT ![s] = 0]
Touch(s)      == age' = [age EXCEPT ![s] = 0] /\ UNCHANGED status

Creator(s, from, to) == cpc[s] = from /\ cpc' = [cpc EXCEPT ![s] = to]
Step(e, from, to)    == pc[e] = from /\ pc' = [pc EXCEPT ![e] = to]

---------------------------------------------------------------------------
(* The requests.                                                           *)

\* create_focus_group_if_idle, one BEGIN IMMEDIATE transaction: stale sessions
\* are failed, and the insert is refused (409, rolled back) if one is active.
Create(s) ==
  /\ Creator(s, "none", "charge")
  /\ \A t \in Sessions : Active(t) => Stale(t)
  /\ status' = [t \in Sessions |-> CASE t = s    -> "queued"
                                     [] Stale(t) -> "failed"
                                     [] OTHER    -> status[t]]
  /\ age' = [t \in Sessions |-> IF t = s \/ Stale(t) THEN 0 ELSE age[t]]
  /\ UNCHANGED <<pc, turn, life>>

\* Ten interactive units; an error other than the refusal leaves the row.
Charge(s) ==
  /\ \/ Creator(s, "charge", "schedule")
     \/ Creator(s, "charge", "refuse")
     \/ "raise" \in Env /\ Creator(s, "charge", "done")
  /\ UNCHANGED <<status, age, pc, turn, life>>

Refuse(s) ==
  /\ Creator(s, "refuse", "done")
  /\ Write(s, "failed")
  /\ UNCHANGED <<pc, turn, life>>

\* check_queue.
Schedule(s) ==
  /\ \/ Creator(s, "schedule", "enqueue")
     \/ "redis" \in Env /\ Creator(s, "schedule", "thread")
  /\ UNCHANGED <<status, age, pc, turn, life>>

Enqueue(s) ==
  /\ \/ Step(<<s, "rq">>, "none", "queued") /\ Creator(s, "enqueue", "jobId")
     \/ /\ "redis" \in Env /\ Creator(s, "enqueue", "thread")
        /\ UNCHANGED pc \/ Step(<<s, "rq">>, "none", "queued")
  /\ UNCHANGED <<status, age, turn, life>>

\* The job id is written inside the same try: if that fails the session runs on
\* a thread as well as on RQ.
NoteJob(s) ==
  /\ \/ Creator(s, "jobId", "done") /\ Touch(s)
     \/ "raise" \in Env /\ Creator(s, "jobId", "thread") /\ UNCHANGED <<status, age>>
  /\ UNCHANGED <<pc, turn, life>>

StartThread(s) ==
  /\ Creator(s, "thread", "done")
  /\ \/ Touch(s) /\ Step(<<s, "thread">>, "none", "read")
     \/ "raise" \in Env /\ UNCHANGED <<status, age, pc>>
  /\ UNCHANGED <<turn, life>>

\* Variant: only sessions that were started are reclaimed.
Reclaim_RunningOnly ==
  LET stale == {s \in Sessions : Stale(s) /\ status[s] = "running"}
  IN /\ stale # {}
     /\ status' = [s \in Sessions |-> IF s \in stale THEN "failed" ELSE status[s]]
     /\ age' = [s \in Sessions |-> IF s \in stale THEN 0 ELSE age[s]]
     /\ UNCHANGED <<cpc, pc, turn, life>>

\* reclaim_stale_focus_groups, on every list or get.
Reclaim ==
  LET stale == {s \in Sessions : Stale(s)}
  IN /\ stale # {}
     /\ status' = [s \in Sessions |-> IF s \in stale THEN "failed" ELSE status[s]]
     /\ age' = [s \in Sessions |-> IF s \in stale THEN 0 ELSE age[s]]
     /\ UNCHANGED <<cpc, pc, turn, life>>

---------------------------------------------------------------------------
(* execute_focus_group_job, on RQ or on a thread.                          *)

\* RQ files a job that raised and calls _focus_group_job_failure.
Failed(e) == IF e[2] = "rq" THEN "hook" ELSE "done"

Take(s) ==
  /\ Step(<<s, "rq">>, "queued", "read")
  /\ UNCHANGED <<status, age, cpc, turn, life>>

\* Settled sessions are skipped; one that failed is reported as a failed job.
Read(e) ==
  /\ \/ status[e[1]] = "completed" /\ Step(e, "read", "done")
     \/ status[e[1]] = "failed" /\ Step(e, "read", Failed(e))
     \/ Active(e[1]) /\ Step(e, "read", "claim")
     \/ "raise" \in Env /\ Step(e, "read", "fail")
  /\ UNCHANGED <<status, age, cpc, turn, life>>

\* Variant: the status is set without refreshing updated_at.
Claim_NoTouch(e) ==
  /\ \/ Step(e, "claim", "talk")
        /\ status' = [status EXCEPT ![e[1]] = "running"] /\ UNCHANGED age
     \/ "raise" \in Env /\ Step(e, "claim", "fail") /\ UNCHANGED <<status, age>>
  /\ UNCHANGED <<cpc, turn, life>>

\* After the LLM client was made: running, whatever the session is by now.
Claim(e) ==
  /\ \/ Step(e, "claim", "talk") /\ Write(e[1], "running")
     \/ "raise" \in Env /\ Step(e, "claim", "fail") /\ UNCHANGED <<status, age>>
  /\ UNCHANGED <<cpc, turn, life>>

\* on_progress.
Progress(e) ==
  /\ turn[e] < Turns
  /\ Step(e, "talk", "talk") /\ Write(e[1], "running")
  /\ turn' = [turn EXCEPT ![e] = @ + 1]
  /\ UNCHANGED <<cpc, life>>

\* The result, or the quality gate that no final stance was parsed (what is
\* raised after that write only marks the session failed again).
Conclude(e) ==
  /\ turn[e] = Turns
  /\ \/ Step(e, "talk", "saved") /\ Write(e[1], "completed")
     \/ Step(e, "talk", Failed(e)) /\ Write(e[1], "failed")
  /\ UNCHANGED <<cpc, turn, life>>

\* The return is still inside the try: until then an exception or the timeout
\* takes the executor to the handler, which fails the completed session.
Return(e) ==
  /\ Step(e, "saved", "close")
  /\ UNCHANGED <<status, age, cpc, turn, life>>

\* finally: the client is closed (whatever that raises is swallowed), and RQ
\* files the job as finished.
Close(e) ==
  /\ Step(e, "close", "done")
  /\ UNCHANGED <<status, age, cpc, turn, life>>

Abort(e) ==
  /\ "raise" \in Env
  /\ Step(e, "talk", "fail") \/ Step(e, "saved", "fail")
  /\ UNCHANGED <<status, age, cpc, turn, life>>

\* except: mark_focus_group_failed, whatever the session is by now; an error in that is swallowed.
Fail(e) ==
  /\ Step(e, "fail", Failed(e))
  /\ Write(e[1], "failed") \/ ("raise" \in Env /\ UNCHANGED <<status, age>>)
  /\ UNCHANGED <<cpc, turn, life>>

\* Variant: the hook does not look at the status.
Hook_Unchecked(e) ==
  /\ Step(e, "hook", "hookMark")
  /\ UNCHANGED <<status, age, cpc, turn, life>>

\* _focus_group_job_failure reads the status ...
Hook(e) ==
  /\ Step(e, "hook", IF Settled(e[1]) THEN "done" ELSE "hookMark")
  /\ UNCHANGED <<status, age, cpc, turn, life>>

\* ... and writes it in another transaction.
HookMark(e) ==
  /\ Step(e, "hookMark", "done")
  /\ Write(e[1], "failed") \/ ("raise" \in Env /\ UNCHANGED <<status, age>>)
  /\ UNCHANGED <<cpc, turn, life>>

---------------------------------------------------------------------------
(* Time and failures.                                                      *)

\* RQ's timeout raises in the job; a thread has none.
Timeout(s) ==
  /\ pc[<<s, "rq">>] \in Timed /\ life[s] = JobTimeout
  /\ pc' = [pc EXCEPT ![<<s, "rq">>] = "fail"]
  /\ UNCHANGED <<status, age, cpc, turn, life>>

\* Variant: the job is enqueued without a timeout.
Tick_NoTimeout ==
  /\ age'  = [s \in Sessions |-> IF Active(s) /\ age[s] <= StaleAfter THEN age[s] + 1 ELSE age[s]]
  /\ life' = [s \in Sessions |-> IF pc[<<s, "rq">>] \in Timed THEN life[s] + 1 ELSE life[s]]
  /\ UNCHANGED <<status, cpc, pc, turn>>

\* No job outlives its timeout.
Tick ==
  /\ \A s \in Sessions : pc[<<s, "rq">>] \in Timed => life[s] < JobTimeout
  /\ age'  = [s \in Sessions |-> IF Active(s) /\ age[s] <= StaleAfter THEN age[s] + 1 ELSE age[s]]
  /\ life' = [s \in Sessions |-> IF pc[<<s, "rq">>] \in Timed THEN life[s] + 1 ELSE life[s]]
  /\ UNCHANGED <<status, cpc, pc, turn>>

\* Requests in flight and daemon threads die with the API process.
ApiCrash ==
  /\ "crash" \in Env
  /\ cpc' = [s \in Sessions |-> IF cpc[s] = "none" THEN "none" ELSE "done"]
  /\ pc'  = [e \in Executors |-> IF e[2] = "thread" /\ pc[e] # "none" THEN "done" ELSE pc[e]]
  /\ UNCHANGED <<status, age, turn, life>>

WorkerCrash(s) ==
  /\ "crash" \in Env
  /\ pc[<<s, "rq">>] \in Timed \cup {"close", "fail", "hook", "hookMark"}
  /\ pc' = [pc EXCEPT ![<<s, "rq">>] = "lost"]
  /\ UNCHANGED <<status, age, cpc, turn, life>>

\* Another worker's maintenance finds the expired entry of a dead worker.
Abandoned(s) ==
  /\ Step(<<s, "rq">>, "lost", "hook")
  /\ UNCHANGED <<status, age, cpc, turn, life>>

Request(s) ==
  Charge(s) \/ Refuse(s) \/ Schedule(s) \/ Enqueue(s) \/ NoteJob(s) \/ StartThread(s)

Job(s) == Take(s) \/ Timeout(s) \/ Abandoned(s)

Execute(e) ==
  \/ Read(e) \/ Claim(e) \/ Progress(e) \/ Conclude(e) \/ Return(e)
  \/ Close(e) \/ Abort(e) \/ Fail(e) \/ Hook(e) \/ HookMark(e)

Next ==
  \/ \E s \in Sessions : Create(s) \/ Request(s) \/ Job(s) \/ WorkerCrash(s)
  \/ \E e \in Executors : Execute(e)
  \/ Reclaim \/ Tick \/ ApiCrash

Spec == Init /\ [][Next]_vars

\* Requests and executors run, time passes, and the page polls (every 2 s).
Fairness ==
  /\ \A s \in Sessions : WF_vars(Request(s)) /\ WF_vars(Job(s))
  /\ \A e \in Executors : WF_vars(Execute(e))
  /\ WF_vars(Reclaim) /\ WF_vars(Tick)

FairSpec == Spec /\ Fairness

---------------------------------------------------------------------------
TypeOK ==
  /\ status \in [Sessions -> {"none", "queued", "running", "completed", "failed"}]
  /\ age  \in [Sessions -> 0..(StaleAfter + 1)]
  /\ cpc  \in [Sessions -> CreatorPc]
  /\ pc   \in [Executors -> ExecutorPc]
  /\ turn \in [Executors -> 0..Turns]
  /\ life \in [Sessions -> 0..JobTimeout]

\* A session that an RQ worker has claimed and is still talking in is never
\* stale, so that no list, get or create request takes it away.
TalkingNotStale ==
  \A s \in Sessions : pc[<<s, "rq">>] = "talk" => ~Stale(s)

\* Once the executor of a completed session has left the try block, no late
\* hook, reclaim, refusal or abandoned job takes its result away, unless it was
\* given to RQ and to a thread at once.  Before that an exception still does.
CompletedSticks ==
  [][\A s \in Sessions :
       /\ status[s] = "completed"
       /\ \A k \in Kinds : pc[<<s, k>>] \notin {"saved", "fail"}
       /\ \E k \in Kinds : pc[<<s, k>>] = "none"
       => status'[s] = "completed"]_vars

\* docs/design/focus-group-open-survey.md:47, never a sticky queued or running
\* session: whoever crashed, each session settles for good.
EverySessionSettles ==
  \A s \in Sessions : Active(s) ~> []Settled(s)

\* docs/design/focus-group-open-survey.md:45, atomically at most one queued or
\* running session per run.
OneActive == Cardinality({s \in Sessions : Active(s)}) <= 1
=============================================================================
