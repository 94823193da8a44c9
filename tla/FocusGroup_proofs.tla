-------------------------- MODULE FocusGroup_proofs --------------------------
(***************************************************************************)
(* Proofs about FocusGroup for any number of sessions, any length of the   *)
(* protocol and any two durations with JobTimeout <= StaleAfter.           *)
(***************************************************************************)
EXTENDS FocusGroup, TLAPS

\* Every variable keeps its type; the two clocks stay within their bounds, so
\* no RQ job outlives its timeout.
THEOREM TypeCorrect == Spec => []TypeOK
<1> USE FocusGroupConstants DEF TypeOK, Executors, Kinds, CreatorPc, ExecutorPc
<1>1. Init => TypeOK
  BY DEF Init
<1>2. TypeOK /\ [Next]_vars => TypeOK'
  <2> SUFFICES ASSUME TypeOK, [Next]_vars PROVE TypeOK'
    OBVIOUS
  <2> USE DEF Write, Touch, Creator, Step, Failed
  <2>1. ASSUME NEW s \in Sessions, Create(s) PROVE TypeOK'
    <3>1. /\ status' \in [Sessions -> {"none", "queued", "running", "completed", "failed"}]
          /\ age' \in [Sessions -> 0..(StaleAfter + 1)]
      BY <2>1 DEF Create
    <3>2. QED BY <2>1, <3>1 DEF Create
  <2>2. ASSUME NEW s \in Sessions, Request(s) PROVE TypeOK'
    <3>1. CASE Charge(s) \/ Refuse(s) \/ Schedule(s)
      BY <3>1 DEF Charge, Refuse, Schedule
    <3>2. CASE Enqueue(s)
      BY <3>2 DEF Enqueue
    <3>3. CASE NoteJob(s)
      BY <3>3 DEF NoteJob
    <3>4. CASE StartThread(s)
      <4>1. pc' \in [Executors -> ExecutorPc]
        <5>1. CASE pc' = pc
          BY <5>1
        <5>2. CASE pc' = [pc EXCEPT ![<<s, "thread">>] = "read"]
          BY <5>2
        <5>3. QED BY <3>4, <5>1, <5>2 DEF StartThread
      <4>2. status' \in [Sessions -> {"none", "queued", "running", "completed", "failed"}]
        BY <3>4 DEF StartThread
      <4>3. age' \in [Sessions -> 0..(StaleAfter + 1)]
        BY <3>4 DEF StartThread
      <4>4. QED BY <3>4, <4>1, <4>2, <4>3 DEF StartThread
    <3>5. QED BY <2>2, <3>1, <3>2, <3>3, <3>4 DEF Request
  <2>3. ASSUME NEW s \in Sessions, Job(s) \/ WorkerCrash(s) PROVE TypeOK'
    BY <2>3 DEF Job, Take, Timeout, Abandoned, WorkerCrash
  <2>4. ASSUME NEW e \in Executors, Execute(e) PROVE TypeOK'
    <3>0. e[1] \in Sessions
      OBVIOUS
    <3>1. CASE Read(e) \/ Return(e) \/ Close(e) \/ Abort(e) \/ Hook(e)
      <4>1. pc' \in [Executors -> ExecutorPc]
        BY <3>1 DEF Read, Return, Close, Abort, Hook
      <4>2. QED BY <3>1, <4>1 DEF Read, Return, Close, Abort, Hook
    <3>2. CASE Progress(e)
      <4>1. turn' \in [Executors -> 0..Turns]
        BY <3>2 DEF Progress
      <4>2. /\ status' \in [Sessions -> {"none", "queued", "running", "completed", "failed"}]
            /\ age' \in [Sessions -> 0..(StaleAfter + 1)]
        BY <3>0, <3>2 DEF Progress
      <4>3. QED BY <3>2, <4>1, <4>2 DEF Progress
    <3>3. CASE Conclude(e)
      <4>1. pc' \in [Executors -> ExecutorPc]
        BY <3>3 DEF Conclude
      <4>2. status' \in [Sessions -> {"none", "queued", "running", "completed", "failed"}]
        BY <3>3 DEF Conclude
      <4>3. age' \in [Sessions -> 0..(StaleAfter + 1)]
        BY <3>3 DEF Conclude
      <4>4. QED BY <3>3, <4>1, <4>2, <4>3 DEF Conclude
    <3>4. CASE Claim(e) \/ HookMark(e)
      <4>1. pc' \in [Executors -> ExecutorPc]
        BY <3>4 DEF Claim, HookMark
      <4>2. /\ status' \in [Sessions -> {"none", "queued", "running", "completed", "failed"}]
            /\ age' \in [Sessions -> 0..(StaleAfter + 1)]
        BY <3>0, <3>4 DEF Claim, HookMark
      <4>3. QED BY <3>4, <4>1, <4>2 DEF Claim, HookMark
    <3>5. CASE Fail(e)
      <4>1. /\ status' \in [Sessions -> {"none", "queued", "running", "completed", "failed"}]
            /\ age' \in [Sessions -> 0..(StaleAfter + 1)]
        BY <3>0, <3>5 DEF Fail
      <4>2. QED BY <3>5, <4>1 DEF Fail
    <3>6. QED BY <2>4, <3>1, <3>2, <3>3, <3>4, <3>5 DEF Execute
  <2>5. CASE Reclaim
    <3>1. /\ status' \in [Sessions -> {"none", "queued", "running", "completed", "failed"}]
          /\ age' \in [Sessions -> 0..(StaleAfter + 1)]
      BY <2>5 DEF Reclaim
    <3>2. QED BY <2>5, <3>1 DEF Reclaim
  <2>6. CASE Tick
    BY <2>6 DEF Tick, Timed
  <2>7. CASE ApiCrash
    BY <2>7 DEF ApiCrash
  <2>8. CASE UNCHANGED vars
    BY <2>8 DEF vars
  <2>9. QED BY <2>1, <2>2, <2>3, <2>4, <2>5, <2>6, <2>7, <2>8 DEF Next
<1>3. QED BY <1>1, <1>2, PTL DEF Spec

---------------------------------------------------------------------------
(* A live RQ session is never stale.                                       *)

\* While a job talks, its row was written after the job was taken.
TouchedInLife ==
  \A s \in Sessions : pc[<<s, "rq">>] = "talk" => age[s] <= life[s]

\* One step preserves TouchedInLife: the claim and each report reset the age,
\* and every tick that ages the row also ages the job.
LEMMA TouchedInLifeStep ==
  TypeOK /\ TouchedInLife /\ [Next]_vars => TouchedInLife'
<1> SUFFICES ASSUME TypeOK, TouchedInLife, [Next]_vars,
                    NEW s \in Sessions, pc'[<<s, "rq">>] = "talk"
             PROVE  age'[s] <= life'[s]
  BY DEF TouchedInLife
<1> DEFINE e == <<s, "rq">>
<1> USE FocusGroupConstants DEF TypeOK, Executors, Kinds, Write, Touch, Creator, Step
<1>0. e \in Executors /\ age[s] \in Nat /\ life[s] \in Nat
  OBVIOUS
<1>1. ASSUME NEW t \in Sessions, Create(t) \/ Request(t) PROVE age'[s] <= life'[s]
  <2>1. pc[e] = "talk" /\ life' = life
    BY <1>1 DEF Create, Request, Charge, Refuse, Schedule, Enqueue, NoteJob, StartThread
  <2>2. age'[s] = age[s] \/ age'[s] = 0
    BY <1>1 DEF Create, Request, Charge, Refuse, Schedule, Enqueue, NoteJob, StartThread
  <2>3. QED BY <1>0, <2>1, <2>2 DEF TouchedInLife
<1>2. ASSUME NEW t \in Sessions, Job(t) \/ WorkerCrash(t) PROVE age'[s] <= life'[s]
  BY <1>2 DEF Job, Take, Timeout, Abandoned, WorkerCrash, TouchedInLife
<1>3. ASSUME NEW f \in Executors, Execute(f) PROVE age'[s] <= life'[s]
  <2>1. CASE f = e
    <3>1. age'[s] = 0 /\ life' = life
      BY <1>3, <2>1 DEF Execute, Read, Claim, Progress, Conclude, Return, Close, Abort, Fail, Hook, HookMark, Failed
    <3>2. QED BY <1>0, <3>1
  <2>2. CASE f # e
    <3>1. pc[e] = "talk" /\ life' = life
      BY <1>3, <2>2 DEF Execute, Read, Claim, Progress, Conclude, Return, Close, Abort, Fail, Hook, HookMark
    <3>2. f[1] \in Sessions
      OBVIOUS
    <3>3. age'[s] = age[s] \/ age'[s] = 0
      BY <1>3, <3>2 DEF Execute, Read, Claim, Progress, Conclude, Return, Close, Abort, Fail, Hook, HookMark
    <3>4. QED BY <1>0, <3>1, <3>3 DEF TouchedInLife
  <2>3. QED BY <2>1, <2>2
<1>4. CASE Reclaim
  BY <1>0, <1>4 DEF Reclaim, TouchedInLife
<1>5. CASE Tick
  <2>1. pc[e] = "talk" /\ life'[s] = life[s] + 1
    BY <1>5 DEF Tick, Timed
  <2>2. age'[s] = age[s] \/ age'[s] = age[s] + 1
    BY <1>5 DEF Tick
  <2>3. QED BY <1>0, <2>1, <2>2 DEF TouchedInLife
<1>6. CASE ApiCrash
  BY <1>6 DEF ApiCrash, TouchedInLife
<1>7. CASE UNCHANGED vars
  BY <1>7 DEF vars, TouchedInLife
<1>8. QED BY <1>1, <1>2, <1>3, <1>4, <1>5, <1>6, <1>7 DEF Next

\* No list, get or create request reclaims a session that an RQ worker has
\* claimed and is still talking in: the stale limit is not below the job
\* timeout, and nothing else about either duration matters.
THEOREM LiveSessionNotStale == Spec => []TalkingNotStale
<1>1. Init => TouchedInLife
  BY DEF Init, TouchedInLife, Executors, Kinds
<1>2. TypeOK /\ TouchedInLife => TalkingNotStale
  <2> SUFFICES ASSUME TypeOK, TouchedInLife, NEW s \in Sessions, pc[<<s, "rq">>] = "talk"
               PROVE  age[s] <= StaleAfter
    BY FocusGroupConstants DEF TalkingNotStale, Stale, TypeOK
  <2>1. age[s] <= life[s]
    BY DEF TouchedInLife
  <2>2. age[s] \in Nat /\ life[s] \in Nat /\ life[s] <= JobTimeout
    BY FocusGroupConstants DEF TypeOK
  <2>3. QED BY <2>1, <2>2, FocusGroupConstants, StaleAboveTimeout
<1>3. QED BY <1>1, <1>2, TypeCorrect, TouchedInLifeStep, PTL DEF Spec

---------------------------------------------------------------------------
(* A completed session keeps its result.                                   *)

\* Points from which an executor writes no status, as long as it is completed.
Ended == {"close", "lost", "hook", "done"}

\* Points of an executor that has completed its session: it may still fail it
\* from the try block and its handler.
Concluded == Ended \cup {"saved", "fail"}

\* The executor that completed a session has concluded, and none exists before
\* the session was charged and scheduled.
SettledBy ==
  \A s \in Sessions :
    /\ status[s] = "completed" => \E k \in Kinds : pc[<<s, k>>] \in Concluded
    /\ cpc[s] \in {"none", "charge", "refuse", "schedule"}
         => \A k \in Kinds : pc[<<s, k>>] = "none"

\* One step preserves SettledBy: the hook of a completed session ends it, only a
\* concluding executor completes one, and executors appear after scheduling.
LEMMA SettledByStep == TypeOK /\ SettledBy /\ [Next]_vars => SettledBy'
<1> DEFINE Early == {"none", "charge", "refuse", "schedule"}
<1> SUFFICES ASSUME TypeOK, SettledBy, [Next]_vars, NEW s \in Sessions
             PROVE  /\ status'[s] = "completed" => \E k \in Kinds : pc'[<<s, k>>] \in Concluded
                    /\ cpc'[s] \in Early => \A k \in Kinds : pc'[<<s, k>>] = "none"
  BY DEF SettledBy
<1> USE DEF TypeOK, Executors, Kinds, Write, Touch, Creator, Step
<1>1. ASSUME status[s] = "completed", NEW k \in Kinds, pc[<<s, k>>] \in Concluded
      PROVE  pc'[<<s, k>>] \in Concluded
  <2> USE DEF Ended, Concluded
  <2>1. ASSUME NEW t \in Sessions, Create(t) \/ Request(t) PROVE pc'[<<s, k>>] \in Concluded
    BY <1>1, <2>1 DEF Create, Request, Charge, Refuse, Schedule, Enqueue, NoteJob, StartThread
  <2>2. ASSUME NEW t \in Sessions, Job(t) \/ WorkerCrash(t) PROVE pc'[<<s, k>>] \in Concluded
    BY <1>1, <2>2 DEF Job, Take, Timeout, Abandoned, WorkerCrash, Timed
  <2>3. ASSUME NEW f \in Executors, Execute(f) PROVE pc'[<<s, k>>] \in Concluded
    <3>1. CASE f = <<s, k>>
      <4>1. \/ Return(f) \/ Abort(f) \/ Close(f)
            \/ Fail(f) \/ Hook(f)
        BY <1>1, <2>3, <3>1 DEF Execute, Read, Claim, Progress, Conclude, HookMark
      <4>2. CASE Fail(f)
        BY <4>2, <3>1 DEF Fail, Failed
      <4>3. CASE Hook(f)
        BY <1>1, <4>3, <3>1 DEF Hook, Settled
      <4>4. CASE Return(f) \/ Abort(f) \/ Close(f)
        BY <4>4, <3>1 DEF Return, Abort, Close
      <4>5. QED BY <4>1, <4>2, <4>3, <4>4
    <3>2. CASE f # <<s, k>>
      BY <1>1, <2>3, <3>2 DEF Execute, Read, Claim, Progress, Conclude, Return, Close, Abort, Fail, Hook, HookMark
    <3>3. QED BY <3>1, <3>2
  <2>4. CASE Reclaim \/ Tick \/ ApiCrash
    BY <1>1, <2>4 DEF Reclaim, Tick, ApiCrash
  <2>5. CASE UNCHANGED vars
    BY <1>1, <2>5 DEF vars
  <2>6. QED BY <2>1, <2>2, <2>3, <2>4, <2>5 DEF Next
<1>2. CASE status'[s] = "completed" /\ status[s] # "completed"
  <2>1. PICK f \in Executors : Conclude(f)
    <3>1. ASSUME NEW t \in Sessions, Create(t) \/ Request(t) PROVE FALSE
      BY <1>2, <3>1 DEF Create, Request, Charge, Refuse, Schedule, Enqueue, NoteJob, StartThread
    <3>2. ASSUME NEW t \in Sessions, Job(t) \/ WorkerCrash(t) PROVE FALSE
      BY <1>2, <3>2 DEF Job, Take, Timeout, Abandoned, WorkerCrash
    <3>3. ASSUME NEW f \in Executors, Execute(f), ~Conclude(f) PROVE FALSE
      BY <1>2, <3>3 DEF Execute, Read, Claim, Progress, Return, Close, Abort, Fail, Hook, HookMark
    <3>4. CASE Reclaim \/ Tick \/ ApiCrash
      BY <1>2, <3>4 DEF Reclaim, Tick, ApiCrash
    <3>5. QED BY <1>2, <3>1, <3>2, <3>3, <3>4 DEF Next, vars
  <2>2. f[1] = s /\ pc' = [pc EXCEPT ![f] = "saved"] /\ cpc' = cpc
    BY <1>2, <2>1 DEF Conclude
  <2>3. PICK k \in Kinds : f = <<s, k>>
    BY <2>2
  <2>4. pc'[<<s, k>>] \in Concluded /\ pc[<<s, k>>] = "talk"
    BY <2>1, <2>2, <2>3 DEF Conclude, Concluded
  <2>5. QED BY <2>2, <2>4 DEF SettledBy
<1>3. cpc'[s] \in Early => \A k \in Kinds : pc'[<<s, k>>] = "none"
  <2> SUFFICES ASSUME cpc'[s] \in Early, NEW k \in Kinds PROVE pc'[<<s, k>>] = "none"
    OBVIOUS
  <2>1. ASSUME NEW t \in Sessions, Create(t) \/ Request(t) PROVE pc'[<<s, k>>] = "none"
    <3>1. cpc[s] \in Early
      BY <2>1 DEF Create, Request, Charge, Refuse, Schedule, Enqueue, NoteJob, StartThread
    <3>2. pc[<<s, k>>] = "none"
      BY <3>1 DEF SettledBy
    <3>3. CASE t = s
      BY <2>1, <3>2, <3>3 DEF Create, Request, Charge, Refuse, Schedule, Enqueue, NoteJob, StartThread
    <3>4. CASE t # s
      BY <2>1, <3>2, <3>4 DEF Create, Request, Charge, Refuse, Schedule, Enqueue, NoteJob, StartThread
    <3>5. QED BY <3>3, <3>4
  <2>2. ASSUME NEW t \in Sessions, Job(t) \/ WorkerCrash(t) PROVE pc'[<<s, k>>] = "none"
    <3>1. pc[<<s, k>>] = "none" /\ pc[<<t, "rq">>] # "none"
      BY <2>2 DEF Job, Take, Timeout, Abandoned, WorkerCrash, Timed, SettledBy
    <3>2. QED BY <2>2, <3>1 DEF Job, Take, Timeout, Abandoned, WorkerCrash
  <2>3. ASSUME NEW f \in Executors, Execute(f) PROVE pc'[<<s, k>>] = "none"
    <3>1. cpc' = cpc /\ pc[f] # "none"
      BY <2>3 DEF Execute, Read, Claim, Progress, Conclude, Return, Close, Abort, Fail, Hook, HookMark
    <3>2. pc[<<s, k>>] = "none"
      BY <3>1 DEF SettledBy
    <3>3. pc'[<<s, k>>] = pc[<<s, k>>]
      BY <2>3, <3>1, <3>2 DEF Execute, Read, Claim, Progress, Conclude, Return, Close, Abort, Fail, Hook, HookMark
    <3>4. QED BY <3>2, <3>3
  <2>4. CASE Reclaim \/ Tick \/ UNCHANGED vars
    BY <2>4 DEF Reclaim, Tick, vars, SettledBy
  <2>5. CASE ApiCrash
    BY <2>5 DEF ApiCrash, SettledBy
  <2>6. QED BY <2>1, <2>2, <2>3, <2>4, <2>5 DEF Next
<1>4. QED BY <1>1, <1>2, <1>3 DEF SettledBy

\* Once the executor of a completed session has left the try block, and unless
\* the session was given to RQ and to a thread at once, no late hook, reclaim,
\* refusal or abandoned job takes the completed status away.
THEOREM CompletedStays == Spec => CompletedSticks
<1> DEFINE Sticks == \A s \in Sessions :
                       /\ status[s] = "completed"
                       /\ \A k \in Kinds : pc[<<s, k>>] \notin {"saved", "fail"}
                       /\ \E k \in Kinds : pc[<<s, k>>] = "none"
                       => status'[s] = "completed"
<1>1. Init => SettledBy
  BY DEF Init, SettledBy, Executors
<1>2. TypeOK /\ SettledBy /\ [Next]_vars => [Sticks]_vars
  <2> SUFFICES ASSUME TypeOK, SettledBy, Next, NEW s \in Sessions, status[s] = "completed",
                      \A j \in Kinds : pc[<<s, j>>] \notin {"saved", "fail"},
                      NEW k \in Kinds, pc[<<s, k>>] = "none"
               PROVE  status'[s] = "completed"
    OBVIOUS
  <2> USE DEF TypeOK, Executors, Kinds, Write, Touch, Creator, Step
  <2>0. PICK other \in Kinds : pc[<<s, other>>] \in Ended
    BY DEF SettledBy, Concluded
  <2>1. \A e \in Executors : e[1] = s => pc[e] \in Ended \cup {"none"}
    <3>1. other # k
      BY <2>0 DEF Ended
    <3>2. \A j \in Kinds : pc[<<s, j>>] \in Ended \cup {"none"}
      BY <2>0, <3>1
    <3>3. QED BY <3>2
  <2>2. cpc[s] \notin {"none", "charge", "refuse", "schedule"} /\ ~Active(s)
    BY <2>0 DEF SettledBy, Active, Ended
  <2>3. ASSUME NEW t \in Sessions, Create(t) \/ Request(t) PROVE status'[s] = "completed"
    BY <2>2, <2>3 DEF Create, Request, Charge, Refuse, Schedule, Enqueue, NoteJob, StartThread, Stale
  <2>4. ASSUME NEW t \in Sessions, Job(t) \/ WorkerCrash(t) PROVE status'[s] = "completed"
    BY <2>4 DEF Job, Take, Timeout, Abandoned, WorkerCrash
  <2>5. ASSUME NEW e \in Executors, Execute(e) PROVE status'[s] = "completed"
    BY <2>1, <2>5 DEF Ended, Execute, Read, Claim, Progress, Conclude, Return, Close, Abort, Fail, Hook, HookMark
  <2>6. CASE Reclaim \/ Tick \/ ApiCrash
    BY <2>2, <2>6 DEF Reclaim, Tick, ApiCrash, Stale
  <2>7. QED BY <2>3, <2>4, <2>5, <2>6 DEF Next
<1>3. QED BY <1>1, <1>2, TypeCorrect, SettledByStep, PTL DEF Spec, CompletedSticks
=============================================================================
