------------------------- MODULE ProjectWorkspace -------------------------
(***************************************************************************)
(* Projects, the runs started in them, and the interviews held with the    *)
(* respondents of a finished run (src/services/project_service.py, the     *)
(* project and interview tables of src/jobs/store.py, the hourly allowance *)
(* of src/services/llm_usage_service.py).                                  *)
(*                                                                         *)
(* Project routes are coroutines that do not await between their store     *)
(* calls: they exclude one another, and only a crash separates two calls.  *)
(* Follow-up and interview routes are plain functions in a thread pool:    *)
(* each of their store calls is a step of its own, among those of every    *)
(* other request.                                                          *)
(***************************************************************************)
EXTENDS Naturals, FiniteSets, FiniteSetsExt

CONSTANTS
    Owners,      \* accounts
    Projects, WRuns, Subjects,
    Askers,      \* pool threads that serve a follow-up or interview request
    HourLimit,   \* INTERACTIVE_LLM_ACTIONS_PER_HOUR
    Hour,        \* ticks in the allowance's window
    MaxOrdinal   \* bound on the messages of a thread

ASSUME WorkspaceConstants ==
    /\ Owners /= {} /\ Projects /= {} /\ WRuns /= {} /\ Subjects /= {}
    /\ HourLimit \in Nat \ {0} /\ Hour \in Nat \ {0} /\ MaxOrdinal \in Nat

VARIABLES
    projects,  \* rows of projects
    wruns,     \* rows of runs, with the link of project_runs
    linking,   \* the run whose create_project_run has not attached it yet
    threads,   \* interview_threads: the <<run, subject>> that have one
    late,      \* those inserted when their run was gone: nobody finds them
    rows,      \* interview_messages
    spent,     \* interactive_llm_usage: units by account, action type and age
    turns      \* the request each asker serves

workspaceVars == <<projects, wruns, linking, threads, late, rows, spent, turns>>

ActionTypes == {"interview_message", "project_followup"}
Threads == WRuns \X Subjects
Ordinals == 0..(MaxOrdinal + 1)
Row == [thread: Threads, ordinal: Ordinals, role: {"user", "assistant"},
        by: Askers, seen: Ordinals, stray: BOOLEAN]
Requests == {"asking", "following", "opening"}
Turn == [step: Requests \cup {"idle", "shown", "paid", "found", "asked", "answered", "numbered"},
         owner: Owners, thread: Threads, seen: Ordinals, ordinal: Ordinals]

WorkspaceTypeOK ==
    /\ projects \in [Projects -> [state: {"absent", "live", "archived"}, owner: Owners]]
    /\ wruns \in [WRuns -> [state: {"absent", "active", "ready", "gone"}, owner: Owners,
                            project: Projects, linked: BOOLEAN]]
    /\ linking \subseteq WRuns /\ Cardinality(linking) <= 1
    /\ threads \subseteq Threads /\ late \subseteq Threads
    /\ rows \subseteq Row
    /\ spent \in [Owners \X ActionTypes -> [0..(Hour - 1) -> 0..HourLimit]]
    /\ turns \in [Askers -> Turn]

IdleTurn == [step |-> "idle", owner |-> CHOOSE u \in Owners: TRUE,
             thread |-> CHOOSE t \in Threads: TRUE, seen |-> 0, ordinal |-> 0]

WorkspaceInit ==
    /\ projects = [p \in Projects |-> [state |-> "absent", owner |-> CHOOSE u \in Owners: TRUE]]
    /\ wruns = [r \in WRuns |-> [state |-> "absent", owner |-> CHOOSE u \in Owners: TRUE,
                                 project |-> CHOOSE p \in Projects: TRUE, linked |-> FALSE]]
    /\ linking = {} /\ threads = {} /\ late = {} /\ rows = {}
    /\ spent = [k \in Owners \X ActionTypes |-> [a \in 0..(Hour - 1) |-> 0]]
    /\ turns = [k \in Askers |-> IdleTurn]

LoopFree == linking = {}

OwnedProject(u, p) == projects[p].state = "live" /\ projects[p].owner = u

Exists(r) == wruns[r].state \in {"active", "ready"}

OwnedProjectRun(u, r) ==
    /\ OwnedProject(u, wruns[r].project)
    /\ wruns[r].linked /\ Exists(r) /\ wruns[r].owner = u

RowsOf(t) == {m \in rows: m.thread = t}

\* MAX(ordinal) + 1
NextOrdinal(t) ==
    IF RowsOf(t) = {} THEN 0
    ELSE 1 + CHOOSE n \in Ordinals: /\ \E m \in RowsOf(t): m.ordinal = n
                                    /\ \A m \in RowsOf(t): m.ordinal <= n

(***************************************************************************)
(* Projects.                                                               *)
(***************************************************************************)
CreateProject(u, p) ==
    /\ LoopFree /\ projects[p].state = "absent"
    /\ projects' = [projects EXCEPT ![p] = [state |-> "live", owner |-> u]]
    /\ UNCHANGED <<wruns, linking, threads, late, rows, spent, turns>>

ArchiveProject(u, p) ==
    /\ LoopFree /\ OwnedProject(u, p)
    /\ projects' = [projects EXCEPT ![p].state = "archived"]
    /\ UNCHANGED <<wruns, linking, threads, late, rows, spent, turns>>

\* create_project_run up to create_run_for_user, which commits the run.
CreateProjectRun(u, p, r) ==
    /\ LoopFree /\ OwnedProject(u, p) /\ wruns[r].state = "absent"
    /\ wruns' = [wruns EXCEPT ![r] = [state |-> "active", owner |-> u,
                                      project |-> p, linked |-> FALSE]]
    /\ linking' = {r}
    /\ UNCHANGED <<projects, threads, late, rows, spent, turns>>

AttachProjectRun(r) ==
    /\ r \in linking
    /\ wruns' = IF OwnedProject(wruns[r].owner, wruns[r].project) /\ Exists(r)
                THEN [wruns EXCEPT ![r].linked = TRUE] ELSE wruns
    /\ linking' = {}
    /\ UNCHANGED <<projects, threads, late, rows, spent, turns>>

\* The API dies, with every request it was serving.
WorkspaceCrash ==
    /\ linking /= {} \/ \E k \in Askers: turns[k].step /= "idle"
    /\ linking' = {}
    /\ turns' = [k \in Askers |-> IdleTurn]
    /\ UNCHANGED <<projects, wruns, threads, late, rows, spent>>

\* A worker saves the result of the run.
FinishRun(r) ==
    /\ wruns[r].state = "active"
    /\ wruns' = [wruns EXCEPT ![r].state = "ready"]
    /\ UNCHANGED <<projects, linking, threads, late, rows, spent, turns>>

\* Variant: the threads go first, and their messages are not found any more.
WithoutInterviews_ThreadsFirst(runs) ==
    /\ rows' = rows
    /\ threads' = {t \in threads: t[1] \notin runs}

\* The messages of the runs' threads go first, then the threads.
WithoutInterviews(runs) ==
    /\ rows' = {m \in rows: ~(m.thread[1] \in runs /\ m.thread \in threads)}
    /\ threads' = {t \in threads: t[1] \notin runs}

\* prune_retention: a finished run past its retention.
PruneRun(r) ==
    /\ LoopFree /\ wruns[r].state = "ready"
    /\ WithoutInterviews({r})
    /\ wruns' = [wruns EXCEPT ![r].state = "gone"]
    /\ UNCHANGED <<projects, linking, late, spent, turns>>

\* delete_user_data: the account's runs, interviews and allowance; its
\* projects stay.
DeleteOwner(u) ==
    /\ LoopFree
    /\ LET mine == {r \in WRuns: wruns[r].owner = u /\ Exists(r)} IN
         /\ WithoutInterviews(mine)
         /\ wruns' = [r \in WRuns |->
              IF r \in mine THEN [wruns[r] EXCEPT !.state = "gone"] ELSE wruns[r]]
    /\ spent' = [k \in Owners \X ActionTypes |->
         IF k[1] = u THEN [a \in 0..(Hour - 1) |-> 0] ELSE spent[k]]
    /\ late' = {t \in late: wruns[t[1]].owner /= u}
    /\ UNCHANGED <<projects, linking, turns>>

(***************************************************************************)
(* The hourly allowance: counted and spent in one immediate transaction.   *)
(***************************************************************************)
Used(u, type) == MapThenSumSet(LAMBDA a: spent[<<u, type>>][a], 0..(Hour - 1))

\* Variant: the unit that is asked for is not counted.
Allowed_Before(u, type) == Used(u, type) <= HourLimit

\* Variant: only the last tick is counted.
Allowed_Newest(u, type) == spent[<<u, type>>][0] + 1 <= HourLimit

Allowed(u, type) == Used(u, type) + 1 <= HourLimit

Spend(u, type) == spent' = [spent EXCEPT ![<<u, type>>][0] = @ + 1]

WorkspaceTick ==
    /\ spent' = [k \in Owners \X ActionTypes |->
         [a \in 0..(Hour - 1) |-> IF a = 0 THEN 0 ELSE spent[k][a - 1]]]
    /\ UNCHANGED <<projects, wruns, linking, threads, late, rows, turns>>

(***************************************************************************)
(* Interviews.                                                             *)
(***************************************************************************)
Move(k, turn) == turns' = [turns EXCEPT ![k] = turn]

\* _owned_project_run, the first call of each of these requests.  The rows it
\* reads may be gone at the next call.
Enter(k, u, t) ==
    /\ turns[k].step = "idle" /\ OwnedProjectRun(u, t[1])
    /\ \E request \in Requests:
         Move(k, [IdleTurn EXCEPT !.step = request, !.owner = u, !.thread = t])
    /\ UNCHANGED <<projects, wruns, linking, threads, late, rows, spent>>

\* consume_interactive_llm_action, or 429.
Consume(k, type, turn) ==
    \/ Allowed(turns[k].owner, type) /\ Spend(turns[k].owner, type) /\ Move(k, turn)
    \/ ~Allowed(turns[k].owner, type) /\ Move(k, IdleTurn) /\ UNCHANGED spent

\* ask_followup and run_persuasion: the unit is spent before the result is known
\* to be there, and is not given back; what follows writes nothing.
AskFollowup(k) ==
    /\ turns[k].step = "following" /\ Consume(k, "project_followup", IdleTurn)
    /\ UNCHANGED <<projects, wruns, linking, threads, late, rows>>

\* create_interview_thread goes on if the result is there.
ShowSubject(k) ==
    /\ turns[k].step = "opening"
    /\ Move(k, IF wruns[turns[k].thread[1]].state = "ready"
               THEN [turns[k] EXCEPT !.step = "shown"] ELSE IdleTurn)
    /\ UNCHANGED <<projects, wruns, linking, threads, late, rows, spent>>

\* get_or_create_interview_thread does not look at the run.  UNIQUE (user, run,
\* subject) makes a second opening find the first; a thread whose run was
\* removed is inserted under an id of its own.
OpenThread(k) ==
    /\ turns[k].step = "shown"
    /\ IF Exists(turns[k].thread[1])
       THEN threads' = threads \cup {turns[k].thread} /\ late' = late
       ELSE late' = late \cup {turns[k].thread} /\ threads' = threads
    /\ Move(k, IdleTurn)
    /\ UNCHANGED <<projects, wruns, linking, rows, spent>>

AskPay(k) ==
    /\ turns[k].step = "asking"
    /\ Consume(k, "interview_message", [turns[k] EXCEPT !.step = "paid"])
    /\ UNCHANGED <<projects, wruns, linking, threads, late, rows>>

\* get_interview_thread, then get_result: 404 and 409 end the turn.
AskFind(k) ==
    /\ turns[k].step = "paid"
    /\ Move(k, IF turns[k].thread \in threads /\ wruns[turns[k].thread[1]].state = "ready"
               THEN [turns[k] EXCEPT !.step = "found"] ELSE IdleTurn)
    /\ UNCHANGED <<projects, wruns, linking, threads, late, rows, spent>>

\* Variant: the history of an earlier request is used.
History_Cached(t) == 0

\* The history the model is shown.
History(t) == NextOrdinal(t)

AskHistory(k) ==
    /\ turns[k].step = "found"
    /\ Move(k, [turns[k] EXCEPT !.step = "asked", !.seen = History(turns[k].thread)])
    /\ UNCHANGED <<projects, wruns, linking, threads, late, rows, spent>>

\* The language model answers, or fails and the turn ends with an error.
AskAnswer(k) ==
    /\ turns[k].step = "asked"
    /\ \/ Move(k, [turns[k] EXCEPT !.step = "answered"])
       \/ Move(k, IdleTurn)
    /\ UNCHANGED <<projects, wruns, linking, threads, late, rows, spent>>

\* append_interview_exchange reads before its transaction writes.
AppendRead(k) ==
    /\ turns[k].step = "answered" /\ NextOrdinal(turns[k].thread) < MaxOrdinal
    /\ Move(k, IF turns[k].thread \in threads
               THEN [turns[k] EXCEPT !.step = "numbered",
                                     !.ordinal = NextOrdinal(turns[k].thread)]
               ELSE IdleTurn)
    /\ UNCHANGED <<projects, wruns, linking, threads, late, rows, spent>>

Message(k, role, ordinal) ==
    [thread |-> turns[k].thread, ordinal |-> ordinal, role |-> role, by |-> k,
     seen |-> turns[k].seen, stray |-> turns[k].thread \notin threads]

\* Variant: no unique index.
NumberFree_NoIndex(k) == TRUE

\* UNIQUE (thread_id, ordinal): a number taken meanwhile fails the transaction.
NumberFree(k) == \A m \in RowsOf(turns[k].thread): m.ordinal /= turns[k].ordinal

AppendWrite(k) ==
    /\ turns[k].step = "numbered"
    /\ rows' = IF NumberFree(k)
               THEN rows \cup {Message(k, "user", turns[k].ordinal),
                               Message(k, "assistant", turns[k].ordinal + 1)}
               ELSE rows
    /\ Move(k, IdleTurn)
    /\ UNCHANGED <<projects, wruns, linking, threads, late, spent>>

WorkspaceNext ==
    \/ \E u \in Owners, p \in Projects: CreateProject(u, p) \/ ArchiveProject(u, p)
    \/ \E u \in Owners, p \in Projects, r \in WRuns: CreateProjectRun(u, p, r)
    \/ \E r \in WRuns: AttachProjectRun(r) \/ FinishRun(r) \/ PruneRun(r)
    \/ \E u \in Owners: DeleteOwner(u)
    \/ \E k \in Askers, u \in Owners, t \in Threads: Enter(k, u, t)
    \/ \E k \in Askers: \/ AskFollowup(k) \/ ShowSubject(k) \/ OpenThread(k)
                          \/ AskPay(k) \/ AskFind(k) \/ AskHistory(k) \/ AskAnswer(k)
                          \/ AppendRead(k) \/ AppendWrite(k)
    \/ WorkspaceCrash
    \/ WorkspaceTick

WorkspaceSpec == WorkspaceInit /\ [][WorkspaceNext]_workspaceVars

(***************************************************************************)
(* Properties.                                                             *)
(***************************************************************************)
\* However many turns of one thread are answered at the same time, its messages
\* are numbered from 0 without a gap or a duplicate, and every question is
\* followed by the answer given to it (store.py:1795-1864).
ExchangesWhole ==
    \A t \in threads:
        /\ {m.ordinal: m \in RowsOf(t)} = 0..(Cardinality(RowsOf(t)) - 1)
        /\ \A q \in RowsOf(t): q.role = "user" =>
             \E a \in RowsOf(t): /\ a.role = "assistant" /\ a.by = q.by
                                 /\ a.ordinal = q.ordinal + 1

\* An answer is given in the knowledge of everything the same client was
\* answered before, although turns of other clients may have been missed
\* (project_service.py:413-490).
KnowsOwnPast ==
    \A t \in threads: \A m, n \in RowsOf(t):
        (m.by = n.by /\ m.role = "assistant" /\ n.role = "user" /\ m.ordinal < n.ordinal)
            => m.ordinal < n.seen

\* Removing a run removes its interviews: all that stays is the messages of a
\* turn that had found the thread before and wrote after, and a thread whose
\* opening was under way (store.py:1049-1067, 968-1013).
OnlyStrayRowsOutlive ==
    /\ \A m \in rows: m.thread \notin threads => m.stray
    /\ \A t \in threads: Exists(t[1])
    /\ \A t \in late: ~Exists(t[1])

\* In no window of an hour does an account get more than its allowance of
\* interactive actions, whatever pool threads ask at once (store.py:1316-1357).
AllowanceKept ==
    \A u \in Owners, type \in ActionTypes: Used(u, type) <= HourLimit

\* An interview thread reads as one conversation whoever writes to it at the same
\* time: whole exchanges, answers that know their past, and no messages left of a
\* thread that is gone, but for the turn that was under way.
ThreadsConsistent == ExchangesWhole /\ KnowsOwnPast /\ OnlyStrayRowsOutlive
=============================================================================
