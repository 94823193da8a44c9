--------------------------- MODULE IntakeSession ---------------------------
(***************************************************************************)
(* One intake conversation kept by several browser tabs                    *)
(* (src/intake/engine.py, the intake_* tables of src/jobs/store.py, the    *)
(* /api/intake routes).  Every tab works on its own copy of the snapshot   *)
(* and sends it whole; the store keeps the last one, the messages in it as *)
(* rows, the account that claimed the session and the run it led to.  All  *)
(* routes are coroutines with one store transaction that changes intake    *)
(* rows, so a request is one step.                                         *)
(***************************************************************************)
EXTENDS Naturals, Sequences, FiniteSets

CONSTANTS
    Accounts,     \* signed-in accounts
    Tabs,         \* browser tabs
    IRuns,        \* runs
    RunOwner,     \* the account of each run, or Anonymous
    Anonymous,    \* a request without a session; no owner
    NoRun,
    MaxMessages,  \* bound on the messages of a snapshot
    MaxUnusable   \* and on the unusable ones among them

ASSUME IntakeConstants ==
    /\ Anonymous \notin Accounts /\ NoRun \notin IRuns
    /\ RunOwner \in [IRuns -> Accounts \cup {Anonymous}]
    /\ MaxMessages \in Nat /\ MaxUnusable \in Nat

VARIABLES
    session,  \* the row of intake_sessions
    history,  \* intake_messages: the role of each row, by the place of the message
    tabs      \* each tab: who is signed in, and the snapshot it holds

intakeVars == <<session, history, tabs>>

Callers == Accounts \cup {Anonymous}
Roles == {"user", "assistant"}
Written == Roles \cup {"unusable"}  \* also without text, or by nobody known
Answers == {"object", "question"}   \* _looks_like_object_answer

\* taskFrame, the first critical slot, the run id the client wrote into it.
EmptySnapshot == [messages |-> <<>>, turnCount |-> 0, framed |-> FALSE, slot |-> FALSE, run |-> NoRun]
NoSession == [saved |-> FALSE, owner |-> Anonymous, run |-> NoRun, snapshot |-> EmptySnapshot]

Snapshot == [messages: Seq(Written), turnCount: Nat, framed: BOOLEAN, slot: BOOLEAN,
             run: IRuns \cup {NoRun}]
Session == [saved: BOOLEAN, owner: Callers, run: IRuns \cup {NoRun}, snapshot: Snapshot]

IntakeTypeOK ==
    /\ session \in Session
    /\ DOMAIN history \subseteq Nat /\ \A i \in DOMAIN history: history[i] \in Roles
    /\ ~session.saved => session = NoSession /\ history = <<>>
    /\ tabs \in [Tabs -> [user: Callers, snapshot: Snapshot]]

IntakeInit ==
    /\ session = NoSession /\ history = <<>>
    /\ tabs = [t \in Tabs |-> [user |-> Anonymous, snapshot |-> EmptySnapshot]]

(***************************************************************************)
(* The planner: it asks for the goal, then for the first critical slot,    *)
(* then shows a form.  It never reports that a run is ready.               *)
(***************************************************************************)
InitialState == [EmptySnapshot EXCEPT !.messages = <<"assistant">>]

Started(s) == IF s = EmptySnapshot THEN InitialState ELSE s

UserMessage(s, answer) ==
    [s EXCEPT !.framed = TRUE, !.slot = @ \/ answer = "object",
              !.messages = Append(@, "user"), !.turnCount = @ + 1]

\* Variant: a form is not a turn.
FormSubmit_Uncounted(s, fills) ==
    [s EXCEPT !.slot = @ \/ fills, !.messages = Append(@, "user")]

FormSubmit(s, fills) ==
    [s EXCEPT !.slot = @ \/ fills,
              !.messages = Append(@, "user"), !.turnCount = @ + 1]

Planned(s) == [s EXCEPT !.messages = Append(@, "assistant")]

\* advance_intake for each event: a reset, a message, a form, or anything else.
\* A reset greets twice: the new state holds the greeting and the plan repeats it.
Advanced(s) ==
    {Planned(InitialState), Planned(Started(s))}
        \cup {Planned(UserMessage(Started(s), a)): a \in Answers}
        \cup {Planned(FormSubmit(Started(s), f)): f \in BOOLEAN}

WithinBound(s) ==
    /\ Len(s.messages) <= MaxMessages
    /\ Cardinality({i \in DOMAIN s.messages: s.messages[i] = "unusable"}) <= MaxUnusable

(***************************************************************************)
(* The store.                                                              *)
(***************************************************************************)
\* An owned session is refused to any other caller.
MaySave(u) == session.saved /\ session.owner /= Anonymous => session.owner = u

\* Variant: the row is replaced without COALESCE.
Upserted_Plain(u, s) == [saved |-> TRUE, owner |-> u, run |-> s.run, snapshot |-> s]

\* The run, once known, stays unless the snapshot names another; the first
\* account that saves an unowned session claims it.
Upserted(u, s) ==
    [saved |-> TRUE,
     owner |-> IF session.owner /= Anonymous THEN session.owner ELSE u,
     run |-> IF s.run /= NoRun THEN s.run ELSE session.run,
     snapshot |-> s]

\* _intake_messages: what has no text or comes from nobody known gets no row.
Usable(s) == {i \in DOMAIN s.messages: s.messages[i] \in Roles}

\* Variant: only the messages without a row get one.
Replaced_Append(s) ==
    [i \in DOMAIN history \cup Usable(s) |->
        IF i \in DOMAIN history THEN history[i] ELSE s.messages[i]]

\* The usable messages of a snapshot replace the rows.
Replaced(s) == [i \in Usable(s) |-> s.messages[i]]

SaveSession(u, s) ==
    /\ MaySave(u)
    /\ session' = Upserted(u, s)
    /\ history' = Replaced(s)

(***************************************************************************)
(* The requests.                                                           *)
(***************************************************************************)
SignIn(t, u) ==
    /\ tabs' = [tabs EXCEPT ![t].user = u]
    /\ UNCHANGED <<session, history>>

\* GET: only the owner, or anybody when there is none, sees the session.
Reload(t) ==
    /\ session.saved /\ session.owner = tabs[t].user
    /\ tabs' = [tabs EXCEPT ![t].snapshot = session.snapshot]
    /\ UNCHANGED <<session, history>>

\* The planner of the React app edits the copy of its tab.
EditLocally(t) ==
    /\ \E a \in Answers: tabs' = [tabs EXCEPT ![t].snapshot = Planned(UserMessage(Started(@), a))]
    /\ WithinBound(tabs'[t].snapshot)
    /\ UNCHANGED <<session, history>>

\* A client of the API that is not the React app: nothing checks the snapshot.
EditByHand(t) ==
    /\ tabs' = [tabs EXCEPT ![t].snapshot.messages = Append(@, "unusable")]
    /\ WithinBound(tabs'[t].snapshot)
    /\ UNCHANGED <<session, history>>

Save(t) ==
    /\ SaveSession(tabs[t].user, tabs[t].snapshot)
    /\ UNCHANGED tabs

\* POST /api/intake/advance: the answer carries the new snapshot.
Advance(t) ==
    \E s \in Advanced(tabs[t].snapshot):
        /\ WithinBound(s)
        /\ SaveSession(tabs[t].user, s)
        /\ tabs' = [tabs EXCEPT ![t].snapshot = s]

\* attach_intake_run writes the run into the row and into its snapshot.
LinkRun(t, r) ==
    /\ session.saved /\ session.owner = tabs[t].user
    /\ RunOwner[r] = session.owner
    /\ session' = [session EXCEPT !.run = r, !.snapshot.run = r]
    /\ UNCHANGED <<history, tabs>>

\* Variant: the messages have no foreign key and are forgotten.
DropAccount_RowOnly(u) ==
    /\ session.saved /\ session.owner = u
    /\ session' = NoSession
    /\ UNCHANGED <<history, tabs>>

\* delete_user_data, for the account of the session.
DropAccount(u) ==
    /\ session.saved /\ session.owner = u
    /\ session' = NoSession /\ history' = <<>>
    /\ UNCHANGED tabs

IntakeNext ==
    \/ \E t \in Tabs, u \in Callers: SignIn(t, u)
    \/ \E t \in Tabs: Reload(t) \/ EditLocally(t) \/ EditByHand(t) \/ Save(t) \/ Advance(t)
    \/ \E t \in Tabs, r \in IRuns: LinkRun(t, r)
    \/ \E u \in Accounts: DropAccount(u)

IntakeSpec == IntakeInit /\ [][IntakeNext]_intakeVars

(***************************************************************************)
(* Properties.                                                             *)
(***************************************************************************)
\* Whatever tabs write over one another, the history lists the messages of the
\* snapshot that a reload returns, but for those nobody could read
\* (store.py:2635-2699, 3638-3651).
HistoryMirrorsSnapshot ==
    LET messages == session.snapshot.messages IN
    /\ DOMAIN history = {i \in DOMAIN messages: messages[i] /= "unusable"}
    /\ \A i \in DOMAIN history: history[i] = messages[i]

\* The turn count of a stored snapshot is the number of things its user said,
\* through both planners and any order of saves (engine.py:63-104).
TurnsCounted ==
    session.snapshot.turnCount =
        Cardinality({i \in DOMAIN session.snapshot.messages: session.snapshot.messages[i] = "user"})

\* A stale tab that saves a copy without the run does not unlink the session, and
\* nobody takes a claimed session over (store.py:2645-2682).
ClaimAndLinkKept ==
    [][session.saved /\ session'.saved =>
         /\ session.run /= NoRun => session'.run /= NoRun
         /\ session.owner /= Anonymous => session'.owner = session.owner]_intakeVars

\* What a reload shows is one conversation, although tabs overwrite each other:
\* history, messages and turn count agree.
SnapshotConsistent == HistoryMirrorsSnapshot /\ TurnsCounted
=============================================================================
