--------------------------- MODULE PanelProtocol ---------------------------
(***************************************************************************)
(* Panels that put several questions to each persona: price_research_v2,   *)
(* startup_item_validation and its single-call form                        *)
(* startup_item_validation_v2 (src/simulations).  A persona answers the    *)
(* steps one after the other inside one place of a semaphore; the answer   *)
(* to the headline step decides whether the follow-ups are asked.  A call  *)
(* that raises and an answer that cannot be read end the persona, whose    *)
(* earlier answers are thrown away; what they cost is not.                 *)
(***************************************************************************)
EXTENDS Naturals, FiniteSets, FiniteSetsExt

CONSTANTS
    Panel,   \* personas of the sample
    Seats    \* CONCURRENCY

ASSUME PanelConstants == IsFiniteSet(Panel) /\ Seats \in Nat \ {0}

VARIABLES
    protocol,   \* the simulation that runs
    member,     \* the coroutine of each persona
    received,   \* answers the provider gave for each persona
    report      \* what aggregate_... makes of the panel

panelVars == <<protocol, member, received, report>>

Protocols == {"price", "startup", "structured"}
Intents == {"yes", "maybe", "no"}      \* 구매/관망/거부 or 수용/관망/거부
Conditions == {"conditional", "still"}

\* Steps of the protocol, the one that asks for the headline intent, and how
\* often the single structured call may be repaired.
Steps == 4
Headline == IF protocol = "price" THEN 1 ELSE 3
StructuredAttempts == 2

Member ==
    [place: {"wait", "inside", "done"}, answered: 0..Steps, attempt: 0..StructuredAttempts,
     intent: Intents \cup {"none"}, condition: Conditions \cup {"none"},
     parsed: BOOLEAN, error: BOOLEAN, calls: [1..Steps -> 0..StructuredAttempts]]

NewMember ==
    [place |-> "wait", answered |-> 0, attempt |-> 0, intent |-> "none", condition |-> "none",
     parsed |-> FALSE, error |-> FALSE, calls |-> [s \in 1..Steps |-> 0]]

NoReport == [ready |-> FALSE]

PanelTypeOK ==
    /\ protocol \in Protocols
    /\ member \in [Panel -> Member]
    /\ received \in [Panel -> 0..Steps]
    /\ report.ready \in BOOLEAN
    /\ Cardinality({p \in Panel: member[p].place = "inside"}) <= Seats

PanelInit ==
    /\ protocol \in Protocols
    /\ member = [p \in Panel |-> NewMember]
    /\ received = [p \in Panel |-> 0]
    /\ report = NoReport

In(p) == member[p].place = "inside"

\* Variant: there are as many places as personas.
TakeSeat_Free(p) ==
    /\ member[p].place = "wait"
    /\ member' = [member EXCEPT ![p].place = "inside"]
    /\ UNCHANGED <<protocol, received, report>>

TakeSeat(p) ==
    /\ member[p].place = "wait"
    /\ Cardinality({q \in Panel: In(q)}) < Seats
    /\ member' = [member EXCEPT ![p].place = "inside"]
    /\ UNCHANGED <<protocol, received, report>>

\* Variant: usage is read from an answer that could be parsed.
Tracked_Parsed(m, step, readable) == IF readable THEN [m EXCEPT !.calls[step] = @ + 1] ELSE m

\* _track_usage runs before the answer is parsed.
Tracked(m, step, readable) == [m EXCEPT !.calls[step] = @ + 1]

\* Variant: what was answered before the failure counts.
Discarded_Kept(m) == [m EXCEPT !.place = "done", !.error = TRUE, !.parsed = m.answered >= Headline]

\* except Exception: error is set and parsed is None.
Discarded(m) == [m EXCEPT !.place = "done", !.error = TRUE, !.parsed = FALSE]

Completed(m) == [m EXCEPT !.place = "done", !.parsed = TRUE]

(***************************************************************************)
(* The step-by-step protocols.                                             *)
(***************************************************************************)
StepByStep(p) == In(p) /\ protocol /= "structured"

\* The gateway gives up on the call: nothing was received.
StepRaises(p) ==
    /\ StepByStep(p)
    /\ member' = [member EXCEPT ![p] = Discarded(@)]
    /\ UNCHANGED <<protocol, received, report>>

StepUnreadable(p) ==
    /\ StepByStep(p)
    /\ received' = [received EXCEPT ![p] = @ + 1]
    /\ member' = [member EXCEPT ![p] = Discarded(Tracked(@, @.answered + 1, FALSE))]
    /\ UNCHANGED <<protocol, report>>

\* The follow-up that asks on which condition a refusal would turn.
AsksCondition(step) == step = Headline + 1

\* What a readable answer to a step may say, and the persona that said it.
MayIntend(m, step) == IF step = Headline THEN Intents ELSE {m.intent}
MayStipulate(m, step) == IF AsksCondition(step) THEN Conditions ELSE {m.condition}
Says(m, step, i, c) == [m EXCEPT !.answered = step, !.intent = i, !.condition = c]

\* The follow-ups of an acceptor are marked as skipped.
Over(m) == m.answered = Steps \/ (m.answered = Headline /\ m.intent = "yes")

StepAnswered(p) ==
    /\ StepByStep(p)
    /\ received' = [received EXCEPT ![p] = @ + 1]
    /\ LET step == member[p].answered + 1
           m == Tracked(member[p], step, TRUE)
       IN \E i \in MayIntend(m, step), c \in MayStipulate(m, step):
            member' = [member EXCEPT ![p] = IF Over(Says(m, step, i, c))
                                            THEN Completed(Says(m, step, i, c)) ELSE Says(m, step, i, c)]
    /\ UNCHANGED <<protocol, report>>

(***************************************************************************)
(* The structured protocol: one call asks for everything.                  *)
(***************************************************************************)
Structured(p) == In(p) /\ protocol = "structured"

\* A provider error ends the attempts; an earlier answer stays paid.
CallRaises(p) ==
    /\ Structured(p)
    /\ member' = [member EXCEPT ![p] = Discarded(@)]
    /\ UNCHANGED <<protocol, received, report>>

\* The contract is violated: the model is asked to repair its answer, once.
CallInvalid(p) ==
    /\ Structured(p)
    /\ received' = [received EXCEPT ![p] = @ + 1]
    /\ LET m == [Tracked(member[p], 1, FALSE) EXCEPT !.attempt = @ + 1]
       IN member' = [member EXCEPT ![p] =
            IF m.attempt = StructuredAttempts THEN Discarded(m) ELSE m]
    /\ UNCHANGED <<protocol, report>>

\* Variant: the error of the first attempt is not taken back.
CallValid_Stale(p) ==
    /\ Structured(p)
    /\ received' = [received EXCEPT ![p] = @ + 1]
    /\ \E i \in Intents, c \in Conditions \cup {"none"}:
         /\ (i = "yes") <=> (c = "none")
         /\ member' = [member EXCEPT ![p] =
              [Completed(Tracked(@, 1, TRUE)) EXCEPT !.intent = i, !.condition = c, !.answered = Steps,
                                                     !.error = @ \/ member[p].attempt > 0]]
    /\ UNCHANGED <<protocol, report>>

\* The contract ties the barrier to the intent: none with an acceptance, one without.
CallValid(p) ==
    /\ Structured(p)
    /\ received' = [received EXCEPT ![p] = @ + 1]
    /\ \E i \in Intents, c \in Conditions \cup {"none"}:
         /\ (i = "yes") <=> (c = "none")
         /\ member' = [member EXCEPT ![p] =
              [Completed(Tracked(@, 1, TRUE)) EXCEPT !.intent = i, !.condition = c, !.answered = Steps]]
    /\ UNCHANGED <<protocol, report>>

(***************************************************************************)
(* The aggregate.                                                          *)
(***************************************************************************)
Parsed == {p \in Panel: member[p].parsed}
With(field, value) == Cardinality({p \in Parsed: member[p][field] = value})
CallsOf(m) == MapThenSumSet(LAMBDA s: m.calls[s], 1..Steps)

\* The panel is counted twice, from the errors and from the parsed answers.
Aggregate ==
    /\ ~report.ready /\ \A p \in Panel: member[p].place = "done"
    /\ report' = [ready |-> TRUE,
                  total |-> Cardinality(Panel),
                  failed |-> Cardinality({p \in Panel: member[p].error \/ ~member[p].parsed}),
                  intents |-> [i \in Intents |-> With("intent", i)],
                  conditions |-> [c \in Conditions |-> With("condition", c)],
                  calls |-> MapThenSumSet(LAMBDA p: CallsOf(member[p]), Panel)]
    /\ UNCHANGED <<protocol, member, received>>

PanelNext ==
    \/ \E p \in Panel:
         \/ TakeSeat(p) \/ StepRaises(p) \/ StepUnreadable(p) \/ StepAnswered(p)
         \/ CallRaises(p) \/ CallInvalid(p) \/ CallValid(p)
    \/ Aggregate

PanelSpec == PanelInit /\ [][PanelNext]_panelVars

(***************************************************************************)
(* Properties.                                                             *)
(***************************************************************************)
\* The two counts of one panel agree: every persona either failed or has a
\* headline intent, whatever happened between its first and its last call
\* (price_research_v2.py:201-205 and 379-386, startup_item_validation_v2.py:84-120).
PanelAddsUp ==
    report.ready =>
        report.failed + report.intents["yes"] + report.intents["maybe"] + report.intents["no"] = report.total

\* The conditional rate speaks about the refusals of the headline: each persona
\* that did not accept stated one condition, and nobody who accepted did
\* (price_research_v2.py:402-418, startup_item_validation.py:445-472).
ConditionsAreRefusals ==
    report.ready =>
        report.conditions["conditional"] + report.conditions["still"]
            = report.intents["maybe"] + report.intents["no"]

\* Every answer the provider gave is in the usage the run is charged for, the
\* unreadable ones and those of personas whose answers are dropped included.
EveryAnswerPaid ==
    report.ready => report.calls = MapThenSumSet(LAMBDA p: received[p], Panel)

\* The report of a panel of several questions accounts for every persona, every
\* refusal and every answer the provider was paid for.
PanelAccounted == PanelAddsUp /\ ConditionsAreRefusals /\ EveryAnswerPaid
=============================================================================
