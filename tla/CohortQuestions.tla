-------------------------- MODULE CohortQuestions --------------------------
(***************************************************************************)
(* Questions to the panel of a finished run: the follow-up to a cohort     *)
(* (src/services/followup_service.py) and the attempt to win over those    *)
(* who opposed (src/services/persuasion_service.py).  Neither stores       *)
(* anything; who is asked is recomputed from the saved rows, or drawn      *)
(* again from the default persona pool of the country.                     *)
(***************************************************************************)
EXTENDS Naturals, FiniteSets, FiniteSetsExt

CONSTANTS
    Respondents,   \* rows of raw_results
    Strangers      \* personas of the default pool the run did not ask

ASSUME CohortConstants ==
    IsFiniteSet(Respondents) /\ IsFiniteSet(Strangers) /\ Respondents \cap Strangers = {}

VARIABLES
    row,       \* what each respondent answered in the run
    origin,    \* how the run drew its panel
    question,  \* the request that is being served
    asked,     \* personas it puts the question to
    said,      \* what they answer
    summary    \* the body of the response

cohortVars == <<row, origin, question, asked, said, summary>>

Everyone == Respondents \cup Strangers
PolicyRows == {"opposed", "supports", "failed"}     \* stance of a policy poll
ScoredRows == {"high", "mid", "low", "failed"}      \* score 4-5, 3, 1-2
Origins == {"default", "filtered", "campus"}
Cohorts == {"opposed", "positive", "negative", "confused", "all"} \cup Everyone   \* or a uuid
Sayings == {"for", "conditional", "against", "undecided", "nothing"}
NoQuestion == [kind |-> "none", cohort |-> "all", size |-> 0]
NoSummary == [ready |-> FALSE, size |-> 0, answers |-> 0, converted |-> 0, held |-> 0]

CohortTypeOK ==
    /\ row \in [Respondents -> PolicyRows \cup ScoredRows] /\ origin \in Origins
    /\ question.kind \in {"none", "followup", "persuasion"} /\ question.cohort \in Cohorts
    /\ asked \subseteq Everyone
    /\ DOMAIN said = asked /\ \A p \in asked: said[p] \in Sayings
    /\ summary.size <= Cardinality(Everyone)

CohortInit ==
    /\ row \in [Respondents -> PolicyRows] \cup [Respondents -> ScoredRows]
    /\ origin \in Origins
    /\ question = NoQuestion /\ asked = {} /\ said = <<>> /\ summary = NoSummary

\* select_cohort_subset; a uuid the run does not know has no row.  A row without score and choice counts as confused, the
\* rows of a policy poll and the failed ones among them.
Members(cohort) ==
    {p \in Respondents:
        CASE cohort = "opposed" -> row[p] = "opposed"
          [] cohort = "positive" -> row[p] = "high"
          [] cohort = "negative" -> row[p] = "low"
          [] cohort = "confused" -> row[p] \in {"opposed", "supports", "failed"}
          [] cohort = "all" -> TRUE
          [] OTHER -> p = cohort}

\* What the default pool yields for the seed and size of the run: its panel again
\* if it was drawn that way, other people if it was not.
Redraws(filterKept) ==
    CASE origin = "default" \/ (origin = "filtered" /\ filterKept) -> {Respondents}
      [] origin = "filtered" /\ ~filterKept -> {s \in SUBSET Everyone: Cardinality(s) = Cardinality(Respondents)}
      [] OTHER -> {s \in SUBSET Strangers: s /= {}}

\* The first n of a list whose order is not modelled; 0 stands for no limit.
Firsts(people, n) ==
    IF n = 0 \/ Cardinality(people) <= n THEN {people} ELSE kSubset(n, people)

\* Variant: the panel is drawn again and narrowed to the cohort if any of it is there.
Addressees_Redrawn(cohort) ==
    {IF s \cap Members(cohort) /= {} THEN s \cap Members(cohort) ELSE s: s \in Redraws(TRUE)}

\* The stored personas of the cohort; an empty cohort falls back to a new draw.
Addressees(cohort) ==
    IF Members(cohort) /= {} THEN {Members(cohort)} ELSE Redraws(TRUE)

\* "nothing" is a call that failed or an answer without text.
AskCohort(cohort, n) ==
    /\ question = NoQuestion
    /\ question' = [kind |-> "followup", cohort |-> cohort, size |-> n]
    /\ \E people \in Addressees(cohort): asked' \in Firsts(people, n)
    /\ said' \in [asked' -> Sayings]
    /\ UNCHANGED <<row, origin, summary>>

\* Variant: everybody of the new draw is asked.
Persuadable_All(draw, opposers) == draw

\* Whoever of the new draw is among the opposers; the target filter is not applied.
Persuadable(draw, opposers) == draw \cap opposers

AskOpposers(n) ==
    /\ question = NoQuestion
    /\ question' = [kind |-> "persuasion", cohort |-> "opposed", size |-> n]
    /\ \E opposers \in Firsts(Members("opposed"), n), draw \in Redraws(FALSE):
         asked' = Persuadable(draw, opposers)
    /\ said' \in [asked' -> Sayings]
    /\ UNCHANGED <<row, origin, summary>>

\* parse_campus_policy_response knows three stances; a conditional yes is not one.
Parsable == {"for", "against", "undecided"}
Converting == {"for", "conditional"}
Saying(set) == Cardinality({p \in asked: said[p] \in set})

\* Variant: an answer that cannot be read counts as a refusal.
Held_Unread == Saying(Sayings \ Converting) - Saying({"undecided"})

Held == Saying({"against"})

\* The response; the server keeps nothing of the conversation.
Summarize ==
    /\ question /= NoQuestion /\ ~summary.ready
    /\ summary' =
         [ready |-> TRUE, size |-> Cardinality(asked), answers |-> Saying(Sayings \ {"nothing"}),
          converted |-> IF question.kind = "persuasion" THEN Saying(Parsable \cap Converting) ELSE 0,
          held |-> IF question.kind = "persuasion" THEN Held ELSE 0]
    /\ UNCHANGED <<row, origin, question, asked, said>>

\* Variant: the answers to the last question stay.
NextQuestion_Remembers ==
    /\ summary.ready
    /\ question' = NoQuestion /\ asked' = {} /\ summary' = NoSummary
    /\ UNCHANGED <<row, origin, said>>

NextQuestion ==
    /\ summary.ready
    /\ question' = NoQuestion /\ asked' = {} /\ said' = <<>> /\ summary' = NoSummary
    /\ UNCHANGED <<row, origin>>

CohortNext ==
    \/ \E c \in Cohorts, n \in {0, 1}: AskCohort(c, n)
    \/ \E n \in {0, 1}: AskOpposers(n)
    \/ Summarize \/ NextQuestion

CohortSpec == CohortInit /\ [][CohortNext]_cohortVars

(***************************************************************************)
(* Properties.                                                             *)
(***************************************************************************)
\* A cohort that has members is asked and nobody else, whatever pool the run drew
\* its panel from.  In the name of an empty one, or of a uuid the run does not know,
\* a new draw answers: the panel of the run again, or people of the default pool
\* the run never asked if it was a campus run (followup_service.py:158-176).
OnlyCohortAsked ==
    question.kind = "followup" =>
        IF Members(question.cohort) /= {}
        THEN /\ asked \subseteq Members(question.cohort)
             /\ question.size = 0 => asked = Members(question.cohort)
        ELSE IF origin = "campus" THEN asked \subseteq Strangers
        ELSE /\ asked \subseteq Respondents
             /\ question.size = 0 => asked = Respondents

\* Only people who opposed can be converted, all of them are asked if the run drew
\* from the default pool and nobody if it was a campus run, and nobody is counted on
\* a side that person did not take: an answer that cannot be read is no refusal, and
\* a yes without a condition is never lost (persuasion_service.py:44-70 and 92-118).
ConvertsWereOpposed ==
    question.kind = "persuasion" =>
        /\ asked \subseteq Members("opposed")
        /\ origin = "default" /\ question.size = 0 => asked = Members("opposed")
        /\ origin = "campus" => asked = {}
        /\ summary.ready =>
             /\ summary.held = Saying({"against"})
             /\ Saying({"for"}) <= summary.converted /\ summary.converted <= Saying(Converting)

\* tests/test_persuasion_service.py:16-27, the conversion rate counts support and
\* conditional support, which the prompt offers (persuasion_service.py:10 and 29).
ConditionalConverts ==
    question.kind = "persuasion" /\ summary.ready => summary.converted = Saying(Converting)

\* A question put to a cohort is answered by that cohort, and a change of mind is
\* counted only where there was one to change.
CohortRespected == OnlyCohortAsked /\ ConvertsWereOpposed
=============================================================================
