----------------------------- MODULE ChoicePolls -----------------------------
(***************************************************************************)
(* The one-question panels: src/simulations/generic_suite.py, open_survey, *)
(* creative_testing and their helpers in common.py.  A respondent writes   *)
(* free text; a parser, different for each form of question, makes a value *)
(* of it or gives up; the aggregator counts the values, breaks them down   *)
(* by the respondents' attributes and, for prices, recommends one.         *)
(***************************************************************************)
EXTENDS Integers, Sequences, FiniteSets, FiniteSetsExt

CONSTANTS
    Groups,   \* the attribute of each respondent, in the order of raw_results
    Offered,  \* options (or price points, ascending) put to them: 1..Offered
    Letters   \* len(LETTERS): letters the text may name; more than Offered

ASSUME PollFormConstants ==
    /\ Groups \in Seq(STRING)
    /\ Offered \in Nat /\ Letters \in Nat /\ 0 < Offered /\ Offered < Letters

VARIABLES
    form,    \* which simulation: its prompt, parser and aggregator
    parsed,  \* parsed_results so far, one for each reply
    tally   \* the aggregate

choiceVars == <<form, parsed, tally>>

Options == 1..Offered
Absent == -1
Forms == {"creative", "launch", "value", "competitive", "brand", "churn", "campaign",
          "open", "price", "qa"}
NoTally == [ready |-> FALSE]

\* What a reply holds: the value on the line the form asks for, the values that
\* occur in the text, in order, and the second line some forms insist on (a
\* score, a reason, a reaction).  A reply about prices holds the amount the
\* respondent would pay and the intent instead.
TextReplies == [line: Options \cup {Absent, Letters},
                text: {<<>>} \cup {<<a>>: a \in 1..Letters} \cup {<<a, b>>: a, b \in 1..Letters},
                second: Options \cup {Absent}]
PriceReplies == [line: Options \cup {Absent, 0, Letters}, pays: Options \cup {Absent, 0, Letters},
                 intent: {"buy", "refuse", "none"}]

ChoiceInit == form \in Forms /\ parsed = <<>> /\ tally = NoTally

\* parse_choice, _parse_choice: the letter on the line if it may be chosen,
\* else the first letter of the text that may.
Letter(reply, valid) ==
    IF reply.line \in valid THEN reply.line
    ELSE LET named == {i \in DOMAIN reply.text: reply.text[i] \in valid}
         IN IF named = {} THEN Absent ELSE reply.text[Min(named)]

\* parse_label: the word on the line, else the first word of the list, not of
\* the text, that the text contains.
Label(reply) ==
    IF reply.line \in Options THEN reply.line
    ELSE LET named == {reply.text[i]: i \in DOMAIN reply.text} \cap Options
         IN IF named = {} THEN Absent ELSE Min(named)

\* parse_score: a digit on the line or nothing.
Score(reply) == IF reply.line \in Options THEN reply.line ELSE Absent

Unparsed == [value |-> Absent, mark |-> Absent, pays |-> Absent, refuses |-> FALSE]

\* value is what the aggregate counts, mark what it breaks down by group; a
\* preferred price of 0 is broken down by the intent instead (mark 0).
Entry(value) == [value |-> value, mark |-> value, pays |-> Absent, refuses |-> FALSE]

\* Variant: the creative test reads letters as its siblings do.
Creative_AnyLetter(reply) == Entry(Letter(reply, 1..Letters))

(***************************************************************************)
(* The forms: what each asks for and how the answer is read.               *)
(***************************************************************************)
Creative(reply) == Entry(Letter(reply, Options))

Launch(reply) == IF reply.second = Absent THEN Unparsed ELSE Entry(Label(reply))

\* LETTERS, not the letters shown.
Value(reply) == IF reply.second = Absent THEN Unparsed ELSE Entry(Letter(reply, 1..Letters))

Competitive(reply) == Entry(Letter(reply, 1..Letters))

Brand(reply) == Entry(Score(reply))

\* confidence or 3: the second line may be missing.
Churn(reply) == Entry(Label(reply))

\* The channel may be any name; the breakdown is by the reaction.
Campaign(reply) ==
    IF reply.line = Absent \/ reply.second = Absent THEN Unparsed
    ELSE [value |-> reply.line, mark |-> reply.second, pays |-> Absent, refuses |-> FALSE]

\* JSON: an option of the list, literally, and a reason.
OpenChoice(reply) == IF reply.second = Absent THEN Unparsed ELSE Entry(Score(reply))

\* product_qa_v1: a ranking and the top and the bottom line, any letter of A-J.
ProductQA(reply) ==
    IF reply.line = Absent \/ reply.second = Absent THEN Unparsed ELSE Entry(reply.line)

\* wtp or price: an amount of 0 is no amount.
Price(reply) ==
    IF reply.line = Absent \/ reply.intent = "none" THEN Unparsed
    ELSE [value |-> reply.line, mark |-> reply.line,
          pays |-> IF reply.pays > 0 THEN reply.pays ELSE reply.line, refuses |-> reply.intent = "refuse"]

Reading(reply) ==
    CASE form = "creative" -> Creative(reply)
      [] form = "launch" -> Launch(reply)
      [] form = "value" -> Value(reply)
      [] form = "competitive" -> Competitive(reply)
      [] form = "brand" -> Brand(reply)
      [] form = "churn" -> Churn(reply)
      [] form = "campaign" -> Campaign(reply)
      [] form = "open" -> OpenChoice(reply)
      [] form = "price" -> Price(reply)
      [] form = "qa" -> ProductQA(reply)

\* A call that failed is not parsed either.
Reply ==
    /\ Len(parsed) < Len(Groups) /\ tally = NoTally
    /\ \/ parsed' = Append(parsed, Unparsed)
       \/ \E reply \in IF form = "price" THEN PriceReplies ELSE TextReplies:
            parsed' = Append(parsed, Reading(reply))
    /\ UNCHANGED <<form, tally>>

(***************************************************************************)
(* The aggregators.                                                        *)
(***************************************************************************)
Counted == {i \in DOMAIN parsed: parsed[i].value /= Absent}
Chosen(v) == Cardinality({i \in Counted: parsed[i].value = v})

\* Variant: the valid answers are paired with the first respondents.
Segment_Shifted(g) ==
    {i \in Counted: Groups[Cardinality({j \in Counted: j <= i})] = g}

\* demographic_segments, tier_rows: respondents of a group who were counted.
Segment(g) == {i \in Counted: Groups[i] = g}

\* most_common(1): of the most frequent answers the one given first.
Leader ==
    LET values == {parsed[i].value: i \in Counted}
        Most == {v \in values: \A w \in values: Chosen(w) <= Chosen(v)}
    IN IF values = {} THEN Absent
       ELSE parsed[Min({i \in Counted: parsed[i].value \in Most})].value

\* Variant: demand counts those who named the price.
Demand_Named(price) ==
    Cardinality({i \in Counted: parsed[i].value = price /\ ~parsed[i].refuses})

\* Those who would pay the price or more and did not refuse.
Demand(price) ==
    Cardinality({i \in Counted: parsed[i].pays >= price /\ ~parsed[i].refuses})

\* max(prices, key=demand): the first of the best.
Recommended == Min({p \in Options: \A q \in Options: Demand(q) <= Demand(p)})

\* Prices named that were not offered: a warning instead of a row.
Off == Cardinality({i \in Counted: parsed[i].value \notin Options})

\* What every aggregate holds; a report adds what its form concludes.
Totals ==
    [ready |-> TRUE, total |-> Cardinality(Counted), failed |-> Len(parsed) - Cardinality(Counted),
     counts |-> [v \in 1..Letters |-> Chosen(v)], off |-> 0, headline |-> Absent,
     segments |-> [g \in {Groups[i]: i \in DOMAIN Groups} |->
                    [v \in 0..Letters |-> Cardinality({i \in Segment(g): parsed[i].mark = v})]]]

CreativeReport == Totals
LaunchReport == [Totals EXCEPT !.headline = Leader]
ValueReport == [Totals EXCEPT !.headline = Leader]
CompetitiveReport == [Totals EXCEPT !.headline = Leader]
ChurnReport == [Totals EXCEPT !.headline = Leader]
OpenReport == Totals
ProductQAReport == [Totals EXCEPT !.headline = Leader]

\* The average score: its numerator, total being the denominator.
BrandReport ==
    [Totals EXCEPT !.headline = MapThenSumSet(LAMBDA i: parsed[i].value, Counted)]

\* combos[:1]: the best average, then the most answers; the marks stand for
\* the scores of the channel and message taken together.
Outranks(v, w) ==
    LET Sum(x) == MapThenSumSet(LAMBDA i: parsed[i].mark, {i \in Counted: parsed[i].value = x})
    IN \/ Sum(v) * Chosen(w) > Sum(w) * Chosen(v)
       \/ Sum(v) * Chosen(w) = Sum(w) * Chosen(v) /\ Chosen(v) >= Chosen(w)

CampaignReport ==
    LET values == {parsed[i].value: i \in Counted}
        best == {i \in Counted: \A w \in values: Outranks(parsed[i].value, w)}
    IN [Totals EXCEPT !.headline = IF best = {} THEN Absent ELSE parsed[Min(best)].value]

PriceReport == [Totals EXCEPT !.off = Off, !.headline = Recommended]

Conclude ==
    /\ Len(parsed) = Len(Groups) /\ tally = NoTally
    /\ tally' = CASE form = "creative" -> CreativeReport
                   [] form = "launch" -> LaunchReport
                   [] form = "value" -> ValueReport
                   [] form = "competitive" -> CompetitiveReport
                   [] form = "brand" -> BrandReport
                   [] form = "churn" -> ChurnReport
                   [] form = "campaign" -> CampaignReport
                   [] form = "open" -> OpenReport
                   [] form = "price" -> PriceReport
                   [] form = "qa" -> ProductQAReport
    /\ UNCHANGED <<form, parsed>>

ChoiceNext == Reply \/ Conclude

ChoiceSpec == ChoiceInit /\ [][ChoiceNext]_choiceVars

(***************************************************************************)
(* Every respondent is counted once: the options, and for prices the       *)
(* warning about prices that were not offered, add up to the answers that  *)
(* were read.  Only the forms whose parser knows the options promise it: a *)
(* letter beyond the statements shown, or a channel nobody offered, is     *)
(* counted by the others under its own name.                               *)
(***************************************************************************)
PollAddsUp ==
    tally.ready /\ form \notin {"value", "competitive", "campaign", "qa"} =>
        /\ MapThenSumSet(LAMBDA v: tally.counts[v], Options) + tally.off = tally.total
        /\ tally.total + tally.failed = Len(Groups)

(***************************************************************************)
(* A group's bar holds the answers of that group, whatever the respondents *)
(* before them answered or failed to: value by value, the bars hold what   *)
(* the group's own members said.                                           *)
(***************************************************************************)
GroupsKeepTheirAnswers ==
    tally.ready => \A g \in DOMAIN tally.segments, v \in 0..Letters:
        tally.segments[g][v] = Cardinality({i \in 1..Len(Groups): Groups[i] = g /\ parsed[i].mark = v})

(***************************************************************************)
(* Demand falls with the price and ties go to the first candidate, which   *)
(* the request's validation has sorted: whatever the panel answers, the    *)
(* price the tally recommends is the cheapest one offered.                *)
(***************************************************************************)
CheapestRecommended ==
    tally.ready /\ form = "price" => tally.headline = 1
===============================================================================
