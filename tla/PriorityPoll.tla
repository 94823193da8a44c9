---------------------------- MODULE PriorityPoll ----------------------------
(***************************************************************************)
(* The priority poll (src/simulations/campus_priority.py) and the rotation *)
(* it shares with the generic panels (src/simulations/common.py).  The     *)
(* order in which items are shown moves the winner, so the personas are    *)
(* dealt into one batch per item, each batch sees its own rotation of the  *)
(* items, and the batches run one after the other: the results are in      *)
(* batch order, not in the order of the sample.                            *)
(***************************************************************************)
EXTENDS Integers, Sequences, FiniteSets, FiniteSetsExt

CONSTANTS
    Count,       \* number of items; an item is its place in sorted(items)
    Tierings,    \* tiers of the sample, persona by persona
    MinAnswers,  \* MIN_RANKING_ANSWERS
    MinRate      \* MIN_PARSE_SUCCESS_RATE

ASSUME PollConstants ==
    /\ Count \in Nat /\ Count > 1
    /\ Tierings \subseteq Seq(Nat)
    /\ MinAnswers \in Nat \ {0} /\ MinRate \in 0..100

VARIABLES
    tierOf,    \* tier of each persona of the sample
    batchNo,   \* offset of the batch that runs
    answer,    \* ranking of each persona of this and earlier batches
    results,   \* personas in the order of raw_results
    ranking    \* the aggregate

pollVars == <<tierOf, batchNo, answer, results, ranking>>

Sampled == DOMAIN tierOf
Items == 1..Count
Rankings == {r \in [1..Count -> Items]: \A a, b \in 1..Count: a /= b => r[a] /= r[b]}

\* "lost" is a call that failed or a ranking that is not exactly the item set.
Asked(p) == answer[p] /= <<>>
Valid(p) == answer[p] \notin {<<>>, <<"lost">>}

PollTypeOK ==
    /\ tierOf \in Tierings
    /\ batchNo \in 0..Count
    /\ \A p \in Sampled: Asked(p) => answer[p] = <<"lost">> \/ answer[p] \in Rankings
    /\ \A i, j \in DOMAIN results: i /= j => results[i] /= results[j]
    /\ ranking.state \in {"open", "available", "suppressed"}

PollInit ==
    /\ tierOf \in Tierings
    /\ batchNo = 0
    /\ answer = [p \in Sampled |-> <<>>]
    /\ results = <<>>
    /\ ranking = [state |-> "open"]

\* Variant: the sample is cut into consecutive groups.
Group_Consecutive(offset) ==
    {p \in Sampled: ((p - 1) * Count) \div Len(tierOf) = offset}

\* _rotate_groups deals the sample out like cards.
Group(offset) == {p \in Sampled: (p - 1) % Count = offset}

\* canonical[offset:] + canonical[:offset]; how the items were entered plays no part.
Shown(offset) == [k \in 1..Count |-> ((k - 1 + offset) % Count) + 1]

AnswerPoll(p) ==
    /\ batchNo < Count /\ p \in Group(batchNo) /\ ~Asked(p)
    /\ \E r \in Rankings \cup {<<"lost">>}: answer' = [answer EXCEPT ![p] = r]
    /\ UNCHANGED <<tierOf, batchNo, results, ranking>>

\* The personas of a batch one after the other.
InOrder(S) ==
    {s \in [1..Cardinality(S) -> S]: \A i, j \in 1..Cardinality(S): i < j => s[i] < s[j]}

\* Variant: every batch hands over all the answers there are.
NextBatch_AllAnswers ==
    /\ batchNo < Count /\ \A p \in Group(batchNo): Asked(p)
    /\ \E s \in InOrder({p \in Sampled: Asked(p)}): results' = results \o s
    /\ batchNo' = batchNo + 1
    /\ UNCHANGED <<tierOf, answer, ranking>>

\* gather keeps the order of the group, whoever answered first.
NextBatch ==
    /\ batchNo < Count /\ \A p \in Group(batchNo): Asked(p)
    /\ \E s \in InOrder(Group(batchNo)): results' = results \o s
    /\ batchNo' = batchNo + 1
    /\ UNCHANGED <<tierOf, answer, ranking>>

(***************************************************************************)
(* aggregate_campus_priority.                                              *)
(***************************************************************************)
Place(r, item) == CHOOSE k \in 1..Count: r[k] = item

\* Variant: the last place is worth a point, for those who ranked it.
Points_FromOne(r, item) == Count + 1 - Place(r, item)

Points(r, item) == Count - Place(r, item)

BordaSum(points, S) == MapThenSumSet(LAMBDA x: points[x], S)
Borda(voters) == [i \in Items |-> BordaSum([p \in voters |-> Points(answer[p], i)], voters)]

\* The first is the one nobody beats; ties go by name.
RankOf(scores) ==
    [i \in Items |-> 1 + Cardinality({b \in Items: scores[b] > scores[i] \/ (scores[b] = scores[i] /\ b < i)})]

Answers == {i \in DOMAIN results: Valid(results[i])}

\* Variant: the tier is looked up by the position in the sample.
TierOfResult_ByPosition(i) == tierOf[i]

\* The persona travels with its result.
TierOfResult(i) == tierOf[results[i]]

TierVoters(t) == {results[i]: i \in {j \in Answers: TierOfResult(j) = t}}

\* From MinAnswers responses on, neither too few nor too small a share may be valid.
Available ==
    /\ Answers /= {}
    /\ Len(results) >= MinAnswers =>
         /\ Cardinality(Answers) >= MinAnswers
         /\ 100 * Cardinality(Answers) >= MinRate * Len(results)

AggregatePoll ==
    /\ batchNo = Count /\ ranking.state = "open"
    /\ ranking' =
         IF Available
         THEN [state |-> "available",
               scores |-> Borda({results[i]: i \in Answers}),
               rank |-> RankOf(Borda({results[i]: i \in Answers})),
               tiers |-> [t \in {tierOf[p]: p \in Sampled} |->
                   [n |-> Cardinality(TierVoters(t)), scores |-> Borda(TierVoters(t))]]]
         ELSE [state |-> "suppressed"]
    /\ UNCHANGED <<tierOf, batchNo, answer, results>>

PollNext ==
    \/ \E p \in Sampled: AnswerPoll(p)
    \/ NextBatch \/ AggregatePoll

PollSpec == PollInit /\ [][PollNext]_pollVars

(***************************************************************************)
(* Properties.                                                             *)
(***************************************************************************)
\* How often the item was shown in the place to the personas.
Showings(people, item, k) ==
    Cardinality({p \in people: \E o \in 0..(Count - 1): p \in Group(o) /\ Shown(o)[k] = item})

\* A campus pool is drawn tier by tier (stratified.py:100-103); the nationwide pool
\* at random, so that its age bands are scattered (campus_priority.py:366-384).
DrawnByTier ==
    \A i, j, k \in Sampled: i <= j /\ j <= k /\ tierOf[i] = tierOf[k] => tierOf[j] = tierOf[i]

\* The order effect cancels out: every item is shown in every place equally often,
\* give or take one, to the panel of any pool, and to each tier of a campus pool;
\* the age bands of the nationwide pool have no such promise
\* (campus_priority.py:366-427).
ShownEquallyOften ==
    ranking.state /= "open" =>
        LET tiers == {{p \in Sampled: tierOf[p] = t}: t \in {tierOf[q]: q \in Sampled}} IN
        \A people \in {Sampled} \cup (IF DrawnByTier THEN tiers ELSE {}):
            \A i, j \in Items, k, l \in 1..Count:
                Showings(people, i, k) - Showings(people, j, l) \in {-1, 0, 1}

Prefers(p, a, b) == Place(answer[p], a) < Place(answer[p], b)

\* A Borda score is the number of duels an item wins, so an item that everybody
\* prefers to another is placed above it (campus_priority.py:137-153).
ScoresAreDuels ==
    ranking.state = "available" =>
        LET voters == {p \in Sampled: Valid(p)} IN
        /\ \A a \in Items: ranking.scores[a] =
             BordaSum([b \in Items \ {a} |-> Cardinality({p \in voters: Prefers(p, a, b)})], Items \ {a})
        /\ \A a, b \in Items: (a /= b /\ \A p \in voters: Prefers(p, a, b)) =>
             ranking.rank[a] < ranking.rank[b]

\* Although the results come batch by batch, the ranking of a tier is made of the
\* votes of its own personas and of no other (campus_priority.py:222-229, 283-300).
TiersCountTheirOwn ==
    ranking.state = "available" =>
        \A t \in {tierOf[p]: p \in Sampled}:
            LET own == {p \in Sampled: tierOf[p] = t /\ Valid(p)} IN
            ranking.tiers[t].n = Cardinality(own) /\ ranking.tiers[t].scores = Borda(own)

\* A ranking is fair to the items and to the tiers: the order of presentation
\* cancels out over the panel, and over each tier of a campus pool, the scores are
\* won duels, a tier's ranking is its own.
PollFair == ShownEquallyOften /\ ScoresAreDuels /\ TiersCountTheirOwn
=============================================================================
