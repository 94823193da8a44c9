----------------------------- MODULE SegmentTags -----------------------------
(***************************************************************************)
(* The customer segments people name in their own words                    *)
(* (src/simulations/tagging.py, the segmentation aggregate of              *)
(* generic_suite.py).  Labels are visited from the most frequent down;     *)
(* one that resembles a label already kept joins it, then all beyond the   *)
(* cap are folded into the residual label.  Resemblance is symmetric and   *)
(* not transitive.  A label is a number, in the order of sorted(label).    *)
(***************************************************************************)
EXTENDS Naturals, FiniteSets, FiniteSetsExt, Functions

CONSTANTS
    TagCount,  \* labels people may write
    MaxPeople, \* bound on the people who wrote the same label
    Cap,       \* SEGMENT_TAG_CAP
    Residual   \* RESIDUAL_TAG, one of the labels

ASSUME TagConstants ==
    /\ TagCount \in Nat /\ Cap \in Nat \ {0}
    /\ MaxPeople \in Nat \ {0}
    /\ Residual \in 1..TagCount

VARIABLES
    people,   \* counts: people who wrote each label
    similar,  \* pairs _similar accepts
    seen,     \* labels the merge has visited
    merged,   \* people under each kept label
    aliases,  \* label -> the label its people went to
    bounded   \* what the report shows

tagVars == <<people, similar, seen, merged, aliases, bounded>>

Tags == 1..TagCount
Written == {l \in Tags: people[l] > 0}
NoTags == [l \in {} |-> 0]
PeopleUnder(f) == MapThenSumSet(LAMBDA l: f[l], DOMAIN f)
Put(f, l, x) == [k \in DOMAIN f \cup {l} |-> IF k = l THEN x ELSE f[k]]

TagInit ==
    /\ people \in [Tags -> 0..MaxPeople]
    /\ similar \in SUBSET {{a, b}: a, b \in Written}
    /\ \A pair \in similar: Cardinality(pair) = 2
    /\ seen = {} /\ merged = NoTags /\ aliases = NoTags /\ bounded = NoTags

\* sorted by (-count, label).
Ahead(f, a, b) == f[a] > f[b] \/ (f[a] = f[b] /\ a < b)

\* Kept labels like this one; the first of them to be kept takes it in.
Likes(l) == {k \in DOMAIN merged: {k, l} \in similar}
FirstKept(set) == CHOOSE k \in set: \A o \in set: o = k \/ Ahead(people, k, o)

MergeTag ==
    \E l \in Written \ seen:
        /\ \A o \in Written \ (seen \cup {l}): Ahead(people, l, o)
        /\ seen' = seen \cup {l}
        /\ \/ /\ Likes(l) = {}
              /\ merged' = Put(merged, l, people[l])
              /\ UNCHANGED aliases
           \/ /\ Likes(l) /= {}
              /\ merged' = [merged EXCEPT ![FirstKept(Likes(l))] = @ + people[l]]
              /\ aliases' = Put(aliases, l, FirstKept(Likes(l)))
        /\ UNCHANGED <<people, similar, bounded>>

\* Variant: the label at the cap is still shown.
FoldedLabels_OneMore(rank) == {l \in DOMAIN merged: l = Residual \/ rank[l] > Cap}

\* Labels ranked beyond the cap, and the residual label itself.
FoldedLabels(rank) == {l \in DOMAIN merged: l = Residual \/ rank[l] >= Cap}

\* Variant: a label that is folded leaves no alias.
FoldAliases_None(folded) == aliases

FoldAliases(folded) ==
    [l \in DOMAIN aliases \cup (folded \ {Residual}) |->
        IF l \in folded \ {Residual} THEN Residual ELSE aliases[l]]

FoldTags ==
    /\ seen = Written /\ Written /= {} /\ bounded = NoTags
    /\ LET rank == [l \in DOMAIN merged |->
                      Cardinality({o \in DOMAIN merged: o /= l /\ Ahead(merged, o, l)})]
           folded == FoldedLabels(rank)
           named == Restrict(merged, DOMAIN merged \ folded)
           rest == MapThenSumSet(LAMBDA l: merged[l], folded)
       IN /\ bounded' = IF rest > 0 THEN Put(named, Residual, rest) ELSE named
          /\ aliases' = FoldAliases(folded)
    /\ UNCHANGED <<people, similar, seen, merged>>

TagNext == MergeTag \/ FoldTags

TagSpec == TagInit /\ [][TagNext]_tagVars

(***************************************************************************)
(* The report shows at most Cap segments and the residual, and together    *)
(* they hold every interested person once.                                 *)
(***************************************************************************)
EveryoneInASegment ==
    bounded /= NoTags =>
        /\ PeopleUnder(bounded) = PeopleUnder(people)
        /\ Cardinality(DOMAIN bounded \ {Residual}) <= Cap

(***************************************************************************)
(* The alias map explains the report: follow the alias of what a person    *)
(* wrote, and once more if that label was folded, and the labels that end  *)
(* in a segment hold exactly its people.  One lookup is not enough: a      *)
(* label that joined another which was then folded still names that one.   *)
(***************************************************************************)
Hop(l) == IF l \in DOMAIN aliases THEN aliases[l] ELSE l
Lands(l) == IF Hop(l) \in DOMAIN bounded THEN Hop(l) ELSE Hop(Hop(l))

AliasesExplainCounts ==
    bounded /= NoTags => \A s \in DOMAIN bounded:
        bounded[s] = MapThenSumSet(LAMBDA l: people[l], {l \in Written: Lands(l) = s})
===============================================================================
