----------------------------- MODULE RunBilling -----------------------------
(***************************************************************************)
(* What an account may rely on, whatever the processes behind it do: only  *)
(* an accepted run gets a published result, a published result is not      *)
(* withdrawn but by deletion, and a run is billed at most once and only    *)
(* after its result was published. Deletion takes the bills along, and     *)
(* what it forgets is never accepted or published again; but a bill that   *)
(* was already being written when the account was deleted may still        *)
(* arrive.                                                                 *)
(***************************************************************************)
CONSTANTS Runs, Users, Owner

VARIABLES
  accepted, forgotten, published,
  billed,  \* runs with a bill, forgotten ones included
  owed     \* forgotten runs whose bill was being written at the deletion

vars == <<accepted, forgotten, published, billed, owed>>

Init == /\ accepted = {} /\ forgotten = {} /\ published = {}
        /\ billed = {} /\ owed = {}

Accept(r) ==
  /\ r \notin accepted \cup forgotten
  /\ accepted' = accepted \cup {r}
  /\ UNCHANGED <<forgotten, published, billed, owed>>

Publish(r) ==
  /\ r \in accepted \ published
  /\ published' = published \cup {r}
  /\ UNCHANGED <<accepted, forgotten, billed, owed>>

Bill(r) ==
  /\ r \in (published \cup owed) \ billed
  /\ billed' = billed \cup {r}
  /\ owed' = owed \ {r}
  /\ UNCHANGED <<accepted, forgotten, published>>

\* The bill of a forgotten run does not arrive: its writer failed or died.
Waive(r) ==
  /\ r \in owed
  /\ owed' = owed \ {r}
  /\ UNCHANGED <<accepted, forgotten, published, billed>>

\* Deletion ends the account's runs and its bills, late ones of an earlier
\* deletion included.  Only a run that was published and not yet billed can
\* still be owed a bill.
Forget(u) ==
  LET mine  == {r \in accepted : Owner[r] = u}
      bills == {r \in billed : Owner[r] = u}
  IN /\ mine \cup bills # {}
     /\ accepted'  = accepted \ mine
     /\ forgotten' = forgotten \cup mine
     /\ published' = published \ mine
     /\ billed'    = billed \ bills
     /\ \E late \in SUBSET ((mine \cap published) \ billed) : owed' = owed \cup late

Next == \/ \E r \in Runs : Accept(r) \/ Publish(r) \/ Bill(r) \/ Waive(r)
        \/ \E u \in Users : Forget(u)

Spec == Init /\ [][Next]_vars
=============================================================================
