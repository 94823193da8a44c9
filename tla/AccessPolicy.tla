---------------------------- MODULE AccessPolicy ----------------------------
(***************************************************************************)
(* The script that keeps the Cloudflare Access application of the demo     *)
(* (scripts/configure_cloudflare_access.py).  Each request may fail before *)
(* or after Cloudflare carried it out, and the script ends at the first    *)
(* failure; the operator runs it again, with the same or another           *)
(* allowlist.  Objects are found by name, the first of the list counts.    *)
(***************************************************************************)
EXTENDS Naturals, Sequences

CONSTANTS
    Allowlists,     \* sets of emails the operator may pass
    PathSets,       \* sets of protected paths the operator may pass
    MaxObjects      \* bound on the objects of one name

ASSUME AccessConstants == MaxObjects \in Nat \ {0}

VARIABLES
    accessApps,  \* applications of the name, in the order Cloudflare lists them
    providers,   \* Google identity providers of the name
    script,      \* the run of the script: what it does, what it has found
    outcomeOf    \* the last run that ended: its mode, its configuration, its exit code

accessVars == <<accessApps, providers, script, outcomeOf>>

App(paths, policies) == [paths |-> paths, policies |-> policies]
Idle == [step |-> "idle", paths |-> {}, allow |-> {}, found |-> FALSE, app |-> 0]
ScriptSteps == {"idle", "listApps", "putApp", "listPolicies", "putPolicy",
                "listForDelete", "deleteApp", "listProviders", "putProvider"}

AccessTypeOK ==
    /\ Len(accessApps) <= MaxObjects /\ providers \in 0..MaxObjects
    /\ \A i \in DOMAIN accessApps:
         /\ accessApps[i].paths \in PathSets
         /\ \A j \in DOMAIN accessApps[i].policies: accessApps[i].policies[j] \in Allowlists \ {{}}
    /\ script.step \in ScriptSteps
    /\ script.step = "idle" <=> script = Idle

AccessInit ==
    /\ accessApps = <<>> /\ providers = 0
    /\ script = Idle
    /\ outcomeOf = [mode |-> "none", paths |-> {}, allow |-> {}]

\* Variant: an empty allowlist is no error.
StartScript_AnyList(step, paths, allow) ==
    /\ script = Idle
    /\ script' = [step |-> step, paths |-> paths, allow |-> allow, found |-> FALSE, app |-> 0]
    /\ outcomeOf' = [mode |-> "running", paths |-> paths, allow |-> allow]
    /\ UNCHANGED <<accessApps, providers>>

\* Exit code 2 without a request: no allowlist, no token, not exactly one scope; a
\* dry run prints the plan.  Neither reaches Cloudflare.
StartScript(step, paths, allow) ==
    /\ script = Idle
    /\ step = "listApps" => allow /= {}
    /\ script' = [step |-> step, paths |-> paths, allow |-> allow, found |-> FALSE, app |-> 0]
    /\ outcomeOf' = [mode |-> "running", paths |-> paths, allow |-> allow]
    /\ UNCHANGED <<accessApps, providers>>

Ends(mode) ==
    /\ script' = Idle
    /\ outcomeOf' = [outcomeOf EXCEPT !.mode = mode]

Continues(step, found) ==
    /\ script' = [script EXCEPT !.step = step, !.found = found]
    /\ UNCHANGED outcomeOf

\* An answer arrives, or the request is lost, refused or times out: exit code 1.
Replies(step, found) == Continues(step, found) \/ Ends("failed")

\* Variant: the name is never found.
FindNamed_Never(named) == FALSE

FindNamed(named) == named > 0

ListApps ==
    /\ script.step = "listApps"
    /\ Replies("putApp", FindNamed(Len(accessApps)))
    /\ UNCHANGED <<accessApps, providers>>

\* The update of the application does not touch its policies.
PutApp ==
    /\ script.step = "putApp"
    /\ \/ /\ IF script.found
             THEN accessApps' = [accessApps EXCEPT ![1].paths = script.paths]
             ELSE /\ Len(accessApps) < MaxObjects
                  /\ accessApps' = Append(accessApps, App(script.paths, <<>>))
          /\ \/ /\ script' = [script EXCEPT !.step = "listPolicies",
                              !.app = IF script.found THEN 1 ELSE Len(accessApps')]
                /\ UNCHANGED outcomeOf
             \/ Ends("failed")
       \/ Ends("failed") /\ UNCHANGED accessApps
    /\ UNCHANGED providers

ListPolicies ==
    /\ script.step = "listPolicies"
    /\ Replies("putPolicy", FindNamed(Len(accessApps[script.app].policies)))
    /\ UNCHANGED <<accessApps, providers>>

\* Variant: the emails are added to those the policy has.
PolicyBody_Merged(old) == old \cup script.allow

\* include is the whole list.
PolicyBody(old) == script.allow

\* The first policy of the name is replaced, or the application's first one made.
PoliciesPut(old) ==
    IF script.found THEN [old EXCEPT ![1] = PolicyBody(old[1])]
    ELSE Append(old, PolicyBody({}))

PutPolicy ==
    /\ script.step = "putPolicy"
    /\ \/ /\ accessApps' = [accessApps EXCEPT ![script.app].policies = PoliciesPut(@)]
          /\ Ends("applied") \/ Ends("failed")
       \/ Ends("failed") /\ UNCHANGED accessApps
    /\ UNCHANGED providers

ListForDelete ==
    /\ script.step = "listForDelete"
    /\ IF accessApps = <<>> THEN Ends("disabled") \/ Ends("failed")
       ELSE Replies("deleteApp", TRUE)
    /\ UNCHANGED <<accessApps, providers>>

DeleteApp ==
    /\ script.step = "deleteApp"
    /\ \/ accessApps' = Tail(accessApps) /\ (Ends("disabled") \/ Ends("failed"))
       \/ Ends("failed") /\ UNCHANGED accessApps
    /\ UNCHANGED providers

ListProviders ==
    /\ script.step = "listProviders"
    /\ Replies("putProvider", FindNamed(providers))
    /\ UNCHANGED <<accessApps, providers>>

PutProvider ==
    /\ script.step = "putProvider"
    /\ \/ /\ providers' = IF script.found THEN providers ELSE providers + 1
          /\ Ends("provided") \/ Ends("failed")
       \/ Ends("failed") /\ UNCHANGED providers
    /\ UNCHANGED accessApps

AccessNext ==
    \/ \E paths \in PathSets, allow \in Allowlists, step \in {"listApps", "listForDelete", "listProviders"}:
         StartScript(step, paths, allow)
    \/ ListApps \/ PutApp \/ ListPolicies \/ PutPolicy
    \/ ListForDelete \/ DeleteApp
    \/ ListProviders \/ PutProvider

AccessSpec == AccessInit /\ [][AccessNext]_accessVars

(***************************************************************************)
(* Properties.                                                             *)
(***************************************************************************)
\* However many runs died after a request was carried out and before its answer
\* came, running the script again finds what is there: there is never a second
\* application, policy or provider of the name
\* (configure_cloudflare_access.py:301-351).  One operator at a time is assumed.
OneOfEachName ==
    /\ Len(accessApps) <= 1 /\ providers <= 1
    /\ \A i \in DOMAIN accessApps: Len(accessApps[i].policies) <= 1

\* After a run that reports ok, exactly the emails and paths of that run hold, those
\* of earlier and of aborted runs do not; after a removal that reports ok nothing
\* is left of them (configure_cloudflare_access.py:323-370).
LastRunHolds ==
    /\ outcomeOf.mode = "applied" => accessApps = <<App(outcomeOf.paths, <<outcomeOf.allow>>)>>
    /\ outcomeOf.mode = "disabled" => accessApps = <<>>

\* The script can be repeated until it reports ok, wherever it died before: one
\* object of each name, and the rules of the last run that reported ok.
AccessSettles == OneOfEachName /\ LastRunHolds
=============================================================================
