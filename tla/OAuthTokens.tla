---------------------------- MODULE OAuthTokens ----------------------------
(***************************************************************************)
(* The OAuth server that lets MCP hosts act for an account                 *)
(* (src/oauth/authorization_server.py, the oauth_* tables of               *)
(* src/jobs/store.py, the bearer check of src/mcp/http.py).  Every handler *)
(* is a coroutine that awaits only for the request body, so the store      *)
(* calls of one request are never interleaved with those of another; the   *)
(* process may still die between two of them, which is why a request that  *)
(* makes several keeps its place in oreq.                                  *)
(***************************************************************************)
EXTENDS Naturals, FiniteSets

CONSTANTS
    Users,      \* accounts
    Clients,    \* MCP hosts
    MaxGrants,  \* bound on consents
    MaxPairs,   \* bound on issued token pairs
    CodeTtl, AccessTtl, RefreshTtl  \* lifetimes in ticks

ASSUME OAuthConstants ==
    /\ Users /= {} /\ Clients /= {}
    /\ MaxGrants \in Nat \ {0} /\ MaxPairs \in Nat
    /\ CodeTtl \in Nat /\ AccessTtl \in Nat /\ RefreshTtl \in Nat
    /\ CodeTtl < AccessTtl /\ AccessTtl < RefreshTtl

VARIABLES
    accounts,  \* the rows of users
    clients,   \* the rows of oauth_clients
    grants,    \* oauth_grants: grant id -> row
    codes,     \* oauth_auth_codes, by the grant the code was issued for
    pairs,     \* oauth_tokens: the access and the refresh token issued together
    oreq       \* the request that is between two store calls

oauthVars == <<accounts, clients, grants, codes, pairs, oreq>>

GrantIds == 1..MaxGrants
PairIds == 1..MaxPairs
Ages == 0..RefreshTtl

\* A row that does not exist yet is "absent".
Grant == [state: {"absent", "live", "revoked"}, user: Users, client: Clients]
Code == [state: {"absent", "open", "used"}, age: Ages]
\* parent is the pair whose refresh token was rotated, 0 for the pair of the code.
Pair == [grant: GrantIds, parent: PairIds \cup {0}, age: Ages,
         access: {"absent", "live", "revoked"}, refresh: {"absent", "live", "revoked"}]
\* The request: between the grant and its code, or a spent code and its tokens.
TokenRequest == [step: {"idle", "code", "issue"}, grant: GrantIds]
NoRequest == [step |-> "idle", grant |-> 1]

Consented == {g \in GrantIds: grants[g].state /= "absent"}
Issued == {p \in PairIds: pairs[p].access /= "absent"}
GrantOf(p) == grants[pairs[p].grant]

OAuthTypeOK ==
    /\ accounts \subseteq Users
    /\ clients \subseteq Clients
    /\ grants \in [GrantIds -> Grant]
    /\ codes \in [GrantIds -> Code]
    /\ pairs \in [PairIds -> Pair]
    /\ oreq \in TokenRequest
    /\ \A g \in GrantIds: codes[g].state /= "absent" => g \in Consented
    /\ \A p \in Issued: pairs[p].grant \in Consented
    /\ oreq.step /= "idle" => oreq.grant \in Consented

OAuthInit ==
    /\ accounts = {} /\ clients = {}
    /\ grants = [g \in GrantIds |-> [state |-> "absent", user |-> CHOOSE u \in Users: TRUE,
                                     client |-> CHOOSE c \in Clients: TRUE]]
    /\ codes = [g \in GrantIds |-> [state |-> "absent", age |-> 0]]
    /\ pairs = [p \in PairIds |-> [grant |-> 1, parent |-> 0, age |-> 0,
                                   access |-> "absent", refresh |-> "absent"]]
    /\ oreq = NoRequest

(***************************************************************************)
(* The store.                                                              *)
(***************************************************************************)
\* Variant: the insert is not committed.
CreateGrant_Uncommitted(g, u, c) == UNCHANGED grants

CreateGrant(g, u, c) ==
    grants' = [grants EXCEPT ![g] = [state |-> "live", user |-> u, client |-> c]]

CreateCode(g) ==
    codes' = [codes EXCEPT ![g] = [state |-> "open", age |-> 0]]

\* Variant: consumed_at is not looked at.
CodeAccepted_Reusable(g, c, proved) ==
    codes[g].state /= "absent" /\ grants[g].client = c /\ codes[g].age < CodeTtl /\ proved

\* A code is consumed once, by its client, before it expires.  proved stands
\* for the redirect URI and the PKCE verifier being those of the consent.
CodeAccepted(g, c, proved) ==
    /\ codes[g].state = "open"
    /\ grants[g].client = c
    /\ codes[g].age < CodeTtl
    /\ proved

NewPair(g, parent) ==
    [grant |-> g, parent |-> parent, age |-> 0,
     access |-> "live", refresh |-> "live"]

\* Variant: the grant is not joined.
Resolves_TokenOnly(p) == pairs[p].access = "live" /\ pairs[p].age < AccessTtl

\* resolve_oauth_access_token: the token and the grant it joins are unrevoked.
Resolves(p) ==
    /\ pairs[p].access = "live"
    /\ GrantOf(p).state = "live"
    /\ pairs[p].age < AccessTtl

Rotatable(p, c) ==
    /\ GrantOf(p).client = c
    /\ pairs[p].refresh = "live"
    /\ GrantOf(p).state = "live"
    /\ pairs[p].age < RefreshTtl

\* Variant: the old refresh token is not revoked.
Rotated_Kept(p, q) == [pairs EXCEPT ![q] = NewPair(pairs[p].grant, p)]

\* rotate_oauth_refresh_token spends the refresh token of p.  The access token
\* issued with it stays usable until it expires.
Rotated(p, q) ==
    [pairs EXCEPT ![p].refresh = "revoked", ![q] = NewPair(pairs[p].grant, p)]

\* revoke_oauth_grant: the grant and every token of it, in one transaction.
RevokeRows(g) ==
    /\ grants' = [grants EXCEPT ![g].state = "revoked"]
    /\ pairs' = [p \in PairIds |->
         IF p \in Issued /\ pairs[p].grant = g
         THEN [pairs[p] EXCEPT !.access = "revoked", !.refresh = "revoked"]
         ELSE pairs[p]]

(***************************************************************************)
(* The requests.                                                           *)
(***************************************************************************)
\* Any request with a session upserts its account.
SessionSeen(u) ==
    /\ oreq = NoRequest
    /\ accounts' = accounts \cup {u}
    /\ UNCHANGED <<clients, grants, codes, pairs, oreq>>

\* An administrator deletes the account; the oauth_* tables are not touched.
ForgetAccount(u) ==
    /\ oreq = NoRequest /\ u \in accounts
    /\ accounts' = accounts \ {u}
    /\ UNCHANGED <<clients, grants, codes, pairs, oreq>>

Register(c) ==
    /\ oreq = NoRequest
    /\ clients' = clients \cup {c}
    /\ UNCHANGED <<accounts, grants, codes, pairs, oreq>>

\* The consent page of a registered client, shown to a session; it writes the
\* account row only.
Authorize(u, c) ==
    /\ oreq = NoRequest /\ c \in clients
    /\ accounts' = accounts \cup {u}
    /\ UNCHANGED <<clients, grants, codes, pairs, oreq>>

Consent(u, c) ==
    /\ oreq = NoRequest /\ c \in clients
    /\ \E g \in GrantIds \ Consented:
         /\ \A h \in GrantIds \ Consented: g <= h
         /\ CreateGrant(g, u, c)
         /\ oreq' = [step |-> "code", grant |-> g]
    /\ accounts' = accounts \cup {u}
    /\ UNCHANGED <<clients, codes, pairs>>

ConsentCode ==
    /\ oreq.step = "code"
    /\ CreateCode(oreq.grant)
    /\ oreq' = NoRequest
    /\ UNCHANGED <<accounts, clients, grants, pairs>>

ExchangeCode(g, c, proved) ==
    /\ oreq = NoRequest /\ c \in clients
    /\ CodeAccepted(g, c, proved)
    /\ codes' = [codes EXCEPT ![g].state = "used"]
    /\ oreq' = [step |-> "issue", grant |-> g]
    /\ UNCHANGED <<accounts, clients, grants, pairs>>

IssuePair ==
    /\ oreq.step = "issue"
    /\ \E p \in PairIds \ Issued:
         /\ \A q \in PairIds \ Issued: p <= q
         /\ pairs' = [pairs EXCEPT ![p] = NewPair(oreq.grant, 0)]
    /\ oreq' = NoRequest
    /\ UNCHANGED <<accounts, clients, grants, codes>>

Refresh(p, c) ==
    /\ oreq = NoRequest /\ p \in Issued
    /\ Rotatable(p, c)
    /\ \E q \in PairIds \ Issued:
         /\ \A r \in PairIds \ Issued: q <= r
         /\ pairs' = Rotated(p, q)
    /\ UNCHANGED <<accounts, clients, grants, codes, oreq>>

\* Revoking twice is allowed; only the owner's grants are found.
RevokeGrant(g, u) ==
    /\ oreq = NoRequest /\ g \in Consented /\ grants[g].user = u
    /\ RevokeRows(g)
    /\ accounts' = accounts \cup {u}
    /\ UNCHANGED <<clients, codes, oreq>>

\* The API dies: the rest of the request in hand is lost.
OAuthCrash ==
    /\ oreq /= NoRequest
    /\ oreq' = NoRequest
    /\ UNCHANGED <<accounts, clients, grants, codes, pairs>>

Older(age) == IF age < RefreshTtl THEN age + 1 ELSE age

OAuthTick ==
    /\ codes' = [g \in GrantIds |->
         IF codes[g].state = "open" THEN [codes[g] EXCEPT !.age = Older(@)] ELSE codes[g]]
    /\ pairs' = [p \in PairIds |->
         IF p \in Issued THEN [pairs[p] EXCEPT !.age = Older(@)] ELSE pairs[p]]
    /\ UNCHANGED <<accounts, clients, grants, oreq>>

OAuthNext ==
    \/ \E u \in Users: SessionSeen(u) \/ ForgetAccount(u)
    \/ \E c \in Clients: Register(c)
    \/ \E u \in Users, c \in Clients: Authorize(u, c) \/ Consent(u, c)
    \/ ConsentCode
    \/ \E g \in GrantIds, c \in Clients, proved \in BOOLEAN: ExchangeCode(g, c, proved)
    \/ IssuePair
    \/ \E p \in PairIds, c \in Clients: Refresh(p, c)
    \/ \E g \in GrantIds, u \in Users: RevokeGrant(g, u)
    \/ OAuthCrash
    \/ OAuthTick

OAuthSpec == OAuthInit /\ [][OAuthNext]_oauthVars

\* A bearer call of /mcp is served for this account.
ServedFor(p, u) == Resolves(p) /\ GrantOf(p).user = u /\ u \in accounts

(***************************************************************************)
(* Properties.                                                             *)
(***************************************************************************)
\* Whatever is repeated, refreshed, revoked or lost in a crash, the pairs of one
\* grant form a single chain of rotations (authorization_server.py:330-390): one
\* pair comes from the code, every refresh token begets at most one pair, and at
\* most one refresh token of a grant is still usable.
OneRefreshChain ==
    \A p, q \in Issued: pairs[p].grant = pairs[q].grant /\ p /= q =>
        /\ pairs[p].parent /= pairs[q].parent
        /\ pairs[p].refresh /= "live" \/ pairs[q].refresh /= "live"

\* Once a grant is revoked no MCP call is served under it again, not even with
\* tokens issued afterwards to a host whose code was still open
\* (store.py:3009-3031, 3173-3208).
RevocationFinal ==
    [][\A g \in GrantIds: grants[g].state = "revoked" =>
         \A p \in PairIds, u \in Users: pairs'[p].grant = g => ~ServedFor(p, u)']_oauthVars
=============================================================================
