---------------------------- MODULE SignIn_proofs ----------------------------
(***************************************************************************)
(* Who a request acts for, and what a batch of requests reports: the OAuth *)
(* server (OAuthTokens), the sign-in of browsers (LoginFlow) and the MCP   *)
(* endpoint that both lead to (McpDispatch).                               *)
(***************************************************************************)
EXTENDS OAuthTokens, LoginFlow, McpDispatch, TLAPS

---------------------------------------------------------------------------
(* OAuthTokens, for any accounts, hosts, numbers of grants and pairs, and any*)
(* lifetimes in the order the server configures.                           *)

(***************************************************************************)
(* Every variable keeps its type, codes and tokens belong to grants that   *)
(* were given, and so does the request in hand.                            *)
(***************************************************************************)
LEMMA OAuthTypeInit == OAuthInit => OAuthTypeOK
<1> USE OAuthConstants
<1>1. /\ (CHOOSE u \in Users: TRUE) \in Users
      /\ (CHOOSE c \in Clients: TRUE) \in Clients
  OBVIOUS
<1>2. QED
  BY <1>1 DEF OAuthInit, OAuthTypeOK, NoRequest, TokenRequest, GrantIds, PairIds, Ages,
              Grant, Code, Pair, Consented, Issued

\* Every request, expiry, deletion and crash keeps the types.
LEMMA OAuthTypeStep == OAuthTypeOK /\ [OAuthNext]_oauthVars => OAuthTypeOK'
<1> SUFFICES ASSUME OAuthTypeOK, [OAuthNext]_oauthVars PROVE OAuthTypeOK'
  OBVIOUS
<1>0. NoRequest \in TokenRequest /\ NoRequest.step = "idle"
  BY OAuthConstants DEF NoRequest, TokenRequest, GrantIds
<1>1. ASSUME NEW u \in Users, SessionSeen(u) \/ ForgetAccount(u) PROVE OAuthTypeOK'
  BY <1>1 DEF OAuthTypeOK, SessionSeen, ForgetAccount, Consented, Issued
<1>2. ASSUME NEW c \in Clients, Register(c) PROVE OAuthTypeOK'
  BY <1>2 DEF OAuthTypeOK, Register, Consented, Issued
<1>3. ASSUME NEW u \in Users, NEW c \in Clients, Authorize(u, c) PROVE OAuthTypeOK'
  BY <1>3 DEF OAuthTypeOK, Authorize, Consented, Issued
<1>4. ASSUME NEW u \in Users, NEW c \in Clients, Consent(u, c) PROVE OAuthTypeOK'
  <2>1. PICK g \in GrantIds \ Consented: CreateGrant(g, u, c) /\ oreq' = [step |-> "code", grant |-> g]
    BY <1>4 DEF Consent
  <2>2. grants' \in [GrantIds -> Grant]
    BY <2>1 DEF OAuthTypeOK, CreateGrant, Grant
  <2>3. Consented' = Consented \cup {g}
    BY <2>1 DEF OAuthTypeOK, CreateGrant, Consented, Grant
  <2>4. oreq' \in TokenRequest /\ oreq'.grant \in Consented'
    BY <2>1, <2>3 DEF TokenRequest
  <2>5. QED BY <1>4, <2>2, <2>3, <2>4 DEF OAuthTypeOK, Consent, Issued
<1>5. CASE ConsentCode
  <2>1. oreq.grant \in Consented /\ oreq.grant \in GrantIds
    BY <1>5 DEF ConsentCode, OAuthTypeOK, TokenRequest
  <2>2. [state |-> "open", age |-> 0] \in Code
    BY OAuthConstants DEF Code, Ages
  <2>3. codes' \in [GrantIds -> Code]
    BY <1>5, <2>2 DEF ConsentCode, CreateCode, OAuthTypeOK
  <2>4. \A g \in GrantIds: codes'[g].state /= "absent" => g \in Consented
    BY <1>5, <2>1 DEF ConsentCode, CreateCode, OAuthTypeOK
  <2>5. Consented' = Consented /\ Issued' = Issued /\ oreq' = NoRequest
    BY <1>5 DEF ConsentCode, Consented, Issued
  <2>6. QED BY <1>0, <1>5, <2>3, <2>4, <2>5 DEF ConsentCode, OAuthTypeOK
<1>6. ASSUME NEW g \in GrantIds, NEW c \in Clients, NEW proved \in BOOLEAN, ExchangeCode(g, c, proved)
      PROVE OAuthTypeOK'
  <2>1. g \in Consented
    BY <1>6 DEF ExchangeCode, CodeAccepted, OAuthTypeOK
  <2>2. codes' \in [GrantIds -> Code]
    BY <1>6 DEF ExchangeCode, OAuthTypeOK, Code
  <2>3. \A h \in GrantIds: codes'[h].state /= "absent" => h \in Consented
    BY <1>6, <2>1 DEF ExchangeCode, OAuthTypeOK
  <2>4. oreq' \in TokenRequest /\ oreq'.grant \in Consented
    BY <1>6, <2>1 DEF ExchangeCode, TokenRequest
  <2>5. Consented' = Consented /\ Issued' = Issued
    BY <1>6 DEF ExchangeCode, Consented, Issued
  <2>6. QED BY <1>6, <2>2, <2>3, <2>4, <2>5 DEF ExchangeCode, OAuthTypeOK
<1>7. CASE IssuePair
  <2>1. PICK p \in PairIds \ Issued: pairs' = [pairs EXCEPT ![p] = NewPair(oreq.grant, 0)]
    BY <1>7 DEF IssuePair
  <2>2. oreq.grant \in Consented /\ oreq.grant \in GrantIds /\ Consented' = Consented
    BY <1>7 DEF IssuePair, OAuthTypeOK, TokenRequest, Consented
  <2>3. NewPair(oreq.grant, 0) \in Pair
    BY <2>2, OAuthConstants DEF NewPair, Pair, Ages
  <2>4. pairs' \in [PairIds -> Pair] /\ Issued' = Issued \cup {p}
    BY <2>1, <2>3 DEF OAuthTypeOK, Issued, NewPair
  <2>5. \A q \in Issued': pairs'[q].grant \in Consented'
    BY <2>1, <2>2, <2>4 DEF OAuthTypeOK, NewPair, Issued
  <2>6. oreq' = NoRequest /\ UNCHANGED <<accounts, clients, grants, codes>>
    BY <1>7 DEF IssuePair
  <2>7. QED BY <1>0, <2>2, <2>4, <2>5, <2>6 DEF OAuthTypeOK
<1>8. ASSUME NEW p \in PairIds, NEW c \in Clients, Refresh(p, c) PROVE OAuthTypeOK'
  <2>1. PICK q \in PairIds \ Issued:
          pairs' = [pairs EXCEPT ![p].refresh = "revoked", ![q] = NewPair(pairs[p].grant, p)]
    BY <1>8 DEF Refresh, Rotated
  <2>2. /\ p \in Issued /\ q /= p /\ pairs[p].grant \in Consented /\ pairs[p].grant \in GrantIds
        /\ Consented' = Consented
    BY <1>8, <2>1 DEF Refresh, Consented, OAuthTypeOK
  <2>3. NewPair(pairs[p].grant, p) \in Pair
    BY <2>2, OAuthConstants DEF NewPair, Pair, Ages
  <2>4. [pairs[p] EXCEPT !.refresh = "revoked"] \in Pair
    BY DEF OAuthTypeOK, Pair
  <2>5. /\ pairs'[q] = NewPair(pairs[p].grant, p)
        /\ pairs'[p] = [pairs[p] EXCEPT !.refresh = "revoked"]
        /\ \A r \in PairIds \ {p, q}: pairs'[r] = pairs[r]
        /\ DOMAIN pairs' = PairIds /\ pairs' = [r \in PairIds |-> pairs'[r]]
    BY <2>1, <2>2 DEF OAuthTypeOK
  <2>6. pairs' \in [PairIds -> Pair]
    BY <2>3, <2>4, <2>5 DEF OAuthTypeOK
  <2>7. /\ pairs'[p].grant = pairs[p].grant /\ pairs'[p].access = pairs[p].access
        /\ pairs'[q].grant = pairs[p].grant /\ pairs'[q].access = "live"
    BY <2>5 DEF NewPair, OAuthTypeOK, Pair
  <2>8. Issued' = Issued \cup {q}
    BY <2>2, <2>5, <2>7 DEF Issued
  <2>9. \A r \in Issued': pairs'[r].grant \in Consented'
    BY <2>2, <2>5, <2>7, <2>8 DEF OAuthTypeOK, Issued
  <2>10. UNCHANGED <<accounts, clients, grants, codes, oreq>>
    BY <1>8 DEF Refresh
  <2>11. QED BY <2>2, <2>6, <2>9, <2>10 DEF OAuthTypeOK
<1>9. ASSUME NEW g \in GrantIds, NEW u \in Users, RevokeGrant(g, u) PROVE OAuthTypeOK'
  <2>1. /\ pairs' \in [PairIds -> Pair] /\ Issued' = Issued
        /\ \A p \in PairIds: pairs'[p].grant = pairs[p].grant
    BY <1>9 DEF RevokeGrant, RevokeRows, Issued, OAuthTypeOK, Pair
  <2>2. grants' \in [GrantIds -> Grant] /\ Consented' = Consented
    BY <1>9 DEF RevokeGrant, RevokeRows, Consented, OAuthTypeOK, Grant
  <2>3. Issued \subseteq PairIds
    BY DEF Issued
  <2>4. accounts' \subseteq Users /\ UNCHANGED <<clients, codes, oreq>>
    BY <1>9 DEF RevokeGrant, OAuthTypeOK
  <2>5. QED BY <2>1, <2>2, <2>3, <2>4 DEF OAuthTypeOK
<1>10. CASE OAuthCrash
  BY <1>0, <1>10 DEF OAuthTypeOK, OAuthCrash, Consented, Issued
<1>11. CASE OAuthTick
  <2>1. \A a \in Ages: Older(a) \in Ages
    BY OAuthConstants DEF Older, Ages
  <2>2. codes' \in [GrantIds -> Code] /\ \A g \in GrantIds: codes'[g].state = codes[g].state
    BY <1>11, <2>1 DEF OAuthTick, OAuthTypeOK, Code
  <2>3. /\ pairs' \in [PairIds -> Pair] /\ Issued' = Issued /\ Issued \subseteq PairIds
        /\ \A p \in PairIds: pairs'[p].grant = pairs[p].grant
    BY <1>11, <2>1 DEF OAuthTick, OAuthTypeOK, Issued, Pair
  <2>4. Consented' = Consented /\ UNCHANGED <<accounts, clients, grants, oreq>>
    BY <1>11 DEF OAuthTick, Consented
  <2>5. QED BY <2>2, <2>3, <2>4 DEF OAuthTypeOK
<1>12. CASE UNCHANGED oauthVars
  BY <1>12 DEF OAuthTypeOK, oauthVars, Consented, Issued
<1>13. QED
  BY <1>1, <1>2, <1>3, <1>4, <1>5, <1>6, <1>7, <1>8, <1>9, <1>10, <1>11, <1>12 DEF OAuthNext

\* Every variable keeps its type; a code, a token pair and the request in hand
\* always name a grant somebody consented to.
THEOREM OAuthTypeCorrect == OAuthSpec => []OAuthTypeOK
<1>1. QED BY OAuthTypeInit, OAuthTypeStep, PTL DEF OAuthSpec

(***************************************************************************)
(* The chain of rotations.  A pair begets another only by losing its       *)
(* refresh token, and the pair of the code comes only from a spent code.   *)
(***************************************************************************)
ParentsSpent ==
    \A p \in Issued: pairs[p].parent /= 0 =>
        /\ pairs[p].parent \in Issued
        /\ pairs[pairs[p].parent].refresh = "revoked"

CodesSpent ==
    /\ \A p \in Issued: codes[pairs[p].grant].state = "used"
    /\ oreq.step = "issue" =>
         /\ codes[oreq.grant].state = "used"
         /\ \A p \in Issued: pairs[p].grant /= oreq.grant
    /\ oreq.step = "code" => codes[oreq.grant].state = "absent"

ChainInv == OAuthTypeOK /\ ParentsSpent /\ CodesSpent /\ OneRefreshChain

\* Nothing is issued at first.
LEMMA ChainInit == OAuthInit => ChainInv
<1>1. OAuthInit => OAuthTypeOK
  BY OAuthTypeInit
<1>2. OAuthInit => ParentsSpent /\ CodesSpent /\ OneRefreshChain
  BY DEF OAuthInit, ParentsSpent, CodesSpent, OneRefreshChain, Issued, NoRequest
<1>3. QED BY <1>1, <1>2 DEF ChainInv

\* Steps that change neither a pair nor a code, and do not begin a request.
LEMMA ChainQuiet ==
    ASSUME ChainInv, OAuthTypeOK', UNCHANGED <<codes, pairs>>, oreq' = oreq \/ oreq' = NoRequest
    PROVE  ChainInv'
<1> USE DEF ChainInv, ParentsSpent, CodesSpent, OneRefreshChain, Issued, NoRequest
<1>1. CASE oreq' = oreq
  BY <1>1
<1>2. CASE oreq' = NoRequest
  BY <1>2
<1>3. QED BY <1>1, <1>2

\* No step opens a second chain.
LEMMA ChainStep == ChainInv /\ [OAuthNext]_oauthVars => ChainInv'
<1> SUFFICES ASSUME ChainInv, [OAuthNext]_oauthVars PROVE ChainInv'
  OBVIOUS
<1>0. OAuthTypeOK /\ OAuthTypeOK'
  BY OAuthTypeStep DEF ChainInv
<1>1. ASSUME NEW u \in Users, SessionSeen(u) \/ ForgetAccount(u) PROVE ChainInv'
  BY <1>0, <1>1, ChainQuiet DEF SessionSeen, ForgetAccount
<1>2. ASSUME NEW c \in Clients, Register(c) PROVE ChainInv'
  BY <1>0, <1>2, ChainQuiet DEF Register
<1>3. ASSUME NEW u \in Users, NEW c \in Clients, Authorize(u, c) PROVE ChainInv'
  BY <1>0, <1>3, ChainQuiet DEF Authorize
<1>4. ASSUME NEW u \in Users, NEW c \in Clients, Consent(u, c) PROVE ChainInv'
  <2>1. PICK g \in GrantIds \ Consented: oreq' = [step |-> "code", grant |-> g]
    BY <1>4 DEF Consent
  <2>2. codes[g].state = "absent"
    BY <1>0, <2>1 DEF OAuthTypeOK, Code
  <2>3. UNCHANGED <<codes, pairs>>
    BY <1>4 DEF Consent
  <2>4. QED
    BY <1>0, <2>1, <2>2, <2>3 DEF ChainInv, ParentsSpent, CodesSpent, OneRefreshChain, Issued
<1>5. CASE ConsentCode
  <2>1. oreq.grant \in GrantIds /\ \A p \in Issued: pairs[p].grant \in GrantIds /\ pairs[p].grant /= oreq.grant
    BY <1>0, <1>5 DEF ConsentCode, ChainInv, CodesSpent, OAuthTypeOK, TokenRequest, Issued, Pair
  <2>2. Issued' = Issued /\ pairs' = pairs /\ oreq' = NoRequest
    BY <1>5 DEF ConsentCode, Issued
  <2>3. \A p \in Issued: codes'[pairs[p].grant] = codes[pairs[p].grant]
    BY <1>0, <1>5, <2>1 DEF ConsentCode, CreateCode, OAuthTypeOK
  <2>4. CodesSpent'
    BY <2>2, <2>3 DEF ChainInv, CodesSpent, NoRequest
  <2>5. QED BY <1>0, <2>2, <2>4 DEF ChainInv, ParentsSpent, OneRefreshChain
<1>6. ASSUME NEW g \in GrantIds, NEW c \in Clients, NEW proved \in BOOLEAN, ExchangeCode(g, c, proved)
      PROVE ChainInv'
  <2>1. /\ Issued' = Issued /\ pairs' = pairs /\ oreq' = [step |-> "issue", grant |-> g]
        /\ codes[g].state = "open" /\ codes' = [codes EXCEPT ![g].state = "used"]
    BY <1>6 DEF ExchangeCode, CodeAccepted, Issued
  <2>2. \A p \in Issued: pairs[p].grant /= g
    BY <2>1 DEF ChainInv, CodesSpent
  <2>3. codes'[g].state = "used" /\ \A h \in GrantIds \ {g}: codes'[h] = codes[h]
    BY <1>0, <2>1 DEF OAuthTypeOK, Code
  <2>4. \A p \in Issued: pairs[p].grant \in GrantIds
    BY <1>0 DEF OAuthTypeOK, Issued, Pair
  <2>5. CodesSpent'
    BY <2>1, <2>2, <2>3, <2>4 DEF ChainInv, CodesSpent
  <2>6. QED BY <1>0, <2>1, <2>5 DEF ChainInv, ParentsSpent, OneRefreshChain
<1>7. CASE IssuePair
  <2>1. PICK p \in PairIds \ Issued: pairs' = [pairs EXCEPT ![p] = NewPair(oreq.grant, 0)]
    BY <1>7 DEF IssuePair
  <2>2. /\ pairs'[p] = NewPair(oreq.grant, 0) /\ Issued' = Issued \cup {p} /\ p \notin Issued
        /\ \A q \in Issued: q /= p /\ pairs'[q] = pairs[q]
    BY <1>0, <2>1 DEF OAuthTypeOK, Issued, NewPair
  <2>3. \A q \in Issued: pairs[q].grant /= oreq.grant
    BY <1>7 DEF IssuePair, ChainInv, CodesSpent
  <2>4. ParentsSpent'
    BY <2>2 DEF ChainInv, ParentsSpent, NewPair
  <2>5. CodesSpent'
    BY <1>7, <2>2 DEF IssuePair, ChainInv, CodesSpent, NewPair, NoRequest
  <2>6. OneRefreshChain'
    BY <2>2, <2>3 DEF ChainInv, OneRefreshChain, NewPair
  <2>7. QED BY <1>0, <2>4, <2>5, <2>6 DEF ChainInv
<1>8. ASSUME NEW p \in PairIds, NEW c \in Clients, Refresh(p, c) PROVE ChainInv'
  <2>1. PICK q \in PairIds \ Issued:
          pairs' = [pairs EXCEPT ![p].refresh = "revoked", ![q] = NewPair(pairs[p].grant, p)]
    BY <1>8 DEF Refresh, Rotated
  <2>2. p \in Issued /\ pairs[p].refresh = "live" /\ q \notin Issued /\ q /= p /\ p /= 0
    BY <1>8, <2>1 DEF Refresh, Rotatable, PairIds
  <2>3. /\ pairs'[q] = NewPair(pairs[p].grant, p)
        /\ pairs'[p] = [pairs[p] EXCEPT !.refresh = "revoked"]
        /\ \A r \in PairIds \ {p, q}: pairs'[r] = pairs[r]
    BY <1>0, <2>1, <2>2 DEF OAuthTypeOK
  <2>4. /\ pairs'[p].refresh = "revoked" /\ pairs'[p].grant = pairs[p].grant
        /\ pairs'[p].parent = pairs[p].parent /\ pairs'[p].access = pairs[p].access
    BY <1>0, <2>3 DEF OAuthTypeOK, Pair
  <2>13. pairs'[q].access = "live" /\ Issued \subseteq PairIds
    BY <2>3 DEF NewPair, Issued
  <2>5. /\ Issued' = Issued \cup {q}
        /\ \A r \in Issued: /\ pairs'[r].grant = pairs[r].grant /\ pairs'[r].parent = pairs[r].parent
                            /\ r /= p => pairs'[r].refresh = pairs[r].refresh
    BY <2>2, <2>3, <2>4, <2>13 DEF Issued
  <2>6. \A r \in Issued: pairs[r].parent /= p
    BY <2>2 DEF ChainInv, ParentsSpent
  <2>7. \A r \in Issued: pairs[r].grant = pairs[p].grant /\ r /= p => pairs[r].refresh /= "live"
    BY <2>2 DEF ChainInv, OneRefreshChain
  <2>8. pairs'[q].grant = pairs[p].grant /\ pairs'[q].parent = p
    BY <2>3 DEF NewPair
  <2>9. ParentsSpent'
    BY <2>2, <2>4, <2>5, <2>8 DEF ChainInv, ParentsSpent
  <2>10. CodesSpent'
    BY <1>8, <2>2, <2>5, <2>8 DEF Refresh, ChainInv, CodesSpent, NoRequest
  <2>11. OneRefreshChain'
    <3>1. ASSUME NEW r \in Issued, NEW s \in Issued, pairs[r].grant = pairs[s].grant, r /= s
          PROVE /\ pairs'[r].parent /= pairs'[s].parent
                /\ pairs'[r].refresh /= "live" \/ pairs'[s].refresh /= "live"
      BY <2>4, <2>5, <3>1 DEF ChainInv, OneRefreshChain
    <3>2. ASSUME NEW r \in Issued, pairs[r].grant = pairs[p].grant
          PROVE pairs'[r].parent /= p /\ pairs'[r].refresh /= "live"
      BY <2>4, <2>5, <2>6, <2>7, <3>2
    <3>3. QED BY <2>5, <2>8, <3>1, <3>2 DEF OneRefreshChain
  <2>12. QED BY <1>0, <2>9, <2>10, <2>11 DEF ChainInv
<1>9. ASSUME NEW g \in GrantIds, NEW u \in Users, RevokeGrant(g, u) PROVE ChainInv'
  <2>1. /\ Issued' = Issued
        /\ \A p \in PairIds: /\ pairs'[p].grant = pairs[p].grant /\ pairs'[p].parent = pairs[p].parent
                             /\ pairs'[p].refresh = pairs[p].refresh \/ pairs'[p].refresh = "revoked"
    <3>1. \A p \in PairIds:
            pairs'[p] = IF p \in Issued /\ pairs[p].grant = g
                        THEN [pairs[p] EXCEPT !.access = "revoked", !.refresh = "revoked"]
                        ELSE pairs[p]
      BY <1>9 DEF RevokeGrant, RevokeRows
    <3>2. \A p \in PairIds: pairs[p] \in Pair
      BY <1>0 DEF OAuthTypeOK
    <3>3. ASSUME NEW p \in PairIds, p \in Issued /\ pairs[p].grant = g
          PROVE /\ pairs'[p].grant = pairs[p].grant /\ pairs'[p].parent = pairs[p].parent
                /\ pairs'[p].refresh = "revoked" /\ pairs'[p].access = "revoked"
      <4>1. pairs'[p] = [pairs[p] EXCEPT !.access = "revoked", !.refresh = "revoked"]
        BY <3>1, <3>3
      <4>2. pairs[p] \in Pair
        BY <3>2
      <4>3. QED BY <4>1, <4>2 DEF Pair
    <3>4. ASSUME NEW p \in PairIds, ~(p \in Issued /\ pairs[p].grant = g)
          PROVE pairs'[p] = pairs[p]
      BY <3>1, <3>4
    <3>5. Issued' = Issued
      <4>1. ASSUME NEW p \in PairIds PROVE (p \in Issued) <=> (p \in Issued')
        <5>1. CASE p \in Issued /\ pairs[p].grant = g
          BY <3>3, <5>1 DEF Issued
        <5>2. CASE ~(p \in Issued /\ pairs[p].grant = g)
          BY <3>4, <5>2 DEF Issued
        <5>3. QED BY <5>1, <5>2
      <4>2. Issued \subseteq PairIds /\ Issued' \subseteq PairIds
        BY DEF Issued, PairIds
      <4>3. QED BY <4>1, <4>2
    <3>6. ASSUME NEW p \in PairIds
          PROVE /\ pairs'[p].grant = pairs[p].grant /\ pairs'[p].parent = pairs[p].parent
                /\ pairs'[p].refresh = pairs[p].refresh \/ pairs'[p].refresh = "revoked"
      <4>1. CASE p \in Issued /\ pairs[p].grant = g
        BY <3>3, <4>1
      <4>2. CASE ~(p \in Issued /\ pairs[p].grant = g)
        BY <3>4, <4>2
      <4>3. QED BY <4>1, <4>2
    <3>7. QED BY <3>5, <3>6
  <2>2. codes' = codes /\ oreq' = oreq /\ Issued \subseteq PairIds
    BY <1>9 DEF RevokeGrant, Issued
  <2>3. QED
    BY <1>0, <2>1, <2>2 DEF ChainInv, ParentsSpent, CodesSpent, OneRefreshChain
<1>10. CASE OAuthCrash
  BY <1>0, <1>10, ChainQuiet DEF OAuthCrash
<1>11. CASE OAuthTick
  <2>1. \A g \in GrantIds: codes'[g].state = codes[g].state
    BY <1>0, <1>11 DEF OAuthTick, OAuthTypeOK, Code
  <2>2. /\ Issued' = Issued
        /\ \A p \in PairIds: /\ pairs'[p].grant = pairs[p].grant /\ pairs'[p].parent = pairs[p].parent
                             /\ pairs'[p].refresh = pairs[p].refresh
    BY <1>0, <1>11 DEF OAuthTick, OAuthTypeOK, Pair, Issued
  <2>3. /\ oreq' = oreq /\ Issued \subseteq PairIds /\ oreq.grant \in GrantIds
        /\ \A p \in Issued: pairs[p].grant \in GrantIds
    BY <1>0, <1>11 DEF OAuthTick, Issued, OAuthTypeOK, TokenRequest, Pair
  <2>4. QED
    BY <1>0, <2>1, <2>2, <2>3 DEF ChainInv, ParentsSpent, CodesSpent, OneRefreshChain
<1>12. CASE UNCHANGED oauthVars
  BY <1>0, <1>12, ChainQuiet DEF oauthVars
<1>13. QED
  BY <1>1, <1>2, <1>3, <1>4, <1>5, <1>6, <1>7, <1>8, <1>9, <1>10, <1>11, <1>12 DEF OAuthNext

\* The pairs of one grant form a single chain of rotations, and at most one of
\* its refresh tokens is usable, whatever is repeated, revoked or lost.
THEOREM OneRefreshChainHolds == OAuthSpec => []OneRefreshChain
<1>1. ChainInv => OneRefreshChain
  BY DEF ChainInv
<1>2. QED BY <1>1, ChainInit, ChainStep, PTL DEF OAuthSpec

(***************************************************************************)
(* Revocation.                                                             *)
(***************************************************************************)
LEMMA RevokedStays ==
    ASSUME OAuthTypeOK, [OAuthNext]_oauthVars,
           NEW g \in GrantIds, grants[g].state = "revoked"
    PROVE  grants'[g].state = "revoked"
<1>1. ASSUME NEW u \in Users, NEW c \in Clients, Consent(u, c) PROVE grants'[g].state = "revoked"
  <2>1. PICK h \in GrantIds \ Consented: CreateGrant(h, u, c)
    BY <1>1 DEF Consent
  <2>2. g \in Consented
    BY DEF Consented
  <2>3. QED BY <2>1, <2>2 DEF CreateGrant, OAuthTypeOK
<1>2. ASSUME NEW h \in GrantIds, NEW u \in Users, RevokeGrant(h, u) PROVE grants'[g].state = "revoked"
  BY <1>2 DEF RevokeGrant, RevokeRows, OAuthTypeOK, Grant
<1>3. CASE UNCHANGED grants
  BY <1>3
<1>4. QED
  BY <1>1, <1>2, <1>3 DEF OAuthNext, SessionSeen, ForgetAccount, Register, Authorize, ConsentCode,
     ExchangeCode, IssuePair, Refresh, OAuthCrash, OAuthTick, oauthVars

\* Once a grant is revoked no call is served under it again, not even with tokens
\* issued afterwards.
THEOREM RevocationIsFinal == OAuthSpec => RevocationFinal
<1>1. ASSUME OAuthTypeOK, [OAuthNext]_oauthVars,
             NEW g \in GrantIds, grants[g].state = "revoked",
             NEW p \in PairIds, NEW u \in Users, pairs'[p].grant = g
      PROVE  ~ServedFor(p, u)'
  <2>1. grants'[g].state = "revoked"
    BY <1>1, RevokedStays
  <2>2. QED BY <1>1, <2>1 DEF ServedFor, Resolves, GrantOf
<1>2. OAuthTypeOK /\ [OAuthNext]_oauthVars =>
        [\A g \in GrantIds: grants[g].state = "revoked" =>
           \A p \in PairIds, u \in Users: pairs'[p].grant = g => ~ServedFor(p, u)']_oauthVars
  BY <1>1
<1>3. QED BY <1>2, OAuthTypeCorrect, PTL DEF OAuthSpec, RevocationFinal

---------------------------------------------------------------------------
(* LoginFlow, for any number of people, browsers and logins.               *)

Login == [step: {"absent", "begun", "confirmed", "redeemed"},
          browser: Browsers, user: People, age: LoginAges]
LoginSession == [held: BOOLEAN, user: People, age: LoginAges]

\* A callback is awaited in the browser its login was begun in: the state cookie
\* it was compared with may be gone by the time Google answers.
CallbacksAtHome == \A b \in Browsers, n \in LoginIds: <<b, n>> \in callbacks => logins[n].browser = b

\* A cookie names a login that was begun.
CookiesBegun == \A b \in Browsers: stateCookie[b] \in LoginIds => logins[stateCookie[b]].step /= "absent"

LoginInv == LoginTypeOK /\ LoginsStayApart /\ CallbacksAtHome /\ CookiesBegun

\* Before any login nobody is signed in and no cookie is set.
LEMMA LoginStarts == LoginInit => LoginInv
<1> SUFFICES ASSUME LoginInit PROVE LoginInv
  OBVIOUS
<1>1. (CHOOSE b \in Browsers: TRUE) \in Browsers /\ (CHOOSE u \in People: TRUE) \in People
  BY LoginConstants
<1>2. 0 \in LoginAges /\ 0 \in 0..MaxLogins /\ 0 \notin LoginIds
  BY LoginConstants DEF LoginAges, LoginIds
<1>3. LoginTypeOK
  BY <1>1, <1>2 DEF LoginInit, LoginTypeOK
<1>4. QED
  BY <1>2, <1>3 DEF LoginInit, LoginInv, LoginsStayApart, SessionsConfirmed, LoneLoginKeepsState,
     CallbacksAtHome, CookiesBegun

\* The types by name.
LEMMA LoginTypes ==
    LoginTypeOK <=> /\ logins \in [LoginIds -> Login]
                    /\ stateCookie \in [Browsers -> 0..MaxLogins]
                    /\ sessions \in [Browsers -> LoginSession]
                    /\ \A b \in Browsers: stateCookie[b] /= 0 => logins[stateCookie[b]].browser = b
                    /\ callbacks \subseteq {c \in Browsers \X LoginIds: logins[c[2]].step \in {"confirmed", "redeemed"}}
                    /\ known \subseteq People
BY DEF LoginTypeOK, Login, LoginSession

\* A cookie that is set names a login.
LEMMA CookieNames ==
    ASSUME LoginTypeOK, NEW b \in Browsers
    PROVE  stateCookie[b] = 0 \/ stateCookie[b] \in LoginIds
BY LoginConstants DEF LoginTypeOK, LoginIds

\* Logins that keep their browser, and a step other than absent, keep the callbacks
\* and the cookies that name them.
LEMMA NamesKept ==
    ASSUME LoginInv,
           \A n \in LoginIds: logins'[n].browser = logins[n].browser,
           \A n \in LoginIds: logins[n].step /= "absent" => logins'[n].step /= "absent",
           \A b \in Browsers: stateCookie'[b] \in {0, stateCookie[b]},
           callbacks' \subseteq callbacks
    PROVE  /\ \A b \in Browsers: stateCookie'[b] /= 0 => logins'[stateCookie'[b]].browser = b
           /\ CallbacksAtHome' /\ CookiesBegun'
<1>1. 0 \notin LoginIds
  BY LoginConstants DEF LoginIds
<1>2. ASSUME NEW b \in Browsers, stateCookie'[b] /= 0
      PROVE  /\ stateCookie[b] \in LoginIds /\ stateCookie'[b] = stateCookie[b]
             /\ logins'[stateCookie'[b]].browser = b
             /\ logins'[stateCookie'[b]].step /= "absent"
  <2>1. stateCookie'[b] = stateCookie[b] /\ stateCookie[b] \in LoginIds
    BY <1>2, CookieNames DEF LoginInv
  <2>2. logins[stateCookie[b]].browser = b /\ logins[stateCookie[b]].step /= "absent"
    BY <1>2, <2>1 DEF LoginInv, LoginTypeOK, CookiesBegun
  <2>3. QED BY <2>1, <2>2
<1>3. CallbacksAtHome'
  BY DEF LoginInv, CallbacksAtHome
<1>4. CookiesBegun'
  BY <1>1, <1>2 DEF CookiesBegun
<1>5. QED BY <1>2, <1>3, <1>4

\* Who was confirmed stays confirmed while redeemed logins are left alone.
LEMMA SessionsKept ==
    ASSUME SessionsConfirmed,
           \A b \in Browsers: sessions'[b].held => sessions[b].held /\ sessions'[b].user = sessions[b].user,
           \A n \in LoginIds: logins[n].step = "redeemed" =>
             /\ logins'[n].step = "redeemed"
             /\ logins'[n].browser = logins[n].browser /\ logins'[n].user = logins[n].user
    PROVE SessionsConfirmed'
<1> SUFFICES ASSUME NEW b \in Browsers, sessions'[b].held
             PROVE \E n \in LoginIds: /\ logins'[n].step = "redeemed" /\ logins'[n].browser = b
                                      /\ logins'[n].user = sessions'[b].user
  BY DEF SessionsConfirmed
<1>1. PICK n \in LoginIds: /\ logins[n].step = "redeemed" /\ logins[n].browser = b
                           /\ logins[n].user = sessions[b].user
  BY DEF SessionsConfirmed
<1>2. logins'[n].step = "redeemed" /\ logins'[n].browser = b /\ logins'[n].user = sessions'[b].user
  BY <1>1
<1>3. QED BY <1>2

\* So do the cookies of lone logins while no login begins.
LEMMA LoneKept ==
    ASSUME LoneLoginKeepsState, stateCookie' = stateCookie,
           \A n \in LoginIds: logins'[n].browser = logins[n].browser,
           \A n \in LoginIds: logins[n].step /= "absent" => logins'[n].step /= "absent",
           \A n \in LoginIds: logins'[n].step \in {"begun", "confirmed"} => logins[n].step \in {"begun", "confirmed"}
    PROVE LoneLoginKeepsState'
<1> SUFFICES ASSUME NEW m \in LoginIds, logins'[m].step \in {"begun", "confirmed"},
                    \A k \in LoginIds \ {m}: logins'[k].step /= "absent" => logins'[k].browser /= logins'[m].browser
             PROVE stateCookie'[logins'[m].browser] = m
  BY DEF LoneLoginKeepsState
<1>1. logins[m].step \in {"begun", "confirmed"} /\ logins'[m].browser = logins[m].browser
  OBVIOUS
<1>2. \A k \in LoginIds \ {m}: logins[k].step /= "absent" => logins[k].browser /= logins[m].browser
  OBVIOUS
<1>3. stateCookie[logins[m].browser] = m
  BY <1>1, <1>2 DEF LoneLoginKeepsState
<1>4. QED BY <1>1, <1>3

\* No step of a browser, of Google, or of the clock breaks a promise.
LEMMA LoginStep == LoginInv /\ [LoginNext]_loginVars => LoginInv'
<1> SUFFICES ASSUME LoginInv, [LoginNext]_loginVars PROVE LoginInv'
  OBVIOUS
<1>0. /\ logins \in [LoginIds -> Login] /\ stateCookie \in [Browsers -> 0..MaxLogins]
      /\ sessions \in [Browsers -> LoginSession] /\ known \subseteq People
      /\ callbacks \subseteq {c \in Browsers \X LoginIds: logins[c[2]].step \in {"confirmed", "redeemed"}}
  BY LoginTypes DEF LoginInv
<1>00. 0 \in LoginAges /\ 0 \in 0..MaxLogins /\ 0 \notin LoginIds /\ LoginIds \subseteq 0..MaxLogins
  BY LoginConstants DEF LoginAges, LoginIds
<1>1. ASSUME NEW b \in Browsers, BeginLogin(b) PROVE LoginInv'
  <2>1. PICK n \in LoginIds:
          /\ logins[n].step = "absent"
          /\ logins' = [logins EXCEPT ![n].step = "begun", ![n].browser = b]
          /\ stateCookie' = [stateCookie EXCEPT ![b] = n]
    BY <1>1 DEF BeginLogin
  <2>2. sessions' = sessions /\ callbacks' = callbacks /\ known' = known
    BY <1>1 DEF BeginLogin
  <2>3. /\ \A m \in LoginIds \ {n}: logins'[m] = logins[m]
        /\ \A c \in Browsers \ {b}: stateCookie'[c] = stateCookie[c]
    BY <1>0, <2>1
  <2>4. /\ logins'[n] = [logins[n] EXCEPT !.step = "begun", !.browser = b]
        /\ logins'[n].step = "begun" /\ logins'[n].browser = b /\ logins'[n] \in Login
        /\ stateCookie'[b] = n
    <3>1. logins'[n] = [logins[n] EXCEPT !.step = "begun", !.browser = b] /\ logins[n] \in Login
      BY <1>0, <2>1
    <3>2. stateCookie'[b] = n
      BY <1>0, <2>1
    <3>3. QED BY <3>1, <3>2 DEF Login
  <2>5. \A c \in Browsers: stateCookie[c] /= n
    BY <2>1 DEF LoginInv, CookiesBegun
  <2>6. \A c \in Browsers: <<c, n>> \notin callbacks
    BY <1>0, <2>1
  <2>7. LoginTypeOK'
    <3>1. logins' \in [LoginIds -> Login]
      BY <1>0, <2>1, <2>3, <2>4
    <3>2. stateCookie' \in [Browsers -> 0..MaxLogins]
      BY <1>0, <1>00, <2>1
    <3>3. \A c \in Browsers: stateCookie'[c] /= 0 => logins'[stateCookie'[c]].browser = c
      <4>1. ASSUME NEW c \in Browsers \ {b}, stateCookie'[c] /= 0
            PROVE logins'[stateCookie'[c]].browser = c
        <5>1. stateCookie'[c] = stateCookie[c] /\ stateCookie[c] \in LoginIds /\ stateCookie[c] /= n
          BY <2>3, <2>5, <4>1, CookieNames DEF LoginInv
        <5>2. logins[stateCookie[c]].browser = c
          BY <4>1, <5>1 DEF LoginInv, LoginTypeOK
        <5>3. QED BY <2>3, <5>1, <5>2
      <4>2. QED BY <2>4, <4>1
    <3>4. callbacks' \subseteq {c \in Browsers \X LoginIds: logins'[c[2]].step \in {"confirmed", "redeemed"}}
      <4>1. ASSUME NEW c \in callbacks PROVE c \in Browsers \X LoginIds /\ logins'[c[2]].step \in {"confirmed", "redeemed"}
        <5>1. c \in Browsers \X LoginIds /\ logins[c[2]].step \in {"confirmed", "redeemed"}
          BY <1>0, <4>1
        <5>2. c[2] \in LoginIds \ {n}
          BY <2>1, <5>1
        <5>3. QED BY <2>3, <5>1, <5>2
      <4>2. QED BY <2>2, <4>1
    <3>5. QED BY <1>0, <2>2, <3>1, <3>2, <3>3, <3>4 DEF LoginTypeOK, Login, LoginSession
  <2>8. CallbacksAtHome' /\ CookiesBegun'
    <3>1. CallbacksAtHome'
      BY <2>2, <2>3, <2>6 DEF LoginInv, CallbacksAtHome
    <3>2. ASSUME NEW c \in Browsers \ {b}, stateCookie'[c] \in LoginIds
          PROVE logins'[stateCookie'[c]].step /= "absent"
      <4>1. stateCookie'[c] = stateCookie[c] /\ stateCookie[c] /= n
        BY <2>3, <2>5
      <4>2. QED BY <2>3, <3>2, <4>1 DEF LoginInv, CookiesBegun
    <3>3. CookiesBegun'
      BY <2>4, <3>2 DEF CookiesBegun
    <3>4. QED BY <3>1, <3>3
  <2>9. SessionsConfirmed'
    <3>1. \A m \in LoginIds: logins[m].step = "redeemed" => logins'[m] = logins[m]
      BY <2>1, <2>3
    <3>2. QED BY <2>2, <3>1, SessionsKept DEF LoginInv, LoginsStayApart
  <2>10. LoneLoginKeepsState'
    <3> SUFFICES ASSUME NEW m \in LoginIds, logins'[m].step \in {"begun", "confirmed"},
                        \A k \in LoginIds \ {m}: logins'[k].step /= "absent" => logins'[k].browser /= logins'[m].browser
                 PROVE stateCookie'[logins'[m].browser] = m
      BY DEF LoneLoginKeepsState
    <3>1. CASE m = n
      BY <2>4, <3>1
    <3>2. CASE m /= n
      <4>1. logins'[m] = logins[m] /\ logins[m] \in Login /\ n \in LoginIds \ {m}
        BY <1>0, <2>3, <3>2
      <4>2. logins'[n].browser /= logins'[m].browser
        BY <2>4, <4>1
      <4>3. logins[m].browser \in Browsers \ {b}
        BY <2>4, <4>1, <4>2 DEF Login
      <4>4. \A k \in LoginIds \ {m}: logins[k].step /= "absent" => logins[k].browser /= logins[m].browser
        BY <2>1, <2>3, <4>1
      <4>5. stateCookie[logins[m].browser] = m
        BY <4>1, <4>4 DEF LoginInv, LoginsStayApart, LoneLoginKeepsState
      <4>6. QED BY <2>3, <4>1, <4>3, <4>5
    <3>3. QED BY <3>1, <3>2
  <2>11. QED BY <2>7, <2>8, <2>9, <2>10 DEF LoginInv, LoginsStayApart
<1>2. ASSUME NEW b \in Browsers, Logout(b) PROVE LoginInv'
  <2>1. /\ logins' = logins /\ stateCookie' = stateCookie /\ callbacks' = callbacks /\ known' = known
        /\ sessions' = [sessions EXCEPT ![b].held = FALSE, ![b].age = 0]
    BY <1>2 DEF Logout, LoggedOut
  <2>2. /\ \A c \in Browsers \ {b}: sessions'[c] = sessions[c]
        /\ sessions'[b].held = FALSE /\ sessions'[b] \in LoginSession
        /\ sessions' = [c \in Browsers |-> sessions'[c]]
    <3>1. sessions'[b] = [sessions[b] EXCEPT !.held = FALSE, !.age = 0] /\ sessions[b] \in LoginSession
      BY <1>0, <2>1
    <3>2. sessions'[b].held = FALSE /\ sessions'[b] \in LoginSession
      BY <1>00, <3>1 DEF LoginSession
    <3>3. QED BY <1>0, <2>1, <3>2
  <2>3. sessions' \in [Browsers -> LoginSession]
    BY <1>0, <2>2
  <2>4. LoginTypeOK' /\ CallbacksAtHome' /\ CookiesBegun'
    BY <2>1, <2>3 DEF LoginInv, LoginTypeOK, CallbacksAtHome, CookiesBegun, LoginSession
  <2>5. SessionsConfirmed'
    <3>1. \A c \in Browsers: sessions'[c].held => sessions[c].held /\ sessions'[c].user = sessions[c].user
      BY <2>2
    <3>2. QED BY <2>1, <3>1, SessionsKept DEF LoginInv, LoginsStayApart
  <2>6. LoneLoginKeepsState'
    BY <2>1, LoneKept DEF LoginInv, LoginsStayApart
  <2>7. QED BY <2>4, <2>5, <2>6 DEF LoginInv, LoginsStayApart
<1>3. ASSUME UNCHANGED <<logins, stateCookie, sessions>>, callbacks' = callbacks, known' \subseteq People
      PROVE LoginInv'
  BY <1>3 DEF LoginInv, LoginTypeOK, LoginsStayApart, SessionsConfirmed, LoneLoginKeepsState, CallbacksAtHome, CookiesBegun
<1>4. ASSUME NEW b \in Browsers, Serve(b) \/ \E u \in People: DeleteKnown(b, u) PROVE LoginInv'
  <2>1. sessions[b].user \in People
    BY <1>0 DEF LoginSession
  <2>2. known' \subseteq People
    BY <1>0, <1>4, <2>1 DEF Serve, DeleteKnown
  <2>3. UNCHANGED <<logins, stateCookie, sessions, callbacks>>
    BY <1>4 DEF Serve, DeleteKnown
  <2>4. QED BY <1>3, <2>2, <2>3
<1>5. ASSUME NEW n \in LoginIds, NEW u \in People, Confirm(n, u) PROVE LoginInv'
  <2>1. /\ logins[n].step = "begun"
        /\ logins' = [logins EXCEPT ![n].step = "confirmed", ![n].user = u]
        /\ UNCHANGED <<stateCookie, sessions, callbacks, known>>
    BY <1>5 DEF Confirm
  <2>2. /\ \A m \in LoginIds \ {n}: logins'[m] = logins[m]
        /\ logins'[n].step = "confirmed" /\ logins'[n].browser = logins[n].browser /\ logins'[n] \in Login
    <3>1. logins'[n] = [logins[n] EXCEPT !.step = "confirmed", !.user = u] /\ logins[n] \in Login
      BY <1>0, <2>1
    <3>2. logins'[n].step = "confirmed" /\ logins'[n].browser = logins[n].browser /\ logins'[n] \in Login
      BY <3>1 DEF Login
    <3>3. QED BY <1>0, <2>1, <3>2
  <2>3. logins' \in [LoginIds -> Login]
    BY <1>0, <2>1, <2>2
  <2>4. /\ \A m \in LoginIds: logins'[m].browser = logins[m].browser
        /\ \A m \in LoginIds: logins[m].step /= "absent" => logins'[m].step /= "absent"
        /\ \A m \in LoginIds: logins'[m].step \in {"begun", "confirmed"} => logins[m].step \in {"begun", "confirmed"}
        /\ \A m \in LoginIds: logins[m].step = "redeemed" => logins'[m] = logins[m]
        /\ \A m \in LoginIds: logins[m].step \in {"confirmed", "redeemed"} => logins'[m].step \in {"confirmed", "redeemed"}
    BY <2>1, <2>2
  <2>5. /\ \A c \in Browsers: stateCookie'[c] /= 0 => logins'[stateCookie'[c]].browser = c
        /\ CallbacksAtHome' /\ CookiesBegun'
    BY <2>1, <2>4, NamesKept
  <2>6. LoginTypeOK'
    BY <1>0, <2>1, <2>3, <2>4, <2>5 DEF LoginTypeOK, Login, LoginSession
  <2>7. SessionsConfirmed'
    BY <2>1, <2>4, SessionsKept DEF LoginInv, LoginsStayApart
  <2>8. LoneLoginKeepsState'
    BY <2>1, <2>4, LoneKept DEF LoginInv, LoginsStayApart
  <2>9. QED BY <2>5, <2>6, <2>7, <2>8 DEF LoginInv, LoginsStayApart
<1>6. ASSUME NEW b \in Browsers, NEW n \in LoginIds, OpenCallback(b, n) PROVE LoginInv'
  <2>1. /\ UNCHANGED <<logins, stateCookie, sessions, known>>
        /\ callbacks' = callbacks \cup {<<b, n>>}
        /\ logins[n].step \in {"confirmed", "redeemed"}
    BY <1>6 DEF OpenCallback
  <2>2. logins[n].browser = b
    BY <1>00, <1>6 DEF OpenCallback, StateMatches, LoginInv, LoginTypeOK
  <2>3. LoginTypeOK'
    BY <1>0, <2>1 DEF LoginInv, LoginTypeOK
  <2>4. CallbacksAtHome'
    BY <2>1, <2>2 DEF LoginInv, CallbacksAtHome
  <2>5. LoginsStayApart' /\ CookiesBegun'
    BY <2>1 DEF LoginInv, LoginsStayApart, SessionsConfirmed, LoneLoginKeepsState, CookiesBegun
  <2>6. QED BY <2>3, <2>4, <2>5 DEF LoginInv
<1>7. ASSUME NEW b \in Browsers, NEW n \in LoginIds, FinishCallback(b, n) PROVE LoginInv'
  <2>1. /\ <<b, n>> \in callbacks /\ logins[n].step = "confirmed"
        /\ logins' = [logins EXCEPT ![n].step = "redeemed"]
        /\ sessions' = [sessions EXCEPT ![b] = [held |-> TRUE, user |-> logins[n].user, age |-> 0]]
        /\ stateCookie' = [stateCookie EXCEPT ![b] = 0]
        /\ callbacks' = callbacks \ {<<b, n>>} /\ known' = known
    BY <1>7 DEF FinishCallback
  <2>2. logins[n].browser = b
    BY <2>1 DEF LoginInv, CallbacksAtHome
  <2>3. /\ \A m \in LoginIds \ {n}: logins'[m] = logins[m]
        /\ \A c \in Browsers \ {b}: stateCookie'[c] = stateCookie[c] /\ sessions'[c] = sessions[c]
        /\ stateCookie'[b] = 0
        /\ sessions'[b] = [held |-> TRUE, user |-> logins[n].user, age |-> 0]
    BY <1>0, <2>1
  <2>4. /\ logins'[n].step = "redeemed" /\ logins'[n].browser = b
        /\ logins'[n].user = logins[n].user /\ logins'[n] \in Login
    <3>1. logins'[n] = [logins[n] EXCEPT !.step = "redeemed"] /\ logins[n] \in Login
      BY <1>0, <2>1
    <3>2. QED BY <2>2, <3>1 DEF Login
  <2>5. sessions'[b].user = logins[n].user /\ sessions'[b] \in LoginSession
    <3>1. logins[n].user \in People
      BY <1>0 DEF Login
    <3>2. QED BY <1>00, <2>3, <3>1 DEF LoginSession
  <2>6. /\ logins' \in [LoginIds -> Login] /\ sessions' \in [Browsers -> LoginSession]
        /\ stateCookie' \in [Browsers -> 0..MaxLogins]
    BY <1>0, <1>00, <2>1, <2>3, <2>4, <2>5
  <2>7. /\ \A m \in LoginIds: logins'[m].browser = logins[m].browser
        /\ \A m \in LoginIds: logins[m].step /= "absent" => logins'[m].step /= "absent"
        /\ \A m \in LoginIds: logins[m].step \in {"confirmed", "redeemed"} => logins'[m].step \in {"confirmed", "redeemed"}
        /\ \A c \in Browsers: stateCookie'[c] \in {0, stateCookie[c]}
        /\ callbacks' \subseteq callbacks
    BY <2>1, <2>2, <2>3, <2>4
  <2>8. /\ \A c \in Browsers: stateCookie'[c] /= 0 => logins'[stateCookie'[c]].browser = c
        /\ CallbacksAtHome' /\ CookiesBegun'
    BY <2>7, NamesKept
  <2>9. LoginTypeOK'
    BY <1>0, <2>1, <2>6, <2>7, <2>8 DEF LoginTypeOK, Login, LoginSession
  <2>10. SessionsConfirmed'
    <3>1. ASSUME NEW c \in Browsers \ {b}, sessions'[c].held
          PROVE \E m \in LoginIds: /\ logins'[m].step = "redeemed" /\ logins'[m].browser = c
                                   /\ logins'[m].user = sessions'[c].user
      <4>1. PICK m \in LoginIds: /\ logins[m].step = "redeemed" /\ logins[m].browser = c
                                 /\ logins[m].user = sessions[c].user
        BY <2>3, <3>1 DEF LoginInv, LoginsStayApart, SessionsConfirmed
      <4>2. m /= n
        BY <2>1, <4>1
      <4>3. QED BY <2>3, <4>1, <4>2
    <3>2. logins'[n].step = "redeemed" /\ logins'[n].browser = b /\ logins'[n].user = sessions'[b].user
      BY <2>4, <2>5
    <3>3. QED BY <3>1, <3>2 DEF SessionsConfirmed
  <2>11. LoneLoginKeepsState'
    <3> SUFFICES ASSUME NEW m \in LoginIds, logins'[m].step \in {"begun", "confirmed"},
                        \A k \in LoginIds \ {m}: logins'[k].step /= "absent" => logins'[k].browser /= logins'[m].browser
                 PROVE stateCookie'[logins'[m].browser] = m
      BY DEF LoneLoginKeepsState
    <3>1. m /= n /\ logins'[m] = logins[m] /\ logins[m] \in Login
      BY <1>0, <2>3, <2>4
    <3>2. logins[m].browser \in Browsers \ {b}
      BY <2>4, <3>1 DEF Login
    <3>3. \A k \in LoginIds \ {m}: logins[k].step /= "absent" => logins[k].browser /= logins[m].browser
      BY <2>7, <3>1
    <3>4. stateCookie[logins[m].browser] = m
      BY <3>1, <3>3 DEF LoginInv, LoginsStayApart, LoneLoginKeepsState
    <3>5. QED BY <2>3, <3>1, <3>2, <3>4
  <2>12. QED BY <2>8, <2>9, <2>10, <2>11 DEF LoginInv, LoginsStayApart
<1>8. ASSUME NEW b \in Browsers, NEW n \in LoginIds, FailCallback(b, n) PROVE LoginInv'
  <2>1. /\ <<b, n>> \in callbacks /\ callbacks' \subseteq callbacks
        /\ logins' = logins \/ logins' = [logins EXCEPT ![n].step = "redeemed"]
        /\ UNCHANGED <<stateCookie, sessions, known>>
    BY <1>8 DEF FailCallback
  <2>2. logins[n].step \in {"confirmed", "redeemed"}
    BY <1>0, <2>1
  <2>3. ASSUME NEW m \in LoginIds
        PROVE  /\ logins'[m] \in Login /\ logins'[m].browser = logins[m].browser /\ logins'[m].user = logins[m].user
               /\ logins'[m].step = logins[m].step \/ (logins'[m].step = "redeemed" /\ m = n)
    <3>1. logins[m] \in Login
      BY <1>0
    <3>2. logins'[m] = logins[m] \/ (logins'[m] = [logins[m] EXCEPT !.step = "redeemed"] /\ m = n)
      BY <1>0, <2>1
    <3>3. CASE logins'[m] = logins[m]
      BY <3>1, <3>3
    <3>4. CASE logins'[m] = [logins[m] EXCEPT !.step = "redeemed"] /\ m = n
      BY <3>1, <3>4 DEF Login
    <3>5. QED BY <3>2, <3>3, <3>4
  <2>4. logins' \in [LoginIds -> Login]
    BY <1>0, <2>1, <2>3
  <2>5. /\ \A m \in LoginIds: logins[m].step /= "absent" => logins'[m].step /= "absent"
        /\ \A m \in LoginIds: logins[m].step = "redeemed" => logins'[m].step = "redeemed"
        /\ \A m \in LoginIds: logins'[m].step \in {"begun", "confirmed"} => logins[m].step \in {"begun", "confirmed"}
        /\ \A m \in LoginIds: logins[m].step \in {"confirmed", "redeemed"} => logins'[m].step \in {"confirmed", "redeemed"}
    BY <2>3
  <2>6. /\ \A c \in Browsers: stateCookie'[c] /= 0 => logins'[stateCookie'[c]].browser = c
        /\ CallbacksAtHome' /\ CookiesBegun'
    BY <2>1, <2>3, <2>5, NamesKept
  <2>7. LoginTypeOK'
    BY <1>0, <2>1, <2>4, <2>5, <2>6 DEF LoginTypeOK, Login, LoginSession
  <2>8. SessionsConfirmed'
    BY <2>1, <2>3, <2>5, SessionsKept DEF LoginInv, LoginsStayApart
  <2>9. LoneLoginKeepsState'
    BY <2>1, <2>3, <2>5, LoneKept DEF LoginInv, LoginsStayApart
  <2>10. QED BY <2>6, <2>7, <2>8, <2>9 DEF LoginInv, LoginsStayApart
<1>9. CASE LoginTick
  <2>1. ASSUME NEW m \in LoginIds
        PROVE  /\ logins'[m] \in Login /\ logins'[m].browser = logins[m].browser
               /\ logins'[m].user = logins[m].user /\ logins'[m].step = logins[m].step
    <3>1. logins[m] \in Login
      BY <1>0
    <3>2. logins'[m] = IF logins[m].step = "absent" \/ logins[m].age > StateTtl THEN logins[m]
                       ELSE [logins[m] EXCEPT !.age = @ + 1]
      BY <1>9 DEF LoginTick
    <3>3. CASE logins'[m] = logins[m]
      BY <3>1, <3>3
    <3>4. CASE ~(logins[m].age > StateTtl) /\ logins'[m] = [logins[m] EXCEPT !.age = @ + 1]
      <4>1. logins[m].age + 1 \in LoginAges
        BY <3>1, <3>4, LoginConstants DEF Login, LoginAges
      <4>2. QED BY <3>1, <3>4, <4>1 DEF Login
    <3>5. QED BY <3>2, <3>3, <3>4
  <2>2. ASSUME NEW c \in Browsers
        PROVE  sessions'[c] \in LoginSession /\ sessions'[c].held = sessions[c].held /\ sessions'[c].user = sessions[c].user
    <3>1. sessions[c] \in LoginSession
      BY <1>0
    <3>2. sessions'[c] = IF sessions[c].held /\ sessions[c].age <= SessionTtl
                         THEN [sessions[c] EXCEPT !.age = @ + 1] ELSE sessions[c]
      BY <1>9 DEF LoginTick
    <3>3. CASE sessions'[c] = sessions[c]
      BY <3>1, <3>3
    <3>4. CASE sessions[c].age <= SessionTtl /\ sessions'[c] = [sessions[c] EXCEPT !.age = @ + 1]
      <4>1. sessions[c].age + 1 \in LoginAges
        BY <3>1, <3>4, LoginConstants DEF LoginSession, LoginAges
      <4>2. QED BY <3>1, <3>4, <4>1 DEF LoginSession
    <3>5. QED BY <3>2, <3>3, <3>4
  <2>3. UNCHANGED <<stateCookie, callbacks, known>>
    BY <1>9 DEF LoginTick
  <2>4. logins' \in [LoginIds -> Login] /\ sessions' \in [Browsers -> LoginSession]
    BY <1>9, <2>1, <2>2 DEF LoginTick
  <2>5. /\ \A c \in Browsers: stateCookie'[c] /= 0 => logins'[stateCookie'[c]].browser = c
        /\ CallbacksAtHome' /\ CookiesBegun'
    BY <2>1, <2>3, NamesKept
  <2>6. LoginTypeOK'
    BY <1>0, <2>1, <2>3, <2>4, <2>5 DEF LoginTypeOK, Login, LoginSession
  <2>7. SessionsConfirmed'
    BY <2>1, <2>2, SessionsKept DEF LoginInv, LoginsStayApart
  <2>8. LoneLoginKeepsState'
    BY <2>1, <2>3, LoneKept DEF LoginInv, LoginsStayApart
  <2>9. QED BY <2>5, <2>6, <2>7, <2>8 DEF LoginInv, LoginsStayApart
<1>10. CASE UNCHANGED loginVars
  BY <1>0, <1>3, <1>10 DEF loginVars
<1>11. QED BY <1>1, <1>2, <1>4, <1>5, <1>6, <1>7, <1>8, <1>9, <1>10 DEF LoginNext

\* Whoever is signed in was confirmed for a login begun in that browser, and a lone
\* login keeps its state cookie, wherever callback URLs are opened.
THEOREM LoginsApart == LoginSpec => []LoginsStayApart
<1>1. LoginInv => LoginsStayApart
  BY DEF LoginInv
<1>2. QED BY <1>1, LoginStarts, LoginStep, PTL DEF LoginSpec

---------------------------------------------------------------------------
(* McpDispatch: whatever a batch holds and however its items end, for every*)
(* bound on its length.                                                    *)

\* While the batch is worked off, exactly the items already taken may have had an
\* effect, and each of them has its reply at once.
Reported(rows, done) == \A i \in done: \E n \in DOMAIN rows: rows[n].at = i

DispatchInv ==
    /\ batch \in Seq(Item)
    /\ taken \in 0..Len(batch)
    /\ replies \in Seq([at: Nat, kind: {"result", "error"}])
    /\ outcome /= "error500" => Reported(replies, effects)
    /\ outcome = "error500" => ended = "escapes"

\* A request before its first item.
LEMMA DispatchStarts == McpInit => DispatchInv
<1> SUFFICES ASSUME McpInit PROVE DispatchInv
  OBVIOUS
<1>1. PICK n \in 0..MaxBatch: batch \in [1..n -> Item]
  BY DEF McpInit, BoundedSeq, SeqOf
<1>2. batch \in Seq(Item)
  <2>1. n \in Nat
    BY McpConstants
  <2>2. QED BY <1>1, <2>1
<1>3. QED BY <1>2 DEF McpInit, DispatchInv, Reported

\* A reply at the end leaves the earlier ones where they are.
LEMMA AnswerKeeps ==
    ASSUME NEW Kind, NEW rows \in Seq(Kind), NEW row \in Kind, NEW done, Reported(rows, done)
    PROVE  /\ Append(rows, row) \in Seq(Kind)
           /\ Reported(Append(rows, row), done \cup {row.at})
<1>1. /\ Append(rows, row) \in Seq(Kind)
      /\ DOMAIN Append(rows, row) = 1..(Len(rows) + 1) /\ DOMAIN rows = 1..Len(rows)
      /\ \A n \in DOMAIN rows: Append(rows, row)[n] = rows[n]
      /\ Append(rows, row)[Len(rows) + 1] = row /\ Len(rows) \in Nat
  OBVIOUS
<1>2. ASSUME NEW i \in done PROVE \E n \in DOMAIN Append(rows, row): Append(rows, row)[n].at = i
  <2>1. PICK n \in DOMAIN rows: rows[n].at = i
    BY DEF Reported
  <2>2. n \in DOMAIN Append(rows, row) /\ Append(rows, row)[n].at = i
    BY <1>1, <2>1
  <2>3. QED BY <2>2
<1>3. \E n \in DOMAIN Append(rows, row): Append(rows, row)[n].at = row.at
  <2>1. Len(rows) + 1 \in DOMAIN Append(rows, row)
    BY <1>1
  <2>2. QED BY <1>1, <2>1
<1>4. QED BY <1>1, <1>2, <1>3 DEF Reported

\* What is neither a result nor caught escapes.
LEMMA ItemEnds ==
    ASSUME NEW kind, NEW e \in Executions(kind), e.end /= "result", ~Caught(e)
    PROVE  e.end = "escapes"
BY DEF Executions, Caught, Ends, EndKinds

\* An item is taken together with its effect and its reply.
LEMMA DispatchTakes == DispatchInv /\ TakeItem => DispatchInv'
<1> SUFFICES ASSUME DispatchInv, TakeItem PROVE DispatchInv'
  OBVIOUS
<1> DEFINE ReplyRows == [at: Nat, kind: {"result", "error"}]
<1>1. /\ outcome = "open" /\ taken < Len(batch) /\ taken' = taken + 1 /\ batch' = batch
      /\ batch \in Seq(Item) /\ taken \in Nat /\ Len(batch) \in Nat
      /\ replies \in Seq(ReplyRows) /\ Reported(replies, effects)
  BY DEF TakeItem, DispatchInv
<1>2. taken' \in 1..Len(batch') /\ taken' \in 0..Len(batch') /\ batch'[taken'] = NextItem
  BY <1>1 DEF NextItem
<1>3. ASSUME NEW kind \in {"result", "error"}, NEW done \in {effects, effects \cup {taken + 1}}
      PROVE  Answered(kind) \in Seq(ReplyRows) /\ Reported(Answered(kind), done)
  <2>1. [at |-> taken + 1, kind |-> kind] \in ReplyRows
    BY <1>1
  <2> DEFINE row == [at |-> taken + 1, kind |-> kind]
  <2>2. row.at = taken + 1
    OBVIOUS
  <2>3. Append(replies, row) \in Seq(ReplyRows) /\ Reported(Append(replies, row), effects \cup {row.at})
    <3> HIDE DEF row, ReplyRows
    <3>1. QED BY <1>1, <2>1, AnswerKeeps DEF row
  <2>4. Reported(Answered(kind), effects \cup {taken + 1}) /\ Answered(kind) \in Seq(ReplyRows)
    BY <2>2, <2>3 DEF Answered
  <2>5. QED BY <2>4 DEF Reported
<1>4. CASE ~Executed(NextItem)
  <2>1. /\ replies' = IF NextItem.kind = "malformed" THEN Answered("error") ELSE replies
        /\ effects' = effects /\ outcome' = outcome
    BY <1>4 DEF TakeItem
  <2>2. replies' \in Seq(ReplyRows) /\ Reported(replies', effects')
    BY <1>1, <1>3, <2>1
  <2>3. QED BY <1>1, <1>2, <2>1, <2>2 DEF DispatchInv
<1>5. CASE Executed(NextItem)
  <2>1. PICK e \in Executions(NextItem.kind):
          /\ ended' = e.end
          /\ effects' = IF e.wrote THEN effects \cup {taken + 1} ELSE effects
          /\ replies' = IF NextItem.notification THEN replies
                        ELSE IF Caught(e) THEN Answered("error")
                        ELSE IF e.end = "result" THEN Answered("result") ELSE replies
          /\ outcome' = IF e.end = "result" \/ Caught(e) THEN "open" ELSE "error500"
    BY <1>5 DEF TakeItem
  <2>2. ~NextItem.notification
    BY <1>5 DEF Executed
  <2>3. CASE e.end = "result" \/ Caught(e)
    <3>1. outcome' = "open" /\ \E kind \in {"result", "error"}: replies' = Answered(kind)
      BY <2>1, <2>2, <2>3
    <3>2. replies' \in Seq(ReplyRows) /\ Reported(replies', effects')
      BY <1>3, <2>1, <3>1
    <3>3. QED BY <1>1, <1>2, <3>1, <3>2 DEF DispatchInv
  <2>4. CASE ~(e.end = "result" \/ Caught(e))
    <3>1. outcome' = "error500" /\ replies' = replies
      BY <2>1, <2>2, <2>4
    <3>2. ended' = "escapes"
      BY <2>1, <2>4, ItemEnds
    <3>3. QED BY <1>1, <1>2, <3>1, <3>2 DEF DispatchInv
  <2>5. QED BY <2>3, <2>4
<1>6. QED BY <1>4, <1>5

\* What the items of a batch wrote is answered, unless the reply was lost to an
\* exception that is neither a refusal nor a rejected argument.
THEOREM EffectsAlwaysReported == McpSpec => []EffectsReported
<1>1. DispatchInv => EffectsReported
  BY DEF DispatchInv, EffectsReported, Reported
<1>2. DispatchInv /\ [McpNext]_mcpVars => DispatchInv'
  <2>1. DispatchInv /\ SendReplies => DispatchInv'
    BY DEF DispatchInv, SendReplies, Reported
  <2>2. DispatchInv /\ UNCHANGED mcpVars => DispatchInv'
    BY DEF DispatchInv, mcpVars, Reported
  <2>3. QED BY <2>1, <2>2, DispatchTakes DEF McpNext
<1>3. QED BY <1>1, <1>2, DispatchStarts, PTL DEF McpSpec
==============================================================================
