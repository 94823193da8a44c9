----------------------------- MODULE LoginFlow -----------------------------
(***************************************************************************)
(* Signing in with Google and the checks every request passes              *)
(* (src/api/auth.py, the middlewares of src/api/main.py and                *)
(* src/api/security.py, the guards of src/api/routes.py).  The server      *)
(* keeps nothing about a login: the state and the session are signed       *)
(* cookies of the browser, and the callback awaits Google twice between    *)
(* checking the one and setting the other.                                 *)
(***************************************************************************)
EXTENDS Naturals

CONSTANTS
    People,     \* Google accounts; admins are a subset
    Admins,     \* KORESIM_ADMIN_EMAILS
    Browsers,
    MaxLogins,  \* bound on the logins begun
    StateTtl,   \* ticks: STATE_MAX_AGE_SECONDS
    SessionTtl  \* ticks: SESSION_MAX_AGE_SECONDS

ASSUME LoginConstants ==
    /\ People /= {} /\ Admins \subseteq People /\ Browsers /= {}
    /\ MaxLogins \in Nat \ {0}
    /\ StateTtl \in Nat /\ SessionTtl \in Nat /\ StateTtl < SessionTtl

VARIABLES
    logins,       \* what became of each login
    stateCookie,  \* each browser's state cookie: a login, or 0
    sessions,     \* each browser's session cookie
    callbacks,    \* callbacks that passed the state check and await Google
    known         \* rows of users

loginVars == <<logins, stateCookie, sessions, callbacks, known>>

LoginIds == 1..MaxLogins
LoginAges == 0..(SessionTtl + 1)

LoginTypeOK ==
    /\ logins \in [LoginIds -> [step: {"absent", "begun", "confirmed", "redeemed"},
                                browser: Browsers, user: People, age: LoginAges]]
    /\ stateCookie \in [Browsers -> 0..MaxLogins]
    /\ sessions \in [Browsers -> [held: BOOLEAN, user: People, age: LoginAges]]
    /\ \A b \in Browsers: stateCookie[b] /= 0 => logins[stateCookie[b]].browser = b
    /\ callbacks \subseteq {c \in Browsers \X LoginIds: logins[c[2]].step \in {"confirmed", "redeemed"}}
    /\ known \subseteq People

LoginInit ==
    /\ logins = [n \in LoginIds |-> [step |-> "absent", age |-> 0,
                     browser |-> CHOOSE b \in Browsers: TRUE, user |-> CHOOSE u \in People: TRUE]]
    /\ stateCookie = [b \in Browsers |-> 0]
    /\ sessions = [b \in Browsers |-> [held |-> FALSE, user |-> CHOOSE u \in People: TRUE, age |-> 0]]
    /\ callbacks = {} /\ known = {}

\* Variant: the nonce of an earlier login is used again.
BeginLogin_SameNonce(b) ==
    /\ \E n \in LoginIds:
         /\ logins' = [logins EXCEPT ![n].step = "begun", ![n].browser = b]
         /\ stateCookie' = [stateCookie EXCEPT ![b] = n]
    /\ UNCHANGED <<sessions, callbacks, known>>

\* A new login replaces the state cookie of an unfinished one.
BeginLogin(b) ==
    /\ \E n \in LoginIds:
         /\ logins[n].step = "absent"
         /\ \A m \in LoginIds: m < n => logins[m].step /= "absent"
         /\ logins' = [logins EXCEPT ![n].step = "begun", ![n].browser = b]
         /\ stateCookie' = [stateCookie EXCEPT ![b] = n]
    /\ UNCHANGED <<sessions, callbacks, known>>

\* Google: somebody chooses an account for the login.
Confirm(n, u) ==
    /\ logins[n].step = "begun"
    /\ logins' = [logins EXCEPT ![n].step = "confirmed", ![n].user = u]
    /\ UNCHANGED <<stateCookie, sessions, callbacks, known>>

\* Variant: the cookie is not compared.
StateMatches_Signed(b, n) == logins[n].age <= StateTtl

\* The state in the URL is the one in the cookie, signed and not expired.
StateMatches(b, n) == stateCookie[b] = n /\ logins[n].age <= StateTtl

\* The callback URL is opened, in whatever browser and as often as one likes.
OpenCallback(b, n) ==
    /\ logins[n].step \in {"confirmed", "redeemed"}
    /\ StateMatches(b, n)
    /\ callbacks' = callbacks \cup {<<b, n>>}
    /\ UNCHANGED <<logins, stateCookie, sessions, known>>

\* Google redeems a code once; the response sets the session and deletes the
\* state cookie, whichever login that is by now.
FinishCallback(b, n) ==
    /\ <<b, n>> \in callbacks /\ logins[n].step = "confirmed"
    /\ logins' = [logins EXCEPT ![n].step = "redeemed"]
    /\ sessions' = [sessions EXCEPT ![b] = [held |-> TRUE, user |-> logins[n].user, age |-> 0]]
    /\ stateCookie' = [stateCookie EXCEPT ![b] = 0]
    /\ callbacks' = callbacks \ {<<b, n>>}
    /\ UNCHANGED known

\* The exchange or the profile request fails, or the API dies.
FailCallback(b, n) ==
    /\ <<b, n>> \in callbacks
    /\ callbacks' = callbacks \ {<<b, n>>}
    /\ \/ UNCHANGED logins
       \/ logins' = [logins EXCEPT ![n].step = "redeemed"]
    /\ UNCHANGED <<stateCookie, sessions, known>>

\* Variant: every cookie is deleted.
LoggedOut_AllCookies(b) ==
    /\ sessions' = [sessions EXCEPT ![b].held = FALSE, ![b].age = 0]
    /\ stateCookie' = [stateCookie EXCEPT ![b] = 0]

LoggedOut(b) ==
    /\ sessions' = [sessions EXCEPT ![b].held = FALSE, ![b].age = 0]
    /\ UNCHANGED stateCookie

Logout(b) ==
    /\ LoggedOut(b)
    /\ UNCHANGED <<logins, callbacks, known>>

\* require_app_session, admin_client_network_allowed, mutating_request_blocked and
\* _require_admin_user, in the order in which they stop a request.
RequestKind == [public: BOOLEAN, admin: BOOLEAN, private: BOOLEAN, mutating: BOOLEAN, token: BOOLEAN]

HasSession(b) == sessions[b].held /\ sessions[b].age <= SessionTtl

Passes(b, q) ==
    /\ q.public \/ HasSession(b)
    /\ q.admin => q.private
    /\ q.mutating => q.token
    /\ q.admin => HasSession(b) /\ sessions[b].user \in Admins

\* Every request that passes with a session writes the row of its user.
Serve(b) ==
    /\ \E q \in RequestKind: Passes(b, q)
    /\ known' = IF HasSession(b) THEN known \cup {sessions[b].user} ELSE known
    /\ UNCHANGED <<logins, stateCookie, sessions, callbacks>>

\* admin_delete_user: another administrator's request, never one's own account.
DeleteKnown(b, u) ==
    /\ u \in known
    /\ \E q \in RequestKind: q.admin /\ q.mutating /\ Passes(b, q)
    /\ sessions[b].user /= u
    /\ known' = (known \cup {sessions[b].user}) \ {u}
    /\ UNCHANGED <<logins, stateCookie, sessions, callbacks>>

LoginTick ==
    /\ logins' = [n \in LoginIds |->
         IF logins[n].step = "absent" \/ logins[n].age > StateTtl THEN logins[n]
         ELSE [logins[n] EXCEPT !.age = @ + 1]]
    /\ sessions' = [b \in Browsers |->
         IF sessions[b].held /\ sessions[b].age <= SessionTtl
         THEN [sessions[b] EXCEPT !.age = @ + 1] ELSE sessions[b]]
    /\ UNCHANGED <<stateCookie, callbacks, known>>

LoginNext ==
    \/ \E b \in Browsers: BeginLogin(b) \/ Logout(b) \/ Serve(b)
    \/ \E n \in LoginIds, u \in People: Confirm(n, u)
    \/ \E b \in Browsers, n \in LoginIds:
         OpenCallback(b, n) \/ FinishCallback(b, n) \/ FailCallback(b, n)
    \/ \E b \in Browsers, u \in People: DeleteKnown(b, u)
    \/ LoginTick

LoginSpec == LoginInit /\ [][LoginNext]_loginVars

(***************************************************************************)
(* Properties.                                                             *)
(***************************************************************************)
\* A browser is signed in as somebody only after that person was confirmed for a
\* login begun in that browser, wherever callback URLs are opened (auth.py:174-203).
SessionsConfirmed ==
    \A b \in Browsers: sessions[b].held =>
        \E n \in LoginIds: /\ logins[n].step = "redeemed" /\ logins[n].browser = b
                           /\ logins[n].user = sessions[b].user

\* A login that is the only one of its browser keeps its state cookie until it is
\* redeemed or its callback failed, whatever else the browser does.  With two at
\* once the first answer deletes the cookie of the second (auth.py:201-203).
LoneLoginKeepsState ==
    \A n \in LoginIds:
        (/\ logins[n].step \in {"begun", "confirmed"}
         /\ \A m \in LoginIds \ {n}: logins[m].step /= "absent" =>
                logins[m].browser /= logins[n].browser)
            => stateCookie[logins[n].browser] = n

\* A login ends in the browser it was begun in, for the person who was confirmed,
\* and is not disturbed by other browsers.
LoginsStayApart == SessionsConfirmed /\ LoneLoginKeepsState
=============================================================================
