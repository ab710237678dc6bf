------------------------------- MODULE Access -------------------------------
(***************************************************************************)
(* Who a request comes from: API keys, looked up in the database and kept  *)
(* in the gateway's cache for CacheTTL, and browser sign-in by the OIDC    *)
(* authorization code flow, with a session cookie that holds a token.      *)
(*                                                                         *)
(* One API process (replicas share only the database) and one API key. The *)
(* two meet in POST /auth/refresh, which gives a token to whoever is       *)
(* authenticated, by a token or by an API key. A behaviour exercises one   *)
(* half, or both while the clock and the provider's keys stand still       *)
(* (part), which bounds what TLC explores; no proof uses it.               *)
(*                                                                         *)
(* A token is named by what it stems from: a sign-in or the API key. Its   *)
(* roles decide nothing here and are left out. A browser is any client     *)
(* with a cookie jar; it presents no token but those it was given.         *)
(***************************************************************************)
EXTENDS Integers, FiniteSets

CONSTANTS
    Requests,   \* slots for concurrent requests that present the API key
    CacheTTL,   \* lifetime of a cache entry
    MaxFlight,  \* bound: time between the SELECT of a request and its answer
    MaxTime,    \* bound: the clock
    Browsers,
    Flows,      \* values of state and nonce, one per click on "sign in"
    Calls,      \* slots for concurrent requests of browsers
    Kids,       \* 1..Kids: ids of the identity provider's signing keys
    FaultLimit  \* bound: failed calls, lost answers, restarts

ASSUME AccessAssumption ==
    /\ CacheTTL \in Nat /\ MaxFlight \in Nat /\ MaxTime \in Nat
    /\ Kids \in Nat \ {0} /\ FaultLimit \in Nat

VARIABLES
    part,       \* what this behaviour exercises
    now,
    key,        \* teo.api_keys: revoked_at and expires_at
    cache,      \* cache[k]: when the entry expires, 0 without one
    req,        \* req[q]: a request with the API key
    flow,       \* flow[f]: who started it, and its code at the identity provider
    cookie,     \* cookie[b]: the state and nonce cookies
    session,    \* session[b]: the token in the session cookie
    kept,       \* kept[b]: tokens b was given that have not expired
    minted,     \* when an API key was last exchanged for a token (history)
    call,       \* call[c]: a callback or a refresh
    published,  \* keys in the identity provider's JWKS; it signs with the newest
    jwks,       \* keySet.keys
    granted,    \* flows whose callback was answered with a session
    faults

keyVars  == <<now, key, cache, req>>
sessionVars == <<session, kept, minted>>
flowVars == <<flow, cookie, sessionVars, call, published, jwks, granted>>
vars == <<part, keyVars, flowVars, faults>>

\* What may follow the prefix of the key: what GenerateAPIKey made, or not.
Secrets == {"right", "wrong"}
Never == MaxTime + CacheTTL + MaxFlight + 1
None == "none"
NoReq == [pc |-> "idle", http |-> FALSE, secret |-> None, at |-> 0]
NoFlow == [by |-> None, code |-> None, kid |-> 0]
\* The key set of a provider that NewProvider has made: read on first use.
NoKeys == {}
ByKey == "key"
NoCall == [pc |-> "idle", b |-> None, f |-> None, nonce |-> None, tok |-> None]

\* An empty cookie names neither a browser nor a sign-in, and no sign-in is a key.
ASSUME NoneAssumption == None \notin Browsers \cup Flows /\ ByKey \notin Flows

Fault == faults < FaultLimit /\ faults' = faults + 1

ReqStates == [pc : {"idle", "verify", "granted"}, http : BOOLEAN,
              secret : Secrets \cup {None}, at : 0..MaxTime]
FlowStates == [by : Browsers \cup {None}, code : {None, "issued", "spent"}, kid : 0..Kids]
Tokens == Flows \cup {ByKey}
CallStates == [pc : {"idle", "exchange", "verify", "roles", "answer"},
               b : Browsers \cup {None}, f : Flows \cup {None},
               nonce : Flows \cup {None}, tok : Tokens \cup {None}]

TypeOK ==
    /\ part \in {"keys", "sign-in", "both"} /\ now \in 0..MaxTime /\ faults \in 0..FaultLimit
    /\ key \in [revoked : 0..Never, expires : Nat]
    /\ cache \in [Secrets -> Nat]
    /\ req \in [Requests -> ReqStates]
    /\ flow \in [Flows -> FlowStates]
    /\ cookie \in [Browsers -> Flows \cup {None}]
    /\ session \in [Browsers -> Tokens \cup {None}]
    /\ kept \in [Browsers -> SUBSET Tokens] /\ minted \in 0..MaxTime
    /\ call \in [Calls -> CallStates]
    /\ published \subseteq 1..Kids /\ jwks \subseteq 1..Kids /\ granted \subseteq Flows

Init ==
    /\ part \in {"keys", "sign-in", "both"}
    /\ now = 0 /\ cache = [s \in Secrets |-> 0] /\ req = [q \in Requests |-> NoReq]
    /\ key \in [revoked : {Never}, expires : {Never} \cup IF part = "keys" THEN {1} ELSE {}]
    /\ flow = [f \in Flows |-> NoFlow]
    /\ cookie = [b \in Browsers |-> None] /\ session = [b \in Browsers |-> None]
    /\ kept = [b \in Browsers |-> {}] /\ minted = 0
    /\ call = [c \in Calls |-> NoCall]
    /\ published = {1} /\ jwks = NoKeys /\ granted = {} /\ faults = 0

(***************************************************************************)
(* API keys.                                                               *)
(***************************************************************************)

\* The prefix with the hash of all that was presented.
cacheKeyOfPrefix(secret) == "right"
cacheKey(secret) == secret

Hit(secret) == cache[cacheKey(secret)] # 0 /\ now <= cache[cacheKey(secret)]

\* The rows the SELECT of both resolvers finds.
Selectable == key.revoked = Never /\ key.expires > now

\* The hash of what was presented is the one stored with the key.
VerifyAPIKey(secret) == secret = "right"

\* A request over HTTP with the key in its Authorization header, which goes
\* before a session cookie: the cache is asked first. One that is turned away,
\* or whose SELECT fails, leaves no trace.
Middleware(q, secret) ==
    /\ req[q].pc = "idle"
    /\ \/ /\ Hit(secret)
          /\ req' = [req EXCEPT ![q] = [pc |-> "granted", http |-> TRUE, secret |-> secret, at |-> now]]
       \/ /\ ~Hit(secret) /\ Selectable
          /\ req' = [req EXCEPT ![q] = [pc |-> "verify", http |-> TRUE, secret |-> secret, at |-> now]]
    /\ UNCHANGED <<part, now, key, cache, flowVars, faults>>

\* A request over gRPC, where no cache stands before the table.
authenticate(q, secret) ==
    /\ req[q].pc = "idle" /\ Selectable
    /\ req' = [req EXCEPT ![q] = [pc |-> "verify", http |-> FALSE, secret |-> secret, at |-> now]]
    /\ UNCHANGED <<part, now, key, cache, flowVars, faults>>

\* The hash takes its time, then the answer is given from the row read before.
Resolved(q) ==
    req' = [req EXCEPT ![q] = IF VerifyAPIKey(@.secret)
                              THEN [@ EXCEPT !.pc = "granted", !.at = now] ELSE NoReq]

resolveAPIKey(q) ==
    /\ req[q].pc = "verify" /\ req[q].http
    /\ Resolved(q)
    /\ cache' = IF VerifyAPIKey(req[q].secret)
                THEN [cache EXCEPT ![cacheKey(req[q].secret)] = now + CacheTTL] ELSE cache
    /\ UNCHANGED <<part, now, key, flowVars, faults>>

grpcAPIKeyResolver(q) ==
    /\ req[q].pc = "verify" /\ ~req[q].http
    /\ Resolved(q)
    /\ UNCHANGED <<part, now, key, cache, flowVars, faults>>

Finish(q) ==
    /\ req[q].pc = "granted"
    /\ req' = [req EXCEPT ![q] = NoReq]
    /\ UNCHANGED <<part, now, key, cache, flowVars, faults>>

\* An operator, by SQL: nothing under src/ writes revoked_at.
Revoke ==
    /\ part = "keys" /\ key.revoked = Never
    /\ key' = [key EXCEPT !.revoked = now]
    /\ UNCHANGED <<part, now, cache, req, flowVars, faults>>

Tick ==
    /\ part = "keys" /\ now < MaxTime
    /\ \A q \in Requests : req[q].pc = "verify" => now < req[q].at + MaxFlight
    /\ now' = now + 1
    /\ UNCHANGED <<part, key, cache, req, flowVars, faults>>

(***************************************************************************)
(* Sign-in. What the identity provider and the browsers do is external.    *)
(***************************************************************************)
oidcLogin(b, f) ==
    /\ flow[f] = NoFlow
    /\ flow' = [flow EXCEPT ![f].by = b]
    /\ cookie' = [cookie EXCEPT ![b] = f]
    /\ UNCHANGED <<part, keyVars, sessionVars, call, published, jwks, granted, faults>>

\* The provider sends the user back with a code; its token will carry nonce f.
Authenticate(f) ==
    /\ flow[f].by # None /\ flow[f].code = None
    /\ flow' = [flow EXCEPT ![f].code = "issued"]
    /\ UNCHANGED <<part, keyVars, cookie, sessionVars, call, published, jwks, granted, faults>>

StateMatchesAny(b, f) == flow[f].by # None
StateMatches(b, f) == cookie[b] = f

\* The URL with code and state is opened by the browser that started the flow,
\* by another one, or a second time. Anything but a match is turned away.
oidcCallback(c, b, f) ==
    /\ call[c].pc = "idle" /\ flow[f].code # None
    /\ StateMatches(b, f)
    /\ call' = [call EXCEPT ![c] =
                  [NoCall EXCEPT !.pc = "exchange", !.b = b, !.f = f, !.nonce = cookie[b]]]
    /\ UNCHANGED <<part, keyVars, flow, cookie, sessionVars, published, jwks, granted, faults>>

Newest == CHOOSE k \in published : \A j \in published : j <= k

\* The provider takes a code once and signs the token with its newest key.
Exchange(c) ==
    LET f == call[c].f
        spend == [flow EXCEPT ![f].code = "spent", ![f].kid = Newest] IN
    /\ call[c].pc = "exchange"
    /\ \/ /\ flow[f].code = "issued" /\ flow' = spend
          /\ call' = [call EXCEPT ![c].pc = "verify"]
          /\ UNCHANGED faults
       \/ /\ flow[f].code = "spent"
          /\ call' = [call EXCEPT ![c] = NoCall]
          /\ UNCHANGED <<flow, faults>>
       \/ /\ Fault
          /\ flow' \in {flow} \cup IF flow[f].code = "issued" THEN {spend} ELSE {}
          /\ call' = [call EXCEPT ![c] = NoCall]
    /\ UNCHANGED <<part, keyVars, cookie, sessionVars, published, jwks, granted>>

\* keySet.key: the keys at hand, read again once when kid is not one of them.
KeysForNoRefresh(kid) == IF jwks = {} THEN published ELSE jwks
KeysFor(kid) == IF kid \in jwks THEN jwks ELSE published

VerifyIDToken(c) ==
    LET f == call[c].f
        kid == flow[f].kid
        ok == kid \in KeysFor(kid) /\ (call[c].nonce # None => call[c].nonce = f) IN
    /\ call[c].pc = "verify"
    /\ \/ /\ jwks' = KeysFor(kid)
          /\ call' = [call EXCEPT ![c] = IF ok THEN [call[c] EXCEPT !.pc = "roles"] ELSE NoCall]
          /\ UNCHANGED faults
       \/ /\ kid \notin jwks
          /\ Fault
          /\ call' = [call EXCEPT ![c] = NoCall]
          /\ UNCHANGED jwks
    /\ UNCHANGED <<part, keyVars, flow, cookie, sessionVars, published, granted>>

\* Whatever comes of reading the roles, the callback goes on, with RoleEngineer if
\* there are none. (The row of teo.users that the e-mail selects is left out.)
RoleResolver(c) ==
    /\ call[c].pc = "roles"
    /\ call' = [call EXCEPT ![c] = [@ EXCEPT !.pc = "answer", !.tok = call[c].f]]
    /\ UNCHANGED <<part, keyVars, flow, cookie, sessionVars, published, jwks, granted, faults>>

\* A token is good until it expires; a logout does not end it.
Verify(b, token) == token \in kept[b]

\* The token of the Authorization header, or else of the cookie, signed again.
refresh(c, b, token) ==
    /\ call[c].pc = "idle" /\ Verify(b, token)
    /\ call' = [call EXCEPT ![c] = [NoCall EXCEPT !.pc = "answer", !.b = b, !.tok = token]]
    /\ UNCHANGED <<part, keyVars, flow, cookie, sessionVars, published, jwks, granted, faults>>

\* The same handler: the routes behind Middleware take a request with the API key
\* too, and refresh signs the principal's claims whether or not it is a key's.
refreshByKey(c, b, q) ==
    /\ call[c].pc = "idle" /\ req[q].pc = "granted" /\ req[q].http
    /\ call' = [call EXCEPT ![c] = [NoCall EXCEPT !.pc = "answer", !.b = b, !.tok = ByKey]]
    /\ req' = [req EXCEPT ![q] = NoReq]
    /\ minted' = req[q].at
    /\ UNCHANGED <<part, now, key, cache, flow, cookie, session, kept, published, jwks,
                   granted, faults>>

\* The browser gets the answer. A callback's clears the cookies of whatever
\* sign-in the browser has started by then.
Answer(c) ==
    LET r == call[c] IN
    /\ r.pc = "answer"
    /\ session' = [session EXCEPT ![r.b] = r.tok]
    /\ kept' = [kept EXCEPT ![r.b] = @ \cup {r.tok}]
    /\ cookie' = IF r.f = None THEN cookie ELSE [cookie EXCEPT ![r.b] = None]
    /\ granted' = IF r.f = None THEN granted ELSE granted \cup {r.f}
    /\ call' = [call EXCEPT ![c] = NoCall]
    /\ UNCHANGED <<part, keyVars, minted, flow, published, jwks, faults>>

\* The cookie is cleared, the token in it stays good.
oidcLogout(b) ==
    /\ session[b] # None
    /\ session' = [session EXCEPT ![b] = None]
    /\ UNCHANGED <<part, keyVars, kept, minted, flow, cookie, call, published, jwks, granted,
                   faults>>

\* MaxAge of the cookies of a sign-in.
CookieExpires(b) ==
    /\ cookie[b] # None
    /\ cookie' = [cookie EXCEPT ![b] = None]
    /\ UNCHANGED <<part, keyVars, flow, sessionVars, call, published, jwks, granted, faults>>

\* The lifetime of a token, and MaxAge of the cookie it is in.
TokenExpires(b, token) ==
    /\ token \in kept[b]
    /\ kept' = [kept EXCEPT ![b] = @ \ {token}]
    /\ session' = [session EXCEPT ![b] = IF @ = token THEN None ELSE @]
    /\ UNCHANGED <<part, keyVars, minted, flow, cookie, call, published, jwks, granted, faults>>

RotateKeys ==
    /\ part = "sign-in"
    /\ \/ Newest < Kids /\ published' = published \cup {Newest + 1}
       \/ \E k \in published \ {Newest} : published' = published \ {k}
    /\ UNCHANGED <<part, keyVars, flow, cookie, sessionVars, call, jwks, granted, faults>>

\* The process stops, with everything it holds in memory, and is started again.
Restart ==
    /\ Fault
    /\ cache' = [s \in Secrets |-> 0] /\ req' = [q \in Requests |-> NoReq]
    /\ call' = [c \in Calls |-> NoCall] /\ jwks' = NoKeys
    /\ UNCHANGED <<part, now, key, flow, cookie, sessionVars, published, granted>>

ApiKeyStep ==
    /\ part \in {"keys", "both"}
    /\ \E q \in Requests :
         \/ \E secret \in Secrets : Middleware(q, secret)
         \/ part = "keys" /\ \E secret \in Secrets : authenticate(q, secret)
         \/ resolveAPIKey(q) \/ grpcAPIKeyResolver(q) \/ Finish(q)

SignInStep ==
    /\ part \in {"sign-in", "both"}
    /\ \/ \E b \in Browsers, f \in Flows : oidcLogin(b, f)
       \/ \E f \in Flows : Authenticate(f)
       \/ \E c \in Calls, b \in Browsers, f \in Flows : oidcCallback(c, b, f)
       \/ \E c \in Calls : Exchange(c) \/ VerifyIDToken(c) \/ RoleResolver(c)
       \/ \E b \in Browsers : CookieExpires(b)

SessionStep ==
    \/ \E c \in Calls, b \in Browsers :
         \/ \E token \in Tokens : refresh(c, b, token)
         \/ \E q \in Requests : refreshByKey(c, b, q)
    \/ \E c \in Calls : Answer(c)
    \/ \E b \in Browsers : oidcLogout(b) \/ \E token \in Tokens : TokenExpires(b, token)

Next == ApiKeyStep \/ Revoke \/ Tick \/ SignInStep \/ SessionStep \/ RotateKeys \/ Restart

Spec == Init /\ [][Next]_vars

(***************************************************************************)
(* Properties.                                                             *)
(***************************************************************************)

\* A time at which an answer may still rest on a SELECT that found the key.
Covered(t) ==
    /\ t <= key.revoked + MaxFlight + CacheTTL
    /\ t < key.expires + MaxFlight + CacheTTL

\* A request is let in only with the right secret, and no later than MaxFlight
\* and CacheTTL after the key was revoked or expired, however many requests
\* refill the cache in between (resolveAPIKey; "revocation in 30s").
GrantIsJustified ==
    \A q \in Requests : req[q].pc = "granted" =>
        req[q].secret = "right" /\ Covered(req[q].at)

\* A token a client holds, in its cookie or elsewhere, comes from a sign-in which
\* that client started, or from an API key that was good when it was exchanged:
\* through refreshes of tokens and of keys, logouts, and sign-ins in several tabs
\* (oidcCallback, refresh). That a key's token ends with the key is not so.
SessionOfItsLogin ==
    \A b \in Browsers, token \in Tokens :
        token \in kept[b] \/ session[b] = token =>
            IF token = ByKey THEN Covered(minted) ELSE flow[token].by = b

\* A code is not wasted: without faults, a flow whose code was taken is being
\* answered or has been, unless the provider retired the key of its token
\* ("handles IdP key rotation without a restart", keySet.key).
RotationIsTransparent ==
    \A f \in Flows :
        (flow[f].code = "spent" /\ flow[f].kid \in published /\ faults = 0) =>
            \/ f \in granted
            \/ \E c \in Calls : call[c].f = f /\ call[c].pc # "exchange"

(***************************************************************************)
(* The inductive invariants behind them.                                   *)
(***************************************************************************)

\* A request between its SELECT and its answer read the key when it was valid;
\* the cache never outlives that by more than CacheTTL, and holds nothing for
\* a wrong secret.
KeyInv ==
    /\ key.revoked = Never \/ key.revoked <= now
    /\ cache["wrong"] = 0
    /\ cache["right"] # 0 => cache["right"] <= now + CacheTTL /\ Covered(cache["right"])
    /\ \A q \in Requests : req[q].pc = "verify" =>
          /\ req[q].at <= now /\ now <= req[q].at + MaxFlight
          /\ req[q].at <= key.revoked /\ req[q].at < key.expires
          /\ req[q].secret \in Secrets
    /\ \A q \in Requests : req[q].pc = "granted" =>
          req[q].at <= now /\ req[q].secret = "right" /\ Covered(req[q].at)
    /\ minted <= now /\ Covered(minted)

\* Browser b started sign-in f.
Started(b, f) == b \in Browsers /\ f \in Flows /\ flow[f].by = b

\* What token may be given to browser b.
Rightful(b, token) == b \in Browsers /\ (token = ByKey \/ Started(b, token))

\* What a browser or a call in progress refers to is a sign-in of that
\* browser or the key; a callback carries the nonce of its own flow.
LoginInv ==
    /\ \A b \in Browsers : cookie[b] # None => Started(b, cookie[b])
    /\ \A b \in Browsers : session[b] # None => session[b] \in kept[b]
    /\ \A b \in Browsers : \A token \in kept[b] : Rightful(b, token)
    /\ \A c \in Calls :
          /\ call[c].pc = "idle" => call[c].f = None
          /\ call[c].pc \in {"exchange", "verify", "roles"} => call[c].f # None
          /\ call[c].f # None => Started(call[c].b, call[c].f) /\ call[c].nonce = call[c].f
          /\ call[c].pc = "answer" => Rightful(call[c].b, call[c].tok)

\* The provider has a newest key, and no token was signed with a newer one: a
\* key that was retired does not come back.
KidInv ==
    /\ \E k \in published : \A j \in published : j <= k
    /\ \A f \in Flows : flow[f].kid <= Newest

(***************************************************************************)
(* A claim of the repository that does not hold.                           *)
(***************************************************************************)

\* docs/requirements/functional.md, FR-805: the revocation of a key takes effect
\* within the lifetime of a cache entry. A token that refresh gave for the key
\* is good until it expires, and is refreshed without asking for the key.
RevocationEndsAccess == \A b \in Browsers : ByKey \in kept[b] => Covered(now)
=============================================================================
