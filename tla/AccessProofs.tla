---------------------------- MODULE AccessProofs ----------------------------
(***************************************************************************)
(* Who is let in: an API key admits nobody long after its end, a token     *)
(* stems from the client's own sign-in or from a key that was good, and a  *)
(* rotation of the provider's keys wastes no code.  Proved for any number  *)
(* of requests, browsers, sign-ins and signing keys, and any lifetimes.    *)
(***************************************************************************)
EXTENDS Access, TLAPS

\* The empty rows are rows.
LEMMA EmptyTypes ==
    NoReq \in ReqStates /\ NoFlow \in FlowStates /\ NoCall \in CallStates
BY AccessAssumption DEF NoReq, ReqStates, NoFlow, FlowStates, NoCall, CallStates

\* The process starts well typed.
LEMMA TypeInit == Init => TypeOK
BY AccessAssumption, EmptyTypes DEF Init, TypeOK, NoKeys, Secrets, Never

\* The steps that touch an API key, its requests or the clock.
KeyStep ==
    \/ \E q \in Requests, secret \in Secrets :
          Middleware(q, secret) \/ authenticate(q, secret)
    \/ \E q \in Requests : resolveAPIKey(q) \/ grpcAPIKeyResolver(q) \/ Finish(q)
    \/ Revoke \/ Tick

\* The steps of a sign-in and of its tokens, and what the identity provider does.
LoginStep ==
    \/ \E b \in Browsers, f \in Flows : oidcLogin(b, f)
    \/ \E f \in Flows : Authenticate(f)
    \/ \E c \in Calls, b \in Browsers, f \in Flows : oidcCallback(c, b, f)
    \/ \E c \in Calls, b \in Browsers, token \in Tokens : refresh(c, b, token)
    \/ \E c \in Calls : Exchange(c) \/ VerifyIDToken(c) \/ RoleResolver(c) \/ Answer(c)
    \/ \E b \in Browsers : oidcLogout(b) \/ CookieExpires(b)
    \/ \E b \in Browsers, token \in Tokens : TokenExpires(b, token)
    \/ RotateKeys

\* Where the halves meet: a request with the API key is given a token.
KeyExchange == \E c \in Calls, b \in Browsers, q \in Requests : refreshByKey(c, b, q)

\* A step belongs to one half and leaves the other half alone, exchanges the
\* key for a token, or is a restart.
LEMMA Halves ==
    ASSUME [Next]_vars
    PROVE  \/ KeyStep /\ UNCHANGED <<flowVars, faults, part>>
           \/ LoginStep /\ UNCHANGED <<keyVars, minted, part>>
           \/ KeyExchange
           \/ Restart
           \/ UNCHANGED vars
<1>1. ASSUME ApiKeyStep \/ Revoke \/ Tick
      PROVE  KeyStep /\ UNCHANGED <<flowVars, faults, part>>
  BY <1>1 DEF ApiKeyStep, KeyStep, Middleware, authenticate, resolveAPIKey,
              grpcAPIKeyResolver, Finish, Revoke, Tick
<1>2. ASSUME SignInStep \/ RotateKeys PROVE LoginStep /\ UNCHANGED <<keyVars, minted, part>>
  BY <1>2 DEF SignInStep, LoginStep, oidcLogin, Authenticate, oidcCallback, Exchange,
              VerifyIDToken, RoleResolver, CookieExpires, RotateKeys, sessionVars
<1>3. ASSUME SessionStep PROVE KeyExchange \/ (LoginStep /\ UNCHANGED <<keyVars, minted, part>>)
  <2>1. ASSUME NEW c \in Calls, NEW b \in Browsers, NEW token \in Tokens, refresh(c, b, token)
        PROVE  LoginStep /\ UNCHANGED <<keyVars, minted, part>>
    BY <2>1 DEF LoginStep, refresh, sessionVars
  <2>2. ASSUME NEW c \in Calls, Answer(c)
        PROVE  LoginStep /\ UNCHANGED <<keyVars, minted, part>>
    BY <2>2 DEF LoginStep, Answer
  <2>3. ASSUME NEW b \in Browsers, oidcLogout(b)
        PROVE  LoginStep /\ UNCHANGED <<keyVars, minted, part>>
    BY <2>3 DEF LoginStep, oidcLogout
  <2>4. ASSUME NEW b \in Browsers, NEW token \in Tokens, TokenExpires(b, token)
        PROVE  LoginStep /\ UNCHANGED <<keyVars, minted, part>>
    BY <2>4 DEF LoginStep, TokenExpires
  <2>. QED
    BY <1>3, <2>1, <2>2, <2>3, <2>4 DEF SessionStep, KeyExchange
<1>. QED
  BY <1>1, <1>2, <1>3 DEF Next

\* A key the provider signs with is one it has published.
LEMMA NewestIsPublished ==
    ASSUME KidInv
    PROVE  Newest \in published /\ \A j \in published : j <= Newest
BY DEF KidInv, Newest

-----------------------------------------------------------------------------
(* Types.                                                                  *)

\* Every step keeps the types.
LEMMA TypeStep ==
    ASSUME TypeOK, LoginInv, KidInv, [Next]_vars PROVE TypeOK'
<1>. USE AccessAssumption, EmptyTypes DEF keyVars, flowVars, sessionVars
<1>1. CASE KeyStep /\ UNCHANGED <<flowVars, faults, part>>
  <2>1. ASSUME NEW q \in Requests, NEW secret \in Secrets,
               Middleware(q, secret) \/ authenticate(q, secret)
        PROVE  TypeOK'
    <3>1. PICK r \in ReqStates : req' = [req EXCEPT ![q] = r]
      BY <2>1 DEF TypeOK, Middleware, authenticate, ReqStates
    <3>. QED
      BY <2>1, <3>1 DEF TypeOK, Middleware, authenticate
  <2>2. ASSUME NEW q \in Requests, resolveAPIKey(q) \/ grpcAPIKeyResolver(q)
        PROVE  TypeOK'
    <3>1. [req[q] EXCEPT !.pc = "granted", !.at = now] \in ReqStates
      BY DEF TypeOK, ReqStates
    <3>2. req' \in [Requests -> ReqStates]
      BY <2>2, <3>1 DEF TypeOK, resolveAPIKey, grpcAPIKeyResolver, Resolved
    <3>3. cache' \in [Secrets -> Nat]
      BY <2>2 DEF TypeOK, resolveAPIKey, grpcAPIKeyResolver
    <3>. QED
      BY <2>2, <3>2, <3>3 DEF TypeOK, resolveAPIKey, grpcAPIKeyResolver
  <2>3. ASSUME NEW q \in Requests, Finish(q) PROVE TypeOK'
    BY <2>3 DEF TypeOK, Finish
  <2>4. CASE Revoke
    BY <2>4 DEF TypeOK, Revoke, Never
  <2>5. CASE Tick
    BY <2>5 DEF TypeOK, Tick
  <2>. QED
    BY <1>1, <2>1, <2>2, <2>3, <2>4, <2>5 DEF KeyStep
<1>2. CASE LoginStep /\ UNCHANGED <<keyVars, minted, part>>
  <2>0. Newest \in 1..Kids /\ Newest \in 0..Kids
    <3>1. Newest \in 1..Kids
      BY NewestIsPublished DEF TypeOK
    <3>. QED
      BY <3>1
  <2>1. ASSUME NEW b \in Browsers, NEW f \in Flows, oidcLogin(b, f) PROVE TypeOK'
    <3>1. flow' \in [Flows -> FlowStates]
      BY <2>1 DEF TypeOK, oidcLogin, FlowStates
    <3>. QED
      BY <2>1, <3>1 DEF TypeOK, oidcLogin
  <2>2. ASSUME NEW f \in Flows, Authenticate(f) PROVE TypeOK'
    <3>1. flow' \in [Flows -> FlowStates]
      BY <2>2 DEF TypeOK, Authenticate, FlowStates
    <3>. QED
      BY <2>2, <3>1 DEF TypeOK, Authenticate
  <2>3. ASSUME NEW c \in Calls, NEW b \in Browsers, NEW f \in Flows,
               oidcCallback(c, b, f)
        PROVE  TypeOK'
    <3>1. [NoCall EXCEPT !.pc = "exchange", !.b = b, !.f = f, !.nonce = cookie[b]]
             \in CallStates
      BY DEF TypeOK, CallStates
    <3>. QED
      BY <2>3, <3>1 DEF TypeOK, oidcCallback
  <2>4. ASSUME NEW c \in Calls, NEW b \in Browsers, NEW token \in Tokens, refresh(c, b, token)
        PROVE  TypeOK'
    <3>1. PICK r \in CallStates : call' = [call EXCEPT ![c] = r]
      BY <2>4 DEF refresh, CallStates
    <3>. QED
      BY <2>4, <3>1 DEF TypeOK, refresh
  <2>5. ASSUME NEW c \in Calls, Exchange(c) PROVE TypeOK'
    <3>1. [call[c] EXCEPT !.pc = "verify"] \in CallStates
      BY DEF TypeOK, CallStates
    <3>2. call' \in [Calls -> CallStates]
      BY <2>5, <3>1 DEF TypeOK, Exchange
    <3>3. call[c].f \in Flows
      BY <2>5 DEF TypeOK, Exchange, LoginInv, CallStates
    <3>4. [flow[call[c].f] EXCEPT !.code = "spent", !.kid = Newest] \in FlowStates
      <4>1. flow[call[c].f] \in FlowStates
        BY <3>3 DEF TypeOK
      <4>. QED
        BY <2>0, <4>1 DEF FlowStates
    <3>5. \/ flow' = flow
          \/ flow' = [flow EXCEPT ![call[c].f] =
                        [flow[call[c].f] EXCEPT !.code = "spent", !.kid = Newest]]
      BY <2>5, <3>3 DEF TypeOK, Exchange
    <3>6. flow' \in [Flows -> FlowStates]
      BY <3>3, <3>4, <3>5 DEF TypeOK
    <3>7. faults' \in 0..FaultLimit
      BY <2>5 DEF TypeOK, Exchange, Fault
    <3>. QED
      BY <2>5, <3>2, <3>6, <3>7 DEF TypeOK, Exchange
  <2>6. ASSUME NEW c \in Calls, VerifyIDToken(c) PROVE TypeOK'
    <3>1. [call[c] EXCEPT !.pc = "roles"] \in CallStates
      BY DEF TypeOK, CallStates
    <3>2. call' \in [Calls -> CallStates]
      BY <2>6, <3>1 DEF TypeOK, VerifyIDToken
    <3>3. jwks' \subseteq 1..Kids /\ faults' \in 0..FaultLimit
      BY <2>6 DEF TypeOK, VerifyIDToken, KeysFor, Fault
    <3>. QED
      BY <2>6, <3>2, <3>3 DEF TypeOK, VerifyIDToken
  <2>7. ASSUME NEW c \in Calls, RoleResolver(c) PROVE TypeOK'
    <3>1. [call[c] EXCEPT !.pc = "answer", !.tok = call[c].f] \in CallStates
      BY DEF TypeOK, CallStates, Tokens
    <3>. QED
      BY <2>7, <3>1 DEF TypeOK, RoleResolver
  <2>8. ASSUME NEW c \in Calls, Answer(c) PROVE TypeOK'
    <3>1. call[c].b \in Browsers /\ call[c].tok \in Tokens
          /\ (call[c].f # None => call[c].f \in Flows)
      BY <2>8 DEF TypeOK, Answer, LoginInv, Rightful, Started, CallStates, Tokens
    <3>2. kept' \in [Browsers -> SUBSET Tokens] /\ session' \in [Browsers -> Tokens \cup {None}]
      BY <2>8, <3>1 DEF TypeOK, Answer
    <3>. QED
      BY <2>8, <3>1, <3>2 DEF TypeOK, Answer
  <2>9. ASSUME NEW b \in Browsers,
               oidcLogout(b) \/ CookieExpires(b) \/ \E token \in Tokens : TokenExpires(b, token)
        PROVE  TypeOK'
    <3>1. /\ cookie' \in [Browsers -> Flows \cup {None}]
          /\ session' \in [Browsers -> Tokens \cup {None}]
          /\ kept' \in [Browsers -> SUBSET Tokens]
      BY <2>9 DEF TypeOK, oidcLogout, CookieExpires, TokenExpires
    <3>. QED
      BY <2>9, <3>1 DEF TypeOK, oidcLogout, CookieExpires, TokenExpires
  <2>10. CASE RotateKeys
    <3>1. published' \subseteq 1..Kids
      <4>1. CASE Newest < Kids /\ published' = published \cup {Newest + 1}
        BY <2>0, <4>1 DEF TypeOK
      <4>2. CASE \E k \in published \ {Newest} : published' = published \ {k}
        BY <4>2 DEF TypeOK
      <4>. QED
        BY <2>10, <4>1, <4>2 DEF RotateKeys
    <3>. QED
      BY <2>10, <3>1 DEF TypeOK, RotateKeys
  <2>. QED
    BY <1>2, <2>1, <2>2, <2>3, <2>4, <2>5, <2>6, <2>7, <2>8, <2>9, <2>10 DEF LoginStep
<1>3. CASE Restart
  BY <1>3 DEF TypeOK, Restart, Fault, NoKeys
<1>4. CASE UNCHANGED vars
  BY <1>4 DEF TypeOK, vars
<1>5. CASE KeyExchange
  <2>1. PICK c \in Calls, b \in Browsers, q \in Requests : refreshByKey(c, b, q)
    BY <1>5 DEF KeyExchange
  <2>2. PICK r \in CallStates : call' = [call EXCEPT ![c] = r]
    BY <2>1 DEF refreshByKey, CallStates, Tokens
  <2>3. minted' \in 0..MaxTime
    BY <2>1 DEF refreshByKey, TypeOK, ReqStates
  <2>. QED
    BY <2>1, <2>2, <2>3 DEF TypeOK, refreshByKey
<1>. QED
  BY <1>1, <1>2, <1>3, <1>4, <1>5, Halves

-----------------------------------------------------------------------------
(* API keys.                                                               *)

\* Neither requests, revocation nor the clock break the bounds of KeyInv.
LEMMA KeyInvStep == ASSUME TypeOK, KeyInv, [Next]_vars PROVE KeyInv'
<1>. USE AccessAssumption DEF keyVars, flowVars, sessionVars, Covered
<1>0. /\ now \in Nat /\ key.revoked \in Nat /\ key.expires \in Nat /\ Never \in Nat
      /\ cache["right"] \in Nat /\ minted \in Nat /\ \A q \in Requests : req[q].at \in Nat
  BY DEF TypeOK, Never, Secrets, ReqStates
<1>1. CASE KeyStep /\ UNCHANGED minted
  <2>1. ASSUME NEW q \in Requests, NEW secret \in Secrets,
               Middleware(q, secret) \/ authenticate(q, secret)
        PROVE  KeyInv'
    <3>1. UNCHANGED <<now, key, cache>>
      BY <2>1 DEF Middleware, authenticate
    <3>2. \A p \in Requests : p # q => req'[p] = req[p]
      BY <2>1 DEF TypeOK, Middleware, authenticate
    <3>3. \/ /\ req'[q].pc = "granted" /\ Hit(secret)
          \/ /\ req'[q].pc = "verify" /\ Selectable
      BY <2>1 DEF TypeOK, Middleware, authenticate
    <3>4. req'[q].secret = secret /\ req'[q].at = now
      BY <2>1 DEF TypeOK, Middleware, authenticate
    <3>5. CASE req'[q].pc = "granted" /\ Hit(secret)
      <4>1. secret = "right" /\ now <= cache["right"] /\ cache["right"] # 0
        BY <3>5 DEF Hit, cacheKey, KeyInv, Secrets
      <4>2. Covered(now)
        BY <4>1 DEF KeyInv, TypeOK, Secrets, Never
      <4>3. \A p \in Requests : req'[p].pc = "granted" =>
               req'[p].at <= now /\ req'[p].secret = "right" /\ Covered(req'[p].at)
        BY <3>2, <3>4, <4>1, <4>2 DEF KeyInv, TypeOK
      <4>4. \A p \in Requests : req'[p].pc = "verify" => req'[p] = req[p]
        BY <3>2, <3>5
      <4>. QED
        BY <1>1, <3>1, <4>3, <4>4 DEF KeyInv
    <3>6. CASE req'[q].pc = "verify" /\ Selectable
      <4>1. now <= key.revoked /\ now < key.expires /\ now <= now + MaxFlight
        BY <3>6 DEF Selectable, TypeOK, Never
      <4>2. \A p \in Requests : req'[p].pc = "verify" =>
              /\ req'[p].at <= now /\ now <= req'[p].at + MaxFlight
              /\ req'[p].at <= key.revoked /\ req'[p].at < key.expires
              /\ req'[p].secret \in Secrets
        BY <3>2, <3>4, <4>1 DEF KeyInv, TypeOK
      <4>3. \A p \in Requests : req'[p].pc = "granted" => req'[p] = req[p]
        BY <3>2, <3>6
      <4>. QED
        BY <1>1, <3>1, <4>2, <4>3 DEF KeyInv
    <3>. QED
      BY <3>3, <3>5, <3>6
  <2>2. ASSUME NEW q \in Requests, resolveAPIKey(q) \/ grpcAPIKeyResolver(q)
        PROVE  KeyInv'
    <3>1. UNCHANGED <<now, key>> /\ req[q].pc = "verify" /\ Resolved(q)
      BY <2>2 DEF resolveAPIKey, grpcAPIKeyResolver
    <3>2. \A p \in Requests : p # q => req'[p] = req[p]
      BY <3>1 DEF TypeOK, Resolved
    <3>3. /\ req'[q].pc # "verify"
          /\ req'[q].pc = "granted" =>
                req[q].secret = "right" /\ req'[q].secret = "right" /\ req'[q].at = now
      BY <3>1 DEF TypeOK, Resolved, VerifyAPIKey, NoReq
    <3>4. Covered(now) /\ Covered(now + CacheTTL)
      BY <1>0, <3>1 DEF KeyInv
    <3>5. cache' = cache \/ cache' = [cache EXCEPT !["right"] = now + CacheTTL]
      BY <2>2 DEF resolveAPIKey, grpcAPIKeyResolver, VerifyAPIKey, cacheKey
    <3>6. /\ cache'["wrong"] = 0
          /\ cache'["right"] # 0 => cache'["right"] <= now + CacheTTL /\ Covered(cache'["right"])
      BY <3>4, <3>5 DEF TypeOK, KeyInv, Secrets, Never
    <3>7. \A p \in Requests : req'[p].pc = "verify" => req'[p] = req[p]
      BY <3>2, <3>3
    <3>8. \A p \in Requests : req'[p].pc = "granted" =>
             req'[p].at <= now /\ req'[p].secret = "right" /\ Covered(req'[p].at)
      BY <3>2, <3>3, <3>4 DEF KeyInv, TypeOK
    <3>. QED
      BY <1>1, <3>1, <3>6, <3>7, <3>8 DEF KeyInv
  <2>3. ASSUME NEW q \in Requests, Finish(q) PROVE KeyInv'
    BY <2>3 DEF TypeOK, KeyInv, Finish, NoReq
  <2>4. CASE Revoke
    <3>1. /\ UNCHANGED <<now, cache, req>> /\ key.revoked = Never
          /\ key'.revoked = now /\ key'.expires = key.expires
      BY <2>4 DEF TypeOK, Revoke
    <3>2. cache["right"] # 0 => cache["right"] <= now + MaxFlight + CacheTTL
      BY DEF KeyInv, TypeOK, Secrets
    <3>3. \A q \in Requests : req[q].pc = "granted" => req[q].at <= now + MaxFlight + CacheTTL
      BY <1>0 DEF KeyInv
    <3>. QED
      BY <1>1, <1>0, <3>1, <3>2, <3>3 DEF KeyInv
  <2>5. CASE Tick
    <3>1. UNCHANGED <<key, cache, req>> /\ now' = now + 1
      BY <2>5 DEF Tick
    <3>2. \A q \in Requests : req[q].pc = "verify" => now + 1 <= req[q].at + MaxFlight
      BY <1>0, <2>5 DEF Tick
    <3>. QED
      BY <1>1, <1>0, <3>1, <3>2 DEF KeyInv
  <2>. QED
    BY <1>1, <2>1, <2>2, <2>3, <2>4, <2>5 DEF KeyStep
<1>2. CASE Restart
  BY <1>2 DEF Restart, KeyInv, NoReq, Secrets
<1>3. CASE UNCHANGED <<keyVars, minted>>
  BY <1>3 DEF KeyInv
<1>4. CASE KeyExchange
  <2>1. PICK c \in Calls, b \in Browsers, q \in Requests : refreshByKey(c, b, q)
    BY <1>4 DEF KeyExchange
  <2>2. minted' <= now /\ Covered(minted')
    BY <2>1 DEF refreshByKey, KeyInv
  <2>3. \A p \in Requests : req'[p] = req[p] \/ req'[p].pc = "idle"
    BY <2>1 DEF TypeOK, refreshByKey, NoReq
  <2>4. UNCHANGED <<now, key, cache>>
    BY <2>1 DEF refreshByKey
  <2>. QED
    BY <2>2, <2>3, <2>4 DEF KeyInv
<1>. QED
  BY <1>1, <1>2, <1>3, <1>4, Halves DEF vars

\* Whoever is let in has the right secret, and is let in no later than
\* MaxFlight and CacheTTL after the key was revoked or expired.
LEMMA KeyInvSuffices == KeyInv => GrantIsJustified
BY DEF KeyInv, GrantIsJustified, Covered

-----------------------------------------------------------------------------
(* Sign-in.                                                                *)

\* A sign-in keeps the browser that started it.
LEMMA StarterStays ==
    ASSUME TypeOK, LoginInv, [Next]_vars, NEW b, NEW f, Started(b, f)
    PROVE  b \in Browsers /\ f \in Flows /\ flow'[f].by = b
<1>. USE DEF flowVars, sessionVars
<1>1. f \in Flows /\ b \in Browsers /\ flow[f].by = b /\ b # None
  BY NoneAssumption DEF Started
<1>2. ASSUME NEW a \in Browsers, NEW g \in Flows, oidcLogin(a, g) PROVE flow'[f].by = b
  <2>1. g # f
    BY <1>1, <1>2 DEF oidcLogin, NoFlow
  <2>. QED
    BY <1>1, <1>2, <2>1 DEF oidcLogin, TypeOK
<1>3. ASSUME NEW g \in Flows, Authenticate(g) PROVE flow'[f].by = b
  BY <1>1, <1>3 DEF Authenticate, TypeOK, FlowStates
<1>4. ASSUME NEW c \in Calls, Exchange(c) PROVE flow'[f].by = b
  <2>1. \/ flow' = flow
        \/ flow' = [flow EXCEPT ![call[c].f].code = "spent", ![call[c].f].kid = Newest]
    BY <1>4 DEF Exchange
  <2>. QED
    BY <1>1, <2>1 DEF TypeOK, FlowStates
<1>5. ASSUME UNCHANGED flow PROVE flow'[f].by = b
  BY <1>1, <1>5
<1>6. flow'[f].by = b
  BY <1>2, <1>3, <1>4, <1>5, Halves
     DEF LoginStep, oidcCallback, refresh, VerifyIDToken, RoleResolver, Answer,
         oidcLogout, CookieExpires, TokenExpires, RotateKeys,
         KeyExchange, refreshByKey, Restart, vars
<1>. QED
  BY <1>1, <1>6

\* What LoginInv says of one call.
CallOk(r) ==
    /\ r.pc = "idle" => r.f = None
    /\ r.pc \in {"exchange", "verify", "roles"} => r.f # None
    /\ r.f # None => Started(r.b, r.f) /\ r.nonce = r.f
    /\ r.pc = "answer" => Rightful(r.b, r.tok)

\* A call that a step changes is made from what the browser holds, moves on
\* with the flow it has, or is gone.
LEMMA CallStep ==
    ASSUME TypeOK, LoginInv, [Next]_vars, NEW c \in Calls
    PROVE  CallOk(call'[c])
<1>. USE DEF flowVars, sessionVars
<1>0. CallOk(call[c]) /\ CallOk(NoCall)
  BY DEF LoginInv, CallOk, NoCall
<1>1. ASSUME NEW d \in Calls, NEW b \in Browsers, NEW f \in Flows, oidcCallback(d, b, f)
      PROVE  CallOk(call'[c])
  <2>1. Started(b, f) /\ cookie[b] = f
    BY <1>1, NoneAssumption DEF oidcCallback, StateMatches, LoginInv
  <2>2. call' = [call EXCEPT ![d] =
                  [NoCall EXCEPT !.pc = "exchange", !.b = b, !.f = f, !.nonce = f]]
    BY <1>1, <2>1 DEF oidcCallback
  <2>3. CASE c = d
    BY <2>1, <2>2, <2>3, NoneAssumption DEF TypeOK, CallOk, NoCall
  <2>4. CASE c # d
    BY <1>0, <2>2, <2>4 DEF TypeOK
  <2>. QED
    BY <2>3, <2>4
<1>2. ASSUME NEW d \in Calls, NEW b \in Browsers, NEW token,
             refresh(d, b, token) \/ (token = ByKey /\ \E q \in Requests : refreshByKey(d, b, q))
      PROVE  CallOk(call'[c])
  <2>1. Rightful(b, token)
    BY <1>2 DEF refresh, Verify, LoginInv, Rightful
  <2>2. call' = [call EXCEPT ![d] = [NoCall EXCEPT !.pc = "answer", !.b = b, !.tok = token]]
    BY <1>2 DEF refresh, refreshByKey
  <2>3. CASE c = d
    BY <2>1, <2>2, <2>3 DEF TypeOK, CallOk, NoCall
  <2>4. CASE c # d
    BY <1>0, <2>2, <2>4 DEF TypeOK
  <2>. QED
    BY <2>3, <2>4
<1>3. ASSUME NEW d \in Calls, Exchange(d) \/ VerifyIDToken(d) PROVE CallOk(call'[c])
  <2>1. CallOk(call[d]) /\ call[d].pc \in {"exchange", "verify"} /\ call[d] \in CallStates
    BY <1>3 DEF LoginInv, CallOk, Exchange, VerifyIDToken, TypeOK
  <2>2. PICK s \in {"verify", "roles"} :
           \/ call' = [call EXCEPT ![d] = NoCall]
           \/ call' = [call EXCEPT ![d] = [call[d] EXCEPT !.pc = s]]
    BY <1>3 DEF Exchange, VerifyIDToken, TypeOK
  <2>3. CallOk([call[d] EXCEPT !.pc = s])
    BY <2>1 DEF CallOk, CallStates
  <2>. QED
    BY <1>0, <2>2, <2>3 DEF TypeOK
<1>4. ASSUME NEW d \in Calls, RoleResolver(d) PROVE CallOk(call'[c])
  <2>1. CallOk(call[d]) /\ call[d].pc = "roles" /\ call[d] \in CallStates
    BY <1>4 DEF LoginInv, CallOk, RoleResolver, TypeOK
  <2>2. call' = [call EXCEPT ![d] = [@ EXCEPT !.pc = "answer", !.tok = call[d].f]]
    BY <1>4 DEF RoleResolver
  <2>3. CallOk([call[d] EXCEPT !.pc = "answer", !.tok = call[d].f])
    BY <2>1 DEF CallOk, CallStates, Rightful, Started
  <2>. QED
    BY <1>0, <2>2, <2>3 DEF TypeOK
<1>5. ASSUME NEW d \in Calls, Answer(d) PROVE CallOk(call'[c])
  BY <1>0, <1>5 DEF Answer, TypeOK
<1>6. CASE Restart
  BY <1>0, <1>6 DEF Restart
<1>7. CASE UNCHANGED call
  BY <1>0, <1>7
<1>. QED
  BY <1>1, <1>2, <1>3, <1>4, <1>5, <1>6, <1>7, Halves
     DEF LoginStep, KeyExchange, oidcLogin, Authenticate, oidcLogout, CookieExpires,
         TokenExpires, RotateKeys, vars

\* What a browser is given comes from its own sign-ins or from the key.
LEMMA LoginInvStep == ASSUME TypeOK, LoginInv, [Next]_vars PROVE LoginInv'
<1>. USE DEF flowVars, sessionVars
<1>. DEFINE StartedThen(b, f) == b \in Browsers /\ f \in Flows /\ flow'[f].by = b
<1>. DEFINE RightfulThen(b, token) == b \in Browsers /\ (token = ByKey \/ StartedThen(b, token))
<1>0. ASSUME NEW b, NEW f, Started(b, f) PROVE StartedThen(b, f)
  BY <1>0, StarterStays
<1>r. ASSUME NEW b, NEW token, Rightful(b, token) PROVE RightfulThen(b, token)
  BY <1>0, <1>r DEF Rightful
<1>1. ASSUME NEW b \in Browsers, cookie'[b] # None PROVE StartedThen(b, cookie'[b])
  <2>1. ASSUME NEW a \in Browsers, NEW f \in Flows, oidcLogin(a, f)
        PROVE  StartedThen(b, cookie'[b])
    <3>1. CASE a = b
      BY <2>1, <3>1 DEF oidcLogin, TypeOK, FlowStates
    <3>2. CASE a # b
      <4>1. cookie'[b] = cookie[b]
        BY <2>1, <3>2 DEF oidcLogin, TypeOK
      <4>. QED
        BY <1>1, <4>1, <1>0 DEF LoginInv
    <3>. QED
      BY <3>1, <3>2
  <2>2. ASSUME ~\E a \in Browsers, f \in Flows : oidcLogin(a, f)
        PROVE  cookie'[b] = cookie[b]
    BY <1>1, <2>2, Halves
       DEF LoginStep, Authenticate, oidcCallback, refresh, Exchange, VerifyIDToken,
           RoleResolver, Answer, oidcLogout, CookieExpires, TokenExpires, RotateKeys,
           KeyExchange, refreshByKey, Restart, vars, TypeOK
  <2>. QED
    BY <1>1, <2>1, <2>2, <1>0 DEF LoginInv
<1>2. ASSUME NEW b \in Browsers
      PROVE  /\ \A token \in kept'[b] : RightfulThen(b, token)
             /\ session'[b] # None => session'[b] \in kept'[b]
  <2>0. /\ \A token \in kept[b] : Rightful(b, token)
        /\ session[b] # None => session[b] \in kept[b]
    BY DEF LoginInv
  <2>1. ASSUME NEW c \in Calls, Answer(c), call[c].b = b
        PROVE  /\ \A token \in kept'[b] : Rightful(b, token)
               /\ session'[b] # None => session'[b] \in kept'[b]
    <3>1. /\ session'[b] = call[c].tok /\ kept'[b] = kept[b] \cup {call[c].tok}
          /\ Rightful(b, call[c].tok)
      BY <2>1 DEF Answer, TypeOK, LoginInv
    <3>. QED
      BY <2>0, <3>1
  <2>2. ASSUME NEW token \in Tokens, TokenExpires(b, token)
        PROVE  kept'[b] \subseteq kept[b] /\ (session'[b] # None => session'[b] \in kept'[b])
    <3>1. /\ kept'[b] = kept[b] \ {token}
          /\ session'[b] = IF session[b] = token THEN None ELSE session[b]
      BY <2>2 DEF TokenExpires, TypeOK
    <3>. QED
      BY <2>0, <3>1
  <2>3. ASSUME ~\E c \in Calls : Answer(c) /\ call[c].b = b,
               ~\E token \in Tokens : TokenExpires(b, token)
        PROVE  kept'[b] = kept[b] /\ (session'[b] = session[b] \/ session'[b] = None)
    BY <2>3, Halves
       DEF LoginStep, oidcLogin, Authenticate, oidcCallback, refresh, Exchange,
           VerifyIDToken, RoleResolver, Answer, oidcLogout, CookieExpires,
           TokenExpires, RotateKeys, KeyExchange, refreshByKey, Restart, vars, TypeOK
  <2>. QED
    BY <2>0, <2>1, <2>2, <2>3, <1>r
<1>3. ASSUME NEW c \in Calls
      PROVE  /\ call'[c].pc = "idle" => call'[c].f = None
             /\ call'[c].pc \in {"exchange", "verify", "roles"} => call'[c].f # None
             /\ call'[c].f # None =>
                   StartedThen(call'[c].b, call'[c].f) /\ call'[c].nonce = call'[c].f
             /\ call'[c].pc = "answer" => RightfulThen(call'[c].b, call'[c].tok)
  <2>1. CallOk(call'[c])
    BY CallStep
  <2>2. /\ Started(call'[c].b, call'[c].f) => StartedThen(call'[c].b, call'[c].f)
        /\ Rightful(call'[c].b, call'[c].tok) => RightfulThen(call'[c].b, call'[c].tok)
    BY <1>0, <1>r
  <2>. QED
    BY <2>1, <2>2 DEF CallOk
<1>. QED
  BY <1>1, <1>2, <1>3 DEF LoginInv, Started, Rightful

\* A token stems from a sign-in of its client, or from the key when it was good.
LEMMA LoginInvSuffices == LoginInv /\ KeyInv => SessionOfItsLogin
<1>. SUFFICES ASSUME LoginInv, KeyInv, NEW b \in Browsers, NEW token \in Tokens,
                     token \in kept[b] \/ session[b] = token
              PROVE  IF token = ByKey THEN Covered(minted) ELSE flow[token].by = b
  BY DEF SessionOfItsLogin
<1>1. token # None
  BY NoneAssumption DEF Tokens, None, ByKey
<1>2. token \in kept[b]
  BY <1>1 DEF LoginInv
<1>3. Rightful(b, token)
  BY <1>2 DEF LoginInv
<1>. QED
  BY <1>3 DEF Rightful, Started, KeyInv

-----------------------------------------------------------------------------
(* Rotation of the provider's keys.                                        *)

\* The greatest member is the one CHOOSE finds.
LEMMA GreatestIsUnique ==
    ASSUME NEW S \in SUBSET Int, NEW x \in S, \A j \in S : j <= x
    PROVE  (CHOOSE k \in S : \A j \in S : j <= k) = x
<1>. DEFINE y == CHOOSE k \in S : \A j \in S : j <= k
<1>1. y \in S /\ \A j \in S : j <= y
  OBVIOUS
<1>2. x \in Int /\ y \in Int /\ x <= y /\ y <= x
  BY <1>1
<1>3. x = y
  BY <1>2
<1>. QED
  BY <1>3

\* A rotation adds a key newer than all, or retires one that is not the newest.
LEMMA RotateStep ==
    ASSUME TypeOK, KidInv, RotateKeys
    PROVE  /\ \E k \in published' : \A j \in published' : j <= k
           /\ Newest <= Newest'
           /\ \A j \in published' : j <= Newest => j \in published
<1>0. Newest \in published /\ \A j \in published : j <= Newest
  BY NewestIsPublished
<1>1. published \in SUBSET Int /\ Newest \in Int
  BY <1>0 DEF TypeOK
<1>2. CASE published' = published \cup {Newest + 1}
  <2>1. /\ Newest + 1 \in published' /\ published' \in SUBSET Int
        /\ \A j \in published' : j <= Newest + 1
    BY <1>0, <1>1, <1>2
  <2>2. Newest' = Newest + 1
    BY <2>1, GreatestIsUnique DEF Newest
  <2>. QED
    BY <1>1, <1>2, <2>1, <2>2
<1>3. ASSUME NEW k \in published \ {Newest}, published' = published \ {k}
      PROVE  /\ \E i \in published' : \A j \in published' : j <= i
             /\ Newest <= Newest'
             /\ \A j \in published' : j <= Newest => j \in published
  <2>1. /\ Newest \in published' /\ published' \in SUBSET Int
        /\ \A j \in published' : j <= Newest
    BY <1>0, <1>1, <1>3
  <2>2. Newest' = Newest
    BY <2>1, GreatestIsUnique DEF Newest
  <2>. QED
    BY <1>1, <1>3, <2>1, <2>2
<1>. QED
  BY <1>2, <1>3 DEF RotateKeys

\* The flow of a sign-in keeps its key, or an exchange signs with the newest.
LEMMA FlowMoves ==
    ASSUME TypeOK, LoginInv, [Next]_vars, NEW f \in Flows
    PROVE  \/ flow'[f].code = flow[f].code /\ flow'[f].kid = flow[f].kid
           \/ flow'[f].code # "spent" /\ flow'[f].kid = flow[f].kid
           \/ \E c \in Calls : /\ Exchange(c) /\ call[c].f = f /\ flow'[f].kid = Newest
<1>. USE DEF flowVars, sessionVars
<1>1. ASSUME NEW b \in Browsers, NEW g \in Flows, oidcLogin(b, g)
      PROVE  flow'[f].code = flow[f].code /\ flow'[f].kid = flow[f].kid
  BY <1>1 DEF oidcLogin, TypeOK, FlowStates
<1>2. ASSUME NEW g \in Flows, Authenticate(g)
      PROVE  /\ flow'[f].kid = flow[f].kid
             /\ flow'[f].code = flow[f].code \/ flow'[f].code # "spent"
  BY <1>2 DEF Authenticate, TypeOK, FlowStates
<1>3. ASSUME NEW c \in Calls, Exchange(c)
      PROVE  \/ flow'[f] = flow[f]
             \/ call[c].f = f /\ flow'[f].kid = Newest
  <2>1. \/ flow' = flow
        \/ flow' = [flow EXCEPT ![call[c].f].code = "spent", ![call[c].f].kid = Newest]
    BY <1>3 DEF Exchange
  <2>. QED
    BY <2>1 DEF TypeOK, FlowStates
<1>4. ASSUME UNCHANGED flow PROVE flow'[f] = flow[f]
  BY <1>4
<1>. QED
  BY <1>1, <1>2, <1>3, <1>4, Halves
     DEF LoginStep, oidcCallback, refresh, VerifyIDToken, RoleResolver, Answer,
         oidcLogout, CookieExpires, TokenExpires, RotateKeys,
         KeyExchange, refreshByKey, Restart, vars

\* The keys in the JWKS change by a rotation only.
LEMMA PublishedMoves ==
    ASSUME [Next]_vars PROVE UNCHANGED published \/ RotateKeys
<1>. USE DEF flowVars, sessionVars
<1>. QED
  BY Halves
     DEF LoginStep, oidcLogin, Authenticate, oidcCallback, refresh, Exchange,
         VerifyIDToken, RoleResolver, Answer, oidcLogout, CookieExpires, TokenExpires,
         KeyExchange, refreshByKey, Restart, vars

\* No step signs with a key newer than the newest or brings back a retired one.
LEMMA KidInvStep == ASSUME TypeOK, LoginInv, KidInv, [Next]_vars PROVE KidInv'
<1>0. Newest \in published /\ Newest \in Int
  <2>1. Newest \in published /\ published \subseteq 1..Kids
    BY NewestIsPublished DEF TypeOK
  <2>. QED
    BY <2>1
<1>1. (\E k \in published' : \A j \in published' : j <= k) /\ Newest <= Newest'
  <2>1. CASE UNCHANGED published
    BY <1>0, <2>1 DEF KidInv, Newest
  <2>. QED
    BY <2>1, PublishedMoves, RotateStep
<1>2. Newest' \in Int
  <2>1. published' \in SUBSET Int
    BY TypeStep DEF TypeOK
  <2>. QED
    BY <1>1, <2>1 DEF Newest
<1>3. ASSUME NEW f \in Flows PROVE flow'[f].kid <= Newest'
  <2>1. flow'[f].kid = flow[f].kid \/ flow'[f].kid = Newest
    BY FlowMoves
  <2>2. flow[f].kid \in Int /\ flow[f].kid <= Newest
    BY DEF TypeOK, KidInv, FlowStates
  <2>. QED
    BY <1>0, <1>1, <1>2, <2>1, <2>2
<1>. QED
  BY <1>1, <1>3 DEF KidInv

\* Without faults a call whose code was taken goes on to its answer, as long
\* as the provider still publishes the key of its token.
LEMMA RotationStep ==
    ASSUME TypeOK, LoginInv, KidInv, RotationIsTransparent, [Next]_vars
    PROVE  RotationIsTransparent'
<1>. USE DEF flowVars, sessionVars
<1>. SUFFICES ASSUME NEW f \in Flows, flow'[f].code = "spent",
                     flow'[f].kid \in published', faults' = 0
              PROVE  \/ f \in granted'
                     \/ \E c \in Calls : call'[c].f = f /\ call'[c].pc # "exchange"
  BY DEF RotationIsTransparent
<1>. DEFINE Goal == \/ f \in granted'
                    \/ \E c \in Calls : call'[c].f = f /\ call'[c].pc # "exchange"
<1>0. f # None /\ call \in [Calls -> CallStates] /\ faults \in Nat
  BY NoneAssumption DEF TypeOK
<1>f. ~Fault
  BY <1>0 DEF Fault
<1>1. ASSUME NEW c \in Calls, Exchange(c), call[c].f = f,
             flow'[f].kid # flow[f].kid \/ flow'[f].code # flow[f].code
      PROVE  Goal
  <2>1. call' = [call EXCEPT ![c].pc = "verify"]
    BY <1>1, <1>f DEF Exchange
  <2>2. call'[c].f = f /\ call'[c].pc = "verify"
    BY <1>0, <1>1, <2>1 DEF CallStates
  <2>. QED
    BY <2>2
<1>2. ASSUME flow'[f].code = flow[f].code, flow'[f].kid = flow[f].kid PROVE Goal
  <2>1. flow[f].kid \in published
    <3>1. flow[f].kid <= Newest
      BY DEF KidInv
    <3>. QED
      BY <1>2, <3>1, PublishedMoves, RotateStep
  <2>2. faults = 0
    BY <1>f, <1>0, Halves
       DEF LoginStep, oidcLogin, Authenticate, oidcCallback, refresh, Exchange,
           VerifyIDToken, RoleResolver, Answer, oidcLogout, CookieExpires,
           TokenExpires, RotateKeys, KeyExchange, refreshByKey, Restart, vars
  <2>3. f \in granted \/ \E c \in Calls : call[c].f = f /\ call[c].pc # "exchange"
    BY <1>2, <2>1, <2>2 DEF RotationIsTransparent
  <2>4. CASE f \in granted
    <3>1. granted \subseteq granted'
      BY Halves
         DEF LoginStep, oidcLogin, Authenticate, oidcCallback, refresh, Exchange,
             VerifyIDToken, RoleResolver, Answer, oidcLogout, CookieExpires,
             TokenExpires, RotateKeys, KeyExchange, refreshByKey, Restart, vars
    <3>. QED
      BY <2>4, <3>1
  <2>5. ASSUME NEW d \in Calls, call[d].f = f, call[d].pc # "exchange" PROVE Goal
    <3>0. call[d].pc # "idle" /\ call[d] \in CallStates /\ call[d].nonce = f
      BY <1>0, <2>5 DEF LoginInv
    <3>1. ASSUME NEW c \in Calls, VerifyIDToken(c), c = d PROVE Goal
      <4>1. flow[f].kid \in KeysFor(flow[f].kid)
        BY <2>1 DEF KeysFor
      <4>2. call' = [call EXCEPT ![d] = [call[d] EXCEPT !.pc = "roles"]]
        BY <1>f, <2>5, <3>0, <3>1, <4>1 DEF VerifyIDToken
      <4>3. call'[d].f = f /\ call'[d].pc = "roles"
        BY <1>0, <2>5, <3>0, <4>2 DEF CallStates
      <4>. QED
        BY <4>3
    <3>2. ASSUME NEW c \in Calls, RoleResolver(c), c = d PROVE Goal
      <4>1. call' = [call EXCEPT ![d] = [@ EXCEPT !.pc = "answer", !.tok = call[d].f]]
        BY <3>2 DEF RoleResolver
      <4>2. call'[d].f = f /\ call'[d].pc = "answer"
        BY <1>0, <2>5, <3>0, <4>1 DEF CallStates
      <4>. QED
        BY <4>2
    <3>3. ASSUME NEW c \in Calls, Answer(c), c = d PROVE Goal
      BY <1>0, <2>5, <3>3 DEF Answer
    <3>4. ASSUME NEW c \in Calls,
                 \/ Exchange(c) \/ VerifyIDToken(c) \/ RoleResolver(c) \/ Answer(c)
                 \/ \E b \in Browsers, token \in Tokens : refresh(c, b, token)
                 \/ \E b \in Browsers, q \in Requests : refreshByKey(c, b, q)
                 \/ \E b \in Browsers, g \in Flows : oidcCallback(c, b, g)
          PROVE  call' = [call EXCEPT ![c] = call'[c]]
      BY <1>0, <3>4
         DEF Exchange, VerifyIDToken, RoleResolver, Answer, refresh, refreshByKey, oidcCallback
    <3>5. ASSUME NEW c \in Calls,
                 \/ Exchange(c)
                 \/ \E b \in Browsers, token \in Tokens : refresh(c, b, token)
                 \/ \E b \in Browsers, q \in Requests : refreshByKey(c, b, q)
                 \/ \E b \in Browsers, g \in Flows : oidcCallback(c, b, g)
          PROVE  c # d
      BY <2>5, <3>0, <3>5 DEF Exchange, refresh, refreshByKey, oidcCallback
    <3>6. ASSUME call'[d] = call[d] PROVE Goal
      BY <2>5, <3>6
    <3>7. ASSUME NEW c \in Calls, c # d, call' = [call EXCEPT ![c] = call'[c]] PROVE Goal
      BY <1>0, <3>6, <3>7
    <3>. QED
      BY <1>f, <3>1, <3>2, <3>3, <3>4, <3>5, <3>6, <3>7, Halves
         DEF LoginStep, oidcLogin, Authenticate, oidcLogout, CookieExpires,
             TokenExpires, RotateKeys, KeyExchange, refreshByKey, Restart, vars
  <2>. QED
    BY <2>3, <2>4, <2>5
<1>. QED
  BY <1>1, <1>2, FlowMoves

-----------------------------------------------------------------------------
(* The theorems.                                                           *)

\* All parts together are inductive.
AccessInv == TypeOK /\ KeyInv /\ LoginInv /\ KidInv /\ RotationIsTransparent

\* The invariant holds at the start and is kept by every step.
THEOREM AccessInvariant == Spec => []AccessInv
<1>1. Init => AccessInv
  <2>. SUFFICES ASSUME Init PROVE AccessInv
    OBVIOUS
  <2>1. KeyInv
    BY AccessAssumption DEF Init, KeyInv, Secrets, NoReq, Covered, Never
  <2>2. LoginInv
    BY DEF Init, LoginInv, NoCall
  <2>3. Newest = 1
    BY GreatestIsUnique DEF Init, Newest
  <2>4. KidInv /\ RotationIsTransparent
    BY <2>3 DEF Init, KidInv, RotationIsTransparent, NoFlow, None
  <2>. QED
    BY <2>1, <2>2, <2>4, TypeInit DEF AccessInv
<1>2. AccessInv /\ [Next]_vars => AccessInv'
  BY TypeStep, KeyInvStep, LoginInvStep, KidInvStep, RotationStep DEF AccessInv
<1>. QED
  BY <1>1, <1>2, PTL DEF Spec

\* Every variable keeps its type.
THEOREM AccessTypeCorrect == Spec => []TypeOK
<1>1. AccessInv => TypeOK
  BY DEF AccessInv
<1>. QED
  BY <1>1, AccessInvariant, PTL

\* Whoever is let in presented the right secret, no later than MaxFlight and
\* CacheTTL after the key was revoked or expired, however many requests race.
THEOREM GrantsAreJustified == Spec => []GrantIsJustified
<1>1. AccessInv => GrantIsJustified
  BY KeyInvSuffices DEF AccessInv
<1>. QED
  BY <1>1, AccessInvariant, PTL

\* Whatever callbacks, refreshes of tokens and keys, and logouts interleave, a
\* client's tokens stem from its own sign-ins or from a key that was good.
THEOREM SessionsBelong == Spec => []SessionOfItsLogin
<1>1. AccessInv => SessionOfItsLogin
  BY LoginInvSuffices DEF AccessInv
<1>. QED
  BY <1>1, AccessInvariant, PTL

\* Without faults, a rotation of the provider's keys wastes no code.
THEOREM RotationWastesNoCode == Spec => []RotationIsTransparent
<1>1. AccessInv => RotationIsTransparent
  BY DEF AccessInv
<1>. QED
  BY <1>1, AccessInvariant, PTL
=============================================================================
