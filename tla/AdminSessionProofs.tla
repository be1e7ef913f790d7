------------------------- MODULE AdminSessionProofs -------------------------
(***************************************************************************)
(* The safety of the admin login, for every number of browsers, accounts,  *)
(* configurations, logins and callbacks in flight.                         *)
(***************************************************************************)
EXTENDS AdminSession, TLAPS

\* A token in the hands of b, or on its way to b.
TokenGood(t, b) ==
    /\ t.exp <= now + TTL
    /\ t.login # 0 =>
          /\ began[t.login] = b
          /\ eligibleAt[t.account] >= 0 /\ t.exp <= eligibleAt[t.account] + TTL

CallbackGood(c) ==
    callback[c] # NoCallback =>
        /\ began[callback[c].state] = callback[c].browser
        /\ signedIn[callback[c].state] \in Accounts
        /\ TokenGood(callback[c].token, callback[c].browser)

CookieGood(b) == stateCookie[b] # 0 => began[stateCookie[b]] = b

EligibleNow(a) == eligibleAt[a] <= now /\ (Eligible(config, a) => eligibleAt[a] = now)

IInv ==
    /\ TypeOK
    /\ \A b \in Browsers : TokenGood(session[b], b)
    /\ \A c \in Callbacks : CallbackGood(c)
    /\ \A b \in Browsers : CookieGood(b)
    /\ \A a \in Accounts : EligibleNow(a)

-----------------------------------------------------------------------------
LEMMA TokenFacts ==
    /\ NoToken.exp = -1 /\ NoToken.login = 0 /\ NoToken \notin Token
    /\ NoCallback.at = "idle" /\ NoCallback \notin Callback
<1>1. NoToken.exp = -1 /\ NoToken.login = 0
  BY DEF NoToken
<1>2. NoCallback.at = "idle"
  BY DEF NoCallback
<1>3. \A t \in Token : t.exp \in Nat
  BY AdminSessionAssumption DEF Token
<1>4. \A k \in Callback : k.at # "idle"
  BY DEF Callback
<1> HIDE DEF NoToken
<1> QED BY <1>1, <1>2, <1>3, <1>4

LEMMA IssuedToken ==
    ASSUME TypeOK, NEW a \in Accounts, NEW n \in 0..MaxLogins, NEW ttl \in 1..TTL,
           NEW s \in Secrets
    PROVE  /\ Issued(a, n, ttl, s) \in Token
           /\ Issued(a, n, ttl, s).exp = now + ttl
           /\ Issued(a, n, ttl, s).login = n /\ Issued(a, n, ttl, s).account = a
<1>1. now + ttl \in 0..(MaxTime + TTL)
  BY AdminSessionAssumption DEF TypeOK
<1>2. Issued(a, n, ttl, s).exp = now + ttl
  BY DEF Issued
<1>3. Issued(a, n, ttl, s).login = n /\ Issued(a, n, ttl, s).account = a
  BY DEF Issued
<1>4. Issued(a, n, ttl, s) \in Token
  <2> DEFINE e == now + ttl
  <2>1. Issued(a, n, ttl, s) = [account |-> a, login |-> n, exp |-> e, secret |-> s]
    BY DEF Issued
  <2>2. e \in 0..(MaxTime + TTL)
    BY <1>1
  <2> HIDE DEF e
  <2> QED BY <2>1, <2>2 DEF Token
<1> QED BY <1>2, <1>3, <1>4

LEMMA InitIInv == Init => IInv
<1> SUFFICES ASSUME Init PROVE IInv
  OBVIOUS
<1> USE AdminSessionAssumption
<1>1. TypeOK
  <2>1. now \in 0..MaxTime /\ config \in Configs
    BY DEF Init
  <2>2. eligibleAt \in [Accounts -> -1..MaxTime]
    BY DEF Init
  <2>3. stateCookie \in [Browsers -> 0..MaxLogins]
    BY DEF Init
  <2> QED BY <2>1, <2>2, <2>3 DEF Init, TypeOK
<1>2. ASSUME NEW b \in Browsers
      PROVE  TokenGood(session[b], b) /\ CookieGood(b)
  <2>1. session[b] = NoToken /\ stateCookie[b] = 0 /\ now = 0
    BY DEF Init
  <2>2. session[b].exp = -1 /\ session[b].login = 0
    BY <2>1, TokenFacts
  <2> QED BY <2>1, <2>2 DEF TokenGood, CookieGood
<1>3. \A c \in Callbacks : CallbackGood(c)
  BY DEF Init, CallbackGood
<1>4. \A a \in Accounts : EligibleNow(a)
  BY DEF Init, EligibleNow
<1> QED BY <1>1, <1>2, <1>3, <1>4 DEF IInv

-----------------------------------------------------------------------------
\* Nothing that a token refers to is taken back.
Later ==
    /\ now <= now'
    /\ \A n \in Logins : began[n] # None => began'[n] = began[n]
    /\ \A n \in Logins : signedIn[n] # None => signedIn'[n] = signedIn[n]
    /\ \A a \in Accounts : eligibleAt[a] <= eligibleAt'[a]

LEMMA StepLater ==
    ASSUME IInv, [Next]_vars
    PROVE  Later /\ (\A a \in Accounts : EligibleNow(a)')
<1> USE AdminSessionAssumption
<1>1. /\ now \in 0..MaxTime /\ eligibleAt \in [Accounts -> -1..MaxTime]
      /\ began \in [Logins -> Browsers \cup {None}]
      /\ signedIn \in [Logins -> Accounts \cup {None}]
      /\ \A a \in Accounts : EligibleNow(a)
  BY DEF IInv, TypeOK
<1>2. /\ \A n \in Logins : began[n] # None => began'[n] = began[n]
      /\ \A n \in Logins : signedIn[n] # None => signedIn'[n] = signedIn[n]
  <2>1. CASE \E b \in Browsers : Login(b)
    BY <1>1, <2>1 DEF Login
  <2>2. CASE \E n \in Logins, a \in Accounts : Authorize(n, a)
    BY <1>1, <2>2 DEF Authorize
  <2>3. CASE UNCHANGED <<began, signedIn>>
    BY <2>3
  <2> QED
    BY <2>1, <2>2, <2>3
       DEF Next, vars, Logout, Forget, Open, CallbackStep, Exchange, Verify, AnswerArrives,
           AnswerLost, Rescue, Tick, Restart
<1>3. CASE Tick
  <2>1. now' = now + 1 /\ eligibleAt' = EligibleUntil(config, now + 1) /\ config' = config
    BY <1>3 DEF Tick
  <2>2. ASSUME NEW a \in Accounts
        PROVE  eligibleAt[a] <= eligibleAt'[a] /\ EligibleNow(a)'
    <3>1. /\ eligibleAt'[a] = IF Eligible(config, a) THEN now + 1 ELSE eligibleAt[a]
          /\ eligibleAt[a] \in -1..MaxTime /\ eligibleAt[a] <= now
      BY <1>1, <2>1 DEF EligibleUntil, EligibleNow
    <3>2. Eligible(config, a)' <=> Eligible(config, a)
      BY <2>1 DEF Eligible, Allowed
    <3> QED BY <1>1, <2>1, <3>1, <3>2 DEF EligibleNow
  <2> QED BY <1>1, <1>2, <2>1, <2>2 DEF Later
<1>4. ASSUME NEW cf \in Configs, Restart(cf)
      PROVE  Later /\ (\A a \in Accounts : EligibleNow(a)')
  <2>1. now' = now /\ eligibleAt' = EligibleUntil(cf, now) /\ config' = cf
    BY <1>4 DEF Restart
  <2>2. ASSUME NEW a \in Accounts
        PROVE  eligibleAt[a] <= eligibleAt'[a] /\ EligibleNow(a)'
    <3>1. /\ eligibleAt'[a] = IF Eligible(cf, a) THEN now ELSE eligibleAt[a]
          /\ eligibleAt[a] \in -1..MaxTime /\ eligibleAt[a] <= now
      BY <1>1, <2>1 DEF EligibleUntil, EligibleNow
    <3>2. Eligible(config, a)' <=> Eligible(cf, a)
      BY <2>1 DEF Eligible, Allowed
    <3> QED BY <1>1, <2>1, <3>1, <3>2 DEF EligibleNow
  <2> QED BY <1>1, <1>2, <2>1, <2>2 DEF Later
<1>5. CASE UNCHANGED World
  <2>1. now' = now /\ eligibleAt' = eligibleAt /\ config' = config
    BY <1>5 DEF World
  <2>2. \A a \in Accounts : EligibleNow(a)'
    BY <1>1, <2>1 DEF EligibleNow, Eligible, Allowed
  <2> QED BY <1>1, <1>2, <2>1, <2>2 DEF Later
<1> QED
  BY <1>3, <1>4, <1>5
     DEF Next, vars, World, Login, Logout, Forget, Authorize, Open, CallbackStep, Exchange,
         Verify, AnswerArrives, AnswerLost, Rescue

\* A good token stays good.
LEMMA GoodStays ==
    ASSUME IInv, Later, TypeOK', NEW b \in Browsers
    PROVE  \A t \in Token \cup {NoToken} : TokenGood(t, b) => TokenGood(t, b)'
<1> USE AdminSessionAssumption
<1>1. SUFFICES ASSUME NEW t \in Token \cup {NoToken}, TokenGood(t, b)
               PROVE  TokenGood(t, b)'
  OBVIOUS
<1>2. now \in Nat /\ now' \in Nat /\ now <= now'
  BY DEF IInv, TypeOK, Later
<1>3. t.exp \in Int /\ t.exp <= now' + TTL
  <2>1. t.exp \in Int
    BY TokenFacts DEF Token
  <2> QED BY <1>1, <1>2, <2>1 DEF TokenGood
<1>4. ASSUME t.login # 0
      PROVE  /\ began'[t.login] = b
             /\ eligibleAt'[t.account] >= 0 /\ t.exp <= eligibleAt'[t.account] + TTL
  <2>1. t \in Token
    BY <1>4, TokenFacts
  <2>2. t.login \in Logins /\ t.account \in Accounts
    BY <1>4, <2>1 DEF Token, Logins
  <2>3. began'[t.login] = b
    BY <1>1, <1>4, <2>2 DEF TokenGood, Later
  <2>4. /\ eligibleAt[t.account] \in Int /\ eligibleAt'[t.account] \in Int
        /\ eligibleAt[t.account] <= eligibleAt'[t.account]
    BY <2>2 DEF IInv, TypeOK, Later
  <2> QED BY <1>1, <1>3, <1>4, <2>3, <2>4 DEF TokenGood
<1> QED BY <1>3, <1>4 DEF TokenGood

-----------------------------------------------------------------------------
\* What Verify decides for the callback c: a good token or none.
LEMMA VerifyIssues ==
    ASSUME IInv, NEW c \in Callbacks, Verify(c)
    PROVE  \E t \in Token \cup {NoToken} :
              /\ callback' = [callback EXCEPT ![c] =
                                [callback[c] EXCEPT !.at = "answer", !.token = t]]
              /\ TokenGood(t, callback[c].browser)
<1> USE AdminSessionAssumption
<1> DEFINE a == signedIn[callback[c].state]
<1>1. callback[c] \in Callback /\ CallbackGood(c) /\ callback[c] # NoCallback
  BY TokenFacts DEF IInv, TypeOK, Verify
<1>2. /\ began[callback[c].state] = callback[c].browser /\ a \in Accounts
      /\ callback[c].state \in Logins /\ callback[c].state # 0
      /\ TokenGood(callback[c].token, callback[c].browser)
      /\ callback[c].token \in Token \cup {NoToken}
  BY <1>1 DEF CallbackGood, Callback, Logins
<1>3. CASE Eligible(config, a) /\ CallbackGoes(c, [callback[c] EXCEPT !.at = "answer",
                                 !.token = Issued(a, callback[c].state, TTL, config.secret)])
  <2> DEFINE t == Issued(a, callback[c].state, TTL, config.secret)
  <2>1. config.secret \in Secrets /\ TTL \in 1..TTL /\ callback[c].state \in 0..MaxLogins
    BY <1>2 DEF IInv, TypeOK, Logins
  <2>2. /\ t \in Token /\ t.exp = now + TTL
        /\ t.login = callback[c].state /\ t.account = a
    BY <1>2, <2>1, IssuedToken DEF IInv
  <2>3. eligibleAt[a] = now /\ now \in Nat
    BY <1>2, <1>3 DEF IInv, TypeOK, EligibleNow
  <2> HIDE DEF t
  <2>4. TokenGood(t, callback[c].browser)
    BY <1>2, <2>2, <2>3 DEF TokenGood
  <2> QED BY <1>3, <2>2, <2>4 DEF CallbackGoes, t
<1>4. CASE CallbackGoes(c, [callback[c] EXCEPT !.at = "answer"])
  <2> DEFINE t == callback[c].token
  <2>1. [callback[c] EXCEPT !.at = "answer"] = [callback[c] EXCEPT !.at = "answer", !.token = t]
    BY <1>1 DEF Callback
  <2> QED BY <1>2, <1>4, <2>1 DEF CallbackGoes
<1> QED BY <1>3, <1>4 DEF Verify

\* What a step can do to a callback: nothing, end it, begin it, or let it go on.
LEMMA CallbacksKept ==
    ASSUME IInv, [Next]_vars, Later
    PROVE  \A c \in Callbacks :
              \/ callback'[c] \in {callback[c], NoCallback}
              \/ /\ callback'[c] \in Callback
                 /\ began[callback'[c].state] = callback'[c].browser
                 /\ signedIn[callback'[c].state] \in Accounts
                 /\ TokenGood(callback'[c].token, callback'[c].browser)
<1> USE AdminSessionAssumption
<1>0. callback \in [Callbacks -> Callback \cup {NoCallback}]
  BY DEF IInv, TypeOK
<1> TAKE c \in Callbacks
<1>1. CASE UNCHANGED callback
  BY <1>1
<1>2. ASSUME NEW d \in Callbacks, CallbackGoes(d, NoCallback)
      PROVE  callback'[c] \in {callback[c], NoCallback}
  BY <1>0, <1>2 DEF CallbackGoes
<1>3. ASSUME NEW d \in Callbacks, NEW b \in Browsers, NEW n \in Logins, Open(d, b, n), c = d
      PROVE  /\ callback'[c] \in Callback
             /\ began[callback'[c].state] = callback'[c].browser
             /\ signedIn[callback'[c].state] \in Accounts
             /\ TokenGood(callback'[c].token, callback'[c].browser)
  <2> DEFINE k == [at |-> "exchange", browser |-> b, state |-> n, token |-> NoToken]
  <2>1. callback'[c] = k
    BY <1>0, <1>3 DEF Open, CallbackGoes
  <2>2. k \in Callback /\ k.browser = b /\ k.state = n /\ k.token = NoToken
    BY DEF Callback
  <2>3. began[n] = b /\ signedIn[n] \in Accounts
    <3>1. stateCookie[b] = n /\ n # 0 /\ CookieGood(b)
      BY <1>3 DEF Open, IInv, Logins
    <3>2. signedIn[n] \in Accounts
      BY <1>3 DEF Open, IInv, TypeOK
    <3> QED BY <3>1, <3>2 DEF CookieGood
  <2>4. TokenGood(NoToken, b)
    BY TokenFacts DEF TokenGood, IInv, TypeOK
  <2> HIDE DEF k
  <2> QED BY <2>1, <2>2, <2>3, <2>4
<1>4. ASSUME NEW d \in Callbacks, c = d, callback[d].at # "idle",
             NEW at \in {"exchange", "verify", "answer"}, NEW t \in Token \cup {NoToken},
             callback' = [callback EXCEPT ![d] = [callback[d] EXCEPT !.at = at, !.token = t]],
             TokenGood(t, callback[d].browser)
      PROVE  /\ callback'[c] \in Callback
             /\ began[callback'[c].state] = callback'[c].browser
             /\ signedIn[callback'[c].state] \in Accounts
             /\ TokenGood(callback'[c].token, callback'[c].browser)
  <2>1. callback[c] \in Callback /\ callback[c] # NoCallback
    BY <1>0, <1>4, TokenFacts
  <2>2. /\ began[callback[c].state] = callback[c].browser
        /\ signedIn[callback[c].state] \in Accounts
    BY <2>1 DEF IInv, CallbackGood
  <2> DEFINE k == [callback[c] EXCEPT !.at = at, !.token = t]
  <2>3. callback'[c] = k
    BY <1>0, <1>4
  <2>4. /\ k \in Callback /\ k.browser = callback[c].browser
        /\ k.state = callback[c].state /\ k.token = t
    BY <2>1 DEF Callback
  <2> HIDE DEF k
  <2> QED BY <1>4, <2>2, <2>3, <2>4
<1>5. ASSUME NEW d \in Callbacks, Exchange(d), c = d
      PROVE  /\ callback'[c] \in Callback
             /\ began[callback'[c].state] = callback'[c].browser
             /\ signedIn[callback'[c].state] \in Accounts
             /\ TokenGood(callback'[c].token, callback'[c].browser)
  <2>1. PICK at \in {"verify", "answer"} : CallbackGoes(d, [callback[d] EXCEPT !.at = at])
    BY <1>5 DEF Exchange
  <2> DEFINE t == callback[d].token
  <2>2. callback[d] \in Callback /\ callback[d] # NoCallback /\ callback[d].at # "idle"
    BY <1>0, <1>5, TokenFacts DEF Exchange
  <2>3. t \in Token \cup {NoToken} /\ TokenGood(t, callback[d].browser)
    BY <2>2 DEF IInv, CallbackGood, Callback
  <2>4. [callback[d] EXCEPT !.at = at] = [callback[d] EXCEPT !.at = at, !.token = t]
    BY <2>2 DEF Callback
  <2>5. callback' = [callback EXCEPT ![d] = [callback[d] EXCEPT !.at = at, !.token = t]]
    BY <2>1, <2>4 DEF CallbackGoes
  <2> HIDE DEF t
  <2> QED BY <1>4, <1>5, <2>2, <2>3, <2>5
<1>6. ASSUME NEW d \in Callbacks, Verify(d), c = d
      PROVE  /\ callback'[c] \in Callback
             /\ began[callback'[c].state] = callback'[c].browser
             /\ signedIn[callback'[c].state] \in Accounts
             /\ TokenGood(callback'[c].token, callback'[c].browser)
  BY <1>4, <1>6, VerifyIssues DEF Verify
<1>7. ASSUME NEW d \in Callbacks, c # d, NEW k, CallbackGoes(d, k)
      PROVE  callback'[c] = callback[c]
  BY <1>0, <1>7 DEF CallbackGoes
<1>8. CASE \E d \in Callbacks, b \in Browsers, n \in Logins : Open(d, b, n)
  <2>1. PICK d \in Callbacks, b \in Browsers, n \in Logins : Open(d, b, n)
    BY <1>8
  <2>2. callback'[c] = callback[c] \/ c = d
    BY <2>1, <1>7 DEF Open
  <2> QED BY <2>1, <2>2, <1>3
<1>9. CASE \E d \in Callbacks : CallbackStep(d)
  <2>1. PICK d \in Callbacks : CallbackStep(d)
    BY <1>9
  <2>2. CASE Exchange(d)
    <3>1. callback'[c] = callback[c] \/ c = d
      BY <2>2, <1>0 DEF Exchange, CallbackGoes
    <3> QED BY <2>2, <3>1, <1>5
  <2>3. CASE Verify(d)
    <3>1. callback'[c] = callback[c] \/ c = d
      BY <2>3, <1>0 DEF Verify, CallbackGoes
    <3> QED BY <2>3, <3>1, <1>6
  <2>4. CASE AnswerArrives(d) \/ AnswerLost(d)
    BY <2>4, <1>2 DEF AnswerArrives, AnswerLost
  <2> QED BY <2>1, <2>2, <2>3, <2>4 DEF CallbackStep
<1>10. CASE \E cf \in Configs : Restart(cf)
  BY <1>10 DEF Restart
<1> QED
  BY <1>1, <1>8, <1>9, <1>10
     DEF Next, vars, Login, Logout, Forget, Authorize, Rescue, Tick

\* What a step can do to a session: nothing, drop it, or replace it by a good token.
LEMMA SessionsKept ==
    ASSUME IInv, [Next]_vars
    PROVE  \A b \in Browsers :
              \/ session'[b] = session[b]
              \/ session'[b] \in Token \cup {NoToken} /\ TokenGood(session'[b], b)
<1> USE AdminSessionAssumption
<1>0. session \in [Browsers -> Token \cup {NoToken}] /\ now \in Nat
  BY DEF IInv, TypeOK
<1> TAKE b \in Browsers
<1>1. CASE UNCHANGED session
  BY <1>1
<1>2. ASSUME NEW d \in Browsers, Logout(d)
      PROVE  session'[b] = session[b] \/ session'[b] = NoToken
  BY <1>0, <1>2 DEF Logout
<1>3. TokenGood(NoToken, b)
  BY <1>0, TokenFacts DEF TokenGood
<1>4. ASSUME NEW d \in Browsers, NEW a \in Accounts, NEW s \in Secrets, Rescue(d, a, s), b = d
      PROVE  session'[b] \in Token /\ TokenGood(session'[b], b)
  <2>1. PICK ttl \in 1..TTL : session' = [session EXCEPT ![d] = Issued(a, 0, ttl, s)]
    BY <1>4 DEF Rescue
  <2> DEFINE t == Issued(a, 0, ttl, s)
  <2>2. t \in Token /\ t.exp = now + ttl /\ t.login = 0
    <3>1. 0 \in 0..MaxLogins
      OBVIOUS
    <3> QED BY <3>1, IssuedToken DEF IInv
  <2>3. session'[b] = t
    BY <1>0, <1>4, <2>1
  <2> HIDE DEF t
  <2> QED BY <1>0, <2>2, <2>3 DEF TokenGood
<1>5. ASSUME NEW d \in Browsers, NEW a \in Accounts, NEW s \in Secrets, Rescue(d, a, s), b # d
      PROVE  session'[b] = session[b]
  BY <1>0, <1>5 DEF Rescue
<1>6. ASSUME NEW c \in Callbacks, AnswerArrives(c)
      PROVE  \/ session'[b] = session[b]
             \/ session'[b] \in Token \cup {NoToken} /\ TokenGood(session'[b], b)
  <2>1. callback[c] \in Callback /\ callback[c] # NoCallback
    BY <1>6, TokenFacts DEF AnswerArrives, IInv, TypeOK
  <2>2. /\ callback[c].token \in Token \cup {NoToken}
        /\ TokenGood(callback[c].token, callback[c].browser)
    BY <2>1 DEF IInv, CallbackGood, Callback
  <2>3. \/ session' = session
        \/ session' = [session EXCEPT ![callback[c].browser] = callback[c].token]
    BY <1>6 DEF AnswerArrives
  <2> QED BY <1>0, <2>2, <2>3
<1> QED
  BY <1>1, <1>2, <1>3, <1>4, <1>5, <1>6
     DEF Next, vars, Login, Forget, Authorize, Open, CallbackStep, Exchange, Verify, AnswerLost,
         Tick, Restart

\* A state cookie is that of a login of the same browser.
LEMMA CookiesKept ==
    ASSUME IInv, [Next]_vars, Later
    PROVE  /\ stateCookie' \in [Browsers -> 0..MaxLogins]
           /\ \A b \in Browsers : CookieGood(b)'
<1> USE AdminSessionAssumption
<1>0. /\ stateCookie \in [Browsers -> 0..MaxLogins]
      /\ began \in [Logins -> Browsers \cup {None}]
      /\ \A b \in Browsers : CookieGood(b)
  BY DEF IInv, TypeOK
<1>1. ASSUME NEW b \in Browsers, stateCookie'[b] \in {stateCookie[b], 0}
      PROVE  CookieGood(b)'
  <2>1. CASE stateCookie'[b] = 0
    BY <2>1 DEF CookieGood
  <2>2. CASE stateCookie'[b] = stateCookie[b] /\ stateCookie[b] # 0
    <3>1. began[stateCookie[b]] = b /\ stateCookie[b] \in Logins
      BY <1>0, <2>2 DEF CookieGood, Logins
    <3>2. began'[stateCookie[b]] = b
      BY <3>1 DEF Later
    <3> QED BY <2>2, <3>2 DEF CookieGood
  <2> QED BY <1>1, <2>1, <2>2
<1>2. CASE UNCHANGED stateCookie
  BY <1>0, <1>1, <1>2
<1>3. ASSUME NEW d, stateCookie' = [stateCookie EXCEPT ![d] = 0]
      PROVE  /\ stateCookie' \in [Browsers -> 0..MaxLogins]
             /\ \A b \in Browsers : CookieGood(b)'
  <2>1. 0 \in 0..MaxLogins
    OBVIOUS
  <2> QED BY <1>0, <1>1, <1>3, <2>1
<1>4. ASSUME NEW d \in Browsers, Login(d)
      PROVE  /\ stateCookie' \in [Browsers -> 0..MaxLogins]
             /\ \A b \in Browsers : CookieGood(b)'
  <2>1. PICK n \in Logins : /\ began' = [began EXCEPT ![n] = d]
                            /\ stateCookie' = [stateCookie EXCEPT ![d] = n]
    BY <1>4 DEF Login
  <2>2. n \in 0..MaxLogins
    BY DEF Logins
  <2>3. ASSUME NEW b \in Browsers
        PROVE  CookieGood(b)'
    <3>1. CASE b = d
      BY <1>0, <2>1, <3>1 DEF CookieGood
    <3>2. CASE b # d
      <4>1. stateCookie'[b] = stateCookie[b]
        BY <1>0, <2>1, <3>2
      <4> QED BY <4>1, <1>1
    <3> QED BY <3>1, <3>2
  <2> QED BY <1>0, <2>1, <2>2, <2>3
<1> QED
  BY <1>2, <1>3, <1>4
     DEF Next, vars, Logout, Forget, Authorize, Open, CallbackStep, Exchange, Verify,
         AnswerArrives, AnswerLost, Rescue, Tick, Restart

\* The variables that the other lemmas leave.
LEMMA OthersTyped ==
    ASSUME IInv, [Next]_vars
    PROVE  /\ config' \in Configs /\ now' \in 0..MaxTime
           /\ began' \in [Logins -> Browsers \cup {None}]
           /\ signedIn' \in [Logins -> Accounts \cup {None}]
           /\ eligibleAt' \in [Accounts -> -1..MaxTime]
<1> USE AdminSessionAssumption DEF IInv, TypeOK
<1>1. CASE UNCHANGED World
  <2>1. config' \in Configs /\ now' \in 0..MaxTime /\ eligibleAt' \in [Accounts -> -1..MaxTime]
    BY <1>1 DEF World
  <2>2. CASE \E b \in Browsers : Login(b)
    BY <2>1, <2>2 DEF Login
  <2>3. CASE \E n \in Logins, a \in Accounts : Authorize(n, a)
    BY <2>1, <2>3 DEF Authorize
  <2>4. CASE UNCHANGED <<began, signedIn>>
    BY <2>1, <2>4
  <2>5. ASSUME \/ Tick
               \/ \E cf \in Configs : Restart(cf)
        PROVE  UNCHANGED <<began, signedIn>>
    BY <2>5 DEF Tick, Restart
  <2> QED
    BY <2>2, <2>3, <2>4, <2>5
       DEF Next, vars, Logout, Forget, Open, CallbackStep, Exchange, Verify, AnswerArrives,
           AnswerLost, Rescue
<1>2. CASE Tick
  <2>1. now' \in 0..MaxTime /\ now' = now + 1
    BY <1>2 DEF Tick
  <2>2. eligibleAt' \in [Accounts -> -1..MaxTime]
    BY <1>2, <2>1 DEF Tick, EligibleUntil
  <2> QED BY <1>2, <2>1, <2>2 DEF Tick
<1>3. CASE \E cf \in Configs : Restart(cf)
  BY <1>3 DEF Restart, EligibleUntil
<1> QED
  BY <1>1, <1>2, <1>3
     DEF Next, vars, World, Login, Logout, Forget, Authorize, Open, CallbackStep, Exchange,
         Verify, AnswerArrives, AnswerLost, Rescue

-----------------------------------------------------------------------------
LEMMA Inductive == IInv /\ [Next]_vars => IInv'
<1> SUFFICES ASSUME IInv, [Next]_vars PROVE IInv'
  OBVIOUS
<1>1. Later /\ \A a \in Accounts : EligibleNow(a)'
  BY StepLater
<1>2. TypeOK'
  <2>1. session' \in [Browsers -> Token \cup {NoToken}]
    <3>1. \A b \in Browsers : session'[b] \in Token \cup {NoToken}
      BY SessionsKept DEF IInv, TypeOK
    <3>2. DOMAIN session' = Browsers /\ session' = [b \in Browsers |-> session'[b]]
      BY DEF IInv, TypeOK, Next, vars, Login, Logout, Forget, Authorize, Open, CallbackStep,
             Exchange, Verify, AnswerArrives, AnswerLost, Rescue, Tick, Restart
    <3> QED BY <3>1, <3>2
  <2>2. callback' \in [Callbacks -> Callback \cup {NoCallback}]
    <3>1. \A c \in Callbacks : callback'[c] \in Callback \cup {NoCallback}
      BY <1>1, CallbacksKept DEF IInv, TypeOK
    <3>2. DOMAIN callback' = Callbacks /\ callback' = [c \in Callbacks |-> callback'[c]]
      BY DEF IInv, TypeOK, Next, vars, Login, Logout, Forget, Authorize, Open, CallbackStep,
             Exchange, Verify, AnswerArrives, AnswerLost, Rescue, Tick, Restart, CallbackGoes
    <3> QED BY <3>1, <3>2
  <2> QED BY <1>1, <2>1, <2>2, OthersTyped, CookiesKept DEF TypeOK
<1>3. ASSUME NEW b \in Browsers
      PROVE  TokenGood(session[b], b)'
  <2>1. session'[b] \in Token \cup {NoToken} /\ TokenGood(session'[b], b)
    BY SessionsKept DEF IInv, TypeOK
  <2> QED BY <1>1, <1>2, <2>1, GoodStays DEF TokenGood
<1>4. ASSUME NEW c \in Callbacks, callback'[c] # NoCallback
      PROVE  CallbackGood(c)'
  <2> DEFINE k == callback'[c]
  <2>1. /\ k \in Callback /\ began[k.state] = k.browser /\ signedIn[k.state] \in Accounts
        /\ TokenGood(k.token, k.browser)
    BY <1>1, <1>4, CallbacksKept DEF IInv, TypeOK, CallbackGood
  <2>2. k.state \in Logins /\ k.browser \in Browsers /\ k.token \in Token \cup {NoToken}
    BY <2>1 DEF Callback
  <2>3. began'[k.state] = k.browser /\ signedIn'[k.state] \in Accounts
    BY <1>1, <2>1, <2>2, AdminSessionAssumption DEF Later
  <2>4. \A t \in Token \cup {NoToken} : TokenGood(t, k.browser) =>
            /\ t.exp <= now' + TTL
            /\ t.login # 0 =>
                  /\ began'[t.login] = k.browser
                  /\ eligibleAt'[t.account] >= 0 /\ t.exp <= eligibleAt'[t.account] + TTL
    BY <1>1, <1>2, <2>2, GoodStays DEF TokenGood
  <2> QED BY <2>1, <2>2, <2>3, <2>4 DEF CallbackGood, TokenGood
<1>5. \A c \in Callbacks : CallbackGood(c)'
  BY <1>4 DEF CallbackGood
<1>6. \A b \in Browsers : CookieGood(b)'
  BY <1>1, CookiesKept
<1> QED BY <1>1, <1>2, <1>3, <1>5, <1>6 DEF IInv

LEMMA Safe == IInv => TypeOK /\ OwnLogin /\ EligibleLately /\ SessionsExpire
<1> SUFFICES ASSUME IInv PROVE OwnLogin /\ EligibleLately /\ SessionsExpire
  BY DEF IInv
<1>1. OwnLogin /\ SessionsExpire
  BY DEF IInv, TokenGood, OwnLogin, SessionsExpire
<1>2. ASSUME NEW b \in Browsers, Admitted(b), session[b].login # 0
      PROVE  eligibleAt[session[b].account] >= 0 /\ now - eligibleAt[session[b].account] <= TTL
  <2>1. session[b] \in Token
    BY <1>2 DEF IInv, TypeOK, Admitted
  <2>2. session[b].account \in Accounts /\ session[b].exp \in Nat
    BY <2>1, AdminSessionAssumption DEF Token
  <2>3. /\ eligibleAt[session[b].account] >= 0
        /\ session[b].exp <= eligibleAt[session[b].account] + TTL
        /\ now <= session[b].exp
    BY <1>2 DEF IInv, TokenGood, Admitted
  <2>4. eligibleAt[session[b].account] \in Int /\ now \in Nat /\ TTL \in Nat
    BY <2>2, AdminSessionAssumption DEF IInv, TypeOK
  <2> QED BY <2>2, <2>3, <2>4
<1> QED BY <1>1, <1>2 DEF EligibleLately

LEMMA Invariance == Spec => []IInv
BY InitIInv, Inductive, PTL DEF Spec

\* The variables keep their types.
THEOREM AdminSessionTypeCorrect == Spec => []TypeOK
BY Invariance, Safe, PTL

\* A browser gets the session only of a login that it began itself.
THEOREM SessionsAreOwn == Spec => []OwnLogin
BY Invariance, Safe, PTL

\* An admitted account had a verified and allowed email within the last TTL.
THEOREM AdmittedWereEligible == Spec => []EligibleLately
BY Invariance, Safe, PTL

\* No token outlives TTL, those of rescue included.
THEOREM TokensExpire == Spec => []SessionsExpire
BY Invariance, Safe, PTL

=============================================================================
