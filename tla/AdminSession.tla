---------------------------- MODULE AdminSession ----------------------------
(***************************************************************************)
(* The login of the admin API (internal/server/oidc.go, session.go, and    *)
(* the rescue subcommand of cmd/payserver/main.go).  The server keeps no   *)
(* session: a browser holds a state cookie while it logs in and a signed,  *)
(* expiring session cookie afterwards, and several tabs of one browser     *)
(* share both.                                                             *)
(*                                                                         *)
(* Signatures are not broken and states are not guessed: a token is the    *)
(* record that was signed, and a state is the number of its login.  A      *)
(* cookie may disappear at any time, which covers its Max-Age.             *)
(***************************************************************************)
EXTENDS Integers

CONSTANTS
    Browsers,
    Callbacks,      \* goroutines of CallbackHandler
    Accounts,       \* identities at the OpenID provider
    Emails,         \* email addresses, in lower case
    NoEmail,        \* a token without an email claim
    EmailOf,        \* EmailOf[a]: the email claim of a
    Verified,       \* the accounts whose email_verified claim is true
    Configs,        \* configurations that NewOIDCAuth accepts
    Secrets,        \* session secrets
    None,
    TTL,            \* 24 hours, in ticks
    MaxLogins,      \* bound on logins
    MaxTime         \* bound on the clock

ASSUME AdminSessionAssumption ==
    /\ EmailOf \in [Accounts -> Emails \cup {NoEmail}] /\ NoEmail \notin Emails
    /\ Verified \subseteq Accounts
    /\ Configs \subseteq [allowed : SUBSET Emails, secret : Secrets] /\ Configs # {}
    /\ None \notin Browsers \cup Accounts \cup Secrets
    /\ TTL \in Nat \ {0} /\ MaxLogins \in Nat /\ MaxTime \in Nat

VARIABLES
    config,         \* the configuration of the running process
    began,          \* began[n]: the browser in which login n began
    signedIn,       \* signedIn[n]: who signed in at the provider for login n
    stateCookie,    \* stateCookie[b]: payserver_oauth_state, a login or 0
    session,        \* session[b]: payserver_admin_session
    callback,       \* callback[c]: a request to CallbackHandler
    now,
    eligibleAt      \* eligibleAt[a]: when a was last one that may log in, -1 for never

vars == <<config, began, signedIn, stateCookie, session, callback, now, eligibleAt>>

Logins == 1..MaxLogins
NoToken == [account |-> None, login |-> 0, exp |-> -1, secret |-> None]
\* login is 0 in a token of the rescue subcommand.
Token == [account : Accounts, login : 0..MaxLogins, exp : 0..(MaxTime + TTL), secret : Secrets]
NoCallback == [at |-> "idle", browser |-> None, state |-> 0, token |-> NoToken]
Callback == [at : {"exchange", "verify", "answer"}, browser : Browsers, state : Logins,
             token : Token \cup {NoToken}]

TypeOK ==
    /\ config \in Configs
    /\ began \in [Logins -> Browsers \cup {None}]
    /\ signedIn \in [Logins -> Accounts \cup {None}]
    /\ stateCookie \in [Browsers -> 0..MaxLogins]
    /\ session \in [Browsers -> Token \cup {NoToken}]
    /\ callback \in [Callbacks -> Callback \cup {NoCallback}]
    /\ now \in 0..MaxTime
    /\ eligibleAt \in [Accounts -> -1..MaxTime]

\* An empty allowlist comes with allow_any_authenticated: NewOIDCAuth accepts no other.
Allowed(cf, a) == cf.allowed = {} \/ EmailOf[a] \in cf.allowed
Eligible(cf, a) == a \in Verified /\ EmailOf[a] # NoEmail /\ Allowed(cf, a)
EligibleUntil(cf, t) ==
    [a \in Accounts |-> IF Eligible(cf, a) THEN t ELSE eligibleAt[a]]

Init ==
    /\ config \in Configs /\ now = 0
    /\ began = [n \in Logins |-> None] /\ signedIn = [n \in Logins |-> None]
    /\ stateCookie = [b \in Browsers |-> 0] /\ session = [b \in Browsers |-> NoToken]
    /\ callback = [c \in Callbacks |-> NoCallback]
    /\ eligibleAt = [a \in Accounts |-> IF Eligible(config, a) THEN 0 ELSE -1]

-----------------------------------------------------------------------------
World == <<config, now, eligibleAt>>

\* LoginHandler, in some tab of b.
Login(b) ==
    /\ \E n \in Logins :
          /\ began[n] = None /\ \A k \in Logins : k < n => began[k] # None
          /\ began' = [began EXCEPT ![n] = b]
          /\ stateCookie' = [stateCookie EXCEPT ![b] = n]
    /\ UNCHANGED <<World, signedIn, session, callback>>

\* Somebody signs in at the provider, which makes the callback address of login n.
Authorize(n, a) ==
    /\ began[n] # None /\ signedIn[n] = None
    /\ signedIn' = [signedIn EXCEPT ![n] = a]
    /\ UNCHANGED <<World, began, stateCookie, session, callback>>

(***************************************************************************)
(* CallbackHandler.  The address the provider made may be opened again, or *)
(* in another browser; the state cookie decides.  The answer reaches the   *)
(* browser after whatever its other tabs have done meanwhile.              *)
(***************************************************************************)
CallbackGoes(c, to) == callback' = [callback EXCEPT ![c] = to]

\* The state of the address is not compared with the cookie.
Open_AnyState(c, b, n) ==
    /\ callback[c].at = "idle" /\ signedIn[n] # None
    /\ CallbackGoes(c, [at |-> "exchange", browser |-> b, state |-> n, token |-> NoToken])
    /\ UNCHANGED <<World, began, signedIn, stateCookie, session>>

\* b opens the address of login n; without its state cookie the answer is 400.
Open(c, b, n) ==
    /\ callback[c].at = "idle" /\ signedIn[n] # None /\ stateCookie[b] = n
    /\ CallbackGoes(c, [at |-> "exchange", browser |-> b, state |-> n, token |-> NoToken])
    /\ UNCHANGED <<World, began, signedIn, stateCookie, session>>

\* The exchange of the code may fail, and the second one of a code does.
Exchange(c) ==
    /\ callback[c].at = "exchange"
    /\ \E at \in {"verify", "answer"} : CallbackGoes(c, [callback[c] EXCEPT !.at = at])
    /\ UNCHANGED <<World, began, signedIn, stateCookie, session>>

Issued(a, n, ttl, s) == [account |-> a, login |-> n, exp |-> now + ttl, secret |-> s]

\* The email_verified claim is not looked at.
Verify_Unverified(c) ==
    LET a == signedIn[callback[c].state]
    IN /\ callback[c].at = "verify"
       /\ \/ EmailOf[a] # NoEmail /\ Allowed(config, a)
             /\ CallbackGoes(c, [callback[c] EXCEPT !.at = "answer",
                                 !.token = Issued(a, callback[c].state, TTL, config.secret)])
          \/ ~(EmailOf[a] # NoEmail /\ Allowed(config, a))
             /\ CallbackGoes(c, [callback[c] EXCEPT !.at = "answer"])
       /\ UNCHANGED <<World, began, signedIn, stateCookie, session>>

\* The claims decide, and the session is signed.
Verify(c) ==
    LET a == signedIn[callback[c].state]
    IN /\ callback[c].at = "verify"
       /\ \/ Eligible(config, a)
             /\ CallbackGoes(c, [callback[c] EXCEPT !.at = "answer",
                                 !.token = Issued(a, callback[c].state, TTL, config.secret)])
          \/ ~Eligible(config, a) /\ CallbackGoes(c, [callback[c] EXCEPT !.at = "answer"])
       /\ UNCHANGED <<World, began, signedIn, stateCookie, session>>

\* Every answer behind the state check clears the state cookie, even one of a later login.
AnswerArrives(c) ==
    LET b == callback[c].browser
    IN /\ callback[c].at = "answer"
       /\ stateCookie' = [stateCookie EXCEPT ![b] = 0]
       /\ session' = IF callback[c].token = NoToken THEN session
                     ELSE [session EXCEPT ![b] = callback[c].token]
       /\ CallbackGoes(c, NoCallback)
       /\ UNCHANGED <<World, began, signedIn>>

\* The answer of a callback is lost on its way.
AnswerLost(c) ==
    /\ callback[c].at = "answer" /\ CallbackGoes(c, NoCallback)
    /\ UNCHANGED <<World, began, signedIn, stateCookie, session>>

\* LogoutHandler, or the browser drops its session cookie.
Logout(b) ==
    /\ session[b] # NoToken /\ session' = [session EXCEPT ![b] = NoToken]
    /\ UNCHANGED <<World, began, signedIn, stateCookie, callback>>

\* The browser drops the state cookie, after 10 minutes.
Forget(b) ==
    /\ stateCookie[b] # 0 /\ stateCookie' = [stateCookie EXCEPT ![b] = 0]
    /\ UNCHANGED <<World, began, signedIn, session, callback>>

\* The operator may choose any lifetime.
Rescue_Unbounded(b, a, s) ==
    /\ EmailOf[a] # NoEmail
    /\ \E ttl \in 1..(TTL + 1) : session' = [session EXCEPT ![b] = Issued(a, 0, ttl, s)]
    /\ UNCHANGED <<World, began, signedIn, stateCookie, callback>>

\* runRescue with the secret that is in the environment of the operator: no allowlist.
Rescue(b, a, s) ==
    /\ EmailOf[a] # NoEmail
    /\ \E ttl \in 1..TTL : session' = [session EXCEPT ![b] = Issued(a, 0, ttl, s)]
    /\ UNCHANGED <<World, began, signedIn, stateCookie, callback>>

Tick ==
    /\ now < MaxTime /\ now' = now + 1
    /\ eligibleAt' = EligibleUntil(config, now + 1)
    /\ UNCHANGED <<config, began, signedIn, stateCookie, session, callback>>

\* The process starts again with configuration cf; its requests are cut.
Restart(cf) ==
    /\ cf # config /\ config' = cf
    /\ eligibleAt' = EligibleUntil(cf, now)
    /\ callback' = [c \in Callbacks |-> NoCallback]
    /\ UNCHANGED <<began, signedIn, stateCookie, session, now>>

CallbackStep(c) == Exchange(c) \/ Verify(c) \/ AnswerArrives(c) \/ AnswerLost(c)

Next ==
    \/ \E b \in Browsers : Login(b) \/ Logout(b) \/ Forget(b)
    \/ \E n \in Logins, a \in Accounts : Authorize(n, a)
    \/ \E c \in Callbacks, b \in Browsers, n \in Logins : Open(c, b, n)
    \/ \E c \in Callbacks : CallbackStep(c)
    \/ \E b \in Browsers, a \in Accounts, s \in Secrets : Rescue(b, a, s)
    \/ Tick
    \/ \E cf \in Configs : Restart(cf)

Spec == Init /\ [][Next]_vars

-----------------------------------------------------------------------------
\* The expiry of a token is not looked at.
Admitted_NoExpiry(b) == session[b] # NoToken /\ session[b].secret = config.secret

\* RequireSession and DecodeSession let a request of b pass.
Admitted(b) ==
    session[b] # NoToken /\ session[b].secret = config.secret /\ now <= session[b].exp

\* A browser gets the session only of a login that it began itself: an address left over
\* from another browser, tab or time never logs it in, whatever is in flight.
OwnLogin ==
    \A b \in Browsers : session[b].login # 0 => began[session[b].login] = b

\* The claims and the allowlist are looked at once, at login, and only by the process of
\* that time.  Still an admitted account had a verified and allowed email within the last
\* TTL, through every change of configuration (tokens of rescue are meant to bypass that).
EligibleLately ==
    \A b \in Browsers :
        Admitted(b) /\ session[b].login # 0 =>
            eligibleAt[session[b].account] >= 0 /\ now - eligibleAt[session[b].account] <= TTL

\* "there is no legitimate reason a rescue session needs to outlive a normal one"
\* (cmd/payserver/main.go:43-44): no token of any origin outlives TTL.
SessionsExpire == \A b \in Browsers : session[b].exp <= now + TTL

=============================================================================
