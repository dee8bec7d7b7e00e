----------------------------- MODULE SsoSession -------------------------------
(****************************************************************************)
(* The dashboard's browser sign-in and its sliding session                  *)
(* (api/oidc_login.py, api/sessions.py; dashboard_login, dashboard_callback,*)
(* dashboard_logout, _session_identity and the _refresh_session middleware  *)
(* of api/app.py).                                                          *)
(*                                                                          *)
(* One browser, several tabs: the server answers a request from the cookies *)
(* the browser sent, and the answers come back in any order.  The clock is  *)
(* in half seconds and cookies hold whole seconds, so truncation shows.     *)
(****************************************************************************)
EXTENDS Integers, FiniteSets

CONSTANTS
  Persons,            \* verified subjects
  NoCookie,
  SessionTtl,         \* session_ttl_seconds
  LoginTtl,           \* login_ttl_seconds
  MaxLifetime,        \* session_max_lifetime_seconds
  Sliding,            \* whether it is set
  MaxLogins,          \* logins begun
  MaxAnswers,         \* server answers on their way at once
  LastHalfSecond

ASSUME SessionAssumption ==
  /\ SessionTtl \in Nat \ {0} /\ LoginTtl \in Nat \ {0}
  /\ MaxLifetime \in Nat /\ MaxLifetime >= SessionTtl
  /\ Sliding \in BOOLEAN
  /\ {MaxLogins, LastHalfSecond} \subseteq Nat

VARIABLES
  halfSecond,   \* the clock
  begun,        \* logins begun; a login's state, nonce and code verifier
  loginCookie,  \* the browser's login-state cookie
  session,      \* its session cookie
  codes,        \* what the identity provider sent back: [state, who]
  answers,      \* Set-Cookie headers on their way to the browser
  signedIn,     \* [who, at]: the logins completed (history)
  seen          \* person -> last login or authenticated request (history)

ssoVars == <<halfSecond, begun, loginCookie, session, codes, answers, signedIn, seen>>

Seconds(t) == t \div 2
Least(a, b) == IF a < b THEN a ELSE b

SessionCookies ==
  [sub : Persons, iat : 0..Seconds(LastHalfSecond),
   exp : 0..(Seconds(LastHalfSecond) + MaxLifetime)]

InitSso ==
  /\ halfSecond = 0 /\ begun = 0
  /\ loginCookie = NoCookie /\ session = NoCookie
  /\ codes = {} /\ answers = {} /\ signedIn = {}
  /\ seen = [p \in Persons |-> 0]

\* SessionSigner.read: a cookie is good until the clock reaches its exp.
Good(cookie) == cookie # NoCookie /\ halfSecond < 2 * cookie.exp

\* SessionSigner.mint.
Expiry(ttl) == Seconds(halfSecond) + ttl

Answer(headers) ==
  /\ Cardinality(answers) < MaxAnswers
  /\ answers' = answers \cup {headers}

----------------------------------------------------------------------------
\* begin: a new state overwrites the login cookie of another tab.
BeginLogin ==
  /\ begun < MaxLogins
  /\ begun' = begun + 1
  /\ loginCookie' = [state |-> begun + 1, exp |-> Expiry(LoginTtl)]
  /\ UNCHANGED <<halfSecond, session, codes, answers, signedIn, seen>>

\* The person signs in at the provider, which sends the browser back.
ProviderReturns(s, who) ==
  /\ s \in 1..begun /\ ~\E c \in codes : c.state = s
  /\ codes' = codes \cup {[state |-> s, who |-> who]}
  /\ UNCHANGED <<halfSecond, begun, loginCookie, session, answers, signedIn, seen>>

\* The person declines: the login cookie is dropped.
ProviderDeclines ==
  /\ loginCookie # NoCookie
  /\ Answer([login |-> "clear", session |-> "keep", value |-> NoCookie])
  /\ UNCHANGED <<halfSecond, begun, loginCookie, session, codes, signedIn, seen>>

\* complete: the code is good once, and only for the login the cookie is of.
Callback(c) ==
  /\ c \in codes
  /\ Good(loginCookie) /\ loginCookie.state = c.state
  /\ codes' = codes \ {c}
  /\ Answer([login |-> "clear", session |-> "set",
             value |-> [sub |-> c.who, iat |-> Seconds(halfSecond),
                        exp |-> Expiry(SessionTtl)]])
  /\ signedIn' = signedIn \cup {[who |-> c.who, at |-> halfSecond]}
  /\ seen' = [seen EXCEPT ![c.who] = halfSecond]
  /\ UNCHANGED <<halfSecond, begun, loginCookie, session>>

\* renew_session, in half seconds: what is left to the cap.
LeftToCap(cookie) == 2 * (cookie.iat + MaxLifetime) - halfSecond
RenewedTtl(cookie) == Least(SessionTtl, Seconds(LeftToCap(cookie)))

Renews(cookie) == Sliding /\ LeftToCap(cookie) > 0 /\ RenewedTtl(cookie) >= 1

\* Slip: the renewed cookie is stamped with the time of the renewal.
RestampedCookie(cookie) ==
  [sub |-> cookie.sub, iat |-> Seconds(halfSecond), exp |-> Expiry(RenewedTtl(cookie))]

RenewedCookie(cookie) ==
  [sub |-> cookie.sub, iat |-> cookie.iat, exp |-> Expiry(RenewedTtl(cookie))]

\* A read by session cookie; the middleware slides the cookie.
Read ==
  /\ Good(session)
  /\ seen' = [seen EXCEPT ![session.sub] = halfSecond]
  /\ IF Renews(session)
     THEN Answer([login |-> "keep", session |-> "set", value |-> RenewedCookie(session)])
     ELSE UNCHANGED answers
  /\ UNCHANGED <<halfSecond, begun, loginCookie, session, codes, signedIn>>

\* Logout never renews: its own answer clears the cookie.
Logout ==
  /\ Answer([login |-> "keep", session |-> "clear", value |-> NoCookie])
  /\ UNCHANGED <<halfSecond, begun, loginCookie, session, codes, signedIn, seen>>

BrowserReceives(a) ==
  /\ a \in answers
  /\ answers' = answers \ {a}
  /\ session' = IF a.session = "keep" THEN session ELSE a.value
  /\ loginCookie' = IF a.login = "keep" THEN loginCookie ELSE NoCookie
  /\ UNCHANGED <<halfSecond, begun, codes, signedIn, seen>>

HalfSecondPasses ==
  /\ halfSecond < LastHalfSecond
  /\ halfSecond' = halfSecond + 1
  /\ UNCHANGED <<begun, loginCookie, session, codes, answers, signedIn, seen>>

NextSso ==
  \/ BeginLogin
  \/ \E s \in 1..MaxLogins, who \in Persons : ProviderReturns(s, who)
  \/ ProviderDeclines
  \/ \E c \in codes : Callback(c)
  \/ Read
  \/ Logout
  \/ \E a \in answers : BrowserReceives(a)
  \/ HalfSecondPasses

----------------------------------------------------------------------------
SsoTypeOK ==
  /\ halfSecond \in 0..LastHalfSecond
  /\ begun \in 0..MaxLogins
  /\ loginCookie \in
       [state : 1..MaxLogins, exp : 0..(LastHalfSecond + LoginTtl)] \cup {NoCookie}
  /\ session \in SessionCookies \cup {NoCookie}
  /\ codes \subseteq [state : 1..MaxLogins, who : Persons]
  /\ answers \subseteq [login : {"keep", "clear"}, session : {"keep", "set", "clear"},
                        value : SessionCookies \cup {NoCookie}]
  /\ signedIn \subseteq [who : Persons, at : 0..LastHalfSecond]
  /\ seen \in [Persons -> 0..LastHalfSecond]

\* The session cookies there are, in the browser or on their way.
Cookies == ({session} \cup {a.value : a \in answers}) \ {NoCookie}

\* However often it slides, a session ends within the cap of one of its own
\* person's logins (within its TTL when sliding is off).
SessionsAreCapped ==
  \A c \in Cookies : \E l \in signedIn :
    l.who = c.sub /\
    2 * c.exp <= l.at + 2 * (IF Sliding THEN MaxLifetime ELSE SessionTtl)

\* A session nobody uses dies within the idle TTL.
IdleSessionsDie == \A c \in Cookies : 2 * c.exp <= seen[c.sub] + 2 * SessionTtl
===============================================================================
