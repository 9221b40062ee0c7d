------------------------------ MODULE Accounts ------------------------------
(* The built-in accounts (AUTH_MODE=builtin): the administrator made at the   *)
(* first start, the sessions in SQLite with their sliding expiry              *)
(* (services/accountService.ts), the cookie that carries a session and the    *)
(* limit on failed logins per address (routes/auth.ts).  All handlers are     *)
(* synchronous, so each is one step.                                          *)
EXTENDS Naturals, FiniteSets

CONSTANTS
    Browsers,
    Addresses,    \* what clientIp returns
    Tokens,       \* session tokens, each drawn once
    NoToken,
    Passwords,
    NoPassword,   \* the users table is empty
    TTL,          \* config.sessionTtlMs
    Window,       \* LOGIN_WINDOW_MS
    MaxFailures,  \* LOGIN_MAX_FAILURES
    MaxTime       \* bound on the clock

ASSUME AccountsAssumption ==
    /\ NoToken \notin Tokens
    /\ NoPassword \notin Passwords
    /\ TTL \in Nat \ {0}
    /\ Window \in Nat \ {0}
    /\ MaxFailures \in Nat \ {0}
    /\ MaxTime \in Nat

VARIABLES
    now,
    password,   \* users.password_hash of the administrator
    drawn,      \* tokens that createSession has returned
    session,    \* sessions.expires_at, 0 for a token without a row
    used,       \* history: when the token last let somebody in; 0 before
                \* createSession and after a logout
    failures,   \* loginFailures: count and resetAt, NoEntry for no entry
    guesses,    \* history: an address's failures within the last Window, since
                \* its last success and the start of the process
    cookie      \* the session cookie of each browser and when it lapses

vars == <<now, password, drawn, session, used, failures, guesses, cookie>>

NoEntry == [count |-> 0, resetAt |-> 0]
NoCookie == [token |-> NoToken, until |-> 0]

----------------------------------------------------------------------------
(* Sessions.                                                                  *)

(* What verifySession answers.  Mutant: the expiry is not looked at.          *)
KnownToken(t) == session[t] > 0
Valid(t) == session[t] > now

(* The hit pushes the expiry out.  Mutant: it does not.                       *)
NotRenewed(t) == session[t]
Renewed(t) == now + TTL

(* verifySession: a hit slides, an expired row goes.                          *)
Verify(t) ==
    IF Valid(t)
    THEN /\ session' = [session EXCEPT ![t] = Renewed(t)]
         /\ used' = [used EXCEPT ![t] = now]
    ELSE /\ session' = [session EXCEPT ![t] = 0]
         /\ UNCHANGED used

(* A request behind the middleware, or GET /auth/me, with the token as a      *)
(* Bearer credential or as a cookie that has not lapsed.  Without a row for   *)
(* the token the answer is 401 and nothing changes.                           *)
Request(t) ==
    /\ session[t] > 0
    /\ Verify(t)
    /\ UNCHANGED <<now, password, drawn, failures, guesses, cookie>>

(* What readSessionToken finds: any Bearer token, and without one that of the *)
(* cookie, if the browser still sends it.                                     *)
Sends(b) == cookie[b].token # NoToken /\ cookie[b].until > now
Presented(b) == Tokens \cup (IF Sends(b) THEN {} ELSE {NoToken})

(* POST /auth/logout: the row of the token goes, and the cookie is cleared,   *)
(* though it may be that of another session.                                  *)
Logout(b, t) ==
    /\ t \in Presented(b)
    /\ session' = [u \in Tokens |-> IF u = t THEN 0 ELSE session[u]]
    /\ used' = [u \in Tokens |-> IF u = t THEN 0 ELSE used[u]]
    /\ cookie' = [cookie EXCEPT ![b] = NoCookie]
    /\ UNCHANGED <<now, password, drawn, failures, guesses>>

----------------------------------------------------------------------------
(* POST /auth/login.                                                          *)

(* blockedSeconds > 0.  A blocked login is answered 429 and changes nothing.  *)
(* Mutant: one failure more than allowed.                                     *)
BlockedLate(ip) == failures[ip].count > MaxFailures /\ failures[ip].resetAt > now
Blocked(ip) == failures[ip].count >= MaxFailures /\ failures[ip].resetAt > now

(* recordFailure: the first failure opens a window, the others count in it.   *)
(* Mutant: each failure moves the end of the window.                          *)
CountedSliding(ip) == [count |-> failures[ip].count + 1, resetAt |-> now + Window]
Counted(ip) ==
    IF failures[ip].resetAt <= now
    THEN [count |-> 1, resetAt |-> now + Window]
    ELSE [failures[ip] EXCEPT !.count = @ + 1]

(* A failure now, told apart from others of the same moment.                  *)
Guess(ip) == [at |-> now, nth |-> Cardinality({g \in guesses[ip] : g.at = now})]

LoginWrong(ip) ==
    /\ password # NoPassword
    /\ ~Blocked(ip)
    /\ failures' = [failures EXCEPT ![ip] = Counted(ip)]
    /\ guesses' = [guesses EXCEPT ![ip] = @ \cup {Guess(ip)}]
    /\ UNCHANGED <<now, password, drawn, session, used, cookie>>

LoginRight(b, ip, t) ==
    /\ password # NoPassword
    /\ ~Blocked(ip)
    /\ t \in Tokens \ drawn
    /\ failures' = [failures EXCEPT ![ip] = NoEntry]
    /\ guesses' = [guesses EXCEPT ![ip] = {}]
    /\ drawn' = drawn \cup {t}
    /\ session' = [session EXCEPT ![t] = now + TTL]
    /\ used' = [used EXCEPT ![t] = now]
    /\ cookie' = [cookie EXCEPT ![b] = [token |-> t, until |-> now + TTL]]
    /\ UNCHANGED <<now, password>>

----------------------------------------------------------------------------
(* index.ts: a process starts with ADMIN_PASSWORD = p, removes the expired    *)
(* sessions and makes the administrator if there is none.  loginFailures is   *)
(* empty.                                                                     *)
Overdue == {t \in Tokens : session[t] <= now}

Start(p) ==
    /\ session' = [t \in Tokens |-> IF t \in Overdue THEN 0 ELSE session[t]]
    /\ password' = IF password = NoPassword THEN p ELSE password
    /\ failures' = [ip \in Addresses |-> NoEntry]
    /\ guesses' = [ip \in Addresses |-> {}]
    /\ UNCHANGED <<now, drawn, used, cookie>>

Tick ==
    /\ now < MaxTime
    /\ now' = now + 1
    /\ guesses' = [ip \in Addresses |-> {g \in guesses[ip] : g.at + Window > now + 1}]
    /\ UNCHANGED <<password, drawn, session, used, failures, cookie>>

Init ==
    /\ now = 1
    /\ password = NoPassword
    /\ drawn = {}
    /\ session = [t \in Tokens |-> 0]
    /\ used = [t \in Tokens |-> 0]
    /\ failures = [ip \in Addresses |-> NoEntry]
    /\ guesses = [ip \in Addresses |-> {}]
    /\ cookie = [b \in Browsers |-> NoCookie]

Next ==
    \/ \E t \in Tokens : Request(t)
    \/ \E b \in Browsers, t \in Tokens \cup {NoToken} : Logout(b, t)
    \/ \E ip \in Addresses : LoginWrong(ip)
    \/ \E b \in Browsers, ip \in Addresses, t \in Tokens : LoginRight(b, ip, t)
    \/ \E p \in Passwords : Start(p)
    \/ Tick

Spec == Init /\ [][Next]_vars

----------------------------------------------------------------------------
TypeOK ==
    /\ now \in Nat
    /\ password \in Passwords \cup {NoPassword}
    /\ drawn \subseteq Tokens
    /\ session \in [Tokens -> Nat]
    /\ used \in [Tokens -> Nat]
    /\ failures \in [Addresses -> [count : 0..MaxFailures, resetAt : Nat]]
    /\ guesses \in [Addresses -> SUBSET [at : Nat, nth : Nat]]
    /\ cookie \in [Browsers -> [token : Tokens \cup {NoToken}, until : Nat]]

(* A token is accepted exactly while less than TTL has passed since it last   *)
(* let somebody in, across renewals, logouts, restarts and their clean-up.    *)
ValidIffRecentlyUsed ==
    \A t \in Tokens : Valid(t) <=> used[t] > 0 /\ used[t] + TTL > now

(* A token that was logged out or has expired is never accepted again.        *)
EndedStaysEnded ==
    [][\A t \in drawn : session[t] <= now => session'[t] <= now']_vars

(* An address is refused only if it failed MaxFailures times within the last  *)
(* Window: failures spread out, failures before a success and failures of     *)
(* others do not block anybody, and no block outlasts a Window.               *)
BlockedForCause ==
    \A ip \in Addresses : Blocked(ip) => Cardinality(guesses[ip]) >= MaxFailures

(* Windows are fixed, so two of them may meet within one Window's length: an  *)
(* address still never gets 2 * MaxFailures wrong guesses in that time.       *)
GuessesBounded ==
    \A ip \in Addresses : Cardinality(guesses[ip]) < 2 * MaxFailures
=============================================================================
