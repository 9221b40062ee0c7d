---------------------------- MODULE AccountsProofs ----------------------------
(* Sessions and the login limit, for any number of browsers, tokens and       *)
(* addresses, any TTL, window and limit.                                      *)
EXTENDS Accounts, FiniteSetTheorems, TLAPS

(* A token without a row was never drawn, was logged out, or its row lapsed   *)
(* before it went; a row always lasts TTL from the last use.                  *)
SessionOf(t) ==
    \/ session[t] = 0 /\ used[t] = 0
    \/ session[t] = 0 /\ used[t] > 0 /\ used[t] + TTL <= now
    \/ session[t] = used[t] + TTL /\ used[t] > 0

IInv ==
    /\ now \in Nat \ {0}
    /\ drawn \subseteq Tokens
    /\ session \in [Tokens -> Nat]
    /\ used \in [Tokens -> Nat]
    /\ cookie \in [Browsers -> [token : Tokens \cup {NoToken}, until : Nat]]
    /\ \A t \in Tokens : SessionOf(t)

(* The clean-up compares with the clock as verifySession does, so a row it    *)
(* removes had lapsed.                                                        *)
LEMMA StartStep ==
    ASSUME IInv, NEW p \in Passwords, Start(p)
    PROVE  IInv'
<1>1. /\ now' = now /\ used' = used /\ drawn' = drawn /\ cookie' = cookie
      /\ session' = [t \in Tokens |-> IF t \in Overdue THEN 0 ELSE session[t]]
  BY DEF Start
<1>2. session' \in [Tokens -> Nat]
  BY <1>1 DEF IInv
<1>3. ASSUME NEW t \in Tokens PROVE SessionOf(t)'
  <2>1. SessionOf(t) /\ now \in Nat /\ used[t] \in Nat /\ session[t] \in Nat
    BY DEF IInv
  <2>2. CASE t \in Overdue
    <3>1. session[t] <= now /\ session'[t] = 0
      BY <1>1, <2>2 DEF Overdue
    <3> QED BY <1>1, <2>1, <3>1, AccountsAssumption DEF SessionOf
  <2>3. CASE t \notin Overdue
    BY <1>1, <2>1, <2>3 DEF SessionOf
  <2> QED BY <2>2, <2>3
<1> QED BY <1>1, <1>2, <1>3 DEF IInv

LEMMA RequestStep ==
    ASSUME IInv, NEW t \in Tokens, Request(t)
    PROVE  IInv'
<1>1. now' = now /\ drawn' = drawn /\ cookie' = cookie
  BY DEF Request
<1>2. CASE Valid(t)
  <2>1. /\ session' = [session EXCEPT ![t] = now + TTL]
        /\ used' = [used EXCEPT ![t] = now]
    BY <1>2 DEF Request, Verify, Renewed
  <2>2. session' \in [Tokens -> Nat] /\ used' \in [Tokens -> Nat]
    BY <2>1, AccountsAssumption DEF IInv
  <2>3. ASSUME NEW u \in Tokens PROVE SessionOf(u)'
    BY <1>1, <2>1 DEF IInv, SessionOf
  <2> QED BY <1>1, <2>2, <2>3 DEF IInv
<1>3. CASE ~Valid(t)
  <2>1. session' = [session EXCEPT ![t] = 0] /\ used' = used
    BY <1>3 DEF Request, Verify
  <2>2. session' \in [Tokens -> Nat]
    BY <2>1 DEF IInv
  <2>3. ASSUME NEW u \in Tokens PROVE SessionOf(u)'
    <3>1. SessionOf(u) /\ now \in Nat /\ used[u] \in Nat /\ session[u] \in Nat
      BY DEF IInv
    <3>2. CASE u = t
      <4>1. session'[u] = 0 /\ session[u] <= now
        BY <1>3, <2>1, <3>1, <3>2 DEF Valid, IInv
      <4> QED BY <1>1, <2>1, <3>1, <4>1, AccountsAssumption DEF SessionOf
    <3>3. CASE u # t
      BY <1>1, <2>1, <3>1, <3>3 DEF SessionOf, IInv
    <3> QED BY <3>2, <3>3
  <2> QED BY <1>1, <2>1, <2>2, <2>3 DEF IInv
<1> QED BY <1>2, <1>3

LEMMA LogoutStep ==
    ASSUME IInv, NEW b \in Browsers, NEW t, Logout(b, t)
    PROVE  IInv'
<1>1. /\ now' = now /\ drawn' = drawn
      /\ session' = [u \in Tokens |-> IF u = t THEN 0 ELSE session[u]]
      /\ used' = [u \in Tokens |-> IF u = t THEN 0 ELSE used[u]]
      /\ cookie' = [cookie EXCEPT ![b] = NoCookie]
  BY DEF Logout
<1>2. /\ session' \in [Tokens -> Nat]
      /\ used' \in [Tokens -> Nat]
      /\ cookie' \in [Browsers -> [token : Tokens \cup {NoToken}, until : Nat]]
  BY <1>1 DEF IInv, NoCookie
<1>3. ASSUME NEW u \in Tokens PROVE SessionOf(u)'
  BY <1>1 DEF IInv, SessionOf
<1> QED BY <1>1, <1>2, <1>3 DEF IInv

LEMMA LoginStep ==
    ASSUME IInv, NEW b \in Browsers, NEW ip \in Addresses, NEW t \in Tokens,
           LoginRight(b, ip, t)
    PROVE  IInv'
<1>1. /\ now' = now
      /\ drawn' = drawn \cup {t}
      /\ session' = [session EXCEPT ![t] = now + TTL]
      /\ used' = [used EXCEPT ![t] = now]
      /\ cookie' = [cookie EXCEPT ![b] = [token |-> t, until |-> now + TTL]]
  BY DEF LoginRight
<1>2. /\ session' \in [Tokens -> Nat]
      /\ used' \in [Tokens -> Nat]
      /\ cookie' \in [Browsers -> [token : Tokens \cup {NoToken}, until : Nat]]
  BY <1>1, AccountsAssumption DEF IInv
<1>3. ASSUME NEW u \in Tokens PROVE SessionOf(u)'
  BY <1>1 DEF IInv, SessionOf
<1> QED BY <1>1, <1>2, <1>3 DEF IInv

LEMMA TickStep ==
    ASSUME IInv, Tick
    PROVE  IInv'
<1>1. /\ now' = now + 1 /\ drawn' = drawn /\ session' = session
      /\ used' = used /\ cookie' = cookie
  BY DEF Tick
<1>2. ASSUME NEW t \in Tokens PROVE SessionOf(t)'
  BY <1>1, AccountsAssumption DEF IInv, SessionOf
<1> QED BY <1>1, <1>2 DEF IInv

LEMMA Inductive == Spec => []IInv
<1>1. Init => IInv
  BY DEF Init, IInv, SessionOf, NoCookie
<1>2. IInv /\ [Next]_vars => IInv'
  <2> SUFFICES ASSUME IInv, [Next]_vars PROVE IInv'
    OBVIOUS
  <2>1. ASSUME NEW t \in Tokens, Request(t) PROVE IInv'
    BY <2>1, RequestStep
  <2>2. ASSUME NEW b \in Browsers, NEW t, Logout(b, t) PROVE IInv'
    BY <2>2, LogoutStep
  <2>3. ASSUME NEW ip \in Addresses, LoginWrong(ip) PROVE IInv'
    BY <2>3 DEF LoginWrong, IInv, SessionOf
  <2>4. ASSUME NEW b \in Browsers, NEW ip \in Addresses, NEW t \in Tokens,
               LoginRight(b, ip, t)
        PROVE  IInv'
    BY <2>4, LoginStep
  <2>5. ASSUME NEW p \in Passwords, Start(p) PROVE IInv'
    BY <2>5, StartStep
  <2>6. CASE Tick
    BY <2>6, TickStep
  <2>7. CASE UNCHANGED vars
    BY <2>7 DEF vars, IInv, SessionOf
  <2> QED BY <2>1, <2>2, <2>3, <2>4, <2>5, <2>6, <2>7 DEF Next
<1> QED BY <1>1, <1>2, PTL DEF Spec

(* Sessions slide: a token is accepted exactly while less than TTL has passed *)
(* since verifySession or createSession last let somebody in with it.         *)
THEOREM SessionsSlide == Spec => []ValidIffRecentlyUsed
<1>1. IInv => ValidIffRecentlyUsed
  BY AccountsAssumption DEF IInv, SessionOf, ValidIffRecentlyUsed, Valid
<1> QED BY <1>1, Inductive, PTL

(* verifySession never accepts a token again that was logged out or expired.  *)
THEOREM SessionsEndForGood == Spec => EndedStaysEnded
<1> DEFINE Ended == \A t \in drawn : session[t] <= now => session'[t] <= now'
<1>1. ASSUME IInv, [Next]_vars PROVE Ended
  <2> SUFFICES ASSUME NEW t \in drawn, session[t] <= now
               PROVE  session'[t] <= now'
    OBVIOUS
  <2>t. t \in Tokens /\ now \in Nat /\ session \in [Tokens -> Nat]
    BY <1>1 DEF IInv
  <2>1. ASSUME NEW u \in Tokens, Request(u) PROVE session'[t] <= now'
    <3>1. CASE Valid(u)
      <4>1. u # t
        BY <2>t, <3>1 DEF Valid
      <4> QED BY <2>1, <2>t, <3>1, <4>1 DEF Request, Verify
    <3>2. CASE ~Valid(u)
      BY <2>1, <2>t, <3>2 DEF Request, Verify
    <3> QED BY <3>1, <3>2
  <2>2. ASSUME NEW b \in Browsers, NEW u, Logout(b, u) PROVE session'[t] <= now'
    BY <2>2, <2>t DEF Logout
  <2>3. ASSUME NEW ip \in Addresses, LoginWrong(ip) PROVE session'[t] <= now'
    BY <2>3, <2>t DEF LoginWrong
  <2>4. ASSUME NEW b \in Browsers, NEW ip \in Addresses, NEW u \in Tokens,
               LoginRight(b, ip, u)
        PROVE  session'[t] <= now'
    BY <2>4, <2>t DEF LoginRight
  <2>5. ASSUME NEW p \in Passwords, Start(p) PROVE session'[t] <= now'
    BY <2>5, <2>t DEF Start
  <2>6. CASE Tick
    BY <2>6, <2>t DEF Tick
  <2>7. CASE UNCHANGED vars
    BY <2>7, <2>t DEF vars
  <2> QED BY <1>1, <2>1, <2>2, <2>3, <2>4, <2>5, <2>6, <2>7 DEF Next
<1> QED BY <1>1, Inductive, PTL DEF Spec, EndedStaysEnded
----------------------------------------------------------------------------
(* The login limit.                                                           *)

(* The failures that the entry of an address counts, and those before them.   *)
Counting(ip) == {g \in guesses[ip] : g.at + Window >= failures[ip].resetAt}
Earlier(ip) == guesses[ip] \ Counting(ip)
WindowOpen(ip) == failures[ip].resetAt > now
SameTime(ip, t) == {g \in guesses[ip] : g.at = t}

(* While a window is open its first failure is remembered, and the window     *)
(* before it has left less than MaxFailures: its own first one is too old.    *)
(* Once it is closed its own failures are what is left, without the first.    *)
Limit(ip) ==
    /\ failures[ip] \in [count : 0..MaxFailures, resetAt : Nat]
    /\ failures[ip].resetAt <= now + Window
    /\ guesses[ip] \subseteq [at : Nat, nth : Nat]
    /\ IsFiniteSet(guesses[ip])
    /\ \A g \in guesses[ip] : /\ g.at <= now /\ now < g.at + Window
                              /\ g.nth < Cardinality(SameTime(ip, g.at))
    /\ WindowOpen(ip) => /\ Cardinality(Counting(ip)) = failures[ip].count
                         /\ \E g \in Counting(ip) : g.at + Window = failures[ip].resetAt
                         /\ Cardinality(Earlier(ip)) < MaxFailures
    /\ ~WindowOpen(ip) => /\ Cardinality(guesses[ip]) < MaxFailures
                          /\ \A g \in guesses[ip] : g.at < failures[ip].resetAt

LimitInv ==
    /\ now \in Nat
    /\ password \in Passwords \cup {NoPassword}
    /\ failures = [ip \in Addresses |-> failures[ip]]
    /\ guesses = [ip \in Addresses |-> guesses[ip]]
    /\ \A ip \in Addresses : Limit(ip)

LEMMA Forgiven ==
    ASSUME LimitInv, now' = now, NEW ip \in Addresses,
           failures'[ip] = NoEntry, guesses'[ip] = {}
    PROVE  Limit(ip)'
<1>1. Cardinality({}) = 0 /\ IsFiniteSet({})
  BY FS_EmptySet
<1> QED
  BY <1>1, AccountsAssumption DEF Limit, LimitInv, NoEntry, WindowOpen

(* The failure now is none of those remembered.                               *)
LEMMA GuessIsNew ==
    ASSUME LimitInv, NEW ip \in Addresses
    PROVE  Guess(ip) \in [at : Nat, nth : Nat] /\ Guess(ip) \notin guesses[ip]
<1>1. IsFiniteSet(SameTime(ip, now)) /\ Cardinality(SameTime(ip, now)) \in Nat
  <2>1. SameTime(ip, now) \subseteq guesses[ip] /\ IsFiniteSet(guesses[ip])
    BY DEF SameTime, LimitInv, Limit
  <2> QED
    BY <2>1, FS_Subset, FS_CardinalityType
<1>2. Guess(ip) = [at |-> now, nth |-> Cardinality(SameTime(ip, now))]
  BY DEF Guess, SameTime
<1>3. \A g \in guesses[ip] : g.nth < Cardinality(SameTime(ip, g.at))
  BY DEF LimitInv, Limit
<1> QED
  BY <1>1, <1>2, <1>3 DEF LimitInv

(* One more failure is numbered as the others.                                *)
LEMMA NumbersStay ==
    ASSUME LimitInv, NEW ip \in Addresses, guesses'[ip] = guesses[ip] \cup {Guess(ip)},
           NEW g \in guesses'[ip]
    PROVE  g.nth < Cardinality(SameTime(ip, g.at))'
<1> DEFINE new == Guess(ip)
           old == SameTime(ip, g.at)
<1>1. IsFiniteSet(old) /\ Cardinality(old) \in Nat
  <2>1. old \subseteq guesses[ip] /\ IsFiniteSet(guesses[ip])
    BY DEF SameTime, LimitInv, Limit
  <2> QED
    BY <2>1, FS_Subset, FS_CardinalityType
<1>2. new.at = now /\ new.nth = Cardinality(SameTime(ip, now)) /\ new \notin guesses[ip]
  BY GuessIsNew DEF Guess, SameTime
<1>3. CASE g.at = now
  <2>1. SameTime(ip, g.at)' = old \cup {new} /\ new \notin old
    BY <1>2, <1>3 DEF SameTime
  <2>2. Cardinality(old \cup {new}) = Cardinality(old) + 1
    BY <1>1, <2>1, FS_AddElement
  <2>3. g.nth < Cardinality(old) \/ g.nth = Cardinality(old)
    BY <1>2, <1>3 DEF LimitInv, Limit
  <2>4. g.nth \in Nat
    BY GuessIsNew DEF LimitInv, Limit
  <2> QED
    BY <1>1, <2>1, <2>2, <2>3, <2>4
<1>4. CASE g.at # now
  <2>1. SameTime(ip, g.at)' = old /\ g \in guesses[ip]
    BY <1>2, <1>4 DEF SameTime
  <2> QED
    BY <2>1 DEF LimitInv, Limit
<1> QED
  BY <1>3, <1>4

LEMMA WrongStep ==
    ASSUME LimitInv, NEW ip \in Addresses, LoginWrong(ip)
    PROVE  Limit(ip)'
<1> DEFINE new == Guess(ip)
<1>1. /\ now' = now
      /\ failures'[ip] = Counted(ip)
      /\ guesses'[ip] = guesses[ip] \cup {new}
  BY DEF LoginWrong, LimitInv
<1>2. Limit(ip) /\ now \in Nat
  BY DEF LimitInv
<1>3. new \in [at : Nat, nth : Nat] /\ new.at = now /\ new \notin guesses[ip]
  BY GuessIsNew DEF Guess
<1>4. IsFiniteSet(guesses'[ip])
  BY <1>1, <1>2, FS_AddElement DEF Limit
<1>5. /\ guesses'[ip] \subseteq [at : Nat, nth : Nat]
      /\ \A g \in guesses'[ip] : g.at <= now' /\ now' < g.at + Window
  BY <1>1, <1>2, <1>3, AccountsAssumption DEF Limit
<1>6. \A g \in guesses'[ip] : g.nth < Cardinality(SameTime(ip, g.at))'
  BY <1>1, NumbersStay
<1> HIDE DEF new
<1>7. CASE WindowOpen(ip)
  <2>1. /\ failures'[ip].count = failures[ip].count + 1
        /\ failures'[ip].resetAt = failures[ip].resetAt
        /\ failures[ip].count + 1 \in 0..MaxFailures
    <3>1. ~(failures[ip].resetAt <= now) /\ failures[ip].count < MaxFailures
      BY <1>2, <1>7, AccountsAssumption DEF LoginWrong, Blocked, Limit, WindowOpen
    <3> QED
      BY <1>1, <1>2, <3>1, AccountsAssumption DEF Counted, Limit
  <2>2. Counting(ip)' = Counting(ip) \cup {new} /\ Earlier(ip)' = Earlier(ip)
    BY <1>1, <1>2, <1>3, <2>1, AccountsAssumption DEF Counting, Earlier, Limit
  <2>3. IsFiniteSet(Counting(ip)) /\ new \notin Counting(ip)
    BY <1>2, <1>3, FS_Subset DEF Counting, Limit
  <2>4. Cardinality(Counting(ip) \cup {new}) = Cardinality(Counting(ip)) + 1
    BY <2>3, FS_AddElement
  <2>5. failures'[ip] \in [count : 0..MaxFailures, resetAt : Nat]
    BY <1>1, <1>2, <1>7, <2>1 DEF Counted, Limit, WindowOpen
  <2> QED
    BY <1>1, <1>2, <1>4, <1>5, <1>6, <1>7, <2>1, <2>2, <2>4, <2>5 DEF Limit, WindowOpen
<1>8. CASE ~WindowOpen(ip)
  <2>1. failures'[ip] = [count |-> 1, resetAt |-> now + Window]
    BY <1>1, <1>2, <1>8 DEF Counted, Limit, WindowOpen
  <2>2. \A g \in guesses[ip] : g.at \in Nat /\ g.at < now
    BY <1>2, <1>8 DEF Limit, WindowOpen
  <2>3. Counting(ip)' = {new} /\ Earlier(ip)' = guesses[ip]
    BY <1>1, <1>2, <1>3, <2>1, <2>2, AccountsAssumption DEF Counting, Earlier
  <2>4. Cardinality({new}) = 1
    BY FS_Singleton
  <2> QED
    BY <1>1, <1>2, <1>3, <1>4, <1>5, <1>6, <1>8, <2>1, <2>3, <2>4, AccountsAssumption
       DEF Limit, WindowOpen
<1> QED
  BY <1>7, <1>8

(* A moment passes: failures of one moment grow too old together.             *)
LEMMA AgeStep ==
    ASSUME LimitInv, Tick, NEW ip \in Addresses
    PROVE  Limit(ip)'
<1>1. /\ now' = now + 1 /\ failures' = failures
      /\ guesses'[ip] = {g \in guesses[ip] : g.at + Window > now + 1}
  BY DEF Tick
<1>2. Limit(ip) /\ now \in Nat
  BY DEF LimitInv
<1>3. IsFiniteSet(guesses'[ip]) /\ Cardinality(guesses'[ip]) <= Cardinality(guesses[ip])
  BY <1>1, <1>2, FS_Subset DEF Limit
<1>4. \A g \in guesses'[ip] : SameTime(ip, g.at)' = SameTime(ip, g.at)
  BY <1>1 DEF SameTime
<1>5. \A g \in guesses'[ip] : /\ g.at <= now' /\ now' < g.at + Window
                              /\ g.nth < Cardinality(SameTime(ip, g.at))'
  BY <1>1, <1>2, <1>4, AccountsAssumption DEF Limit
<1>6. CASE WindowOpen(ip)'
  <2>1. WindowOpen(ip) /\ failures[ip].resetAt > now + 1
    BY <1>1, <1>2, <1>6 DEF WindowOpen, Limit
  <2>2. Counting(ip)' = Counting(ip)
    BY <1>1, <1>2, <2>1, AccountsAssumption DEF Counting, Limit
  <2>3. Earlier(ip)' \subseteq Earlier(ip) /\ IsFiniteSet(Earlier(ip))
    BY <1>1, <1>2, <2>2, FS_Subset DEF Earlier, Limit
  <2>4. Cardinality(Earlier(ip)') <= Cardinality(Earlier(ip))
    BY <2>3, FS_Subset
  <2>5. Cardinality(Earlier(ip)') \in Nat /\ Cardinality(Earlier(ip)) \in Nat
    BY <2>3, FS_Subset, FS_CardinalityType
  <2>6. Cardinality(Earlier(ip)') < MaxFailures
    BY <1>2, <2>1, <2>4, <2>5, AccountsAssumption DEF Limit
  <2> QED
    BY <1>1, <1>2, <1>3, <1>5, <1>6, <2>1, <2>2, <2>6, AccountsAssumption DEF Limit
<1>7. CASE ~WindowOpen(ip)' /\ WindowOpen(ip)
  <2>1. failures[ip].resetAt = now + 1
    BY <1>1, <1>2, <1>7 DEF WindowOpen, Limit
  <2>2. PICK first \in Counting(ip) : first.at + Window = now + 1
    BY <1>2, <1>7, <2>1 DEF Limit
  <2>3. guesses'[ip] \subseteq Counting(ip) \ {first}
    BY <1>1, <1>2, <2>1, <2>2, AccountsAssumption DEF Counting, Limit
  <2>4. IsFiniteSet(Counting(ip)) /\ Cardinality(Counting(ip)) \in 0..MaxFailures
    <3>1. IsFiniteSet(Counting(ip))
      BY <1>2, FS_Subset DEF Counting, Limit
    <3> QED
      BY <1>2, <1>7, <3>1 DEF Limit
  <2>5. /\ IsFiniteSet(Counting(ip) \ {first})
        /\ Cardinality(Counting(ip) \ {first}) = Cardinality(Counting(ip)) - 1
    BY <2>2, <2>4, FS_RemoveElement
  <2>6. Cardinality(guesses'[ip]) <= Cardinality(Counting(ip) \ {first})
    BY <2>3, <2>5, FS_Subset
  <2>7. Cardinality(guesses'[ip]) \in Nat
    BY <1>3, FS_CardinalityType
  <2>8. Cardinality(guesses'[ip]) < MaxFailures
    BY <2>4, <2>5, <2>6, <2>7, AccountsAssumption
  <2>9. \A g \in guesses'[ip] : g.at < failures'[ip].resetAt
    BY <1>1, <1>2, <2>1 DEF Limit
  <2> QED
    BY <1>1, <1>2, <1>3, <1>5, <1>7, <2>8, <2>9, AccountsAssumption DEF Limit
<1>8. CASE ~WindowOpen(ip)' /\ ~WindowOpen(ip)
  <2>1. Cardinality(guesses'[ip]) \in Nat /\ Cardinality(guesses[ip]) \in Nat
    BY <1>2, <1>3, FS_CardinalityType DEF Limit
  <2>2. Cardinality(guesses'[ip]) < MaxFailures
    BY <1>2, <1>3, <1>8, <2>1, AccountsAssumption DEF Limit
  <2> QED
    BY <1>1, <1>2, <1>3, <1>5, <1>8, <2>2, AccountsAssumption DEF Limit
<1> QED
  BY <1>6, <1>7, <1>8

LEMMA LimitsHold == Spec => []LimitInv
<1>1. Init => LimitInv
  <2>1. Cardinality({}) = 0 /\ IsFiniteSet({})
    BY FS_EmptySet
  <2> QED
    BY <2>1, AccountsAssumption DEF Init, LimitInv, Limit, NoEntry, WindowOpen
<1>2. LimitInv /\ [Next]_vars => LimitInv'
  <2> SUFFICES ASSUME LimitInv, [Next]_vars PROVE LimitInv'
    OBVIOUS
  <2>1. CASE UNCHANGED <<now, password, failures, guesses>>
    BY <2>1 DEF LimitInv, Limit, Counting, Earlier, WindowOpen, SameTime
  <2>2. ASSUME NEW ip \in Addresses, LoginWrong(ip) PROVE LimitInv'
    <3>1. Limit(ip)'
      BY <2>2, WrongStep
    <3>2. /\ now' = now /\ password' = password
          /\ failures' = [failures EXCEPT ![ip] = Counted(ip)]
          /\ guesses' = [guesses EXCEPT ![ip] = @ \cup {Guess(ip)}]
      BY <2>2 DEF LoginWrong
    <3>3. ASSUME NEW a \in Addresses, a # ip PROVE Limit(a)'
      <4>1. failures'[a] = failures[a] /\ guesses'[a] = guesses[a]
        BY <3>2, <3>3 DEF LimitInv
      <4> QED
        BY <3>2, <4>1 DEF LimitInv, Limit, Counting, Earlier, WindowOpen, SameTime
    <3> QED
      BY <3>1, <3>2, <3>3 DEF LimitInv
  <2>3. ASSUME NEW b \in Browsers, NEW ip \in Addresses, NEW t \in Tokens,
               LoginRight(b, ip, t)
        PROVE  LimitInv'
    <3>1. /\ now' = now /\ password' = password
          /\ failures' = [failures EXCEPT ![ip] = NoEntry]
          /\ guesses' = [guesses EXCEPT ![ip] = {}]
      BY <2>3 DEF LoginRight
    <3>2. Limit(ip)'
      BY <3>1, Forgiven DEF LimitInv
    <3>3. ASSUME NEW a \in Addresses, a # ip PROVE Limit(a)'
      <4>1. failures'[a] = failures[a] /\ guesses'[a] = guesses[a]
        BY <3>1, <3>3 DEF LimitInv
      <4> QED
        BY <3>1, <4>1 DEF LimitInv, Limit, Counting, Earlier, WindowOpen, SameTime
    <3> QED
      BY <3>1, <3>2, <3>3 DEF LimitInv
  <2>4. ASSUME NEW p \in Passwords, Start(p) PROVE LimitInv'
    <3>1. /\ now' = now /\ password' \in Passwords \cup {NoPassword}
          /\ failures' = [ip \in Addresses |-> NoEntry]
          /\ guesses' = [ip \in Addresses |-> {}]
      BY <2>4 DEF Start, LimitInv
    <3>2. \A ip \in Addresses : Limit(ip)'
      BY <3>1, Forgiven
    <3> QED
      BY <3>1, <3>2 DEF LimitInv
  <2>5. CASE Tick
    <3>1. \A ip \in Addresses : Limit(ip)'
      BY <2>5, AgeStep
    <3> QED
      BY <2>5, <3>1 DEF Tick, LimitInv
  <2> QED
    BY <2>1, <2>2, <2>3, <2>4, <2>5 DEF Next, Request, Logout, vars
<1> QED
  BY <1>1, <1>2, PTL DEF Spec

(* Whoever is answered 429 has failed MaxFailures times within the last       *)
(* Window (routes/auth.ts, blockedSeconds and recordFailure).                 *)
THEOREM BlocksJustified == Spec => []BlockedForCause
<1>1. LimitInv => BlockedForCause
  <2> SUFFICES ASSUME LimitInv, NEW ip \in Addresses, Blocked(ip)
               PROVE  Cardinality(guesses[ip]) >= MaxFailures
    BY DEF BlockedForCause
  <2>1. Limit(ip) /\ WindowOpen(ip)
    BY DEF LimitInv, Blocked, WindowOpen
  <2>2. Counting(ip) \subseteq guesses[ip] /\ IsFiniteSet(guesses[ip])
    BY <2>1 DEF Counting, Limit
  <2>3. /\ Cardinality(Counting(ip)) <= Cardinality(guesses[ip])
        /\ Cardinality(guesses[ip]) \in Nat
    BY <2>2, FS_Subset, FS_CardinalityType
  <2>4. Cardinality(Counting(ip)) = failures[ip].count /\ failures[ip].count \in Nat
    BY <2>1 DEF Limit
  <2> QED
    BY <2>3, <2>4, AccountsAssumption DEF Blocked
<1> QED
  BY <1>1, LimitsHold, PTL

(* Where two fixed windows meet, an address still gets less than twice        *)
(* MaxFailures wrong guesses within one Window (routes/auth.ts).              *)
THEOREM GuessesLimited == Spec => []GuessesBounded
<1>1. LimitInv => GuessesBounded
  <2> SUFFICES ASSUME LimitInv, NEW ip \in Addresses
               PROVE  Cardinality(guesses[ip]) < 2 * MaxFailures
    BY DEF GuessesBounded
  <2>1. Limit(ip)
    BY DEF LimitInv
  <2>2. CASE WindowOpen(ip)
    <3>1. /\ IsFiniteSet(Counting(ip)) /\ IsFiniteSet(Earlier(ip))
          /\ Counting(ip) \cap Earlier(ip) = {}
          /\ guesses[ip] = Counting(ip) \cup Earlier(ip)
      BY <2>1, FS_Subset DEF Counting, Earlier, Limit
    <3>2. Cardinality(guesses[ip]) = Cardinality(Counting(ip)) + Cardinality(Earlier(ip))
      <4>1. Cardinality(Counting(ip) \cap Earlier(ip)) = 0
        BY <3>1, FS_EmptySet
      <4>2. Cardinality(Counting(ip) \cup Earlier(ip))
              = Cardinality(Counting(ip)) + Cardinality(Earlier(ip))
                - Cardinality(Counting(ip) \cap Earlier(ip))
        BY <3>1, FS_Union
      <4>3. Cardinality(Counting(ip)) \in Nat /\ Cardinality(Earlier(ip)) \in Nat
        BY <3>1, FS_CardinalityType
      <4> QED
        BY <3>1, <4>1, <4>2, <4>3
    <3>3. Cardinality(Counting(ip)) \in 0..MaxFailures /\ Cardinality(Earlier(ip)) < MaxFailures
      BY <2>1, <2>2 DEF Limit
    <3>4. Cardinality(Earlier(ip)) \in Nat
      BY <3>1, FS_CardinalityType
    <3> QED
      BY <3>2, <3>3, <3>4, AccountsAssumption
  <2>3. CASE ~WindowOpen(ip)
    <3>1. Cardinality(guesses[ip]) \in Nat /\ Cardinality(guesses[ip]) < MaxFailures
      BY <2>1, <2>3, FS_CardinalityType DEF Limit
    <3> QED
      BY <3>1, AccountsAssumption
  <2> QED
    BY <2>2, <2>3
<1> QED
  BY <1>1, LimitsHold, PTL

(* Every variable keeps its type; so no entry counts beyond the limit.        *)
THEOREM TypeCorrect == Spec => []TypeOK
<1>1. IInv /\ LimitInv => TypeOK
  <2> SUFFICES ASSUME IInv, LimitInv PROVE TypeOK
    OBVIOUS
  <2>1. failures \in [Addresses -> [count : 0..MaxFailures, resetAt : Nat]]
    BY DEF LimitInv, Limit
  <2>2. guesses \in [Addresses -> SUBSET [at : Nat, nth : Nat]]
    BY DEF LimitInv, Limit
  <2> QED
    BY <2>1, <2>2 DEF IInv, LimitInv, TypeOK
<1> QED
  BY <1>1, Inductive, LimitsHold, PTL
=============================================================================
