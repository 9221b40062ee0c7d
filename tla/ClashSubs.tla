------------------------------ MODULE ClashSubs ------------------------------
(* Clash subscriptions: the table clash_subs (db/clashSubRepo.ts), creating   *)
(* and fetching (services/clashService.ts, routes/clash.ts) and the clean-up  *)
(* that follows the hourly one of the connections (services/scheduler.ts).    *)
(* A row is a pointer: it names links, and what is served is decided when it  *)
(* is fetched, from the rows the links have by then.  Fetching needs no       *)
(* session; a request that is refused changes nothing and is no action.       *)
EXTENDS ClashConfig

CONSTANTS
    Links,      \* identifiers of links
    Words,      \* what names are made of, besides numbers
    Label,      \* the alias, note and id of each link, as names
    Tokens,     \* what randomBytes(32) can draw
    NoToken,
    MaxLinks,   \* MAX_CLASH_LINKS
    TTL,        \* ttlMs
    Lifetimes,  \* the expires_at a link may be given
    MaxTime     \* bound on the clock

Permanent == 0
Names == Seq(Words \cup Nat)

ASSUME SubsAssumption ==
    /\ MaxLinks \in Nat \ {0}
    /\ TTL \in Nat \ {0}
    /\ Lifetimes \subseteq Nat
    /\ MaxTime \in Nat \ {0}
    /\ Label \in [Links -> [alias : Names, note : Names, id : Names]]

VARIABLES
    now,      \* Date.now()
    status,   \* links: fresh, active, down (expired or revoked), gone
    expires,  \* links.expires_at
    drawn,    \* tokens drawn so far
    subs,     \* clash_subs: link_ids and expires_at by token
    answer    \* what the last step answered to a GET

vars == <<now, status, expires, drawn, subs, answer>>
links == <<status, expires>>

NoRow == [ids |-> <<>>, ends |-> 0]
HasRow(t) == subs[t].ends > 0
NoAnswer == [token |-> NoToken, nodes |-> <<>>, names |-> <<>>]

----------------------------------------------------------------------------
(* The links, as linkService and the passes move them (see LinkControl): a    *)
(* revocation whose rmu failed is rolled back, so a link may come back.       *)
Moves == {<<"active", "down">>, <<"down", "active">>,
          <<"active", "gone">>, <<"down", "gone">>}

LinkMoves(l) ==
    /\ \E to \in {"active", "down", "gone"} :
          /\ <<status[l], to>> \in Moves
          /\ status' = [status EXCEPT ![l] = to]
    /\ answer' = NoAnswer
    /\ UNCHANGED <<now, expires, drawn, subs>>

LinkIssued(l) ==
    /\ status[l] = "fresh"
    /\ status' = [status EXCEPT ![l] = "active"]
    /\ \E at \in Lifetimes : /\ at = Permanent \/ at > now
                             /\ expires' = [expires EXCEPT ![l] = at]
    /\ answer' = NoAnswer
    /\ UNCHANGED <<now, drawn, subs>>

(* extend: to any moment ahead (so also an earlier end than before), hours    *)
(* after the present end, to permanent or back from it.                       *)
LinkExtended(l) ==
    /\ status[l] = "active"
    /\ \E at \in Lifetimes :
          /\ \/ at > now
             \/ expires[l] # Permanent /\ (at > expires[l] \/ at = Permanent)
          /\ expires' = [expires EXCEPT ![l] = at]
    /\ answer' = NoAnswer
    /\ UNCHANGED <<now, status, drawn, subs>>

Tick ==
    /\ now < MaxTime
    /\ now' = now + 1
    /\ answer' = NoAnswer
    /\ UNCHANGED <<links, drawn, subs>>

Known == {l \in Links : status[l] \in {"active", "down"}}

(* shouldBeActive at this moment.                                             *)
Serves(l) == status[l] = "active" /\ (expires[l] = Permanent \/ expires[l] > now)

----------------------------------------------------------------------------
(* POST /api/clash/subscriptions.  Mutant: identifiers without a row are not  *)
(* skipped.                                                                   *)
SelectedAll(linkIds) == Accepted(linkIds, Links)
Selected(linkIds) == Accepted(linkIds, Known)

Create(t, linkIds) ==
    /\ Len(linkIds) \in 1..MaxLinks
    /\ Selected(linkIds) # <<>>
    /\ t \notin drawn
    /\ drawn' = drawn \cup {t}
    /\ subs' = [subs EXCEPT ![t] = [ids |-> Selected(linkIds), ends |-> now + TTL]]
    /\ answer' = NoAnswer
    /\ UNCHANGED <<now, links>>

(* GET /api/clash/subscriptions/:token: no row, a row that has ended and a    *)
(* list of which nothing serves are all answered 404, here an empty list.     *)
Ended(t) == subs[t].ends <= now

(* Mutant: the links are those the subscription was created with.             *)
LiveAsCreated(t) == IF ~HasRow(t) \/ Ended(t) THEN <<>> ELSE subs[t].ids
Live(t) == IF ~HasRow(t) \/ Ended(t) THEN <<>>
           ELSE OnlyThose(subs[t].ids, {l \in Links : Serves(l)})

Get(t) ==
    /\ answer' = [token |-> t, nodes |-> Live(t),
                  names |-> DedupeNodeNames([i \in DOMAIN Live(t) |->
                                                DisplayAlias(Label[Live(t)[i]])])]
    /\ UNCHANGED <<now, links, drawn, subs>>

(* deleteExpired.                                                             *)
Overdue(t) == HasRow(t) /\ subs[t].ends <= now

CleanUp ==
    /\ subs' = [t \in Tokens |-> IF Overdue(t) THEN NoRow ELSE subs[t]]
    /\ answer' = NoAnswer
    /\ UNCHANGED <<now, links, drawn>>

----------------------------------------------------------------------------
Init ==
    /\ now = 1
    /\ status = [l \in Links |-> "fresh"]
    /\ expires = [l \in Links |-> Permanent]
    /\ drawn = {}
    /\ subs = [t \in Tokens |-> NoRow]
    /\ answer = NoAnswer

(* What a request may ask for; lists that are too long are refused.           *)
Requests == BoundedSeq(Links, MaxLinks + 1)

Next ==
    \/ \E l \in Links : LinkIssued(l) \/ LinkMoves(l) \/ LinkExtended(l)
    \/ Tick
    \/ \E t \in Tokens : Get(t) \/ \E linkIds \in Requests : Create(t, linkIds)
    \/ CleanUp

Spec == Init /\ [][Next]_vars

----------------------------------------------------------------------------
(* A row names between one and MaxLinks different links that existed.         *)
TypeOK ==
    /\ now \in 1..MaxTime
    /\ status \in [Links -> {"fresh", "active", "down", "gone"}]
    /\ expires \in [Links -> Lifetimes \cup {Permanent}]
    /\ drawn \subseteq Tokens
    /\ \A t \in Tokens : HasRow(t) =>
          /\ t \in drawn
          /\ Len(subs[t].ids) \in 1..MaxLinks
          /\ IsInjective(subs[t].ids)
          /\ \A l \in ToSet(subs[t].ids) : status[l] # "fresh"
          /\ subs[t].ends \in (1 + TTL)..(MaxTime + TTL)

(* The names of the proxies in a configuration differ pairwise, whatever the  *)
(* users called their links: clients and the proxy group refer to a proxy by  *)
(* its name.                                                                  *)
NamesDiffer == IsInjective(answer.names)

(* The table behind the promise: the clean-up cannot be observed, a fetch in  *)
(* the very moment a subscription ends is answered as any later one, and an   *)
(* answer holds exactly the links that serve now.                             *)
openList == [t \in Tokens |-> IF Ended(t) THEN NoRow ELSE subs[t]]
shown == [token |-> answer.token, nodes |-> answer.nodes]

Promise == INSTANCE TimedSubs WITH
    serving <- {l \in Links : Serves(l)}, list <- openList, answer <- shown

ImplementsTimedSubs == Promise!Spec
=============================================================================
