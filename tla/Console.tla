------------------------------ MODULE Console ------------------------------
(* The web console: which page is shown (frontend/src/App.tsx, components/    *)
(* Login.tsx), the table of links and its dialogs (Dashboard.tsx, CreateModal *)
(* .tsx, ActModal.tsx) and the client every call goes through (api.ts).  Each *)
(* call is a request on the wire; the server answers the requests in any      *)
(* order, the answers land in any order, and any of them may be lost.  A      *)
(* component that has been left ignores its answers, but what their handlers  *)
(* do outside it (a 401, a further request) still happens.                    *)
EXTENDS FiniteSets, Integers

CONSTANTS
    Links,     \* the links of the ledger
    None,
    MaxClicks  \* bound on the requests the operator sends; a login may follow them

ASSUME ConsoleAssumption ==
    /\ None \notin Links \cup {"active", "ended", "builtin", "sso"}
    /\ MaxClicks \in Nat

VARIABLES
    authMode,  \* the server's AUTH_MODE: builtin or sso
    state,     \* links.status at the server: fresh, active, ended, gone
    sessions,  \* sessions the server would accept
    cookie,    \* the session the browser holds, 0 for none
    wire,      \* requests whose answer has not landed
    sent,      \* requests sent so far
    clicks,    \* those of them the operator sent
    mode,      \* what getAuthMode() resolved to, None while it is unknown
    phase,     \* App: loading, login, app; away once the browser left the page
    signing,   \* Login: loading
    cooling,   \* Login: cooldown > 0
    meLost,    \* history: no answer to me() will ever come
    mount,     \* how often a Dashboard was mounted
    screen,    \* Dashboard: the status shown of each row, None for no row
    loading,   \* Dashboard: loading
    selected,  \* Dashboard: selected
    busy,      \* Dashboard: busy
    dialog,    \* Dashboard: modal, and the submitting of the dialog it shows
    acked,     \* history: own revocations and deletions that were answered
    unseen     \* those of them that the screen need not show yet

server == <<authMode, state, sessions>>
login == <<meLost, signing, cooling>>
table == <<screen, selected, busy, dialog, acked, unseen>>
dashboard == <<mount, loading, table>>
page == <<mode, phase, cookie, clicks, login, dashboard>>
vars == <<server, wire, sent, page>>

Ops == {"list", "create", "revoke", "delete", "extend"}      \* through request()
Replies == {"none", "ok", "denied", "limited", "refused"}
Dialogs == [kind : {"none", "create", "extend"}, link : Links \cup {None},
            number : Nat, submitting : BOOLEAN]
NoDialog == [kind |-> "none", link |-> None, number |-> 0, submitting |-> FALSE]
NoRows == [l \in Links |-> None]
Rows(s) == {l \in Links : s[l] # None}

(* A request as it leaves: d is the number of the dialog it was submitted in, *)
(* known the revocations and deletions that were answered before.             *)
Request(op, l, m, d, known) ==
    [id |-> sent + 1, op |-> op, link |-> l, mount |-> m, dialog |-> d,
     cookie |-> cookie, acked |-> known, reply |-> "none", rows |-> NoRows]

SendKnowing(rest, op, l, m, d, known) ==
    /\ wire' = rest \cup {Request(op, l, m, d, known)}
    /\ sent' = sent + 1

Send(rest, op, l, m, d) == SendKnowing(rest, op, l, m, d, acked)

Click(op, l, d) ==
    /\ phase = "app"
    /\ clicks < MaxClicks
    /\ clicks' = clicks + 1
    /\ Send(wire, op, l, mount, d)
    /\ UNCHANGED <<server, mode, phase, cookie, login, mount, loading, acked, unseen>>

EmptyTable ==
    /\ screen' = NoRows
    /\ selected' = {}
    /\ busy' = None
    /\ dialog' = NoDialog
    /\ acked' = {}
    /\ unseen' = {}

(* A Dashboard appears and asks for the list at once.                         *)
EnterApp(rest) ==
    /\ phase' = "app"
    /\ mount' = mount + 1
    /\ loading' = TRUE
    /\ Send(rest, "list", None, mount + 1, 0)
    /\ EmptyTable

(* onUnauthorized: App goes to the login page, whatever it was showing.       *)
ToLogin ==
    /\ phase' = "login"
    /\ loading' = FALSE
    /\ EmptyTable
    /\ UNCHANGED mount

(* The browser leaves the page: every request is aborted.                     *)
LeavePage ==
    /\ phase' = "away"
    /\ wire' = {}
    /\ loading' = FALSE
    /\ EmptyTable
    /\ UNCHANGED <<server, sent, clicks, mode, cookie, login, mount>>

----------------------------------------------------------------------------
(* The server's side, as the routes answer; a request may be refused for      *)
(* reasons the console cannot see (xray down, a conflicting request).         *)
Answers(r, how, rows) ==
    wire' = (wire \ {r}) \cup {[r EXCEPT !.reply = how, !.rows = rows]}

Takes(l, from, to) == state[l] \in from /\ state' = [state EXCEPT ![l] = to]

(* GET /api/links.                                                            *)
Listed == [l \in Links |-> IF state[l] \in {"active", "ended"} THEN state[l] ELSE None]

Effect(r) ==
    /\ \/ r.op = "list" /\ UNCHANGED state
       \/ r.op = "create" /\ \E l \in Links : Takes(l, {"fresh"}, "active")
       \/ r.op = "revoke" /\ Takes(r.link, {"active"}, "ended")
       \/ r.op = "extend" /\ Takes(r.link, {"active"}, "active")
       \/ r.op = "delete" /\ Takes(r.link, {"active", "ended"}, "gone")
    /\ Answers(r, "ok", IF r.op = "list" THEN Listed ELSE NoRows)
    /\ UNCHANGED sessions

ServeLinks(r) ==
    /\ r.op \in Ops
    /\ IF r.cookie \in sessions
       THEN \/ Effect(r)
            \/ r.op # "list" /\ Answers(r, "refused", NoRows) /\ UNCHANGED <<state, sessions>>
       ELSE Answers(r, "denied", NoRows) /\ UNCHANGED <<state, sessions>>

ServeAuth(r) ==
    /\ \/ r.op = "mode" /\ Answers(r, "ok", NoRows) /\ UNCHANGED sessions
       \/ /\ r.op = "me"
          /\ \/ r.cookie \in sessions /\ Answers(r, "ok", NoRows)
             \/ r.cookie \notin sessions /\ Answers(r, "denied", NoRows)
             \/ Answers(r, "refused", NoRows)
          /\ UNCHANGED sessions
       \/ /\ r.op = "login"
          /\ \/ Answers(r, "ok", NoRows) /\ sessions' = sessions \cup {r.id}
             \/ /\ \E how \in {"denied", "limited"} : Answers(r, how, NoRows)
                /\ UNCHANGED sessions
       \/ /\ r.op = "logout"
          /\ Answers(r, "ok", NoRows)
          /\ sessions' = sessions \ {r.cookie}
    /\ UNCHANGED state

Serve(r) ==
    /\ r.reply = "none"
    /\ ServeLinks(r) \/ ServeAuth(r)
    /\ UNCHANGED <<authMode, sent, page>>

SessionEnds ==
    /\ sessions # {}
    /\ sessions' = {}
    /\ UNCHANGED <<authMode, state, wire, sent, page>>

(* The expire scan.                                                           *)
LinkExpires(l) ==
    /\ Takes(l, {"active"}, "ended")
    /\ UNCHANGED <<authMode, sessions, wire, sent, page>>

----------------------------------------------------------------------------
(* Answers.  how is "lost" when fetch() rejects, else the server's reply;     *)
(* Shown says that the component that sent the request is still there.        *)
Shown(r) == phase = "app" /\ r.mount = mount

(* request(): a 401 leaves for the gateway or for the login page.             *)
Unauthorized(r) ==
    IF mode = "sso" THEN LeavePage
    ELSE /\ ToLogin
         /\ wire' = wire \ {r}
         /\ UNCHANGED <<server, sent, clicks, mode, cookie, login>>

(* Nobody is left to take the answer.                                         *)
Ignored(r) ==
    /\ ~ Shown(r)
    /\ wire' = wire \ {r}
    /\ UNCHANGED <<server, sent, page>>

Lands(r) == wire' = wire \ {r} /\ UNCHANGED <<server, sent, clicks, mode, phase, cookie, login, mount>>

(* refresh(); r.link is the row a deletion waits for.  Mutant: the ticks of   *)
(* rows that went stay.                                                       *)
NotNarrowed(rows) == selected
Narrowed(rows) == selected \cap Rows(rows)

ListLands(r, how) ==
    /\ Shown(r)
    /\ Lands(r)
    /\ loading' = FALSE
    /\ busy' = IF r.link = None THEN busy ELSE None
    /\ IF how = "ok" THEN /\ screen' = r.rows
                          /\ selected' = Narrowed(r.rows)
                          /\ unseen' = acked \ r.acked
                     ELSE UNCHANGED <<screen, selected, unseen>>
    /\ UNCHANGED <<dialog, acked>>

(* applyUpdate.  Mutant: the answered row is not put into the table.          *)
NotUpdated(l, status) == screen
Updated(l, status) == IF screen[l] = None THEN screen ELSE [screen EXCEPT ![l] = status]

RevokeLands(r, how) ==
    /\ Shown(r)
    /\ Lands(r)
    /\ busy' = None
    /\ IF how = "ok" THEN /\ screen' = Updated(r.link, "ended")
                          /\ acked' = acked \cup {r.link}
                          /\ unseen' = unseen \ {r.link}
                     ELSE UNCHANGED <<screen, acked, unseen>>
    /\ UNCHANGED <<loading, selected, dialog>>

(* doDelete: the row stays until the list that follows is there; that list    *)
(* leaves after the answer, so it owes the operator the deletion.             *)
DeleteLands(r, how) ==
    \/ /\ how = "ok"
       /\ LET own == IF Shown(r) THEN {r.link} ELSE {} IN
          /\ SendKnowing(wire \ {r}, "list", r.link, r.mount, 0, acked \cup own)
          /\ acked' = acked \cup own
          /\ unseen' = unseen \cup own
       /\ UNCHANGED <<server, clicks, mode, phase, cookie, login, mount, loading,
                      screen, selected, busy, dialog>>
    \/ /\ how # "ok"
       /\ Shown(r)
       /\ Lands(r)
       /\ busy' = None
       /\ UNCHANGED <<loading, screen, selected, dialog, acked, unseen>>

(* The catch of a dialog's submission.  Mutant: submitting stays set.         *)
NotRetriable(d) == dialog
Retriable(d) == IF dialog.number = d THEN [dialog EXCEPT !.submitting = FALSE] ELSE dialog

SubmitFails(r) ==
    /\ Shown(r)
    /\ Lands(r)
    /\ dialog' = Retriable(r.dialog)
    /\ UNCHANGED <<loading, screen, selected, busy, acked, unseen>>

CreateLands(r, how) ==
    \/ /\ how = "ok"
       /\ Send(wire \ {r}, "list", None, r.mount, 0)
       /\ dialog' = IF Shown(r) THEN NoDialog ELSE dialog
       /\ UNCHANGED <<server, clicks, mode, phase, cookie, login, mount, loading,
                      screen, selected, busy, acked, unseen>>
    \/ how # "ok" /\ SubmitFails(r)

ExtendLands(r, how) ==
    \/ /\ how = "ok"
       /\ Shown(r)
       /\ Lands(r)
       /\ screen' = Updated(r.link, "active")
       /\ unseen' = unseen \cup (acked \cap {r.link})
       /\ dialog' = NoDialog
       /\ UNCHANGED <<loading, selected, busy, acked>>
    \/ how # "ok" /\ SubmitFails(r)

LinksAnswer(r, how) ==
    /\ r.op \in Ops
    /\ IF how = "denied" THEN Unauthorized(r)
       ELSE \/ r.op = "list" /\ ListLands(r, how)
            \/ r.op = "revoke" /\ RevokeLands(r, how)
            \/ r.op = "delete" /\ DeleteLands(r, how)
            \/ r.op = "create" /\ CreateLands(r, how)
            \/ r.op = "extend" /\ ExtendLands(r, how)
            \/ (how = "ok" => r.op \notin {"create", "delete"}) /\ Ignored(r)

(* getAuthMode(): without an answer the gateway is taken to be there.         *)
Probed(how) == IF how = "ok" /\ authMode = "builtin" THEN "builtin" ELSE "sso"

ModeLands(r, how) ==
    /\ r.op = "mode"
    /\ mode' = Probed(how)
    /\ IF Probed(how) = "sso"
       THEN EnterApp(wire \ {r})
       ELSE /\ Send(wire \ {r}, "me", None, mount, 0)
            /\ UNCHANGED <<phase, dashboard>>
    /\ UNCHANGED <<server, clicks, cookie, login>>

(* Every reply that is not ok is nobody's session; a lost answer to me() is   *)
(* caught by nobody, and the page goes on loading.                            *)
MeLands(r, how) ==
    /\ r.op = "me"
    /\ meLost' = (how = "lost")
    /\ \/ how = "ok" /\ EnterApp(wire \ {r})
       \/ how \in {"denied", "refused"} /\ ToLogin /\ wire' = wire \ {r} /\ UNCHANGED sent
       \/ how = "lost" /\ wire' = wire \ {r} /\ UNCHANGED <<phase, dashboard, sent>>
    /\ UNCHANGED <<server, clicks, mode, cookie, signing, cooling>>

LoginLands(r, how) ==
    /\ r.op = "login"
    /\ signing' = FALSE
    /\ cooling' = (how = "limited")
    /\ IF how = "ok"
       THEN cookie' = r.id /\ EnterApp(wire \ {r})
       ELSE wire' = wire \ {r} /\ UNCHANGED <<sent, phase, cookie, dashboard>>
    /\ UNCHANGED <<server, clicks, mode, meLost>>

(* logout() goes back to the login page, and its catch sees to it that a lost *)
(* answer does so too.                                                        *)
LogoutLands(r, how) ==
    /\ r.op = "logout"
    /\ wire' = wire \ {r}
    /\ cookie' = IF how = "ok" THEN 0 ELSE cookie
    /\ ToLogin
    /\ UNCHANGED <<server, sent, clicks, mode, login>>

Land(r) ==
    \E how \in {"lost"} \cup ({r.reply} \ {"none"}) :
        \/ LinksAnswer(r, how)
        \/ ModeLands(r, how)
        \/ MeLands(r, how)
        \/ LoginLands(r, how)
        \/ LogoutLands(r, how)

----------------------------------------------------------------------------
(* The operator.  An open dialog covers the page behind it.                   *)
NoneOpen == dialog = NoDialog
RowShown(l) == phase = "app" /\ ~ loading /\ screen[l] # None

Refresh ==
    /\ NoneOpen /\ ~ loading
    /\ Click("list", None, 0)
    /\ UNCHANGED <<screen, selected, busy, dialog>>

Revoke(l) ==
    /\ NoneOpen /\ RowShown(l) /\ screen[l] = "active" /\ busy # l
    /\ Click("revoke", l, 0)
    /\ busy' = l
    /\ UNCHANGED <<screen, selected, dialog>>

Delete(l) ==
    /\ NoneOpen /\ RowShown(l) /\ busy # l
    /\ Click("delete", l, 0)
    /\ busy' = l
    /\ UNCHANGED <<screen, selected, dialog>>

Ticks ==
    /\ NoneOpen /\ phase = "app"
    /\ \/ \E l \in Links : /\ RowShown(l)
                           /\ selected' = IF l \in selected THEN selected \ {l}
                                                            ELSE selected \cup {l}
       \/ Rows(screen) # {} /\ selected' = Rows(screen)
       \/ selected # {} /\ selected' = {}
    /\ UNCHANGED <<server, wire, sent, clicks, mode, phase, cookie, login, mount, loading,
                   screen, busy, dialog, acked, unseen>>

Opens(kind, l) ==
    /\ NoneOpen /\ phase = "app" /\ clicks < MaxClicks
    /\ kind = "extend" => RowShown(l) /\ screen[l] = "active"
    /\ dialog' = [kind |-> kind, link |-> l, number |-> sent, submitting |-> FALSE]
    /\ UNCHANGED <<server, wire, sent, clicks, mode, phase, cookie, login, mount, loading,
                   screen, selected, busy, acked, unseen>>

OpenDialog == Opens("create", None) \/ \E l \in Links : Opens("extend", l)

(* Esc and the cross close a dialog even while it is submitting.              *)
CloseDialog ==
    /\ ~ NoneOpen
    /\ dialog' = NoDialog
    /\ UNCHANGED <<server, wire, sent, clicks, mode, phase, cookie, login, mount, loading,
                   screen, selected, busy, acked, unseen>>

(* The button waits for the answer; Enter in the date field of ActModal does  *)
(* not.                                                                       *)
Submit ==
    /\ \/ dialog.kind = "create" /\ ~ dialog.submitting
       \/ dialog.kind = "extend"
    /\ Click(dialog.kind, dialog.link, dialog.number)
    /\ dialog' = [dialog EXCEPT !.submitting = TRUE]
    /\ UNCHANGED <<screen, selected, busy>>

Logout ==
    /\ NoneOpen /\ phase = "app"
    /\ \/ mode = "sso" /\ LeavePage
       \/ /\ mode = "builtin"
          /\ Click("logout", None, 0)
          /\ UNCHANGED <<screen, selected, busy, dialog>>

Login ==
    /\ phase = "login" /\ ~ signing /\ ~ cooling
    /\ clicks <= MaxClicks
    /\ clicks' = clicks + 1
    /\ Send(wire, "login", None, mount, 0)
    /\ signing' = TRUE
    /\ UNCHANGED <<server, mode, phase, cookie, meLost, cooling, dashboard>>

CooldownEnds ==
    /\ cooling
    /\ cooling' = FALSE
    /\ UNCHANGED <<server, wire, sent, clicks, mode, phase, cookie, meLost, signing,
                   dashboard>>

----------------------------------------------------------------------------
Init ==
    /\ authMode \in {"builtin", "sso"}
    /\ state \in [Links -> {"fresh", "active"}]
    /\ cookie \in {0, 1}
    /\ sessions = {cookie} \ {0}
    /\ wire = {[id |-> 1, op |-> "mode", link |-> None, mount |-> 0, dialog |-> 0,
                cookie |-> cookie, acked |-> {}, reply |-> "none", rows |-> NoRows]}
    /\ sent = 1
    /\ clicks = 0
    /\ mode = None
    /\ phase = "loading"
    /\ meLost = FALSE
    /\ signing = FALSE
    /\ cooling = FALSE
    /\ mount = 0
    /\ screen = NoRows
    /\ loading = FALSE
    /\ selected = {}
    /\ busy = None
    /\ dialog = NoDialog
    /\ acked = {}
    /\ unseen = {}

Operator == Refresh \/ Ticks \/ OpenDialog \/ CloseDialog \/ Submit \/ Logout \/ Login
            \/ \E l \in Links : Revoke(l) \/ Delete(l)

Next ==
    \/ \E r \in wire : Serve(r) \/ Land(r)
    \/ SessionEnds
    \/ \E l \in Links : LinkExpires(l)
    \/ CooldownEnds
    \/ Operator

Spec == Init /\ [][Next]_vars

----------------------------------------------------------------------------
(* The types of the variables, and what the page relies on: a page that is    *)
(* not there holds no rows; ticks are of rows in the table, for their count   *)
(* is what the Clash dialog would send (Dashboard.tsx, refresh); the local    *)
(* login page is there for local accounts only, so that not even a failed     *)
(* probe shows it where a gateway signs people in (api.ts, getAuthMode).      *)
TypeOK ==
    /\ state \in [Links -> {"fresh", "active", "ended", "gone"}]
    /\ sessions \subseteq 1..sent
    /\ cookie \in 0..sent
    /\ \A r \in wire : /\ r.id \in 1..sent /\ r.mount \in 0..mount
                       /\ r.reply \in Replies
                       /\ r.rows \in [Links -> {"active", "ended", None}]
    /\ mode \in {"builtin", "sso", None}
    /\ phase \in {"loading", "login", "app", "away"}
    /\ {meLost, signing, cooling, loading} \subseteq BOOLEAN
    /\ screen \in [Links -> {"active", "ended", None}]
    /\ selected \subseteq Rows(screen)
    /\ busy \in Links \cup {None}
    /\ dialog \in Dialogs
    /\ unseen \subseteq acked /\ acked \subseteq Links
    /\ phase # "app" => ~ loading /\ Rows(screen) = {} /\ NoneOpen
    /\ phase = "login" => mode = "builtin" /\ authMode = "builtin"

(* A link the operator has revoked or deleted, with the answer on the screen, *)
(* is never shown active, unless an answer that is older than that one landed *)
(* after it (Dashboard.tsx, refresh and applyUpdate).                         *)
OwnRevocationsShown == \A l \in acked \ unseen : screen[l] # "active"

(* Whatever says "wait" or is greyed out because of a request has a request   *)
(* on the wire whose answer ends it, in whatever order answers come and       *)
(* however many requests one row or dialog has sent; with one exception: the  *)
(* page App shows first goes on loading for ever once me() has been given no  *)
(* answer, for nobody catches that (App.tsx, line 24).                        *)
NoOrphanWait ==
    /\ phase = "loading" /\ ~ meLost => \E r \in wire : r.op \in {"mode", "me"}
    /\ loading => \E r \in wire : r.op = "list" /\ Shown(r)
    /\ busy # None => \E r \in wire : r.link = busy /\ r.op # "extend" /\ Shown(r)
    /\ dialog.submitting => \E r \in wire : r.dialog = dialog.number /\ Shown(r)
    /\ signing => \E r \in wire : r.op = "login"
=============================================================================
