---------------------------- MODULE ConsoleProofs ----------------------------
(* Proved of Console for every set of links and every number of requests:     *)
(* what the operator has revoked or deleted is not shown active again,        *)
(* nothing but the page of a lost me() waits for an answer that cannot come,  *)
(* and the types.                                                             *)
EXTENDS Console, TLAPS

RowState == {"active", "ended", None}

(* Links that will never be active again.                                     *)
Down == {l \in Links : state[l] \in {"ended", "gone"}}

(* A request with the reply it may have been given.                           *)
Whole(r, how, rows) ==
    [id |-> r.id, op |-> r.op, link |-> r.link, mount |-> r.mount, dialog |-> r.dialog,
     cookie |-> r.cookie, acked |-> r.acked, reply |-> how, rows |-> rows]

Shape(r) == r = Whole(r, r.reply, r.rows)

Ends(r) == r.op \in {"revoke", "delete"}

(* What was acknowledged when a request left is down, so a list that answers  *)
(* it does not show it active; and so is what a request was told it ended.    *)
OfRequest(r) ==
    /\ Shape(r)
    /\ r.rows \in [Links -> RowState]
    /\ r.acked \subseteq Down
    /\ Ends(r) => r.link \in Links /\ (r.reply = "ok" => r.link \in Down)
    /\ r.op = "list" /\ r.reply = "ok" => \A l \in r.acked : r.rows[l] # "active"

StateInv == state \in [Links -> {"fresh", "active", "ended", "gone"}]
WireInv == \A r \in wire : OfRequest(r)
TableInv == /\ screen \in [Links -> RowState]
            /\ acked \subseteq Down
            /\ OwnRevocationsShown

IInv == StateInv /\ WireInv /\ TableInv

LEMMA InitInv == Init => IInv
<1> SUFFICES ASSUME Init PROVE IInv
  OBVIOUS
<1>1. NoRows \in [Links -> RowState]
  BY DEF NoRows, RowState
<1>2. WireInv
  BY <1>1 DEF Init, WireInv, OfRequest, Shape, Ends, Whole
<1>3. StateInv
  BY DEF Init, StateInv
<1>4. TableInv
  BY <1>1 DEF Init, TableInv, OwnRevocationsShown
<1> QED
  BY <1>2, <1>3, <1>4 DEF IInv

----------------------------------------------------------------------------
(* A request that leaves, and requests that are dropped or answered.          *)
LEMMA RequestOk ==
    ASSUME IInv, NEW op, NEW l, NEW m, NEW d, NEW known, known \subseteq Down,
           op \in {"revoke", "delete"} => l \in Links
    PROVE  OfRequest(Request(op, l, m, d, known))
<1>1. NoRows \in [Links -> RowState]
  BY DEF NoRows, RowState
<1> QED
  BY <1>1 DEF IInv, TableInv, OfRequest, Shape, Ends, Whole, Request

LEMMA WireKept ==
    ASSUME IInv, UNCHANGED state, wire' \subseteq wire
    PROVE  StateInv' /\ WireInv'
BY DEF IInv, StateInv, WireInv, OfRequest, Down, Shape, Ends, Whole

LEMMA WireGrows ==
    ASSUME IInv, UNCHANGED state, NEW s, OfRequest(s), wire' \subseteq wire \cup {s}
    PROVE  StateInv' /\ WireInv'
BY DEF IInv, StateInv, WireInv, OfRequest, Down, Shape, Ends, Whole

LEMMA SendKeeps ==
    ASSUME IInv, UNCHANGED state, NEW rest, rest \subseteq wire,
           NEW op, NEW l, NEW m, NEW d, NEW known, known \subseteq Down,
           SendKnowing(rest, op, l, m, d, known),
           op \in {"revoke", "delete"} => l \in Links
    PROVE  StateInv' /\ WireInv'
<1>1. OfRequest(Request(op, l, m, d, known))
  BY RequestOk
<1>2. wire' \subseteq wire \cup {Request(op, l, m, d, known)}
  BY DEF SendKnowing
<1>3. PICK s : s = Request(op, l, m, d, known)
  OBVIOUS
<1> QED
  BY <1>1, <1>2, <1>3, WireGrows

LEMMA AckedDown == IInv => acked \subseteq Down
BY DEF IInv, TableInv

(* A table that is left alone, and one that is emptied.                       *)
LEMMA TableKept ==
    ASSUME IInv, UNCHANGED <<state, screen, acked, unseen>>
    PROVE  TableInv'
BY DEF IInv, TableInv, OwnRevocationsShown, Down

LEMMA TableEmptied ==
    ASSUME EmptyTable
    PROVE  TableInv'
BY DEF EmptyTable, NoRows, RowState, TableInv, OwnRevocationsShown

----------------------------------------------------------------------------
(* The server: a link that is down stays so, whatever is asked of it.         *)
LEMMA DownStays ==
    ASSUME IInv, NEW l, NEW from, NEW to,
           Takes(l, from, to), from \cap {"gone"} = {},
           "ended" \in from => to = "gone",
           to \in {"active", "ended", "gone"}
    PROVE  /\ StateInv' /\ Down \subseteq Down'
           /\ l \in Links /\ to \in {"ended", "gone"} => l \in Down'
<1>1. state' = [state EXCEPT ![l] = to] /\ state[l] \in from
  BY DEF Takes
<1> QED
  BY <1>1 DEF IInv, StateInv, Down

(* What an answer does to the request and to the links.                       *)
Answered(r, how, rows) ==
    /\ Answers(r, how, rows)
    /\ rows \in [Links -> RowState]
    /\ StateInv' /\ Down \subseteq Down'
    /\ how = "ok" /\ Ends(r) => r.link \in Down'
    /\ how = "ok" /\ r.op = "list" => \A l \in r.acked : rows[l] # "active"

LEMMA RowsOk ==
    ASSUME IInv
    PROVE  /\ NoRows \in [Links -> RowState]
           /\ Listed \in [Links -> RowState]
           /\ \A l \in Down : Listed[l] # "active"
BY ConsoleAssumption DEF IInv, StateInv, NoRows, Listed, RowState, Down

LEMMA EffectAnswers ==
    ASSUME IInv, NEW r \in wire, Effect(r)
    PROVE  \E how, rows : Answered(r, how, rows)
<1>1. OfRequest(r)
  BY DEF IInv, WireInv
<1>2. CASE r.op = "list"
  <2>1. UNCHANGED state /\ Answers(r, "ok", Listed)
    BY <1>2 DEF Effect
  <2>2. StateInv' /\ Down \subseteq Down'
    BY <2>1 DEF IInv, StateInv, Down
  <2> QED
    BY <1>1, <1>2, <2>1, <2>2, RowsOk DEF Answered, OfRequest, Ends
<1>3. CASE r.op = "create"
  <2>1. /\ Answers(r, "ok", NoRows)
        /\ \E l \in Links : Takes(l, {"fresh"}, "active")
    BY <1>3 DEF Effect
  <2>2. StateInv' /\ Down \subseteq Down'
    BY <2>1, DownStays
  <2> QED
    BY <1>3, <2>1, <2>2, RowsOk DEF Answered, Ends
<1>4. CASE r.op = "revoke"
  <2>1. Answers(r, "ok", NoRows) /\ Takes(r.link, {"active"}, "ended")
    BY <1>4 DEF Effect
  <2>2. StateInv' /\ Down \subseteq Down' /\ r.link \in Down'
    BY <1>1, <1>4, <2>1, DownStays DEF OfRequest, Ends
  <2> QED
    BY <1>4, <2>1, <2>2, RowsOk DEF Answered
<1>5. CASE r.op = "extend"
  <2>1. Answers(r, "ok", NoRows) /\ Takes(r.link, {"active"}, "active")
    BY <1>5 DEF Effect
  <2>2. StateInv' /\ Down \subseteq Down'
    BY <2>1, DownStays
  <2> QED
    BY <1>5, <2>1, <2>2, RowsOk DEF Answered, Ends
<1>6. CASE r.op = "delete"
  <2>1. Answers(r, "ok", NoRows) /\ Takes(r.link, {"active", "ended"}, "gone")
    BY <1>6 DEF Effect
  <2>2. StateInv' /\ Down \subseteq Down' /\ r.link \in Down'
    BY <1>1, <1>6, <2>1, DownStays DEF OfRequest, Ends
  <2> QED
    BY <1>6, <2>1, <2>2, RowsOk DEF Answered
<1> QED
  BY <1>2, <1>3, <1>4, <1>5, <1>6 DEF Effect

LEMMA AnswerShape ==
    ASSUME NEW r, Shape(r), NEW how, NEW rows
    PROVE  [r EXCEPT !.reply = how, !.rows = rows] = Whole(r, how, rows)
<1>1. r = Whole(r, r.reply, r.rows)
  BY DEF Shape
<1>2. [Whole(r, r.reply, r.rows) EXCEPT !.reply = how] = Whole(r, how, r.rows)
  BY DEF Whole
<1>3. [Whole(r, how, r.rows) EXCEPT !.rows = rows] = Whole(r, how, rows)
  BY DEF Whole
<1> QED
  BY <1>1, <1>2, <1>3

LEMMA ServeStep ==
    ASSUME IInv, NEW r \in wire, Serve(r)
    PROVE  IInv'
<1>1. OfRequest(r) /\ UNCHANGED <<screen, acked, unseen>>
  BY DEF Serve, page, dashboard, table, IInv, WireInv
<1>2. \E how, rows : Answered(r, how, rows)
  <2>1. CASE Effect(r)
    BY <2>1, EffectAnswers
  <2>2. CASE ServeLinks(r) /\ ~ Effect(r)
    <3>1. /\ UNCHANGED state
          /\ Answers(r, "refused", NoRows) \/ Answers(r, "denied", NoRows)
      BY <2>2 DEF ServeLinks
    <3> QED
      BY <3>1, RowsOk DEF Answered, IInv, StateInv, Down
  <2>3. CASE ServeAuth(r)
    <3>1. /\ UNCHANGED state /\ ~ Ends(r) /\ r.op # "list"
          /\ \E how : Answers(r, how, NoRows)
      BY <2>3 DEF ServeAuth, Ends
    <3> QED
      BY <3>1, RowsOk DEF Answered, IInv, StateInv, Down
  <2> QED
    BY <2>1, <2>2, <2>3 DEF Serve
<1>3. PICK how, rows : Answered(r, how, rows)
  BY <1>2
<1>4. PICK s : s = Whole(r, how, rows)
  OBVIOUS
<1>5. /\ Shape(s) /\ s.op = r.op /\ s.link = r.link /\ s.acked = r.acked
      /\ s.reply = how /\ s.rows = rows
  BY <1>4 DEF Shape, Whole
<1>6. wire' = (wire \ {r}) \cup {s}
  BY <1>1, <1>3, <1>4, AnswerShape DEF Answered, Answers, OfRequest
<1>7. Down \subseteq Down'
  BY <1>3 DEF Answered
<1>8. OfRequest(s)'
  BY <1>1, <1>3, <1>5, <1>7 DEF Answered, OfRequest, Shape, Ends, Whole
<1>9. \A u \in wire : OfRequest(u)'
  BY <1>7 DEF IInv, WireInv, OfRequest, Shape, Ends, Whole
<1>10. WireInv'
  BY <1>6, <1>8, <1>9 DEF WireInv
<1>11. TableInv'
  BY <1>1, <1>7 DEF IInv, TableInv, OwnRevocationsShown
<1> QED
  BY <1>3, <1>10, <1>11 DEF IInv, Answered

----------------------------------------------------------------------------
(* Answers.  What the handlers do with the wire.                              *)
LEMMA LandWire ==
    ASSUME IInv, NEW r \in wire, Land(r)
    PROVE  UNCHANGED state /\ StateInv' /\ WireInv'
<1>1. PICK how \in {"lost"} \cup ({r.reply} \ {"none"}) :
         \/ LinksAnswer(r, how) \/ ModeLands(r, how) \/ MeLands(r, how)
         \/ LoginLands(r, how) \/ LogoutLands(r, how)
  BY DEF Land
<1>6. how = "ok" => r.reply = "ok"
  OBVIOUS
<1>2. UNCHANGED state
  BY <1>1 DEF LinksAnswer, Unauthorized, LeavePage, ListLands, RevokeLands, DeleteLands,
     CreateLands, ExtendLands, SubmitFails, Ignored, Lands, ModeLands, MeLands, LoginLands,
     LogoutLands, server
<1>3. CASE wire' \subseteq wire
  BY <1>2, <1>3, WireKept
<1>4. CASE \E op \in {"list", "me"} : \E l, m : \E known \in SUBSET Down :
              SendKnowing(wire \ {r}, op, l, m, 0, known)
  BY <1>2, <1>4, SendKeeps
<1>5. \/ wire' \subseteq wire
      \/ \E op \in {"list", "me"} : \E l, m : \E known \in SUBSET Down :
            SendKnowing(wire \ {r}, op, l, m, 0, known)
  <2>1. CASE r.op = "delete" /\ how = "ok" /\ DeleteLands(r, how)
    <3>1. r.link \in Down
      BY <1>6, <2>1 DEF IInv, WireInv, OfRequest, Ends
    <3>2. PICK own \in SUBSET {r.link} :
             SendKnowing(wire \ {r}, "list", r.link, r.mount, 0, acked \cup own)
      BY <2>1 DEF DeleteLands
    <3>3. acked \cup own \in SUBSET Down
      BY <3>1, AckedDown
    <3> QED
      BY <3>2, <3>3
  <2>2. CASE LinksAnswer(r, how) /\ ~ (r.op = "delete" /\ how = "ok" /\ DeleteLands(r, how))
    <3>1. wire' \subseteq wire \/ Send(wire \ {r}, "list", None, r.mount, 0)
      BY <2>2 DEF LinksAnswer, Unauthorized, LeavePage, ListLands, RevokeLands, DeleteLands,
         CreateLands, ExtendLands, SubmitFails, Ignored, Lands
    <3> QED
      BY <3>1, AckedDown DEF Send
  <2>3. CASE ModeLands(r, how) \/ MeLands(r, how) \/ LoginLands(r, how) \/ LogoutLands(r, how)
    <3>1. \/ wire' \subseteq wire
          \/ \E op \in {"list", "me"} : \E l, m : Send(wire \ {r}, op, l, m, 0)
      BY <2>3 DEF ModeLands, MeLands, LoginLands, LogoutLands, EnterApp
    <3> QED
      BY <3>1, AckedDown DEF Send
  <2> QED
    BY <1>1, <2>1, <2>2, <2>3
<1> QED
  BY <1>2, <1>3, <1>4, <1>5

(* What they do with the table.                                               *)
LEMMA LinksAnswerTable ==
    ASSUME IInv, NEW r \in wire, NEW how, LinksAnswer(r, how), UNCHANGED state,
           how = "ok" => r.reply = "ok"
    PROVE  TableInv'
<1>1. OfRequest(r)
  BY DEF IInv, WireInv
<1>2. Down' = Down
  BY DEF Down
<1>3. CASE UNCHANGED <<screen, acked, unseen>>
  BY <1>3, TableKept
<1>4. CASE EmptyTable
  BY <1>4, TableEmptied
<1>5. CASE how = "ok" /\ r.op = "list" /\ ListLands(r, how)
  <2>1. screen' = r.rows /\ acked' = acked /\ unseen' = acked \ r.acked
    BY <1>5 DEF ListLands
  <2> QED
    BY <1>1, <1>2, <1>5, <2>1 DEF IInv, TableInv, OwnRevocationsShown, OfRequest
<1>6. CASE how = "ok" /\ r.op = "revoke" /\ RevokeLands(r, how)
  <2>1. /\ screen' = Updated(r.link, "ended")
        /\ acked' = acked \cup {r.link} /\ unseen' = unseen \ {r.link}
    BY <1>6 DEF RevokeLands
  <2>2. r.link \in Links /\ r.link \in Down
    BY <1>1, <1>6 DEF OfRequest, Ends
  <2>3. /\ screen' \in [Links -> RowState] /\ screen'[r.link] # "active"
        /\ \A l \in Links \ {r.link} : screen'[l] = screen[l]
    BY <2>1, <2>2, ConsoleAssumption DEF IInv, TableInv, Updated, RowState
  <2> QED
    BY <1>2, <2>1, <2>2, <2>3 DEF IInv, TableInv, OwnRevocationsShown, Down
<1>7. CASE how = "ok" /\ r.op = "delete" /\ DeleteLands(r, how)
  <2>1. /\ UNCHANGED screen
        /\ \/ UNCHANGED <<acked, unseen>>
           \/ acked' = acked \cup {r.link} /\ unseen' = unseen \cup {r.link}
    BY <1>7 DEF DeleteLands
  <2>2. r.link \in Down
    BY <1>1, <1>7 DEF OfRequest, Ends
  <2> QED
    BY <1>2, <2>1, <2>2 DEF IInv, TableInv, OwnRevocationsShown
<1>8. CASE how = "ok" /\ r.op = "extend" /\ ExtendLands(r, how)
  <2>1. /\ screen' = Updated(r.link, "active")
        /\ acked' = acked /\ unseen' = unseen \cup (acked \cap {r.link})
    BY <1>8 DEF ExtendLands
  <2>2. /\ screen' \in [Links -> RowState]
        /\ \A l \in Links \ {r.link} : screen'[l] = screen[l]
    BY <2>1 DEF IInv, TableInv, Updated, RowState
  <2> QED
    BY <1>2, <2>1, <2>2 DEF IInv, TableInv, OwnRevocationsShown, Down
<1> QED
  BY <1>3, <1>4, <1>5, <1>6, <1>7, <1>8
     DEF LinksAnswer, Unauthorized, LeavePage, ToLogin, ListLands, RevokeLands, DeleteLands,
     CreateLands, ExtendLands, SubmitFails, Ignored, page, dashboard, table

LEMMA LandStep ==
    ASSUME IInv, NEW r \in wire, Land(r)
    PROVE  IInv'
<1>1. UNCHANGED state /\ StateInv' /\ WireInv'
  BY LandWire
<1>2. PICK how \in {"lost"} \cup ({r.reply} \ {"none"}) :
         \/ LinksAnswer(r, how) \/ ModeLands(r, how) \/ MeLands(r, how)
         \/ LoginLands(r, how) \/ LogoutLands(r, how)
  BY DEF Land
<1>3. CASE LinksAnswer(r, how)
  BY <1>1, <1>2, <1>3, LinksAnswerTable DEF IInv
<1>4. CASE ModeLands(r, how) \/ MeLands(r, how) \/ LoginLands(r, how) \/ LogoutLands(r, how)
  <2>1. EmptyTable \/ UNCHANGED <<screen, acked, unseen>>
    BY <1>4 DEF ModeLands, MeLands, LoginLands, LogoutLands, EnterApp, ToLogin,
       dashboard, table
  <2> QED
    BY <1>1, <2>1, TableKept, TableEmptied DEF IInv
<1> QED
  BY <1>2, <1>3, <1>4

----------------------------------------------------------------------------
(* The operator sends requests and touches neither the rows nor what the      *)
(* screen owes him.                                                           *)
LEMMA ClickStep ==
    ASSUME IInv, NEW op, NEW l, NEW d, Click(op, l, d), UNCHANGED screen,
           op \in {"revoke", "delete"} => l \in Links
    PROVE  IInv'
<1>1. UNCHANGED <<state, acked, unseen>> /\ Send(wire, op, l, mount, d)
  BY DEF Click, server
<1> QED
  BY <1>1, SendKeeps, AckedDown, TableKept DEF IInv, Send

LEMMA QuietStep ==
    ASSUME IInv, UNCHANGED state, wire' \subseteq wire,
           EmptyTable \/ UNCHANGED <<screen, acked, unseen>>
    PROVE  IInv'
BY WireKept, TableKept, TableEmptied DEF IInv

LEMMA OperatorStep ==
    ASSUME IInv, Operator
    PROVE  IInv'
<1>1. CASE Refresh
  BY <1>1, ClickStep DEF Refresh
<1>2. CASE Submit
  BY <1>2, ClickStep DEF Submit
<1>3. ASSUME NEW l \in Links, Revoke(l) \/ Delete(l) PROVE IInv'
  BY <1>3, ClickStep DEF Revoke, Delete
<1>4. CASE Ticks \/ OpenDialog \/ CloseDialog
  BY <1>4, QuietStep DEF Ticks, OpenDialog, Opens, CloseDialog, server
<1>5. CASE Logout
  <2>1. CASE LeavePage
    BY <2>1, QuietStep DEF LeavePage, server
  <2>2. CASE Click("logout", None, 0) /\ UNCHANGED screen
    BY <2>2, ClickStep
  <2> QED
    BY <1>5, <2>1, <2>2 DEF Logout
<1>6. CASE Login
  <2>1. /\ UNCHANGED <<state, screen, acked, unseen>>
        /\ Send(wire, "login", None, mount, 0)
    BY <1>6 DEF Login, server, dashboard, table
  <2> QED
    BY <2>1, SendKeeps, AckedDown, TableKept DEF IInv, Send
<1> QED
  BY <1>1, <1>2, <1>3, <1>4, <1>5, <1>6 DEF Operator

LEMMA InvStep == IInv /\ [Next]_vars => IInv'
<1> SUFFICES ASSUME IInv, [Next]_vars PROVE IInv'
  OBVIOUS
<1>1. ASSUME NEW r \in wire, Serve(r) \/ Land(r) PROVE IInv'
  BY <1>1, ServeStep, LandStep
<1>2. CASE SessionEnds \/ CooldownEnds \/ UNCHANGED vars
  <2>1. UNCHANGED <<state, wire, screen, acked, unseen>>
    BY <1>2 DEF SessionEnds, CooldownEnds, vars, server, page, dashboard, table
  <2> QED
    BY <2>1, QuietStep
<1>3. ASSUME NEW l \in Links, LinkExpires(l) PROVE IInv'
  <2>1. UNCHANGED <<wire, screen, acked, unseen>> /\ Takes(l, {"active"}, "ended")
    BY <1>3 DEF LinkExpires, page, dashboard, table
  <2>2. StateInv' /\ Down \subseteq Down'
    BY <2>1, DownStays
  <2> QED
    BY <2>1, <2>2
       DEF IInv, WireInv, TableInv, OwnRevocationsShown, OfRequest, Shape, Ends, Whole
<1>4. CASE Operator
  BY <1>4, OperatorStep
<1> QED
  BY <1>1, <1>2, <1>3, <1>4 DEF Next

(* A link whose revocation or deletion has been answered on this screen is    *)
(* not shown active, whatever older lists land afterwards, unless the answer  *)
(* landed last is older than that one (Dashboard.tsx, refresh, applyUpdate).  *)
THEOREM OwnRevocations == Spec => []OwnRevocationsShown
<1>1. IInv => OwnRevocationsShown
  BY DEF IInv, TableInv
<1> QED
  BY InitInv, InvStep, <1>1, PTL DEF Spec

----------------------------------------------------------------------------
(* Nothing waits for an answer that cannot come any more, after a lost me()   *)
(* the page that App shows first apart.                                       *)

(* Before the mode is known nothing but its probe is on the wire; without     *)
(* local accounts nobody signs in.                                            *)
ModeInv ==
    /\ mode \in {None, "builtin", "sso"}
    /\ mode = None => /\ phase = "loading" /\ ~ signing
                      /\ \A r, s \in wire : r.op = "mode" /\ r = s
    /\ mode # None => \A r \in wire : r.op # "mode"
    /\ mode # "builtin" => /\ ~ signing /\ phase # "login"
                           /\ \A r \in wire : r.op \notin {"me", "login", "logout"}

(* A dialog has a number of its own, and only submissions carry it; a request *)
(* that is about no row names none.                                           *)
Linkless == {"create", "mode", "me", "login", "logout"}

DialogInv ==
    /\ sent \in Nat \ {0}
    /\ dialog \in Dialogs
    /\ dialog.kind # "none" => dialog.number # 0
    /\ dialog.submitting => dialog.kind # "none"
    /\ dialog.kind = "create" => dialog.link = None
    /\ \A r \in wire : /\ Shape(r)
                       /\ r.dialog # 0 => r.op \in {"create", "extend"}
                       /\ r.op \in Linkless => r.link = None

WaitInv == ModeInv /\ DialogInv /\ NoOrphanWait

LEMMA NoneWaits ==
    NoDialog \in Dialogs /\ NoDialog.kind = "none" /\ ~ NoDialog.submitting
BY DEF NoDialog, Dialogs

LEMMA InitWaits == Init => WaitInv
<1> SUFFICES ASSUME Init PROVE WaitInv
  OBVIOUS
<1>1. ModeInv
  BY ConsoleAssumption DEF Init, ModeInv
<1>3. DialogInv
  BY NoneWaits, InitInv DEF Init, DialogInv, Linkless, IInv, WireInv, OfRequest
<1>4. NoOrphanWait
  BY NoneWaits DEF Init, NoOrphanWait
<1> QED
  BY <1>1, <1>3, <1>4 DEF WaitInv

(* A request that is answered goes on waiting to land.                        *)
LEMMA ServeWaits ==
    ASSUME IInv, WaitInv, NEW r \in wire, Serve(r)
    PROVE  WaitInv'
<1>1. UNCHANGED <<sent, mode, phase, meLost, signing, mount, loading, busy, dialog>>
  BY DEF Serve, page, login, dashboard, table
<1>2. PICK how, rows : wire' = (wire \ {r}) \cup {[r EXCEPT !.reply = how, !.rows = rows]}
  BY DEF Serve, ServeLinks, ServeAuth, Effect, Answers
<1>3. PICK s : s = Whole(r, how, rows)
  OBVIOUS
<1>4. /\ Shape(s) /\ s.op = r.op /\ s.link = r.link /\ s.mount = r.mount
      /\ s.dialog = r.dialog
  BY <1>3 DEF Shape, Whole
<1>5. wire' = (wire \ {r}) \cup {s}
  BY <1>2, <1>3, AnswerShape DEF WaitInv, DialogInv
<1>6. ModeInv'
  BY <1>1, <1>4, <1>5 DEF WaitInv, ModeInv
<1>7. DialogInv'
  BY <1>1, <1>4, <1>5 DEF WaitInv, DialogInv, Shape, Whole
<1>8. NoOrphanWait'
  BY <1>1, <1>4, <1>5 DEF WaitInv, NoOrphanWait, Shown
<1> QED
  BY <1>6, <1>7, <1>8 DEF WaitInv

(* A request that leaves is a whole one.                                      *)
LEMMA RequestShape ==
    \A op, l, m, d, known :
        LET s == Request(op, l, m, d, known) IN
        Shape(s) /\ s.op = op /\ s.link = l /\ s.mount = m /\ s.dialog = d
BY DEF Request, Shape, Whole

LEMMA SentKnowing ==
    ASSUME NEW rest, NEW op, NEW l, NEW m, NEW d, NEW known,
           SendKnowing(rest, op, l, m, d, known)
    PROVE  \E s : /\ wire' = rest \cup {s} /\ sent' = sent + 1
                  /\ Shape(s) /\ s.op = op /\ s.link = l /\ s.mount = m /\ s.dialog = d
<1>1. PICK s : s = Request(op, l, m, d, known)
  OBVIOUS
<1> QED
  BY <1>1, RequestShape DEF SendKnowing

LEMMA SentRequest ==
    ASSUME NEW rest, NEW op, NEW l, NEW m, NEW d, Send(rest, op, l, m, d)
    PROVE  \E s : /\ wire' = rest \cup {s} /\ sent' = sent + 1
                  /\ Shape(s) /\ s.op = op /\ s.link = l /\ s.mount = m /\ s.dialog = d
BY SentKnowing DEF Send

LEMMA LandModes ==
    ASSUME WaitInv, NEW r \in wire, Land(r)
    PROVE  ModeInv'
<1>1. PICK how : \/ LinksAnswer(r, how) \/ ModeLands(r, how) \/ MeLands(r, how)
                 \/ LoginLands(r, how) \/ LogoutLands(r, how)
  BY DEF Land
<1>2. CASE LinksAnswer(r, how)
  <2>1. mode # None
    BY <1>2 DEF WaitInv, ModeInv, LinksAnswer, Ops
  <2>2. UNCHANGED <<mode, signing>>
    BY <1>2 DEF LinksAnswer, Unauthorized, LeavePage, ListLands, RevokeLands, DeleteLands,
       CreateLands, ExtendLands, SubmitFails, Ignored, Lands, page, login
  <2>3. phase' \in {phase, "away"} \/ (phase' = "login" /\ mode # "sso")
    <3>1. CASE Unauthorized(r)
      BY <3>1 DEF Unauthorized, LeavePage, ToLogin
    <3>2. CASE ~ Unauthorized(r)
      <4>1. \/ ListLands(r, how) \/ RevokeLands(r, how) \/ DeleteLands(r, how)
            \/ CreateLands(r, how) \/ ExtendLands(r, how) \/ Ignored(r)
        BY <1>2, <3>2 DEF LinksAnswer
      <4>2. UNCHANGED phase
        BY <4>1 DEF ListLands, RevokeLands, DeleteLands, CreateLands,
           ExtendLands, SubmitFails, Ignored, Lands, page
      <4> QED
        BY <4>2
    <3> QED
      BY <3>1, <3>2
  <2>4. \/ wire' \subseteq wire
        \/ \E l, known : SendKnowing(wire \ {r}, "list", l, r.mount, 0, known)
    BY <1>2 DEF Send, LinksAnswer, Unauthorized, LeavePage, ListLands, RevokeLands, DeleteLands,
       CreateLands, ExtendLands, SubmitFails, Ignored, Lands
  <2>5. \A u \in wire' : u \in wire \/ u.op = "list"
    BY <2>4, SentKnowing
  <2> QED
    BY <2>1, <2>2, <2>3, <2>5 DEF WaitInv, ModeInv
<1>3. CASE ModeLands(r, how)
  <2>1. mode = None /\ wire \ {r} = {} /\ mode' \in {"builtin", "sso"} /\ ~ signing'
    BY <1>3 DEF WaitInv, ModeInv, ModeLands, Probed, login
  <2>2. CASE mode' = "sso"
    <3>1. phase' = "app" /\ Send(wire \ {r}, "list", None, mount + 1, 0)
      BY <1>3, <2>2 DEF ModeLands, EnterApp
    <3> QED
      BY <2>1, <2>2, <3>1, SentRequest, ConsoleAssumption DEF ModeInv
  <2>3. CASE mode' = "builtin"
    <3>1. Send(wire \ {r}, "me", None, mount, 0)
      BY <1>3, <2>3 DEF ModeLands
    <3> QED
      BY <2>1, <2>3, <3>1, SentRequest, ConsoleAssumption DEF ModeInv
  <2> QED
    BY <2>1, <2>2, <2>3
<1>4. CASE MeLands(r, how) \/ LoginLands(r, how) \/ LogoutLands(r, how)
  <2>1. mode = "builtin" /\ UNCHANGED mode
    BY <1>4, ConsoleAssumption
       DEF WaitInv, ModeInv, MeLands, LoginLands, LogoutLands
  <2>2. wire' = wire \ {r} \/ Send(wire \ {r}, "list", None, mount + 1, 0)
    BY <1>4 DEF MeLands, LoginLands, LogoutLands, EnterApp
  <2>3. \A u \in wire' : u \in wire \/ u.op = "list"
    BY <2>2, SentRequest
  <2> QED
    BY <2>1, <2>3, ConsoleAssumption DEF WaitInv, ModeInv
<1> QED
  BY <1>1, <1>2, <1>3, <1>4

LEMMA LandDialogs ==
    ASSUME WaitInv, NEW r \in wire, Land(r)
    PROVE  DialogInv'
<1>1. PICK how : \/ LinksAnswer(r, how) \/ ModeLands(r, how) \/ MeLands(r, how)
                 \/ LoginLands(r, how) \/ LogoutLands(r, how)
  BY DEF Land
<1>2. \/ wire' \subseteq wire /\ UNCHANGED sent
      \/ \E l, m, known : SendKnowing(wire \ {r}, "list", l, m, 0, known)
      \/ Send(wire \ {r}, "me", None, mount, 0)
  <2>1. CASE LinksAnswer(r, how)
    BY <2>1 DEF Send, LinksAnswer, Unauthorized, LeavePage, ListLands, RevokeLands, DeleteLands,
       CreateLands, ExtendLands, SubmitFails, Ignored, Lands
  <2>2. CASE ModeLands(r, how) \/ MeLands(r, how) \/ LoginLands(r, how) \/ LogoutLands(r, how)
    BY <2>2 DEF Send, ModeLands, MeLands, LoginLands, LogoutLands, EnterApp
  <2> QED
    BY <1>1, <2>1, <2>2
<1>3. dialog' \in {dialog, NoDialog, [dialog EXCEPT !.submitting = FALSE]}
  <2>1. CASE LinksAnswer(r, how)
    BY <2>1 DEF LinksAnswer, Unauthorized, LeavePage, ToLogin, EmptyTable, ListLands,
       RevokeLands, DeleteLands, CreateLands, ExtendLands, SubmitFails, Retriable, Ignored,
       page, dashboard, table
  <2>2. CASE ModeLands(r, how) \/ MeLands(r, how) \/ LoginLands(r, how) \/ LogoutLands(r, how)
    BY <2>2 DEF ModeLands, MeLands, LoginLands, LogoutLands, EnterApp, ToLogin, EmptyTable,
       dashboard, table
  <2> QED
    BY <1>1, <2>1, <2>2
<1>4. /\ dialog' \in Dialogs
      /\ dialog'.kind # "none" => dialog'.number # 0
      /\ dialog'.submitting => dialog'.kind # "none"
      /\ dialog'.kind = "create" => dialog'.link = None
  <2>1. CASE dialog' = dialog
    BY <2>1 DEF WaitInv, DialogInv
  <2>3. CASE dialog' = NoDialog
    BY <2>3, NoneWaits
  <2>2. CASE dialog' = [dialog EXCEPT !.submitting = FALSE]
    <3>1. dialog' \in Dialogs
      BY <2>2 DEF WaitInv, DialogInv, Dialogs
    <3>2. /\ dialog'.kind = dialog.kind /\ dialog'.number = dialog.number
          /\ dialog'.link = dialog.link /\ ~ dialog'.submitting
      BY <2>2 DEF WaitInv, DialogInv, Dialogs
    <3> QED
      BY <3>1, <3>2 DEF WaitInv, DialogInv
  <2> QED
    BY <1>3, <2>1, <2>2, <2>3
<1>5. /\ sent' \in Nat \ {0}
      /\ \A u \in wire' : /\ Shape(u)
                          /\ u.dialog # 0 => u.op \in {"create", "extend"}
                          /\ u.op \in Linkless => u.link = None
  BY <1>2, SentRequest, SentKnowing DEF WaitInv, DialogInv, Linkless
<1> QED
  BY <1>4, <1>5 DEF DialogInv, Shape, Whole

(* A Dashboard that is gone waits for nothing.                                *)
LEMMA EmptyWaits ==
    ASSUME EmptyTable
    PROVE  busy' = None /\ ~ dialog'.submitting
BY DEF EmptyTable, NoDialog

Waits == /\ phase = "loading" /\ ~ meLost => \E r \in wire : r.op \in {"mode", "me"}
         /\ loading => \E r \in wire : r.op = "list" /\ Shown(r)
         /\ busy # None => \E r \in wire : r.link = busy /\ r.op # "extend" /\ Shown(r)
         /\ dialog.submitting => \E r \in wire : r.dialog = dialog.number /\ Shown(r)
Signs == signing => \E r \in wire : r.op = "login"

LEMMA LandSigns ==
    ASSUME WaitInv, NEW r \in wire, Land(r)
    PROVE  Signs'
<1>1. PICK how : \/ LinksAnswer(r, how) \/ ModeLands(r, how) \/ MeLands(r, how)
                 \/ LoginLands(r, how) \/ LogoutLands(r, how)
  BY DEF Land
<1>2. CASE LoginLands(r, how)
  BY <1>2 DEF LoginLands, Signs
<1>3. CASE mode = "sso"
  <2>1. UNCHANGED signing \/ ~ signing'
    BY <1>1 DEF LinksAnswer, Unauthorized, LeavePage, ListLands, RevokeLands, DeleteLands,
       CreateLands, ExtendLands, SubmitFails, Ignored, Lands, page, login, ModeLands,
       MeLands, LoginLands, LogoutLands
  <2> QED
    BY <1>3, <2>1, ConsoleAssumption DEF WaitInv, ModeInv, Signs
<1>4. CASE mode # "sso" /\ ~ LoginLands(r, how)
  <2>1. r.op # "login" /\ UNCHANGED signing
    BY <1>1, <1>4 DEF LinksAnswer, Ops, Unauthorized, ListLands, RevokeLands, DeleteLands,
       CreateLands, ExtendLands, SubmitFails, Ignored, Lands, page, login, ModeLands,
       MeLands, LogoutLands
  <2>2. \/ wire' = wire \ {r}
        \/ \E op, l, m, known : SendKnowing(wire \ {r}, op, l, m, 0, known)
    BY <1>1, <1>4 DEF Send, LinksAnswer, Unauthorized, ListLands, RevokeLands, DeleteLands,
       CreateLands, ExtendLands, SubmitFails, Ignored, Lands, ModeLands, MeLands,
       LogoutLands, EnterApp
  <2>3. wire \ {r} \subseteq wire'
    BY <2>2 DEF SendKnowing
  <2> QED
    BY <2>1, <2>3 DEF WaitInv, NoOrphanWait, Signs
<1> QED
  BY <1>1, <1>2, <1>3, <1>4

(* The table: what ends a wait is the answer it waits for.                    *)
LEMMA TableWaits ==
    ASSUME WaitInv, NEW r \in wire, NEW how,
           \/ r.op = "list" /\ ListLands(r, how)
           \/ r.op = "revoke" /\ RevokeLands(r, how)
           \/ r.op = "delete" /\ DeleteLands(r, how)
           \/ r.op = "create" /\ CreateLands(r, how)
           \/ r.op = "extend" /\ ExtendLands(r, how)
           \/ r.op \in Ops /\ Ignored(r)
    PROVE  Waits'
<1>1. UNCHANGED <<phase, mount, meLost>>
  BY DEF ListLands, RevokeLands, DeleteLands, CreateLands, ExtendLands, SubmitFails, Ignored,
     Lands, page, login, dashboard
<1>2. wire \ {r} \subseteq wire'
  BY DEF ListLands, RevokeLands, DeleteLands, CreateLands, ExtendLands, SubmitFails, Ignored,
     Lands, Send, SendKnowing
<1>3. \A u \in wire : u # r /\ Shown(u) => u \in wire' /\ Shown(u)'
  BY <1>1, <1>2 DEF Shown
<1>4. loading' => \E u \in wire' : u.op = "list" /\ Shown(u)'
  <2>1. loading' = FALSE \/ (UNCHANGED loading /\ (r.op # "list" \/ ~ Shown(r)))
    BY DEF ListLands, RevokeLands, DeleteLands, CreateLands, ExtendLands, SubmitFails,
       Ignored, Lands, page, dashboard
  <2> QED
    BY <1>3, <2>1 DEF WaitInv, NoOrphanWait
<1>5. busy' # None => \E u \in wire' : u.link = busy' /\ u.op # "extend" /\ Shown(u)'
  <2>1. CASE /\ r.op = "delete" /\ UNCHANGED busy
             /\ \E known : SendKnowing(wire \ {r}, "list", r.link, r.mount, 0, known)
    <3>1. PICK s : s \in wire' /\ s.op = "list" /\ s.link = r.link /\ s.mount = r.mount
      BY <2>1, SentKnowing
    <3>2. Shown(r) => Shown(s)'
      BY <1>1, <3>1 DEF Shown
    <3> QED
      BY <1>3, <2>1, <3>1, <3>2 DEF WaitInv, NoOrphanWait
  <2>2. CASE busy' = None
    BY <2>2
  <2>3. CASE UNCHANGED busy /\ (r.link = None \/ r.op = "extend" \/ ~ Shown(r))
    BY <1>3, <2>3 DEF WaitInv, NoOrphanWait
  <2>4. r.op = "create" => r.link = None
    BY DEF WaitInv, DialogInv, Linkless
  <2> QED
    BY <2>1, <2>2, <2>3, <2>4 DEF ListLands, RevokeLands, DeleteLands, CreateLands, ExtendLands,
       SubmitFails, Ignored, Lands, page, dashboard, table
<1>6. dialog'.submitting => \E u \in wire' : u.dialog = dialog'.number /\ Shown(u)'
  <2>1. CASE UNCHANGED dialog /\ (~ Shown(r) \/ r.op \notin {"create", "extend"})
    BY <1>3, <2>1 DEF WaitInv, NoOrphanWait, DialogInv
  <2>2. CASE dialog' = NoDialog
    BY <2>2, NoneWaits
  <2>3. CASE dialog' = Retriable(r.dialog)
    BY <1>3, <2>3 DEF Retriable, WaitInv, NoOrphanWait, DialogInv, Dialogs
  <2> QED
    BY <2>1, <2>2, <2>3 DEF ListLands, RevokeLands, DeleteLands, CreateLands, ExtendLands,
       SubmitFails, Ignored, Lands, page, dashboard, table
<1>7. phase' = "loading" /\ ~ meLost' => \E u \in wire' : u.op \in {"mode", "me"}
  <2>1. r.op \notin {"mode", "me"}
    BY DEF Ops
  <2> QED
    BY <1>1, <1>2, <2>1 DEF WaitInv, NoOrphanWait
<1> QED
  BY <1>4, <1>5, <1>6, <1>7 DEF Waits, Shown

LEMMA LandWaits ==
    ASSUME WaitInv, NEW r \in wire, Land(r)
    PROVE  WaitInv'
<1>1. PICK how : \/ LinksAnswer(r, how) \/ ModeLands(r, how) \/ MeLands(r, how)
                 \/ LoginLands(r, how) \/ LogoutLands(r, how)
  BY DEF Land
<1>2. ASSUME ToLogin \/ LeavePage PROVE Waits'
  BY <1>2, EmptyWaits DEF ToLogin, LeavePage, Waits
<1>3. ASSUME EnterApp(wire \ {r}) PROVE Waits'
  <2>1. PICK s : s \in wire' /\ s.op = "list" /\ s.mount = mount + 1
    BY <1>3, SentRequest DEF EnterApp
  <2>2. phase' = "app" /\ mount' = mount + 1 /\ EmptyTable
    BY <1>3 DEF EnterApp
  <2> QED
    BY <2>1, <2>2, EmptyWaits DEF Waits, Shown
<1>4. ASSUME wire \ {r} \subseteq wire', r.op \in {"mode", "me", "login"},
             UNCHANGED <<phase, dashboard>>,
             \/ meLost'
             \/ \E u \in wire' : u.op = "me"
             \/ r.op = "login" /\ UNCHANGED meLost
      PROVE  Waits'
  <2>1. \A u \in wire \ {r} : u \in wire' /\ (Shown(u) => Shown(u)')
    BY <1>4 DEF Shown, dashboard
  <2>2. r.link = None /\ r.dialog = 0
    BY <1>4 DEF WaitInv, DialogInv, Linkless
  <2>3. UNCHANGED <<loading, busy, dialog>>
    BY <1>4 DEF dashboard, table
  <2>4. dialog.submitting => dialog.number # 0
    BY DEF WaitInv, DialogInv
  <2> QED
    BY <1>4, <2>1, <2>2, <2>3, <2>4 DEF Waits, WaitInv, NoOrphanWait
<1>5. Waits'
  <2>1. CASE LinksAnswer(r, how)
    BY <1>2, <2>1, TableWaits DEF LinksAnswer, Unauthorized
  <2>2. CASE ModeLands(r, how)
    <3>1. \/ EnterApp(wire \ {r})
          \/ Send(wire \ {r}, "me", None, mount, 0) /\ UNCHANGED <<phase, dashboard>>
      BY <2>2 DEF ModeLands
    <3>2. ASSUME Send(wire \ {r}, "me", None, mount, 0)
          PROVE  wire \ {r} \subseteq wire' /\ \E u \in wire' : u.op = "me"
      BY <3>2, SentRequest
    <3> QED
      BY <1>3, <1>4, <2>2, <3>1, <3>2 DEF ModeLands
  <2>3. CASE MeLands(r, how)
    BY <1>2, <1>3, <1>4, <2>3 DEF MeLands
  <2>4. CASE LoginLands(r, how)
    <3>1. \/ EnterApp(wire \ {r})
          \/ wire' = wire \ {r} /\ UNCHANGED <<phase, dashboard>>
      BY <2>4 DEF LoginLands
    <3> QED
      BY <1>3, <1>4, <2>4, <3>1 DEF LoginLands, login
  <2>5. CASE LogoutLands(r, how)
    <3>1. ToLogin
      BY <2>5 DEF LogoutLands
    <3> QED
      BY <1>2, <3>1
  <2> QED
    BY <1>1, <2>1, <2>2, <2>3, <2>4, <2>5
<1> QED
  BY <1>5, LandModes, LandDialogs, LandSigns DEF WaitInv, NoOrphanWait, Waits, Signs

(* A click sends a request that belongs to the Dashboard it is made on.       *)
LEMMA ClickSends ==
    ASSUME WaitInv, NEW op \in Ops \cup {"logout"}, NEW l, NEW d, Click(op, l, d),
           d # 0 => op \in {"create", "extend"},
           op \in Linkless => l = None,
           op = "logout" => mode = "builtin"
    PROVE  /\ ModeInv' /\ sent' \in Nat \ {0} /\ UNCHANGED <<signing, loading>> /\ phase' = "app"
           /\ \A u \in wire' : /\ Shape(u)
                               /\ u.dialog # 0 => u.op \in {"create", "extend"}
                               /\ u.op \in Linkless => u.link = None
           /\ \A u \in wire : u \in wire' /\ (Shown(u) => Shown(u)')
           /\ \E s \in wire' : s.op = op /\ s.link = l /\ s.dialog = d /\ Shown(s)'
<1>1. PICK s : /\ wire' = wire \cup {s} /\ sent' = sent + 1
               /\ Shape(s) /\ s.op = op /\ s.link = l /\ s.mount = mount /\ s.dialog = d
  BY SentRequest DEF Click
<1>2. phase = "app" /\ UNCHANGED <<mode, phase, mount, signing, loading>>
  BY DEF Click, login
<1>3. mode # None
  BY <1>2 DEF WaitInv, ModeInv
<1>4. ModeInv'
  BY <1>1, <1>2, <1>3 DEF WaitInv, ModeInv, Ops
<1> QED
  BY <1>1, <1>2, <1>4 DEF WaitInv, DialogInv, Shown

(* A row that is greyed out has just sent its request.                        *)
LEMMA RowWaits ==
    ASSUME WaitInv, NEW op \in {"list", "revoke", "delete", "logout"}, NEW l, Click(op, l, 0),
           UNCHANGED dialog,
           \/ UNCHANGED busy
           \/ op \in {"revoke", "delete"} /\ busy' = l,
           op = "logout" => l = None /\ mode = "builtin"
    PROVE  WaitInv'
<1>1. /\ op \in Ops \cup {"logout"} /\ 0 = 0
      /\ op \in Linkless => l = None
  BY DEF Ops, Linkless
<1>2. /\ ModeInv' /\ sent' \in Nat \ {0} /\ UNCHANGED <<signing, loading>> /\ phase' = "app"
      /\ \A u \in wire' : /\ Shape(u)
                          /\ u.dialog # 0 => u.op \in {"create", "extend"}
                          /\ u.op \in Linkless => u.link = None
      /\ \A u \in wire : u \in wire' /\ (Shown(u) => Shown(u)')
      /\ \E s \in wire' : s.op = op /\ s.link = l /\ s.dialog = 0 /\ Shown(s)'
  BY <1>1, ClickSends
<1>3. DialogInv'
  BY <1>2 DEF WaitInv, DialogInv, Shape, Whole
<1>4. NoOrphanWait'
  BY <1>2 DEF WaitInv, NoOrphanWait
<1> QED
  BY <1>2, <1>3, <1>4 DEF WaitInv

(* A dialog that says it is submitting has just sent its request.             *)
LEMMA SubmitWaits ==
    ASSUME WaitInv, Submit
    PROVE  WaitInv'
<1>1. /\ dialog.kind \in {"create", "extend"} /\ UNCHANGED busy
      /\ Click(dialog.kind, dialog.link, dialog.number)
      /\ dialog' = [dialog EXCEPT !.submitting = TRUE]
  BY DEF Submit
<1>2. dialog.kind \in Linkless => dialog.link = None
  BY <1>1 DEF WaitInv, DialogInv, Linkless
<1>3. /\ ModeInv' /\ sent' \in Nat \ {0} /\ UNCHANGED <<signing, loading>> /\ phase' = "app"
      /\ \A u \in wire' : /\ Shape(u)
                          /\ u.dialog # 0 => u.op \in {"create", "extend"}
                          /\ u.op \in Linkless => u.link = None
      /\ \A u \in wire : u \in wire' /\ (Shown(u) => Shown(u)')
      /\ \E s \in wire' : /\ s.op = dialog.kind /\ s.link = dialog.link
                          /\ s.dialog = dialog.number /\ Shown(s)'
  BY <1>1, <1>2, ClickSends DEF Ops
<1>4. /\ dialog' \in Dialogs /\ dialog'.kind = dialog.kind /\ dialog'.link = dialog.link
      /\ dialog'.number = dialog.number
  BY <1>1 DEF WaitInv, DialogInv, Dialogs
<1>5. DialogInv'
  BY <1>1, <1>3, <1>4 DEF WaitInv, DialogInv, Shape, Whole
<1>6. NoOrphanWait'
  BY <1>1, <1>3, <1>4 DEF WaitInv, NoOrphanWait
<1> QED
  BY <1>3, <1>5, <1>6 DEF WaitInv

(* Steps that send nothing and put no new wait on the page.                   *)
LEMMA QuietWaits ==
    ASSUME WaitInv, UNCHANGED <<wire, sent, mode, phase, meLost, signing, mount, loading, busy>>,
           dialog' \in Dialogs, ~ dialog'.submitting \/ dialog' = dialog,
           dialog'.kind # "none" => dialog'.number # 0,
           dialog'.kind = "create" => dialog'.link = None
    PROVE  WaitInv'
<1>1. ModeInv'
  BY DEF WaitInv, ModeInv
<1>2. DialogInv'
  BY DEF WaitInv, DialogInv, Shape, Whole
<1>3. NoOrphanWait'
  BY DEF WaitInv, NoOrphanWait, Shown
<1> QED
  BY <1>1, <1>2, <1>3 DEF WaitInv

LEMMA DialogWaits ==
    ASSUME WaitInv, Ticks \/ OpenDialog \/ CloseDialog
    PROVE  WaitInv'
<1>1. UNCHANGED <<wire, sent, mode, phase, meLost, signing, mount, loading, busy>>
  BY DEF Ticks, OpenDialog, Opens, CloseDialog, login
<1>2. CASE Ticks
  BY <1>1, <1>2, QuietWaits DEF Ticks, WaitInv, DialogInv
<1>3. CASE CloseDialog
  BY <1>1, <1>3, QuietWaits, NoneWaits DEF CloseDialog
<1>4. CASE OpenDialog
  <2>1. PICK kind \in {"create", "extend"}, l \in Links \cup {None} :
           /\ kind = "create" => l = None
           /\ Opens(kind, l)
    BY <1>4 DEF OpenDialog
  <2>2. dialog' = [kind |-> kind, link |-> l, number |-> sent, submitting |-> FALSE]
    BY <2>1 DEF Opens
  <2>3. sent \in Nat \ {0}
    BY DEF WaitInv, DialogInv
  <2>4. /\ dialog' \in Dialogs /\ ~ dialog'.submitting /\ dialog'.number # 0
        /\ dialog'.kind = "create" => dialog'.link = None
    BY <2>1, <2>2, <2>3 DEF Dialogs
  <2> QED
    BY <1>1, <2>4, QuietWaits
<1> QED
  BY <1>2, <1>3, <1>4

LEMMA LogoutWaits ==
    ASSUME WaitInv, Logout
    PROVE  WaitInv'
<1>1. CASE mode = "builtin" /\ Click("logout", None, 0) /\ UNCHANGED <<busy, dialog>>
  BY <1>1, RowWaits
<1>2. CASE mode = "sso" /\ LeavePage
  <2>1. /\ wire' = {} /\ phase' = "away" /\ loading' = FALSE
        /\ UNCHANGED <<sent, mode, signing>>
        /\ busy' = None /\ dialog' = NoDialog
    BY <1>2 DEF LeavePage, login, EmptyTable
  <2>2. ~ signing /\ mode # None
    BY <1>2, ConsoleAssumption DEF WaitInv, ModeInv
  <2>3. ModeInv'
    BY <2>1, <2>2 DEF WaitInv, ModeInv
  <2>4. DialogInv'
    BY <2>1, NoneWaits DEF WaitInv, DialogInv
  <2>5. NoOrphanWait'
    BY <2>1, <2>2, NoneWaits DEF NoOrphanWait
  <2> QED
    BY <2>3, <2>4, <2>5 DEF WaitInv
<1> QED
  BY <1>1, <1>2 DEF Logout

LEMMA LoginWaits ==
    ASSUME WaitInv, Login
    PROVE  WaitInv'
<1>1. /\ phase = "login" /\ signing' = TRUE
      /\ UNCHANGED <<mode, phase, mount, loading, busy, dialog>>
  BY DEF Login, dashboard, table
<1>2. PICK s : /\ wire' = wire \cup {s} /\ sent' = sent + 1
               /\ Shape(s) /\ s.op = "login" /\ s.link = None /\ s.dialog = 0
  BY SentRequest DEF Login
<1>3. mode = "builtin"
  BY <1>1 DEF WaitInv, ModeInv
<1>4. ModeInv'
  BY <1>1, <1>2, <1>3, ConsoleAssumption DEF WaitInv, ModeInv
<1>5. DialogInv'
  BY <1>1, <1>2 DEF WaitInv, DialogInv, Shape, Whole
<1>6. NoOrphanWait'
  BY <1>1, <1>2 DEF WaitInv, NoOrphanWait, Shown
<1> QED
  BY <1>4, <1>5, <1>6 DEF WaitInv

LEMMA OperatorWaits ==
    ASSUME WaitInv, Operator
    PROVE  WaitInv'
<1>1. CASE Refresh
  BY <1>1, RowWaits DEF Refresh
<1>2. ASSUME NEW l \in Links, Revoke(l) \/ Delete(l) PROVE WaitInv'
  BY <1>2, RowWaits DEF Revoke, Delete
<1> QED
  BY <1>1, <1>2, SubmitWaits, DialogWaits, LogoutWaits, LoginWaits DEF Operator

LEMMA WaitStep == IInv /\ WaitInv /\ [Next]_vars => WaitInv'
<1> SUFFICES ASSUME IInv, WaitInv, [Next]_vars PROVE WaitInv'
  OBVIOUS
<1>1. ASSUME NEW r \in wire, Serve(r) \/ Land(r) PROVE WaitInv'
  BY <1>1, ServeWaits, LandWaits
<1>2. CASE \/ SessionEnds \/ CooldownEnds \/ UNCHANGED vars
           \/ \E l \in Links : LinkExpires(l)
  <2>1. UNCHANGED <<wire, sent, mode, phase, meLost, signing, mount, loading, busy, dialog>>
    BY <1>2 DEF SessionEnds, CooldownEnds, LinkExpires, vars, page, login, dashboard, table
  <2> QED
    BY <2>1, QuietWaits DEF WaitInv, DialogInv
<1>3. CASE Operator
  BY <1>3, OperatorWaits
<1> QED
  BY <1>1, <1>2, <1>3 DEF Next

(* Whatever the page shows as under way has a request on the wire whose       *)
(* answer ends it: a lost answer, a 401, a dialog closed and opened again or  *)
(* two rows acted on at once leave nothing spinning for ever (the finally()   *)
(* and catch() of Dashboard.tsx, CreateModal.tsx, ActModal.tsx, Login.tsx).   *)
(* The one exception is the page App shows first: a lost answer to me() has   *)
(* no catch, and that page then loads for ever (App.tsx, line 24).            *)
THEOREM NothingSpins == Spec => []NoOrphanWait
<1>1. WaitInv => NoOrphanWait
  BY DEF WaitInv
<1>2. Spec => []IInv
  BY InitInv, InvStep, PTL DEF Spec
<1> QED
  BY InitWaits, WaitStep, <1>1, <1>2, PTL DEF Spec

----------------------------------------------------------------------------
(* The types, and what the page relies on.                                    *)

RequestType(r) == /\ r.id \in 1..sent /\ r.mount \in 0..mount
                  /\ r.reply \in Replies
                  /\ r.rows \in [Links -> RowState]

ServerType == /\ sent \in Nat \ {0} /\ mount \in Nat
              /\ sessions \subseteq 1..sent
              /\ cookie \in 0..sent
              /\ \A r \in wire : RequestType(r)

(* A row keeps its tick as long as it is in the table.                        *)
TableType == /\ screen \in [Links -> RowState]
             /\ selected \subseteq Rows(screen)
             /\ busy \in Links \cup {None}
             /\ dialog \in Dialogs
             /\ unseen \subseteq acked /\ acked \subseteq Links

PageType == /\ mode \in {"builtin", "sso", None}
            /\ mode = "builtin" => authMode = "builtin"
            /\ phase \in {"loading", "login", "app", "away"}
            /\ {meLost, signing, cooling, loading} \subseteq BOOLEAN
            /\ phase # "app" => ~ loading /\ Rows(screen) = {} /\ NoneOpen
            /\ phase = "login" => mode = "builtin"

Types == ServerType /\ TableType /\ PageType

LEMMA InitTypes == Init => Types
<1> SUFFICES ASSUME Init PROVE Types
  OBVIOUS
<1>1. NoRows \in [Links -> RowState] /\ Rows(NoRows) = {}
  BY DEF NoRows, RowState, Rows
<1>2. ServerType
  BY <1>1 DEF Init, ServerType, RequestType, Replies
<1>3. TableType
  BY <1>1, NoneWaits DEF Init, TableType
<1>4. PageType
  BY <1>1, ConsoleAssumption DEF Init, PageType, NoneOpen
<1> QED
  BY <1>2, <1>3, <1>4 DEF Types

(* What leaves the table and the page alone.                                  *)
LEMMA PageKept ==
    ASSUME TableType, PageType, UNCHANGED <<authMode, mode, phase, login, dashboard>>
    PROVE  TableType' /\ PageType'
BY DEF TableType, PageType, login, dashboard, table, NoneOpen, Rows

LEMMA TableEmpty ==
    ASSUME EmptyTable
    PROVE  TableType' /\ Rows(screen') = {} /\ NoneOpen'
BY NoneWaits DEF EmptyTable, TableType, NoRows, RowState, Rows, NoneOpen

(* A request that leaves belongs to the Dashboard there is or comes.          *)
LEMMA SentType ==
    ASSUME ServerType, NEW rest, rest \subseteq wire, NEW op, NEW l, NEW m, NEW d, NEW known,
           SendKnowing(rest, op, l, m, d, known),
           m \in 0..mount', mount' \in {mount, mount + 1}
    PROVE  sent' = sent + 1 /\ \A r \in wire' : RequestType(r)'
<1>1. PICK s : s = Request(op, l, m, d, known)
  OBVIOUS
<1>2. s.id = sent + 1 /\ s.mount = m /\ s.reply = "none" /\ s.rows = NoRows
  BY <1>1 DEF Request
<1>3. wire' = rest \cup {s} /\ sent' = sent + 1
  BY <1>1 DEF SendKnowing
<1>4. NoRows \in [Links -> RowState]
  BY DEF NoRows, RowState
<1>5. RequestType(s)'
  BY <1>2, <1>3, <1>4 DEF ServerType, RequestType, Replies
<1>6. \A r \in wire : RequestType(r)'
  BY <1>3 DEF ServerType, RequestType
<1> QED
  BY <1>3, <1>5, <1>6

LEMMA ServeTypes ==
    ASSUME IInv, WaitInv, Types, NEW r \in wire, Serve(r)
    PROVE  Types'
<1>1. UNCHANGED <<authMode, sent, mode, phase, cookie, login, dashboard, mount>>
  BY DEF Serve, page, dashboard
<1>2. sessions' \subseteq sessions \cup {r.id}
  BY DEF Serve, ServeLinks, ServeAuth, Effect
<1>3. PICK how \in Replies, rows \in [Links -> RowState] : Answers(r, how, rows)
  <2>1. CASE ServeLinks(r)
    BY <2>1, RowsOk DEF ServeLinks, Effect, Replies
  <2>2. CASE ServeAuth(r)
    BY <2>2, RowsOk DEF ServeAuth, Replies
  <2> QED
    BY <2>1, <2>2 DEF Serve
<1>4. PICK s : s = Whole(r, how, rows)
  OBVIOUS
<1>5. wire' = (wire \ {r}) \cup {s}
  BY <1>3, <1>4, AnswerShape DEF Answers, WaitInv, DialogInv
<1>6. s.id = r.id /\ s.mount = r.mount /\ s.reply = how /\ s.rows = rows
  BY <1>4 DEF Whole
<1>7. ServerType'
  BY <1>1, <1>2, <1>3, <1>5, <1>6 DEF Types, ServerType, RequestType
<1> QED
  BY <1>1, <1>7, PageKept DEF Types

LEMMA ServerKept ==
    ASSUME ServerType, UNCHANGED sessions, cookie' \in 0..sent,
           \/ wire' \subseteq wire /\ UNCHANGED <<sent, mount>>
           \/ /\ mount' \in {mount, mount + 1}
              /\ \E op, l, d, rest, known : \E m \in 0..mount' :
                    rest \subseteq wire /\ SendKnowing(rest, op, l, m, d, known)
    PROVE  ServerType'
<1>1. CASE wire' \subseteq wire /\ UNCHANGED <<sent, mount>>
  BY <1>1 DEF ServerType, RequestType
<1>2. CASE /\ mount' \in {mount, mount + 1}
           /\ \E op, l, d, rest, known : \E m \in 0..mount' :
                 rest \subseteq wire /\ SendKnowing(rest, op, l, m, d, known)
  <2>1. sent' = sent + 1 /\ \A r \in wire' : RequestType(r)'
    BY <1>2, SentType
  <2> QED
    BY <1>2, <2>1 DEF ServerType
<1> QED
  BY <1>1, <1>2

LEMMA LandServer ==
    ASSUME Types, NEW r \in wire, Land(r)
    PROVE  ServerType'
<1>1. PICK how : \/ LinksAnswer(r, how) \/ ModeLands(r, how) \/ MeLands(r, how)
                 \/ LoginLands(r, how) \/ LogoutLands(r, how)
  BY DEF Land
<1>2. /\ UNCHANGED sessions /\ cookie' \in {cookie, r.id, 0}
  BY <1>1 DEF LinksAnswer, Unauthorized, LeavePage, ListLands, RevokeLands, DeleteLands,
     CreateLands, ExtendLands, SubmitFails, Ignored, Lands, ModeLands, MeLands, LoginLands,
     LogoutLands, server, page
<1>3. r.mount \in 0..mount /\ cookie' \in 0..sent /\ mount \in Nat /\ sent \in Nat
  BY <1>2 DEF Types, ServerType, RequestType
<1>4. \/ wire' \subseteq wire /\ UNCHANGED <<sent, mount>>
      \/ UNCHANGED mount /\ \E l, known : SendKnowing(wire \ {r}, "list", l, r.mount, 0, known)
      \/ UNCHANGED mount /\ Send(wire \ {r}, "me", None, mount, 0)
      \/ mount' = mount + 1 /\ Send(wire \ {r}, "list", None, mount + 1, 0)
  <2>1. CASE LinksAnswer(r, how)
    <3>1. CASE Unauthorized(r)
      BY <3>1 DEF Unauthorized, LeavePage, ToLogin
    <3>2. CASE ListLands(r, how) \/ RevokeLands(r, how) \/ ExtendLands(r, how) \/ Ignored(r)
      BY <3>2 DEF ListLands, RevokeLands, ExtendLands, SubmitFails, Ignored, Lands, page,
         dashboard
    <3>3. CASE DeleteLands(r, how) \/ CreateLands(r, how)
      BY <3>3 DEF Send, DeleteLands, CreateLands, SubmitFails, Lands
    <3> QED
      BY <2>1, <3>1, <3>2, <3>3 DEF LinksAnswer
  <2>2. CASE ModeLands(r, how) \/ MeLands(r, how) \/ LoginLands(r, how) \/ LogoutLands(r, how)
    BY <2>2 DEF ModeLands, MeLands, LoginLands, LogoutLands, EnterApp, ToLogin, dashboard
  <2> QED
    BY <1>1, <2>1, <2>2
<1>5. CASE wire' \subseteq wire /\ UNCHANGED <<sent, mount>>
  BY <1>2, <1>3, <1>5, ServerKept DEF Types
<1>6. CASE /\ mount' \in {mount, mount + 1}
           /\ \E op, l, known : \E m \in 0..mount' :
                 SendKnowing(wire \ {r}, op, l, m, 0, known)
  <2>1. \E op, l, d, rest, known : \E m \in 0..mount' :
           rest \subseteq wire /\ SendKnowing(rest, op, l, m, d, known)
    <3>1. PICK op, l, known : \E m \in 0..mount' :
               SendKnowing(wire \ {r}, op, l, m, 0, known)
      BY <1>6
    <3>2. wire \ {r} \subseteq wire
      OBVIOUS
    <3> QED
      BY <3>1, <3>2
  <2> QED
    BY <1>2, <1>3, <1>6, <2>1, ServerKept DEF Types
<1> QED
  BY <1>3, <1>4, <1>5, <1>6 DEF Send

(* What the answers to the table's requests do: the page stays, and rows that *)
(* go take their ticks along.                                                 *)
LEMMA TableAnswerTypes ==
    ASSUME IInv, WaitInv, Types, NEW r \in wire, NEW how,
           \/ r.op = "list" /\ ListLands(r, how)
           \/ r.op = "revoke" /\ RevokeLands(r, how)
           \/ r.op = "delete" /\ DeleteLands(r, how)
           \/ r.op = "create" /\ CreateLands(r, how)
           \/ r.op = "extend" /\ ExtendLands(r, how)
    PROVE  TableType' /\ PageType'
<1>1. UNCHANGED <<authMode, mode, phase, meLost, signing, cooling>> /\ loading' \in {loading, FALSE}
  BY DEF ListLands, RevokeLands, DeleteLands, CreateLands, ExtendLands, SubmitFails, Lands,
     server, login
<1>2. busy' \in {busy, None} /\ dialog' \in {dialog, NoDialog, Retriable(r.dialog)}
  BY DEF ListLands, RevokeLands, DeleteLands, CreateLands, ExtendLands, SubmitFails, Lands
<1>3. busy' \in Links \cup {None} /\ dialog' \in Dialogs
  BY <1>2, NoneWaits DEF Types, TableType, Retriable, Dialogs
<1>4. r.rows \in [Links -> RowState] /\ (Ends(r) => r.link \in Links)
  BY DEF IInv, WireInv, OfRequest
<1>5. UNCHANGED <<screen, selected, acked, unseen>>
      => /\ screen' \in [Links -> RowState] /\ selected' \subseteq Rows(screen')
         /\ unseen' \subseteq acked' /\ acked' \subseteq Links
  BY DEF Types, TableType
<1>6. ASSUME NEW l, NEW s \in {"active", "ended"}
      PROVE  Updated(l, s) \in [Links -> RowState] /\ Rows(Updated(l, s)) = Rows(screen)
  BY ConsoleAssumption DEF Updated, Rows, RowState, Types, TableType
<1>7. /\ screen' \in [Links -> RowState] /\ selected' \subseteq Rows(screen')
      /\ unseen' \subseteq acked' /\ acked' \subseteq Links
  <2>1. CASE r.op = "list" /\ ListLands(r, how)
    BY <1>4, <1>5, <2>1 DEF ListLands, Narrowed, Types, TableType
  <2>2. CASE r.op = "revoke" /\ RevokeLands(r, how)
    BY <1>4, <1>5, <1>6, <2>2 DEF RevokeLands, Ends, Types, TableType
  <2>3. CASE r.op = "delete" /\ DeleteLands(r, how)
    BY <1>4, <1>5, <2>3 DEF DeleteLands, Ends, Types, TableType
  <2>4. CASE r.op = "create" /\ CreateLands(r, how)
    BY <1>5, <2>4 DEF CreateLands, SubmitFails
  <2>5. CASE r.op = "extend" /\ ExtendLands(r, how)
    BY <1>5, <1>6, <2>5 DEF ExtendLands, SubmitFails, Types, TableType
  <2> QED
    BY <2>1, <2>2, <2>3, <2>4, <2>5
<1>8. Shown(r) \/ UNCHANGED <<screen, dialog>>
  BY DEF ListLands, RevokeLands, DeleteLands, CreateLands, ExtendLands, SubmitFails
<1>9. loading' \in BOOLEAN
  BY <1>1 DEF Types, PageType
<1>10. phase # "app" => ~ loading' /\ Rows(screen') = {} /\ dialog' = NoDialog
  BY <1>1, <1>8 DEF Types, PageType, Shown, NoneOpen, Rows
<1>11. PageType'
  BY <1>1, <1>9, <1>10 DEF Types, PageType, NoneOpen, Rows
<1> QED
  BY <1>3, <1>7, <1>11 DEF TableType

(* The page is left for another, which begins with an empty table.            *)
LEMMA MoveTypes ==
    ASSUME Types, EmptyTable, UNCHANGED authMode,
           mode' \in {"builtin", "sso"}, mode' = "builtin" => authMode = "builtin",
           {meLost', signing', cooling', loading'} \subseteq BOOLEAN,
           phase' \in {"login", "app", "away"},
           phase' # "app" => ~ loading',
           phase' = "login" => mode' = "builtin"
    PROVE  TableType' /\ PageType'
<1>1. TableType' /\ Rows(screen') = {} /\ NoneOpen'
  BY TableEmpty
<1> QED
  BY <1>1 DEF PageType, Rows

LEMMA LandPage ==
    ASSUME IInv, WaitInv, Types, NEW r \in wire, Land(r)
    PROVE  TableType' /\ PageType'
<1>1. PICK how : \/ LinksAnswer(r, how) \/ ModeLands(r, how) \/ MeLands(r, how)
                 \/ LoginLands(r, how) \/ LogoutLands(r, how)
  BY DEF Land
<1>2. /\ mode \in {"builtin", "sso", None} /\ (mode = "builtin" => authMode = "builtin")
      /\ {meLost, signing, cooling} \subseteq BOOLEAN
  BY DEF Types, PageType
<1>3. CASE LinksAnswer(r, how)
  <2>1. mode \in {"builtin", "sso"}
    BY <1>2, <1>3 DEF WaitInv, ModeInv, LinksAnswer, Ops
  <2>2. CASE Unauthorized(r)
    <3>1. UNCHANGED <<authMode, mode, meLost, signing, cooling>> /\ EmptyTable /\ loading' = FALSE
      BY <2>2 DEF Unauthorized, LeavePage, ToLogin, server, login
    <3>2. phase' = "away" \/ (phase' = "login" /\ mode # "sso")
      BY <2>2 DEF Unauthorized, LeavePage, ToLogin
    <3> QED
      BY <1>2, <2>1, <3>1, <3>2, MoveTypes
  <2>3. CASE Ignored(r)
    <3>1. UNCHANGED <<authMode, mode, phase, login, dashboard>>
      BY <2>3 DEF Ignored, server, page
    <3> QED
      BY <3>1, PageKept DEF Types
  <2> QED
    BY <1>3, <2>2, <2>3, TableAnswerTypes DEF LinksAnswer
<1>4. CASE ModeLands(r, how)
  <2>1. /\ UNCHANGED <<authMode, login>> /\ mode' \in {"builtin", "sso"}
        /\ mode' = "builtin" => authMode = "builtin"
    BY <1>4 DEF ModeLands, Probed, server
  <2>2. CASE EnterApp(wire \ {r})
    BY <1>2, <2>1, <2>2, MoveTypes DEF EnterApp, login
  <2>3. CASE UNCHANGED <<phase, dashboard>>
    <3>1. mode = None /\ phase = "loading"
      BY <1>4 DEF WaitInv, ModeInv, ModeLands
    <3> QED
      BY <2>1, <2>3, <3>1
         DEF Types, TableType, PageType, login, dashboard, table, NoneOpen, Rows
  <2> QED
    BY <1>4, <2>2, <2>3 DEF ModeLands
<1>5. CASE MeLands(r, how) \/ LoginLands(r, how) \/ LogoutLands(r, how)
  <2>1. mode = "builtin" /\ UNCHANGED <<authMode, mode>>
    BY <1>5 DEF WaitInv, ModeInv, MeLands, LoginLands, LogoutLands, server
  <2>2. {meLost', signing', cooling'} \subseteq BOOLEAN
    BY <1>2, <1>5 DEF MeLands, LoginLands, LogoutLands, login
  <2>3. CASE EnterApp(wire \ {r}) \/ ToLogin
    BY <1>2, <2>1, <2>2, <2>3, MoveTypes DEF EnterApp, ToLogin
  <2>4. CASE UNCHANGED <<phase, dashboard>>
    BY <2>1, <2>2, <2>4
       DEF Types, TableType, PageType, dashboard, table, NoneOpen, Rows
  <2> QED
    BY <1>5, <2>3, <2>4 DEF MeLands, LoginLands, LogoutLands
<1> QED
  BY <1>1, <1>3, <1>4, <1>5

----------------------------------------------------------------------------
(* The operator works on a table he sees.                                     *)
LEMMA ClickTypes ==
    ASSUME Types, NEW op, NEW l, NEW d, Click(op, l, d), UNCHANGED <<screen, selected>>,
           busy' \in Links \cup {None}, dialog' \in Dialogs
    PROVE  Types'
<1>1. /\ phase = "app" /\ Send(wire, op, l, mount, d)
      /\ UNCHANGED <<authMode, sessions, mode, phase, cookie, meLost, signing,
                     cooling, mount,
                     loading, acked, unseen>>
  BY DEF Click, server, login
<1>2. mount \in 0..mount' /\ cookie' \in 0..sent /\ mount' \in {mount, mount + 1}
  BY <1>1 DEF Types, ServerType
<1>3. sent' = sent + 1 /\ \A r \in wire' : RequestType(r)'
  BY <1>1, <1>2, SentType DEF Types, Send
<1>4. ServerType'
  BY <1>1, <1>3 DEF Types, ServerType
<1>5. TableType'
  BY <1>1 DEF Types, TableType, Rows
<1>6. PageType'
  BY <1>1 DEF Types, PageType
<1> QED
  BY <1>4, <1>5, <1>6 DEF Types

LEMMA OperatorTypes ==
    ASSUME WaitInv, Types, Operator
    PROVE  Types'
<1>1. CASE Refresh
  BY <1>1, ClickTypes DEF Refresh, Types, TableType
<1>2. ASSUME NEW l \in Links, Revoke(l) \/ Delete(l) PROVE Types'
  BY <1>2, ClickTypes DEF Revoke, Delete, Types, TableType
<1>3. CASE Submit
  <2>1. dialog' \in Dialogs
    BY <1>3 DEF Submit, Types, TableType, Dialogs
  <2> QED
    BY <1>3, <2>1, ClickTypes DEF Submit, Types, TableType
<1>4. CASE Ticks \/ OpenDialog \/ CloseDialog
  <2>1. /\ UNCHANGED <<authMode, sessions, wire, sent, mode, phase, cookie, meLost, signing,
                       cooling, mount, loading, screen, busy, acked, unseen>>
    BY <1>4 DEF Ticks, OpenDialog, Opens, CloseDialog, server, login
  <2>2. dialog' \in Dialogs /\ selected' \subseteq Rows(screen)
    <3>1. CASE Ticks
      BY <3>1 DEF Ticks, RowShown, Rows, Types, TableType
    <3>2. CASE OpenDialog \/ CloseDialog
      <4>1. sent \in Nat /\ selected \subseteq Rows(screen)
        BY DEF Types, ServerType, TableType
      <4>2. UNCHANGED selected
        BY <3>2 DEF OpenDialog, Opens, CloseDialog
      <4>3. CASE CloseDialog
        BY <4>1, <4>2, <4>3, NoneWaits DEF CloseDialog
      <4>4. CASE OpenDialog
        <5>1. PICK kind \in {"create", "extend"}, l \in Links \cup {None} :
                 dialog' = [kind |-> kind, link |-> l, number |-> sent, submitting |-> FALSE]
          BY <4>4 DEF OpenDialog, Opens
        <5>2. dialog' \in Dialogs
          BY <4>1, <5>1 DEF Dialogs
        <5> QED
          BY <4>1, <4>2, <5>2
      <4> QED
        BY <3>2, <4>3, <4>4
    <3> QED
      BY <1>4, <3>1, <3>2
  <2>3. phase # "app" => dialog' = NoDialog
    BY <1>4 DEF Ticks, OpenDialog, Opens, CloseDialog, Types, PageType, NoneOpen
  <2> QED
    BY <2>1, <2>2, <2>3 DEF Types, ServerType, RequestType, TableType, PageType, NoneOpen, Rows
<1>5. CASE Logout
  <2>1. CASE Click("logout", None, 0) /\ UNCHANGED <<screen, selected, busy, dialog>>
    BY <2>1, ClickTypes DEF Types, TableType
  <2>2. CASE mode = "sso" /\ LeavePage
    <3>1. /\ UNCHANGED <<authMode, sessions, sent, mode, cookie, meLost, signing, cooling, mount>>
          /\ phase' = "away" /\ wire' = {} /\ loading' = FALSE /\ EmptyTable
      BY <2>2 DEF LeavePage, server, login
    <3>2. {meLost, signing, cooling} \subseteq BOOLEAN
      BY DEF Types, PageType
    <3>3. TableType' /\ PageType'
      BY <2>2, <3>1, <3>2, MoveTypes
    <3> QED
      BY <3>1, <3>3 DEF Types, ServerType
  <2> QED
    BY <1>5, <2>1, <2>2 DEF Logout
<1>6. CASE Login
  <2>1. /\ Send(wire, "login", None, mount, 0) /\ signing' = TRUE
        /\ UNCHANGED <<authMode, sessions, mode, phase, cookie, meLost, cooling, mount, dashboard>>
    BY <1>6 DEF Login, server, dashboard
  <2>2. mount \in 0..mount' /\ mount' \in {mount, mount + 1}
    BY <2>1 DEF Types, ServerType
  <2>3. sent' = sent + 1 /\ \A r \in wire' : RequestType(r)'
    BY <2>1, <2>2, SentType DEF Types, Send
  <2> QED
    BY <2>1, <2>3
       DEF Types, ServerType, TableType, PageType, dashboard, table, NoneOpen, Rows
<1> QED
  BY <1>1, <1>2, <1>3, <1>4, <1>5, <1>6 DEF Operator

LEMMA TypeStep == IInv /\ WaitInv /\ Types /\ [Next]_vars => Types'
<1> SUFFICES ASSUME IInv, WaitInv, Types, [Next]_vars PROVE Types'
  OBVIOUS
<1>1. ASSUME NEW r \in wire, Serve(r) \/ Land(r) PROVE Types'
  BY <1>1, ServeTypes, LandServer, LandPage DEF Types
<1>2. CASE \/ SessionEnds \/ CooldownEnds \/ UNCHANGED vars
           \/ \E l \in Links : LinkExpires(l)
  <2>1. /\ UNCHANGED <<authMode, wire, sent, mode, phase, cookie, meLost, signing, dashboard>>
        /\ sessions' \subseteq sessions /\ cooling' \in {cooling, FALSE}
    BY <1>2 DEF SessionEnds, CooldownEnds, LinkExpires, vars, server, page, login
  <2> QED
    BY <2>1 DEF Types, ServerType, RequestType, TableType, PageType, dashboard, table,
       NoneOpen, Rows
<1>3. CASE Operator
  BY <1>3, OperatorTypes
<1> QED
  BY <1>1, <1>2, <1>3 DEF Next

(* Every variable keeps its type; a tick is of a row that is shown, a page    *)
(* that is not there holds no rows, and the local login page is shown only    *)
(* where local accounts are in use.                                           *)
THEOREM TypeCorrect == Spec => []TypeOK
<1>1. IInv /\ Types => TypeOK
  BY DEF IInv, StateInv, Types, ServerType, RequestType, TableType, PageType, RowState, TypeOK
<1>2. Spec => []IInv
  BY InitInv, InvStep, PTL DEF Spec
<1>3. Spec => []WaitInv
  BY InitWaits, WaitStep, <1>2, PTL DEF Spec
<1> QED
  BY InitTypes, TypeStep, <1>1, <1>2, <1>3, PTL DEF Spec
=============================================================================
