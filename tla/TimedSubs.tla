------------------------------ MODULE TimedSubs ------------------------------
(* What a Clash subscription promises: a token stands for a list of links for *)
(* TTL from its creation, and then for nothing.  Whoever fetches it gets the  *)
(* links of the list that serve at that moment, in the order of the list, or  *)
(* a 404 when there is none.  No table, no clean-up.  ClashSubs implements it.*)
EXTENDS ClashConfig

CONSTANTS Links, Tokens, NoToken, TTL

VARIABLES now,      \* the clock
          serving,  \* the links that serve now
          drawn,    \* the tokens drawn so far
          list,     \* the links and the end behind each open token
          answer    \* the answer just given

vars == <<now, serving, drawn, list, answer>>

Nothing == [ids |-> <<>>, ends |-> 0]
Silent == [token |-> NoToken, nodes |-> <<>>]

Init == /\ now \in Nat
        /\ serving \subseteq Links
        /\ drawn = {}
        /\ list = [t \in Tokens |-> Nothing]
        /\ answer = Silent

(* Time passes and links come and go; a token ends by itself.                 *)
World == /\ now' >= now
         /\ serving' \subseteq Links
         /\ list' = [t \in Tokens |-> IF list[t].ends > now' THEN list[t]
                                      ELSE Nothing]
         /\ answer' = Silent
         /\ UNCHANGED drawn

Create(t) == /\ t \notin drawn
             /\ drawn' = drawn \cup {t}
             /\ list'[t].ids # <<>>
             /\ list' = [list EXCEPT ![t] = [ids |-> list'[t].ids, ends |-> now + TTL]]
             /\ answer' = Silent
             /\ UNCHANGED <<now, serving>>

Served(t) == IF list[t].ends <= now THEN <<>>
             ELSE OnlyThose(list[t].ids, serving)

Get(t) == /\ answer' = [token |-> t, nodes |-> Served(t)]
          /\ UNCHANGED <<now, serving, drawn, list>>

Next == World \/ \E t \in Tokens : Create(t) \/ Get(t)

Spec == Init /\ [][Next]_vars
=============================================================================
