----------------------------- MODULE ClashConfig -----------------------------
(* The pure part of the Clash subscriptions: the links a request selects      *)
(* (services/clashService.ts) and the node names of the generated             *)
(* configuration (lib/clash.ts, lib/vless.ts).                                *)
(*                                                                            *)
(* A name is a sequence: a word, and the numbers of the "#n" behind it.  So   *)
(* <<"a", 2>> is what the user may type as "a#2" and what the code makes of   *)
(* the second "a".  The blank name is <<>>.                                   *)
EXTENDS Naturals, Sequences, SequencesExt

(* The loop over the identifiers of a subscription: those that are in S.      *)
OnlyThose(ids, S) ==
    LET upTo[i \in 0..Len(ids)] ==
            IF i = 0 THEN <<>>
            ELSE IF ids[i] \in S THEN Append(upTo[i - 1], ids[i]) ELSE upTo[i - 1] IN
    upTo[Len(ids)]

(* linkIds that are among `known`, each once, in the order of the request.    *)
Accepted(linkIds, known) ==
    LET upTo[i \in 0..Len(linkIds)] ==
            IF i = 0 THEN <<>>
            ELSE IF linkIds[i] \in known /\ ~Contains(upTo[i - 1], linkIds[i])
            THEN Append(upTo[i - 1], linkIds[i]) ELSE upTo[i - 1] IN
    upTo[Len(linkIds)]

(* The first of alias, note and id that is not blank.                         *)
DisplayAlias(row) ==
    IF row.alias # <<>> THEN row.alias
    ELSE IF row.note # <<>> THEN row.note ELSE row.id

(* The least number above n that makes `raw` a name nobody has.  Mutant: the  *)
(* next number, had or not.                                                   *)
NextNumber(raw, n, used) == n + 1
FreeNumber(raw, n, used) ==
    CHOOSE k \in (n + 1)..(n + Len(used) + 1) :
        /\ ~Contains(used, Append(raw, k))
        /\ \A j \in (n + 1)..(k - 1) : Contains(used, Append(raw, j))

(* One turn of the loop: `out` are the names given, `last` the last number    *)
(* tried behind each name.                                                    *)
Named(acc, raw) ==
    IF ~Contains(acc.out, raw)
    THEN [out |-> Append(acc.out, raw), last |-> {p \in acc.last : p[1] # raw} \cup {<<raw, 1>>}]
    ELSE LET had == {p[2] : p \in {q \in acc.last : q[1] = raw}}
             n == FreeNumber(raw, IF had = {} THEN 1 ELSE CHOOSE k \in had : TRUE, acc.out) IN
         [out |-> Append(acc.out, Append(raw, n)),
          last |-> {p \in acc.last : p[1] # raw} \cup {<<raw, n>>}]

DedupeNodeNames(names) ==
    LET after[i \in 0..Len(names)] ==
            IF i = 0 THEN [out |-> <<>>, last |-> {}]
            ELSE Named(after[i - 1], names[i]) IN
    after[Len(names)].out
=============================================================================
