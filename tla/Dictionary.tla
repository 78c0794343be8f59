---------------------------- MODULE Dictionary ------------------------------
(***************************************************************************)
(* What the client expects of its maps (common/hmap.c, common/tmap.c): a   *)
(* key has at most one value, and every call returns the value that the    *)
(* key had before.                                                         *)
(***************************************************************************)
CONSTANTS Key, Value, None

VARIABLES
    dict,    \* the keys with their values
    reply    \* what the last call returned

vars == <<dict, reply>>

At(k) == IF k \in DOMAIN dict THEN dict[k] ELSE None

Init == dict = [k \in {} |-> None] /\ reply = None

Put(k, v) ==
    /\ dict' = [x \in DOMAIN dict \cup {k} |-> IF x = k THEN v ELSE dict[x]]
    /\ reply' = At(k)

Remove(k) ==
    /\ dict' = [x \in DOMAIN dict \ {k} |-> dict[x]]
    /\ reply' = At(k)

Get(k) == reply' = At(k) /\ UNCHANGED dict

Clear == dict' = [k \in {} |-> None] /\ reply' = None

Next ==
    \/ \E k \in Key, v \in Value : Put(k, v)
    \/ \E k \in Key : Remove(k) \/ Get(k)
    \/ Clear

Spec == Init /\ [][Next]_vars
=============================================================================
