------------------------------ MODULE SlotPool ------------------------------
(***************************************************************************)
(* What the client promises about its upload slots, whatever messages its  *)
(* processes exchange: a slot is taken by one connection that had none,    *)
(* while the pool is not exhausted or the connection's user was granted a  *)
(* slot, and only a connection that has a slot gives one back.  A client   *)
(* that is started again has all its slots.                                *)
(*                                                                         *)
(* The limit and the favoured connections are inputs: the user changes     *)
(* them at any time, so the specification constrains only "holders".       *)
(***************************************************************************)
EXTENDS Integers, FiniteSets

CONSTANT Conn                  \* the connections that may hold a slot

VARIABLES
    holders,                   \* the connections that occupy a slot
    limit,                     \* how many slots there are ("slots" variable)
    favoured                   \* connections of users with a granted slot

Init == holders = {}

(* A connection takes a slot that is free, or one it was granted. *)
Acquire(c) ==
    /\ c \notin holders
    /\ Cardinality(holders) < limit \/ c \in favoured
    /\ holders' = holders \cup {c}

(* A connection gives its slot back. *)
Release(c) ==
    /\ c \in holders
    /\ holders' = holders \ {c}

(* The client is started again. *)
Restart == holders' = {}

Next == (\E c \in Conn : Acquire(c) \/ Release(c)) \/ Restart

Spec == Init /\ [][Next]_holders
=============================================================================
