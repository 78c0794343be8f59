---------------------------- MODULE RequestQueue ----------------------------
(***************************************************************************)
(* What the main process relies on when it asks a child process something  *)
(* (lookup.c, filelist-in.c, hash.c): the answers come in the order of the *)
(* requests, so that each can be given to the first entry of the list of   *)
(* pending requests; and every request is answered unless the child dies,  *)
(* which the main process notices and stops.                               *)
(***************************************************************************)
EXTENDS Sequences

CONSTANTS Request, None

VARIABLES
    pending,        \* requests that wait for their answer
    answered,       \* the request that was answered last
    serving,        \* the child lives
    running         \* the main process runs

vars == <<pending, answered, serving, running>>

Init == pending = <<>> /\ answered = None /\ serving = TRUE /\ running = TRUE

Ask ==
    /\ running
    /\ \E r \in Request : pending' = Append(pending, r)
    /\ UNCHANGED <<answered, serving, running>>

Answer ==
    /\ running /\ pending # <<>>
    /\ answered' = Head(pending)
    /\ pending' = Tail(pending)
    /\ UNCHANGED <<serving, running>>

Die == serving /\ serving' = FALSE /\ UNCHANGED <<pending, answered, running>>

Stop ==
    /\ running /\ ~serving
    /\ running' = FALSE
    /\ UNCHANGED <<pending, answered, serving>>

Next == Ask \/ Answer \/ Die \/ Stop

Spec == Init /\ [][Next]_vars /\ WF_vars(Answer) /\ WF_vars(Stop)
=============================================================================
