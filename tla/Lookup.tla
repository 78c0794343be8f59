------------------------------- MODULE Lookup -------------------------------
(***************************************************************************)
(* Name lookups in the background (lookup.c).  The main process writes     *)
(* requests into a pipe and keeps a list of the lookups it waits for; one  *)
(* child process reads the requests, resolves them one by one and writes   *)
(* the results into another pipe.  A result does not say which request it  *)
(* belongs to: it is given to the first lookup of the list.                *)
(***************************************************************************)
EXTENDS Integers, Sequences, FiniteSets, SequencesExt

CONSTANTS
    Host,          \* host names that can be looked up
    LookupId,      \* addresses of DCLookup records
    MaxRequests    \* bound: requests without a result that was read

ASSUME LookupAssumption ==
    /\ IsFiniteSet(LookupId)
    /\ MaxRequests \in Nat \ {0}

VARIABLES
    pending,       \* pending_lookups: [id, host, callback, cancelled]
    requests,      \* hosts in the request pipe
    results,       \* results in the result pipe: [host, ok]
    crashed        \* the main process used a NULL lookup

lookupVars == <<pending, requests, results, crashed>>

Callback == {"hub", "command"}
Pending  == [id : LookupId, host : Host, callback : Callback, cancelled : BOOLEAN]
Result   == [host : Host, ok : BOOLEAN]

InitLookup ==
    /\ pending = <<>>
    /\ requests = <<>>
    /\ results = <<>>
    /\ crashed = FALSE

Ids(p) == {p[i].id : i \in 1..Len(p)}

\* Variant of AddLookupRequest: the new lookup is put in front.
AddLookupFirst(id, host, callback) ==
    /\ id \notin Ids(pending)
    /\ Len(requests) + Len(results) < MaxRequests
    /\ requests' = Append(requests, host)
    /\ pending' = <<[id |-> id, host |-> host, callback |-> callback,
                     cancelled |-> FALSE]>> \o pending
    /\ UNCHANGED <<results, crashed>>

(* add_lookup_request: id is the address of the new record. *)
AddLookupRequest(id, host, callback) ==
    /\ id \notin Ids(pending)
    /\ Len(requests) + Len(results) < MaxRequests
    /\ requests' = Append(requests, host)
    /\ pending' = Append(pending, [id |-> id, host |-> host,
                                   callback |-> callback, cancelled |-> FALSE])
    /\ UNCHANGED <<results, crashed>>

(* cancel_lookup_request, as it leaves the list p: the first lookup is     *)
(* marked, any other one is removed, although its request is under way.    *)
Cancelled(p, id) ==
    IF id \notin Ids(p) THEN p
    ELSE LET c == CHOOSE i \in 1..Len(p) : p[i].id = id
         IN  IF c = 1 THEN [p EXCEPT ![1].cancelled = TRUE] ELSE RemoveAt(p, c)

(* lookup_main: the child resolves a name, or fails to. *)
LookupMain ==
    /\ requests # <<>>
    /\ requests' = Tail(requests)
    /\ \E ok \in BOOLEAN : results' = Append(results, [host |-> Head(requests), ok |-> ok])
    /\ UNCHANGED <<pending, crashed>>

(* lookup_result_fd_readable takes the next result; what it does with it   *)
(* depends on the first lookup of the list.                                *)
TakeResult ==
    /\ ~crashed
    /\ results # <<>>
    /\ results' = Tail(results)
    /\ UNCHANGED requests

(* There is none: ptrv_remove_first returns NULL. *)
ResultForNobody ==
    /\ TakeResult
    /\ pending = <<>>
    /\ crashed' = TRUE
    /\ UNCHANGED pending

(* It was cancelled, or it is one of the lookup command, which only prints. *)
ResultIgnored ==
    /\ TakeResult
    /\ pending # <<>>
    /\ Head(pending).cancelled \/ Head(pending).callback = "command"
    /\ pending' = Tail(pending)
    /\ UNCHANGED crashed

(* It is one of the hub; the callback is the business of the caller. *)
ResultForHub ==
    /\ TakeResult
    /\ pending # <<>>
    /\ ~Head(pending).cancelled
    /\ Head(pending).callback = "hub"
    /\ UNCHANGED crashed

(* Hosts whose results are still to be read, in the order they will be.    *)
UnderWay == [i \in 1..Len(results) |-> results[i].host] \o requests

-----------------------------------------------------------------------------
(* Properties *)

LookupTypeOK ==
    /\ pending \in Seq(Pending)
    /\ requests \in Seq(Host)
    /\ results \in Seq(Result)
    /\ crashed \in BOOLEAN

(* Every lookup of the list has a result to come: no callback is waited    *)
(* for in vain (lookup.c:279, 296).  And unless a lookup was removed from  *)
(* the middle of the list, each gets the result of its own request         *)
(* (lookup.c:268).                                                         *)
ResultsInOrder ==
    /\ Len(pending) <= Len(UnderWay)
    /\ Len(pending) = Len(UnderWay) =>
           \A i \in 1..Len(pending) : pending[i].host = UnderWay[i]

(* A lookup that is not cancelled is given the result of its own host: the *)
(* callbacks of connect and lookup take it for the answer to their host    *)
(* (hub.c:294, command.c:2178).                                            *)
AnswersOwnHost ==
    pending # <<>> /\ results # <<>> /\ ~Head(pending).cancelled
        => Head(pending).host = Head(results).host
=============================================================================
