-------------------------- MODULE HubSessionProofs --------------------------
(***************************************************************************)
(* Proofs about HubSession, for any hosts, addresses and lookups and for   *)
(* any number of requests under way: what hub_lookup points to, when there *)
(* is a socket, and that no lookup waits for a result that never comes.    *)
(***************************************************************************)
EXTENDS HubSession, SequenceTheorems, TLAPS

(* The addresses of the records in a list differ.                          *)
DistinctIds(p) == \A i, j \in 1..Len(p) : p[i].id = p[j].id => i = j

(* The result of the lookup id will connect to the hub.                    *)
AwaitedByHub(p, id) ==
    \E i \in 1..Len(p) : /\ p[i].id = id
                         /\ p[i].callback = "hub"
                         /\ ~p[i].cancelled

(* The list p fits hub_lookup when that is lookup.                         *)
ListSound(p, lookup) ==
    /\ p \in Seq(Pending)
    /\ DistinctIds(p)
    /\ lookup \in LookupId \cup {NoLookup}
    /\ \A id \in LookupId : lookup = id <=> AwaitedByHub(p, id)

(* There is a lookup only in the state in which its result is expected.    *)
LookupMatchesState == hub_lookup # NoLookup => hub_state = "LOOKUP"

Inv ==
    /\ TypeOK
    /\ ListSound(pending, hub_lookup)
    /\ SocketMatchesState
    /\ LookupMatchesState

(* Two lists of pending lookups of which the second has lost some, or has  *)
(* the same hosts.                                                         *)
NoLonger(p, q) ==
    /\ q \in Seq(Pending)
    /\ Len(q) <= Len(p)
    /\ Len(q) = Len(p) => \A i \in 1..Len(p) : q[i].host = p[i].host

-----------------------------------------------------------------------------
(* What the functions of lookup.c do with the list *)

(* An element that is removed leaves the others in their order.            *)
LEMMA RemoveAtProperties ==
    ASSUME NEW S, NEW p \in Seq(S), NEW c \in 1..Len(p)
    PROVE  /\ RemoveAt(p, c) \in Seq(S)
           /\ Len(RemoveAt(p, c)) = Len(p) - 1
           /\ \A i \in 1..(Len(p) - 1) :
                  RemoveAt(p, c)[i] = IF i < c THEN p[i] ELSE p[i + 1]
  <1> DEFINE front == SubSeq(p, 1, c - 1)
             back  == SubSeq(p, c + 1, Len(p))
  <1>1. /\ front \in Seq(S)
        /\ Len(front) = c - 1
        /\ \A i \in 1..(c - 1) : front[i] = p[i]
    OBVIOUS
  <1>2. /\ back \in Seq(S)
        /\ Len(back) = Len(p) - c
        /\ \A i \in 1..(Len(p) - c) : back[i] = p[i + c]
    OBVIOUS
  <1>3. RemoveAt(p, c) = front \o back
    BY DEF RemoveAt
  <1> HIDE DEF front, back
  <1>4. /\ front \o back \in Seq(S)
        /\ Len(front \o back) = Len(p) - 1
        /\ \A i \in 1..(Len(p) - 1) :
               (front \o back)[i] = IF i <= c - 1 THEN front[i] ELSE back[i - (c - 1)]
    <2>1. /\ front \o back \in Seq(S)
          /\ Len(front \o back) = Len(front) + Len(back)
          /\ \A i \in 1..(Len(front) + Len(back)) :
                 (front \o back)[i] = IF i <= Len(front) THEN front[i] ELSE back[i - Len(front)]
      BY <1>1, <1>2, ConcatProperties
    <2>2. Len(front) + Len(back) = Len(p) - 1
      BY <1>1, <1>2
    <2> QED BY <1>1, <2>1, <2>2
  <1>5. ASSUME NEW i \in 1..(Len(p) - 1)
        PROVE  (front \o back)[i] = IF i < c THEN p[i] ELSE p[i + 1]
    <2>1. CASE i < c
      BY <2>1, <1>1, <1>4
    <2>2. CASE ~(i < c)
      <3>1. i - (c - 1) \in 1..(Len(p) - c) /\ (i - (c - 1)) + c = i + 1
        BY <2>2
      <3>2. (front \o back)[i] = back[i - (c - 1)]
        BY <2>2, <1>4
      <3> QED BY <2>2, <3>1, <3>2, <1>2
    <2> QED BY <2>1, <2>2
  <1> QED BY <1>3, <1>4, <1>5

(* The first lookup of the list, marked.                                   *)
LEMMA MarkedIsPending ==
    ASSUME NEW p \in Seq(Pending), Len(p) >= 1
    PROVE  LET q == [p EXCEPT ![1].cancelled = TRUE]
           IN  /\ q \in Seq(Pending)
               /\ Len(q) = Len(p)
               /\ \A i \in 1..Len(p) : q[i].id = p[i].id /\ q[i].host = p[i].host
               /\ \A i \in 1..Len(p) : i # 1 => q[i] = p[i]
               /\ q[1].cancelled
  <1> DEFINE e == [p[1] EXCEPT !.cancelled = TRUE]
             q == [p EXCEPT ![1] = e]
  <1>1. p[1] \in Pending /\ 1 \in 1..Len(p)
    OBVIOUS
  <1>2. e \in Pending /\ e.id = p[1].id /\ e.host = p[1].host /\ e.cancelled
    BY <1>1 DEF Pending
  <1>3. [p EXCEPT ![1].cancelled = TRUE] = q
    OBVIOUS
  <1> HIDE DEF e
  <1>4. /\ q \in Seq(Pending) /\ Len(q) = Len(p)
        /\ \A i \in 1..Len(p) : q[i] = IF i = 1 THEN e ELSE p[i]
    BY <1>1, <1>2
  <1> HIDE DEF q
  <1> QED BY <1>1, <1>2, <1>3, <1>4

(* cancel_lookup_request of the lookup of the hub: nothing is awaited by   *)
(* the hub any more, whether the record is marked or removed.              *)
LEMMA CancelledIsSound ==
    ASSUME NEW p, NEW lookup, ListSound(p, lookup)
    PROVE  ListSound(Cancelled(p, lookup), NoLookup)
  <1>1. /\ p \in Seq(Pending) /\ DistinctIds(p)
        /\ \A id \in LookupId : lookup = id <=> AwaitedByHub(p, id)
    BY DEF ListSound
  <1>2. \A i \in 1..Len(p) : p[i] \in Pending /\ p[i].id \in LookupId
    <2>1. \A i \in 1..Len(p) : p[i] \in Pending
      BY <1>1
    <2> QED BY <2>1 DEF Pending
  <1>3. CASE lookup \notin Ids(p)
    <2>1. \A i \in 1..Len(p) : ~(p[i].callback = "hub" /\ ~p[i].cancelled)
      BY <1>1, <1>2, <1>3 DEF Ids, AwaitedByHub
    <2> QED BY <1>1, <1>3, <2>1, HubAssumption DEF Cancelled, ListSound, AwaitedByHub
  <1>4. CASE lookup \in Ids(p)
    <2> DEFINE c == CHOOSE i \in 1..Len(p) : p[i].id = lookup
    <2>1. c \in 1..Len(p) /\ p[c].id = lookup
      BY <1>4 DEF Ids
    <2>2. \A i \in 1..Len(p) : i # c => ~(p[i].callback = "hub" /\ ~p[i].cancelled)
      BY <1>1, <1>2, <2>1 DEF AwaitedByHub, DistinctIds
    <2>3. Cancelled(p, lookup) =
            IF c = 1 THEN [p EXCEPT ![1].cancelled = TRUE] ELSE RemoveAt(p, c)
      BY <1>4 DEF Cancelled
    <2> HIDE DEF c
    <2>4. CASE c = 1
      <3> DEFINE q == [p EXCEPT ![1].cancelled = TRUE]
      <3>1. /\ q \in Seq(Pending) /\ Len(q) = Len(p)
            /\ \A i \in 1..Len(p) : q[i].id = p[i].id /\ q[i].host = p[i].host
            /\ \A i \in 1..Len(p) : i # 1 => q[i] = p[i]
            /\ q[1].cancelled
        BY <1>1, <2>1, <2>4, MarkedIsPending
      <3> HIDE DEF q
      <3>5. DistinctIds(q)
        BY <1>1, <3>1 DEF DistinctIds
      <3>6. \A id \in LookupId : ~AwaitedByHub(q, id)
        BY <2>2, <2>4, <3>1 DEF AwaitedByHub
      <3>7. Cancelled(p, lookup) = q
        BY <2>3, <2>4 DEF q
      <3> QED BY <3>1, <3>5, <3>6, <3>7, HubAssumption DEF ListSound
    <2>5. CASE c # 1
      <3> DEFINE q == RemoveAt(p, c)
                 from(i) == IF i < c THEN i ELSE i + 1
      <3>1. /\ q \in Seq(Pending) /\ Len(q) = Len(p) - 1
            /\ \A i \in 1..Len(q) : q[i] = p[from(i)]
        BY <1>1, <2>1, RemoveAtProperties
      <3>2. \A i \in 1..Len(q) : from(i) \in 1..Len(p) /\ from(i) # c
        BY <1>1, <2>1, <3>1
      <3>3. \A i, j \in 1..Len(q) : from(i) = from(j) => i = j
        BY <1>1, <2>1, <3>1
      <3> HIDE DEF q, from
      <3>4. DistinctIds(q)
        BY <1>1, <3>1, <3>2, <3>3 DEF DistinctIds
      <3>5. \A id \in LookupId : ~AwaitedByHub(q, id)
        BY <2>2, <3>1, <3>2 DEF AwaitedByHub
      <3>6. Cancelled(p, lookup) = q
        BY <2>3, <2>5 DEF q
      <3> QED BY <3>1, <3>4, <3>5, <3>6, HubAssumption DEF ListSound
    <2> QED BY <2>4, <2>5
  <1> QED BY <1>3, <1>4

(* A list in which a lookup is cancelled is no longer than it was, and has *)
(* the same hosts if it is as long: only the first lookup is ever marked.  *)
LEMMA CancelledIsNoLonger ==
    ASSUME NEW p \in Seq(Pending), NEW lookup
    PROVE  NoLonger(p, Cancelled(p, lookup))
  <1>1. CASE lookup \notin Ids(p)
    BY <1>1 DEF Cancelled, NoLonger
  <1>2. CASE lookup \in Ids(p)
    <2> DEFINE c == CHOOSE i \in 1..Len(p) : p[i].id = lookup
    <2>1. c \in 1..Len(p)
      BY <1>2 DEF Ids
    <2>2. Cancelled(p, lookup) =
            IF c = 1 THEN [p EXCEPT ![1].cancelled = TRUE] ELSE RemoveAt(p, c)
      BY <1>2 DEF Cancelled
    <2> HIDE DEF c
    <2>4. CASE c = 1
      <3> DEFINE q == [p EXCEPT ![1].cancelled = TRUE]
      <3>1. /\ q \in Seq(Pending) /\ Len(q) = Len(p)
            /\ \A i \in 1..Len(p) : q[i].host = p[i].host
        BY <2>1, <2>4, MarkedIsPending
      <3> QED BY <2>2, <2>4, <3>1 DEF NoLonger
    <2>5. CASE c # 1
      <3>1. RemoveAt(p, c) \in Seq(Pending) /\ Len(RemoveAt(p, c)) = Len(p) - 1
        BY <2>1, RemoveAtProperties
      <3> QED BY <2>2, <2>5, <3>1 DEF NoLonger
    <2> QED BY <2>4, <2>5
  <1> QED BY <1>1, <1>2

(* add_lookup_request: the list stays sound when the new lookup is one of  *)
(* the lookup command, or becomes hub_lookup, which pointed to none.       *)
LEMMA AddedIsSound ==
    ASSUME NEW p, NEW lookup, ListSound(p, lookup),
           NEW id \in LookupId, id \notin Ids(p), NEW h \in Host, NEW cb \in Callback
    PROVE  LET q == Append(p, [id |-> id, host |-> h, callback |-> cb, cancelled |-> FALSE])
           IN  /\ q \in Seq(Pending)
               /\ cb = "command" => ListSound(q, lookup)
               /\ cb = "hub" /\ lookup = NoLookup => ListSound(q, id)
  <1> DEFINE e == [id |-> id, host |-> h, callback |-> cb, cancelled |-> FALSE]
             q == Append(p, e)
  <1>1. /\ p \in Seq(Pending) /\ DistinctIds(p)
        /\ \A l \in LookupId : lookup = l <=> AwaitedByHub(p, l)
        /\ lookup \in LookupId \cup {NoLookup}
    BY DEF ListSound
  <1>2. /\ e \in Pending
        /\ e.id = id /\ e.callback = cb /\ ~e.cancelled
    BY DEF Pending
  <1> HIDE DEF e
  <1>3. /\ q \in Seq(Pending) /\ Len(q) = Len(p) + 1
        /\ \A i \in 1..Len(p) : q[i] = p[i]
        /\ q[Len(p) + 1] = e
    BY <1>1, <1>2, AppendProperties
  <1> HIDE DEF q
  <1>4. \A i \in 1..Len(p) : p[i].id # id
    BY DEF Ids
  <1>5. Len(p) \in Nat
    BY <1>1
  <1>6. DistinctIds(q)
    <2> SUFFICES ASSUME NEW i \in 1..Len(q), NEW j \in 1..Len(q), q[i].id = q[j].id
                 PROVE  i = j
      BY DEF DistinctIds
    <2>1. CASE i \in 1..Len(p) /\ j \in 1..Len(p)
      BY <2>1, <1>1, <1>3 DEF DistinctIds
    <2>2. CASE i = Len(p) + 1 \/ j = Len(p) + 1
      BY <2>2, <1>2, <1>3, <1>4, <1>5
    <2> QED BY <2>1, <2>2, <1>3, <1>5
  <1>7. \A l \in LookupId :
            AwaitedByHub(q, l) <=> AwaitedByHub(p, l) \/ (l = id /\ cb = "hub")
    <2> SUFFICES ASSUME NEW l \in LookupId
                 PROVE  AwaitedByHub(q, l) <=> AwaitedByHub(p, l) \/ (l = id /\ cb = "hub")
      OBVIOUS
    <2>1. ASSUME AwaitedByHub(q, l)
          PROVE  AwaitedByHub(p, l) \/ (l = id /\ cb = "hub")
      <3>1. PICK i \in 1..Len(q) : q[i].id = l /\ q[i].callback = "hub" /\ ~q[i].cancelled
        BY <2>1 DEF AwaitedByHub
      <3>2. CASE i \in 1..Len(p)
        BY <3>1, <3>2, <1>3 DEF AwaitedByHub
      <3>3. CASE i = Len(p) + 1
        BY <3>1, <3>3, <1>2, <1>3
      <3> QED BY <3>2, <3>3, <1>3, <1>5
    <2>2. ASSUME AwaitedByHub(p, l)
          PROVE  AwaitedByHub(q, l)
      <3>1. PICK i \in 1..Len(p) : p[i].id = l /\ p[i].callback = "hub" /\ ~p[i].cancelled
        BY <2>2 DEF AwaitedByHub
      <3>2. i \in 1..Len(q) /\ q[i] = p[i]
        BY <1>3, <1>5
      <3> QED BY <3>1, <3>2 DEF AwaitedByHub
    <2>3. ASSUME l = id, cb = "hub"
          PROVE  AwaitedByHub(q, l)
      <3>1. Len(p) + 1 \in 1..Len(q)
        BY <1>3, <1>5
      <3> QED BY <2>3, <3>1, <1>2, <1>3 DEF AwaitedByHub
    <2> QED BY <2>1, <2>2, <2>3
  <1>8. cb = "command" => ListSound(q, lookup)
    BY <1>1, <1>3, <1>6, <1>7 DEF ListSound
  <1>9. cb = "hub" /\ lookup = NoLookup => ListSound(q, id)
    BY <1>1, <1>3, <1>6, <1>7, HubAssumption DEF ListSound
  <1> QED BY <1>3, <1>8, <1>9 DEF q, e

(* A result is taken from the list: only if it is one the hub waits for,   *)
(* it is that of hub_lookup, and then none is awaited any more.            *)
LEMMA TakenIsSound ==
    ASSUME NEW p, NEW lookup, ListSound(p, lookup), p # <<>>
    PROVE  /\ Tail(p) \in Seq(Pending)
           /\ Head(p).cancelled \/ Head(p).callback = "command" => ListSound(Tail(p), lookup)
           /\ ~Head(p).cancelled /\ Head(p).callback = "hub"
                  => lookup # NoLookup /\ ListSound(Tail(p), NoLookup)
  <1> DEFINE q == Tail(p)
  <1>1. /\ p \in Seq(Pending) /\ DistinctIds(p)
        /\ \A l \in LookupId : lookup = l <=> AwaitedByHub(p, l)
        /\ lookup \in LookupId \cup {NoLookup}
    BY DEF ListSound
  <1>2. /\ q \in Seq(Pending) /\ Len(q) = Len(p) - 1
        /\ \A i \in 1..Len(q) : q[i] = p[i + 1]
        /\ Head(p) = p[1] /\ Len(p) \in Nat /\ Len(p) >= 1
    BY <1>1, HeadTailProperties
  <1> HIDE DEF q
  <1>3. p[1] \in Pending
    BY <1>1, <1>2
  <1>4. p[1].id \in LookupId
    BY <1>3 DEF Pending
  <1>5. DistinctIds(q)
    <2> SUFFICES ASSUME NEW i \in 1..Len(q), NEW j \in 1..Len(q), q[i].id = q[j].id
                 PROVE  i = j
      BY DEF DistinctIds
    <2>1. i + 1 \in 1..Len(p) /\ j + 1 \in 1..Len(p) /\ p[i + 1].id = p[j + 1].id
      BY <1>2
    <2>2. i + 1 = j + 1
      BY <2>1, <1>1 DEF DistinctIds
    <2> QED BY <2>2
  <1>6. \A l : AwaitedByHub(p, l) <=>
            \/ AwaitedByHub(q, l)
            \/ p[1].id = l /\ p[1].callback = "hub" /\ ~p[1].cancelled
    <2> SUFFICES ASSUME NEW l
                 PROVE  AwaitedByHub(p, l) <=>
                          \/ AwaitedByHub(q, l)
                          \/ p[1].id = l /\ p[1].callback = "hub" /\ ~p[1].cancelled
      OBVIOUS
    <2>1. ASSUME AwaitedByHub(q, l) PROVE AwaitedByHub(p, l)
      <3>1. PICK i \in 1..Len(q) : q[i].id = l /\ q[i].callback = "hub" /\ ~q[i].cancelled
        BY <2>1 DEF AwaitedByHub
      <3>2. i + 1 \in 1..Len(p) /\ q[i] = p[i + 1]
        BY <1>2
      <3> QED BY <3>1, <3>2 DEF AwaitedByHub
    <2>2. ASSUME p[1].id = l, p[1].callback = "hub", ~p[1].cancelled PROVE AwaitedByHub(p, l)
      <3>1. 1 \in 1..Len(p)
        BY <1>2
      <3> QED BY <2>2, <3>1 DEF AwaitedByHub
    <2>3. ASSUME AwaitedByHub(p, l), ~AwaitedByHub(q, l)
          PROVE  p[1].id = l /\ p[1].callback = "hub" /\ ~p[1].cancelled
      <3>1. PICK i \in 1..Len(p) : p[i].id = l /\ p[i].callback = "hub" /\ ~p[i].cancelled
        BY <2>3 DEF AwaitedByHub
      <3>2. CASE i = 1
        BY <3>1, <3>2
      <3>3. CASE i # 1
        <4>1. i - 1 \in 1..Len(q) /\ (i - 1) + 1 = i
          BY <3>3, <1>2
        <4>2. q[i - 1] = p[i]
          BY <4>1, <1>2
        <4> QED BY <3>1, <4>1, <4>2, <2>3 DEF AwaitedByHub
      <3> QED BY <3>2, <3>3
    <2> QED BY <2>1, <2>2, <2>3
  <1>7. ASSUME p[1].cancelled \/ p[1].callback = "command"
        PROVE  ListSound(q, lookup)
    BY <1>1, <1>2, <1>5, <1>6, <1>7 DEF ListSound
  <1>8. ASSUME ~p[1].cancelled, p[1].callback = "hub"
        PROVE  lookup # NoLookup /\ ListSound(q, NoLookup)
    <2>1. lookup = p[1].id
      BY <1>1, <1>4, <1>6, <1>8
    <2>2. ~AwaitedByHub(q, p[1].id)
      <3> SUFFICES ASSUME NEW i \in 1..Len(q), q[i].id = p[1].id
                   PROVE  FALSE
        BY DEF AwaitedByHub
      <3>1. i + 1 \in 1..Len(p) /\ 1 \in 1..Len(p) /\ p[i + 1].id = p[1].id
        BY <1>2
      <3>2. i + 1 = 1
        BY <3>1, <1>1 DEF DistinctIds
      <3> QED BY <3>2, <1>2
    <2>3. \A l \in LookupId : ~AwaitedByHub(q, l)
      BY <1>1, <1>6, <2>1, <2>2
    <2> QED BY <1>2, <1>4, <1>5, <2>1, <2>3, HubAssumption DEF ListSound
  <1> QED BY <1>2, <1>7, <1>8 DEF q

-----------------------------------------------------------------------------
(* The parts of the steps *)

(* hub_disconnect leaves no socket and no lookup, whatever there was.      *)
LEMMA DisconnectIsSound ==
    ASSUME NEW p, NEW lookup, ListSound(p, lookup), Disconnect(p, lookup)
    PROVE  /\ ListSound(pending', hub_lookup')
           /\ SocketMatchesState' /\ LookupMatchesState'
           /\ hub_state' = "DISCONNECTED" /\ hub_socket' = "closed"
           /\ hub_hostname' = NoHost /\ idle' = 0
  <1>1. ListSound(Cancelled(p, lookup), NoLookup)
    BY CancelledIsSound
  <1> QED BY <1>1 DEF Disconnect, SocketMatchesState, LookupMatchesState

(* hub_connect, called when no name is looked up for the hub.              *)
LEMMA HubConnectIsSound ==
    ASSUME NEW addr \in Host \cup Address \cup {NoHost}, NEW p, ListSound(p, NoLookup),
           NEW hostname \in Host \cup {NoHost},
           TypeOK, HubConnect(addr, p, NoLookup, hostname)
    PROVE  /\ ListSound(pending', hub_lookup')
           /\ SocketMatchesState' /\ LookupMatchesState'
           /\ hub_state' \in HubState /\ hub_socket' \in {"open", "closed"}
           /\ hub_addr' \in Host \cup Address \cup {NoHost}
           /\ hub_hostname' \in Host \cup {NoHost}
           /\ idle' \in 0..2
  <1>1. CASE Disconnect(p, NoLookup) /\ UNCHANGED hub_addr
    BY <1>1, DisconnectIsSound DEF TypeOK, HubState
  <1>2. CASE hub_socket' = "open"
    BY <1>1, <1>2 DEF HubConnect, TypeOK, SocketMatchesState, LookupMatchesState, HubState
  <1> QED BY <1>1, <1>2 DEF HubConnect

(* The rest of a state, when its list and its socket are sound.            *)
LEMMA InvParts ==
    ASSUME ListSound(pending', hub_lookup'), SocketMatchesState', LookupMatchesState',
           hub_state' \in HubState, hub_socket' \in {"open", "closed"},
           hub_addr' \in Host \cup Address \cup {NoHost},
           hub_hostname' \in Host \cup {NoHost}, idle' \in 0..2,
           hub_connected' \in BOOLEAN, auto_reconnect' \in BOOLEAN,
           requests' \in Seq(Host), results' \in Seq(Result), crashed' \in BOOLEAN
    PROVE  Inv'
  <1>1. pending' \in Seq(Pending) /\ hub_lookup' \in LookupId \cup {NoLookup}
    BY DEF ListSound
  <1>2. TypeOK'
    BY <1>1 DEF TypeOK, LookupTypeOK
  <1> QED BY <1>2 DEF Inv

LEMMA HubDisconnectIsSound ==
    ASSUME Inv, HubDisconnect
    PROVE  Inv'
  <1>1. ListSound(pending, hub_lookup)
    BY DEF Inv
  <1>2. /\ ListSound(pending', hub_lookup')
        /\ SocketMatchesState' /\ LookupMatchesState'
        /\ hub_state' = "DISCONNECTED" /\ hub_socket' = "closed"
        /\ hub_hostname' = NoHost /\ idle' = 0
    BY <1>1, DisconnectIsSound DEF HubDisconnect
  <1>3. TypeOK
    BY DEF Inv
  <1> QED BY <1>2, <1>3, InvParts DEF HubDisconnect, TypeOK, LookupTypeOK, HubState

LEMMA ProceedIsSound ==
    ASSUME Inv, NEW s \in Online, Proceed(s), hub_state \in Online \cup {"CONNECT"}
    PROVE  Inv'
  <1>1. TypeOK /\ ListSound(pending, hub_lookup) /\ SocketMatchesState /\ LookupMatchesState
    BY DEF Inv
  <1>2. ListSound(pending', hub_lookup')
    BY <1>1 DEF Proceed, lookupVars
  <1>3. SocketMatchesState' /\ LookupMatchesState'
    BY <1>1 DEF Proceed, SocketMatchesState, LookupMatchesState, Online
  <1> QED BY <1>1, <1>2, <1>3, InvParts
          DEF Proceed, lookupVars, TypeOK, LookupTypeOK, HubState, Online

(* A request that is written to the pipe.                                  *)
LEMMA AddLookupTypes ==
    ASSUME Inv, NEW id, NEW h \in Host, NEW cb, AddLookupRequest(id, h, cb)
    PROVE  requests' \in Seq(Host) /\ results' \in Seq(Result) /\ crashed' \in BOOLEAN
  BY AppendProperties DEF Inv, TypeOK, LookupTypeOK, AddLookupRequest

(* hub_new is only called while there is no connection: the lookup it      *)
(* adds is the only one the hub waits for.                                 *)
LEMMA HubNewIsSound ==
    ASSUME Inv, hub_state = "DISCONNECTED", NEW h \in Host \cup Address, HubNew(h),
           UNCHANGED auto_reconnect
    PROVE  Inv'
  <1>1. TypeOK /\ ListSound(pending, hub_lookup) /\ SocketMatchesState /\ LookupMatchesState
    BY DEF Inv
  <1>2. hub_lookup = NoLookup
    BY <1>1 DEF LookupMatchesState
  <1>3. CASE /\ h \in Address
             /\ hub_connected' = TRUE
             /\ HubConnect(h, pending, hub_lookup, hub_hostname)
             /\ UNCHANGED <<requests, results, crashed>>
    <2>1. /\ ListSound(pending', hub_lookup')
          /\ SocketMatchesState' /\ LookupMatchesState'
          /\ hub_state' \in HubState /\ hub_socket' \in {"open", "closed"}
          /\ hub_addr' \in Host \cup Address \cup {NoHost}
          /\ hub_hostname' \in Host \cup {NoHost}
          /\ idle' \in 0..2
      <3>1. HubConnect(h, pending, NoLookup, hub_hostname) /\ ListSound(pending, NoLookup)
        BY <1>1, <1>2, <1>3
      <3>2. hub_hostname \in Host \cup {NoHost}
        BY <1>1 DEF TypeOK
      <3> QED BY <1>1, <3>1, <3>2, HubConnectIsSound
    <2> QED BY <1>1, <1>3, <2>1, InvParts DEF TypeOK, LookupTypeOK
  <1>4. CASE /\ h \in Host
             /\ hub_hostname' = h
             /\ \E id \in LookupId : AddLookupRequest(id, h, "hub") /\ hub_lookup' = id
             /\ hub_state' = "LOOKUP"
             /\ UNCHANGED <<hub_socket, hub_addr, hub_connected, idle>>
    <2>1. PICK id \in LookupId : AddLookupRequest(id, h, "hub") /\ hub_lookup' = id
      BY <1>4
    <2>2. ListSound(pending', hub_lookup')
      BY <1>1, <1>2, <1>4, <2>1, AddedIsSound DEF AddLookupRequest, Callback
    <2>3. requests' \in Seq(Host) /\ results' \in Seq(Result) /\ crashed' \in BOOLEAN
      BY <1>4, <2>1, AddLookupTypes
    <2>4. SocketMatchesState' /\ LookupMatchesState'
      BY <1>1, <1>4 DEF SocketMatchesState, LookupMatchesState
    <2> QED BY <1>1, <1>4, <2>2, <2>3, <2>4, InvParts DEF TypeOK, HubState
  <1> QED BY <1>3, <1>4 DEF HubNew

-----------------------------------------------------------------------------
(* The steps *)

LEMMA InitInv == Init => Inv
  <1> SUFFICES ASSUME Init
               PROVE  Inv
    OBVIOUS
  <1>1. pending = <<>> /\ <<>> \in Seq(Pending) /\ Len(pending) = 0
    BY EmptySeq DEF Init, InitLookup
  <1>2. ListSound(pending, hub_lookup)
    <2>1. DistinctIds(pending) /\ \A id \in LookupId : ~AwaitedByHub(pending, id)
      BY <1>1 DEF DistinctIds, AwaitedByHub
    <2> QED BY <1>1, <2>1, HubAssumption DEF Init, ListSound
  <1>3. TypeOK
    <2>1. LookupTypeOK
      BY <1>1, EmptySeq DEF Init, InitLookup, LookupTypeOK
    <2> QED BY <2>1 DEF Init, TypeOK, HubState
  <1> QED BY <1>2, <1>3 DEF Init, Inv, SocketMatchesState, LookupMatchesState

LEMMA CmdDisconnectStep ==
    ASSUME Inv, CmdDisconnect
    PROVE  Inv'
  <1>1. TypeOK /\ ListSound(pending, hub_lookup)
    BY DEF Inv
  <1>2. /\ ListSound(pending', hub_lookup')
        /\ SocketMatchesState' /\ LookupMatchesState'
        /\ hub_state' = "DISCONNECTED" /\ hub_socket' = "closed"
        /\ hub_hostname' = NoHost /\ idle' = 0
    BY <1>1, DisconnectIsSound DEF CmdDisconnect
  <1>3. /\ hub_addr' \in Host \cup Address \cup {NoHost}
        /\ hub_connected' \in BOOLEAN /\ auto_reconnect' \in BOOLEAN
        /\ requests' \in Seq(Host) /\ results' \in Seq(Result) /\ crashed' \in BOOLEAN
    BY <1>1 DEF CmdDisconnect, TypeOK, LookupTypeOK
  <1> QED BY <1>2, <1>3, InvParts DEF HubState

LEMMA CmdLookupStep ==
    ASSUME Inv, NEW h \in Host, CmdLookup(h)
    PROVE  Inv'
  <1>1. TypeOK /\ ListSound(pending, hub_lookup) /\ SocketMatchesState /\ LookupMatchesState
    BY DEF Inv
  <1>2. PICK id \in LookupId : AddLookupRequest(id, h, "command")
    BY DEF CmdLookup
  <1>3. ListSound(pending', hub_lookup')
    <2>1. ListSound(pending', hub_lookup)
      BY <1>1, <1>2, AddedIsSound DEF AddLookupRequest, Callback
    <2> QED BY <2>1 DEF CmdLookup, hubVars
  <1>4. requests' \in Seq(Host) /\ results' \in Seq(Result) /\ crashed' \in BOOLEAN
    BY <1>2, AddLookupTypes
  <1>5. SocketMatchesState' /\ LookupMatchesState'
    BY <1>1 DEF CmdLookup, hubVars, SocketMatchesState, LookupMatchesState
  <1> QED BY <1>1, <1>3, <1>4, <1>5, InvParts DEF CmdLookup, hubVars, TypeOK

(* set hub_charset: hub_disconnect, and hub_connect to the same address.   *)
LEMMA SetHubCharsetStep ==
    ASSUME Inv, SetHubCharset
    PROVE  Inv'
  <1>1. TypeOK /\ ListSound(pending, hub_lookup)
    BY DEF Inv
  <1>2. ListSound(Cancelled(pending, hub_lookup), NoLookup)
    BY <1>1, CancelledIsSound
  <1>3. /\ ListSound(pending', hub_lookup')
        /\ SocketMatchesState' /\ LookupMatchesState'
        /\ hub_state' \in HubState /\ hub_socket' \in {"open", "closed"}
        /\ hub_addr' \in Host \cup Address \cup {NoHost}
        /\ hub_hostname' \in Host \cup {NoHost}
        /\ idle' \in 0..2
    <2>1. hub_addr \in Host \cup Address \cup {NoHost} /\ NoHost \in Host \cup {NoHost}
      BY <1>1 DEF TypeOK
    <2>2. HubConnect(hub_addr, Cancelled(pending, hub_lookup), NoLookup, NoHost)
      BY DEF SetHubCharset
    <2> QED BY <1>1, <1>2, <2>1, <2>2, HubConnectIsSound
  <1> QED BY <1>1, <1>3, InvParts DEF SetHubCharset, TypeOK, LookupTypeOK

(* check_hub_activity connects again as hub_new does, or to the address.   *)
LEMMA AutoReconnectStep ==
    ASSUME Inv, AutoReconnect
    PROVE  Inv'
  <1>1. TypeOK /\ ListSound(pending, hub_lookup) /\ LookupMatchesState
    BY DEF Inv
  <1>2. hub_state = "DISCONNECTED" /\ hub_lookup = NoLookup /\ UNCHANGED auto_reconnect
    BY <1>1 DEF AutoReconnect, LookupMatchesState
  <1>3. CASE hub_hostname # NoHost
    <2>1. hub_hostname \in Host \cup Address /\ HubNew(hub_hostname)
      BY <1>1, <1>3 DEF AutoReconnect, TypeOK
    <2> QED BY <1>2, <2>1, HubNewIsSound
  <1>4. CASE hub_hostname = NoHost
    <2>1. /\ HubConnect(hub_addr, pending, NoLookup, NoHost)
          /\ UNCHANGED <<requests, results, crashed, hub_connected>>
      BY <1>2, <1>4 DEF AutoReconnect
    <2>2. hub_addr \in Host \cup Address \cup {NoHost} /\ NoHost \in Host \cup {NoHost}
      BY <1>1 DEF TypeOK
    <2>3. /\ ListSound(pending', hub_lookup')
          /\ SocketMatchesState' /\ LookupMatchesState'
          /\ hub_state' \in HubState /\ hub_socket' \in {"open", "closed"}
          /\ hub_addr' \in Host \cup Address \cup {NoHost}
          /\ hub_hostname' \in Host \cup {NoHost}
          /\ idle' \in 0..2
      BY <1>1, <1>2, <2>1, <2>2, HubConnectIsSound
    <2> QED BY <1>1, <1>2, <2>1, <2>3, InvParts DEF TypeOK, LookupTypeOK
  <1> QED BY <1>3, <1>4

(* A result that is taken leaves the pipes as they should be.              *)
LEMMA TakeResultTypes ==
    ASSUME TypeOK, TakeResult
    PROVE  requests' \in Seq(Host) /\ results' \in Seq(Result) /\ Head(results).host \in Host
  <1>1. /\ results \in Seq(Result) /\ results # <<>> /\ results' = Tail(results)
        /\ requests \in Seq(Host) /\ requests' = requests
    BY DEF TypeOK, LookupTypeOK, TakeResult
  <1>2. Head(results) \in Result /\ Tail(results) \in Seq(Result)
    BY <1>1, HeadTailProperties
  <1> QED BY <1>1, <1>2 DEF Result

(* hub_address_looked_up is called while the hub is looked up, so there is *)
(* no socket that hub_connect would lose.                                  *)
LEMMA LookedUpInLookup ==
    ASSUME Inv, ResultForHub
    PROVE  /\ hub_lookup # NoLookup /\ hub_state = "LOOKUP" /\ hub_socket = "closed"
           /\ ListSound(Tail(pending), NoLookup)
  <1>1. TypeOK /\ ListSound(pending, hub_lookup) /\ SocketMatchesState /\ LookupMatchesState
    BY DEF Inv
  <1>2. hub_lookup # NoLookup /\ ListSound(Tail(pending), NoLookup)
    BY <1>1, TakenIsSound DEF ResultForHub
  <1> QED BY <1>1, <1>2 DEF SocketMatchesState, LookupMatchesState, TypeOK

LEMMA HubAddressLookedUpStep ==
    ASSUME Inv, HubAddressLookedUp
    PROVE  Inv'
  <1>1. TypeOK /\ ListSound(pending, hub_lookup) /\ SocketMatchesState /\ LookupMatchesState
    BY DEF Inv
  <1>2. ResultForHub /\ TakeResult /\ UNCHANGED <<crashed, auto_reconnect>>
    BY DEF HubAddressLookedUp, ResultForHub
  <1>3. requests' \in Seq(Host) /\ results' \in Seq(Result) /\ Head(results).host \in Host
    BY <1>1, <1>2, TakeResultTypes
  <1>4. hub_state = "LOOKUP" /\ hub_socket = "closed" /\ ListSound(Tail(pending), NoLookup)
    BY <1>2, LookedUpInLookup
  <1>5. CASE /\ hub_lookup' = NoLookup
             /\ pending' = Tail(pending)
             /\ UNCHANGED <<hub_state, hub_socket, hub_addr, hub_hostname, hub_connected, idle>>
    <2>1. SocketMatchesState' /\ LookupMatchesState'
      BY <1>1, <1>5 DEF SocketMatchesState, LookupMatchesState
    <2> QED BY <1>1, <1>2, <1>3, <1>4, <1>5, <2>1, InvParts DEF TypeOK, LookupTypeOK
  <1>6. CASE /\ hub_connected' = TRUE
             /\ HubConnect(Head(results).host, Tail(pending), NoLookup, hub_hostname)
    <2>1. Head(results).host \in Host \cup Address \cup {NoHost}
      BY <1>3
    <2>2. hub_hostname \in Host \cup {NoHost}
      BY <1>1 DEF TypeOK
    <2>3. /\ ListSound(pending', hub_lookup')
          /\ SocketMatchesState' /\ LookupMatchesState'
          /\ hub_state' \in HubState /\ hub_socket' \in {"open", "closed"}
          /\ hub_addr' \in Host \cup Address \cup {NoHost}
          /\ hub_hostname' \in Host \cup {NoHost}
          /\ idle' \in 0..2
      BY <1>1, <1>4, <1>6, <2>1, <2>2, HubConnectIsSound
    <2> QED BY <1>1, <1>2, <1>3, <1>6, <2>3, InvParts DEF TypeOK, LookupTypeOK
  <1> QED BY <1>5, <1>6 DEF HubAddressLookedUp

(* A result for the lookup command, for a lookup that was cancelled, or    *)
(* for nobody.                                                             *)
LEMMA OtherResultStep ==
    ASSUME Inv, OtherResult
    PROVE  Inv'
  <1>1. TypeOK /\ ListSound(pending, hub_lookup) /\ SocketMatchesState /\ LookupMatchesState
    BY DEF Inv
  <1>2. TakeResult /\ UNCHANGED hubVars
    BY DEF OtherResult, ResultForNobody, ResultIgnored
  <1>3. requests' \in Seq(Host) /\ results' \in Seq(Result)
    BY <1>1, <1>2, TakeResultTypes
  <1>4. ListSound(pending', hub_lookup') /\ crashed' \in BOOLEAN
    <2>1. CASE ResultForNobody
      BY <1>1, <1>2, <2>1 DEF ResultForNobody, hubVars
    <2>2. CASE ResultIgnored
      BY <1>1, <1>2, <2>2, TakenIsSound DEF ResultIgnored, hubVars, TypeOK, LookupTypeOK
    <2> QED BY <2>1, <2>2 DEF OtherResult
  <1>5. SocketMatchesState' /\ LookupMatchesState'
    BY <1>1, <1>2 DEF hubVars, SocketMatchesState, LookupMatchesState
  <1> QED BY <1>1, <1>2, <1>3, <1>4, <1>5, InvParts DEF hubVars, TypeOK

LEMMA LookupChildStep ==
    ASSUME Inv, LookupChild
    PROVE  Inv'
  <1>1. TypeOK /\ ListSound(pending, hub_lookup) /\ SocketMatchesState /\ LookupMatchesState
    BY DEF Inv
  <1>2. requests' \in Seq(Host) /\ results' \in Seq(Result)
    <2>1. requests \in Seq(Host) /\ requests # <<>> /\ results \in Seq(Result)
      BY <1>1 DEF TypeOK, LookupTypeOK, LookupChild, LookupMain
    <2>2. PICK ok \in BOOLEAN : results' = Append(results, [host |-> Head(requests), ok |-> ok])
      BY DEF LookupChild, LookupMain
    <2>3. Head(requests) \in Host /\ Tail(requests) \in Seq(Host)
      BY <2>1, HeadTailProperties
    <2>4. [host |-> Head(requests), ok |-> ok] \in Result
      BY <2>3 DEF Result
    <2> QED BY <2>1, <2>2, <2>3, <2>4, AppendProperties DEF LookupChild, LookupMain
  <1>3. ListSound(pending', hub_lookup') /\ SocketMatchesState' /\ LookupMatchesState'
    BY <1>1 DEF LookupChild, LookupMain, hubVars, SocketMatchesState, LookupMatchesState
  <1> QED BY <1>1, <1>2, <1>3, InvParts
          DEF LookupChild, LookupMain, hubVars, TypeOK, LookupTypeOK

LEMMA NextInv == Inv /\ [Next]_vars => Inv'
  <1> SUFFICES ASSUME Inv, [Next]_vars
               PROVE  Inv'
    OBVIOUS
  <1>0. TypeOK /\ ListSound(pending, hub_lookup) /\ SocketMatchesState /\ LookupMatchesState
    BY DEF Inv
  <1>1. ASSUME NEW h \in Host \cup Address, CmdConnect(h) PROVE Inv'
    BY <1>1, HubNewIsSound DEF CmdConnect
  <1>2. CASE CmdDisconnect
    BY <1>2, CmdDisconnectStep
  <1>3. ASSUME NEW h \in Host, CmdLookup(h) PROVE Inv'
    BY <1>3, CmdLookupStep
  <1>4. ASSUME NEW b \in BOOLEAN, SetAutoReconnect(b) PROVE Inv'
    BY <1>0, <1>4, InvParts DEF SetAutoReconnect, lookupVars, TypeOK, LookupTypeOK,
                                SocketMatchesState, LookupMatchesState
  <1>5. CASE SetHubCharset
    BY <1>5, SetHubCharsetStep
  <1>6. CASE HubNowWritable
    BY <1>6, HubDisconnectIsSound, ProceedIsSound DEF HubNowWritable, Online
  <1>7. CASE HubClosed \/ HandleRefused
    BY <1>7, HubDisconnectIsSound DEF HubClosed, HandleRefused
  <1>8. CASE HandleLock
    BY <1>8, HubDisconnectIsSound, ProceedIsSound DEF HandleLock, Online
  <1>9. CASE HandleHello
    BY <1>9, HubDisconnectIsSound, ProceedIsSound DEF HandleHello, Online
  <1>10. CASE HandleOther
    BY <1>10, ProceedIsSound DEF HandleOther
  <1>11. CASE KeepAlive
    BY <1>11, HubDisconnectIsSound, ProceedIsSound DEF KeepAlive, Online
  <1>12. CASE AutoReconnect
    BY <1>12, AutoReconnectStep
  <1>13. CASE HubAddressLookedUp
    BY <1>13, HubAddressLookedUpStep
  <1>14. CASE OtherResult
    BY <1>14, OtherResultStep
  <1>15. CASE LookupChild
    BY <1>15, LookupChildStep
  <1>16. CASE Tick
    <2>1. idle' \in 0..2
      BY <1>0, <1>16 DEF Tick, TypeOK
    <2> QED BY <1>0, <1>16, <2>1, InvParts DEF Tick, lookupVars, TypeOK, LookupTypeOK,
                                               SocketMatchesState, LookupMatchesState
  <1>17. CASE UNCHANGED vars
    BY <1>0, <1>17, InvParts DEF vars, hubVars, lookupVars, TypeOK, LookupTypeOK,
                                 SocketMatchesState, LookupMatchesState
  <1> QED BY <1>1, <1>2, <1>3, <1>4, <1>5, <1>6, <1>7, <1>8, <1>9, <1>10, <1>11, <1>12,
             <1>13, <1>14, <1>15, <1>16, <1>17 DEF Next

THEOREM InvHolds == Spec => []Inv
  <1>1. Init => Inv
    BY InitInv
  <1>2. Inv /\ [Next]_vars => Inv'
    BY NextInv
  <1> QED BY <1>1, <1>2, PTL DEF Spec

(* hub_lookup points to a record exactly while that record is in the list  *)
(* and will connect to the hub, and there is a socket exactly in the       *)
(* states that use one (hub.c:299, 341, 374).                              *)
THEOREM SessionIsSound == Spec => []SessionSound
  <1>1. Inv => SessionSound
    BY DEF Inv, SessionSound, HubLookupIsPending, ListSound, AwaitedByHub
  <1> QED BY <1>1, InvHolds, PTL

-----------------------------------------------------------------------------
(* What a step does with the connection *)

(* No connection is replaced by one to another hub before it is closed:    *)
(* hub_connect is only called while there is none (hub.c:341).             *)
NoSocketLost == hub_socket = "open" /\ hub_socket' = "open" => hub_addr' = hub_addr

(* A result changes the connection only while the hub is looked up: after  *)
(* disconnect, or once connected, one that arrives late does nothing       *)
(* (lookup.c:268, hub.c:299).                                              *)
ResultIsExpected ==
    results # <<>> /\ results' = Tail(results) /\ ~UNCHANGED hubVars
        => hub_state = "LOOKUP" /\ hub_lookup # NoLookup /\ hub_socket = "closed"

LEMMA StepKeepsSocket ==
    ASSUME Inv, [Next]_vars
    PROVE  NoSocketLost
  <1>1. hub_state = "DISCONNECTED" => hub_socket # "open"
    BY DEF Inv, SocketMatchesState
  <1>2. ASSUME NEW h \in Host \cup Address, CmdConnect(h) PROVE NoSocketLost
    BY <1>1, <1>2 DEF CmdConnect, NoSocketLost
  <1>3. CASE AutoReconnect
    BY <1>1, <1>3 DEF AutoReconnect, NoSocketLost
  <1>4. CASE HubAddressLookedUp
    <2>1. hub_socket = "closed"
      BY <1>4, LookedUpInLookup DEF HubAddressLookedUp
    <2> QED BY <2>1 DEF NoSocketLost
  <1>5. CASE SetHubCharset
    BY <1>5 DEF SetHubCharset, HubConnect, NoSocketLost
  <1>6. CASE UNCHANGED hub_addr
    BY <1>6 DEF NoSocketLost
  <1> QED
    BY <1>2, <1>3, <1>4, <1>5, <1>6
       DEF Next, vars, hubVars, CmdDisconnect, CmdLookup, SetAutoReconnect, HubNowWritable,
           HubClosed, HandleLock, HandleHello, HandleRefused, HandleOther, KeepAlive,
           OtherResult, LookupChild, Tick, HubDisconnect, Proceed

LEMMA StepTakesExpected ==
    ASSUME Inv, [Next]_vars
    PROVE  ResultIsExpected
  <1> SUFFICES ASSUME results # <<>>, results' = Tail(results), ~UNCHANGED hubVars
               PROVE  hub_state = "LOOKUP" /\ hub_lookup # NoLookup /\ hub_socket = "closed"
    BY DEF ResultIsExpected
  <1>1. results' # results
    <2>1. results \in Seq(Result)
      BY DEF Inv, TypeOK, LookupTypeOK
    <2> DEFINE n == Len(results)
    <2>2. Len(Tail(results)) = n - 1 /\ n \in Nat
      BY <2>1, HeadTailProperties, LenProperties
    <2> HIDE DEF n
    <2>3. n - 1 # n
      BY <2>2
    <2> QED BY <2>2, <2>3 DEF n
  <1>2. CASE HubAddressLookedUp
    BY <1>2, LookedUpInLookup DEF HubAddressLookedUp
  <1>3. CASE OtherResult \/ LookupChild \/ UNCHANGED vars
    BY <1>3 DEF OtherResult, LookupChild, vars
  <1>4. CASE UNCHANGED results
    BY <1>1, <1>4
  <1> QED
    BY <1>2, <1>3, <1>4
       DEF Next, lookupVars, CmdConnect, CmdDisconnect, CmdLookup, SetAutoReconnect,
           SetHubCharset, HubNowWritable, HubClosed, HandleLock, HandleHello, HandleRefused,
           HandleOther, KeepAlive, AutoReconnect, Tick, HubDisconnect, Proceed, HubNew,
           AddLookupRequest

(* The connection is neither lost to another one nor made by a result that *)
(* nobody waits for.                                                       *)
THEOREM ConnectionIsKept == Spec => [][NoSocketLost /\ ResultIsExpected]_vars
  <1>1. Inv /\ [Next]_vars => [NoSocketLost /\ ResultIsExpected]_vars
    BY StepKeepsSocket, StepTakesExpected
  <1> QED BY <1>1, InvHolds, PTL DEF Spec

-----------------------------------------------------------------------------
(* The order of the results *)

(* The lookups of the list p can be given the results for the hosts of w.  *)
InOrder(p, w) ==
    /\ Len(p) <= Len(w)
    /\ Len(p) = Len(w) => \A i \in 1..Len(p) : p[i].host = w[i]

(* The hosts of the results rs, followed by those of the requests rq.      *)
HostsOf(rs, rq) == [i \in 1..Len(rs) |-> rs[i].host] \o rq

LEMMA HostsOfProperties ==
    ASSUME NEW rs \in Seq(Result), NEW rq \in Seq(Host)
    PROVE  /\ HostsOf(rs, rq) \in Seq(Host)
           /\ Len(HostsOf(rs, rq)) = Len(rs) + Len(rq)
           /\ \A i \in 1..(Len(rs) + Len(rq)) :
                  HostsOf(rs, rq)[i] = IF i <= Len(rs) THEN rs[i].host ELSE rq[i - Len(rs)]
  <1> DEFINE hosts == [i \in 1..Len(rs) |-> rs[i].host]
  <1>1. \A i \in 1..Len(rs) : rs[i] \in Result
    OBVIOUS
  <1>2. \A i \in 1..Len(rs) : rs[i].host \in Host
    BY <1>1 DEF Result
  <1>3. /\ hosts \in Seq(Host) /\ Len(hosts) = Len(rs)
        /\ \A i \in 1..Len(rs) : hosts[i] = rs[i].host
    BY <1>2
  <1>4. HostsOf(rs, rq) = hosts \o rq
    BY DEF HostsOf
  <1> HIDE DEF hosts
  <1>5. /\ hosts \o rq \in Seq(Host)
        /\ Len(hosts \o rq) = Len(hosts) + Len(rq)
        /\ \A i \in 1..(Len(hosts) + Len(rq)) :
               (hosts \o rq)[i] = IF i <= Len(hosts) THEN hosts[i] ELSE rq[i - Len(hosts)]
    BY <1>3, ConcatProperties
  <1>6. Len(rs) \in Nat /\ Len(rq) \in Nat
    OBVIOUS
  <1> QED BY <1>3, <1>4, <1>5, <1>6

(* A new request comes behind all others.                                  *)
LEMMA HostsOfAdded ==
    ASSUME NEW rs \in Seq(Result), NEW rq \in Seq(Host), NEW h \in Host
    PROVE  HostsOf(rs, Append(rq, h)) = Append(HostsOf(rs, rq), h)
  <1> DEFINE w  == HostsOf(rs, rq)
             w2 == HostsOf(rs, Append(rq, h))
  <1>1. /\ Append(rq, h) \in Seq(Host) /\ Len(Append(rq, h)) = Len(rq) + 1
        /\ \A i \in 1..Len(rq) : Append(rq, h)[i] = rq[i]
        /\ Append(rq, h)[Len(rq) + 1] = h
    BY AppendProperties
  <1>2. /\ w \in Seq(Host) /\ Len(w) = Len(rs) + Len(rq)
        /\ \A i \in 1..(Len(rs) + Len(rq)) :
               w[i] = IF i <= Len(rs) THEN rs[i].host ELSE rq[i - Len(rs)]
    BY HostsOfProperties
  <1>3. /\ w2 \in Seq(Host) /\ Len(w2) = Len(rs) + Len(Append(rq, h))
        /\ \A i \in 1..(Len(rs) + Len(Append(rq, h))) :
               w2[i] = IF i <= Len(rs) THEN rs[i].host ELSE Append(rq, h)[i - Len(rs)]
    BY <1>1, HostsOfProperties
  <1> HIDE DEF w, w2
  <1>4. /\ Append(w, h) \in Seq(Host) /\ Len(Append(w, h)) = Len(w) + 1
        /\ \A i \in 1..Len(w) : Append(w, h)[i] = w[i]
        /\ Append(w, h)[Len(w) + 1] = h
    <2>1. w \in Seq(Host)
      BY <1>2
    <2> QED BY <2>1, AppendProperties
  <1>5. Len(rs) \in Nat /\ Len(rq) \in Nat
    OBVIOUS
  <1>6. ASSUME NEW i \in 1..Len(w2)
        PROVE  w2[i] = Append(w, h)[i]
    <2>0. /\ i \in Nat /\ 1 <= i /\ i <= Len(rs) + Len(rq) + 1
          /\ w2[i] = IF i <= Len(rs) THEN rs[i].host ELSE Append(rq, h)[i - Len(rs)]
      BY <1>1, <1>3, <1>5
    <2>1. CASE i <= Len(rs)
      <3>1. i \in 1..Len(w) /\ i \in 1..(Len(rs) + Len(rq))
        BY <2>0, <2>1, <1>2, <1>5
      <3> QED BY <2>0, <2>1, <3>1, <1>2, <1>4
    <2>2. CASE i > Len(rs) /\ i <= Len(rs) + Len(rq)
      <3>1. i - Len(rs) \in 1..Len(rq) /\ i \in 1..Len(w) /\ i \in 1..(Len(rs) + Len(rq))
        BY <2>0, <2>2, <1>2, <1>5
      <3> QED BY <2>0, <2>2, <3>1, <1>1, <1>2, <1>4
    <2>3. CASE i = Len(rs) + Len(rq) + 1
      <3>1. i - Len(rs) = Len(rq) + 1 /\ ~(i <= Len(rs)) /\ i = Len(w) + 1
        BY <2>3, <1>2, <1>5
      <3> QED BY <2>0, <3>1, <1>1, <1>4
    <2>4. \/ i <= Len(rs)
          \/ i > Len(rs) /\ i <= Len(rs) + Len(rq)
          \/ i = Len(rs) + Len(rq) + 1
      BY <2>0, <1>5
    <2> QED BY <2>1, <2>2, <2>3, <2>4
  <1>7. Len(w2) = Len(Append(w, h))
    BY <1>1, <1>2, <1>3, <1>4, <1>5
  <1>8. w2 = Append(w, h)
    BY <1>3, <1>4, <1>6, <1>7, SeqEqual
  <1> QED BY <1>8 DEF w, w2

(* A result that is read is that of the first request.                     *)
LEMMA HostsOfTaken ==
    ASSUME NEW rs \in Seq(Result), NEW rq \in Seq(Host), rs # <<>>
    PROVE  /\ HostsOf(rs, rq) # <<>>
           /\ HostsOf(Tail(rs), rq) = Tail(HostsOf(rs, rq))
  <1> DEFINE w  == HostsOf(rs, rq)
             w2 == HostsOf(Tail(rs), rq)
  <1>1. /\ Tail(rs) \in Seq(Result) /\ Len(Tail(rs)) = Len(rs) - 1
        /\ \A i \in 1..Len(Tail(rs)) : Tail(rs)[i] = rs[i + 1]
    BY HeadTailProperties
  <1>2. Len(rs) \in Nat /\ Len(rs) >= 1 /\ Len(rq) \in Nat
    OBVIOUS
  <1>3. /\ w \in Seq(Host) /\ Len(w) = Len(rs) + Len(rq)
        /\ \A i \in 1..(Len(rs) + Len(rq)) :
               w[i] = IF i <= Len(rs) THEN rs[i].host ELSE rq[i - Len(rs)]
    BY HostsOfProperties
  <1>4. /\ w2 \in Seq(Host) /\ Len(w2) = Len(Tail(rs)) + Len(rq)
        /\ \A i \in 1..(Len(Tail(rs)) + Len(rq)) :
               w2[i] = IF i <= Len(Tail(rs)) THEN Tail(rs)[i].host ELSE rq[i - Len(Tail(rs))]
    BY <1>1, HostsOfProperties
  <1> HIDE DEF w, w2
  <1>5. w # <<>>
    BY <1>2, <1>3
  <1>6. /\ Tail(w) \in Seq(Host) /\ Len(Tail(w)) = Len(w) - 1
        /\ \A i \in 1..Len(Tail(w)) : Tail(w)[i] = w[i + 1]
    BY <1>3, <1>5, HeadTailProperties
  <1>7. ASSUME NEW i \in 1..Len(w2)
        PROVE  w2[i] = Tail(w)[i]
    <2>0. w2[i] = IF i <= Len(Tail(rs)) THEN Tail(rs)[i].host ELSE rq[i - Len(Tail(rs))]
      BY <1>4
    <2>1. i + 1 \in 1..(Len(rs) + Len(rq)) /\ Tail(w)[i] = w[i + 1]
      BY <1>1, <1>2, <1>3, <1>4, <1>6
    <2>2. CASE i <= Len(Tail(rs))
      <3>1. i \in 1..Len(Tail(rs)) /\ i + 1 <= Len(rs)
        BY <2>2, <1>1, <1>2
      <3> QED BY <2>0, <2>1, <2>2, <3>1, <1>1, <1>3
    <2>3. CASE ~(i <= Len(Tail(rs)))
      <3>1. ~(i + 1 <= Len(rs)) /\ i - Len(Tail(rs)) = (i + 1) - Len(rs)
        BY <2>3, <1>1, <1>2
      <3> QED BY <2>0, <2>1, <2>3, <3>1, <1>3
    <2> QED BY <2>2, <2>3
  <1>8. Len(w2) = Len(Tail(w))
    BY <1>1, <1>2, <1>3, <1>4, <1>6
  <1>9. w2 = Tail(w)
    BY <1>4, <1>6, <1>7, <1>8, SeqEqual
  <1> QED BY <1>5, <1>9 DEF w, w2

(* The child turns the first request into the last result.                 *)
LEMMA HostsOfResolved ==
    ASSUME NEW rs \in Seq(Result), NEW rq \in Seq(Host), rq # <<>>, NEW r \in Result,
           r.host = Head(rq)
    PROVE  HostsOf(Append(rs, r), Tail(rq)) = HostsOf(rs, rq)
  <1> DEFINE w  == HostsOf(rs, rq)
             w2 == HostsOf(Append(rs, r), Tail(rq))
  <1>1. /\ Append(rs, r) \in Seq(Result) /\ Len(Append(rs, r)) = Len(rs) + 1
        /\ \A i \in 1..Len(rs) : Append(rs, r)[i] = rs[i]
        /\ Append(rs, r)[Len(rs) + 1] = r
    BY AppendProperties
  <1>2. /\ Tail(rq) \in Seq(Host) /\ Len(Tail(rq)) = Len(rq) - 1
        /\ \A i \in 1..Len(Tail(rq)) : Tail(rq)[i] = rq[i + 1]
        /\ r.host = rq[1]
    BY HeadTailProperties
  <1>3. Len(rs) \in Nat /\ Len(rq) \in Nat /\ Len(rq) >= 1
    OBVIOUS
  <1>4. /\ w \in Seq(Host) /\ Len(w) = Len(rs) + Len(rq)
        /\ \A i \in 1..(Len(rs) + Len(rq)) :
               w[i] = IF i <= Len(rs) THEN rs[i].host ELSE rq[i - Len(rs)]
    BY HostsOfProperties
  <1>5. /\ w2 \in Seq(Host) /\ Len(w2) = Len(Append(rs, r)) + Len(Tail(rq))
        /\ \A i \in 1..(Len(Append(rs, r)) + Len(Tail(rq))) :
               w2[i] = IF i <= Len(Append(rs, r)) THEN Append(rs, r)[i].host
                       ELSE Tail(rq)[i - Len(Append(rs, r))]
    BY <1>1, <1>2, HostsOfProperties
  <1> HIDE DEF w, w2
  <1>6. Len(w2) = Len(w)
    BY <1>1, <1>2, <1>3, <1>4, <1>5
  <1>7. ASSUME NEW i \in 1..Len(w2)
        PROVE  w2[i] = w[i]
    <2>0. /\ i \in 1..(Len(rs) + Len(rq))
          /\ w2[i] = IF i <= Len(rs) + 1 THEN Append(rs, r)[i].host
                     ELSE Tail(rq)[i - (Len(rs) + 1)]
      BY <1>1, <1>4, <1>5, <1>6
    <2>1. CASE i <= Len(rs)
      <3>1. i \in 1..Len(rs) /\ i <= Len(rs) + 1
        BY <2>1, <1>3
      <3> QED BY <2>0, <2>1, <3>1, <1>1, <1>4
    <2>2. CASE i = Len(rs) + 1
      <3>1. ~(i <= Len(rs)) /\ i - Len(rs) = 1 /\ i <= Len(rs) + 1
        BY <2>2, <1>3
      <3>2. w2[i] = r.host
        BY <2>0, <2>2, <3>1, <1>1
      <3>3. w[i] = rq[1]
        BY <2>0, <3>1, <1>4
      <3> QED BY <3>2, <3>3, <1>2
    <2>3. CASE i > Len(rs) + 1
      <3>1. /\ ~(i <= Len(rs)) /\ ~(i <= Len(rs) + 1)
            /\ i - (Len(rs) + 1) \in 1..Len(Tail(rq))
            /\ (i - (Len(rs) + 1)) + 1 = i - Len(rs)
        BY <2>0, <2>3, <1>2, <1>3
      <3> QED BY <2>0, <3>1, <1>2, <1>4
    <2> QED BY <2>0, <2>1, <2>2, <2>3, <1>3
  <1>8. w2 = w
    BY <1>4, <1>5, <1>6, <1>7, SeqEqual
  <1> QED BY <1>8 DEF w, w2

(* What the steps do with the list keeps it in the order of the results.   *)
LEMMA InOrderShrinks ==
    ASSUME NEW p \in Seq(Pending), NEW q, NEW w \in Seq(Host), InOrder(p, w), NoLonger(p, q)
    PROVE  InOrder(q, w)
  <1>1. Len(p) \in Nat /\ Len(q) \in Nat /\ Len(w) \in Nat
    BY DEF NoLonger
  <1>2. Len(q) <= Len(w) /\ (Len(q) = Len(w) => Len(q) = Len(p) /\ Len(p) = Len(w))
    BY <1>1 DEF InOrder, NoLonger
  <1> QED BY <1>2 DEF InOrder, NoLonger

LEMMA InOrderGrows ==
    ASSUME NEW p \in Seq(Pending), NEW w \in Seq(Host), InOrder(p, w), NEW e \in Pending
    PROVE  InOrder(Append(p, e), Append(w, e.host))
  <1>1. e.host \in Host
    BY DEF Pending
  <1> DEFINE q  == Append(p, e)
             w2 == Append(w, e.host)
  <1>2. /\ Len(q) = Len(p) + 1 /\ q[Len(p) + 1] = e
        /\ \A i \in 1..Len(p) : q[i] = p[i]
    BY AppendProperties
  <1>3. /\ Len(w2) = Len(w) + 1 /\ w2[Len(w) + 1] = e.host
        /\ \A i \in 1..Len(w) : w2[i] = w[i]
    BY <1>1, AppendProperties
  <1>4. Len(p) \in Nat /\ Len(w) \in Nat
    OBVIOUS
  <1> HIDE DEF q, w2
  <1>5. Len(q) <= Len(w2) /\ (Len(q) = Len(w2) => Len(p) = Len(w))
    BY <1>2, <1>3, <1>4 DEF InOrder
  <1>6. ASSUME Len(p) = Len(w), NEW i \in 1..Len(q)
        PROVE  q[i].host = w2[i]
    <2>1. CASE i \in 1..Len(p)
      BY <2>1, <1>2, <1>3, <1>6 DEF InOrder
    <2>2. CASE i = Len(p) + 1
      BY <2>2, <1>2, <1>3, <1>6
    <2> QED BY <2>1, <2>2, <1>2, <1>4
  <1> QED BY <1>5, <1>6 DEF InOrder, q, w2

LEMMA InOrderTaken ==
    ASSUME NEW p \in Seq(Pending), NEW w \in Seq(Host), InOrder(p, w), p # <<>>
    PROVE  InOrder(Tail(p), Tail(w))
  <1>1. Len(p) \in Nat /\ Len(p) >= 1 /\ Len(w) \in Nat
    OBVIOUS
  <1>2. w # <<>>
    BY <1>1 DEF InOrder
  <1> DEFINE q  == Tail(p)
             w2 == Tail(w)
  <1>3. Len(q) = Len(p) - 1 /\ \A i \in 1..Len(q) : q[i] = p[i + 1]
    BY HeadTailProperties
  <1>4. Len(w2) = Len(w) - 1 /\ \A i \in 1..Len(w2) : w2[i] = w[i + 1]
    BY <1>2, HeadTailProperties
  <1> HIDE DEF q, w2
  <1>5. Len(q) <= Len(w2) /\ (Len(q) = Len(w2) => Len(p) = Len(w))
    BY <1>1, <1>3, <1>4 DEF InOrder
  <1>6. ASSUME Len(q) = Len(w2), NEW i \in 1..Len(q)
        PROVE  q[i].host = w2[i]
    <2>1. i + 1 \in 1..Len(p) /\ q[i] = p[i + 1] /\ w2[i] = w[i + 1]
      BY <1>1, <1>3, <1>4, <1>6
    <2> QED BY <2>1, <1>5, <1>6 DEF InOrder
  <1> QED BY <1>5, <1>6 DEF InOrder, q, w2

(* The order, in the words of the lemmas above.                            *)
LEMMA OrderOfUnderWay ==
    /\ ResultsInOrder <=> InOrder(pending, HostsOf(results, requests))
    /\ ResultsInOrder' <=> InOrder(pending', HostsOf(results', requests'))
  BY DEF ResultsInOrder, UnderWay, InOrder, HostsOf

(* A step that leaves the pipes alone marks or removes lookups.            *)
LEMMA CancelKeepsOrder ==
    ASSUME TypeOK, ResultsInOrder, UNCHANGED <<requests, results>>,
           pending' = pending \/ pending' = Cancelled(pending, hub_lookup)
    PROVE  ResultsInOrder'
  <1>1. pending \in Seq(Pending) /\ results \in Seq(Result) /\ requests \in Seq(Host)
    BY DEF TypeOK, LookupTypeOK
  <1>2. NoLonger(pending, pending')
    <2>1. NoLonger(pending, pending)
      BY <1>1 DEF NoLonger
    <2> QED BY <1>1, <2>1, CancelledIsNoLonger
  <1>3. HostsOf(results, requests) \in Seq(Host)
    BY <1>1, HostsOfProperties
  <1>4. InOrder(pending', HostsOf(results, requests))
    BY <1>1, <1>2, <1>3, InOrderShrinks, OrderOfUnderWay
  <1> QED BY <1>4, OrderOfUnderWay

LEMMA AddKeepsOrder ==
    ASSUME TypeOK, ResultsInOrder, NEW id \in LookupId, NEW h \in Host, NEW cb \in Callback,
           AddLookupRequest(id, h, cb)
    PROVE  ResultsInOrder'
  <1>1. pending \in Seq(Pending) /\ results \in Seq(Result) /\ requests \in Seq(Host)
    BY DEF TypeOK, LookupTypeOK
  <1> DEFINE e == [id |-> id, host |-> h, callback |-> cb, cancelled |-> FALSE]
  <1>2. e \in Pending /\ e.host = h
    BY DEF Pending
  <1>3. /\ pending' = Append(pending, e)
        /\ requests' = Append(requests, h) /\ results' = results
    BY DEF AddLookupRequest
  <1> HIDE DEF e
  <1>4. HostsOf(results, requests) \in Seq(Host)
    BY <1>1, HostsOfProperties
  <1>5. HostsOf(results', requests') = Append(HostsOf(results, requests), h)
    BY <1>1, <1>3, HostsOfAdded
  <1>6. InOrder(Append(pending, e), Append(HostsOf(results, requests), e.host))
    BY <1>1, <1>2, <1>4, InOrderGrows, OrderOfUnderWay
  <1> QED BY <1>2, <1>3, <1>5, <1>6, OrderOfUnderWay

LEMMA TakeKeepsOrder ==
    ASSUME TypeOK, ResultsInOrder, TakeResult,
           IF pending = <<>> THEN pending' = <<>>
           ELSE pending' = Tail(pending) \/ pending' = Cancelled(Tail(pending), NoLookup)
    PROVE  ResultsInOrder'
  <1>1. pending \in Seq(Pending) /\ results \in Seq(Result) /\ requests \in Seq(Host)
    BY DEF TypeOK, LookupTypeOK
  <1>2. results # <<>> /\ results' = Tail(results) /\ requests' = requests
    BY DEF TakeResult
  <1> DEFINE w == HostsOf(results, requests)
  <1>3. w \in Seq(Host) /\ w # <<>> /\ HostsOf(results', requests') = Tail(w)
    BY <1>1, <1>2, HostsOfProperties, HostsOfTaken
  <1>4. InOrder(pending, w)
    BY OrderOfUnderWay
  <1> HIDE DEF w
  <1>5. Tail(w) \in Seq(Host)
    BY <1>3, HeadTailProperties
  <1>6. CASE pending = <<>>
    <2>1. Len(pending') = 0 /\ Len(Tail(w)) \in Nat
      BY <1>5, <1>6
    <2>2. InOrder(pending', Tail(w))
      BY <2>1 DEF InOrder
    <2> QED BY <1>3, <2>2, OrderOfUnderWay
  <1>7. CASE pending # <<>>
    <2>1. Tail(pending) \in Seq(Pending) /\ InOrder(Tail(pending), Tail(w))
      BY <1>1, <1>3, <1>4, <1>7, InOrderTaken, HeadTailProperties
    <2>2. NoLonger(Tail(pending), pending')
      <3>1. NoLonger(Tail(pending), Tail(pending))
        BY <2>1 DEF NoLonger
      <3> QED BY <1>7, <2>1, <3>1, CancelledIsNoLonger
    <2>3. InOrder(pending', Tail(w))
      BY <1>5, <2>1, <2>2, InOrderShrinks
    <2> QED BY <1>3, <2>3, OrderOfUnderWay
  <1> QED BY <1>6, <1>7

LEMMA ChildKeepsOrder ==
    ASSUME TypeOK, ResultsInOrder, LookupMain
    PROVE  ResultsInOrder'
  <1>1. results \in Seq(Result) /\ requests \in Seq(Host) /\ requests # <<>>
    BY DEF TypeOK, LookupTypeOK, LookupMain
  <1>2. PICK ok \in BOOLEAN : results' = Append(results, [host |-> Head(requests), ok |-> ok])
    BY DEF LookupMain
  <1>3. Head(requests) \in Host
    BY <1>1, HeadTailProperties
  <1> DEFINE r == [host |-> Head(requests), ok |-> ok]
  <1>4. r \in Result /\ r.host = Head(requests)
    BY <1>3 DEF Result
  <1> HIDE DEF r
  <1>5. HostsOf(results', requests') = HostsOf(results, requests)
    BY <1>1, <1>2, <1>4, HostsOfResolved DEF LookupMain, r
  <1> QED BY <1>5, OrderOfUnderWay DEF LookupMain

(* What hub_connect does with the list it is given.                        *)
LEMMA HubConnectList ==
    ASSUME NEW addr, NEW p, NEW hostname, HubConnect(addr, p, NoLookup, hostname)
    PROVE  pending' = p \/ pending' = Cancelled(p, NoLookup)
  BY DEF HubConnect, Disconnect

(* No record is at the address NULL.                                       *)
LEMMA NothingToCancel ==
    ASSUME NEW p \in Seq(Pending)
    PROVE  Cancelled(p, NoLookup) = p
  <1>1. \A i \in 1..Len(p) : p[i] \in Pending
    OBVIOUS
  <1>2. NoLookup \notin Ids(p)
    BY <1>1, HubAssumption DEF Ids, Pending
  <1> QED BY <1>2 DEF Cancelled

LEMMA HubNewKeepsOrder ==
    ASSUME Inv, hub_state = "DISCONNECTED", ResultsInOrder, NEW h \in Host \cup Address, HubNew(h)
    PROVE  ResultsInOrder'
  <1>1. TypeOK /\ hub_lookup = NoLookup
    BY DEF Inv, LookupMatchesState
  <1>2. CASE /\ HubConnect(h, pending, hub_lookup, hub_hostname)
             /\ UNCHANGED <<requests, results, crashed>>
    BY <1>1, <1>2, HubConnectList, CancelKeepsOrder
  <1>3. CASE h \in Host /\ \E id \in LookupId : AddLookupRequest(id, h, "hub")
    BY <1>1, <1>3, AddKeepsOrder DEF Callback
  <1> QED BY <1>2, <1>3 DEF HubNew

LEMMA NextKeepsOrder == Inv /\ ResultsInOrder /\ [Next]_vars => ResultsInOrder'
  <1> SUFFICES ASSUME Inv, ResultsInOrder, [Next]_vars
               PROVE  ResultsInOrder'
    OBVIOUS
  <1>0. TypeOK /\ pending \in Seq(Pending)
    BY DEF Inv, ListSound
  <1>1. ASSUME NEW h \in Host \cup Address, CmdConnect(h) PROVE ResultsInOrder'
    BY <1>1, HubNewKeepsOrder DEF CmdConnect
  <1>2. CASE CmdDisconnect
    BY <1>0, <1>2, CancelKeepsOrder DEF CmdDisconnect, Disconnect
  <1>3. ASSUME NEW h \in Host, CmdLookup(h) PROVE ResultsInOrder'
    BY <1>0, <1>3, AddKeepsOrder DEF CmdLookup, Callback
  <1>4. ASSUME NEW b \in BOOLEAN, SetAutoReconnect(b) PROVE ResultsInOrder'
    BY <1>0, <1>4, CancelKeepsOrder DEF SetAutoReconnect, lookupVars
  <1>5. CASE SetHubCharset
    <2>1. Cancelled(pending, hub_lookup) \in Seq(Pending)
      BY <1>0, CancelledIsNoLonger DEF NoLonger
    <2>2. pending' = Cancelled(pending, hub_lookup)
      BY <1>5, <2>1, HubConnectList, NothingToCancel DEF SetHubCharset
    <2> QED BY <1>0, <1>5, <2>2, CancelKeepsOrder DEF SetHubCharset
  <1>6. ASSUME HubDisconnect PROVE ResultsInOrder'
    BY <1>0, <1>6, CancelKeepsOrder DEF HubDisconnect, Disconnect
  <1>7. ASSUME NEW s, Proceed(s) PROVE ResultsInOrder'
    BY <1>0, <1>7, CancelKeepsOrder DEF Proceed, lookupVars
  <1>8. CASE HubNowWritable \/ HubClosed \/ HandleLock \/ HandleHello \/ HandleRefused
             \/ HandleOther \/ KeepAlive
    BY <1>6, <1>7, <1>8 DEF HubNowWritable, HubClosed, HandleLock, HandleHello, HandleRefused,
                            HandleOther, KeepAlive
  <1>9. CASE AutoReconnect
    <2>1. hub_state = "DISCONNECTED" /\ hub_lookup = NoLookup
      BY <1>9 DEF AutoReconnect, Inv, LookupMatchesState
    <2>2. CASE hub_hostname # NoHost
      <3>1. hub_hostname \in Host \cup Address /\ HubNew(hub_hostname)
        BY <1>0, <1>9, <2>2 DEF AutoReconnect, TypeOK
      <3> QED BY <2>1, <3>1, HubNewKeepsOrder
    <2>3. CASE hub_hostname = NoHost
      BY <1>0, <1>9, <2>1, <2>3, HubConnectList, CancelKeepsOrder DEF AutoReconnect
    <2> QED BY <2>2, <2>3
  <1>10. CASE HubAddressLookedUp
    <2>1. TakeResult /\ pending # <<>>
      BY <1>10 DEF HubAddressLookedUp, ResultForHub
    <2>2. pending' = Tail(pending) \/ pending' = Cancelled(Tail(pending), NoLookup)
      BY <1>10, HubConnectList DEF HubAddressLookedUp
    <2> QED BY <1>0, <2>1, <2>2, TakeKeepsOrder
  <1>11. CASE OtherResult
    BY <1>0, <1>11, TakeKeepsOrder DEF OtherResult, ResultForNobody, ResultIgnored
  <1>12. CASE LookupChild
    BY <1>0, <1>12, ChildKeepsOrder DEF LookupChild
  <1>13. CASE Tick \/ UNCHANGED vars
    BY <1>0, <1>13, CancelKeepsOrder DEF Tick, vars, lookupVars
  <1> QED BY <1>1, <1>2, <1>3, <1>4, <1>5, <1>8, <1>9, <1>10, <1>11, <1>12, <1>13 DEF Next

(* No lookup waits for a result that does not come, and unless one was     *)
(* removed from the middle of the list, each is given the result of its    *)
(* own request (lookup.c:268, 279, 296).                                   *)
THEOREM LookupsInOrder == Spec => []ResultsInOrder
  <1>1. Init => ResultsInOrder
    <2> SUFFICES ASSUME Init PROVE ResultsInOrder
      OBVIOUS
    <2>1. pending = <<>> /\ Len(pending) = 0 /\ results \in Seq(Result) /\ requests \in Seq(Host)
      BY EmptySeq DEF Init, InitLookup
    <2>2. Len(HostsOf(results, requests)) \in Nat
      BY <2>1, HostsOfProperties
    <2>3. InOrder(pending, HostsOf(results, requests))
      BY <2>1, <2>2 DEF InOrder
    <2> QED BY <2>3, OrderOfUnderWay
  <1>2. Inv /\ ResultsInOrder /\ [Next]_vars => ResultsInOrder'
    BY NextKeepsOrder
  <1> QED BY <1>1, <1>2, InvHolds, PTL DEF Spec

(* The first result is that of the first lookup if none was removed.       *)
LEMMA HeadGetsItsOwn ==
    ASSUME Inv, ResultsInOrder, pending # <<>>, results # <<>>,
           Len(pending) = Len(results) + Len(requests)
    PROVE  Head(pending).host = Head(results).host
  <1>1. pending \in Seq(Pending) /\ results \in Seq(Result) /\ requests \in Seq(Host)
    BY DEF Inv, TypeOK, LookupTypeOK
  <1>2. Len(HostsOf(results, requests)) = Len(pending)
    BY <1>1, HostsOfProperties
  <1>3. 1 \in 1..Len(pending) /\ 1 <= Len(results) /\ Head(pending) = pending[1]
        /\ Head(results) = results[1] /\ Len(results) \in Nat /\ Len(requests) \in Nat
    BY <1>1
  <1>4. pending[1].host = HostsOf(results, requests)[1]
    BY <1>2, <1>3, OrderOfUnderWay DEF InOrder
  <1>5. HostsOf(results, requests)[1] = results[1].host
    <2>1. 1 \in 1..(Len(results) + Len(requests))
      BY <1>3
    <2> QED BY <1>1, <1>3, <2>1, HostsOfProperties
  <1> QED BY <1>3, <1>4, <1>5

(* As many lookups as results to come: then the callback of connect or     *)
(* lookup is given the answer to its own host (hub.c:294, command.c:2178); *)
(* only a lookup removed from the middle of the list breaks this.          *)
THEOREM AnswersMatch ==
    Spec => [](Len(pending) = Len(results) + Len(requests) => AnswersOwnHost)
  <1>1. Inv /\ ResultsInOrder => (Len(pending) = Len(results) + Len(requests) => AnswersOwnHost)
    BY HeadGetsItsOwn DEF AnswersOwnHost
  <1> QED BY <1>1, InvHolds, LookupsInOrder, PTL
=============================================================================
