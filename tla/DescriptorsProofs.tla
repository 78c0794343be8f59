------------------------- MODULE DescriptorsProofs -------------------------
(***************************************************************************)
(* Theorems about Descriptors, for any numbers of connections, shells and  *)
(* hub connections, and about Sockets, for any numbers of descriptors and  *)
(* ports.                                                                  *)
(***************************************************************************)
EXTENDS Descriptors, Sockets, FiniteSetTheorems, TLAPS

Started == {q \in Process : born[q] > 0}

(* The order of the forks is a numbering of the processes that were        *)
(* started.                                                                *)
BornInv ==
    \A p \in Process :
        /\ born[p] = 0 <=> state[p] = "new"
        /\ born[p] <= Cardinality(Started)

(* Pipes exist from the fork on.                                           *)
PipesInv ==
    \A q \in Process : \A p \in Program : Request(q) \in holds[p] => born[q] > 0

(* What a connection writes to is its own.                                 *)
OwnInv ==
    \A c \in Conn : \A p \in Program :
        End("out", c) \in holds[p] \/ Peer(c) \in holds[p] => p = c

Inv == TypeOK /\ BornInv /\ PipesInv /\ HeldByLater /\ OwnInv

LEMMA ProcessesFinite == IsFiniteSet(Process) /\ IsFiniteSet(Worker) /\ Cardinality(Worker) = 4
<1> DEFINE W1 == {} \cup {"update"}
           W2 == W1 \cup {"hash"}
           W3 == W2 \cup {"lookup"}
           W4 == W3 \cup {"parse"}
<1>1. IsFiniteSet({}) /\ Cardinality({}) = 0
  BY FS_EmptySet
<1>2. IsFiniteSet(W1) /\ Cardinality(W1) = 1
  BY <1>1, FS_AddElement
<1>3. IsFiniteSet(W2) /\ Cardinality(W2) = 2
  <2>1. "hash" \notin W1
    OBVIOUS
  <2> QED BY <1>2, <2>1, FS_AddElement
<1>4. IsFiniteSet(W3) /\ Cardinality(W3) = 3
  <2>1. "lookup" \notin W2
    OBVIOUS
  <2> HIDE DEF W2
  <2> QED BY <1>3, <2>1, FS_AddElement
<1>5. IsFiniteSet(W4) /\ Cardinality(W4) = 4
  <2>1. "parse" \notin W3
    OBVIOUS
  <2> HIDE DEF W3
  <2> QED BY <1>4, <2>1, FS_AddElement
<1>6. W4 = Worker
  BY DEF Worker
<1>7. IsFiniteSet(Worker \cup Conn)
  BY <1>5, <1>6, FS_Union, DescriptorsAssumption
<1> QED BY <1>5, <1>6, <1>7, FS_Union, DescriptorsAssumption DEF Process

LEMMA StartedFinite == IsFiniteSet(Started) /\ Cardinality(Started) \in Nat
BY ProcessesFinite, FS_Subset, FS_CardinalityType DEF Started

(* The names of the constants are all different.                           *)
LEMMA Kinds ==
    ASSUME NEW k, NEW p, NEW l, NEW q
    PROVE  End(k, p) = End(l, q) <=> k = l /\ p = q
BY DEF End

-----------------------------------------------------------------------------
LEMMA InitInv == Init => Inv
<1> SUFFICES ASSUME Init PROVE Inv
  OBVIOUS
<1> USE DEF Init
<1>1. TypeOK
  <2>1. state \in [Process -> {"new", "running", "gone"}] /\ born \in [Process -> Nat]
    BY DEF StartOrder, Worker
  <2>2. \A p \in Program : holds[p] \subseteq Descriptor
    BY DescriptorsAssumption DEF StartHolds, Descriptor, Request, Result, ParentEnds, ChildEnds, End, Worker, Process
  <2>3. holds \in [Program -> SUBSET Descriptor]
    BY <2>2 DEF StartHolds
  <2>4. \A p \in Process : state[p] # "running" => holds[p] = {}
    BY DescriptorsAssumption DEF StartHolds, Process, Program, Worker
  <2> QED BY <2>1, <2>3, <2>4 DEF TypeOK
<1>2. BornInv
  <2>1. Started = Worker
    BY DEF Started, StartOrder, Process, Worker
  <2>2. \A p \in Process : born[p] <= 4
    BY DEF StartOrder, Worker
  <2>3. \A p \in Process : born[p] = 0 <=> state[p] = "new"
    BY DEF StartOrder, Worker
  <2> QED BY <2>1, <2>2, <2>3, ProcessesFinite DEF BornInv
<1>3. \A q \in Process : \A p \in Program : Request(q) \in holds[p] => q \in Worker
  BY DescriptorsAssumption DEF StartHolds, Request, Result, ParentEnds, ChildEnds, End, Worker, Process, Program
<1>4. PipesInv
  BY <1>3 DEF PipesInv, StartOrder, Worker
<1>5. HeldByLater
  BY DescriptorsAssumption DEF HeldByLater, Parent, StartOrder, StartHolds, Request, Result, ParentEnds, ChildEnds, End, Worker, Process, Program
<1>6. OwnInv
  BY DescriptorsAssumption DEF OwnInv, StartHolds, Peer, Request, Result, ParentEnds, ChildEnds, End, Worker, Process, Program
<1> QED BY <1>1, <1>2, <1>4, <1>5, <1>6 DEF Inv

-----------------------------------------------------------------------------
(* Steps *)

(* Whoever closes descriptors, by itself or at its end, breaks nothing.    *)
LEMMA CloseInv ==
    ASSUME Inv, TypeOK', born' = born,
           \A p \in Program : holds'[p] \subseteq holds[p],
           \A p \in Process : state'[p] = "new" <=> state[p] = "new"
    PROVE  Inv'
<1> USE DEF Inv
<1>1. BornInv'
  BY DEF BornInv, Started
<1>2. PipesInv'
  BY DEF PipesInv
<1>3. HeldByLater'
  <2>1. Process \subseteq Program
    BY DEF Program
  <2> QED BY <2>1 DEF HeldByLater
<1>4. OwnInv'
  BY DEF OwnInv
<1> QED BY <1>1, <1>2, <1>3, <1>4

(* The number that a fork gives is above all others.                       *)
LEMMA ForkedBorn ==
    ASSUME Inv, NEW c \in Process, Forked(c)
    PROVE  /\ BornInv'
           /\ born'[c] > 0
           /\ \A q \in Process \ {c} : born'[q] = born[q]
           /\ \A q \in Process : born[q] < born'[c]
<1>1. /\ born \in [Process -> Nat] /\ state \in [Process -> {"new", "running", "gone"}]
      /\ born[c] = 0
      /\ BornInv
  BY DEF Inv, TypeOK, BornInv, Forked
<1> DEFINE n == Cardinality(Started)
<1>2. n \in Nat /\ IsFiniteSet(Started)
  BY StartedFinite
<1>3. /\ born' = [born EXCEPT ![c] = 1 + n]
      /\ state' = [state EXCEPT ![c] = "running"]
  BY DEF Forked, Started
<1> HIDE DEF n
<1>4. Started' = Started \cup {c} /\ c \notin Started
  BY <1>1, <1>2, <1>3 DEF Started
<1>5. Cardinality(Started') = 1 + n
  BY <1>2, <1>4, FS_AddElement DEF n
<1>6. \A q \in Process : born[q] <= n
  BY <1>1 DEF BornInv, n
<1>7. BornInv'
  <2> SUFFICES ASSUME NEW p \in Process
               PROVE  (born'[p] = 0 <=> state'[p] = "new") /\ born'[p] <= Cardinality(Started')
    BY DEF BornInv
  <2>1. CASE p = c
    BY <2>1, <1>1, <1>2, <1>3, <1>5
  <2>2. CASE p # c
    BY <2>2, <1>1, <1>2, <1>3, <1>5, <1>6 DEF BornInv
  <2> QED BY <2>1, <2>2
<1> QED BY <1>1, <1>2, <1>3, <1>6, <1>7

LEMMA UserConnectionNewInv ==
    ASSUME Inv, NEW c \in Conn, UserConnectionNew(c)
    PROVE  Inv'
<1>1. c \in Process /\ c \in Program /\ c # "main" /\ c \notin Worker /\ "main" \in Program /\ "main" \notin Process
  BY DescriptorsAssumption DEF Process, Program, Worker
<1>2. Forked(c) /\ state[c] = "new"
  BY DEF UserConnectionNew, Forked
<1>3. BornInv' /\ born'[c] > 0 /\ (\A q \in Process \ {c} : born'[q] = born[q])
      /\ \A q \in Process : born[q] < born'[c]
  BY <1>1, <1>2, ForkedBorn
<1>4. /\ holds \in [Program -> SUBSET Descriptor]
      /\ holds'[c] = holds["main"] \cup ChildEnds(c) \cup {Peer(c)}
      /\ holds'["main"] = holds["main"] \cup ParentEnds(c)
      /\ \A p \in Program \ {c, "main"} : holds'[p] = holds[p]
  BY <1>1 DEF UserConnectionNew, Inv, TypeOK
<1>5. TypeOK'
  <2>1. /\ state' \in [Process -> {"new", "running", "gone"}] /\ state'[c] = "running"
        /\ \A p \in Process \ {c} : state'[p] = state[p]
    BY <1>1, <1>2 DEF Inv, TypeOK, Forked
  <2>2. ChildEnds(c) \cup ParentEnds(c) \cup {Peer(c)} \subseteq Descriptor
    BY <1>1 DEF ChildEnds, ParentEnds, Peer, Request, Result, End, Descriptor
  <2>3. holds' \in [Program -> SUBSET Descriptor]
    BY <1>1, <1>4, <2>2 DEF UserConnectionNew
  <2>4. born' \in [Process -> Nat]
    <3>1. 1 + Cardinality(Started) \in Nat
      BY StartedFinite
    <3> QED BY <1>2, <3>1 DEF Inv, TypeOK, Forked, Started
  <2>5. UNCHANGED <<hub_socket, connected>>
    BY DEF UserConnectionNew
  <2>6. \A p \in Process : state'[p] # "running" => holds'[p] = {}
    BY <1>1, <1>4, <2>1 DEF Inv, TypeOK, Program
  <2>7. hub_socket' # None => HubSocket(hub_socket') \in holds'["main"]
    BY <1>4, <2>5 DEF Inv, TypeOK
  <2> QED BY <2>1, <2>3, <2>4, <2>5, <2>6, <2>7 DEF Inv, TypeOK
<1>6. \A q \in Process : \A p \in Program :
          Request(q) \in holds'[p] => (q = c /\ p = "main") \/ Request(q) \in holds[IF p = c THEN "main" ELSE p]
  BY <1>1, <1>4 DEF ChildEnds, ParentEnds, Peer, Request, Result, End
<1>7. PipesInv'
  <2> SUFFICES ASSUME NEW q \in Process, NEW p \in Program, Request(q) \in holds'[p]
               PROVE  born'[q] > 0
    BY DEF PipesInv
  <2>1. CASE q = c
    BY <2>1, <1>3
  <2>2. CASE q # c
    <3>1. born[q] > 0
      BY <1>1, <1>6, <2>2 DEF Inv, PipesInv
    <3> QED BY <2>2, <3>1, <1>3
  <2> QED BY <2>1, <2>2
<1>8. HeldByLater'
  <2> SUFFICES ASSUME NEW p \in Process, NEW q \in Process, Request(q) \in holds'[p]
               PROVE  Parent(q) = p \/ born'[q] < born'[p]
    BY DEF HeldByLater
  <2>1. p # "main" /\ p \in Program
    BY <1>1 DEF Program
  <2>2. q # c
    <3> SUFFICES ASSUME q = c PROVE FALSE
      OBVIOUS
    <3>1. \A r \in Program : Request(c) \notin holds[r]
      BY <1>1, <1>2 DEF Inv, PipesInv, BornInv
    <3> QED BY <3>1, <2>1, <1>1, <1>6
  <2>3. CASE p = c
    BY <2>2, <2>3, <1>3
  <2>4. CASE p # c
    BY <1>3, <1>6, <2>1, <2>2, <2>4 DEF Inv, HeldByLater
  <2> QED BY <2>3, <2>4
<1>9. OwnInv'
  <2> SUFFICES ASSUME NEW d \in Conn, NEW p \in Program,
                      End("out", d) \in holds'[p] \/ Peer(d) \in holds'[p]
               PROVE  p = d
    BY DEF OwnInv
  <2>1. CASE p = "main"
    BY <2>1, <1>1, <1>4 DEF Inv, OwnInv, ParentEnds, Request, Result, Peer, End
  <2>2. CASE p = c
    <3>1. End("out", d) \notin holds["main"] /\ Peer(d) \notin holds["main"]
      BY <1>1, DescriptorsAssumption DEF Inv, OwnInv, Process
    <3> QED BY <2>2, <3>1, <1>4 DEF ChildEnds, Peer, End
  <2>3. CASE p \notin {c, "main"}
    BY <2>3, <1>4 DEF Inv, OwnInv
  <2> QED BY <2>1, <2>2, <2>3
<1> QED BY <1>3, <1>5, <1>7, <1>8, <1>9 DEF Inv

LEMMA CmdShellInv ==
    ASSUME Inv, NEW s \in Shell, CmdShell(s)
    PROVE  Inv'
<1>1. s \in Process /\ s \in Program /\ s # "main" /\ s \notin Conn /\ "main" \in Program /\ "main" \notin Process
  BY DescriptorsAssumption DEF Process, Program, Worker
<1>2. Forked(s)
  BY DEF CmdShell
<1>3. BornInv' /\ born'[s] > 0 /\ (\A q \in Process \ {s} : born'[q] = born[q])
      /\ \A q \in Process : born[q] < born'[s]
  BY <1>1, <1>2, ForkedBorn
<1>4. /\ holds \in [Program -> SUBSET Descriptor]
      /\ holds' \in [Program -> SUBSET Descriptor]
      /\ holds'[s] = holds["main"]
      /\ \A p \in Program \ {s} : holds'[p] = holds[p]
  BY <1>1 DEF CmdShell, Inv, TypeOK
<1>5. TypeOK'
  <2>1. /\ state' \in [Process -> {"new", "running", "gone"}] /\ state'[s] = "running"
        /\ \A p \in Process \ {s} : state'[p] = state[p]
    BY <1>1, <1>2 DEF Inv, TypeOK, Forked
  <2>2. born' \in [Process -> Nat]
    <3>1. 1 + Cardinality(Started) \in Nat
      BY StartedFinite
    <3> QED BY <1>2, <3>1 DEF Inv, TypeOK, Forked, Started
  <2>3. UNCHANGED <<hub_socket, connected>>
    BY DEF CmdShell
  <2>4. \A p \in Process : state'[p] # "running" => holds'[p] = {}
    BY <1>1, <1>4, <2>1 DEF Inv, TypeOK, Program
  <2>5. hub_socket' # None => HubSocket(hub_socket') \in holds'["main"]
    BY <1>1, <1>4, <2>3 DEF Inv, TypeOK
  <2> QED BY <1>4, <2>1, <2>2, <2>3, <2>4, <2>5 DEF Inv, TypeOK
<1>6. PipesInv'
  <2> SUFFICES ASSUME NEW q \in Process, NEW p \in Program, Request(q) \in holds'[p]
               PROVE  born'[q] > 0
    BY DEF PipesInv
  <2>1. born[q] > 0
    BY <1>1, <1>4 DEF Inv, PipesInv
  <2> QED BY <2>1, <1>3
<1>7. HeldByLater'
  <2> SUFFICES ASSUME NEW p \in Process, NEW q \in Process, Request(q) \in holds'[p]
               PROVE  Parent(q) = p \/ born'[q] < born'[p]
    BY DEF HeldByLater
  <2>1. q # s
    <3> SUFFICES ASSUME q = s PROVE FALSE
      OBVIOUS
    <3>1. \A r \in Program : Request(s) \notin holds[r]
      BY <1>1, <1>2 DEF Inv, PipesInv, BornInv, Forked
    <3> QED BY <3>1, <1>1, <1>4 DEF Program
  <2>2. CASE p = s
    BY <2>1, <2>2, <1>3
  <2>3. CASE p # s
    BY <1>3, <1>4, <2>1, <2>3 DEF Inv, HeldByLater, Program
  <2> QED BY <2>2, <2>3
<1>8. OwnInv'
  <2> SUFFICES ASSUME NEW d \in Conn, NEW p \in Program,
                      End("out", d) \in holds'[p] \/ Peer(d) \in holds'[p]
               PROVE  p = d
    BY DEF OwnInv
  <2>1. End("out", d) \notin holds["main"] /\ Peer(d) \notin holds["main"]
    BY <1>1, DescriptorsAssumption DEF Inv, OwnInv, Process
  <2> QED BY <2>1, <1>1, <1>4 DEF Inv, OwnInv
<1> QED BY <1>3, <1>5, <1>6, <1>7, <1>8 DEF Inv

LEMMA GoneInv ==
    ASSUME Inv, NEW p \in Process, Gone(p)
    PROVE  Inv'
<1>1. p \in Program /\ p # "main"
  BY DescriptorsAssumption DEF Process, Program, Worker
<1>2. TypeOK'
  BY <1>1 DEF Inv, TypeOK, Gone
<1>3. \A q \in Program : holds'[q] \subseteq holds[q]
  BY <1>1 DEF Inv, TypeOK, Gone
<1>4. \A q \in Process : state'[q] = "new" <=> state[q] = "new"
  BY DEF Inv, TypeOK, Gone
<1> QED BY <1>2, <1>3, <1>4, CloseInv DEF Gone

LEMMA UserDisconnectInv ==
    ASSUME Inv, NEW c \in Conn, UserDisconnect(c)
    PROVE  Inv'
<1>1. "main" \in Program /\ "main" \notin Process
  BY DescriptorsAssumption DEF Process, Program, Worker
<1>2. \A h : HubSocket(h) \notin ParentEnds(c)
  BY DEF HubSocket, ParentEnds, Request, Result, End
<1>3. TypeOK'
  BY <1>1, <1>2 DEF Inv, TypeOK, UserDisconnect, Closed
<1>4. \A q \in Program : holds'[q] \subseteq holds[q]
  BY <1>1 DEF Inv, TypeOK, UserDisconnect, Closed
<1> QED BY <1>3, <1>4, CloseInv DEF UserDisconnect

LEMMA HubConnectInv ==
    ASSUME Inv, NEW h \in Hub, HubConnect(h)
    PROVE  Inv'
<1>1. "main" \in Program /\ "main" \notin Process
  BY DescriptorsAssumption DEF Process, Program, Worker
<1>2. HubSocket(h) \in Descriptor /\ h # None
  BY DescriptorsAssumption DEF HubSocket, End, Descriptor
<1>3. /\ holds \in [Program -> SUBSET Descriptor]
      /\ holds' \in [Program -> SUBSET Descriptor]
      /\ holds'["main"] = holds["main"] \cup {HubSocket(h)}
      /\ \A p \in Program \ {"main"} : holds'[p] = holds[p]
  BY <1>1, <1>2 DEF HubConnect, Inv, TypeOK
<1>4. TypeOK'
  BY <1>1, <1>2, <1>3 DEF HubConnect, Inv, TypeOK, Program
<1>5. \A p \in Program : \A q : /\ Request(q) \in holds'[p] <=> Request(q) \in holds[p]
                                /\ End("out", q) \in holds'[p] <=> End("out", q) \in holds[p]
                                /\ Peer(q) \in holds'[p] <=> Peer(q) \in holds[p]
  BY <1>3 DEF HubSocket, Request, Peer, End
<1>6. UNCHANGED <<state, born>>
  BY DEF HubConnect
<1>7. BornInv' /\ PipesInv' /\ OwnInv'
  BY <1>5, <1>6 DEF Inv, BornInv, Started, PipesInv, OwnInv
<1>8. HeldByLater'
  BY <1>5, <1>6 DEF Inv, HeldByLater, Program
<1> QED BY <1>4, <1>7, <1>8 DEF Inv

LEMMA HubDisconnectInv ==
    ASSUME Inv, HubDisconnect \/ Quit
    PROVE  Inv'
<1>1. "main" \in Program /\ "main" \notin Process
  BY DescriptorsAssumption DEF Process, Program, Worker
<1>2. TypeOK'
  <2>1. /\ holds' \in [Program -> SUBSET Descriptor]
        /\ \A p \in Process : holds'[p] = holds[p]
    BY <1>1 DEF Inv, TypeOK, HubDisconnect, Quit, Closed, Program
  <2>2. hub_socket' = None /\ UNCHANGED <<state, connected, born>>
    BY DEF HubDisconnect, Quit
  <2> QED BY <2>1, <2>2 DEF Inv, TypeOK
<1>3. \A q \in Program : holds'[q] \subseteq holds[q]
  BY <1>1 DEF Inv, TypeOK, HubDisconnect, Quit, Closed
<1> QED BY <1>2, <1>3, CloseInv DEF HubDisconnect, Quit

LEMMA NextInv == Inv /\ [Next]_vars => Inv'
<1> SUFFICES ASSUME Inv, [Next]_vars PROVE Inv'
  OBVIOUS
<1>1. CASE UNCHANGED vars
  <2>1. TypeOK'
    BY <1>1 DEF vars, Inv, TypeOK
  <2> QED BY <1>1, <2>1, CloseInv DEF vars
<1>2. ASSUME NEW c \in Conn, UserConnectionNew(c) PROVE Inv'
  BY <1>2, UserConnectionNewInv
<1>3. ASSUME NEW c \in Conn, UserDisconnect(c) \/ ReadEof(c) PROVE Inv'
  BY <1>3, UserDisconnectInv DEF ReadEof
<1>4. ASSUME NEW s \in Shell, CmdShell(s) PROVE Inv'
  BY <1>4, CmdShellInv
<1>5. ASSUME NEW p \in Process, Exit(p) \/ NoticeEof(p) PROVE Inv'
  BY <1>5, GoneInv DEF Exit, NoticeEof
<1>6. ASSUME NEW h \in Hub, HubConnect(h) PROVE Inv'
  BY <1>6, HubConnectInv
<1>7. CASE HubDisconnect \/ Quit \/ QuitForWorker
  BY <1>7, HubDisconnectInv DEF QuitForWorker
<1> QED BY <1>1, <1>2, <1>3, <1>4, <1>5, <1>6, <1>7 DEF Next

(* The inductive invariant holds of the whole specification.               *)
THEOREM InvHolds == Spec => []Inv
<1> QED BY InitInv, NextInv, PTL DEF Spec

(* The types, and that a process that is not running holds nothing.        *)
THEOREM TypesHold == Spec => []TypeOK
<1>1. Inv => TypeOK
  BY DEF Inv
<1> QED BY <1>1, InvHolds, PTL

(* The writing end of a request pipe is held, but for its parent, only by  *)
(* processes that were started later: the copies that user_connection_new  *)
(* leaves in the children never form a circle.                             *)
THEOREM NoCircleOfPipes == Spec => []HeldByLater
<1>1. Inv => HeldByLater
  BY DEF Inv
<1> QED BY <1>1, InvHolds, PTL

(* When a user process is gone, nobody holds its end of the result pipe or *)
(* the socket to its peer, so main and the peer see its end.               *)
THEOREM ExitsAreSeen == Spec => []ExitIsSeen
<1>1. Inv => ExitIsSeen
  <2> SUFFICES ASSUME Inv, NEW c \in Conn, state[c] = "gone", NEW p \in Program,
                      End("out", c) \in holds[p] \/ Peer(c) \in holds[p]
               PROVE  FALSE
    BY DEF ExitIsSeen
  <2>1. p = c /\ c \in Process
    BY DEF Inv, OwnInv, Process
  <2> QED BY <2>1 DEF Inv, TypeOK
<1> QED BY <1>1, InvHolds, PTL

(* All three together, as the run checks them.                             *)
THEOREM PipeEndsHold == Spec => []PipeEndsSound
<1>1. TypeOK /\ HeldByLater /\ ExitIsSeen => PipeEndsSound
  BY DEF PipeEndsSound
<1> QED BY <1>1, TypesHold, NoCircleOfPipes, ExitsAreSeen, PTL

-----------------------------------------------------------------------------
(* The sockets of the main process *)

Record(p, l, f, r, n) ==
    [ports |-> p, listen |-> l, search |-> f, reads |-> r, listenPort |-> n]

(* What holds of the sockets between any two calls of set_active: the two  *)
(* sockets and descriptor 0 are open and different, and the one that       *)
(* listens has the port that is announced and is watched.                  *)
Kept(s) ==
    /\ \E p, l, f, r, n : s = Record(p, l, f, r, n)
    /\ Opened(s.ports) \subseteq Fd /\ 0 \in Opened(s.ports)
    /\ \A d \in Opened(s.ports) : s.ports[d] \in Port \cup {0}
    /\ s.reads \subseteq Fd /\ s.listenPort \in Port \cup {0}
    /\ s.search \in Opened(s.ports) \cup {NoSocket} /\ s.search # 0
    /\ s.listen \in Opened(s.ports) \cup {NoSocket} /\ s.listen # 0
    /\ s.listen # NoSocket =>
           s.listen # s.search /\ s.ports[s.listen] = s.listenPort /\ s.listen \in s.reads

(* The search socket has the number it was given at the start, and no      *)
(* other number than those of the sockets is watched.                      *)
First(s) == s.search = 1 /\ s.reads \subseteq {0, s.listen, s.search}

(* Results are received where other clients are told to send them.         *)
Heard(s) == s.search # NoSocket => s.ports[s.search] = s.listenPort /\ s.search \in s.reads

(* ReadsSomething, from the return of select on.                           *)
Found ==
    at \in {"input", "hub"} /\ search # NoSocket /\ search \in ready.read /\ datagrams = 0 =>
        "replaced" \in history

SocketsInv ==
    /\ SocketsTypeOK
    /\ Kept(Now)
    /\ listen # NoSocket => isActive
    /\ "lost" \notin history => First(Now) /\ writes \subseteq {1}
    /\ "unbound" \notin history => Heard(Now)
    /\ Found
    /\ UnsentIsWatched

-----------------------------------------------------------------------------
(* Opening and closing *)

LEMMA OpenedClosed ==
    ASSUME NEW p, NEW d
    PROVE  /\ Opened(Without(p, d)) = Opened(p) \ {d}
           /\ \A e \in Opened(p) \ {d} : Without(p, d)[e] = p[e]
  BY DEF Opened, Without

LEMMA OpenedWith ==
    ASSUME NEW p, NEW d, NEW port
    PROVE  /\ Opened(With(p, d, port)) = Opened(p) \cup {d}
           /\ With(p, d, port)[d] = port
           /\ \A e \in Opened(p) : e # d => With(p, d, port)[e] = p[e]
  BY DEF Opened, With

(* Where descriptor 0 stays open, 1 is the lowest number when it is free.  *)
LEMMA LowestIsFirst ==
    ASSUME SocketsAssumption, NEW p, NEW d, d \in Lowest(p), 0 \in Opened(p), 1 \notin Opened(p)
    PROVE  d = 1
  <1>1. d \in Nat /\ d # 0 /\ 1 \in Fd
    BY DEF Lowest, SocketsAssumption
  <1>2. ~(1 < d)
    BY <1>1 DEF Lowest
  <1> QED BY <1>1, <1>2

(* The fields of a record.                                                 *)
LEMMA FieldsAre ==
    ASSUME NEW p, NEW l, NEW f, NEW r, NEW n, NEW t, t = Record(p, l, f, r, n)
    PROVE  t.ports = p /\ t.listen = l /\ t.search = f /\ t.reads = r /\ t.listenPort = n
  BY DEF Record

(* The record with one field changed, as EXCEPT in Sockets changes it.     *)
SetPorts(s, v) == [s EXCEPT !.ports = v]
SetListen(s, v) == [s EXCEPT !.listen = v]
SetSearch(s, v) == [s EXCEPT !.search = v]
SetReads(s, v) == [s EXCEPT !.reads = v]
SetListenPort(s, v) == [s EXCEPT !.listenPort = v]

LEMMA FieldsChange ==
    ASSUME NEW p, NEW l, NEW f, NEW r, NEW n, NEW v, NEW s, s = Record(p, l, f, r, n)
    PROVE  /\ SetPorts(s, v) = Record(v, l, f, r, n)
           /\ SetListen(s, v) = Record(p, v, f, r, n)
           /\ SetSearch(s, v) = Record(p, l, v, r, n)
           /\ SetReads(s, v) = Record(p, l, f, v, n)
           /\ SetListenPort(s, v) = Record(p, l, f, r, v)
  <1>1. SetPorts(s, v) = Record(v, l, f, r, n)
    BY DEF Record, SetPorts
  <1>2. SetListen(s, v) = Record(p, v, f, r, n)
    BY DEF Record, SetListen
  <1>3. SetSearch(s, v) = Record(p, l, v, r, n)
    BY DEF Record, SetSearch
  <1>4. SetReads(s, v) = Record(p, l, f, v, n)
    BY DEF Record, SetReads
  <1>5. SetListenPort(s, v) = Record(p, l, f, r, v)
    BY DEF Record, SetListenPort
  <1> QED BY <1>1, <1>2, <1>3, <1>4, <1>5

(* What each half of set_active makes of the sockets.                      *)
LEMMA StoppedKeeps ==
    ASSUME SocketsAssumption, NEW s, Kept(s)
    PROVE  LET t == ListeningStopped(s)
           IN  /\ Kept(t) /\ t.listen = NoSocket /\ t.search = s.search
               /\ t.listenPort = s.listenPort
               /\ First(s) => First(t)
               /\ Heard(s) => Heard(t)
  <1> DEFINE t == ListeningStopped(s)
             p == Without(s.ports, s.listen)
  <1>1. /\ Opened(p) = Opened(s.ports) \ {s.listen}
        /\ \A e \in Opened(s.ports) \ {s.listen} : p[e] = s.ports[e]
    BY OpenedClosed
  <1>2. t = Record(p, NoSocket, s.search, s.reads \ {s.listen}, s.listenPort)
    <2>1. PICK p1, l1, f1, r1, n1 : s = Record(p1, l1, f1, r1, n1)
      BY DEF Kept
    <2>2. s.ports = p1 /\ s.listen = l1 /\ s.search = f1 /\ s.reads = r1 /\ s.listenPort = n1
      BY <2>1, FieldsAre
    <2> DEFINE t1 == SetPorts(s, p)
    <2> DEFINE t2 == SetReads(t1, s.reads \ {s.listen})
    <2> DEFINE t3 == SetListen(t2, NoSocket)
    <2>3. t = t3
      BY DEF ListeningStopped, SetListen, SetPorts, SetReads
    <2>4. t1 = Record(p, l1, f1, r1, n1)
      BY <2>1, FieldsChange
    <2> HIDE DEF t1
    <2>5. t2 = Record(p, l1, f1, s.reads \ {s.listen}, n1)
      BY <2>4, FieldsChange
    <2> HIDE DEF t2
    <2>6. t3 = Record(p, NoSocket, f1, s.reads \ {s.listen}, n1)
      BY <2>5, FieldsChange
    <2> HIDE DEF t3
    <2> QED BY <2>2, <2>3, <2>6
  <1> HIDE DEF p, t
  <1>3. /\ t.ports = p /\ t.listen = NoSocket /\ t.search = s.search
        /\ t.reads = s.reads \ {s.listen} /\ t.listenPort = s.listenPort
    BY <1>2, FieldsAre
  <1>4. NoSocket \notin Fd /\ 0 \in Fd
    BY DEF SocketsAssumption
  <1>5. s.search = NoSocket \/ s.search \in Opened(p)
    BY <1>1 DEF Kept
  <1>6. Kept(t)
    BY <1>1, <1>2, <1>3, <1>4, <1>5 DEF Kept
  <1>7. First(s) => First(t)
    BY <1>3 DEF First
  <1>8. Heard(s) => Heard(t)
    BY <1>1, <1>3, <1>5 DEF Heard
  <1> QED BY <1>3, <1>6, <1>7, <1>8 DEF t

(* A port that nothing listens at may be any.                              *)
LEMMA PortKeeps ==
    ASSUME SocketsAssumption, NEW s, Kept(s), s.listen = NoSocket, NEW port \in Port \cup {0}
    PROVE  LET t == [s EXCEPT !.listenPort = port]
           IN  Kept(t) /\ t.listen = NoSocket /\ (First(s) => First(t))
  <1> DEFINE t == [s EXCEPT !.listenPort = port]
  <1>2. t = Record(s.ports, s.listen, s.search, s.reads, port)
    <2>1. PICK p1, l1, f1, r1, n1 : s = Record(p1, l1, f1, r1, n1)
      BY DEF Kept
    <2>2. s.ports = p1 /\ s.listen = l1 /\ s.search = f1 /\ s.reads = r1 /\ s.listenPort = n1
      BY <2>1, FieldsAre
    <2> DEFINE t1 == SetListenPort(s, port)
    <2>3. t = t1
      BY DEF SetListenPort
    <2>4. t1 = Record(p1, l1, f1, r1, port)
      BY <2>1, FieldsChange
    <2> HIDE DEF t1
    <2> QED BY <2>2, <2>3, <2>4
  <1> HIDE DEF t
  <1>3. /\ t.ports = s.ports /\ t.listen = s.listen /\ t.search = s.search
        /\ t.reads = s.reads /\ t.listenPort = port
    BY <1>2, FieldsAre
  <1>4. Kept(t)
    BY <1>2, <1>3 DEF Kept
  <1> QED BY <1>3, <1>4 DEF First, t

LEMMA StartedKeeps ==
    ASSUME SocketsAssumption, NEW s, Kept(s), s.listen = NoSocket, NEW port \in Port \cup {0},
           NEW t \in ListeningStarted(s, port)
    PROVE  Kept(t) /\ (First(s) => First(t))
  <1>1. PICK d \in Fd, q \in Port \cup {0} :
            /\ d \in Lowest(s.ports)
            /\ t = [s EXCEPT !.ports = With(s.ports, d, q), !.listen = d, !.listenPort = q,
                             !.reads = s.reads \cup {d}]
    <2> DEFINE Made(q) == {[s EXCEPT !.ports = With(s.ports, d, q), !.listen = d, !.listenPort = q,
                                     !.reads = s.reads \cup {d}] : d \in Lowest(s.ports)}
               asked == IF port = 0 THEN Port ELSE {port}
    <2>1. t \in UNION {Made(q) : q \in asked}
      BY DEF ListeningStarted
    <2>2. \A q \in asked : q \in Port \cup {0}
      OBVIOUS
    <2> HIDE DEF Made, asked
    <2>3. PICK q \in asked : t \in Made(q)
      BY <2>1
    <2>4. \E d \in Lowest(s.ports) :
              t = [s EXCEPT !.ports = With(s.ports, d, q), !.listen = d, !.listenPort = q,
                            !.reads = s.reads \cup {d}]
      BY <2>3 DEF Made
    <2>5. Lowest(s.ports) \subseteq Fd
      BY DEF Lowest
    <2> QED BY <2>2, <2>4, <2>5, Zenon
  <1> DEFINE p == With(s.ports, d, q)
  <1>2. /\ Opened(p) = Opened(s.ports) \cup {d} /\ p[d] = q
        /\ \A e \in Opened(s.ports) : e # d => p[e] = s.ports[e]
    BY OpenedWith
  <1>3. t = Record(p, d, s.search, s.reads \cup {d}, q)
    <2>1. PICK p1, l1, f1, r1, n1 : s = Record(p1, l1, f1, r1, n1)
      BY DEF Kept
    <2>2. s.ports = p1 /\ s.listen = l1 /\ s.search = f1 /\ s.reads = r1 /\ s.listenPort = n1
      BY <2>1, FieldsAre
    <2> DEFINE t1 == SetPorts(s, p)
    <2> DEFINE t2 == SetListen(t1, d)
    <2> DEFINE t3 == SetListenPort(t2, q)
    <2> DEFINE t4 == SetReads(t3, s.reads \cup {d})
    <2>3. t = t4
      BY <1>1 DEF SetListen, SetListenPort, SetPorts, SetReads
    <2>4. t1 = Record(p, l1, f1, r1, n1)
      BY <2>1, FieldsChange
    <2> HIDE DEF t1
    <2>5. t2 = Record(p, d, f1, r1, n1)
      BY <2>4, FieldsChange
    <2> HIDE DEF t2
    <2>6. t3 = Record(p, d, f1, r1, q)
      BY <2>5, FieldsChange
    <2> HIDE DEF t3
    <2>7. t4 = Record(p, d, f1, s.reads \cup {d}, q)
      BY <2>6, FieldsChange
    <2> HIDE DEF t4
    <2> QED BY <2>2, <2>3, <2>7
  <1> HIDE DEF p
  <1>4. /\ t.ports = p /\ t.listen = d /\ t.search = s.search
        /\ t.reads = s.reads \cup {d} /\ t.listenPort = q
    BY <1>3, FieldsAre
  <1>5. d \notin Opened(s.ports) /\ d # NoSocket
    BY <1>1 DEF Lowest, SocketsAssumption
  <1>6. d # 0 /\ d # s.search
    BY <1>5 DEF Kept
  <1>7. \A e \in Opened(p) : p[e] \in Port \cup {0}
    BY <1>2, <1>5 DEF Kept
  <1>8. Kept(t)
    BY <1>2, <1>3, <1>4, <1>5, <1>6, <1>7 DEF Kept
  <1>9. First(s) => First(t)
    <2>1. NoSocket \notin s.reads
      BY DEF Kept, SocketsAssumption
    <2> QED BY <1>4, <2>1 DEF First
  <1> QED BY <1>8, <1>9

(* The new search socket, bound to a port or not, gets the old number.     *)
LEMMA OpenedAgain ==
    ASSUME SocketsAssumption, NEW s, Kept(s), NEW d, d \in Lowest(Without(s.ports, s.search)),
           NEW port \in Port \cup {0}, NEW reads2, reads2 = s.reads \/ reads2 = s.reads \cup {d}, NEW t,
           t = Record(With(Without(s.ports, s.search), d, port), s.listen, d, reads2, s.listenPort)
    PROVE  /\ Kept(t) /\ t.search # NoSocket /\ t.ports[t.search] = port /\ t.listen = s.listen
           /\ First(s) => First(t)
  <1> DEFINE gone == Without(s.ports, s.search)
             p == With(gone, d, port)
  <1>1. /\ Opened(gone) = Opened(s.ports) \ {s.search}
        /\ \A e \in Opened(s.ports) \ {s.search} : gone[e] = s.ports[e]
    BY OpenedClosed
  <1>2. /\ Opened(p) = Opened(gone) \cup {d} /\ p[d] = port
        /\ \A e \in Opened(gone) : e # d => p[e] = gone[e]
    BY OpenedWith
  <1>3. /\ t.ports = p /\ t.listen = s.listen /\ t.search = d
        /\ t.reads = reads2 /\ t.listenPort = s.listenPort
    BY FieldsAre
  <1>4. \E p1, l1, f1, r1, n1 : t = Record(p1, l1, f1, r1, n1)
    BY Zenon
  <1>5. d \in Fd /\ d \notin Opened(gone) /\ d # NoSocket
    BY DEF Lowest, SocketsAssumption
  <1>6. 0 \in Opened(gone) /\ d # 0
    BY <1>1, <1>5 DEF Kept
  <1>7. First(s) => d = 1
    <2> SUFFICES ASSUME First(s) PROVE d = 1
      OBVIOUS
    <2>1. 1 \notin Opened(gone)
      BY <1>1 DEF First
    <2> QED BY <2>1, <1>6, LowestIsFirst
  <1> HIDE DEF gone, p
  <1>8. \A e \in Opened(p) : p[e] \in Port \cup {0}
    BY <1>1, <1>2, <1>5 DEF Kept
  <1>9. s.listen # NoSocket => s.listen \in Opened(gone) /\ s.listen # d /\ p[s.listen] = s.listenPort
    BY <1>1, <1>2, <1>5 DEF Kept
  <1>10. Opened(p) \subseteq Fd /\ reads2 \subseteq Fd
    BY <1>1, <1>2, <1>5 DEF Kept
  <1>11. s.listen # NoSocket => s.listen \in reads2
    BY DEF Kept
  <1>12. s.listen \in Opened(p) \cup {NoSocket} /\ s.listen # 0 /\ s.listenPort \in Port \cup {0}
    BY <1>2, <1>9 DEF Kept
  <1>13. Kept(t)
    BY <1>2, <1>3, <1>4, <1>5, <1>6, <1>8, <1>9, <1>10, <1>11, <1>12 DEF Kept
  <1>14. First(s) => First(t)
    BY <1>3, <1>7 DEF First
  <1> QED BY <1>2, <1>3, <1>5, <1>13, <1>14

LEMMA ReplacedKeeps ==
    ASSUME SocketsAssumption, NEW s, Kept(s), NEW t \in SearchReplaced(s)
    PROVE  Kept(t) /\ Heard(t) /\ t.listen = s.listen /\ (First(s) => First(t))
  <1>1. PICK d \in Fd :
            /\ d \in Lowest(Without(s.ports, s.search))
            /\ t = [s EXCEPT !.ports = With(Without(s.ports, s.search), d, s.listenPort),
                             !.search = d, !.reads = s.reads \cup {d}]
    <2>1. PICK d \in Lowest(Without(s.ports, s.search)) :
              t = [s EXCEPT !.ports = With(Without(s.ports, s.search), d, s.listenPort),
                            !.search = d, !.reads = s.reads \cup {d}]
      BY DEF SearchReplaced
    <2>2. d \in Fd
      BY DEF Lowest
    <2> QED BY <2>1, <2>2, Zenon
  <1> DEFINE p == With(Without(s.ports, s.search), d, s.listenPort)
  <1>2. t = Record(p, s.listen, d, s.reads \cup {d}, s.listenPort)
    <2>1. PICK p1, l1, f1, r1, n1 : s = Record(p1, l1, f1, r1, n1)
      BY DEF Kept
    <2>2. s.ports = p1 /\ s.listen = l1 /\ s.search = f1 /\ s.reads = r1 /\ s.listenPort = n1
      BY <2>1, FieldsAre
    <2> DEFINE t1 == SetPorts(s, p)
    <2> DEFINE t2 == SetSearch(t1, d)
    <2> DEFINE t3 == SetReads(t2, s.reads \cup {d})
    <2>3. t = t3
      BY <1>1 DEF SetPorts, SetReads, SetSearch
    <2>4. t1 = Record(p, l1, f1, r1, n1)
      BY <2>1, FieldsChange
    <2> HIDE DEF t1
    <2>5. t2 = Record(p, l1, d, r1, n1)
      BY <2>4, FieldsChange
    <2> HIDE DEF t2
    <2>6. t3 = Record(p, l1, d, s.reads \cup {d}, n1)
      BY <2>5, FieldsChange
    <2> HIDE DEF t3
    <2> QED BY <2>2, <2>3, <2>6
  <1>3. s.listenPort \in Port \cup {0}
    BY DEF Kept
  <1>4. /\ Kept(t) /\ t.ports[t.search] = s.listenPort /\ t.listen = s.listen
        /\ First(s) => First(t)
    <2>2. d \in Lowest(Without(s.ports, s.search))
      BY <1>1, Zenon
    <2> QED BY <1>2, <1>3, <2>2, OpenedAgain
  <1>5. t.search = d /\ t.reads = s.reads \cup {d} /\ t.listenPort = s.listenPort
    BY <1>2, FieldsAre
  <1> QED BY <1>4, <1>5 DEF Heard

LEMMA UnboundKeeps ==
    ASSUME SocketsAssumption, NEW s, Kept(s), NEW t \in SearchUnbound(s)
    PROVE  Kept(t) /\ t.listen = s.listen /\ (First(s) => First(t))
  <1>1. PICK d \in Fd :
            /\ d \in Lowest(Without(s.ports, s.search))
            /\ t = [s EXCEPT !.ports = With(Without(s.ports, s.search), d, 0), !.search = d]
    <2>1. PICK d \in Lowest(Without(s.ports, s.search)) :
              t = [s EXCEPT !.ports = With(Without(s.ports, s.search), d, 0), !.search = d]
      BY DEF SearchUnbound
    <2>2. d \in Fd
      BY DEF Lowest
    <2> QED BY <2>1, <2>2, Zenon
  <1> DEFINE p == With(Without(s.ports, s.search), d, 0)
  <1>2. t = Record(p, s.listen, d, s.reads, s.listenPort)
    <2>1. PICK p1, l1, f1, r1, n1 : s = Record(p1, l1, f1, r1, n1)
      BY DEF Kept
    <2>2. s.ports = p1 /\ s.listen = l1 /\ s.search = f1 /\ s.reads = r1 /\ s.listenPort = n1
      BY <2>1, FieldsAre
    <2> DEFINE t1 == SetPorts(s, p)
    <2> DEFINE t2 == SetSearch(t1, d)
    <2>3. t = t2
      BY <1>1 DEF SetPorts, SetSearch
    <2>4. t1 = Record(p, l1, f1, r1, n1)
      BY <2>1, FieldsChange
    <2> HIDE DEF t1
    <2>5. t2 = Record(p, l1, d, r1, n1)
      BY <2>4, FieldsChange
    <2> HIDE DEF t2
    <2> QED BY <2>2, <2>3, <2>5
  <1>3. 0 \in Port \cup {0}
    OBVIOUS
  <1>4. d \in Lowest(Without(s.ports, s.search))
    BY <1>1, Zenon
  <1> QED BY <1>2, <1>3, <1>4, OpenedAgain

LEMMA LostKeeps ==
    ASSUME SocketsAssumption, NEW s, Kept(s)
    PROVE  Kept(SearchLost(s)) /\ SearchLost(s).search = NoSocket /\ SearchLost(s).listen = s.listen
  <1> DEFINE t == SearchLost(s)
             p == Without(s.ports, s.search)
  <1>1. /\ Opened(p) = Opened(s.ports) \ {s.search}
        /\ \A e \in Opened(s.ports) \ {s.search} : p[e] = s.ports[e]
    BY OpenedClosed
  <1>2. t = Record(p, s.listen, NoSocket, s.reads, s.listenPort)
    <2>1. PICK p1, l1, f1, r1, n1 : s = Record(p1, l1, f1, r1, n1)
      BY DEF Kept
    <2>2. s.ports = p1 /\ s.listen = l1 /\ s.search = f1 /\ s.reads = r1 /\ s.listenPort = n1
      BY <2>1, FieldsAre
    <2> DEFINE t1 == SetPorts(s, p)
    <2> DEFINE t2 == SetSearch(t1, NoSocket)
    <2>3. t = t2
      BY DEF SearchLost, SetPorts, SetSearch
    <2>4. t1 = Record(p, l1, f1, r1, n1)
      BY <2>1, FieldsChange
    <2> HIDE DEF t1
    <2>5. t2 = Record(p, l1, NoSocket, r1, n1)
      BY <2>4, FieldsChange
    <2> HIDE DEF t2
    <2> QED BY <2>2, <2>3, <2>5
  <1> HIDE DEF p, t
  <1>3. /\ t.ports = p /\ t.listen = s.listen /\ t.search = NoSocket
        /\ t.reads = s.reads /\ t.listenPort = s.listenPort
    BY <1>2, FieldsAre
  <1>4. NoSocket \notin Fd /\ 0 \in Fd
    BY DEF SocketsAssumption
  <1>5. Kept(t)
    BY <1>1, <1>2, <1>3, <1>4 DEF Kept
  <1> QED BY <1>3, <1>5 DEF t
-----------------------------------------------------------------------------
(* The steps *)

LEMMA NowIs ==
    /\ Now = Record(ports, listen, search, reads, listenPort)
    /\ Now.ports = ports /\ Now.listen = listen /\ Now.search = search
    /\ Now.reads = reads /\ Now.listenPort = listenPort
  BY DEF Now, Record

LEMMA Becomes ==
    ASSUME NEW s, Kept(s), Become(s)
    PROVE  Now' = s
  <1>1. PICK p, l, f, r, n : s = Record(p, l, f, r, n)
    BY DEF Kept
  <1>2. ports' = p /\ listen' = l /\ search' = f /\ reads' = r /\ listenPort' = n
    BY <1>1, FieldsAre DEF Become
  <1> QED BY <1>1, <1>2 DEF Now, Record

LEMMA NextNowIs ==
    /\ Now'.ports = ports' /\ Now'.listen = listen' /\ Now'.search = search'
    /\ Now'.reads = reads' /\ Now'.listenPort = listenPort'
  BY DEF Now

(* What SocketsTypeOK says of the sockets.                                        *)
LEMMA NextSockets ==
    ASSUME Kept(Now)'
    PROVE  /\ Opened(ports') \subseteq Fd
           /\ \A d \in Opened(ports') : ports'[d] \in Port \cup {0}
           /\ listen' \in Opened(ports') \cup {NoSocket} /\ search' \in Opened(ports') \cup {NoSocket}
           /\ reads' \subseteq Fd /\ listenPort' \in Port \cup {0}
  BY NextNowIs DEF Kept

(* The first half of set_active.                                           *)
LEMMA SwitchedKeeps ==
    ASSUME SocketsAssumption, NEW r, Kept(r), r = Now,
           NEW newActive \in BOOLEAN, NEW port \in Port \cup {0},
           NEW s \in Switched(newActive, port)
    PROVE  /\ Kept(s) /\ (First(r) => First(s))
           /\ s.listen # NoSocket => newActive
  <1> DEFINE t == ListeningStopped(r)
  <1>1. Kept(t) /\ t.listen = NoSocket /\ (First(r) => First(t))
    BY StoppedKeeps
  <1>2. CASE newActive
    <2>1. s \in ListeningStarted(t, port)
      BY <1>2 DEF Switched
    <2> HIDE DEF t
    <2> QED BY <1>1, <1>2, <2>1, StartedKeeps
  <1>3. CASE ~newActive
    <2>1. s = [t EXCEPT !.listenPort = port]
      BY <1>3 DEF Switched
    <2> HIDE DEF t
    <2> QED BY <1>1, <2>1, PortKeeps
  <1> QED BY <1>2, <1>3

LEMMA SetActiveInv ==
    ASSUME SocketsAssumption, SocketsInv, NEW newActive \in BOOLEAN, NEW port \in Port \cup {0},
           SetActive(newActive, port), UNCHANGED <<ready, at, running>>
    PROVE  SocketsInv'
  <1>1. Kept(Now) /\ SocketsTypeOK
    BY DEF SocketsInv
  <1>2. CASE SetActiveFails(newActive)
    <2> DEFINE t == ListeningStopped(Now)
    <2>1. /\ Kept(t) /\ t.listen = NoSocket /\ t.search = search
          /\ First(Now) => First(t)
          /\ Heard(Now) => Heard(t)
      BY <1>1, StoppedKeeps, NowIs
    <2>2. Become(t) /\ UNCHANGED <<writes, isActive, datagrams, out, history>>
      BY <1>2 DEF SetActiveFails
    <2> HIDE DEF t
    <2>3. Now' = t
      BY <2>1, <2>2, Becomes
    <2>4. listen' = NoSocket /\ search' = search
      BY <2>1, <2>2 DEF Become
    <2>5. Kept(Now)' /\ (First(Now) => First(Now)') /\ (Heard(Now) => Heard(Now)')
      BY <2>1, <2>3
    <2>6. SocketsTypeOK'
      BY <1>1, <2>2, <2>5, NextSockets DEF SocketsTypeOK
    <2> QED
      BY <2>2, <2>4, <2>5, <2>6 DEF SocketsInv, Found, UnsentIsWatched
  <1>3. CASE SetActiveSucceeds(newActive, port)
    <2>1. isActive' = newActive /\ datagrams' = 0 /\ UNCHANGED <<writes, out>>
      BY <1>3 DEF SetActiveSucceeds
    <2>2. listenPort \in Port \cup {0} /\ port \in Port \cup {0}
      BY <1>1 DEF SocketsTypeOK
    <2>3. PICK s \in Switched(newActive, port) :
              \/ \E t \in SearchReplaced(s) :
                     Become(t) /\ history' = (history \ {"unbound"}) \cup {"replaced"}
              \/ \E t \in SearchUnbound(s) :
                     Become(t) /\ history' = history \cup {"replaced", "unbound"}
              \/ Become(SearchLost(s)) /\ history' = history \cup {"lost"}
      BY <1>3, Zenon DEF SetActiveSucceeds, Happened
    <2>4. Kept(s) /\ (First(Now) => First(s)) /\ (s.listen # NoSocket => newActive)
      BY <1>1, SwitchedKeeps
    <2>5. ASSUME NEW t, Kept(t), Become(t), t.listen = s.listen,
                 "lost" \notin history' => "lost" \notin history /\ (First(s) => First(t)),
                 "unbound" \notin history' => Heard(t),
                 "replaced" \in history' \/ t.search = NoSocket,
                 history \ {"unbound"} \subseteq history',
                 history' \subseteq history \cup {"replaced", "unbound", "lost"}
          PROVE  SocketsInv'
      <3>1. Now' = t
        BY <2>5, Becomes
      <3>2. listen' = s.listen /\ search' = t.search
        BY <2>5 DEF Become
      <3>3. Kept(Now)' /\ ("unbound" \notin history' => Heard(Now)')
        BY <2>5, <3>1
      <3>4. "lost" \notin history' => First(Now)' /\ writes' \subseteq {1}
        BY <2>1, <2>4, <2>5, <3>1 DEF SocketsInv
      <3>5. SocketsTypeOK'
        BY <1>1, <2>1, <2>5, <3>3, NextSockets DEF SocketsTypeOK
      <3>6. listen' # NoSocket => isActive'
        BY <2>1, <2>4, <3>2
      <3>7. Found'
        BY <2>5, <3>2 DEF Found
      <3>8. UnsentIsWatched'
        <4>1. CASE "lost" \in history'
          BY <4>1 DEF UnsentIsWatched
        <4>2. CASE "lost" \notin history'
          <5>1. search = 1 /\ search' = 1
            BY <4>2, <2>5, <3>4, NowIs, NextNowIs DEF SocketsInv, First
          <5> QED BY <2>1, <2>5, <5>1 DEF SocketsInv, UnsentIsWatched
        <4> QED BY <4>1, <4>2
      <3> QED BY <3>3, <3>4, <3>5, <3>6, <3>7, <3>8 DEF SocketsInv
    <2>6. CASE \E t \in SearchReplaced(s) :
                   Become(t) /\ history' = (history \ {"unbound"}) \cup {"replaced"}
      <3>1. PICK t \in SearchReplaced(s) :
                Become(t) /\ history' = (history \ {"unbound"}) \cup {"replaced"}
        BY <2>6
      <3>2. Kept(t) /\ Heard(t) /\ t.listen = s.listen /\ (First(s) => First(t))
        BY <2>4, ReplacedKeeps
      <3> QED BY <2>5, <3>1, <3>2
    <2>7. CASE \E t \in SearchUnbound(s) :
                   Become(t) /\ history' = history \cup {"replaced", "unbound"}
      <3>1. PICK t \in SearchUnbound(s) :
                Become(t) /\ history' = history \cup {"replaced", "unbound"}
        BY <2>7
      <3>2. Kept(t) /\ t.listen = s.listen /\ (First(s) => First(t))
        BY <2>4, UnboundKeeps
      <3> QED BY <2>5, <3>1, <3>2
    <2>8. CASE Become(SearchLost(s)) /\ history' = history \cup {"lost"}
      <3> DEFINE t == SearchLost(s)
      <3>1. Kept(t) /\ t.listen = s.listen /\ t.search = NoSocket
        BY <2>4, LostKeeps
      <3>2. Heard(t)
        BY <3>1 DEF Heard
      <3> HIDE DEF t
      <3>3. Become(t)
        BY <2>8 DEF t
      <3> QED BY <2>5, <2>8, <3>1, <3>2, <3>3
    <2> QED BY <2>3, <2>6, <2>7, <2>8
  <1> QED BY <1>2, <1>3 DEF SetActive

(* The parts of SocketsInv that are about the sockets.                            *)
Switches ==
    /\ Kept(Now)
    /\ listen # NoSocket => isActive
    /\ "lost" \notin history => First(Now) /\ writes \subseteq {1}
    /\ "unbound" \notin history => Heard(Now)

(* The rest of the loop leaves the sockets as they are.                    *)
LEMMA SocketsStay ==
    ASSUME SocketsInv, UNCHANGED <<ports, listen, search, reads, isActive, listenPort>>,
           "lost" \in history' <=> "lost" \in history,
           "unbound" \in history' <=> "unbound" \in history,
           "lost" \notin history' => writes' \subseteq {1}
    PROVE  Switches'
  <1>1. Now' = Now
    BY DEF Now
  <1> QED BY <1>1 DEF SocketsInv, Switches

(* Descriptors that are opened and closed besides them.                    *)
LEMMA OthersKeep ==
    ASSUME SocketsAssumption, SocketsInv, UNCHANGED <<listen, search, reads, writes, isActive, listenPort, history>>,
           NEW d,
           \/ d \in Lowest(ports) /\ ports' = With(ports, d, 0)
           \/ d \notin {0, listen, search} /\ ports' = Without(ports, d)
    PROVE  Switches'
  <1>1. Kept(Now) /\ 0 \in Opened(ports) /\ Opened(ports) \subseteq Fd
    BY NowIs DEF SocketsInv, Kept
  <1>2. /\ \A e \in Opened(ports) : e \in {0, listen, search} => e \in Opened(ports') /\ ports'[e] = ports[e]
        /\ Opened(ports') \subseteq Fd
        /\ \A e \in Opened(ports') : ports'[e] \in Port \cup {0}
    <2>1. CASE d \in Lowest(ports) /\ ports' = With(ports, d, 0)
      <3>1. d \in Fd /\ d \notin Opened(ports)
        BY <2>1 DEF Lowest
      <3>2. /\ Opened(ports') = Opened(ports) \cup {d} /\ ports'[d] = 0
            /\ \A e \in Opened(ports) : e # d => ports'[e] = ports[e]
        BY <2>1, OpenedWith
      <3> QED BY <1>1, <3>1, <3>2, NowIs DEF Kept
    <2>2. CASE d \notin {0, listen, search} /\ ports' = Without(ports, d)
      <3>1. /\ Opened(ports') = Opened(ports) \ {d}
            /\ \A e \in Opened(ports) \ {d} : ports'[e] = ports[e]
        BY <2>2, OpenedClosed
      <3> QED BY <1>1, <2>2, <3>1, NowIs DEF Kept
    <2> QED BY <2>1, <2>2
  <1>3. \E p, l, f, r, n : Now' = Record(p, l, f, r, n)
    <2>1. Now' = Record(ports', listen', search', reads', listenPort')
      BY DEF Now, Record
    <2> QED BY <2>1
  <1>4. Kept(Now)'
    BY <1>1, <1>2, <1>3, NowIs, NextNowIs DEF Kept
  <1>5. "lost" \notin history' => First(Now)' /\ writes' \subseteq {1}
    BY NowIs, NextNowIs DEF SocketsInv, First
  <1>6. "unbound" \notin history' => Heard(Now)'
    <2>1. search \in Opened(ports) \cup {NoSocket}
      BY <1>1, NowIs DEF Kept
    <2> QED BY <1>2, <2>1, NowIs, NextNowIs DEF SocketsInv, Heard
  <1> QED BY <1>4, <1>5, <1>6 DEF Switches, SocketsInv

LEMMA SwitchesInv ==
    ASSUME Switches', SocketsTypeOK', Found', UnsentIsWatched'
    PROVE  SocketsInv'
  BY DEF Switches, SocketsInv

LEMMA LoopInv ==
    ASSUME SocketsAssumption, SocketsInv,
           \/ InputDone \/ Select \/ SelectFails \/ AddSearchResult
           \/ SearchInputAvailable \/ SearchNowWritable \/ Arrive
    PROVE  SocketsInv'
  <1>1. SocketsTypeOK /\ Found /\ UnsentIsWatched /\ MaxOut \in Nat
    BY DEF SocketsInv, SocketsAssumption
  <1>2. "lost" \notin history => search = 1 /\ writes \subseteq {1}
    BY NowIs DEF SocketsInv, First
  <1>3. search \in Fd \cup {NoSocket}
    BY <1>1 DEF SocketsTypeOK
  <1>4. out \in 0..MaxOut /\ datagrams \in {0, 1}
    BY <1>1 DEF SocketsTypeOK
  <1>5. CASE InputDone
    <2>1. Switches'
      BY <1>2, <1>5, SocketsStay DEF InputDone, sockets
    <2>2. SocketsTypeOK' /\ Found' /\ UnsentIsWatched'
      BY <1>1, <1>5 DEF InputDone, sockets, SocketsTypeOK, Found, UnsentIsWatched
    <2> QED BY <2>1, <2>2, SwitchesInv
  <1>6. CASE Select
    <2>1. PICK w \in {{}, writes} :
              ready' = [read |-> {d \in reads : d = search /\ datagrams > 0}, write |-> w]
      BY <1>6 DEF Select
    <2>2. /\ UNCHANGED <<sockets, datagrams, out, running, history>> /\ at' = "input"
      BY <1>6 DEF Select
    <2>3. ready'.read = {d \in reads : d = search /\ datagrams > 0} /\ ready'.write = w
      BY <2>1
    <2>4. Switches'
      BY <1>2, <2>2, SocketsStay DEF sockets
    <2>5. SocketsTypeOK'
      BY <1>1, <2>2, <2>3 DEF sockets, SocketsTypeOK
    <2>6. Found'
      <3>1. search \in ready'.read => datagrams > 0
        BY <2>3
      <3>2. search' = search /\ datagrams' = datagrams
        BY <2>2 DEF sockets
      <3> QED BY <3>1, <3>2 DEF Found
    <2>7. UnsentIsWatched'
      BY <1>1, <2>2 DEF sockets, UnsentIsWatched
    <2> QED BY <2>4, <2>5, <2>6, <2>7, SwitchesInv
  <1>7. CASE SelectFails
    <2>1. Switches'
      BY <1>2, <1>7, SocketsStay DEF SelectFails, sockets
    <2>2. SocketsTypeOK' /\ Found' /\ UnsentIsWatched'
      BY <1>1, <1>7 DEF SelectFails, sockets, SocketsTypeOK, Found, UnsentIsWatched
    <2> QED BY <2>1, <2>2, SwitchesInv
  <1>8. CASE AddSearchResult
    <2>1. /\ at = "hub" /\ out < MaxOut /\ out' = out + 1
          /\ UNCHANGED <<ports, listen, search, reads, isActive, listenPort, datagrams, ready, at>>
      BY <1>8 DEF AddSearchResult
    <2>2. CASE search = NoSocket
      <3>1. history' = history \cup {"bit -1"} /\ running' = FALSE /\ UNCHANGED writes
        BY <1>8, <2>2 DEF AddSearchResult, Happened
      <3>2. Switches'
        BY <1>2, <2>1, <3>1, SocketsStay
      <3>3. SocketsTypeOK' /\ Found' /\ UnsentIsWatched'
        <4>1. out' \in 0..MaxOut
          BY <1>1, <1>4, <2>1
        <4>2. SocketsTypeOK'
          BY <1>1, <2>1, <3>1, <4>1 DEF SocketsTypeOK
        <4>3. Found' /\ UnsentIsWatched'
          BY <2>1, <2>2, <3>1 DEF Found, UnsentIsWatched
        <4> QED BY <4>2, <4>3
      <3> QED BY <3>2, <3>3, SwitchesInv
    <2>3. CASE search # NoSocket
      <3>1. writes' = writes \cup {search} /\ history' = history \ {"stalled"} /\ UNCHANGED running
        BY <1>8, <2>3 DEF AddSearchResult
      <3>2. Switches'
        BY <1>2, <2>1, <3>1, SocketsStay
      <3>3. SocketsTypeOK' /\ Found' /\ UnsentIsWatched'
        <4>1. out' \in 0..MaxOut
          BY <1>1, <1>4, <2>1
        <4>2. writes' \subseteq Fd /\ history' \subseteq history
          BY <1>1, <1>3, <2>3, <3>1 DEF SocketsTypeOK
        <4>3. SocketsTypeOK'
          BY <1>1, <2>1, <3>1, <4>1, <4>2 DEF SocketsTypeOK
        <4>4. Found' /\ UnsentIsWatched'
          BY <1>1, <2>1, <2>3, <3>1 DEF Found, UnsentIsWatched
        <4> QED BY <4>3, <4>4
      <3> QED BY <3>2, <3>3, SwitchesInv
    <2> QED BY <2>2, <2>3
  <1>9. CASE SearchInputAvailable
    <2>1. /\ at = "hub" /\ at' = "search output" /\ UNCHANGED <<sockets, out, ready>>
      BY <1>9 DEF SearchInputAvailable
    <2>2. /\ datagrams' \in {datagrams, datagrams - 1} /\ (datagrams = 0 => datagrams' = datagrams)
          /\ running' \in BOOLEAN /\ history' \in {history, history \cup {"nothing read"}}
      BY <1>1, <1>9 DEF SearchInputAvailable, Happened, SocketsTypeOK
    <2>3. Switches'
      BY <1>2, <2>1, <2>2, SocketsStay DEF sockets
    <2>4. SocketsTypeOK'
      <3>1. datagrams' \in {0, 1}
        <4>1. CASE datagrams = 0
          BY <2>2, <4>1
        <4>2. CASE datagrams = 1
          <5>1. datagrams' = datagrams \/ datagrams' = datagrams - 1
            BY <2>2, Zenon
          <5> QED BY <4>2, <5>1
        <4> QED BY <1>4, <4>1, <4>2
      <3>2. history' \subseteq {"replaced", "unbound", "lost", "bit -1", "nothing read", "stalled"}
        BY <1>1, <2>2 DEF SocketsTypeOK
      <3> QED BY <1>1, <2>1, <2>2, <3>1, <3>2 DEF SocketsTypeOK, sockets
    <2>5. Found' /\ UnsentIsWatched'
      BY <1>1, <2>1, <2>2 DEF Found, UnsentIsWatched, sockets
    <2> QED BY <2>3, <2>4, <2>5, SwitchesInv
  <1>10. CASE SearchNowWritable
    <2>1. /\ at' = "select" /\ ready' = [read |-> {}, write |-> {}]
          /\ UNCHANGED <<ports, listen, search, reads, isActive, listenPort, datagrams, running>>
      BY <1>10 DEF SearchNowWritable
    <2>2. ready'.read = {} /\ ready'.write = {}
      BY <2>1
    <2>3. /\ writes' \in {writes, writes \ {search}} /\ out' \in 0..MaxOut
          /\ history \ {"replaced", "stalled"} \subseteq history'
          /\ history' \subseteq history \cup {"stalled"}
          /\ UnsentIsWatched'
      <3>1. CASE search # NoSocket /\ search \in ready.write
        <4>1. PICK sent \in 0..out :
                  /\ out' = out - sent
                  /\ history' = (history \ {"replaced", "stalled"}) \cup
                                    (IF sent < out THEN {"stalled"} ELSE {})
          BY <1>10, <3>1 DEF SearchNowWritable
        <4>2. writes' = writes \ {search}
          BY <1>10, <3>1 DEF SearchNowWritable
        <4>3. out \in 0..MaxOut
          BY <1>1 DEF SocketsTypeOK
        <4>4. out' \in 0..MaxOut /\ (out' > 0 => sent < out)
          BY <1>1, <4>1, <4>3
        <4>5. UnsentIsWatched'
          BY <4>1, <4>4 DEF UnsentIsWatched
        <4> QED BY <4>1, <4>2, <4>4, <4>5
      <3>2. CASE ~(search # NoSocket /\ search \in ready.write)
        <4>1. history' = history \ {"replaced"} /\ UNCHANGED <<out, writes>>
          BY <1>10, <3>2 DEF SearchNowWritable
        <4> QED BY <1>1, <2>1, <4>1 DEF UnsentIsWatched, SocketsTypeOK
      <3> QED BY <3>1, <3>2
    <2>4. Switches'
      BY <1>2, <2>1, <2>3, SocketsStay
    <2>5. SocketsTypeOK'
      BY <1>1, <2>1, <2>2, <2>3 DEF SocketsTypeOK
    <2>6. Found'
      BY <2>1 DEF Found
    <2> QED BY <2>3, <2>4, <2>5, <2>6, SwitchesInv
  <1>11. CASE Arrive
    <2>1. Switches'
      BY <1>2, <1>11, SocketsStay DEF Arrive, sockets
    <2>2. SocketsTypeOK' /\ Found' /\ UnsentIsWatched'
      BY <1>1, <1>11 DEF Arrive, sockets, SocketsTypeOK, Found, UnsentIsWatched
    <2> QED BY <2>1, <2>2, SwitchesInv
  <1> QED BY <1>5, <1>6, <1>7, <1>8, <1>9, <1>10, <1>11

LEMMA OtherInv ==
    ASSUME SocketsAssumption, SocketsInv, OpenOther \/ CloseOther
    PROVE  SocketsInv'
  <1>1. UNCHANGED <<listen, search, reads, writes, isActive, listenPort, datagrams, out, ready, at,
                    running, history>>
    BY DEF OpenOther, CloseOther
  <1>2. Switches'
    <2>1. \E d : \/ d \in Lowest(ports) /\ ports' = With(ports, d, 0)
                 \/ d \notin {0, listen, search} /\ ports' = Without(ports, d)
      BY DEF OpenOther, CloseOther
    <2> QED BY <1>1, <2>1, OthersKeep
  <1>3. Kept(Now)'
    BY <1>2 DEF Switches
  <1>4. SocketsTypeOK'
    BY <1>1, <1>3, NextSockets DEF SocketsTypeOK, SocketsInv
  <1> QED BY <1>1, <1>2, <1>4, SwitchesInv DEF SocketsInv, Found, UnsentIsWatched

LEMMA SocketsInitInv ==
    ASSUME SocketsAssumption, SocketsInit
    PROVE  SocketsInv
  <1>1. ports = [d \in {0, 1} |-> 0] /\ Opened(ports) = {0, 1} /\ ports[0] = 0 /\ ports[1] = 0
    BY DEF SocketsInit, Opened
  <1>2. 0 \in Fd /\ 1 \in Fd /\ NoSocket # 0 /\ NoSocket # 1 /\ MaxOut \in Nat
    BY DEF SocketsAssumption
  <1>3. \E p, l, f, r, n : Now = Record(p, l, f, r, n)
    BY NowIs, Zenon
  <1>4. Kept(Now) /\ First(Now) /\ Heard(Now)
    BY <1>1, <1>2, <1>3, NowIs DEF SocketsInit, Kept, First, Heard
  <1>5. SocketsTypeOK
    <2>1. ready.read = {} /\ ready.write = {}
      BY DEF SocketsInit
    <2>2. listen = NoSocket /\ search = 1 /\ reads = {0, 1} /\ out = 0 /\ listenPort = 0
      BY DEF SocketsInit
    <2>3. /\ Opened(ports) \subseteq Fd /\ \A d \in Opened(ports) : ports[d] \in Port \cup {0}
          /\ listen \in Opened(ports) \cup {NoSocket} /\ search \in Opened(ports) \cup {NoSocket}
          /\ reads \subseteq Fd /\ listenPort \in Port \cup {0} /\ out \in 0..MaxOut
      BY <1>1, <1>2, <2>2
    <2> QED BY <2>1, <2>3 DEF SocketsInit, SocketsTypeOK
  <1> QED BY <1>2, <1>4, <1>5 DEF SocketsInit, SocketsInv, Found, UnsentIsWatched

LEMMA SocketsNextInv ==
    ASSUME SocketsAssumption, SocketsInv, [SocketsNext]_sockets_vars
    PROVE  SocketsInv'
  <1>1. listenPort \in Port \cup {0} /\ isActive \in BOOLEAN
    BY DEF SocketsInv, SocketsTypeOK
  <1>2. CASE \E b \in BOOLEAN : CommandActive(b)
    BY <1>1, <1>2, SetActiveInv DEF CommandActive
  <1>3. CASE \E p \in Port \cup {0} : CommandListenPort(p)
    BY <1>1, <1>3, SetActiveInv DEF CommandListenPort
  <1>4. CASE UNCHANGED sockets_vars
    <2>1. Now' = Now
      BY <1>4 DEF sockets_vars, Now
    <2>2. Switches'
      BY <1>4, <2>1 DEF sockets_vars, SocketsInv, Switches
    <2>3. SocketsTypeOK'
      BY <1>4 DEF sockets_vars, SocketsInv, SocketsTypeOK
    <2>4. Found' /\ UnsentIsWatched'
      BY <1>4 DEF sockets_vars, SocketsInv, Found, UnsentIsWatched
    <2> QED BY <2>2, <2>3, <2>4, SwitchesInv
  <1> QED BY <1>2, <1>3, <1>4, LoopInv, OtherInv DEF SocketsNext

-----------------------------------------------------------------------------
(* The theorems *)

(* The invariant holds of any descriptors and ports.                       *)
THEOREM SocketsInvHolds == SocketsSpec => []SocketsInv
  <1>1. SocketsInit => SocketsInv
    BY SocketsInitInv, SocketsAssumed
  <1>2. SocketsInv /\ [SocketsNext]_sockets_vars => SocketsInv'
    BY SocketsNextInv, SocketsAssumed
  <1> QED BY <1>1, <1>2, PTL DEF SocketsSpec

(* The two sockets are kept through any switches of "set active" and "set  *)
(* listenport" that succeed or fail half-way (set_active, main.c): select  *)
(* watches them and nothing else until a socket cannot be made, the port   *)
(* that is announced is theirs, and results that wait are watched for.     *)
THEOREM SocketsAreSound == SocketsSpec => []SocketsSound
  <1>1. SocketsInv => SocketsSound
    <2> SUFFICES ASSUME SocketsInv PROVE SocketsSound
      OBVIOUS
    <2>1. NoSocket # 1
      BY SocketsAssumed DEF SocketsAssumption
    <2>2. WatchedAreOurs
      BY <2>1, NowIs DEF SocketsInv, WatchedAreOurs, First
    <2>3. PortsAgree
      BY NowIs DEF SocketsInv, PortsAgree, Kept, Heard
    <2>4. ReadsSomething
      BY DEF SocketsInv, Found, ReadsSomething
    <2> QED BY <2>2, <2>3, <2>4 DEF SocketsInv, SocketsSound
  <1> QED BY <1>1, SocketsInvHolds, PTL
=============================================================================
