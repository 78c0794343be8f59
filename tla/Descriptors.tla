---------------------------- MODULE Descriptors ----------------------------
(***************************************************************************)
(* Which process holds which pipe end and which socket (main.c, user.c,    *)
(* command.c, hub.c and the init functions of the workers).  Nothing is    *)
(* marked to be closed on exec and no child closes what it inherits but    *)
(* the other ends of its own two pipes, so what main closes may stay open  *)
(* in its children: a pipe ends for its reader when its last writer is     *)
(* gone, a connection ends for the hub when the last copy of its socket    *)
(* is.                                                                     *)
(***************************************************************************)
EXTENDS Integers, FiniteSets

CONSTANTS
    Conn,     \* user processes (user.c)
    Shell,    \* processes of the shell command
    Hub,      \* sockets of hub connections
    None

Worker == {"update", "hash", "lookup", "parse"}
Process == Worker \cup Conn \cup Shell
Program == Process \cup {"main"}

ASSUME DescriptorsAssumption ==
    /\ IsFiniteSet(Conn) /\ IsFiniteSet(Shell) /\ IsFiniteSet(Hub)
    /\ Conn \cap Shell = {} /\ (Conn \cup Shell) \cap (Worker \cup {"main"}) = {}
    /\ None \notin Hub

(* A child has a request pipe, which its parent writes to, and a result    *)
(* pipe, which its parent reads.  A user process has the socket to its     *)
(* peer.                                                                   *)
End(kind, p) == [kind |-> kind, of |-> p]
Request(p) == End("request", p)
Result(p) == End("result", p)
ParentEnds(p) == {Request(p), Result(p)}
ChildEnds(p) == {End("in", p), End("out", p)}
Peer(c) == End("peer", c)
HubSocket(h) == End("hub", h)
Descriptor ==
    [kind : {"request", "result", "in", "out"}, of : Process]
        \cup [kind : {"peer"}, of : Conn] \cup [kind : {"hub"}, of : Hub]

VARIABLES
    state,        \* of each process
    holds,        \* the descriptors of each process and of main
    hub_socket,
    connected,    \* history: the sockets that were hub_socket
    born          \* history: the order of the forks

vars == <<state, holds, hub_socket, connected, born>>

-----------------------------------------------------------------------------
(* Processes *)

Parent(p) == IF p = "hash" THEN "update" ELSE "main"

(* What the workers hold after the start.  Main starts the update process, *)
(* the lookup process and the parse process one after the other; the       *)
(* update process starts the hash process.                                 *)
StartOrder == [p \in Worker |->
    CASE p = "update" -> 1 [] p = "hash" -> 2 [] p = "lookup" -> 3 [] p = "parse" -> 4]
StartHolds == [p \in Program |->
    CASE p = "main" -> UNION {ParentEnds(q) : q \in Worker \ {"hash"}}
      [] p = "update" -> ChildEnds(p) \cup ParentEnds("hash")
      [] p = "hash" -> ChildEnds(p) \cup ChildEnds("update")
      [] p = "lookup" -> ChildEnds(p) \cup ParentEnds("update")
      [] p = "parse" -> ChildEnds(p) \cup ParentEnds("update") \cup ParentEnds("lookup")
      [] OTHER -> {}]

Init ==
    /\ state = [p \in Process |-> IF p \in Worker THEN "running" ELSE "new"]
    /\ holds = StartHolds
    /\ hub_socket = None
    /\ connected = {}
    /\ born = [p \in Process |-> IF p \in Worker THEN StartOrder[p] ELSE 0]

MainRuns == Result("update") \in holds["main"]   \* main closes it when it ends

(* fork: the child has whatever main has.                                  *)
Forked(p) ==
    /\ state[p] = "new"
    /\ MainRuns
    /\ state' = [state EXCEPT ![p] = "running"]
    /\ born' = [born EXCEPT ![p] = 1 + Cardinality({q \in Process : born[q] > 0})]

\* Variants of UserConnectionNew: main keeps the ends of the child; the child
\* keeps those of main; main keeps the socket of the peer.
UserConnectionNewMainKeeps(c) ==
    /\ Forked(c)
    /\ holds' = [holds EXCEPT ![c] = holds["main"] \cup ChildEnds(c) \cup {Peer(c)},
                              !["main"] = @ \cup ParentEnds(c) \cup ChildEnds(c)]
    /\ UNCHANGED <<hub_socket, connected>>

UserConnectionNewChildKeeps(c) ==
    /\ Forked(c)
    /\ holds' = [holds EXCEPT
           ![c] = holds["main"] \cup ParentEnds(c) \cup ChildEnds(c) \cup {Peer(c)},
           !["main"] = @ \cup ParentEnds(c)]
    /\ UNCHANGED <<hub_socket, connected>>

UserConnectionNewKeepsPeer(c) ==
    /\ Forked(c)
    /\ holds' = [holds EXCEPT ![c] = holds["main"] \cup ChildEnds(c) \cup {Peer(c)},
                              !["main"] = @ \cup ParentEnds(c) \cup {Peer(c)}]
    /\ UNCHANGED <<hub_socket, connected>>

(* user_connection_new and the start of user_main: each closes the two     *)
(* ends of the other.  The socket to the peer is accepted by main, which   *)
(* closes it, or made by the process.                                      *)
UserConnectionNew(c) ==
    /\ Forked(c)
    /\ holds' = [holds EXCEPT ![c] = holds["main"] \cup ChildEnds(c) \cup {Peer(c)},
                              !["main"] = @ \cup ParentEnds(c)]
    /\ UNCHANGED <<hub_socket, connected>>

(* cmd_shell: the program that is run has whatever main has, since nothing *)
(* is closed when it is executed.  Nothing here keeps the user from a      *)
(* second one.                                                             *)
CmdShell(s) ==
    /\ Forked(s)
    /\ holds' = [holds EXCEPT ![s] = holds["main"]]
    /\ UNCHANGED <<hub_socket, connected>>

(* A process ends, for whatever reason.                                    *)
Gone(p) ==
    /\ state[p] = "running"
    /\ state' = [state EXCEPT ![p] = "gone"]
    /\ holds' = [holds EXCEPT ![p] = {}]
    /\ UNCHANGED <<hub_socket, connected, born>>

Exit(p) == Gone(p)

(* The select or read of a child on its request pipe finds its end.        *)
NoticeEof(p) ==
    /\ p \notin Shell
    /\ \A q \in Program : Request(p) \notin holds[q]
    /\ Gone(p)

-----------------------------------------------------------------------------
(* Main *)

Closed(ds) == holds' = [holds EXCEPT !["main"] = @ \ ds]

(* user_disconnect: by cancel, and whenever the connection is given up.    *)
UserDisconnect(c) ==
    /\ Result(c) \in holds["main"]
    /\ Closed(ParentEnds(c))
    /\ UNCHANGED <<state, hub_socket, connected, born>>

(* user_result_fd_readable: the result pipe has ended.                     *)
ReadEof(c) ==
    /\ \A p \in Program : End("out", c) \notin holds[p]
    /\ UserDisconnect(c)

HubConnect(h) ==
    /\ MainRuns
    /\ hub_socket = None
    /\ h \notin connected
    /\ hub_socket' = h
    /\ connected' = connected \cup {h}
    /\ holds' = [holds EXCEPT !["main"] = @ \cup {HubSocket(h)}]
    /\ UNCHANGED <<state, born>>

HubDisconnect ==
    /\ hub_socket # None
    /\ Closed({HubSocket(hub_socket)})
    /\ hub_socket' = None
    /\ UNCHANGED <<state, connected, born>>

(* The end of main: hub_disconnect and user_conn_cancel for everybody, the *)
(* finish functions of the workers, and exit; or a kill.                   *)
Quit ==
    /\ MainRuns
    /\ holds' = [holds EXCEPT !["main"] = {}]
    /\ hub_socket' = None
    /\ UNCHANGED <<state, connected, born>>

(* read_signal_input: main stops when one of its workers is gone.          *)
QuitForWorker ==
    /\ \E p \in Worker : Parent(p) = "main" /\ state[p] = "gone"
    /\ Quit

Next ==
    \/ \E c \in Conn : UserConnectionNew(c) \/ UserDisconnect(c) \/ ReadEof(c)
    \/ \E s \in Shell : CmdShell(s)
    \/ \E p \in Process : Exit(p) \/ NoticeEof(p)
    \/ \E h \in Hub : HubConnect(h)
    \/ HubDisconnect \/ Quit \/ QuitForWorker

(* A process that waits for the end of its pipe is told of it, and the     *)
(* loop of main goes on.                                                   *)
Fairness ==
    /\ \A p \in Process : WF_vars(NoticeEof(p))
    /\ \A c \in Conn : WF_vars(ReadEof(c))
    /\ WF_vars(QuitForWorker)

Spec == Init /\ [][Next]_vars /\ Fairness

-----------------------------------------------------------------------------
(* Properties *)

TypeOK ==
    /\ state \in [Process -> {"new", "running", "gone"}]
    /\ holds \in [Program -> SUBSET Descriptor]
    /\ hub_socket \in Hub \cup {None}
    /\ connected \subseteq Hub
    /\ born \in [Process -> Nat]
    /\ \A p \in Process : state[p] # "running" => holds[p] = {}
    /\ hub_socket # None => HubSocket(hub_socket) \in holds["main"]

(* Copies of the writing end of a request pipe are only with processes     *)
(* that were started after its reader, so that no two processes keep each  *)
(* other alive, and no process itself.                                     *)
HeldByLater ==
    \A p, q \in Process :
        Request(q) \in holds[p] => Parent(q) = p \/ born[q] < born[p]

(* What a child writes to, only the child and its own children hold: when  *)
(* a user process is gone, main reads the end of the file and the peer     *)
(* sees the end of the connection, whoever else is running.                *)
ExitIsSeen ==
    \A c \in Conn : state[c] = "gone" =>
        \A p \in Program : End("out", c) \notin holds[p] /\ Peer(c) \notin holds[p]

PipeEndsSound == TypeOK /\ HeldByLater /\ ExitIsSeen

(* A user process that is gone is disconnected in main.  "XXX: follow up   *)
(* and wait for user connections to die?" (main.c:1378): when main has     *)
(* ended, all its processes end, once the last shell is left.              *)
EndsAreNoticed ==
    /\ \A c \in Conn : state[c] = "gone" ~> Result(c) \notin holds["main"]
    /\ (~MainRuns /\ \A s \in Shell : state[s] # "running")
           ~> \A p \in Process : state[p] # "running"
=============================================================================
