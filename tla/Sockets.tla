------------------------------ MODULE Sockets -------------------------------
(***************************************************************************)
(* The sockets of the main process for other clients: the one that listens *)
(* for connections and the one for search results, both replaced by every  *)
(* "set active" and "set listenport" while select watches descriptors by   *)
(* their numbers (main.c).                                                 *)
(*                                                                         *)
(* A descriptor is a number and a new one gets the lowest number that is   *)
(* free.  Descriptor 0 stands for the socket that the second enable_search *)
(* of the start leaves open (main.c:1269) and all that are below it.       *)
(***************************************************************************)
EXTENDS Integers

CONSTANTS
    Fd,           \* the numbers of descriptors, from 0
    Port,         \* ports other than 0
    NoSocket,     \* no socket, -1 in the code
    MaxOut        \* bound: search results that wait to be sent

(* Descriptors are numbers, of which the first two are used at the start;  *)
(* no socket is none of them.                                              *)
SocketsAssumption ==
    /\ Fd \subseteq Nat /\ {0, 1} \subseteq Fd /\ NoSocket \notin Fd
    /\ MaxOut \in Nat

ASSUME SocketsAssumed == SocketsAssumption

VARIABLES
    ports,        \* the open descriptors with the port they are bound to, or 0
    listen,       \* listen_socket
    search,       \* search_socket
    reads,        \* read_fds
    writes,       \* write_fds
    isActive,     \* is_active
    listenPort,   \* listen_port
    datagrams,    \* what has arrived at the search socket
    out,          \* the length of search_udpmsg_out
    ready,        \* what select found: res_read_fds and res_write_fds
    at,           \* where the main loop is
    running,
    history       \* what happened that the code does not provide for

sockets_vars == <<ports, listen, search, reads, writes, isActive, listenPort, datagrams,
          out, ready, at, running, history>>

sockets == <<ports, listen, search, reads, writes, isActive, listenPort>>

Happened(e) == history' = history \cup {e}

SocketsInit ==
    /\ ports = [d \in {0, 1} |-> 0]
    /\ listen = NoSocket /\ search = 1
    /\ reads = {0, 1} /\ writes = {}
    /\ isActive = FALSE /\ listenPort = 0
    /\ datagrams = 0 /\ out = 0
    /\ ready = [read |-> {}, write |-> {}]
    /\ at = "input"             \* the script of the user is read before the loop
    /\ running = TRUE
    /\ history = {}

-----------------------------------------------------------------------------
(* Opening and closing *)

Opened(p) == DOMAIN p
Lowest(p) == {d \in Fd \ Opened(p) : \A e \in Fd : e < d => e \in Opened(p)}

Without(p, d) == [e \in Opened(p) \ {d} |-> p[e]]
With(p, d, port) == [e \in Opened(p) \cup {d} |-> IF e = d THEN port ELSE p[e]]

(* The sockets as far as a call has brought them.                          *)
Now == [ports |-> ports, listen |-> listen, search |-> search, reads |-> reads,
        listenPort |-> listenPort]

(* disable_active.                                                         *)
ListeningStopped(s) ==
    [s EXCEPT !.ports = Without(s.ports, s.listen), !.reads = s.reads \ {s.listen},
              !.listen = NoSocket]

(* enable_active, where it succeeds: for port 0 the system chooses a port. *)
ListeningStarted(s, port) ==
    UNION {{[s EXCEPT !.ports = With(s.ports, d, p), !.listen = d, !.listenPort = p,
                      !.reads = s.reads \cup {d}] : d \in Lowest(s.ports)} :
           p \in IF port = 0 THEN Port ELSE {port}}

(* The second half of set_active with enable_search, where it succeeds.    *)
(* The bits of the closed descriptor stay set.                             *)
SearchReplaced(s) ==
    LET gone == Without(s.ports, s.search)
    IN  {[s EXCEPT !.ports = With(gone, d, s.listenPort), !.search = d,
                   !.reads = s.reads \cup {d}] :
             d \in Lowest(gone)}

(* bind fails in enable_search: the socket stays, and is not set to be read. *)
SearchUnbound(s) ==
    LET gone == Without(s.ports, s.search)
    IN  {[s EXCEPT !.ports = With(gone, d, 0), !.search = d] : d \in Lowest(gone)}

(* socket fails in enable_search.                                          *)
SearchLost(s) == [s EXCEPT !.ports = Without(s.ports, s.search), !.search = NoSocket]

-----------------------------------------------------------------------------
(* set_active *)

Become(s) ==
    /\ ports' = s.ports /\ listen' = s.listen /\ search' = s.search
    /\ reads' = s.reads /\ listenPort' = s.listenPort

(* How the first half may end well.                                        *)
Switched(newActive, port) ==
    IF newActive THEN ListeningStarted(ListeningStopped(Now), port)
    ELSE {[ListeningStopped(Now) EXCEPT !.listenPort = port]}

(* It fails where it could not listen: the old socket is closed already,   *)
(* and is_active is as before.                                             *)
SetActiveFails(newActive) ==
    /\ newActive
    /\ Become(ListeningStopped(Now))
    /\ UNCHANGED <<writes, isActive, datagrams, out, history>>

(* Otherwise it succeeds, whatever comes of the search socket.  What had   *)
(* arrived at the old one is lost.                                         *)
SetActiveSucceeds(newActive, port) ==
    /\ \E s \in Switched(newActive, port) :
           \/ \E t \in SearchReplaced(s) : Become(t) /\ history' = (history \ {"unbound"}) \cup {"replaced"}
           \/ /\ s.listenPort # 0
              /\ \E t \in SearchUnbound(s) : Become(t) /\ history' = history \cup {"replaced", "unbound"}
           \/ Become(SearchLost(s)) /\ Happened("lost")
    /\ isActive' = newActive
    /\ datagrams' = 0
    /\ UNCHANGED <<writes, out>>

SetActive(newActive, port) == SetActiveFails(newActive) \/ SetActiveSucceeds(newActive, port)

(* The commands, which are read first in a turn of the loop.               *)
CommandActive(state) ==
    /\ running /\ at = "input" /\ SetActive(state, listenPort)
    /\ UNCHANGED <<ready, at, running>>

CommandListenPort(port) ==
    /\ running /\ at = "input" /\ SetActive(isActive, port)
    /\ UNCHANGED <<ready, at, running>>

InputDone ==
    /\ running /\ at = "input" /\ at' = "hub"
    /\ UNCHANGED <<sockets, datagrams, out, ready, running, history>>

-----------------------------------------------------------------------------
(* The rest of the loop *)

Watched == reads \cup writes

\* Variants of Select: what is watched is taken for what is ready; nothing is
\* waited for to be written.
SelectAll ==
    /\ running /\ at = "select" /\ Watched \subseteq Opened(ports)
    /\ ready' = [read |-> reads, write |-> writes]
    /\ at' = "input"
    /\ UNCHANGED <<sockets, datagrams, out, running, history>>

SelectForReading ==
    /\ running /\ at = "select" /\ Watched \subseteq Opened(ports)
    /\ ready' = [read |-> {d \in reads : d = search /\ datagrams > 0}, write |-> {}]
    /\ at' = "input"
    /\ UNCHANGED <<sockets, datagrams, out, running, history>>

(* select, with a write set only if the network takes a datagram.          *)
Select ==
    /\ running /\ at = "select" /\ Watched \subseteq Opened(ports)
    /\ \E w \in {{}, writes} :
           ready' = [read |-> {d \in reads : d = search /\ datagrams > 0}, write |-> w]
    /\ at' = "input"
    /\ UNCHANGED <<sockets, datagrams, out, running, history>>

(* EBADF: the program ends.                                                *)
SelectFails ==
    /\ running /\ at = "select" /\ ~(Watched \subseteq Opened(ports))
    /\ running' = FALSE
    /\ UNCHANGED <<sockets, datagrams, out, ready, at, history>>

\* Variant of AddSearchResult: the socket is watched from the first result on.
AddSearchResultFirst ==
    /\ running /\ at = "hub" /\ out < MaxOut
    /\ out' = out + 1
    /\ IF search = NoSocket THEN Happened("bit -1") /\ running' = FALSE /\ UNCHANGED writes
       ELSE /\ writes' = IF out = 0 THEN writes \cup {search} ELSE writes
            /\ history' = history \ {"stalled"} /\ UNCHANGED running
    /\ UNCHANGED <<ports, listen, search, reads, isActive, listenPort, datagrams, ready, at>>

(* A search of an active client has a result (add_search_result).  Without *)
(* a socket, bit -1 of write_fds is set: the model ends there.             *)
AddSearchResult ==
    /\ running /\ at = "hub" /\ out < MaxOut
    /\ out' = out + 1
    /\ IF search = NoSocket THEN Happened("bit -1") /\ running' = FALSE /\ UNCHANGED writes
       ELSE writes' = writes \cup {search} /\ history' = history \ {"stalled"} /\ UNCHANGED running
    /\ UNCHANGED <<ports, listen, search, reads, isActive, listenPort, datagrams, ready, at>>

(* search_input_available.  If there is nothing to read, which is not an   *)
(* error, it goes on to the byte before the buffer: the model ends there.  *)
SearchInputAvailable ==
    /\ running /\ at = "hub" /\ at' = "search output"
    /\ IF search # NoSocket /\ search \in ready.read
       THEN IF datagrams = 0
            THEN Happened("nothing read") /\ running' = FALSE /\ UNCHANGED datagrams
            ELSE datagrams' = datagrams - 1 /\ UNCHANGED <<history, running>>
       ELSE UNCHANGED <<datagrams, history, running>>
    /\ UNCHANGED <<sockets, out, ready>>

(* search_now_writable: the results are sent until there is none left or   *)
(* until EAGAIN; in both cases the socket is not watched any more.  At     *)
(* least one is sent, since select said so.  Then the loop starts again.   *)
SearchNowWritable ==
    /\ running /\ at = "search output" /\ at' = "select"
    /\ IF search # NoSocket /\ search \in ready.write
       THEN /\ \E sent \in 0..out :
                   /\ out > 0 => sent > 0
                   /\ out' = out - sent
                   /\ history' = (history \ {"replaced", "stalled"}) \cup
                                     (IF sent < out THEN {"stalled"} ELSE {})
            /\ writes' = writes \ {search}
       ELSE history' = history \ {"replaced"} /\ UNCHANGED <<out, writes>>
    /\ ready' = [read |-> {}, write |-> {}]
    /\ UNCHANGED <<ports, listen, search, reads, isActive, listenPort, datagrams, running>>

-----------------------------------------------------------------------------
(* The surroundings *)

(* A result of a search of ours arrives.                                   *)
Arrive ==
    /\ running /\ search # NoSocket /\ ports[search] # 0 /\ datagrams = 0
    /\ datagrams' = 1
    /\ UNCHANGED <<sockets, out, ready, at, running, history>>

(* Any other descriptor: the hub, the pipes of a process, a file.  Where in *)
(* the loop it is opened or closed makes no difference to the commands.    *)
OpenOther ==
    /\ running /\ at = "input" /\ \E d \in Lowest(ports) : ports' = With(ports, d, 0)
    /\ UNCHANGED <<listen, search, reads, writes, isActive, listenPort, datagrams, out, ready, at,
                   running, history>>

CloseOther ==
    /\ running /\ at = "input" /\ \E d \in Opened(ports) \ {0, listen, search} : ports' = Without(ports, d)
    /\ UNCHANGED <<listen, search, reads, writes, isActive, listenPort, datagrams, out, ready, at,
                   running, history>>

SocketsNext ==
    \/ \E b \in BOOLEAN : CommandActive(b)
    \/ \E p \in Port \cup {0} : CommandListenPort(p)
    \/ InputDone \/ Select \/ SelectFails \/ AddSearchResult
    \/ SearchInputAvailable \/ SearchNowWritable
    \/ Arrive \/ OpenOther \/ CloseOther

SocketsSpec == SocketsInit /\ [][SocketsNext]_sockets_vars

-----------------------------------------------------------------------------
(* Properties *)

SocketsTypeOK ==
    /\ Opened(ports) \subseteq Fd /\ \A d \in Opened(ports) : ports[d] \in Port \cup {0}
    /\ listen \in Opened(ports) \cup {NoSocket} /\ search \in Opened(ports) \cup {NoSocket}
    /\ reads \subseteq Fd /\ writes \subseteq Fd
    /\ isActive \in BOOLEAN /\ listenPort \in Port \cup {0}
    /\ datagrams \in {0, 1} /\ out \in 0..MaxOut
    /\ ready.read \subseteq Fd /\ ready.write \subseteq Fd
    /\ at \in {"select", "input", "hub", "search output"}
    /\ running \in BOOLEAN
    /\ history \subseteq {"replaced", "unbound", "lost", "bit -1", "nothing read", "stalled"}

(* Neither bit of the search socket is cleared when it is closed, and the  *)
(* numbers are given to others; yet select watches the two sockets and     *)
(* nothing else, since the new search socket always gets the number of the *)
(* old one.  It would not if the new one were opened first, or if the      *)
(* socket could not be made: then the program ends in the next select.     *)
WatchedAreOurs ==
    "lost" \notin history =>
        /\ reads \subseteq {0, listen, search} /\ writes \subseteq {search}
        /\ search # NoSocket

(* Other clients are told listen_port in $ConnectToMe and $Search.  If we  *)
(* listen, it is there, and results are received there, after any sequence *)
(* of switches that succeed or fail half-way.                              *)
PortsAgree ==
    /\ listen # NoSocket => isActive /\ ports[listen] = listenPort /\ listen \in reads
    /\ search # NoSocket /\ "unbound" \notin history =>
           ports[search] = listenPort /\ search \in reads

(* The search socket is only read when there is something to read, unless  *)
(* a command replaced it between select and the read.                      *)
ReadsSomething ==
    at = "hub" /\ search # NoSocket /\ search \in ready.read /\ datagrams = 0 =>
        "replaced" \in history

(* Results that wait are watched for, unless the network took only some.   *)
UnsentIsWatched ==
    out > 0 /\ search # NoSocket => search \in writes \/ history \cap {"stalled", "lost", "bit -1"} # {}

SocketsSound ==
    SocketsTypeOK /\ WatchedAreOurs /\ PortsAgree /\ ReadsSomething /\ UnsentIsWatched
=============================================================================
