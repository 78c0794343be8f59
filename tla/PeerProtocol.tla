---------------------------- MODULE PeerProtocol ----------------------------
(***************************************************************************)
(* The protocol of two user processes that are connected to each other     *)
(* (user.c): the handshake, the choice of the direction, and the files     *)
(* that the receiving side asks for.  Each side has a main process, whose  *)
(* answers are free here; the slots and queues behind them are in          *)
(* UploadSlots and DownloadQueue.                                          *)
(***************************************************************************)
EXTENDS Integers, Sequences

CONSTANTS
    Peer,          \* the two processes
    Connector,     \* the one that connected (we_connected)
    Rand,          \* the numbers drawn for the direction
    Width,         \* sizes and positions are kept modulo Width (2^64)
    MaxSize,       \* bound: sizes of files
    Block,         \* DEFAULT_SENDQ_SIZE
    MaxFiles       \* bound: files that one side asks for

ASSUME PeerAssumption ==
    /\ \E a, b \in Peer : a # b /\ Peer = {a, b}
    /\ Connector \in Peer
    /\ Rand \subseteq Nat
    /\ Block \in Nat \ {0}
    /\ MaxFiles \in Nat
    /\ MaxSize \in Nat /\ Width \in Nat /\ MaxSize < Width - 1

VARIABLES
    proc,      \* the processes (DCUserConnLocal)
    sendq,     \* user_sendq: what a process has not written to its socket
    net,       \* what is on the way to a process
    answers,   \* history: what main said to WANT_DOWNLOAD, twice
    grown,     \* history: a file was longer at its owner than its size in the
               \* queue of the other side
    misread    \* data was read as a command, a command as data, or data at
               \* another position than it was sent from

vars == <<proc, sendq, net, answers, grown, misread>>

Other(p) == CHOOSE q \in Peer : q # p
Unknown == Width - 1         \* UINT64_MAX: the size of a file list
Size == 0..MaxSize

UserState == {"CONNECT", "MYNICK", "LOCK", "SUPPORTS", "DIRECTION", "KEY", "GET",
              "SEND_GET", "DATA_SEND", "FILE_LENGTH", "DATA_RECV", "ended"}
Proc == [state     : UserState,
         rand      : Rand,
         dir       : {"unknown", "send", "receive"},
         file_size : 0..Width - 1,
         file_pos  : 0..Width - 1,
         final_pos : 0..Width - 1,
         data_size : 0..Width - 1,
         writable  : BOOLEAN,        \* the socket is in user_write_fds
         open      : BOOLEAN,        \* a file to send is open (transfer_fd)
         files     : 0..MaxFiles]

Msg == [type : {"MyNick", "Lock", "Supports", "Key", "Send", "MaxedOut", "Error"}]
       \cup [type : {"Direction"}, download : BOOLEAN, rand : Rand]
       \cup [type : {"Get", "FileLength", "Data"}, n : 0..Width - 1]

(* The socket is writable as soon as it is connected.  The number for the  *)
(* direction is the first one that rand() gives: nothing seeds it, and it  *)
(* is called nowhere else.  So it depends on the C library only, and two   *)
(* processes on the same library draw the same.  Which libraries the two   *)
(* ends have is open here.                                                 *)
Init ==
    /\ proc \in [Peer -> [state : {"CONNECT"}, rand : Rand, dir : {"unknown"},
                          file_size : {0}, file_pos : {0}, final_pos : {0},
                          data_size : {0}, writable : {TRUE}, open : {FALSE},
                          files : {0}]]
    /\ sendq = [p \in Peer |-> <<>>]
    /\ net = [p \in Peer |-> <<>>]
    /\ answers = [p \in Peer |-> <<>>]
    /\ grown = FALSE
    /\ misread = FALSE

-----------------------------------------------------------------------------
(* Sockets *)

Running(p) == proc[p].state # "ended"

\* Variant of Watched: the socket is watched only if there was something to
\* send already.
WatchedLate(before, left) == before # <<>> /\ left > 0

(* user_putf watches the socket if the queue was empty and is no more.     *)
Watched(before, left) == before = <<>> /\ left > 0

(* Process p becomes r, leaves rest unread and puts msgs into its send     *)
(* queue; a part of the queue is written at once.  What is written to a    *)
(* process that has ended is lost.                                         *)
Put(p, rest, msgs, r) ==
    LET out == sendq[p] \o msgs IN
    \E k \in 0..Len(out) :
        /\ net' = [net EXCEPT ![p] = rest,
                              ![Other(p)] = IF Running(Other(p))
                                            THEN @ \o SubSeq(out, 1, k) ELSE @]
        /\ sendq' = [sendq EXCEPT ![p] = SubSeq(out, k + 1, Len(out))]
        /\ proc' = [proc EXCEPT ![p] =
                       [r EXCEPT !.writable = @ \/ Watched(sendq[p], Len(out) - k)]]

(* Process p reads the first message and becomes r.                        *)
Become(p, r) ==
    /\ proc' = [proc EXCEPT ![p] = r]
    /\ net' = [net EXCEPT ![p] = Tail(@)]
    /\ UNCHANGED sendq

(* Process p ends and closes its socket; what it did not write is lost.    *)
End(p) ==
    /\ proc' = [proc EXCEPT ![p].state = "ended"]
    /\ sendq' = [sendq EXCEPT ![p] = <<>>]
    /\ net' = [net EXCEPT ![p] = <<>>]

Readable(p) == Running(p) /\ proc[p].state # "CONNECT" /\ net[p] # <<>>

(* The first message is a command of this type and the process expects it. *)
Command(p, type, states) ==
    /\ Readable(p)
    /\ proc[p].data_size = 0
    /\ proc[p].state \in states
    /\ Head(net[p]).type = type

history == <<answers, grown, misread>>

-----------------------------------------------------------------------------
(* The handshake *)

Hello == <<[type |-> "MyNick"], [type |-> "Lock"]>>

(* user_now_writable in the state CONNECT: the connection is there.        *)
Connected(p) ==
    /\ proc[p].state = "CONNECT"
    /\ LET r == [proc[p] EXCEPT !.state = "MYNICK", !.writable = FALSE]
       IN  Put(p, net[p], IF p = Connector THEN Hello ELSE <<>>, r)
    /\ UNCHANGED history

(* $MyNick: main may refuse the nick (nick_validate).                      *)
ReceiveMyNick(p) ==
    /\ Command(p, "MyNick", {"MYNICK"})
    /\ \/ End(p)
       \/ Put(p, Tail(net[p]), IF p = Connector THEN <<>> ELSE Hello,
              [proc[p] EXCEPT !.state = "LOCK"])
    /\ UNCHANGED history

(* $Lock: main says whether we want to download (wants_to_download).       *)
ReceiveLock(p) ==
    /\ Command(p, "Lock", {"LOCK"})
    /\ \E download \in BOOLEAN :
           /\ Put(p, Tail(net[p]),
                  <<[type |-> "Supports"],
                    [type |-> "Direction", download |-> download, rand |-> proc[p].rand],
                    [type |-> "Key"]>>,
                  [proc[p] EXCEPT !.state = "SUPPORTS"])
           /\ answers' = [answers EXCEPT ![p] = <<download>>]
    /\ UNCHANGED <<grown, misread>>

ReceiveSupports(p) ==
    /\ Command(p, "Supports", {"SUPPORTS"})
    /\ Become(p, [proc[p] EXCEPT !.state = "DIRECTION"])
    /\ UNCHANGED history

\* Variant of Direction: the numbers are not compared.
DirectionGreedy(they, we, their, our) == IF we THEN "receive" ELSE "send"

(* The direction, when they said that they want to download or not and we  *)
(* do or do not.                                                           *)
Direction(they, we, their, our) ==
    CASE they /\ we  -> IF their >= our THEN "send" ELSE "receive"
      [] they /\ ~we -> "send"
      [] ~they       -> "receive"

(* $Direction: main is asked again whether we want to download, and then   *)
(* whether the direction is free (direction_validate).                     *)
ReceiveDirection(p) ==
    /\ Command(p, "Direction", {"DIRECTION"})
    /\ \E we \in BOOLEAN :
           LET m == Head(net[p])
               dir == Direction(m.download, we, m.rand, proc[p].rand)
           IN  /\ \/ End(p)
                  \/ /\ m.download \/ we
                     /\ Become(p, [proc[p] EXCEPT !.state = "KEY", !.dir = dir])
               /\ answers' = [answers EXCEPT ![p] = Append(@, we)]
    /\ UNCHANGED <<grown, misread>>

-----------------------------------------------------------------------------
(* Receiving files *)

(* download_next_file, after the first message and msgs: main has a file   *)
(* of a known size, or a list, or nothing.  The local file may be there,   *)
(* of any length, and is resumed; a list is fetched anew.                  *)
DownloadNextFile(p, msgs, r) ==
    \/ End(p)
    \/ /\ r.files < MaxFiles
       /\ \E size \in Size \cup {Unknown} :
          \E resume \in IF size = Unknown THEN {0} ELSE Size :
              Put(p, Tail(net[p]), msgs \o <<[type |-> "Get", n |-> resume + 1]>>,
                  [r EXCEPT !.state = "FILE_LENGTH", !.file_size = size,
                            !.file_pos = resume, !.files = @ + 1])

ReceiveKey(p) ==
    /\ Command(p, "Key", {"KEY"})
    /\ IF proc[p].dir = "send"
       THEN Become(p, [proc[p] EXCEPT !.state = "GET"])
       ELSE DownloadNextFile(p, <<>>, proc[p])
    /\ UNCHANGED history

(* $FileLength and open_download_file: the file may be too short, or not   *)
(* be opened; the rest of it is requested, or there is none.               *)
ReceiveFileLength(p) ==
    /\ Command(p, "FileLength", {"FILE_LENGTH"})
    /\ LET length == Head(net[p]).n
           size == IF proc[p].file_size = Unknown THEN length ELSE proc[p].file_size
           rest == (size - proc[p].file_pos) % Width
           r == [proc[p] EXCEPT !.file_size = size]
           send == <<[type |-> "Send"]>>
       IN  /\ \/ DownloadNextFile(p, <<>>, r)
              \/ /\ length >= size
                 /\ IF rest = 0
                    THEN DownloadNextFile(p, send, r)
                    ELSE Put(p, Tail(net[p]), send,
                             [r EXCEPT !.state = "DATA_RECV", !.data_size = rest])
           /\ grown' = (grown \/ length > size)
    /\ UNCHANGED <<answers, misread>>

(* $Error: the next file.  $MaxedOut ends the process.                     *)
ReceiveError(p) ==
    /\ Command(p, "Error", {"FILE_LENGTH"})
    /\ DownloadNextFile(p, <<>>, proc[p])
    /\ UNCHANGED history

ReceiveMaxedOut(p) ==
    /\ Command(p, "MaxedOut", {"FILE_LENGTH"})
    /\ End(p)
    /\ UNCHANGED history

(* user_handle_command in the state DATA_RECV, for one unit of data.       *)
ReceiveData(p) ==
    /\ Readable(p)
    /\ proc[p].data_size > 0
    /\ Head(net[p]).type = "Data"
    /\ LET pos == (proc[p].file_pos + 1) % Width
           r == [proc[p] EXCEPT !.file_pos = pos, !.data_size = @ - 1]
       IN  IF pos = proc[p].file_size
           THEN DownloadNextFile(p, <<>>, r)
           ELSE Become(p, r)
    /\ misread' = (misread \/ Head(net[p]).n # proc[p].file_pos)
    /\ UNCHANGED <<answers, grown>>

(* A command that comes while data is expected, or data after it.  What    *)
(* the process makes of it depends on the bytes; both end here.            *)
Misread(p) ==
    /\ Readable(p)
    /\ (Head(net[p]).type = "Data") # (proc[p].data_size > 0)
    /\ misread' = TRUE
    /\ proc' = [q \in Peer |-> [proc[q] EXCEPT !.state = "ended"]]
    /\ sendq' = [q \in Peer |-> <<>>] /\ net' = [q \in Peer |-> <<>>]
    /\ UNCHANGED <<answers, grown>>

-----------------------------------------------------------------------------
(* Sending files *)

(* $Get: main or the file system refuse, or the length is announced.  The  *)
(* file of a $Get that was not followed by a $Send is closed.              *)
ReceiveGet(p) ==
    /\ Command(p, "Get", {"GET", "SEND_GET"})
    /\ LET offset == Head(net[p]).n - 1
           closed == [proc[p] EXCEPT !.open = FALSE]
       IN  \/ \E type \in {"MaxedOut", "Error"} :
                  Put(p, Tail(net[p]), <<[type |-> type]>>, closed)
           \/ \E size \in Size :
                  /\ offset <= size
                  /\ Put(p, Tail(net[p]), <<[type |-> "FileLength", n |-> size]>>,
                         [closed EXCEPT !.state = "SEND_GET", !.open = TRUE,
                                        !.file_pos = offset, !.file_size = size,
                                        !.final_pos = size])
    /\ UNCHANGED history

\* Variant of ReceiveSend: an empty file is sent like any other.
ReceiveSendAlways(p) ==
    /\ Command(p, "Send", {"SEND_GET"})
    /\ Become(p, [proc[p] EXCEPT !.state = "DATA_SEND", !.writable = TRUE])
    /\ UNCHANGED history

(* $Send and upload_file: there is nothing to send, or the sending starts. *)
ReceiveSend(p) ==
    /\ Command(p, "Send", {"SEND_GET"})
    /\ Become(p, IF proc[p].final_pos = proc[p].file_pos
                 THEN [proc[p] EXCEPT !.state = "GET", !.open = FALSE]
                 ELSE [proc[p] EXCEPT !.state = "DATA_SEND", !.writable = TRUE])
    /\ UNCHANGED history

Smaller(a, b) == IF a <= b THEN a ELSE b

(* user_now_writable in the state DATA_SEND: a block is read from the file *)
(* when the queue is empty, and a part of the queue is written.            *)
SendData(p) ==
    /\ proc[p].state = "DATA_SEND" /\ proc[p].writable
    /\ LET r == proc[p]
           block == Smaller(Block, r.final_pos - r.file_pos)
           fresh == sendq[p] = <<>> /\ block > 0
           queue == IF fresh
                    THEN [i \in 1..block |-> [type |-> "Data", n |-> r.file_pos + i - 1]]
                    ELSE sendq[p]
           pos == IF fresh THEN r.file_pos + block ELSE r.file_pos
       IN  \E k \in 1..Len(queue) :
               LET done == pos = r.final_pos /\ k = Len(queue) IN
               /\ net' = [net EXCEPT ![Other(p)] = IF Running(Other(p))
                                                   THEN @ \o SubSeq(queue, 1, k) ELSE @]
               /\ sendq' = [sendq EXCEPT ![p] = SubSeq(queue, k + 1, Len(queue))]
               /\ proc' = [proc EXCEPT ![p] =
                              IF done
                              THEN [r EXCEPT !.state = "GET", !.file_pos = pos,
                                             !.writable = FALSE, !.open = FALSE]
                              ELSE [r EXCEPT !.file_pos = pos]]
    /\ UNCHANGED history

(* user_now_writable in the other states.                                  *)
Flush(p) ==
    /\ proc[p].state \notin {"CONNECT", "DATA_SEND", "ended"}
    /\ proc[p].writable
    /\ \E k \in Smaller(1, Len(sendq[p]))..Len(sendq[p]) :
           /\ net' = [net EXCEPT ![Other(p)] = IF Running(Other(p))
                                               THEN @ \o SubSeq(sendq[p], 1, k) ELSE @]
           /\ sendq' = [sendq EXCEPT ![p] = SubSeq(@, k + 1, Len(@))]
           /\ proc' = [proc EXCEPT ![p].writable = k < Len(sendq[p])]
    /\ UNCHANGED history

-----------------------------------------------------------------------------
(* The end of a process *)

Expected(state) ==
    CASE state = "MYNICK"      -> {"MyNick"}
      [] state = "LOCK"        -> {"Lock"}
      [] state = "SUPPORTS"    -> {"Supports"}
      [] state = "DIRECTION"   -> {"Direction"}
      [] state = "KEY"         -> {"Key"}
      [] state = "GET"         -> {"Get"}
      [] state = "SEND_GET"    -> {"Get", "Send"}
      [] state = "FILE_LENGTH" -> {"FileLength", "MaxedOut", "Error"}
      [] OTHER                 -> {}

(* check_state: a command in a state that does not expect it.              *)
ReceiveWrong(p) ==
    /\ Readable(p)
    /\ proc[p].data_size = 0
    /\ Head(net[p]).type \notin Expected(proc[p].state) \cup {"Data"}
    /\ End(p)
    /\ UNCHANGED history

(* The other process has closed the socket.                                *)
ReadEOF(p) ==
    /\ Running(p) /\ ~Running(Other(p)) /\ net[p] = <<>>
    /\ End(p)
    /\ UNCHANGED history

(* Nothing has happened on the socket for USER_CONN_IDLE_TIMEOUT.          *)
Idle(p) == Running(p) /\ ~proc[p].writable /\ net[p] = <<>>

\* Variant of Alarm: it is set for a process that receives only.
AlarmReceiving(p) ==
    /\ Idle(p) /\ proc[p].dir = "receive"
    /\ End(p)
    /\ UNCHANGED history

Alarm(p) ==
    /\ Idle(p)
    /\ End(p)
    /\ UNCHANGED history

(* A signal, an error of the socket or of a file, or the end of main.      *)
Terminate(p) ==
    /\ Running(p)
    /\ End(p)
    /\ UNCHANGED history

Step(p) ==
    \/ Connected(p)
    \/ ReceiveMyNick(p) \/ ReceiveLock(p) \/ ReceiveSupports(p)
    \/ ReceiveDirection(p) \/ ReceiveKey(p)
    \/ ReceiveFileLength(p) \/ ReceiveError(p) \/ ReceiveMaxedOut(p)
    \/ ReceiveData(p) \/ Misread(p)
    \/ ReceiveGet(p) \/ ReceiveSend(p)
    \/ SendData(p) \/ Flush(p)
    \/ ReceiveWrong(p) \/ ReadEOF(p)

Next == \E p \in Peer : Step(p) \/ Alarm(p) \/ Terminate(p)

(* The loop of user_main serves the socket, and the alarm rings.           *)
Fairness == \A p \in Peer : WF_vars(Step(p)) /\ WF_vars(Alarm(p))

Spec == Init /\ [][Next]_vars /\ Fairness

-----------------------------------------------------------------------------
(* Properties *)

(* The states of the processes and their queues.                           *)
TypeOK ==
    /\ proc \in [Peer -> Proc]
    /\ sendq \in [Peer -> Seq(Msg)]
    /\ net \in [Peer -> Seq(Msg)]
    /\ answers \in [Peer -> Seq(BOOLEAN)]
    /\ grown \in BOOLEAN /\ misread \in BOOLEAN

Tie == \A p, q \in Peer : proc[p].rand = proc[q].rand
Steady == \A p \in Peer : Len(answers[p]) = 2 => answers[p][1] = answers[p][2]

(* Both said with $Lock that they want to download.                        *)
BothWant == \A p \in Peer : answers[p] # <<>> /\ answers[p][1]

(* Two processes that have chosen their directions have chosen different   *)
(* ones, as long as main does not change its answer between $Lock and      *)
(* $Direction, with one exception: when both want to download and drew the *)
(* same number, each takes itself for the loser and sends (user.c:979-983, *)
(* with a comment that asks what should happen).  When only one of them    *)
(* wants to download the numbers do not matter.                            *)
DirectionsDiffer ==
    Steady =>
        \A p, q \in Peer :
            p # q /\ proc[p].dir # "unknown" /\ proc[q].dir # "unknown" =>
                /\ "send" \in {proc[p].dir, proc[q].dir}
                /\ proc[p].dir = proc[q].dir <=> Tie /\ BothWant

(* Data is read as data, at the position of the file that it was sent      *)
(* from, and commands as commands, unless the file has grown at its owner  *)
(* since its size was recorded (user.c:520).                               *)
DataIsData == misread => grown

(* When $Send is handled, the file that was announced is open and all      *)
(* that was said before has been written (the assertion in upload_file),   *)
(* whatever was refused or given up in between; and data is sent from an   *)
(* open file only.                                                         *)
SendFindsFile ==
    \A p \in Peer :
        /\ Command(p, "Send", {"SEND_GET"}) => proc[p].open /\ sendq[p] = <<>>
        /\ proc[p].state = "DATA_SEND" => proc[p].open /\ proc[p].file_size # 0

ExchangeSound == TypeOK /\ DataIsData /\ SendFindsFile

(* Two processes wait for each other with nothing on the way, and nothing  *)
(* left in a send queue that no one will write, in one case besides a file *)
(* that has grown: both have settled on sending, and each waits for the    *)
(* $Get of the other.  If main did not change its answer this is the tie   *)
(* of two processes that both want to download.                            *)
NoMutualWait ==
    (\A p \in Peer : Idle(p)) =>
        \/ grown
        \/ /\ \A p \in Peer : proc[p].state = "GET" /\ proc[p].dir = "send"
           /\ Steady => Tie /\ BothWant

(* Whatever the two processes do, both end.                                *)
ConnectionEnds == <>(\A p \in Peer : ~Running(p))
=============================================================================
