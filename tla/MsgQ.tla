-------------------------------- MODULE MsgQ --------------------------------
(***************************************************************************)
(* The message queues (common/msgq.c over common/byteq.c) between the main *)
(* process and a child that answers its requests one at a time: the name   *)
(* lookups, the file list parser and the hash process.  A message is a     *)
(* header, which holds the size of the rest, and the rest; it crosses a    *)
(* pipe in pieces of any size.  The main process writes and reads what it  *)
(* can without blocking, the child blocks.  A byte is the message that it  *)
(* belongs to and its place there.                                         *)
(***************************************************************************)
EXTENDS Integers, Sequences

CONSTANTS
    MaxRequests,    \* bound: requests
    Sizes,          \* sizes of messages without their header
    HeaderSize,     \* sizeof(size_t)
    PipeMax,        \* capacity of a pipe
    ByteqSize,      \* DEFAULT_MSGQ_BYTEQ_SIZE
    None

VARIABLES
    request_mq,         \* main: bytes to be written
    write_fds,          \* main: whether it waits to write them
    result_mq,          \* main: bytes that were read
    result_max,         \* main: the room of result_mq
    pending,            \* main: the requests without an answer
    answered,           \* main: the request that the last answer is for
    handling,           \* main: it is in the loop over the complete messages
    running,            \* main: it runs
    asked,              \* bounded counter of requests
    request_pipe, result_pipe,
    child_request_mq,   \* child: bytes that were read
    child_result_mq,    \* child: bytes to be written
    alive               \* child: it runs

main == <<request_mq, write_fds, result_mq, result_max, pending, answered, handling,
          running, asked>>
child == <<child_request_mq, child_result_mq, alive>>
vars == <<main, child, request_pipe, result_pipe>>

Message == [id : 1..MaxRequests, size : Sizes]
Bytes(m) == [i \in 1..(HeaderSize + m.size) |-> [msg |-> m, at |-> i]]

Least(a, b) == IF a < b THEN a ELSE b
First(q, n) == SubSeq(q, 1, n)
From(q, n) == SubSeq(q, n + 1, Len(q))

Init ==
    /\ request_mq = <<>> /\ write_fds = FALSE
    /\ result_mq = <<>> /\ result_max = ByteqSize
    /\ pending = <<>> /\ answered = None
    /\ handling = FALSE /\ running = TRUE /\ asked = 0
    /\ request_pipe = <<>> /\ result_pipe = <<>>
    /\ child_request_mq = <<>> /\ child_result_mq = <<>> /\ alive = TRUE

-----------------------------------------------------------------------------
(* msgq.c *)

(* The header of the first message is there.                               *)
HasHeader(q) == Len(q) >= HeaderSize
SizeOf(q) == Head(q).msg.size

\* Variant of Complete: the header is not counted.
CompleteBody(q) == HasHeader(q) /\ Len(q) >= SizeOf(q)

(* msgq_has_complete_msg                                                   *)
Complete(q) == HasHeader(q) /\ Len(q) >= HeaderSize + SizeOf(q)

(* msgq_get: what is left behind the first message.                        *)
Behind(q) == From(q, HeaderSize + SizeOf(q))

(* msgq_read_complete_msg: how many bytes are still to be read.            *)
Missing(q) == IF HasHeader(q) THEN HeaderSize + SizeOf(q) - Len(q) ELSE HeaderSize - Len(q)

-----------------------------------------------------------------------------
(* The main process *)

(* add_lookup_request, add_parse_request: also from a callback.            *)
Ask ==
    /\ running /\ asked < MaxRequests
    /\ asked' = asked + 1
    /\ \E size \in Sizes : request_mq' = request_mq \o Bytes([id |-> asked', size |-> size])
    /\ write_fds' = TRUE
    /\ pending' = Append(pending, asked')
    /\ UNCHANGED <<result_mq, result_max, answered, handling, running,
                   child, request_pipe, result_pipe>>

(* lookup_request_fd_writable, parse_request_fd_writable: a piece is       *)
(* written; nothing to write and a dead child stop the program.            *)
Write ==
    /\ running /\ ~handling /\ write_fds
    /\ \/ /\ request_mq # <<>> /\ alive
          /\ \E n \in 1..Least(Len(request_mq), PipeMax - Len(request_pipe)) :
                 /\ request_pipe' = request_pipe \o First(request_mq, n)
                 /\ request_mq' = From(request_mq, n)
          /\ write_fds' = (request_mq' # <<>>)
          /\ UNCHANGED running
       \/ /\ request_mq = <<>> \/ ~alive
          /\ running' = FALSE
          /\ UNCHANGED <<request_mq, write_fds, request_pipe>>
    /\ UNCHANGED <<result_mq, result_max, pending, answered, handling, asked,
                   child, result_pipe>>

(* byteq_read doubles the queue when it is full.                           *)
Room == IF Len(result_mq) = result_max THEN 2 * result_max ELSE result_max

(* lookup_result_fd_readable, parse_result_fd_readable: as much is read as *)
(* there is room for.  Nothing that is read is taken for the end of file.  *)
Read ==
    /\ running /\ ~handling
    /\ result_pipe # <<>> \/ ~alive
    /\ LET n == Least(Len(result_pipe), Room - Len(result_mq)) IN
       /\ result_mq' = result_mq \o First(result_pipe, n)
       /\ result_pipe' = From(result_pipe, n)
       /\ running' = (n > 0)
    /\ result_max' = Room
    /\ handling' = Complete(result_mq')
    /\ UNCHANGED <<request_mq, write_fds, pending, answered, asked, child, request_pipe>>

(* The body of the loop: the answer goes to the first request.             *)
Handle ==
    /\ handling
    /\ answered' = Head(result_mq).msg.id
    /\ pending' = Tail(pending)
    /\ result_mq' = Behind(result_mq)
    /\ handling' = Complete(result_mq')
    /\ UNCHANGED <<request_mq, write_fds, result_max, running, asked,
                   child, request_pipe, result_pipe>>

-----------------------------------------------------------------------------
(* The child: lookup_main, parse_main, hash_main *)

(* It blocks until it has the rest of a message, and reads no more.        *)
ChildRead ==
    /\ alive /\ child_result_mq = <<>> /\ ~Complete(child_request_mq)
    /\ request_pipe # <<>>
    /\ LET n == Least(Len(request_pipe), Missing(child_request_mq)) IN
       /\ child_request_mq' = child_request_mq \o First(request_pipe, n)
       /\ request_pipe' = From(request_pipe, n)
    /\ UNCHANGED <<main, result_pipe, child_result_mq, alive>>

(* The request is taken from the queue and served.                         *)
ChildServe ==
    /\ alive /\ child_result_mq = <<>> /\ Complete(child_request_mq)
    /\ child_request_mq' = Behind(child_request_mq)
    /\ \E size \in Sizes :
           child_result_mq' = Bytes([id |-> Head(child_request_mq).msg.id, size |-> size])
    /\ UNCHANGED <<main, request_pipe, result_pipe, alive>>

(* msgq_write_all: it blocks until all is written.                         *)
ChildWrite ==
    /\ alive /\ child_result_mq # <<>>
    /\ \E n \in 1..Least(Len(child_result_mq), PipeMax - Len(result_pipe)) :
           /\ result_pipe' = result_pipe \o First(child_result_mq, n)
           /\ child_result_mq' = From(child_result_mq, n)
    /\ UNCHANGED <<main, request_pipe, child_request_mq, alive>>

ChildDie == alive /\ alive' = FALSE
            /\ UNCHANGED <<main, request_pipe, result_pipe, child_request_mq, child_result_mq>>

Next ==
    \/ Ask \/ Write \/ Read \/ Handle
    \/ ChildRead \/ ChildServe \/ ChildWrite \/ ChildDie

(* The main loop serves every file descriptor that is ready; the child     *)
(* runs.                                                                   *)
Fairness ==
    /\ WF_vars(Write) /\ WF_vars(Read) /\ WF_vars(Handle)
    /\ WF_vars(ChildRead) /\ WF_vars(ChildServe) /\ WF_vars(ChildWrite)

Spec == Init /\ [][Next]_vars /\ Fairness

-----------------------------------------------------------------------------
(* The answers come in the order of the requests and go to the first       *)
(* request that waits, none is lost, doubled or cut, however the messages  *)
(* are cut into pieces (msgq.c:78), and everybody gets one in the end      *)
(* unless the child dies, which stops the program.                         *)
Queue == INSTANCE RequestQueue WITH Request <- 1..MaxRequests, serving <- alive
AnswersInOrder == Queue!Spec
=============================================================================
