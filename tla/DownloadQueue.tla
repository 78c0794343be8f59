--------------------------- MODULE DownloadQueue ----------------------------
(***************************************************************************)
(* The download queue of one remote user (main.c, command.c) and the user  *)
(* processes of the connections to that user (user.c).  A connection first *)
(* settles its direction with the main process; the one that receives then *)
(* takes the entries of the queue one by one, while the browse, get and    *)
(* unqueue commands change the queue under it.                             *)
(*                                                                         *)
(* The connection remembers its entry as an index (queue_pos) and a flag   *)
(* (queued_valid), and the file it downloads by name (transfer_file).      *)
(***************************************************************************)
EXTENDS Integers, Sequences, FiniteSets, SequencesExt, FiniteSetsExt

CONSTANTS
    Conn,          \* connections; the user has at most DC_USER_MAX_CONN
    File,          \* files that can be queued
    List,          \* the file list of the user, which browse queues
    NoFile         \* a NULL file name

ASSUME ConstantsAssumption ==
    /\ IsFiniteSet(Conn)
    /\ List \notin File
    /\ NoFile \notin File \cup {List}

MaxConn == 2       \* DC_USER_MAX_CONN
Name == File \cup {List}

VARIABLES
    \* the main process
    queue,            \* download_queue: [file, status]
    dir,              \* uc->dir, "none" when there is no such connection
    queue_pos,        \* uc->queue_pos, counted from 0
    queued_valid,     \* connections with uc->queued_valid
    occupied,         \* connections with uc->occupied_slot
    transfer_file,    \* uc->transfer_file
    used_dl_slots,
    renamed,          \* files that got their final name
    shifted,          \* HISTORY: an entry was prepended during the transfer
    \* the pipes
    toMain, toUser,
    \* the user processes
    step,             \* ucl->user_state, "off" when there is no process
    wait,             \* the answer the process blocks on
    file,             \* ucl->share_file
    silent            \* processes whose alarm is due: nothing was read from
                      \* or written to the socket since it was set

queueVars == <<queue, queue_pos, queued_valid, occupied, transfer_file,
               used_dl_slots, renamed, shifted>>
mainVars == <<queueVars, dir>>
userVars == <<step, wait, file, silent>>
vars == <<queue, queue_pos, queued_valid, occupied, transfer_file,
          used_dl_slots, renamed, shifted, dir, toMain, toUser, step, wait, file,
          silent>>

Dir    == {"none", "unknown", "receive", "send"}
Step   == {"off", "direction", "key", "file_length", "data_recv", "send"}
Wait   == {"no", "want", "receive", "send", "file"}
Id     == {"WANT_DOWNLOAD", "VALIDATE_receive", "VALIDATE_send", "CHECK_DOWNLOAD",
           "TRANSFER_START", "ENDED_success", "ENDED_failure", "TERMINATING"}
Msg    == [id : Id, file : Name \cup {NoFile}]
Answer == {"yes", "no"} \cup Name \cup {NoFile}
Entry  == [file : Name, status : {"QUEUED", "PROCESSING"}]

Live(c) == dir[c] # "none"

Init ==
    /\ queue = <<>>
    /\ dir = [c \in Conn |-> "none"]
    /\ queue_pos = [c \in Conn |-> 0]
    /\ queued_valid = {} /\ occupied = {} /\ shifted = {}
    /\ transfer_file = [c \in Conn |-> NoFile]
    /\ used_dl_slots = 0
    /\ renamed = {}
    /\ toMain = [c \in Conn |-> <<>>]
    /\ toUser = [c \in Conn |-> <<>>]
    /\ step = [c \in Conn |-> "off"]
    /\ wait = [c \in Conn |-> "no"]
    /\ file = [c \in Conn |-> NoFile]
    /\ silent = {}

-----------------------------------------------------------------------------
(* The user process *)

Running(c) == step[c] # "off"
Idle(c)    == Running(c) /\ wait[c] = "no"

(* TRANSFER_START names the file; the file of a DOWNLOAD_ENDED is HISTORY, *)
(* the message itself does not name it.                                    *)
Message(c, id) ==
    [id |-> id,
     file |-> IF id \in {"TRANSFER_START", "ENDED_success", "ENDED_failure"}
              THEN file[c] ELSE NoFile]

(* msgq_put_sync of messages with these ids; nobody reads the pipe of a   *)
(* connection that was dropped.                                           *)
Put(c, ids) ==
    toMain' = IF Live(c)
              THEN [toMain EXCEPT ![c] = @ \o [i \in 1..Len(ids) |-> Message(c, ids[i])]]
              ELSE toMain

(* A handler of the socket sets the alarm again when it is done. *)
Continue(c, s, w, f) ==
    /\ silent' = silent \ {c}
    /\ step' = [step EXCEPT ![c] = s]
    /\ wait' = [wait EXCEPT ![c] = w]
    /\ file' = [file EXCEPT ![c] = f]

Exit(c) == Continue(c, "off", "no", NoFile)

\* Variant of EndAndNext: the next file is asked for first.
NextAndEnd(c, ended) ==
    /\ Put(c, <<"CHECK_DOWNLOAD", ended>>)
    /\ Continue(c, step[c], "file", NoFile)

(* end_download, then download_next_file, which asks and waits. *)
EndAndNext(c, ended) ==
    /\ Put(c, <<ended, "CHECK_DOWNLOAD">>)
    /\ Continue(c, step[c], "file", NoFile)

(* $Direction: does the main process want to download? *)
ReceiveDirection(c) ==
    /\ Idle(c)
    /\ step[c] = "direction"
    /\ Put(c, <<"WANT_DOWNLOAD">>)
    /\ Continue(c, "direction", "want", NoFile)
    /\ UNCHANGED <<mainVars, toUser>>

(* The next answer of the main process is a. *)
Answered(c, a) ==
    /\ Running(c)
    /\ toUser[c] # <<>>
    /\ Head(toUser[c]) = a
    /\ toUser' = [toUser EXCEPT ![c] = Tail(@)]

(* The direction follows from what both want and who drew the larger      *)
(* number.  Nobody wants to download: the process terminates.             *)
ReceiveWant(c) ==
    /\ wait[c] = "want"
    /\ \E a \in {"yes", "no"} :
         /\ Answered(c, a)
         /\ \/ /\ a = "yes"
               /\ Put(c, <<"VALIDATE_receive">>)
               /\ Continue(c, "direction", "receive", NoFile)
            \/ /\ Put(c, <<"VALIDATE_send">>)
               /\ Continue(c, "direction", "send", NoFile)
            \/ /\ a = "no"
               /\ Put(c, <<"TERMINATING">>)
               /\ Exit(c)
    /\ UNCHANGED <<mainVars>>

(* direction_validate; then $Key, which starts the first download. *)
ReceiveValid(c) ==
    /\ wait[c] \in {"receive", "send"}
    /\ \/ /\ Answered(c, "yes")
          /\ Continue(c, IF wait[c] = "send" THEN "send" ELSE "key", "no", NoFile)
          /\ UNCHANGED toMain
       \/ /\ Answered(c, "no")
          /\ Put(c, <<"TERMINATING">>)
          /\ Exit(c)
    /\ UNCHANGED <<mainVars>>

ReceiveKey(c) ==
    /\ Idle(c)
    /\ step[c] = "key"
    /\ Put(c, <<"CHECK_DOWNLOAD">>)
    /\ Continue(c, "key", "file", NoFile)
    /\ UNCHANGED <<mainVars, toUser>>

(* download_next_file has its answer.  $Get is sent, unless the local     *)
(* file is in the way or the socket fails (TERMINATING comes first then). *)
(* translate_local_to_remote never fails (fs.c:949-963), so the handling  *)
(* of its failure (user.c:442-445) is never reached.                      *)
ReceiveFile(c) ==
    /\ wait[c] = "file"
    /\ \/ /\ Answered(c, NoFile)
          /\ Put(c, <<"TERMINATING">>)
          /\ Exit(c)
       \/ \E f \in Name :
            /\ Answered(c, f)
            /\ \/ /\ Continue(c, "file_length", "no", f)
                  /\ UNCHANGED toMain
               \/ EndAndNext(c, "ENDED_failure")
               \/ /\ Put(c, <<"TERMINATING", "ENDED_failure">>)
                  /\ Exit(c)
    /\ UNCHANGED <<mainVars>>

(* $FileLength: the transfer starts, there is nothing to transfer, or the *)
(* file cannot be used.  $Error ends the file too.                        *)
ReceiveFileLength(c) ==
    /\ Idle(c)
    /\ step[c] = "file_length"
    /\ \/ /\ Put(c, <<"TRANSFER_START">>)
          /\ Continue(c, "data_recv", "no", file[c])
       \/ /\ Put(c, <<"TRANSFER_START", "ENDED_success", "CHECK_DOWNLOAD">>)
          /\ Continue(c, "file_length", "file", NoFile)
       \/ /\ EndAndNext(c, "ENDED_failure")
       \/ /\ Put(c, <<"TERMINATING", "ENDED_failure">>)
          /\ Exit(c)
    /\ UNCHANGED <<mainVars, toUser>>

(* $MaxedOut *)
ReceiveMaxedOut(c) ==
    /\ Idle(c)
    /\ step[c] = "file_length"
    /\ Put(c, <<"ENDED_failure", "TERMINATING">>)
    /\ Exit(c)
    /\ UNCHANGED <<mainVars, toUser>>

(* The last byte arrived; closing the file may still fail. *)
FinishDownload(c) ==
    /\ Idle(c)
    /\ step[c] = "data_recv"
    /\ \E ended \in {"ENDED_success", "ENDED_failure"} :
         /\ EndAndNext(c, ended)
    /\ UNCHANGED <<mainVars, toUser>>

(* Data cannot be written. *)
FailDownload(c) ==
    /\ Idle(c)
    /\ step[c] = "data_recv"
    /\ Put(c, <<"ENDED_failure", "TERMINATING">>)
    /\ Exit(c)
    /\ UNCHANGED <<mainVars, toUser>>

(* terminate_process: a protocol error, a closed socket. *)
Terminate(c) ==
    /\ Idle(c)
    /\ Put(c, <<"TERMINATING">>)
    /\ Exit(c)
    /\ UNCHANGED <<mainVars, toUser>>

(* USER_CONN_IDLE_TIMEOUT seconds pass in which nothing is read from the  *)
(* socket or written to it.  The alarm is off while the process waits for *)
(* the main process.                                                      *)
Silence(c) ==
    /\ Idle(c)
    /\ c \notin silent
    /\ silent' = silent \cup {c}
    /\ UNCHANGED <<mainVars, toMain, toUser, step, wait, file>>

(* Input without effect (a part of a command, an empty one or one that is *)
(* not known) comes in time and sets the alarm again.  While data is      *)
(* expected every byte is data, of which there is only so much.           *)
ReceiveIgnored(c) ==
    /\ Idle(c)
    /\ step[c] # "data_recv"
    /\ c \in silent
    /\ silent' = silent \ {c}
    /\ UNCHANGED <<mainVars, toMain, toUser, step, wait, file>>

(* SIGALRM: the idle timeout, which ends the process. *)
Alarm(c) == c \in silent /\ Terminate(c)

(* The process dies, or learns that the main process closed the pipes. *)
Die(c) ==
    /\ Running(c)
    /\ Exit(c)
    /\ UNCHANGED <<mainVars, toMain, toUser>>

-----------------------------------------------------------------------------
(* The main process: connections *)

Receive(c, id) ==
    /\ Live(c)
    /\ toMain[c] # <<>>
    /\ Head(toMain[c]).id = id

Consume(c) == toMain' = [toMain EXCEPT ![c] = Tail(@)]

SendAnswer(c, a) == toUser' = [toUser EXCEPT ![c] = Append(@, a)]

(* has_user_conn *)
HasUserConn(d) == \E c \in Conn : dir[c] = d

(* A connection whose nick was validated: the user has a place for it. *)
Connect(c) ==
    /\ ~Live(c) /\ ~Running(c)
    /\ Cardinality({d \in Conn : Live(d)}) < MaxConn
    /\ dir' = [dir EXCEPT ![c] = "unknown"]
    /\ queue_pos' = [queue_pos EXCEPT ![c] = 0]
    /\ queued_valid' = queued_valid \ {c}
    /\ transfer_file' = [transfer_file EXCEPT ![c] = NoFile]
    /\ step' = [step EXCEPT ![c] = "direction"]
    /\ UNCHANGED <<queue, occupied, used_dl_slots,
                   renamed, shifted, toMain, toUser, wait, file, silent>>

(* DC_MSG_WANT_DOWNLOAD *)
HandleWantDownload(c) ==
    /\ Receive(c, "WANT_DOWNLOAD")
    /\ Consume(c)
    /\ SendAnswer(c, IF ~HasUserConn("receive") /\ queue_pos[c] < Len(queue)
                     THEN "yes" ELSE "no")
    /\ UNCHANGED <<mainVars, userVars>>

\* Variant of MayTake: the directions of the other connections are not checked.
MayTakeAny(c, d) == dir[c] = "unknown"

(* validate_direction: one connection per direction. *)
MayTake(c, d) == dir[c] = "unknown" /\ ~HasUserConn(d)

HandleValidateDir(c, d) ==
    /\ Receive(c, IF d = "receive" THEN "VALIDATE_receive" ELSE "VALIDATE_send")
    /\ Consume(c)
    /\ SendAnswer(c, IF MayTake(c, d) THEN "yes" ELSE "no")
    /\ dir' = IF MayTake(c, d) THEN [dir EXCEPT ![c] = d] ELSE dir
    /\ UNCHANGED <<queueVars, userVars>>

-----------------------------------------------------------------------------
(* The main process: the queue *)

(* DC_MSG_CHECK_DOWNLOAD: the entry at queue_pos, if there is one.  No    *)
(* entry of the queue has the status DONE, so none is skipped.            *)
HandleCheckDownload(c) ==
    /\ Receive(c, "CHECK_DOWNLOAD")
    /\ Consume(c)
    /\ LET pos == queue_pos[c] + 1 IN
       \/ /\ pos <= Len(queue)
          /\ queue' = [queue EXCEPT ![pos].status = "PROCESSING"]
          /\ queued_valid' = queued_valid \cup {c}
          /\ occupied' = occupied \cup {c}
          /\ transfer_file' = [transfer_file EXCEPT ![c] = queue[pos].file]
          /\ used_dl_slots' = used_dl_slots + 1
          /\ shifted' = shifted \ {c}
          /\ SendAnswer(c, queue[pos].file)
       \/ /\ pos > Len(queue)
          /\ SendAnswer(c, NoFile)
          /\ UNCHANGED <<queue, queued_valid, occupied, transfer_file, used_dl_slots, shifted>>
    /\ UNCHANGED <<dir, queue_pos, renamed, userVars>>

\* Variants of HandleEndedDownload: a failed transfer is renamed too, the slot
\* is not given back.
EndedAsSuccess(c, success) ==
    /\ used_dl_slots' = used_dl_slots - (IF c \in occupied THEN 1 ELSE 0)
    /\ occupied' = occupied \ {c}
    /\ queued_valid' = queued_valid \ {c}
    /\ queue' = IF c \in queued_valid THEN RemoveAt(queue, queue_pos[c] + 1) ELSE queue
    /\ renamed' = renamed \cup {transfer_file[c]}
    /\ transfer_file' = [transfer_file EXCEPT ![c] = NoFile]
EndedKeepsSlot(c, success) ==
    /\ queued_valid' = queued_valid \ {c}
    /\ transfer_file' = [transfer_file EXCEPT ![c] = NoFile]
    /\ UNCHANGED <<queue, occupied, used_dl_slots, renamed>>

(* handle_ended_download: the entry at queue_pos leaves the queue.  What  *)
(* a successful transfer does with the downloaded file depends on that    *)
(* entry; the rename itself may fail.  Left out: the list that goes to    *)
(* the parser when it is browsed, and the files to delete on exit.        *)
HandleEndedDownload(c, success) ==
    /\ used_dl_slots' = used_dl_slots - (IF c \in occupied THEN 1 ELSE 0)
    /\ occupied' = occupied \ {c}
    /\ queued_valid' = queued_valid \ {c}
    /\ transfer_file' = [transfer_file EXCEPT ![c] = NoFile]
    /\ \/ /\ c \notin queued_valid
          /\ UNCHANGED <<queue, renamed>>
       \/ /\ c \in queued_valid
          /\ queue' = RemoveAt(queue, queue_pos[c] + 1)
          /\ \/ /\ success /\ queue[queue_pos[c] + 1].file # List
                /\ renamed' = renamed \cup {transfer_file[c]}
             \/ UNCHANGED renamed

(* DC_MSG_DOWNLOAD_ENDED *)
HandleDownloadEnded(c) ==
    /\ \E success \in BOOLEAN :
         /\ Receive(c, IF success THEN "ENDED_success" ELSE "ENDED_failure")
         /\ HandleEndedDownload(c, success)
    /\ Consume(c)
    /\ UNCHANGED <<dir, queue_pos, shifted, toUser, userVars>>

(* DC_MSG_TRANSFER_START names the file that is transferred. *)
HandleTransferStart(c) ==
    /\ Receive(c, "TRANSFER_START")
    /\ Consume(c)
    /\ transfer_file' = [transfer_file EXCEPT ![c] = Head(toMain[c]).file]
    /\ UNCHANGED <<queue, queue_pos, queued_valid, occupied, used_dl_slots,
                   renamed, shifted, dir, toUser, userVars>>

(* user_disconnect.  Nobody hears what the process does from now on, so   *)
(* an answer it may still find in its pipe is left out.                   *)
UserDisconnect(c) ==
    /\ IF c \in occupied
       THEN HandleEndedDownload(c, FALSE)
       ELSE UNCHANGED <<queue, queued_valid, occupied, transfer_file, used_dl_slots,
                        renamed>>
    /\ dir' = [dir EXCEPT ![c] = "none"]
    /\ toMain' = [toMain EXCEPT ![c] = <<>>]
    /\ toUser' = [toUser EXCEPT ![c] = <<>>]
    /\ UNCHANGED <<queue_pos, shifted, userVars>>

HandleTerminating(c) ==
    /\ Receive(c, "TERMINATING")
    /\ UserDisconnect(c)

(* The pipe of a dead process is drained, or writing to it fails. *)
HandleEof(c) ==
    /\ Live(c) /\ ~Running(c)
    /\ toMain[c] = <<>> \/ toUser[c] # <<>>
    /\ UserDisconnect(c)

(* user_conn_cancel *)
Cancel(c) ==
    /\ Live(c)
    /\ UserDisconnect(c)

-----------------------------------------------------------------------------
(* Commands *)

Queued == {queue[i].file : i \in 1..Len(queue)}

(* get and getresult: append a file that is not in the queue. *)
Get(f) ==
    /\ f \notin Queued
    /\ queue' = Append(queue, [file |-> f, status |-> "QUEUED"])
    /\ UNCHANGED <<queue_pos, queued_valid, occupied, transfer_file, used_dl_slots,
                   renamed, shifted, dir, toMain, toUser, userVars>>

(* browse: the list goes to the front of the queue, unless it is in it. *)
Browse ==
    /\ List \notin Queued
    /\ queue' = <<[file |-> List, status |-> "QUEUED"]>> \o queue
    /\ shifted' = shifted \cup queued_valid
    /\ UNCHANGED <<queue_pos, queued_valid, occupied, transfer_file, used_dl_slots,
                   renamed, dir, toMain, toUser, userVars>>

Null == [file |-> NoFile, status |-> "NULL"]

(* compact_queue_ptrv moves each entry to the first free place before it; *)
(* free is first_free counted from 1, or 0 while there is none.           *)
CompactStep(acc, c) ==
    IF acc.buf[c] = Null
    THEN [acc EXCEPT !.free = IF @ = 0 THEN c ELSE @]
    ELSE IF acc.free = 0
    THEN acc
    ELSE LET moved == [acc.buf EXCEPT ![acc.free] = acc.buf[c], ![c] = Null]
         IN  [buf |-> moved, free |-> Min({i \in acc.free + 1..c : moved[i] = Null})]

Compact(buf) ==
    LET loop[c \in 0..Len(buf)] ==
            IF c = 0 THEN [buf |-> buf, free |-> 0] ELSE CompactStep(loop[c - 1], c)
        end == loop[Len(buf)]
    IN  IF end.free = 0 THEN buf ELSE [i \in 1..end.free - 1 |-> end.buf[i]]

\* Variant of QueuedValidAfter: the entry under transfer is not noticed.
QueuedValidKept(buf) == queued_valid

(* The connection whose entry was removed has no valid entry any more. *)
QueuedValidAfter(buf) ==
    {c \in queued_valid : ~(/\ dir[c] = "receive"
                            /\ queue_pos[c] < Len(buf)
                            /\ buf[queue_pos[c] + 1] = Null)}

(* queue_pos goes down by the number of removed entries before it. *)
QueuePosAfter(buf) ==
    [c \in Conn |->
        IF dir[c] = "receive" /\ queue_pos[c] < Len(buf)
        THEN Cardinality({i \in 1..queue_pos[c] : buf[i] # Null})
        ELSE queue_pos[c]]

(* unqueue: the entries at the positions removed leave the queue. *)
Unqueue(removed) ==
    LET buf == [i \in 1..Len(queue) |-> IF i \in removed THEN Null ELSE queue[i]]
    IN  /\ queued_valid' = QueuedValidAfter(buf)
        /\ queue_pos' = QueuePosAfter(buf)
        /\ queue' = Compact(buf)
        /\ UNCHANGED <<occupied, transfer_file, used_dl_slots,
                       renamed, shifted, dir, toMain, toUser, userVars>>

-----------------------------------------------------------------------------

UserStep(c) ==
    \/ ReceiveDirection(c)
    \/ ReceiveWant(c)
    \/ ReceiveValid(c)
    \/ ReceiveKey(c)
    \/ ReceiveFile(c)
    \/ ReceiveFileLength(c)
    \/ ReceiveMaxedOut(c)
    \/ FinishDownload(c)
    \/ FailDownload(c)
    \/ Terminate(c)
    \/ Silence(c)
    \/ ReceiveIgnored(c)
    \/ Alarm(c)
    \/ Die(c)

MainStep(c) ==
    \/ HandleWantDownload(c)
    \/ \E d \in {"receive", "send"} : HandleValidateDir(c, d)
    \/ HandleCheckDownload(c)
    \/ HandleDownloadEnded(c)
    \/ HandleTransferStart(c)
    \/ HandleTerminating(c)
    \/ HandleEof(c)

Command ==
    \/ \E f \in File : Get(f)
    \/ Browse
    \/ \E removed \in SUBSET (1..Len(queue)) : Unqueue(removed)

Next ==
    \/ \E c \in Conn : Connect(c)
    \/ \E c \in Conn : UserStep(c)
    \/ \E c \in Conn : MainStep(c)
    \/ \E c \in Conn : Cancel(c)
    \/ Command

Spec == Init /\ [][Next]_vars

(***************************************************************************)
(* Fairness: the main loop serves its pipes, a process goes on with an     *)
(* answer, time passes (a process gets something to do or is silent for    *)
(* USER_CONN_IDLE_TIMEOUT seconds), and the alarm of one that stays silent *)
(* rings.  Nothing is assumed of the remote user, who may send for ever    *)
(* what is ignored.                                                        *)
(***************************************************************************)
FairSpec ==
    /\ Spec
    /\ \A c \in Conn : /\ WF_vars(MainStep(c))
                       /\ WF_vars(ReceiveWant(c) \/ ReceiveValid(c) \/ ReceiveFile(c))
                       /\ WF_vars(Silence(c))
                       /\ WF_vars(Alarm(c))

-----------------------------------------------------------------------------
(* Properties *)

(* Every variable has its type.                                           *)
TypeOK ==
    /\ queue \in Seq(Entry)
    /\ dir \in [Conn -> Dir]
    /\ queue_pos \in [Conn -> Nat]
    /\ queued_valid \subseteq Conn /\ occupied \subseteq Conn /\ shifted \subseteq Conn
    /\ transfer_file \in [Conn -> Name \cup {NoFile}]
    /\ used_dl_slots \in Nat
    /\ renamed \subseteq Name
    /\ toMain \in [Conn -> Seq(Msg)]
    /\ toUser \in [Conn -> Seq(Answer)]
    /\ step \in [Conn -> Step]
    /\ wait \in [Conn -> Wait]
    /\ file \in [Conn -> Name \cup {NoFile}]
    /\ silent \subseteq Conn

(* The counter of used download slots is the number of connections that   *)
(* occupy one, however their transfers end: by DOWNLOAD_ENDED, by a       *)
(* cancel, or with the death of the process (main.c:336, 468).  A         *)
(* connection that occupies a slot receives: user_disconnect takes any    *)
(* occupied connection that does not send for a download (main.c:471).    *)
DlSlotAccounting ==
    /\ used_dl_slots = Cardinality(occupied)
    /\ \A c \in occupied : dir[c] = "receive"

(* Two connections of one user never have the same direction, even when   *)
(* both asked while neither had one (main.c:223-230).  handle_ended_-     *)
(* download, unqueue and the names of the connections rely on it.         *)
OnePerDirection ==
    \A c, d \in Conn : c # d /\ dir[c] \in {"receive", "send"} => dir[c] # dir[d]

(* While a connection downloads, the process and the main process agree   *)
(* on the file (main.c:651, 671).                                         *)
SameFile == \A c \in Conn : Live(c) /\ file[c] # NoFile =>
                /\ transfer_file[c] = file[c]
                /\ c \in occupied

DownloadsSound == TypeOK /\ DlSlotAccounting /\ SameFile

(* A file gets its final name only when a process reports that it         *)
(* received that very file completely, and a file list never gets one     *)
(* (main.c:355-372), whatever is queued, browsed and unqueued meanwhile.  *)
Reported(f) ==
    \E c \in Conn : /\ toMain[c] # <<>>
                   /\ Head(toMain[c]).id = "ENDED_success"
                   /\ Head(toMain[c]).file = f
                   /\ toMain'[c] = Tail(toMain[c])
RenamedWasReceived ==
    [][\A f \in renamed' \ renamed : f # List /\ Reported(f)]_vars

(* As long as nothing was put in front of it, the entry at queue_pos is   *)
(* the one under transfer (microdc.h:343), whatever is unqueued before,   *)
(* behind or at it.  Shifted or not, there is an entry: handle_ended_-    *)
(* download uses what ptrv_remove returns unseen, and that is NULL for an *)
(* index outside the queue (main.c:350).                                  *)
QueuePosTracksTransfer ==
    \A c \in queued_valid :
        /\ queue_pos[c] < Len(queue)
        /\ c \notin shifted =>
               queue[queue_pos[c] + 1] = [file |-> transfer_file[c], status |-> "PROCESSING"]

(* An occupied download slot is given back (main.c:336, 468).  A peer     *)
(* that does not answer $Get, or that stops to send, loses it to the      *)
(* alarm (user.c:1236, 1369); it keeps it for ever only if it keeps       *)
(* sending, each time before the alarm rings, what the process ignores.   *)
TransferEnds ==
    \A c \in Conn : <>[](c \in occupied) => []<><<ReceiveIgnored(c)>>_vars

(* A process that blocks on the main process gets its answer, unless its  *)
(* connection is dropped (main.c:577-684).                                *)
RequestAnswered ==
    \A c \in Conn : wait[c] # "no" ~> toUser[c] # <<>> \/ wait[c] = "no" \/ ~Live(c)

DownloadsEnd == TransferEnds /\ RequestAnswered

-----------------------------------------------------------------------------
(* What the source says of queue_pos, and the code does not keep: see the *)
(* findings.                                                              *)

(* While queued_valid is set, the entry at queue_pos is the file under    *)
(* transfer: the flag is documented as true unless that entry has been    *)
(* removed (microdc.h:343).                                               *)
QueuedValidMeansTransferred ==
    \A c \in queued_valid :
        /\ queue_pos[c] < Len(queue)
        /\ queue[queue_pos[c] + 1].file = transfer_file[c]
=============================================================================
