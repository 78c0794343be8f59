---------------------------- MODULE UploadSlots -----------------------------
(***************************************************************************)
(* Upload slots: the main process that owns the slot counters (main.c) and *)
(* one user process per connection that asks for slots and serves files    *)
(* (user.c).  Each pair talks over two pipes; a connection of this module  *)
(* is one on which we send (its direction is DC_DIR_SEND).                 *)
(*                                                                         *)
(* The two sides fail separately: a user process may die at any point, and *)
(* the main process may drop a connection (the cancel command) while its   *)
(* process is in the middle of a transfer.                                 *)
(***************************************************************************)
EXTENDS Integers, Sequences, FiniteSets

CONSTANTS
    Conn,          \* connections (a DCUserConn and its user process)
    Peer,          \* remote users
    NoPeer,        \* uc->info = NULL
    MiniCount,     \* minislot_count
    MaxSlots,      \* BOUND: the largest my_ul_slots the user sets
    PipeMax        \* BOUND: messages a pipe to the main process can hold

ASSUME ConstantsAssumption ==
    /\ IsFiniteSet(Conn)
    /\ NoPeer \notin Peer
    /\ MiniCount \in Nat
    /\ MaxSlots \in Nat
    /\ PipeMax \in Nat

VARIABLES
    \* the main process
    live,             \* connections in user_conns, set up for upload
    peer,             \* uc->info
    slot,             \* connections with uc->occupied_slot
    mini,             \* connections with uc->occupied_minislot
    transferring,     \* connections with uc->transferring
    used_ul_slots,
    used_mini_slots,
    my_ul_slots,
    granted,          \* users with slot_granted # 0
    \* the pipes
    toMain,           \* messages of the user process, in order
    toUser,           \* replies of the main process, in order
    \* the user processes
    user_state,       \* ucl->user_state, "OFF" when there is no process
    wait,             \* the request whose reply the process blocks on
    open,             \* processes with transfer_fd >= 0
    silent            \* processes whose alarm is due: nothing was read from
                      \* or written to the socket since it was set

mainVars == <<live, peer, slot, mini, transferring, used_ul_slots,
              used_mini_slots, my_ul_slots, granted>>
userVars == <<user_state, wait, open, silent>>
vars == <<live, peer, slot, mini, transferring, used_ul_slots,
          used_mini_slots, my_ul_slots, granted, toMain, toUser,
          user_state, wait, open, silent>>

UserState == {"OFF", "GET", "SEND_GET", "DATA_SEND"}
Wait      == {"no", "Get", "Block"}
Msg       == {"CHECK_UPLOAD", "UPLOAD_ENDED", "TRANSFER_START", "UNNAMED_START",
              "TERMINATING"}
Reply     == {"denied", "no file", "file"}

\* What resolve_upload_file says of a name: a file list or a file of at most
\* minislot_size bytes, a larger file, or nothing that is shared.
Resolved  == {"small", "big", "none"}

Init ==
    /\ live = {} /\ slot = {} /\ mini = {} /\ transferring = {}
    /\ peer = [c \in Conn |-> NoPeer]
    /\ used_ul_slots = 0 /\ used_mini_slots = 0
    /\ my_ul_slots \in 0..MaxSlots
    /\ granted = {}
    /\ toMain = [c \in Conn |-> <<>>]
    /\ toUser = [c \in Conn |-> <<>>]
    /\ user_state = [c \in Conn |-> "OFF"]
    /\ wait = [c \in Conn |-> "no"]
    /\ open = {}
    /\ silent = {}

-----------------------------------------------------------------------------
(* The user process *)

Running(c) == user_state[c] # "OFF"
Idle(c)    == Running(c) /\ wait[c] = "no"

(* msgq_put_sync of several messages.  The process blocks while the pipe is *)
(* full.  Once the main process has closed its end nobody reads them.       *)
Put(c, msgs) ==
    /\ Len(toMain[c]) + Len(msgs) <= PipeMax
    /\ toMain' = IF c \in live
                 THEN [toMain EXCEPT ![c] = @ \o msgs]
                 ELSE toMain

(* The process goes on in state s, with or without an open file.  A handler *)
(* of the socket sets the alarm again when it is done.                      *)
Continue(c, s, w, isOpen) ==
    /\ silent' = silent \ {c}
    /\ user_state' = [user_state EXCEPT ![c] = s]
    /\ wait' = [wait EXCEPT ![c] = w]
    /\ open' = IF isOpen THEN open \cup {c} ELSE open \ {c}

(* user_running becomes FALSE: the loop of user_main ends. *)
Exit(c) == Continue(c, "OFF", "no", FALSE)

\* In SEND_GET the previous file is given up.
Ended(c)     == IF user_state[c] = "SEND_GET" THEN <<"UPLOAD_ENDED">> ELSE <<>>
Check(named) == IF named THEN <<"CHECK_UPLOAD">> ELSE <<>>

\* Variants of GetMessages: the end is not reported, or reported too late.
GetMessagesNoEnd(c, named)   == Check(named)
GetMessagesEndLast(c, named) == Check(named) \o Ended(c)

(* What $Get tells the main process; an empty name asks for nothing. *)
GetMessages(c, named) == Ended(c) \o Check(named)

(* $Get *)
ReceiveGet(c) ==
    /\ Idle(c)
    /\ user_state[c] \in {"GET", "SEND_GET"}
    /\ \E named \in BOOLEAN :
         /\ Put(c, GetMessages(c, named))
         /\ Continue(c, user_state[c], IF named THEN "Get" ELSE "no", FALSE)
    /\ UNCHANGED <<mainVars, toUser>>

\* Variant of ReceiveGetBlock: it does not wait for the answer.
GetBlockWithoutWaiting(c) ==
    /\ Idle(c)
    /\ user_state[c] = "GET"
    /\ Put(c, <<"CHECK_UPLOAD">>)
    /\ UNCHANGED <<mainVars, userVars, toUser>>

(* $UGetBlock and $ADCGET: a part of a file, sent without waiting for $Send. *)
ReceiveGetBlock(c) ==
    /\ Idle(c)
    /\ user_state[c] = "GET"
    /\ Put(c, <<"CHECK_UPLOAD">>)
    /\ Continue(c, "GET", "Block", FALSE)
    /\ UNCHANGED <<mainVars, toUser>>

(* upload_file: start sending, unless there is nothing left to send.      *)
(* Without an open file the message carries no names: $Send came after a  *)
(* $Get that was denied or had no name.                                   *)
UploadFile(c, isOpen) ==
    \/ /\ Put(c, <<"UPLOAD_ENDED">>)
       /\ Continue(c, "GET", "no", FALSE)
    \/ /\ Put(c, <<IF isOpen THEN "TRANSFER_START" ELSE "UNNAMED_START">>)
       /\ Continue(c, "DATA_SEND", "no", isOpen)

(* The reply allows the file.  It may still fail to open, the connection  *)
(* may fail while the answer is written to it (TERMINATING comes first    *)
(* then), or the transfer is set up.                                      *)
OpenUploadFile(c) ==
    \/ \* open_upload_file_main fails after the slot was allocated
       /\ Put(c, <<"UPLOAD_ENDED">>)
       /\ Continue(c, user_state[c], "no", FALSE)
    \/ \* the answer cannot be written to the socket
       /\ Put(c, <<"TERMINATING", "UPLOAD_ENDED">>)
       /\ Exit(c)
    \/ \* $FileLength sent: wait for $Send or another $Get
       /\ wait[c] = "Get"
       /\ Continue(c, "SEND_GET", "no", TRUE)
       /\ UNCHANGED toMain
    \/ \* $Sending or $ADCSND sent: the data follows at once
       /\ wait[c] = "Block"
       /\ UploadFile(c, TRUE)

(* The main process has answered CHECK_UPLOAD. *)
ReceiveReply(c) ==
    /\ Running(c)
    /\ toUser[c] # <<>>
    /\ toUser' = [toUser EXCEPT ![c] = Tail(@)]
    /\ \/ /\ Head(toUser[c]) = "denied"      \* $MaxedOut is sent
          /\ \/ /\ Continue(c, user_state[c], "no", FALSE)
                /\ UNCHANGED toMain
             \/ /\ Put(c, <<"TERMINATING">>)
                /\ Exit(c)
       \/ /\ Head(toUser[c]) = "no file"     \* $Error is sent
          /\ \/ /\ Put(c, <<"UPLOAD_ENDED">>)
                /\ Continue(c, user_state[c], "no", FALSE)
             \/ /\ Put(c, <<"TERMINATING", "UPLOAD_ENDED">>)
                /\ Exit(c)
       \/ /\ Head(toUser[c]) = "file"
          /\ OpenUploadFile(c)
    /\ UNCHANGED mainVars

(* $Send *)
ReceiveSend(c) ==
    /\ Idle(c)
    /\ user_state[c] = "SEND_GET"
    /\ UploadFile(c, c \in open)
    /\ UNCHANGED <<mainVars, toUser>>

(* The last block has left the socket. *)
FinishUpload(c) ==
    /\ Idle(c)
    /\ user_state[c] = "DATA_SEND"
    /\ c \in open
    /\ Put(c, <<"UPLOAD_ENDED">>)
    /\ Continue(c, "GET", "no", FALSE)
    /\ UNCHANGED <<mainVars, toUser>>

(* A block cannot be read from the file or written to the socket. *)
FailUpload(c) ==
    /\ Idle(c)
    /\ user_state[c] = "DATA_SEND"
    /\ Put(c, <<"UPLOAD_ENDED", "TERMINATING">>)
    /\ Exit(c)
    /\ UNCHANGED <<mainVars, toUser>>

(* terminate_process: a command in the wrong state, a closed socket or    *)
(* SIGTERM.  The open file is not reported as ended.                      *)
Terminate(c) ==
    /\ Idle(c)
    /\ Put(c, <<"TERMINATING">>)
    /\ Exit(c)
    /\ UNCHANGED <<mainVars, toUser>>

(* USER_CONN_IDLE_TIMEOUT seconds pass in which nothing is read from the  *)
(* socket or written to it.  The alarm is off while the process waits for *)
(* the main process.                                                      *)
Silence(c) ==
    /\ Idle(c)
    /\ c \notin silent
    /\ silent' = silent \cup {c}
    /\ UNCHANGED <<mainVars, toMain, toUser, user_state, wait, open>>

(* Input without effect: a part of a command, an empty one or one that is  *)
(* not known.  It comes in time and sets the alarm again.                  *)
ReceiveIgnored(c) ==
    /\ Idle(c)
    /\ c \in silent
    /\ silent' = silent \ {c}
    /\ UNCHANGED <<mainVars, toMain, toUser, user_state, wait, open>>

(* SIGALRM: the idle timeout, which ends the process. *)
Alarm(c) == c \in silent /\ Terminate(c)

(* The process dies (a failed assertion, a signal) without a word. *)
Crash(c) ==
    /\ Running(c)
    /\ Exit(c)
    /\ UNCHANGED <<mainVars, toMain, toUser>>

(* fatal_error: the main process has closed the pipes. *)
NoticeDisconnect(c) ==
    /\ Running(c)
    /\ c \notin live
    /\ Exit(c)
    /\ UNCHANGED <<mainVars, toMain, toUser>>

-----------------------------------------------------------------------------
(* The main process *)

\* Variants of HandleEndedUpload: the counters are decreased whether the
\* connection has a slot or not, the flags are cleared without the counters,
\* nothing is given back.
EndedUnconditionally(c) ==
    /\ used_ul_slots' = used_ul_slots - 1
    /\ used_mini_slots' = used_mini_slots - 1
    /\ slot' = slot \ {c} /\ mini' = mini \ {c}
    /\ transferring' = transferring \ {c}
EndedUncounted(c) ==
    /\ UNCHANGED <<used_ul_slots, used_mini_slots>>
    /\ slot' = slot \ {c} /\ mini' = mini \ {c}
    /\ transferring' = transferring \ {c}
EndedKeepsSlot(c) ==
    /\ UNCHANGED <<used_ul_slots, used_mini_slots, slot, mini>>
    /\ transferring' = transferring \ {c}

(* handle_ended_upload: both kinds of slot are given back. *)
HandleEndedUpload(c) ==
    /\ used_ul_slots' = IF c \in slot THEN used_ul_slots - 1 ELSE used_ul_slots
    /\ used_mini_slots' = IF c \in mini THEN used_mini_slots - 1 ELSE used_mini_slots
    /\ slot' = slot \ {c}
    /\ mini' = mini \ {c}
    /\ transferring' = transferring \ {c}

(* user_disconnect: the DCUserConn and its queues are freed.  The upload  *)
(* is ended only if the connection occupies a regular slot.  Nobody hears *)
(* what the process does from now on, so an answer it may still find in   *)
(* its pipe is left out.                                                  *)
UserDisconnect(c) ==
    /\ live' = live \ {c}
    /\ IF c \in slot
       THEN HandleEndedUpload(c)
       ELSE /\ mini' = mini \ {c}
            /\ transferring' = transferring \ {c}
            /\ UNCHANGED <<slot, used_ul_slots, used_mini_slots>>
    /\ peer' = [peer EXCEPT ![c] = NoPeer]
    /\ toMain' = [toMain EXCEPT ![c] = <<>>]
    /\ toUser' = [toUser EXCEPT ![c] = <<>>]
    /\ UNCHANGED <<my_ul_slots, granted, userVars>>

(* The next message of connection c is m. *)
Receive(c, m) ==
    /\ c \in live
    /\ toMain[c] # <<>>
    /\ Head(toMain[c]) = m

Consume(c) == toMain' = [toMain EXCEPT ![c] = Tail(@)]

SendReply(c, r) == toUser' = [toUser EXCEPT ![c] = Append(@, r)]

(* A connection of user p is accepted for upload: user_connection_new,    *)
(* validate_nick and validate_direction.  A user has one such connection. *)
StartConnection(c, p) ==
    /\ c \notin live
    /\ user_state[c] = "OFF"
    /\ \A d \in live : peer[d] # p
    /\ live' = live \cup {c}
    /\ peer' = [peer EXCEPT ![c] = p]
    /\ user_state' = [user_state EXCEPT ![c] = "GET"]
    /\ UNCHANGED <<slot, mini, transferring, used_ul_slots, used_mini_slots,
                   my_ul_slots, granted, toMain, toUser, wait, open, silent>>

\* Variant of SlotAvailable: off by one.
SlotAvailableAtLimit(c) == used_ul_slots <= my_ul_slots \/ peer[c] \in granted

SlotAvailable(c) == used_ul_slots < my_ul_slots \/ peer[c] \in granted

TakeSlot(c) ==
    /\ used_ul_slots' = used_ul_slots + 1
    /\ slot' = slot \cup {c}
    /\ UNCHANGED <<mini, used_mini_slots>>

TakeMinislot(c) ==
    /\ used_mini_slots' = used_mini_slots + 1
    /\ mini' = mini \cup {c}
    /\ UNCHANGED <<slot, used_ul_slots>>

(* DC_MSG_CHECK_UPLOAD: a small file takes a minislot while there is one. *)
HandleCheckUpload(c) ==
    /\ Receive(c, "CHECK_UPLOAD")
    /\ Consume(c)
    /\ \E r \in Resolved :
         \/ /\ r = "none"
            /\ SendReply(c, "no file")
            /\ UNCHANGED <<slot, mini, used_ul_slots, used_mini_slots>>
         \/ /\ r = "small" /\ used_mini_slots < MiniCount
            /\ TakeMinislot(c)
            /\ SendReply(c, "file")
         \/ /\ r = "small" => used_mini_slots >= MiniCount
            /\ r # "none" /\ SlotAvailable(c)
            /\ TakeSlot(c)
            /\ SendReply(c, "file")
         \/ /\ r = "small" => used_mini_slots >= MiniCount
            /\ r # "none" /\ ~SlotAvailable(c)
            /\ SendReply(c, "denied")
            /\ UNCHANGED <<slot, mini, used_ul_slots, used_mini_slots>>
    /\ UNCHANGED <<live, peer, transferring, my_ul_slots, granted, userVars>>

(* DC_MSG_TRANSFER_START of an open file. *)
HandleTransferStart(c) ==
    /\ Receive(c, "TRANSFER_START")
    /\ Consume(c)
    /\ transferring' = transferring \cup {c}
    /\ UNCHANGED <<live, peer, slot, mini, used_ul_slots, used_mini_slots,
                   my_ul_slots, granted, toUser, userVars>>

(* The main process is gone and the program is started again: no slot is   *)
(* used, no user was granted one and no connection is known.  The user     *)
(* processes it left behind go on until they notice that nobody has the    *)
(* other ends of their pipes.                                              *)
RestartMain ==
    /\ live' = {} /\ slot' = {} /\ mini' = {} /\ transferring' = {}
    /\ peer' = [c \in Conn |-> NoPeer]
    /\ used_ul_slots' = 0 /\ used_mini_slots' = 0
    /\ my_ul_slots' \in 0..MaxSlots
    /\ granted' = {}
    /\ toMain' = [c \in Conn |-> <<>>]
    /\ toUser' = [c \in Conn |-> <<>>]
    /\ UNCHANGED userVars

(* DC_MSG_TRANSFER_START without names: base_name reads through a NULL     *)
(* pointer, which is the end of the main process.                          *)
HandleUnnamedStart(c) ==
    /\ Receive(c, "UNNAMED_START")
    /\ RestartMain

(* DC_MSG_UPLOAD_ENDED *)
HandleUploadEnded(c) ==
    /\ Receive(c, "UPLOAD_ENDED")
    /\ Consume(c)
    /\ HandleEndedUpload(c)
    /\ UNCHANGED <<live, peer, my_ul_slots, granted, toUser, userVars>>

(* DC_MSG_TERMINATING is the last message: what follows it is dropped. *)
HandleTerminating(c) ==
    /\ Receive(c, "TERMINATING")
    /\ UserDisconnect(c)

(* The pipe from a dead process is drained, or writing to it fails. *)
HandleEof(c) ==
    /\ c \in live
    /\ ~Running(c)
    /\ toMain[c] = <<>> \/ toUser[c] # <<>>
    /\ UserDisconnect(c)

(* user_conn_cancel: the cancel command closes the pipes. *)
Cancel(c) ==
    /\ c \in live
    /\ UserDisconnect(c)

(* The grantslot command toggles the slot of a user. *)
GrantSlot(p) ==
    /\ granted' = IF p \in granted THEN granted \ {p} ELSE granted \cup {p}
    /\ UNCHANGED <<live, peer, slot, mini, transferring, used_ul_slots,
                   used_mini_slots, my_ul_slots, toMain, toUser, userVars>>

(* "set slots n" *)
SetSlots(n) ==
    /\ my_ul_slots' = n
    /\ UNCHANGED <<live, peer, slot, mini, transferring, used_ul_slots,
                   used_mini_slots, granted, toMain, toUser, userVars>>

UserStep(c) ==
    \/ ReceiveGet(c)
    \/ ReceiveGetBlock(c)
    \/ ReceiveReply(c)
    \/ ReceiveSend(c)
    \/ FinishUpload(c)
    \/ FailUpload(c)
    \/ Terminate(c)
    \/ Silence(c)
    \/ ReceiveIgnored(c)
    \/ Alarm(c)
    \/ Crash(c)
    \/ NoticeDisconnect(c)

MainStep(c) ==
    \/ HandleCheckUpload(c)
    \/ HandleTransferStart(c)
    \/ HandleUnnamedStart(c)
    \/ HandleUploadEnded(c)
    \/ HandleTerminating(c)
    \/ HandleEof(c)

Next ==
    \/ \E c \in Conn : UserStep(c)
    \/ \E c \in Conn : MainStep(c)
    \/ \E c \in Conn : Cancel(c)
    \/ \E c \in Conn, p \in Peer : StartConnection(c, p)
    \/ \E p \in Peer : GrantSlot(p)
    \/ \E n \in 0..MaxSlots : SetSlots(n)

Spec == Init /\ [][Next]_vars

(***************************************************************************)
(* Fairness.  The main loop serves every readable pipe, so the main process *)
(* keeps reading messages and end-of-file, and a user process that gets    *)
(* its reply goes on.  Time passes: a process either gets something to do  *)
(* or is silent for USER_CONN_IDLE_TIMEOUT seconds, and the alarm of one   *)
(* that stays silent rings.  Nothing is assumed of the remote users, who   *)
(* may stop in the middle of a transfer or send for ever what is ignored,  *)
(* nor of our own commands, nor that a process learns that its pipes were  *)
(* closed: its siblings may have inherited the other ends.                 *)
(***************************************************************************)
Fairness ==
    \A c \in Conn :
        /\ WF_vars(MainStep(c))
        /\ WF_vars(ReceiveReply(c))
        /\ WF_vars(Silence(c))
        /\ WF_vars(Alarm(c))

FairSpec == Spec /\ Fairness

-----------------------------------------------------------------------------
(* Properties *)

Holds(c) == c \in slot \cup mini

Pending(c, m) == \E i \in 1..Len(toMain[c]) : toMain[c][i] = m

(* Types of the variables, and the bounds the code's guards give them. *)
TypeOK ==
    /\ live \subseteq Conn
    /\ peer \in [Conn -> Peer \cup {NoPeer}]
    /\ slot \subseteq live /\ mini \subseteq live /\ transferring \subseteq live
    /\ used_ul_slots \in Nat
    /\ used_mini_slots \in 0..MiniCount
    /\ my_ul_slots \in 0..MaxSlots
    /\ granted \subseteq Peer
    /\ toMain \in [Conn -> Seq(Msg)]
    /\ toUser \in [Conn -> Seq(Reply)]
    /\ user_state \in [Conn -> UserState]
    /\ wait \in [Conn -> Wait]
    /\ open \subseteq Conn
    /\ silent \subseteq Conn

(* used_ul_slots counts the connections that occupy a slot, through every *)
(* order of requests, ends, crashes and cancels (main.c 296-330, 461-503,  *)
(* 694-745): it never leaks a slot and never frees one twice.              *)
SlotAccounting == used_ul_slots = Cardinality(slot)

(* No upload occupies a slot and a minislot, so none is charged twice: a   *)
(* user process asks again only after it reported the end of its last     *)
(* upload, and the pipe keeps that order (user.c 1040-1063, main.c 694-745). *)
OneChargePerUpload == slot \cap mini = {}

(* A file a user process has open was paid for: until the end of the      *)
(* upload has been read by the main process, its connection holds a slot  *)
(* or a minislot (user.c 590-668, main.c 694-736).                        *)
OpenFileIsCharged == \A c \in open \cap live : Holds(c)

(* A slot that is held has a reason: the file is open, its end is on the  *)
(* way, the permission is on the way, or the process is dead and the main *)
(* process has still to notice (user.c 540-556, 671-684).                 *)
SlotIsJustified ==
    \A c \in live : Holds(c) =>
        \/ c \in open
        \/ Pending(c, "UPLOAD_ENDED")
        \/ toUser[c] = <<"file">>
        \/ ~Running(c)

(* "The main process may only put message on put_mq as a result of a      *)
(* message just received on get_mq" (microdc.h 337): a process that does  *)
(* not block on a reply has none in its pipe, and never two are under way. *)
ReplyOnlyOnRequest ==
    \A c \in live :
        /\ Len(toUser[c]) <= 1
        /\ Idle(c) => toUser[c] = <<>>
        /\ Pending(c, "CHECK_UPLOAD") => toUser[c] = <<>>

(* used_mini_slots never falls below the number of minislot uploads that  *)
(* are under way, so they never outnumber minislot_count.                 *)
MinislotsNotUndercounted == Cardinality(mini) <= used_mini_slots

(* The slots behave as the pool of SlotPool.tla. *)
Pool == INSTANCE SlotPool WITH
    holders <- slot,
    limit <- my_ul_slots,
    favoured <- {c \in live : peer[c] \in granted}
SlotsArePool == Pool!Spec

(* Every slot and every minislot is given up again.  A peer that does not  *)
(* ask for its file, or that stops to read it, loses it to the alarm       *)
(* (user.c 1236, 1329, 1369-1372); it keeps it for ever only if it keeps   *)
(* sending, each time before the alarm rings, what the process ignores.    *)
ChargeEnds ==
    \A c \in Conn : <>[]Holds(c) => []<><<ReceiveIgnored(c)>>_vars

(* A user process of a connection the main process has not dropped never  *)
(* blocks for ever on the answer to CHECK_UPLOAD (user.c 581-590): the    *)
(* main loop reads the request, whatever else it does in between.         *)
RequestAnswered ==
    \A c \in Conn : (c \in live /\ wait[c] # "no") ~> (c \notin live \/ wait[c] = "no")

(* Slots and user processes go on: both of them.                          *)
UploadsGoOn == ChargeEnds /\ RequestAnswered

(* microdc.h 341: occupied_minislot is "true if used_mini_slots were      *)
(* increased for this user connection"; user.c 676: after a process       *)
(* terminates "user_disconnect deals with used_*_slots".  So the counter  *)
(* should be the number of connections with a minislot.                   *)
MinislotAccounting == used_mini_slots = Cardinality(mini)
=============================================================================
