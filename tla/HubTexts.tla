------------------------------ MODULE HubTexts ------------------------------
(***************************************************************************)
(* What the client tells the hub and reads from it (hub.c, connection.c,   *)
(* command.c), and the settings that stand in it (variables.c).  Messages  *)
(* end with a bar and come in pieces; their fields are separated by        *)
(* spaces and dollar signs.  A message is a sequence of characters, of     *)
(* which those that stand for a word of the protocol are longer than one.  *)
(***************************************************************************)
EXTENDS Integers, Sequences, SequencesExt, FiniteSets, Bitwise

CONSTANTS
    Letter,       \* characters without a meaning
    MaxLength,    \* of a nick, a description, an e-mail: 35
    TextMax,      \* bound: characters of a text
    Byte,         \* bytes of a lock
    None

Bar == "|"
Dollar == "$"
\* The character 160, which says that a message is in UTF-8.
Flag == "A0"
Entity == [amp |-> "&", i36 |-> Dollar, i124 |-> Bar]
Character == Letter \cup DOMAIN Entity \cup {Bar, Dollar, " ", "&", ";", "<", ">"}

Places(text, c) == {i \in 1..Len(text) : text[i] = c}
Behind(text, i) == SubSeq(text, i + 1, Len(text))
Before(text, i) == SubSeq(text, 1, i - 1)

-----------------------------------------------------------------------------
(* The stream from the hub *)

(* hub_input_available: the first hub_recvq_last bytes were looked at when *)
(* they came.                                                              *)
HubInputAvailable(q, piece) ==
    LET buf == q.buf \o piece
        ends == {i \in q.last + 1..Len(buf) : buf[i] = Bar}
        Start(i) == LET earlier == {j \in ends : j < i} IN Max(earlier \cup {0}) + 1
        inOrder == SetToSortSeq(ends, <)
        rest == SubSeq(buf, Start(Len(buf) + 1), Len(buf))
    IN  [buf |-> rest,
         last |-> Len(rest),
         commands |-> q.commands \o [k \in 1..Len(inOrder) |-> SubSeq(buf, Start(inOrder[k]), inOrder[k] - 1)]]

Received(pieces) ==
    FoldLeft(HubInputAvailable, [buf |-> <<>>, last |-> 0, commands |-> <<>>], pieces)

(* strsep: up to the next separator; a text that has ended gives no more.  *)
StrSep(text, c) ==
    IF text = None THEN [token |-> None, rest |-> None]
    ELSE IF Places(text, c) = {} THEN [token |-> text, rest |-> None]
    ELSE [token |-> Before(text, Min(Places(text, c))), rest |-> Behind(text, Min(Places(text, c)))]

-----------------------------------------------------------------------------
(* The answer to $Lock *)

Swap(byte) == (byte % 16) * 16 + byte \div 16

(* The key of decode_lock, before it is escaped.                           *)
Key(lock, base) ==
    LET key == [i \in 1..Len(lock) |-> Swap(lock[i] ^^ (IF i = 1 THEN base ELSE lock[i - 1]))]
    IN  [key EXCEPT ![1] = @ ^^ key[Len(lock)]]

Reserved == {0, 5, 36, 96, 124, 126}

(* decode_lock.  A reserved byte is sent as its number in "/%DCN...%/".    *)
DecodeLock(lock, base) ==
    IF Len(lock) < 3 THEN <<>>
    ELSE [i \in 1..Len(lock) |-> [byte |-> Key(lock, base)[i], escaped |-> Key(lock, base)[i] \in Reserved]]

-----------------------------------------------------------------------------
(* Chat *)

(* escape_message.                                                         *)
EscapeMessage(text) ==
    FlattenSeq([i \in 1..Len(text) |->
        IF \E e \in DOMAIN Entity : Entity[e] = text[i]
        THEN <<"&", CHOOSE e \in DOMAIN Entity : Entity[e] = text[i], ";">> ELSE <<text[i]>>])

(* unescape_message.                                                       *)
RECURSIVE UnescapeMessage(_)
UnescapeMessage(text) ==
    IF text = <<>> THEN <<>>
    ELSE IF /\ Len(text) >= 3 /\ text[1] = "&" /\ text[2] \in DOMAIN Entity /\ text[3] = ";"
    THEN <<Entity[text[2]]>> \o UnescapeMessage(Behind(text, 3))
    ELSE <<text[1]>> \o UnescapeMessage(Tail(text))

(* cmd_say, with a nick and a text in the character set of the hub or not. *)
CmdSay(nick, text, utf8) ==
    <<"<">> \o nick \o <<">", IF utf8 THEN Flag ELSE " ">> \o EscapeMessage(text) \o <<Bar>>

(* cmd_msg.                                                                *)
CmdMsg(nick, to, text) ==
    <<"$To:", " ">> \o to \o <<" ", "From:", " ">> \o nick
        \o <<" ", Dollar, "<">> \o nick \o <<">", " ">> \o EscapeMessage(text) \o <<Bar>>

(* prepare_chat_string_for_display.  The text that strstr looks for is     *)
(* ended by the zero of "\0xA0": it finds the first ">", and what follows  *)
(* it becomes a space, the end of the string too.                          *)
PrepareChatString(text) ==
    LET ends == Places(text, ">")
    IN  IF text # <<>> /\ text[1] = "<" /\ ends # {}
        THEN IF Min(ends) = Len(text) THEN None
             ELSE UnescapeMessage([text EXCEPT ![Min(ends) + 1] = " "])
        ELSE UnescapeMessage(text)

(* hub_handle_command: public chat, and a private message, whose text is   *)
(* behind the first dollar sign.                                           *)
Public(command) == PrepareChatString(command)
Private(command) == PrepareChatString(Behind(command, Min(Places(command, Dollar))))

-----------------------------------------------------------------------------
(* Settings *)

Has(text, chars) == ToSet(text) \cap chars # {}

(* What the setters of variables.c take: strnlen and strpbrk.              *)
VarSetNick(text) == text # <<>> /\ Len(text) <= MaxLength /\ ~Has(text, {Dollar, Bar, " "})
VarSetDescription(text) == ~Has(text, {Dollar, Bar}) /\ Len(text) <= MaxLength
VarSetEmail(text) == ~Has(text, {Dollar, Bar}) /\ Len(text) <= MaxLength
VarSetTag(text) == ~Has(text, {Dollar, Bar})
VarSetSpeed(text) == ~Has(text, {Dollar, Bar})
VarSetPassword(text) == text # <<>> /\ Bar \notin ToSet(text)

(* send_my_info.  M says whether we are active, S how many slots we have.  *)
SendMyInfo(info) ==
    <<"$MyINFO", " ", Dollar, "ALL", " ">> \o info.nick \o <<" ">> \o info.description
        \o <<"<">> \o info.tag \o <<",M:", info.mode, ",S:", info.slots, ">", Dollar, " ", Dollar>>
        \o info.speed \o <<"level", Dollar>> \o info.email \o <<Dollar, info.share, Dollar, Bar>>

(* hub_handle_command: the fields of $MyINFO, in their order.              *)
HandleMyInfo(command) ==
    LET all == StrSep(Behind(command, 2), " ")
        nick == StrSep(all.rest, " ")
        description == StrSep(nick.rest, Dollar)
        separator == StrSep(description.rest, Dollar)
        speed == StrSep(separator.rest, Dollar)
        email == StrSep(speed.rest, Dollar)
        share == StrSep(email.rest, Dollar)
    IN  IF all.token # <<Dollar, "ALL">> \/ share.token = None THEN None
        ELSE [nick |-> nick.token, description |-> description.token,
              speed |-> IF speed.token = <<>> THEN <<>> ELSE Front(speed.token),
              level |-> IF speed.token = <<>> THEN None ELSE Last(speed.token),
              email |-> email.token, share |-> share.token]

-----------------------------------------------------------------------------
(* Properties *)

Text == SeqOf(Character, TextMax)
OneMessage(text) == Places(text, Bar) = {Len(text)}
Command(text) == Received(<<text>>).commands[1]

(* Wherever the stream is cut, its messages are handled whole and in order *)
(* and what has no end yet is kept (hub.c:994-1026).                       *)
StreamIsWhole ==
    \A text \in SeqOf({"&", Bar}, TextMax + 4) : \A i, j \in 0..Len(text) :
        i <= j =>
            Received(<<Before(text, i + 1), SubSeq(text, i + 1, j), Behind(text, j)>>)
                = Received(<<text>>)

(* What is said is one message and is shown as it was said, whatever is in *)
(* it, by nicks that the client takes and that have no ">" (hub.c:438      *)
(* damages others), in public and in private (command.c:826-935).          *)
SaidIsShown ==
    \A nick \in {n \in Text : VarSetNick(n) /\ ~Has(n, {">"})}, text \in Text :
        LET shown == <<"<">> \o nick \o <<">", " ">> \o text IN
        /\ \A said \in {CmdSay(nick, text, utf8) : utf8 \in BOOLEAN} :
               OneMessage(said) /\ \A command \in {Command(said)} : Public(command) = shown
        /\ \A said \in {CmdMsg(nick, nick, text)} :
               OneMessage(said) /\ \A command \in {Command(said)} : Private(command) = shown

(* Whatever the settings are, if they were taken they make one message,    *)
(* in which each is found in its place (hub.c:104-124, hub.c:574-672).     *)
SettingsAreRead ==
    LET Some(Taken(_), field) == {[f \in {field} |-> text] : text \in {t \in SeqOf(Letter \cup {Dollar, Bar, " ", "<"}, TextMax) : Taken(t)}}
        plain == [f \in {"nick", "description", "email", "tag", "speed"} |-> <<CHOOSE c \in Letter : TRUE>>]
        Fields == Some(VarSetNick, "nick") \cup Some(VarSetDescription, "description")
                      \cup Some(VarSetEmail, "email") \cup Some(VarSetTag, "tag")
                      \cup Some(VarSetSpeed, "speed")
    IN  \A one, two \in Fields :
            LET info == one @@ two @@ plain @@ [f \in {"mode", "slots", "share"} |-> f]
                read == HandleMyInfo(Command(SendMyInfo(info)))
            IN  /\ OneMessage(SendMyInfo(info))
                /\ read.nick = info.nick /\ read.speed = info.speed /\ read.email = info.email
                /\ read.level = "level" /\ read.share = <<"share">>
                /\ IsPrefix(info.description \o <<"<">> \o info.tag, read.description)

(* The key is that of the protocol: a byte for each byte of the lock, from *)
(* it and the one before, the first also from the last two; and it neither *)
(* ends the message nor the string it is in (connection.c:35-100).         *)
KeyIsOfLock ==
    \A lock \in [1..4 -> Byte] :
        LET key == DecodeLock(lock, 5)
            byte == [i \in 1..4 |-> key[i].byte]
        IN  /\ byte[1] = Swap((lock[1] ^^ 5) ^^ (lock[4] ^^ lock[3]))
            /\ \A i \in 2..4 : byte[i] = Swap(lock[i] ^^ lock[i - 1])
            /\ \A i \in 1..4 : ~key[i].escaped => byte[i] \notin {0, 36, 124}
=============================================================================
