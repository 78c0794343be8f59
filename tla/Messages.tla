------------------------------ MODULE Messages ------------------------------
(***************************************************************************)
(* What is in the messages between the processes, byte by byte: how the    *)
(* queues of bytes grow (common/byteq.c), how the arguments of a message   *)
(* are laid out and read again (common/msgq.c), addresses as data          *)
(* (lookup.c), and the pairs of messages between the main process and the  *)
(* one that keeps the list of shared files (local_flist.c).                *)
(***************************************************************************)
EXTENDS Integers, Sequences, SequencesExt

CONSTANTS
    Byte,           \* bytes of strings, without the terminating one
    LengthMax,      \* bound: calls on a queue, bytes, arguments, messages
    None

Most(m, n) == IF m > n THEN m ELSE n
Least(m, n) == IF m < n THEN m ELSE n
Upto(s, n) == SubSeq(s, 1, n)
From(s, n) == SubSeq(s, n + 1, Len(s))

-----------------------------------------------------------------------------
(* byteq.c.  room is what is allocated, the fill level is Len(buf).        *)

ByteqNew(initial_size) == [buf |-> <<>>, max |-> Most(1, initial_size), room |-> initial_size]
ByteqAssure(bq, max) == IF max > bq.max THEN [bq EXCEPT !.max = max, !.room = max] ELSE bq
ByteqEnlarge(bq) == [bq EXCEPT !.max = 2 * @, !.room = 2 * bq.max]

ByteqAppend(bq, data) ==
    IF data = <<>> THEN bq
    ELSE [ByteqAssure(bq, Len(bq.buf) + Len(data)) EXCEPT !.buf = @ \o data]
ByteqRemove(bq, len) == [bq EXCEPT !.buf = From(@, len)]

(* byteq_read, byteq_recvfrom; byteq_read_upto reads no more than makes up *)
(* len bytes.  asked is the size that read was called with, data what      *)
(* there was to be read.                                                   *)
Reads(bq, asked, data) == [bq |-> [bq EXCEPT !.buf = @ \o Upto(data, Least(asked, Len(data)))],
                           asked |-> asked]
ByteqRead(bq, data) ==
    LET q == IF Len(bq.buf) = bq.max THEN ByteqEnlarge(bq) ELSE bq
    IN  Reads(q, q.max - Len(q.buf), data)
ByteqReadUpto(bq, len, data) ==
    IF len <= Len(bq.buf) THEN [bq |-> bq, asked |-> None]
    ELSE Reads(ByteqAssure(bq, Len(bq.buf) + len), len - Len(bq.buf), data)

-----------------------------------------------------------------------------
(* msgq.c.  A number fills its bytes with its pieces; SIZE_MAX is -1.      *)

Bytes == [INT |-> 2, INT32 |-> 2, INT64 |-> 4, BOOL |-> 1, SIZE |-> 3]
SizeMax == -1
Null == <<"NULL">>
NullArray == <<Null>>
Arg(type, value) == [type |-> type, value |-> value]

Number(n, type) ==
    [i \in 1..Bytes[type] |-> [n |-> n, byte |-> "", at |-> i, of |-> Bytes[type]]]
Data(s) == [i \in DOMAIN s |-> [n |-> 0, byte |-> s[i], at |-> 1, of |-> 1]]
Terminated(s) == Data(Append(s, "NUL"))

(* msgq_calc_put_args_size.                                                *)
ArgSize(a) ==
    CASE a.type = "STR" -> Bytes.SIZE + IF a.value = Null THEN 0 ELSE Len(a.value) + 1
      [] a.type = "BLOB" -> Bytes.SIZE + IF a.value = Null THEN 0 ELSE Len(a.value)
      [] a.type = "STRARY" ->
             Bytes.SIZE + IF a.value = NullArray THEN 0
                          ELSE FoldLeft(LAMBDA n, s : n + Bytes.SIZE + Len(s) + 1, 0, a.value)
      [] OTHER -> Bytes[a.type]
MsgqCalcPutArgsSize(args) == FoldLeft(LAMBDA n, a : n + ArgSize(a), 0, args)

PutArg(a) ==
    CASE a.type = "STR" ->
             IF a.value = Null THEN Number(SizeMax, "SIZE")
             ELSE Number(Len(a.value) + 1, "SIZE") \o Terminated(a.value)
      [] a.type = "BLOB" ->
             IF a.value = Null THEN Number(SizeMax, "SIZE")
             ELSE Number(Len(a.value), "SIZE") \o Data(a.value)
      [] a.type = "STRARY" ->
             IF a.value = NullArray THEN Number(SizeMax, "SIZE")
             ELSE FoldLeft(LAMBDA buf, s : buf \o Number(Len(s) + 1, "SIZE") \o Terminated(s),
                           Number(Len(a.value), "SIZE"), a.value)
      [] OTHER -> Number(a.value, a.type)
MsgqPut(args) ==
    FoldLeft(LAMBDA buf, a : buf \o PutArg(a), Number(MsgqCalcPutArgsSize(args), "SIZE"), args)

(* msgq_vget: an argument at the start of buf, and what follows it.  Bytes *)
(* that are not those of such a number give none.                          *)
Value(value, rest) == [value |-> value, rest |-> rest]
NumberAt(buf, type) ==
    LET w == Bytes[type]
    IN  IF Len(buf) >= w /\ Upto(buf, w) = Number(buf[1].n, type) THEN buf[1].n ELSE None
Text(bytes) == [i \in DOMAIN bytes |-> bytes[i].byte]
StringAt(buf) ==
    LET end == SelectInSeq(buf, LAMBDA b : b.byte = "NUL")
    IN  IF end = 0 THEN Value(None, <<>>) ELSE Value(Text(Upto(buf, end - 1)), From(buf, end))

GetArg(buf, type) ==
    LET len == NumberAt(buf, "SIZE")
        rest == From(buf, Bytes.SIZE)
        Item(acc, i) ==
            LET size == NumberAt(acc.rest, "SIZE")
                item == Text(SubSeq(acc.rest, Bytes.SIZE + 1, Bytes.SIZE + size))
            IN  IF size = None THEN Value(None, <<>>)
                ELSE Value(Append(acc.value, StringAt(Data(item)).value),
                           From(acc.rest, Bytes.SIZE + size))
    IN  CASE type \in DOMAIN Bytes -> Value(NumberAt(buf, type), From(buf, Bytes[type]))
          [] len = None -> Value(None, <<>>)
          [] type = "STR" -> IF len = SizeMax THEN Value(Null, rest) ELSE StringAt(rest)
          [] type = "BLOB" ->
                 IF len = SizeMax THEN Value(Null, rest) ELSE Value(Text(Upto(rest, len)), From(rest, len))
          [] type = "STRARY" ->
                 IF len = SizeMax THEN Value(NullArray, rest)
                 ELSE FoldLeft(Item, Value(<<>>, rest), [i \in 1..len |-> i])

(* msgq_has_complete_msg, msgq_get: the arguments, and what is left in the *)
(* queue by the size of the message.                                       *)
MsgqHasCompleteMsg(buf) ==
    Len(buf) >= Bytes.SIZE /\ Len(buf) >= Bytes.SIZE + NumberAt(buf, "SIZE")
MsgqGet(buf, types) ==
    LET Get(acc, type) ==
            LET arg == GetArg(acc.rest, type)
            IN  [args |-> Append(acc.args, Arg(type, arg.value)), rest |-> arg.rest]
    IN  [args |-> FoldLeft(Get, [args |-> <<>>, rest |-> From(buf, Bytes.SIZE)], types).args,
         rest |-> From(buf, Bytes.SIZE + NumberAt(buf, "SIZE"))]

-----------------------------------------------------------------------------
(* lookup.c.  The flags, family, type and protocol of an address are one   *)
(* number here.                                                            *)

Flag(b) == Number(IF b THEN 1 ELSE 0, "BOOL")

AddrinfoSize(ai) ==
    2 * Bytes.INT + 2 * Bytes.BOOL + (IF ai.addr = Null THEN 0 ELSE ai.addrlen)
        + IF ai.canonname = Null THEN 0 ELSE Len(ai.canonname) + 1
AddrinfoToData(ais) ==
    [size |-> FoldLeft(LAMBDA n, ai : n + AddrinfoSize(ai), 0, ais),
     data |-> FoldLeft(LAMBDA buf, ai :
                  buf \o Number(ai.kind, "INT") \o Number(ai.addrlen, "INT")
                      \o Flag(ai.addr # Null) \o (IF ai.addr = Null THEN <<>> ELSE Data(ai.addr))
                      \o Flag(ai.canonname # Null)
                      \o (IF ai.canonname = Null THEN <<>> ELSE Terminated(ai.canonname)),
                  <<>>, ais)]

RECURSIVE DataToAddrinfo(_)
DataToAddrinfo(data) ==
    LET addrlen == NumberAt(From(data, Bytes.INT), "INT")
        fixed == From(data, 2 * Bytes.INT + Bytes.BOOL)
        has_addr == NumberAt(From(data, 2 * Bytes.INT), "BOOL") = 1
        addr == IF has_addr THEN Value(Text(Upto(fixed, addrlen)), From(fixed, addrlen))
                ELSE Value(Null, fixed)
        named == From(addr.rest, Bytes.BOOL)
        canon == IF NumberAt(addr.rest, "BOOL") = 1 THEN StringAt(named) ELSE Value(Null, named)
    IN  IF data = <<>> THEN <<>>
        ELSE IF addrlen = None THEN <<None>>
        ELSE <<[kind |-> NumberAt(data, "INT"), addrlen |-> addrlen, addr |-> addr.value,
                canonname |-> canon.value]>> \o DataToAddrinfo(canon.rest)

-----------------------------------------------------------------------------
(* local_flist.c.  A request is a message with its type and one with its   *)
(* argument; so is a result.                                               *)

Update == [COMPLETE |-> 0, ADD |-> 1, DEL |-> 2, STATUS |-> 3, ERROR |-> 4, LISTING |-> 5,
           HUB |-> 7, FS |-> 8, INTERVAL |-> 9]
Pair(type, arg) == MsgqPut(<<Arg("INT", Update[type])>>) \o MsgqPut(<<arg>>)

(* update_request_add_shared_dir and the like.                             *)
UpdateRequest(type, value) == Pair(type, Arg(IF type = "INTERVAL" THEN "INT" ELSE "STR", value))

(* send_filelist, report_status, report_error.                             *)
UpdateResult(type, value) == Pair(type, Arg(IF type = "COMPLETE" THEN "BLOB" ELSE "STR", value))

(* The loops over the complete messages: of the process of the list, which *)
(* takes the last slash from a name, and update_result_fd_readable.  taken *)
(* is what came so far.                                                    *)
RequestLoop == [type |-> [t \in 0..9 |-> IF t = Update.INTERVAL THEN "INT" ELSE "STR"],
                strips |-> TRUE]
ResultLoop == [type |-> [t \in 0..9 |-> IF t = Update.COMPLETE THEN "BLOB" ELSE "STR"],
               strips |-> FALSE]
Stripped(name) == IF Last(name) = "/" THEN Front(name) ELSE name

ArgType(r, loop) == IF r.update_type < 0 THEN "INT" ELSE loop.type[r.update_type]
HandleUpdate(r, got, loop) ==
    LET value == got.args[1].value
    IN  IF r.update_type < 0 THEN [r EXCEPT !.buf = got.rest, !.update_type = value]
        ELSE [buf |-> got.rest, update_type |-> -1,
              taken |-> Append(r.taken, <<r.update_type,
                                          IF loop.strips /\ ArgType(r, loop) = "STR"
                                          THEN Stripped(value) ELSE value>>)]

RECURSIVE HandleUpdates(_, _)
HandleUpdates(r, loop) ==
    IF ~MsgqHasCompleteMsg(r.buf) THEN r
    ELSE HandleUpdates(HandleUpdate(r, MsgqGet(r.buf, <<ArgType(r, loop)>>), loop), loop)
Waiting == [buf |-> <<>>, update_type |-> -1, taken |-> <<>>]
Readable(r, bytes, loop) == HandleUpdates([r EXCEPT !.buf = @ \o bytes], loop)

-----------------------------------------------------------------------------
(* Properties *)

(* A queue holds what was put in and not removed, in its order; it has the *)
(* room for it, and never asks read for nothing, which would be taken for  *)
(* the end of the file (byteq.c:45, 187).  It is made with some room.      *)
Call == {<<"append", n>> : n \in 0..LengthMax} \cup {<<"read", n>> : n \in 0..LengthMax}
            \cup {<<"upto", n>> : n \in 0..LengthMax} \cup {<<"remove", n>> : n \in 1..LengthMax}
QueueIsKept ==
    \A size \in 1..2 : \A calls \in SeqOf(Call, LengthMax) :
        LET Made(acc, call) ==
                LET n == call[2]
                    cur == Len(acc.bq.buf)
                    data == [i \in 1..n |-> acc.next + i]
                    read == IF call[1] = "read" THEN ByteqRead(acc.bq, data)
                            ELSE ByteqReadUpto(acc.bq, n, [i \in 1..LengthMax |-> acc.next + i])
                    bq == CASE call[1] = "append" -> ByteqAppend(acc.bq, data)
                            [] call[1] = "remove" -> ByteqRemove(acc.bq, Least(n, cur))
                            [] OTHER -> read.bq
                    new == CASE call[1] = "append" -> n
                             [] call[1] = "remove" -> 0
                             [] call[1] = "upto" -> Most(0, n - cur)
                             [] OTHER -> Len(bq.buf) - cur
                    first == acc.first + IF call[1] = "remove" THEN Least(n, cur) ELSE 0
                IN  [bq |-> bq, next |-> acc.next + new, first |-> first,
                     sound |-> /\ acc.sound
                               /\ bq.buf = [i \in 1..acc.next + new - first |-> first + i]
                               /\ Len(bq.buf) <= bq.room /\ bq.max = bq.room
                               /\ call[1] \in {"append", "remove"} \/ read.asked \notin {0}]
        IN  FoldLeft(Made, [bq |-> ByteqNew(size), next |-> 0, first |-> 0, sound |-> TRUE],
                     calls).sound

(* Whatever arguments a message has, the reader gets the same ones and     *)
(* nothing of the next message, if it asks for their types (msgq.c:119,    *)
(* 242): also none at all in place of a string, and no strings at all.     *)
Texts == SeqOf(Byte, 2)
Args ==
    {Arg(type, n) : type \in {"INT", "INT32", "INT64", "BOOL"}, n \in {0, 1}}
        \cup {Arg(type, s) : type \in {"STR", "BLOB"}, s \in Texts \cup {Null}}
        \cup {Arg("STRARY", s) : s \in SeqOf(SeqOf(Byte, 1), 2) \cup {NullArray}}
MessagesAreRead ==
    \A args \in SeqOf(Args, 2) : \A rest \in {<<>>, MsgqPut(<<Arg("BOOL", 1)>>)} :
        LET buf == MsgqPut(args)
            got == MsgqGet(buf \o rest, [i \in DOMAIN args |-> args[i].type])
        IN  /\ got.args = args /\ got.rest = rest
            /\ \A n \in 0..Len(buf) : MsgqHasCompleteMsg(Upto(buf, n)) = (n = Len(buf))

(* The addresses of a lookup arrive as they were found, and the room made  *)
(* for them is what they take (lookup.c:56-153).                           *)
Addresses ==
    {[kind |-> k, addrlen |-> IF addr = Null THEN k ELSE Len(addr), addr |-> addr, canonname |-> name] :
        k \in {0, 1}, addr \in Texts \cup {Null}, name \in Texts \cup {Null}}
AddressesArrive ==
    \A ais \in SeqOf(Addresses, 2) :
        LET d == AddrinfoToData(ais)
        IN  Len(d.data) = d.size /\ DataToAddrinfo(d.data) = ais

(* However the stream is cut, the process of the list and the main process *)
(* take the requests and the results that were made, in their order, and   *)
(* no type for an argument (local_flist.c:599-704, 1010-1048).             *)
Requests == {<<t, s>> : t \in {"ADD", "DEL", "LISTING", "HUB", "FS"}, s \in Texts \ {<<>>}}
                \cup {<<"INTERVAL", n>> : n \in {0, 1}}
Results == {<<t, s>> : t \in {"STATUS", "ERROR"}, s \in Texts \cup {Null}}
               \cup {<<"COMPLETE", s>> : s \in Texts}
InStep(items, loop, Made(_, _), Taken(_, _)) ==
    \A some \in SeqOf(items, 2) :
    \A stream \in {FoldLeft(LAMBDA buf, i : buf \o Made(i[1], i[2]), <<>>, some)} :
    \A cut \in 0..Len(stream) : \A first \in {Readable(Waiting, Upto(stream, cut), loop)} :
        LET all == [j \in DOMAIN some |-> <<Update[some[j][1]], Taken(some[j][1], some[j][2])>>]
        IN  /\ IsPrefix(first.taken, all)
            /\ Readable(first, From(stream, cut), loop) = [Waiting EXCEPT !.taken = all]
UpdatesInStep ==
    /\ InStep(Requests, RequestLoop, UpdateRequest,
              LAMBDA type, s : IF type # "INTERVAL" /\ s[Len(s)] = "/" THEN Upto(s, Len(s) - 1) ELSE s)
    /\ InStep(Results, ResultLoop, UpdateResult, LAMBDA type, s : s)

MessagesSound == QueueIsKept /\ MessagesAreRead /\ AddressesArrive /\ UpdatesInStep
=============================================================================
