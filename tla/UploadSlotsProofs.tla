------------------------- MODULE UploadSlotsProofs --------------------------
(***************************************************************************)
(* Proofs about UploadSlots, for any connections, users and limits: the    *)
(* types, the invariant that ties a user process to the slot its main      *)
(* process charged it for, the accounting of the slots, and that they      *)
(* implement the pool of SlotPool.                                         *)
(***************************************************************************)
EXTENDS UploadSlots, FiniteSetTheorems, SequenceTheorems, TLAPS

(***************************************************************************)
(* What relates the two sides of one connection.  The accounting of the    *)
(* slots rests on it: a request never reaches the main process while the   *)
(* connection still holds the slot of the previous upload.                 *)
(***************************************************************************)

(* A process that is gone, waits for a request or blocks on an answer has *)
(* no open file.                                                          *)
ProcessInv(c) ==
    /\ ~Running(c) => wait[c] = "no"
    /\ wait[c] # "no" \/ user_state[c] \in {"OFF", "GET"} => c \notin open

(* The pipes of a connection that was dropped are gone. *)
PipesInv(c) == c \notin live => toMain[c] = <<>> /\ toUser[c] = <<>>

(* A reply is alone, and it answers the only request. *)
ReplyInv(c) ==
    /\ toUser[c] = <<>> \/ \E r \in Reply : toUser[c] = <<r>>
    /\ toUser[c] # <<>> => toMain[c] = <<>>
    /\ Idle(c) => toUser[c] = <<>> /\ ~Pending(c, "CHECK_UPLOAD")

(* Nothing follows m in s. *)
OnlyLast(s, m) == \A i \in 1..Len(s) : s[i] = m => i = Len(s)

(* A request is the last message, and the end of the previous upload, if  *)
(* it is still charged, comes before it.                                  *)
RequestInv(c) ==
    /\ OnlyLast(toMain[c], "CHECK_UPLOAD")
    /\ Pending(c, "CHECK_UPLOAD") /\ Holds(c) => Pending(c, "UPLOAD_ENDED")

(* What is open is charged, what is charged has a reason. *)
ChargeInv(c) ==
    /\ ~(c \in slot /\ c \in mini)
    /\ c \in open /\ c \in live => Holds(c) /\ ~Pending(c, "UPLOAD_ENDED")
    /\ toUser[c] = <<"file">> => Holds(c)
    /\ Holds(c) => \/ c \in open
                   \/ Pending(c, "UPLOAD_ENDED")
                   \/ toUser[c] = <<"file">>
                   \/ ~Running(c)

ConnInv(c) == ProcessInv(c) /\ PipesInv(c) /\ ReplyInv(c) /\ RequestInv(c) /\ ChargeInv(c)

Inv ==
    /\ TypeOK
    /\ SlotAccounting
    /\ MinislotsNotUndercounted
    /\ \A c \in Conn : ConnInv(c)

-----------------------------------------------------------------------------
(* Messages in a pipe *)

Has(s, m) == \E i \in 1..Len(s) : s[i] = m

(* A message is in a pipe after a write iff it was there or was written. *)
LEMMA HasConcat ==
    ASSUME NEW s \in Seq(Msg), NEW t \in Seq(Msg), NEW m
    PROVE  Has(s \o t, m) <=> Has(s, m) \/ Has(t, m)
<1>1. /\ Len(s \o t) = Len(s) + Len(t)
      /\ \A i \in 1..Len(s) + Len(t) :
            (s \o t)[i] = IF i <= Len(s) THEN s[i] ELSE t[i - Len(s)]
      /\ Len(s) \in Nat /\ Len(t) \in Nat
  BY ConcatProperties, LenProperties
<1>2. ASSUME NEW i \in 1..Len(s), s[i] = m PROVE (s \o t)[i] = m /\ i \in 1..Len(s \o t)
  BY <1>1, <1>2
<1>3. ASSUME NEW i \in 1..Len(t), t[i] = m
      PROVE  (s \o t)[Len(s) + i] = m /\ Len(s) + i \in 1..Len(s \o t)
  BY <1>1, <1>3
<1>4. ASSUME NEW i \in 1..Len(s \o t), (s \o t)[i] = m
      PROVE  \/ i \in 1..Len(s) /\ s[i] = m
             \/ i - Len(s) \in 1..Len(t) /\ t[i - Len(s)] = m
  BY <1>1, <1>4
<1>. QED  BY <1>2, <1>3, <1>4 DEF Has

(* Reading the first message leaves exactly the others. *)
LEMMA HasTail ==
    ASSUME NEW s \in Seq(Msg), s # <<>>, NEW m
    PROVE  /\ Has(Tail(s), m) => Has(s, m)
           /\ Has(s, m) /\ Head(s) # m => Has(Tail(s), m)
<1>1. /\ Len(Tail(s)) = Len(s) - 1
      /\ \A i \in 1..Len(Tail(s)) : Tail(s)[i] = s[i+1]
      /\ Len(s) \in Nat \ {0}
  BY HeadTailProperties, EmptySeq
<1>2. ASSUME NEW i \in 1..Len(Tail(s)), Tail(s)[i] = m
      PROVE  i + 1 \in 1..Len(s) /\ s[i+1] = m
  BY <1>1, <1>2
<1>3. ASSUME NEW i \in 1..Len(s), s[i] = m, Head(s) # m
      PROVE  i - 1 \in 1..Len(Tail(s)) /\ Tail(s)[i-1] = m
  <2>1. i # 1
    BY <1>3
  <2>2. i - 1 \in 1..Len(Tail(s)) /\ (i - 1) + 1 = i
    BY <1>1, <2>1
  <2>. QED  BY <1>1, <1>3, <2>2
<1>. QED  BY <1>2, <1>3 DEF Has

-----------------------------------------------------------------------------
(* Types *)

LEMMA PutType ==
    ASSUME TypeOK, NEW c \in Conn, NEW msgs \in Seq(Msg), Put(c, msgs)
    PROVE  /\ toMain' \in [Conn -> Seq(Msg)]
           /\ \A d \in Conn : d # c \/ d \notin live => toMain'[d] = toMain[d]
           /\ c \in live => toMain'[c] = toMain[c] \o msgs
<1>. toMain[c] \o msgs \in Seq(Msg)
  BY ConcatProperties DEF TypeOK
<1>. QED  BY DEF Put, TypeOK

LEMMA ContinueType ==
    ASSUME TypeOK, NEW c \in Conn, NEW s \in UserState, NEW w \in Wait,
           NEW b \in BOOLEAN, Continue(c, s, w, b)
    PROVE  /\ user_state' \in [Conn -> UserState] /\ wait' \in [Conn -> Wait]
           /\ open' \subseteq Conn /\ silent' \subseteq Conn
           /\ user_state'[c] = s /\ wait'[c] = w /\ (c \in open' <=> b)
           /\ \A d \in Conn \ {c} :
                 /\ user_state'[d] = user_state[d] /\ wait'[d] = wait[d]
                 /\ d \in open' <=> d \in open
BY DEF Continue, TypeOK

LEMMA InitType == Init => TypeOK
BY ConstantsAssumption DEF Init, TypeOK, UserState, Wait

(* The process reads a reply. *)
ReadReply(c) ==
    /\ Running(c)
    /\ toUser[c] # <<>>
    /\ toUser' = [toUser EXCEPT ![c] = Tail(@)]

(* What a step of the user process of c may change: it adds messages to   *)
(* its pipe, may consume a reply, and goes to another state of its own.   *)
UserEffect(c, msgs, s, w, b) ==
    /\ msgs \in Seq(Msg) /\ s \in UserState /\ w \in Wait /\ b \in BOOLEAN
    /\ \/ msgs = <<>> /\ UNCHANGED toMain
       \/ Put(c, msgs)
    /\ Continue(c, s, w, b)
    /\ UNCHANGED mainVars

LEMMA UserEffectType ==
    ASSUME TypeOK, NEW c \in Conn, NEW msgs, NEW s, NEW w, NEW b,
           UserEffect(c, msgs, s, w, b),
           UNCHANGED toUser \/ ReadReply(c)
    PROVE  TypeOK'
<1>1. toMain' \in [Conn -> Seq(Msg)]
  BY PutType DEF UserEffect, TypeOK
<1>2. toUser' \in [Conn -> Seq(Reply)]
  <2>1. CASE UNCHANGED toUser
    BY <2>1 DEF TypeOK
  <2>2. CASE ReadReply(c)
    <3>. Tail(toUser[c]) \in Seq(Reply)
      BY <2>2, HeadTailProperties DEF TypeOK, ReadReply
    <3>. QED  BY <2>2 DEF TypeOK, ReadReply
  <2>. QED  BY <2>1, <2>2
<1>3. /\ user_state' \in [Conn -> UserState] /\ wait' \in [Conn -> Wait]
      /\ open' \subseteq Conn /\ silent' \subseteq Conn
  BY ContinueType DEF UserEffect
<1>. QED  BY <1>1, <1>2, <1>3 DEF TypeOK, UserEffect, mainVars

-----------------------------------------------------------------------------
(* Connections *)

(* Nothing about connection d changes. *)
SameConn(d) ==
    /\ d \in live' <=> d \in live
    /\ d \in slot' <=> d \in slot
    /\ d \in mini' <=> d \in mini
    /\ d \in open' <=> d \in open
    /\ toMain'[d] = toMain[d] /\ toUser'[d] = toUser[d]
    /\ user_state'[d] = user_state[d] /\ wait'[d] = wait[d]

(* The invariant of a connection is about that connection only. *)
LEMMA OtherConn ==
    ASSUME NEW d \in Conn, ConnInv(d), SameConn(d)
    PROVE  ConnInv(d)'
BY DEF ConnInv, ProcessInv, PipesInv, ReplyInv, RequestInv, ChargeInv, SameConn,
       Running, Idle, Pending, Holds

(* What every step of a user process respects. *)
UserDiscipline(c, msgs, s, w, b) ==
    /\ s = "OFF" => w = "no"
    /\ s \in {"OFF", "GET"} \/ w # "no" => ~b
    \* it writes only when it is idle or has just read a reply, which then is
    \* the only one; otherwise it dies
    /\ \/ Idle(c) /\ UNCHANGED toUser
       \/ ReadReply(c) /\ w = "no"
       \/ Running(c) /\ msgs = <<>> /\ s = "OFF" /\ UNCHANGED toUser
    \* a request comes last and makes it wait
    /\ Has(msgs, "CHECK_UPLOAD") => w # "no"
    /\ OnlyLast(msgs, "CHECK_UPLOAD")
    \* it opens a file only with a permission, and reports when it closes it
    /\ b => /\ (c \in open /\ UNCHANGED toUser) \/ toUser[c] = <<"file">>
            /\ ~Has(msgs, "UPLOAD_ENDED")
    /\ s # "OFF" /\ ~b /\ (c \in open \/ toUser[c] = <<"file">>) => Has(msgs, "UPLOAD_ENDED")

LEMMA UserStepConn ==
    ASSUME TypeOK, NEW c \in Conn, NEW msgs, NEW s, NEW w, NEW b, ConnInv(c),
           UserEffect(c, msgs, s, w, b), UserDiscipline(c, msgs, s, w, b)
    PROVE  /\ ConnInv(c)'
           /\ \A d \in Conn \ {c} : SameConn(d)
<1>1. /\ user_state'[c] = s /\ wait'[c] = w /\ (c \in open' <=> b)
      /\ \A d \in Conn \ {c} :
            /\ user_state'[d] = user_state[d] /\ wait'[d] = wait[d]
            /\ d \in open' <=> d \in open
  BY ContinueType DEF UserEffect
<1>2. /\ \A d \in Conn : d # c \/ d \notin live => toMain'[d] = toMain[d]
      /\ c \in live => toMain'[c] = toMain[c] \o msgs
      /\ msgs \in Seq(Msg)
  BY PutType, ConcatEmptySeq DEF TypeOK, UserEffect
<1>3. \A d \in Conn \ {c} : toUser'[d] = toUser[d]
  BY DEF UserDiscipline, TypeOK, ReadReply
<1>4. live' = live /\ slot' = slot /\ mini' = mini
  BY DEF mainVars, UserEffect
<1>5. \A d \in Conn \ {c} : SameConn(d)
  <2>. SUFFICES ASSUME NEW d \in Conn \ {c} PROVE SameConn(d)
    OBVIOUS
  <2>1. toMain'[d] = toMain[d] /\ toUser'[d] = toUser[d]
    BY <1>2, <1>3
  <2>2. user_state'[d] = user_state[d] /\ wait'[d] = wait[d]
    BY <1>1, Zenon
  <2>3. d \in open' <=> d \in open
    BY <1>1, Zenon
  <2>. QED  BY <1>4, <2>1, <2>2, <2>3, Zenon DEF SameConn
<1>6. ASSUME c \in live, NEW m
      PROVE  Pending(c, m)' <=> Pending(c, m) \/ Has(msgs, m)
  <2>1. Has(toMain[c] \o msgs, m) <=> Has(toMain[c], m) \/ Has(msgs, m)
    BY <1>2, HasConcat DEF TypeOK
  <2>. QED  BY <1>2, <1>6, <2>1, Zenon DEF Has, Pending
<1>7. \/ UNCHANGED toUser /\ (Idle(c) \/ (msgs = <<>> /\ s = "OFF"))
      \/ /\ toMain[c] = <<>> /\ toUser[c] # <<>> /\ toUser'[c] = <<>>
         /\ w = "no" /\ Running(c)
  <2>1. ASSUME ReadReply(c) /\ w = "no"
        PROVE  toMain[c] = <<>> /\ toUser[c] # <<>> /\ toUser'[c] = <<>> /\ Running(c)
    <3>1. PICK r \in Reply : toUser[c] = <<r>>
      BY <2>1 DEF ConnInv, ReplyInv, ReadReply
    <3>2. toUser'[c] = Tail(<<r>>)
      BY <2>1, <3>1 DEF TypeOK, ReadReply
    <3>3. toMain[c] = <<>>
      BY <2>1 DEF ConnInv, ReplyInv, ReadReply
    <3>. QED  BY <2>1, <3>1, <3>2, <3>3 DEF ReadReply
  <2>2. \/ Idle(c) /\ UNCHANGED toUser
        \/ ReadReply(c) /\ w = "no"
        \/ Running(c) /\ msgs = <<>> /\ s = "OFF" /\ UNCHANGED toUser
    BY DEF UserDiscipline
  <2>. QED  BY <2>1, <2>2, Zenon
<1>8. ProcessInv(c)'
  BY <1>1 DEF ProcessInv, UserDiscipline, Running
<1>9. PipesInv(c)'
  <2>. SUFFICES ASSUME c \notin live PROVE toMain'[c] = <<>> /\ toUser'[c] = <<>>
    BY <1>4 DEF PipesInv
  <2>. QED  BY <1>2, <1>7 DEF ConnInv, PipesInv
<1>10. CASE c \notin live
  <2>1. toMain'[c] = <<>> /\ toUser'[c] = <<>> /\ c \notin slot /\ c \notin mini
    BY <1>9, <1>4, <1>10 DEF PipesInv, TypeOK
  <2>. QED
    BY <1>4, <1>5, <1>8, <1>9, <1>10, <2>1
       DEF ConnInv, ReplyInv, RequestInv, ChargeInv, OnlyLast, Pending, Holds
<1>11. CASE c \in live
  <2>. USE <1>11
  <2>1. ReplyInv(c)'
    <3>1. CASE Idle(c) /\ UNCHANGED toUser
      <4>1. toUser'[c] = <<>>
        BY <3>1 DEF ConnInv, ReplyInv
      <4>2. Idle(c)' => ~Pending(c, "CHECK_UPLOAD")'
        BY <1>1, <1>6, <3>1 DEF ConnInv, ReplyInv, UserDiscipline, Idle
      <4>. QED  BY <4>1, <4>2 DEF ReplyInv
    <3>2. CASE UNCHANGED toUser /\ msgs = <<>> /\ s = "OFF"
      <4>1. toMain'[c] = toMain[c] /\ ~Idle(c)'
        BY <1>1, <1>2, <3>2, ConcatEmptySeq DEF TypeOK, Idle, Running
      <4>. QED  BY <3>2, <4>1 DEF ConnInv, ReplyInv
    <3>3. CASE toMain[c] = <<>> /\ toUser'[c] = <<>> /\ w = "no"
      <4>1. Idle(c)' => ~Pending(c, "CHECK_UPLOAD")'
        BY <1>6, <3>3 DEF UserDiscipline, Pending
      <4>. QED  BY <3>3, <4>1 DEF ReplyInv
    <3>. QED  BY <1>7, <3>1, <3>2, <3>3
  <2>2. RequestInv(c)'
    <3>1. ASSUME NEW i \in 1..Len(toMain'[c]), toMain'[c][i] = "CHECK_UPLOAD"
          PROVE  i = Len(toMain'[c])
      <4>1. CASE msgs = <<>>
        BY <1>2, <3>1, <4>1, ConcatEmptySeq DEF TypeOK, ConnInv, RequestInv, OnlyLast
      <4>2. CASE msgs # <<>>
        <5>1. ~Pending(c, "CHECK_UPLOAD")
          BY <1>7, <4>2 DEF ConnInv, ReplyInv, Pending
        <5>2. /\ toMain[c] \in Seq(Msg)
              /\ Len(toMain[c]) \in Nat /\ Len(msgs) \in Nat
              /\ Len(toMain'[c]) = Len(toMain[c]) + Len(msgs)
              /\ toMain'[c][i] = IF i <= Len(toMain[c]) THEN toMain[c][i]
                                                      ELSE msgs[i - Len(toMain[c])]
          <6>1. toMain[c] \in Seq(Msg) /\ msgs \in Seq(Msg)
            BY <1>2 DEF TypeOK
          <6>2. Len(toMain[c]) \in Nat /\ Len(msgs) \in Nat
            BY <6>1, LenProperties
          <6>3. toMain'[c] = toMain[c] \o msgs
            BY <1>2
          <6>4. /\ Len(toMain[c] \o msgs) = Len(toMain[c]) + Len(msgs)
                /\ \A j \in 1..Len(toMain[c]) + Len(msgs) :
                      (toMain[c] \o msgs)[j] = IF j <= Len(toMain[c]) THEN toMain[c][j]
                                                                    ELSE msgs[j - Len(toMain[c])]
            BY <6>1, ConcatProperties
          <6>. QED  BY <3>1, <6>1, <6>2, <6>3, <6>4, Zenon
        <5>3. ~(i <= Len(toMain[c]))
          BY <3>1, <5>1, <5>2 DEF Pending
        <5>4. i - Len(toMain[c]) \in 1..Len(msgs) /\ msgs[i - Len(toMain[c])] = "CHECK_UPLOAD"
          BY <3>1, <5>2, <5>3
        <5>5. i - Len(toMain[c]) = Len(msgs)
          BY <5>4 DEF UserDiscipline, OnlyLast
        <5>. QED  BY <3>1, <5>2, <5>5
      <4>. QED  BY <4>1, <4>2
    <3>2. Pending(c, "CHECK_UPLOAD")' /\ Holds(c)' => Pending(c, "UPLOAD_ENDED")'
      <4>. SUFFICES ASSUME Pending(c, "CHECK_UPLOAD")', Holds(c)
                    PROVE  Pending(c, "UPLOAD_ENDED") \/ Has(msgs, "UPLOAD_ENDED")
        BY <1>4, <1>6 DEF Holds
      <4>1. CASE Pending(c, "CHECK_UPLOAD")
        BY <4>1 DEF ConnInv, RequestInv
      <4>2. CASE Has(msgs, "CHECK_UPLOAD")
        <5>1. w # "no" /\ ~b /\ s # "OFF"
          BY <4>2 DEF UserDiscipline
        <5>2. Idle(c) /\ msgs # <<>>
          BY <1>7, <5>1, <4>2 DEF Has
        <5>3. c \in open \/ Pending(c, "UPLOAD_ENDED")
          BY <5>2 DEF ConnInv, ChargeInv, ReplyInv, Idle
        <5>. QED  BY <5>1, <5>3 DEF UserDiscipline
      <4>. QED  BY <1>6, <4>1, <4>2
    <3>. QED  BY <3>1, <3>2 DEF RequestInv, OnlyLast
  <2>3. ChargeInv(c)'
    <3>1. Holds(c)' <=> Holds(c)
      BY <1>4 DEF Holds
    <3>2. c \in open' => Holds(c) /\ ~Pending(c, "UPLOAD_ENDED")'
      <4>. SUFFICES ASSUME b
                    PROVE  Holds(c) /\ ~Pending(c, "UPLOAD_ENDED")
        BY <1>1, <1>6 DEF UserDiscipline
      <4>1. CASE c \in open
        BY <4>1 DEF ConnInv, ChargeInv
      <4>2. CASE toUser[c] = <<"file">>
        <5>1. toMain[c] = <<>>
          BY <4>2 DEF ConnInv, ReplyInv
        <5>2. Holds(c)
          BY <4>2 DEF ConnInv, ChargeInv
        <5>. QED  BY <5>1, <5>2 DEF Pending
      <4>. QED  BY <4>1, <4>2 DEF UserDiscipline
    <3>3. toUser'[c] = <<"file">> => Holds(c)
      BY <1>7 DEF ConnInv, ChargeInv
    <3>4. Holds(c) => \/ c \in open'
                     \/ Pending(c, "UPLOAD_ENDED")'
                     \/ toUser'[c] = <<"file">>
                     \/ ~Running(c)'
      <4>. SUFFICES ASSUME Holds(c), ~b, s # "OFF"
                    PROVE  Pending(c, "UPLOAD_ENDED") \/ Has(msgs, "UPLOAD_ENDED")
        BY <1>1, <1>6 DEF Running
      <4>1. Running(c)
        BY <1>7 DEF Idle
      <4>2. \/ c \in open
            \/ Pending(c, "UPLOAD_ENDED")
            \/ toUser[c] = <<"file">>
        BY <4>1 DEF ConnInv, ChargeInv
      <4>. QED  BY <4>2 DEF UserDiscipline
    <3>. QED  BY <1>4, <3>1, <3>2, <3>3, <3>4 DEF ConnInv, ChargeInv
  <2>. QED  BY <1>5, <1>8, <1>9, <2>1, <2>2, <2>3 DEF ConnInv
<1>. QED  BY <1>10, <1>11

-----------------------------------------------------------------------------
(* Every action of a user process is such a step. *)

(* Some messages, a state, a request and a file describe the step. *)
UserMove(c) ==
    \E msgs \in Seq(Msg), s \in UserState, w \in Wait, b \in BOOLEAN :
        UserEffect(c, msgs, s, w, b) /\ UserDiscipline(c, msgs, s, w, b)

(* The sequences of messages that are ever written in one step. *)
LEMMA WrittenMsgs ==
    /\ <<>> \in Seq(Msg)
    /\ \A m \in Msg : <<m>> \in Seq(Msg) /\ \A x : Has(<<m>>, x) <=> x = m
    /\ \A m, n \in Msg : /\ <<m, n>> \in Seq(Msg)
                        /\ \A x : Has(<<m, n>>, x) <=> x = m \/ x = n
    /\ \A x : ~Has(<<>>, x)
<1>1. ASSUME NEW m \in Msg, NEW x
      PROVE  <<m>> \in Seq(Msg) /\ (Has(<<m>>, x) <=> x = m)
  BY DEF Has
<1>2. ASSUME NEW m \in Msg, NEW n \in Msg, NEW x
      PROVE  <<m, n>> \in Seq(Msg) /\ (Has(<<m, n>>, x) <=> x = m \/ x = n)
  BY DEF Has
<1>3. <<>> \in Seq(Msg) /\ \A x : ~Has(<<>>, x)
  BY DEF Has
<1>. QED  BY <1>1, <1>2, <1>3

LEMMA ConcatPair ==
    ASSUME NEW m \in Msg, NEW n \in Msg PROVE <<m>> \o <<n>> = <<m, n>>
<1>. DEFINE s == <<m>> \o <<n>>
            t == <<m, n>>
<1>1. <<m>> \in Seq(Msg) /\ <<n>> \in Seq(Msg) /\ t \in Seq(Msg)
  OBVIOUS
<1>2. /\ s \in Seq(Msg) /\ Len(s) = 2
      /\ \A i \in 1..2 : s[i] = IF i <= 1 THEN <<m>>[i] ELSE <<n>>[i - 1]
  BY <1>1, ConcatProperties
<1>3. Len(t) = 2 /\ \A i \in 1..2 : t[i] = s[i]
  BY <1>2
<1>. HIDE DEF s, t
<1>4. s = t
  BY <1>1, <1>2, <1>3, SeqEqual
<1>. QED  BY <1>4 DEF s, t

LEMMA UserMoveIntro ==
    ASSUME NEW c \in Conn, NEW msgs \in Seq(Msg), NEW s \in UserState, NEW w \in Wait,
           NEW b \in BOOLEAN,
           \/ msgs = <<>> /\ UNCHANGED toMain
           \/ Put(c, msgs),
           Continue(c, s, w, b), UNCHANGED mainVars,
           UserDiscipline(c, msgs, s, w, b)
    PROVE  UserMove(c)
BY Zenon DEF UserMove, UserEffect

(* In these states and for these messages only part of the discipline is  *)
(* left to show.                                                          *)
LEMMA IdleDiscipline ==
    ASSUME NEW c \in Conn, Idle(c), UNCHANGED toUser, ReplyInv(c),
           NEW msgs \in Seq(Msg), NEW s, NEW w, NEW b \in BOOLEAN,
           s = "OFF" => w = "no",
           s \in {"OFF", "GET"} \/ w # "no" => ~b,
           Has(msgs, "CHECK_UPLOAD") => w # "no",
           OnlyLast(msgs, "CHECK_UPLOAD"),
           b => c \in open /\ ~Has(msgs, "UPLOAD_ENDED"),
           s # "OFF" /\ ~b /\ c \in open => Has(msgs, "UPLOAD_ENDED")
    PROVE  UserDiscipline(c, msgs, s, w, b)
<1>1. toUser[c] # <<"file">>
  <2>1. toUser[c] = <<>>
    BY Zenon DEF ReplyInv
  <2>. QED  BY <2>1
<1>2. s \in {"OFF", "GET"} \/ w # "no" => ~b
  OBVIOUS
<1>. QED  BY <1>1, <1>2, Zenon DEF UserDiscipline

LEMMA ReplyDiscipline ==
    ASSUME NEW c \in Conn, ReadReply(c), ProcessInv(c), ReplyInv(c),
           NEW msgs \in Seq(Msg), NEW s, NEW b \in BOOLEAN,
           s \in {"OFF", "GET"} => ~b,
           ~Has(msgs, "CHECK_UPLOAD"),
           b => toUser[c] = <<"file">> /\ ~Has(msgs, "UPLOAD_ENDED"),
           s # "OFF" /\ ~b /\ toUser[c] = <<"file">> => Has(msgs, "UPLOAD_ENDED")
    PROVE  UserDiscipline(c, msgs, s, "no", b)
<1>1. c \notin open
  BY DEF ReadReply, ReplyInv, ProcessInv, Idle
<1>. QED  BY <1>1 DEF UserDiscipline, Has, OnlyLast

(* A process that only stops: what it writes is not a request. *)
LEMMA StopMove ==
    ASSUME NEW c \in Conn, ConnInv(c), UNCHANGED toUser, Exit(c), UNCHANGED mainVars,
           NEW msgs \in Seq(Msg), ~Has(msgs, "CHECK_UPLOAD"),
           \/ Idle(c) /\ Put(c, msgs)
           \/ Running(c) /\ msgs = <<>> /\ UNCHANGED toMain
    PROVE  UserMove(c)
<1>1. "OFF" \in UserState /\ "no" \in Wait
  BY DEF UserState, Wait
<1>2. Continue(c, "OFF", "no", FALSE)
  BY DEF Exit
<1>3. UserDiscipline(c, msgs, "OFF", "no", FALSE)
  BY DEF UserDiscipline, Has, OnlyLast
<1>. QED  BY <1>1, <1>2, <1>3, UserMoveIntro

LEMMA GetMove ==
    ASSUME TypeOK, NEW c \in Conn, ConnInv(c), ReceiveGet(c)
    PROVE  UserMove(c)
<1>. DEFINE w(named) == IF named THEN "Get" ELSE "no"
<1>1. PICK named \in BOOLEAN :
         /\ Put(c, GetMessages(c, named))
         /\ Continue(c, user_state[c], w(named), FALSE)
  BY DEF ReceiveGet
<1>2. Idle(c) /\ UNCHANGED toUser /\ UNCHANGED mainVars /\ user_state[c] \in UserState
  BY DEF ReceiveGet, TypeOK
<1>3. w(named) \in Wait /\ user_state[c] # "OFF"
  BY <1>2 DEF Wait, Idle, Running
<1>4. ASSUME user_state[c] # "SEND_GET" PROVE c \notin open
  BY <1>4 DEF ReceiveGet, ConnInv, ProcessInv
<1>5. CASE user_state[c] = "SEND_GET"
  <2>1. CASE named
    <3>. DEFINE msgs == <<"UPLOAD_ENDED", "CHECK_UPLOAD">>
    <3>1. GetMessages(c, named) = msgs
      BY <1>5, <2>1, ConcatPair DEF Msg, GetMessages, Ended, Check
    <3>2. /\ msgs \in Seq(Msg)
          /\ \A m : Has(msgs, m) <=> m \in {"UPLOAD_ENDED", "CHECK_UPLOAD"}
      BY WrittenMsgs DEF Msg
    <3>3. OnlyLast(msgs, "CHECK_UPLOAD")
      BY DEF OnlyLast
    <3>4. UserDiscipline(c, msgs, user_state[c], w(named), FALSE)
      BY <1>2, <1>3, <2>1, <3>2, <3>3, IdleDiscipline DEF ConnInv
    <3>. QED  BY <1>1, <1>2, <1>3, <3>1, <3>2, <3>4, UserMoveIntro
  <2>2. CASE ~named
    <3>. DEFINE msgs == <<"UPLOAD_ENDED">>
    <3>1. GetMessages(c, named) = msgs
      BY <1>5, <2>2 DEF GetMessages, Ended, Check
    <3>2. msgs \in Seq(Msg) /\ \A m : Has(msgs, m) <=> m = "UPLOAD_ENDED"
      BY WrittenMsgs DEF Msg
    <3>3. OnlyLast(msgs, "CHECK_UPLOAD")
      BY DEF OnlyLast
    <3>4. UserDiscipline(c, msgs, user_state[c], w(named), FALSE)
      BY <1>2, <1>3, <2>2, <3>2, <3>3, IdleDiscipline DEF ConnInv
    <3>. QED  BY <1>1, <1>2, <1>3, <3>1, <3>2, <3>4, UserMoveIntro
  <2>. QED  BY <2>1, <2>2
<1>6. CASE user_state[c] # "SEND_GET"
  <2>1. CASE named
    <3>. DEFINE msgs == <<"CHECK_UPLOAD">>
    <3>1. GetMessages(c, named) = msgs
      BY <1>6, <2>1 DEF GetMessages, Ended, Check
    <3>2. msgs \in Seq(Msg) /\ \A m : Has(msgs, m) <=> m = "CHECK_UPLOAD"
      BY WrittenMsgs DEF Msg
    <3>3. OnlyLast(msgs, "CHECK_UPLOAD")
      BY DEF OnlyLast
    <3>4. UserDiscipline(c, msgs, user_state[c], w(named), FALSE)
      BY <1>2, <1>3, <1>4, <1>6, <2>1, <3>2, <3>3, IdleDiscipline DEF ConnInv
    <3>. QED  BY <1>1, <1>2, <1>3, <3>1, <3>2, <3>4, UserMoveIntro
  <2>2. CASE ~named
    <3>1. GetMessages(c, named) = <<>>
      BY <1>6, <2>2 DEF GetMessages, Ended, Check
    <3>2. <<>> \in Seq(Msg) /\ \A m : ~Has(<<>>, m)
      BY WrittenMsgs
    <3>3. OnlyLast(<<>>, "CHECK_UPLOAD")
      BY DEF OnlyLast
    <3>4. UserDiscipline(c, <<>>, user_state[c], w(named), FALSE)
      BY <1>2, <1>3, <1>4, <1>6, <2>2, <3>2, <3>3, IdleDiscipline DEF ConnInv
    <3>. QED  BY <1>1, <1>2, <1>3, <3>1, <3>2, <3>4, UserMoveIntro
  <2>. QED  BY <2>1, <2>2
<1>. QED  BY <1>5, <1>6

LEMMA GetBlockMove ==
    ASSUME TypeOK, NEW c \in Conn, ConnInv(c), ReceiveGetBlock(c)
    PROVE  UserMove(c)
<1>. DEFINE msgs == <<"CHECK_UPLOAD">>
<1>1. /\ Idle(c) /\ UNCHANGED toUser /\ UNCHANGED mainVars
      /\ Put(c, msgs) /\ Continue(c, "GET", "Block", FALSE) /\ user_state[c] = "GET"
  BY DEF ReceiveGetBlock
<1>2. msgs \in Seq(Msg) /\ \A m : Has(msgs, m) <=> m = "CHECK_UPLOAD"
  BY WrittenMsgs DEF Msg
<1>3. OnlyLast(msgs, "CHECK_UPLOAD")
  BY DEF OnlyLast
<1>4. c \notin open /\ "GET" \in UserState /\ "Block" \in Wait
  BY <1>1 DEF ConnInv, ProcessInv, UserState, Wait
<1>5. UserDiscipline(c, msgs, "GET", "Block", FALSE)
  BY <1>1, <1>2, <1>3, <1>4, IdleDiscipline DEF ConnInv
<1>. QED  BY <1>1, <1>2, <1>4, <1>5, UserMoveIntro

(* An idle process writes one message that is no request and goes on. *)
LEMMA IdleMove ==
    ASSUME NEW c \in Conn, ConnInv(c), Idle(c), UNCHANGED toUser, UNCHANGED mainVars,
           NEW m \in Msg \ {"CHECK_UPLOAD"}, NEW s \in {"GET", "DATA_SEND"},
           Put(c, <<m>>), NEW b \in BOOLEAN, Continue(c, s, "no", b),
           s = "GET" => m = "UPLOAD_ENDED" /\ ~b,
           s = "DATA_SEND" => m # "UPLOAD_ENDED" /\ (b <=> c \in open)
    PROVE  UserMove(c)
<1>1. <<m>> \in Seq(Msg) /\ \A x : Has(<<m>>, x) <=> x = m
  BY WrittenMsgs
<1>2. s \in UserState /\ "no" \in Wait
  BY DEF UserState, Wait
<1>3. OnlyLast(<<m>>, "CHECK_UPLOAD")
  BY DEF OnlyLast
<1>4. UserDiscipline(c, <<m>>, s, "no", b)
  BY <1>1, <1>3, IdleDiscipline DEF ConnInv
<1>. QED  BY <1>1, <1>2, <1>4, UserMoveIntro

LEMMA SendMove ==
    ASSUME TypeOK, NEW c \in Conn, ConnInv(c), ReceiveSend(c)
    PROVE  UserMove(c)
<1>1. Idle(c) /\ UNCHANGED toUser /\ UNCHANGED mainVars
  BY DEF ReceiveSend
<1>2. CASE Put(c, <<"UPLOAD_ENDED">>) /\ Continue(c, "GET", "no", FALSE)
  BY <1>1, <1>2, IdleMove DEF Msg
<1>3. CASE /\ Put(c, <<IF c \in open THEN "TRANSFER_START" ELSE "UNNAMED_START">>)
           /\ Continue(c, "DATA_SEND", "no", c \in open)
  <2>1. PICK b \in BOOLEAN : b <=> (c \in open)
    OBVIOUS
  <2>2. Continue(c, "DATA_SEND", "no", b)
    BY <1>3, <2>1 DEF Continue
  <2>3. PICK m \in {"TRANSFER_START", "UNNAMED_START"} : Put(c, <<m>>)
    BY <1>3
  <2>. QED  BY <1>1, <2>1, <2>2, <2>3, IdleMove DEF Msg
<1>. QED  BY <1>2, <1>3 DEF ReceiveSend, UploadFile

LEMMA FinishMove ==
    ASSUME TypeOK, NEW c \in Conn, ConnInv(c), FinishUpload(c)
    PROVE  UserMove(c)
BY IdleMove DEF FinishUpload, Msg

LEMMA FailMove ==
    ASSUME TypeOK, NEW c \in Conn, ConnInv(c), FailUpload(c)
    PROVE  UserMove(c)
<1>. DEFINE msgs == <<"UPLOAD_ENDED", "TERMINATING">>
<1>1. msgs \in Seq(Msg) /\ ~Has(msgs, "CHECK_UPLOAD")
  BY WrittenMsgs DEF Msg
<1>. QED  BY <1>1, StopMove DEF FailUpload

LEMMA TerminateMove ==
    ASSUME TypeOK, NEW c \in Conn, ConnInv(c), Terminate(c)
    PROVE  UserMove(c)
<1>1. <<"TERMINATING">> \in Seq(Msg) /\ ~Has(<<"TERMINATING">>, "CHECK_UPLOAD")
  BY WrittenMsgs DEF Msg
<1>. QED  BY <1>1, StopMove DEF Terminate

LEMMA DeathMove ==
    ASSUME TypeOK, NEW c \in Conn, ConnInv(c), Crash(c) \/ NoticeDisconnect(c)
    PROVE  UserMove(c)
<1>1. <<>> \in Seq(Msg) /\ ~Has(<<>>, "CHECK_UPLOAD")
  BY WrittenMsgs
<1>. QED  BY <1>1, StopMove DEF Crash, NoticeDisconnect

(* A process reads its reply and writes no request. *)
LEMMA ReplyMove ==
    ASSUME NEW c \in Conn, ConnInv(c), ReadReply(c), UNCHANGED mainVars,
           NEW msgs \in Seq(Msg), ~Has(msgs, "CHECK_UPLOAD"),
           \/ msgs = <<>> /\ UNCHANGED toMain
           \/ Put(c, msgs),
           NEW s \in UserState, NEW b \in BOOLEAN, Continue(c, s, "no", b),
           s \in {"OFF", "GET"} => ~b,
           b => toUser[c] = <<"file">> /\ ~Has(msgs, "UPLOAD_ENDED"),
           s # "OFF" /\ ~b /\ toUser[c] = <<"file">> => Has(msgs, "UPLOAD_ENDED")
    PROVE  UserMove(c)
<1>1. UserDiscipline(c, msgs, s, "no", b)
  BY ReplyDiscipline DEF ConnInv
<1>2. "no" \in Wait
  BY DEF Wait
<1>. QED  BY <1>1, <1>2, UserMoveIntro

LEMMA ReceiveReplyMove ==
    ASSUME TypeOK, NEW c \in Conn, ConnInv(c), ReceiveReply(c)
    PROVE  UserMove(c)
<1>1. ReadReply(c) /\ UNCHANGED mainVars
  BY DEF ReceiveReply, ReadReply
<1>2. PICK r \in Reply : toUser[c] = <<r>>
  BY <1>1 DEF ConnInv, ReplyInv, ReadReply
<1>3. Head(toUser[c]) = r
  BY <1>2
<1>4. /\ <<>> \in Seq(Msg) /\ \A m : ~Has(<<>>, m)
      /\ <<"TERMINATING">> \in Seq(Msg)
      /\ \A m : Has(<<"TERMINATING">>, m) <=> m = "TERMINATING"
      /\ <<"UPLOAD_ENDED">> \in Seq(Msg)
      /\ \A m : Has(<<"UPLOAD_ENDED">>, m) <=> m = "UPLOAD_ENDED"
      /\ <<"TRANSFER_START">> \in Seq(Msg)
      /\ \A m : Has(<<"TRANSFER_START">>, m) <=> m = "TRANSFER_START"
      /\ <<"TERMINATING", "UPLOAD_ENDED">> \in Seq(Msg)
      /\ \A m : Has(<<"TERMINATING", "UPLOAD_ENDED">>, m)
                   <=> m \in {"TERMINATING", "UPLOAD_ENDED"}
  BY WrittenMsgs DEF Msg
<1>5. user_state[c] \in UserState /\ {"OFF", "GET", "SEND_GET", "DATA_SEND"} = UserState
  BY DEF TypeOK, UserState
<1>6. CASE Put(c, <<"TERMINATING">>) /\ Exit(c)
  BY <1>1, <1>4, <1>5, <1>6, ReplyMove DEF Exit
<1>7. CASE Put(c, <<"TERMINATING", "UPLOAD_ENDED">>) /\ Exit(c)
  BY <1>1, <1>4, <1>5, <1>7, ReplyMove DEF Exit
<1>8. CASE Put(c, <<"UPLOAD_ENDED">>) /\ Continue(c, user_state[c], "no", FALSE)
  BY <1>1, <1>4, <1>5, <1>8, ReplyMove
<1>9. CASE /\ Continue(c, user_state[c], "no", FALSE) /\ UNCHANGED toMain
           /\ r = "denied"
  <2>1. toUser[c] # <<"file">>
    BY <1>2, <1>9
  <2>. QED  BY <1>1, <1>4, <1>5, <1>9, <2>1, ReplyMove
<1>10. CASE r = "file" /\ Continue(c, "SEND_GET", "no", TRUE) /\ UNCHANGED toMain
  BY <1>1, <1>2, <1>4, <1>5, <1>10, ReplyMove
<1>11. CASE r = "file" /\ UploadFile(c, TRUE)
  <2>1. CASE Put(c, <<"UPLOAD_ENDED">>) /\ Continue(c, "GET", "no", FALSE)
    BY <1>1, <1>4, <1>5, <2>1, ReplyMove
  <2>2. CASE Put(c, <<"TRANSFER_START">>) /\ Continue(c, "DATA_SEND", "no", TRUE)
    BY <1>1, <1>2, <1>4, <1>5, <1>11, <2>2, ReplyMove
  <2>. QED  BY <1>11, <2>1, <2>2 DEF UploadFile
<1>. QED
  BY <1>3, <1>6, <1>7, <1>8, <1>9, <1>10, <1>11, Zenon DEF ReceiveReply, OpenUploadFile

(* The alarm of the process becomes due, or is set again. *)
TimerMove(c) == Silence(c) \/ ReceiveIgnored(c)

LEMMA UserStepMove ==
    ASSUME TypeOK, NEW c \in Conn, ConnInv(c), UserStep(c)
    PROVE  UserMove(c) \/ TimerMove(c)
BY GetMove, GetBlockMove, ReceiveReplyMove, SendMove, FinishMove, FailMove,
   TerminateMove, DeathMove, Zenon DEF UserStep, TimerMove, Alarm

LEMMA TimerMoveInv ==
    ASSUME Inv, NEW c \in Conn, TimerMove(c)
    PROVE  Inv'
<1>1. /\ UNCHANGED <<mainVars, toMain, toUser, user_state, wait, open>>
      /\ silent' \subseteq Conn
  BY DEF TimerMove, Silence, ReceiveIgnored, Inv, TypeOK
<1>2. TypeOK' /\ SlotAccounting' /\ MinislotsNotUndercounted'
  BY <1>1 DEF Inv, TypeOK, mainVars, SlotAccounting, MinislotsNotUndercounted
<1>3. \A d \in Conn : ConnInv(d)'
  BY <1>1, OtherConn DEF Inv, SameConn, mainVars
<1>. QED  BY <1>2, <1>3 DEF Inv

(* A step of a user process preserves the invariant: the counters are not *)
(* touched.                                                               *)
LEMMA UserMoveInv ==
    ASSUME Inv, NEW c \in Conn, UserMove(c)
    PROVE  Inv'
<1>1. ConnInv(c) /\ TypeOK
  BY DEF Inv
<1>2. PICK msgs \in Seq(Msg), s \in UserState, w \in Wait, b \in BOOLEAN :
         UserEffect(c, msgs, s, w, b) /\ UserDiscipline(c, msgs, s, w, b)
  BY DEF UserMove
<1>3. UNCHANGED toUser \/ ReadReply(c)
  BY <1>2 DEF UserDiscipline
<1>4. TypeOK'
  BY <1>1, <1>2, <1>3, UserEffectType
<1>5. ConnInv(c)' /\ \A d \in Conn \ {c} : SameConn(d)
  BY <1>1, <1>2, UserStepConn
<1>6. \A d \in Conn : ConnInv(d)'
  BY <1>5, OtherConn DEF Inv
<1>7. SlotAccounting' /\ MinislotsNotUndercounted'
  BY <1>2 DEF Inv, UserEffect, mainVars, SlotAccounting, MinislotsNotUndercounted
<1>. QED  BY <1>4, <1>6, <1>7 DEF Inv

LEMMA UserStepInv ==
    ASSUME Inv, NEW c \in Conn, UserStep(c)
    PROVE  Inv'
BY UserStepMove, UserMoveInv, TimerMoveInv DEF Inv

-----------------------------------------------------------------------------
(* The main process *)

Accounting == SlotAccounting /\ MinislotsNotUndercounted

(* Adding a connection to a set that lacks it counts one more, removing   *)
(* one counts one less.                                                   *)
LEMMA CountConn ==
    ASSUME NEW S \in SUBSET Conn, NEW c \in Conn
    PROVE  /\ IsFiniteSet(S) /\ Cardinality(S) \in Nat
           /\ c \notin S => Cardinality(S \cup {c}) = Cardinality(S) + 1
           /\ c \in S => /\ Cardinality(S) > 0
                         /\ Cardinality(S \ {c}) = Cardinality(S) - 1
           /\ c \notin S => S \ {c} = S
           /\ S \ {c} \in SUBSET Conn /\ Cardinality(S \ {c}) \in Nat
<1>1. IsFiniteSet(S)
  BY ConstantsAssumption, FS_Subset DEF ConstantsAssumption
<1>2. Cardinality(S) \in Nat
  BY <1>1, FS_CardinalityType
<1>3. c \notin S => Cardinality(S \cup {c}) = Cardinality(S) + 1
  BY <1>1, FS_AddElement
<1>4. c \in S => Cardinality(S \ {c}) = Cardinality(S) - 1
  BY <1>1, FS_RemoveElement
<1>5. c \in S => Cardinality(S) > 0
  <2>. SUFFICES ASSUME c \in S, Cardinality(S) = 0 PROVE FALSE
    BY <1>2
  <2>. QED  BY <1>1, FS_EmptySet
<1>6. S \ {c} \in SUBSET Conn /\ Cardinality(S \ {c}) \in Nat
  BY <1>1, FS_Subset, FS_CardinalityType
<1>. QED  BY <1>1, <1>2, <1>3, <1>4, <1>5, <1>6

(* Giving back a slot or a minislot that is held keeps the accounts. *)
LEMMA EndedAccounts ==
    ASSUME TypeOK, Accounting, NEW c \in Conn, HandleEndedUpload(c)
    PROVE  /\ Accounting'
           /\ used_ul_slots' \in Nat /\ used_mini_slots' \in 0..MiniCount
<1>1. /\ used_ul_slots \in Nat /\ used_ul_slots = Cardinality(slot)
      /\ used_mini_slots \in 0..MiniCount /\ Cardinality(mini) <= used_mini_slots
      /\ MiniCount \in Nat
  BY ConstantsAssumption
     DEF ConstantsAssumption, TypeOK, Accounting, SlotAccounting, MinislotsNotUndercounted
<1>2. used_ul_slots' \in Nat /\ used_ul_slots' = Cardinality(slot')
  <2>. DEFINE n == Cardinality(slot)
              m == Cardinality(slot \ {c})
  <2>1. /\ m \in Nat
        /\ c \in slot => n > 0 /\ m = n - 1
        /\ c \notin slot => m = n
    BY CountConn DEF TypeOK
  <2>2. used_ul_slots' = IF c \in slot THEN used_ul_slots - 1 ELSE used_ul_slots
    BY DEF HandleEndedUpload
  <2>. HIDE DEF n, m
  <2>3. used_ul_slots' = m
    BY <1>1, <2>1, <2>2 DEF n
  <2>. QED  BY <2>1, <2>3 DEF m, HandleEndedUpload
<1>3. used_mini_slots' \in 0..MiniCount /\ Cardinality(mini') <= used_mini_slots'
  <2>. DEFINE n == Cardinality(mini)
              m == Cardinality(mini \ {c})
  <2>1. /\ m \in Nat
        /\ c \in mini => n > 0 /\ m = n - 1
        /\ c \notin mini => m = n
    BY CountConn DEF TypeOK
  <2>2. used_mini_slots' = IF c \in mini THEN used_mini_slots - 1 ELSE used_mini_slots
    BY DEF HandleEndedUpload
  <2>3. n \in Nat
    BY CountConn DEF TypeOK
  <2>. HIDE DEF n, m
  <2>4. used_mini_slots' \in 0..MiniCount /\ m <= used_mini_slots'
    BY <1>1, <2>1, <2>2, <2>3 DEF n
  <2>. QED  BY <2>4 DEF m, HandleEndedUpload
<1>. QED  BY <1>2, <1>3 DEF Accounting, SlotAccounting, MinislotsNotUndercounted

(* What is shown of a step of the main process about connection c. *)
LEMMA MainStepInv ==
    ASSUME Inv, TypeOK', Accounting', NEW c \in Conn, ConnInv(c)',
           \A d \in Conn \ {c} : SameConn(d)
    PROVE  Inv'
<1>1. \A d \in Conn : ConnInv(d)'
  BY OtherConn DEF Inv
<1>. QED  BY <1>1 DEF Inv, Accounting

LEMMA DisconnectInv ==
    ASSUME Inv, NEW c \in live, UserDisconnect(c)
    PROVE  Inv'
<1>1. /\ TypeOK /\ Accounting /\ c \in Conn /\ ConnInv(c)
  BY DEF Inv, Accounting, TypeOK
<1>2. slot' = slot \ {c} /\ mini' = mini \ {c} /\ transferring' = transferring \ {c}
  BY DEF UserDisconnect, HandleEndedUpload
<1>3. Accounting' /\ used_ul_slots' \in Nat /\ used_mini_slots' \in 0..MiniCount
  <2>1. CASE c \in slot
    BY <1>1, <2>1, EndedAccounts DEF UserDisconnect
  <2>2. CASE c \notin slot
    <3>. DEFINE n == Cardinality(mini)
                m == Cardinality(mini \ {c})
    <3>1. /\ n \in Nat /\ m \in Nat
          /\ c \in mini => m = n - 1
          /\ c \notin mini => m = n
      BY <1>1, CountConn DEF TypeOK
    <3>2. Cardinality(mini') = m
      BY <1>2
    <3>3. slot' = slot /\ used_ul_slots' = used_ul_slots /\ used_mini_slots' = used_mini_slots
      BY <2>2 DEF UserDisconnect
    <3>4. n <= used_mini_slots /\ used_mini_slots \in 0..MiniCount /\ MiniCount \in Nat
      BY <1>1, ConstantsAssumption
         DEF TypeOK, ConstantsAssumption, Accounting, MinislotsNotUndercounted
    <3>. HIDE DEF n, m
    <3>5. m <= used_mini_slots
      BY <3>1, <3>4
    <3>6. SlotAccounting' /\ MinislotsNotUndercounted'
      BY <1>1, <3>2, <3>3, <3>5
         DEF Accounting, SlotAccounting, MinislotsNotUndercounted
    <3>. QED  BY <1>1, <3>3, <3>4, <3>6 DEF Accounting, TypeOK
  <2>. QED  BY <2>1, <2>2
<1>4. TypeOK'
  BY <1>1, <1>2, <1>3 DEF UserDisconnect, TypeOK, userVars
<1>5. ConnInv(c)'
  BY <1>1, <1>2
     DEF UserDisconnect, userVars, TypeOK, ConnInv, ProcessInv, PipesInv, ReplyInv,
         RequestInv, ChargeInv, OnlyLast, Running, Idle, Pending, Holds
<1>6. \A d \in Conn \ {c} : SameConn(d)
  BY <1>1, <1>2 DEF UserDisconnect, userVars, TypeOK, SameConn
<1>. QED  BY <1>1, <1>3, <1>4, <1>5, <1>6, MainStepInv

(* What is the last message only is still the last after a read, and when *)
(* it is read it was alone.                                               *)
LEMMA LastTail ==
    ASSUME NEW s \in Seq(Msg), s # <<>>, NEW m,
           OnlyLast(s, m)
    PROVE  /\ Tail(s) \in Seq(Msg)
           /\ OnlyLast(Tail(s), m)
           /\ Head(s) = m => s = <<m>> /\ Tail(s) = <<>>
           /\ \E i \in 1..Len(s) : s[i] = Head(s)
<1>1. /\ Tail(s) \in Seq(Msg) /\ Len(Tail(s)) = Len(s) - 1
      /\ \A i \in 1..Len(Tail(s)) : Tail(s)[i] = s[i+1]
      /\ Len(s) \in Nat /\ Len(s) # 0
  BY HeadTailProperties, EmptySeq
<1>2. Len(s) \in Nat
  BY <1>1
<1>3. ASSUME NEW i \in 1..Len(Tail(s)), Tail(s)[i] = m
      PROVE  i = Len(Tail(s))
  <2>1. i + 1 \in 1..Len(s) /\ s[i+1] = m
    BY <1>1, <1>3
  <2>2. i + 1 = Len(s)
    BY <2>1 DEF OnlyLast
  <2>3. i \in Int
    BY <1>1
  <2>4. i = Len(s) - 1
    BY <1>2, <2>2, <2>3
  <2>. QED  BY <1>1, <2>4
<1>4. 1 \in 1..Len(s) /\ s[1] = Head(s)
  BY <1>1
<1>5. ASSUME Head(s) = m PROVE s = <<m>> /\ Tail(s) = <<>>
  <2>1. Len(s) = 1
    BY <1>4, <1>5 DEF OnlyLast
  <2>2. Len(Tail(s)) = 0
    BY <1>1, <2>1
  <2>3. Tail(s) = <<>>
    BY <1>1, <2>2, EmptySeq
  <2>4. s = <<m>>
    BY <1>4, <1>5, <2>1
  <2>. QED  BY <2>3, <2>4
<1>. QED  BY <1>1, <1>3, <1>4, <1>5 DEF OnlyLast

(* Reading a message: a request is the last, and alone when it is read. *)
LEMMA ReceiveConn ==
    ASSUME Inv, NEW c \in Conn, NEW m \in Msg, Receive(c, m), Consume(c)
    PROVE  /\ c \in live /\ toUser[c] = <<>>
           /\ Pending(c, m)
           /\ toMain' \in [Conn -> Seq(Msg)]
           /\ \A d \in Conn \ {c} : toMain'[d] = toMain[d]
           /\ \A n : /\ Pending(c, n)' => Pending(c, n)
                     /\ Pending(c, n) /\ n # m => Pending(c, n)'
           /\ OnlyLast(toMain'[c], "CHECK_UPLOAD")
           /\ m = "CHECK_UPLOAD" => toMain[c] = <<m>> /\ toMain'[c] = <<>>
<1>. DEFINE s == toMain[c]
<1>1. s \in Seq(Msg) /\ s # <<>> /\ Head(s) = m /\ c \in live /\ ConnInv(c)
  BY DEF Receive, Inv, TypeOK
<1>2. OnlyLast(s, "CHECK_UPLOAD")
  BY <1>1 DEF ConnInv, RequestInv
<1>8. /\ Tail(s) \in Seq(Msg)
      /\ OnlyLast(Tail(s), "CHECK_UPLOAD")
      /\ m = "CHECK_UPLOAD" => s = <<m>> /\ Tail(s) = <<>>
  BY <1>1, <1>2, LastTail
<1>3. toMain'[c] = Tail(s) /\ \A d \in Conn \ {c} : toMain'[d] = toMain[d]
  BY DEF Consume, Inv, TypeOK
<1>4. toMain' \in [Conn -> Seq(Msg)]
  BY <1>8 DEF Consume, Inv, TypeOK
<1>5. toUser[c] = <<>>
  BY <1>1 DEF ConnInv, ReplyInv
<1>6. Pending(c, m)
  BY <1>1, <1>2, LastTail DEF Pending
<1>7. ASSUME NEW n
      PROVE  /\ Pending(c, n)' => Pending(c, n)
             /\ Pending(c, n) /\ n # m => Pending(c, n)'
  <2>1. /\ Has(Tail(s), n) => Has(s, n)
        /\ Has(s, n) /\ Head(s) # n => Has(Tail(s), n)
    BY <1>1, HasTail
  <2>. QED  BY <1>1, <1>3, <2>1 DEF Has, Pending
<1>. QED  BY <1>1, <1>3, <1>4, <1>5, <1>6, <1>7, <1>8

LEMMA StartInv ==
    ASSUME Inv, NEW c \in Conn, NEW p \in Peer, StartConnection(c, p)
    PROVE  Inv'
<1>1. TypeOK /\ Accounting /\ ConnInv(c) /\ c \notin live /\ ~Running(c)
  BY DEF Inv, Accounting, StartConnection, Running
<1>2. TypeOK'
  BY <1>1 DEF StartConnection, TypeOK, UserState
<1>3. Accounting'
  BY <1>1 DEF StartConnection, Accounting, SlotAccounting, MinislotsNotUndercounted
<1>4. toMain[c] = <<>> /\ toUser[c] = <<>> /\ c \notin slot /\ c \notin mini /\ c \notin open
  BY <1>1 DEF ConnInv, PipesInv, ProcessInv, Running, TypeOK
<1>5. user_state'[c] = "GET" /\ c \in live'
  BY <1>1 DEF StartConnection, TypeOK
<1>6. ConnInv(c)'
  BY <1>1, <1>4, <1>5
     DEF StartConnection, ConnInv, ProcessInv, PipesInv, ReplyInv, RequestInv, ChargeInv,
         Running, Idle, Pending, Holds
<1>7. \A d \in Conn \ {c} : SameConn(d)
  BY <1>1 DEF StartConnection, SameConn, TypeOK
<1>. QED  BY <1>2, <1>3, <1>6, <1>7, MainStepInv

LEMMA TransferStartInv ==
    ASSUME Inv, NEW c \in Conn, HandleTransferStart(c)
    PROVE  Inv'
<1>1. TypeOK /\ Accounting /\ ConnInv(c)
  BY DEF Inv, Accounting
<1>2. /\ c \in live /\ toUser[c] = <<>>
      /\ toMain' \in [Conn -> Seq(Msg)]
      /\ \A d \in Conn \ {c} : toMain'[d] = toMain[d]
      /\ \A n : /\ Pending(c, n)' => Pending(c, n)
                /\ Pending(c, n) /\ n # "TRANSFER_START" => Pending(c, n)'
      /\ OnlyLast(toMain'[c], "CHECK_UPLOAD")
  BY ReceiveConn DEF HandleTransferStart, Msg
<1>3. TypeOK'
  BY <1>1, <1>2 DEF HandleTransferStart, TypeOK, userVars
<1>4. Accounting'
  BY <1>1 DEF HandleTransferStart, Accounting, SlotAccounting, MinislotsNotUndercounted
<1>5. ReplyInv(c)' /\ ProcessInv(c)' /\ PipesInv(c)'
  BY <1>1, <1>2
     DEF HandleTransferStart, userVars, ConnInv, ReplyInv, ProcessInv, PipesInv, Running, Idle
<1>6. RequestInv(c)' /\ ChargeInv(c)'
  BY <1>1, <1>2
     DEF HandleTransferStart, userVars, ConnInv, RequestInv, ChargeInv, Running, Holds
<1>7. \A d \in Conn \ {c} : SameConn(d)
  BY <1>2 DEF HandleTransferStart, userVars, SameConn
<1>. QED  BY <1>3, <1>4, <1>5, <1>6, <1>7, MainStepInv DEF ConnInv

LEMMA UploadEndedInv ==
    ASSUME Inv, NEW c \in Conn, HandleUploadEnded(c)
    PROVE  Inv'
<1>1. TypeOK /\ Accounting /\ ConnInv(c)
  BY DEF Inv, Accounting
<1>2. /\ c \in live /\ toUser[c] = <<>> /\ Pending(c, "UPLOAD_ENDED")
      /\ toMain' \in [Conn -> Seq(Msg)]
      /\ \A d \in Conn \ {c} : toMain'[d] = toMain[d]
      /\ \A n : /\ Pending(c, n)' => Pending(c, n)
                /\ Pending(c, n) /\ n # "UPLOAD_ENDED" => Pending(c, n)'
      /\ OnlyLast(toMain'[c], "CHECK_UPLOAD")
  BY ReceiveConn DEF HandleUploadEnded, Msg
<1>3. Accounting' /\ used_ul_slots' \in Nat /\ used_mini_slots' \in 0..MiniCount
  BY <1>1, EndedAccounts DEF HandleUploadEnded
<1>4. slot' = slot \ {c} /\ mini' = mini \ {c} /\ transferring' = transferring \ {c}
  BY DEF HandleUploadEnded, HandleEndedUpload
<1>5. TypeOK'
  BY <1>1, <1>2, <1>3, <1>4 DEF HandleUploadEnded, TypeOK, userVars
<1>6. ReplyInv(c)' /\ ProcessInv(c)' /\ PipesInv(c)'
  BY <1>1, <1>2
     DEF HandleUploadEnded, userVars, ConnInv, ReplyInv, ProcessInv, PipesInv, Running, Idle
<1>7. c \notin open
  BY <1>1, <1>2 DEF ConnInv, ChargeInv
<1>8. RequestInv(c)' /\ ChargeInv(c)'
  BY <1>1, <1>2, <1>4, <1>7
     DEF HandleUploadEnded, userVars, RequestInv, ChargeInv, Holds
<1>9. \A d \in Conn \ {c} : SameConn(d)
  BY <1>2, <1>4 DEF HandleUploadEnded, userVars, SameConn
<1>. QED  BY <1>3, <1>5, <1>6, <1>8, <1>9, MainStepInv DEF ConnInv

(* A main process that is started again knows no connection. *)
LEMMA RestartInv ==
    ASSUME Inv, RestartMain
    PROVE  Inv'
<1>1. TypeOK /\ MiniCount \in Nat
  BY ConstantsAssumption DEF Inv, ConstantsAssumption
<1>2. TypeOK'
  BY <1>1 DEF RestartMain, TypeOK, userVars
<1>3. Accounting'
  BY FS_EmptySet DEF RestartMain, Accounting, SlotAccounting, MinislotsNotUndercounted
<1>4. ASSUME NEW d \in Conn PROVE ConnInv(d)'
  <2>1. ProcessInv(d)'
    BY DEF Inv, ConnInv, ProcessInv, RestartMain, userVars, Running
  <2>2. PipesInv(d)' /\ ReplyInv(d)' /\ RequestInv(d)' /\ ChargeInv(d)'
    BY DEF RestartMain, PipesInv, ReplyInv, RequestInv, ChargeInv, OnlyLast, Pending, Holds
  <2>. QED  BY <2>1, <2>2 DEF ConnInv
<1>. QED  BY <1>2, <1>3, <1>4 DEF Inv, Accounting

(* What CHECK_UPLOAD does to the counters. *)
Charged(c) ==
    \/ /\ SendReply(c, "no file") \/ SendReply(c, "denied")
       /\ UNCHANGED <<slot, mini, used_ul_slots, used_mini_slots>>
    \/ used_mini_slots < MiniCount /\ TakeMinislot(c) /\ SendReply(c, "file")
    \/ SlotAvailable(c) /\ TakeSlot(c) /\ SendReply(c, "file")

LEMMA ChargedAccounts ==
    ASSUME TypeOK, Accounting, NEW c \in Conn, ~Holds(c), Charged(c)
    PROVE  /\ Accounting'
           /\ used_ul_slots' \in Nat /\ used_mini_slots' \in 0..MiniCount
<1>1. /\ used_ul_slots \in Nat /\ used_ul_slots = Cardinality(slot)
      /\ used_mini_slots \in 0..MiniCount /\ Cardinality(mini) <= used_mini_slots
      /\ MiniCount \in Nat
  BY ConstantsAssumption
     DEF ConstantsAssumption, TypeOK, Accounting, SlotAccounting, MinislotsNotUndercounted
<1>2. /\ Cardinality(slot) \in Nat /\ Cardinality(mini) \in Nat
      /\ Cardinality(slot \cup {c}) = Cardinality(slot) + 1
      /\ Cardinality(mini \cup {c}) = Cardinality(mini) + 1
  <2>1. c \notin slot /\ c \notin mini
    BY DEF Holds
  <2>. QED  BY <2>1, CountConn DEF TypeOK
<1>3. CASE UNCHANGED <<slot, mini, used_ul_slots, used_mini_slots>>
  BY <1>1, <1>3 DEF Accounting, SlotAccounting, MinislotsNotUndercounted
<1>4. CASE used_mini_slots < MiniCount /\ TakeMinislot(c)
  <2>1. /\ slot' = slot /\ used_ul_slots' = used_ul_slots
        /\ mini' = mini \cup {c} /\ used_mini_slots' = used_mini_slots + 1
    BY <1>4 DEF TakeMinislot
  <2>2. used_mini_slots' \in 0..MiniCount /\ Cardinality(mini') <= used_mini_slots'
    BY <1>1, <1>2, <1>4, <2>1
  <2>. QED
    BY <1>1, <2>1, <2>2 DEF Accounting, SlotAccounting, MinislotsNotUndercounted
<1>5. CASE TakeSlot(c)
  <2>1. /\ mini' = mini /\ used_mini_slots' = used_mini_slots
        /\ slot' = slot \cup {c} /\ used_ul_slots' = used_ul_slots + 1
    BY <1>5 DEF TakeSlot
  <2>2. used_ul_slots' \in Nat /\ used_ul_slots' = Cardinality(slot')
    BY <1>1, <1>2, <2>1
  <2>. QED
    BY <1>1, <2>1, <2>2 DEF Accounting, SlotAccounting, MinislotsNotUndercounted
<1>. QED  BY <1>3, <1>4, <1>5 DEF Charged

LEMMA CheckUploadInv ==
    ASSUME Inv, NEW c \in Conn, HandleCheckUpload(c)
    PROVE  Inv'
<1>1. TypeOK /\ Accounting /\ ConnInv(c)
  BY DEF Inv, Accounting
<1>2. /\ c \in live /\ toUser[c] = <<>> /\ Pending(c, "CHECK_UPLOAD")
      /\ toMain' \in [Conn -> Seq(Msg)]
      /\ \A d \in Conn \ {c} : toMain'[d] = toMain[d]
      /\ toMain[c] = <<"CHECK_UPLOAD">> /\ toMain'[c] = <<>>
  BY ReceiveConn DEF HandleCheckUpload, Msg
<1>3. Charged(c) /\ UNCHANGED <<live, peer, transferring, my_ul_slots, granted, userVars>>
  BY Zenon DEF HandleCheckUpload, Charged
<1>4. ~Pending(c, "UPLOAD_ENDED")
  BY <1>2 DEF Pending
<1>5. ~Holds(c)
  BY <1>1, <1>2, <1>4 DEF ConnInv, RequestInv
<1>6. ~Idle(c) /\ c \notin open
  <2>1. ~Idle(c)
    BY <1>1, <1>2 DEF ConnInv, ReplyInv
  <2>. QED  BY <1>1, <2>1 DEF ConnInv, ProcessInv, Idle, Running
<1>7. Accounting' /\ used_ul_slots' \in Nat /\ used_mini_slots' \in 0..MiniCount
  BY <1>1, <1>3, <1>5, ChargedAccounts
<1>8. PICK r \in Reply :
         /\ SendReply(c, r)
         /\ \/ r # "file" /\ slot' = slot /\ mini' = mini
            \/ r = "file" /\ slot' = slot /\ mini' = mini \cup {c}
            \/ r = "file" /\ mini' = mini /\ slot' = slot \cup {c}
  BY <1>3 DEF Charged, TakeSlot, TakeMinislot, Reply
<1>9. /\ toUser' \in [Conn -> Seq(Reply)] /\ toUser'[c] = <<r>>
      /\ \A d \in Conn \ {c} : toUser'[d] = toUser[d]
  <2>1. Append(toUser[c], r) \in Seq(Reply) /\ Append(<<>>, r) = <<r>>
    BY <1>1, AppendProperties DEF TypeOK
  <2>. QED  BY <1>1, <1>2, <1>8, <2>1 DEF SendReply, TypeOK
<1>10. TypeOK'
  BY <1>1, <1>2, <1>3, <1>7, <1>8, <1>9 DEF TypeOK, userVars
<1>11. ReplyInv(c)' /\ ProcessInv(c)' /\ PipesInv(c)' /\ RequestInv(c)'
  BY <1>1, <1>2, <1>3, <1>6, <1>9
     DEF userVars, ConnInv, ReplyInv, ProcessInv, PipesInv, RequestInv, OnlyLast,
         Running, Idle, Pending
<1>12. ChargeInv(c)'
  <2>1. r # "file" => <<r>> # <<"file">>
    OBVIOUS
  <2>2. c \notin slot /\ c \notin mini /\ c \notin open' /\ ~Holds(c)
    BY <1>3, <1>5, <1>6 DEF userVars, Holds
  <2>. QED  BY <1>8, <1>9, <2>1, <2>2 DEF ChargeInv, Holds
<1>13. \A d \in Conn \ {c} : SameConn(d)
  BY <1>2, <1>3, <1>8, <1>9 DEF userVars, SameConn
<1>. QED  BY <1>7, <1>10, <1>11, <1>12, <1>13, MainStepInv DEF ConnInv

(* The commands that touch no connection. *)
LEMMA CommandInv ==
    ASSUME Inv,
           \/ \E p \in Peer : GrantSlot(p)
           \/ \E n \in 0..MaxSlots : SetSlots(n)
    PROVE  Inv'
<1>1. /\ UNCHANGED <<live, slot, mini, used_ul_slots, used_mini_slots, toMain, toUser, userVars>>
      /\ UNCHANGED <<peer, transferring>>
      /\ granted' \subseteq Peer /\ my_ul_slots' \in 0..MaxSlots
  BY DEF GrantSlot, SetSlots, Inv, TypeOK
<1>2. TypeOK'
  BY <1>1 DEF Inv, TypeOK, userVars
<1>3. Accounting'
  BY <1>1 DEF Inv, Accounting, SlotAccounting, MinislotsNotUndercounted
<1>4. \A d \in Conn : ConnInv(d)'
  BY <1>1, OtherConn DEF Inv, SameConn, userVars
<1>. QED  BY <1>2, <1>3, <1>4 DEF Inv, Accounting

-----------------------------------------------------------------------------
(* The theorems *)

LEMMA InitInv == Init => Inv
<1>. SUFFICES ASSUME Init PROVE Inv
  OBVIOUS
<1>1. TypeOK
  BY InitType
<1>2. Cardinality({}) = 0
  BY FS_EmptySet
<1>3. SlotAccounting /\ MinislotsNotUndercounted
  BY <1>2 DEF Init, SlotAccounting, MinislotsNotUndercounted
<1>4. ASSUME NEW c \in Conn PROVE ConnInv(c)
  BY DEF Init, ConnInv, ProcessInv, PipesInv, ReplyInv, RequestInv, ChargeInv, OnlyLast,
         Running, Idle, Pending, Holds
<1>. QED  BY <1>1, <1>3, <1>4 DEF Inv

LEMMA NextInv == Inv /\ [Next]_vars => Inv'
<1>. SUFFICES ASSUME Inv, [Next]_vars PROVE Inv'
  OBVIOUS
<1>1. ASSUME NEW c \in Conn, UserStep(c) PROVE Inv'
  BY <1>1, UserStepInv
<1>2. ASSUME NEW c \in Conn, MainStep(c) PROVE Inv'
  <2>1. CASE HandleCheckUpload(c)
    BY <2>1, CheckUploadInv
  <2>2. CASE HandleTransferStart(c)
    BY <2>2, TransferStartInv
  <2>3. CASE HandleUploadEnded(c)
    BY <2>3, UploadEndedInv
  <2>6. CASE HandleUnnamedStart(c)
    BY <2>6, RestartInv DEF HandleUnnamedStart
  <2>4. CASE HandleTerminating(c)
    BY <2>4, DisconnectInv DEF HandleTerminating, Receive
  <2>5. CASE HandleEof(c)
    BY <2>5, DisconnectInv DEF HandleEof
  <2>. QED  BY <1>2, <2>1, <2>2, <2>3, <2>4, <2>5, <2>6 DEF MainStep
<1>3. ASSUME NEW c \in Conn, Cancel(c) PROVE Inv'
  BY <1>3, DisconnectInv DEF Cancel
<1>4. ASSUME NEW c \in Conn, NEW p \in Peer, StartConnection(c, p) PROVE Inv'
  BY <1>4, StartInv
<1>5. CASE UNCHANGED vars
  <2>1. \A d \in Conn : ConnInv(d)'
    BY <1>5, OtherConn DEF vars, SameConn, Inv
  <2>2. TypeOK' /\ Accounting'
    BY <1>5 DEF vars, Inv, TypeOK, Accounting, SlotAccounting, MinislotsNotUndercounted
  <2>. QED  BY <2>1, <2>2 DEF Inv, Accounting
<1>. QED  BY <1>1, <1>2, <1>3, <1>4, <1>5, CommandInv DEF Next

(* The invariant of both sides of every connection holds in every state,  *)
(* for any number of connections, users, slots and minislots.             *)
THEOREM InvHolds == Spec => []Inv
BY InitInv, NextInv, PTL DEF Spec

(* Every variable keeps its type. *)
THEOREM TypesHold == Spec => []TypeOK
<1>1. Inv => TypeOK
  BY DEF Inv
<1>. QED  BY <1>1, InvHolds, PTL

(* used_ul_slots is the number of connections that occupy a slot, and     *)
(* used_mini_slots never falls below the number that occupy a minislot:   *)
(* no order of requests, ends, crashes and cancels leaks a slot or frees  *)
(* one twice (main.c 296-330, 461-503, 694-745).                          *)
THEOREM SlotsAreCounted == Spec => [](SlotAccounting /\ MinislotsNotUndercounted)
<1>1. Inv => SlotAccounting /\ MinislotsNotUndercounted
  BY DEF Inv
<1>. QED  BY <1>1, InvHolds, PTL

(* What a user process has open is charged to its connection, once, and   *)
(* what is charged has a reason (user.c 540-690, main.c 694-745).         *)
THEOREM ChargesMatchFiles ==
    Spec => [](OneChargePerUpload /\ OpenFileIsCharged /\ SlotIsJustified)
<1>1. Inv => OneChargePerUpload /\ OpenFileIsCharged /\ SlotIsJustified
  <2>. SUFFICES ASSUME Inv PROVE OneChargePerUpload /\ OpenFileIsCharged /\ SlotIsJustified
    OBVIOUS
  <2>1. OneChargePerUpload
    BY DEF OneChargePerUpload, Inv, TypeOK, ConnInv, ChargeInv
  <2>2. OpenFileIsCharged
    BY DEF OpenFileIsCharged, Inv, TypeOK, ConnInv, ChargeInv
  <2>3. SlotIsJustified
    BY DEF SlotIsJustified, Inv, TypeOK, ConnInv, ChargeInv
  <2>. QED  BY <2>1, <2>2, <2>3
<1>. QED  BY <1>1, InvHolds, PTL

(* The main process writes to a user process only what that process waits *)
(* for (microdc.h 337).                                                   *)
THEOREM RepliesAnswerRequests == Spec => []ReplyOnlyOnRequest
<1>1. Inv => ReplyOnlyOnRequest
  <2>. SUFFICES ASSUME Inv, NEW c \in live
                PROVE  /\ Len(toUser[c]) <= 1
                       /\ Idle(c) => toUser[c] = <<>>
                       /\ Pending(c, "CHECK_UPLOAD") => toUser[c] = <<>>
    BY DEF ReplyOnlyOnRequest
  <2>1. ReplyInv(c)
    BY DEF Inv, TypeOK, ConnInv
  <2>2. Len(toUser[c]) <= 1
    <3>1. CASE toUser[c] = <<>>
      BY <3>1
    <3>2. ASSUME NEW r, toUser[c] = <<r>> PROVE Len(toUser[c]) <= 1
      BY <3>2
    <3>. QED  BY <2>1, <3>1, <3>2 DEF ReplyInv
  <2>3. Pending(c, "CHECK_UPLOAD") => toUser[c] = <<>>
    BY <2>1 DEF ReplyInv, Pending
  <2>. QED  BY <2>1, <2>2, <2>3 DEF ReplyInv
<1>. QED  BY <1>1, InvHolds, PTL

-----------------------------------------------------------------------------
(* The slots implement the pool of SlotPool. *)

(* Each step of the client leaves the holders alone, gives one slot back  *)
(* or takes one that is free or was granted.                              *)
LEMMA PoolStep == Inv /\ [Next]_vars => [Pool!Next]_slot
<1>. SUFFICES ASSUME Inv, [Next]_vars PROVE [Pool!Next]_slot
  OBVIOUS
<1>1. \A c \in Conn : Pool!Release(c) => Pool!Next
  BY DEF Pool!Next
<1>2. ASSUME NEW c \in Conn, slot' = slot \ {c} PROVE [Pool!Next]_slot
  BY <1>1, <1>2 DEF Pool!Release
<1>3. ASSUME NEW c \in Conn, HandleCheckUpload(c) PROVE [Pool!Next]_slot
  <2>1. (SlotAvailable(c) /\ TakeSlot(c)) \/ UNCHANGED slot
    BY <1>3, Zenon DEF HandleCheckUpload, TakeMinislot
  <2>2. CASE SlotAvailable(c) /\ TakeSlot(c)
    <3>1. toMain[c] = <<"CHECK_UPLOAD">> /\ Pending(c, "CHECK_UPLOAD") /\ c \in live
      BY <1>3, ReceiveConn DEF HandleCheckUpload, Msg
    <3>2. c \notin slot
      <4>1. ~Pending(c, "UPLOAD_ENDED")
        BY <3>1 DEF Pending
      <4>. QED  BY <3>1, <4>1, Zenon DEF Inv, ConnInv, RequestInv, Holds
    <3>3. Cardinality(slot) < my_ul_slots \/ c \in {d \in live : peer[d] \in granted}
      BY <2>2, <3>1 DEF SlotAvailable, Inv, SlotAccounting
    <3>4. Pool!Cardinality(slot) = Cardinality(slot)
      BY DEF Pool!Cardinality, Cardinality
    <3>5. Pool!Acquire(c)
      BY <2>2, <3>2, <3>3, <3>4, Zenon DEF Pool!Acquire, TakeSlot
    <3>. QED  BY <3>5 DEF Pool!Next
  <2>. QED  BY <2>1, <2>2
<1>4. ASSUME NEW c \in Conn, MainStep(c) \/ Cancel(c) PROVE [Pool!Next]_slot
  <2>1. HandleCheckUpload(c) \/ slot' = slot \/ slot' = slot \ {c} \/ slot' = {}
    BY <1>4 DEF MainStep, Cancel, HandleTransferStart, HandleUnnamedStart, RestartMain,
                HandleUploadEnded, HandleTerminating, HandleEof, UserDisconnect,
                HandleEndedUpload
  <2>2. CASE slot' = {}
    BY <2>2 DEF Pool!Next, Pool!Restart
  <2>. QED  BY <1>2, <1>3, <2>1, <2>2
<1>5. ASSUME NEW c \in Conn, UserStep(c) PROVE slot' = slot
  BY <1>5 DEF UserStep, ReceiveGet, ReceiveGetBlock, ReceiveReply, ReceiveSend, FinishUpload,
              FailUpload, Terminate, Silence, ReceiveIgnored, Alarm, Crash,
              NoticeDisconnect, mainVars
<1>6. CASE \E c \in Conn, p \in Peer : StartConnection(c, p)
  BY <1>6 DEF StartConnection
<1>7. CASE \/ \E p \in Peer : GrantSlot(p)
           \/ \E n \in 0..MaxSlots : SetSlots(n)
  BY <1>7 DEF GrantSlot, SetSlots
<1>8. CASE UNCHANGED vars
  BY <1>8 DEF vars
<1>. QED  BY <1>4, <1>5, <1>6, <1>7, <1>8 DEF Next

(* The slots of the client are a pool: whatever the processes, the users  *)
(* and the cancel command do, a slot is taken only while one is free or   *)
(* for a user who was granted one, by a connection without a slot         *)
(* (main.c 694-736), and given back only by its holder.                   *)
THEOREM SlotsImplementPool == Spec => SlotsArePool
<1>1. Init => Pool!Init
  BY DEF Init, Pool!Init
<1>. QED  BY <1>1, InvHolds, PoolStep, PTL DEF Spec, SlotsArePool, Pool!Spec
=============================================================================
