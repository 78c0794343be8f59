------------------------- MODULE PeerProtocolProofs -------------------------
(***************************************************************************)
(* The exchange of two user processes is sound for every number of files,  *)
(* size, block and random number: what each side reads is what it expects, *)
(* the directions differ, and the two sides do not wait for each other.    *)
(***************************************************************************)
EXTENDS PeerProtocol, SequenceTheorems, TLAPS

(* What a process sends first: in the handshake and, when it receives, in  *)
(* its first request.                                                      *)
Script == <<"MyNick", "Lock", "Supports", "Direction", "Key", "Get">>

Shaking == {"CONNECT", "MYNICK", "LOCK", "SUPPORTS", "DIRECTION", "KEY"}
Sending == {"GET", "SEND_GET", "DATA_SEND"}

(* How much of the script process x has read, and written if connected is  *)
(* whether it is the one that connected.                                   *)
Read(x) ==
    CASE x.state \in {"CONNECT", "MYNICK"} -> 0
      [] x.state = "LOCK" -> 1
      [] x.state = "SUPPORTS" -> 2
      [] x.state = "DIRECTION" -> 3
      [] x.state = "KEY" -> 4
      [] OTHER -> 5
Sent(x, connected) ==
    CASE x.state = "CONNECT" -> 0
      [] x.state = "MYNICK" -> IF connected THEN 2 ELSE 0
      [] x.state = "LOCK" -> 2
      [] x.state \in {"SUPPORTS", "DIRECTION", "KEY", "GET"} -> 5
      [] OTHER -> 6

Steps == Shaking \cup {"GET", "FILE_LENGTH"}

(* Process x follows the script and y has not read s of it.                *)
Follows(x, connected, y, s) ==
    /\ x.state \in Steps
    /\ Len(s) = Sent(x, connected) - Read(y)
    /\ \A i \in 1..Len(s) :
           /\ s[i].type = Script[Read(y) + i]
           /\ s[i].type = "Get" => s[i].n = x.file_pos + 1

(* What the sender s will send is what the receiver r waits for.           *)
Fits(r, s, longer) == ~longer => r.data_size = s.final_pos - r.file_pos

Asked(r, m) == m.type = "Get" /\ m.n = r.file_pos + 1

(* The receiver r waits for an answer: up is on the way to the sender s,   *)
(* down is on the way back.                                                *)
Waits(r, s, up, down, longer) ==
    /\ r.state = "FILE_LENGTH" /\ s.state \in {"GET", "SEND_GET"}
    /\ \/ /\ Len(up) = 1 /\ Asked(r, up[1]) /\ Len(down) = 0
       \/ /\ Len(up) = 2 /\ up[1].type = "Send" /\ Asked(r, up[2]) /\ Len(down) = 0
          /\ s.state = "SEND_GET" /\ s.open /\ (~longer => s.final_pos = s.file_pos)
       \/ /\ Len(up) = 0 /\ Len(down) = 1 /\ down[1].type = "FileLength"
          /\ s.state = "SEND_GET" /\ s.open
          /\ s.file_pos = r.file_pos /\ s.final_pos = down[1].n
       \/ /\ Len(up) = 0 /\ Len(down) = 1 /\ down[1].type \in {"MaxedOut", "Error"}

(* The messages of s are the file from r's position on.                    *)
Contents(r, s) ==
    \A i \in 1..Len(s) : /\ s[i].type = "Data" /\ s[i].n = r.file_pos + i - 1
                         /\ s[i].n < MaxSize

(* The receiver r waits for data.                                          *)
Receives(r, s, up, down, longer) ==
    /\ r.state = "DATA_RECV" /\ s.final_pos <= MaxSize /\ Fits(r, s, longer)
    /\ \/ /\ Len(up) = 1 /\ up[1].type = "Send" /\ Len(down) = 0
          /\ s.state = "SEND_GET" /\ s.open /\ s.file_pos = r.file_pos
       \/ /\ Len(up) = 0 /\ s.state \in {"DATA_SEND", "GET"}
          /\ Contents(r, down) /\ s.file_pos = r.file_pos + Len(down)
          /\ s.state = "GET" => s.file_pos = s.final_pos

(* The receiver r has all that it wanted of a longer file and the rest of  *)
(* it comes as well.                                                       *)
Flooded(r, s, up, down, longer) ==
    /\ longer /\ r.state = "FILE_LENGTH" /\ s.state \in Sending
    /\ Len(up) = 0 \/ (Len(up) = 1 /\ up[1].type = "Get")
    /\ \/ Len(down) > 0 /\ down[1].type = "Data"
       \/ Len(down) = 0 /\ Len(up) = 1 /\ s.state = "DATA_SEND"

Exchange(r, s, up, down, longer) ==
    \/ Waits(r, s, up, down, longer)
    \/ Receives(r, s, up, down, longer)
    \/ Flooded(r, s, up, down, longer)

(* Two processes that run.                                                 *)
Handshake(x, cx, sx, y, cy, sy) == Follows(x, cx, y, sx) /\ Follows(y, cy, x, sy)
Linked(x, cx, sx, y, cy, sy, longer) ==
    \/ Handshake(x, cx, sx, y, cy, sy)
    \/ Exchange(x, y, sx, sy, longer)
    \/ Exchange(y, x, sy, sx, longer)

(* What y can still read when the other process has ended: s is left of    *)
(* what that one wrote, and out of what y did.                             *)
Legal(y, s, out, longer) ==
    /\ y.state \in Shaking =>
           Len(s) <= 6 - Read(y) /\ \A i \in 1..Len(s) : s[i].type = Script[Read(y) + i]
    /\ y.state \in Sending =>
           \/ Len(s) = 0
           \/ Len(s) = 1 /\ s[1].type = "Get"
           \/ /\ Len(s) = 1 \/ (Len(s) = 2 /\ s[2].type = "Get")
              /\ s[1].type = "Send" /\ y.state = "SEND_GET" /\ y.open /\ Len(out) = 0
    /\ y.state = "FILE_LENGTH" =>
           \/ Len(s) = 0
           \/ s[1].type = "Data" /\ longer
           \/ s[1].type # "Data" /\ Len(s) = 1
    /\ y.state = "DATA_RECV" => Contents(y, s) /\ (longer \/ Len(s) <= y.data_size)

-----------------------------------------------------------------------------
(* The inductive invariant *)

(* What p has sent and the other one has not read.                         *)
Stream(p) == net[Other(p)] \o sendq[p]

Pair(p, q) ==
    /\ Running(p) /\ Running(q) =>
           Linked(proc[p], p = Connector, Stream(p), proc[q], q = Connector, Stream(q), grown)
    /\ Running(p) /\ ~Running(q) => Legal(proc[p], Stream(q), sendq[p], grown)

(* A running process x with its send queue.                                *)
Sound(x, out) ==
    /\ out # <<>> => x.writable
    /\ x.state = "CONNECT" => x.writable /\ out = <<>>
    /\ x.state = "DATA_RECV" <=> x.data_size > 0
    /\ x.state = "DATA_RECV" => x.file_pos + x.data_size \in {x.file_size, x.file_size + Width}
    /\ x.state \in {"CONNECT", "MYNICK", "LOCK", "SUPPORTS", "DIRECTION"} <=> x.dir = "unknown"
    /\ x.state \in Sending => x.dir = "send"
    /\ x.state \in {"FILE_LENGTH", "DATA_RECV"} => x.dir = "receive"
    /\ x.open => /\ x.dir = "send" /\ x.file_size = x.final_pos
                 /\ x.file_pos <= x.final_pos /\ x.final_pos <= MaxSize
    /\ x.state = "DATA_SEND" => /\ x.open /\ x.writable /\ x.final_pos > 0
                                /\ out = <<>> => x.file_pos < x.final_pos

(* How often main was asked whether we want to download.                   *)
Asking(x, given) ==
    /\ x.state \in {"CONNECT", "MYNICK", "LOCK"} => given = <<>>
    /\ x.state \in {"SUPPORTS", "DIRECTION"} => Len(given) = 1
    /\ Len(given) <= 2

Local(p) ==
    /\ Running(p) => Sound(proc[p], sendq[p])
    /\ ~Running(p) => sendq[p] = <<>> /\ net[p] = <<>>
    /\ Asking(proc[p], answers[p])

(* A $Direction says what main said first, and the number that was drawn;  *)
(* a $Get asks for the bytes from the first on.                            *)
Says(m, p) ==
    /\ m.type = "Direction" =>
           answers[p] # <<>> /\ m.download = answers[p][1] /\ m.rand = proc[p].rand
    /\ m.type = "Get" => m.n > 0
Announced(p) == \A i \in 1..Len(Stream(p)) : Says(Stream(p)[i], p)

(* The direction that p has chosen follows from what both said.            *)
Chosen(p, q) ==
    proc[p].dir # "unknown" =>
        /\ Len(answers[p]) = 2 /\ answers[q] # <<>> /\ (answers[q][1] \/ answers[p][2])
        /\ proc[p].dir = Direction(answers[q][1], answers[p][2], proc[q].rand, proc[p].rand)

Inv ==
    /\ TypeOK
    /\ DataIsData
    /\ \A p \in Peer : Local(p) /\ Announced(p) /\ Chosen(p, Other(p)) /\ Pair(p, Other(p))

-----------------------------------------------------------------------------
(* The two processes, sequences and remainders *)

LEMMA Others ==
    ASSUME NEW p \in Peer
    PROVE  /\ Other(p) \in Peer /\ Other(p) # p /\ Other(Other(p)) = p
           /\ \A q \in Peer : q = p \/ q = Other(p)
  <1>1. PICK c, d \in Peer : c # d /\ Peer = {c, d}
    BY PeerAssumption
  <1>2. \A q \in Peer : Other(q) \in Peer /\ Other(q) # q
    BY <1>1 DEF Other
  <1> QED BY <1>1, <1>2

(* Either process, but not both, is the one that connected.                *)
LEMMA OneConnects ==
    ASSUME NEW p \in Peer
    PROVE  (p = Connector) <=> ~(Other(p) = Connector)
  BY Others, PeerAssumption

(* Queues of messages appended in either order are the same.               *)
LEMMA Associative ==
    \A s, t, u \in Seq(Msg) : (s \o t) \o u = s \o (t \o u)
  BY ConcatAssociative

(* The first message of what one process wrote and the other has not read. *)
LEMMA ConcatHead ==
    ASSUME NEW S, NEW s \in Seq(S), NEW t \in Seq(S), s # <<>>
    PROVE  /\ Tail(s) \in Seq(S) /\ Tail(s) \o t \in Seq(S) /\ s \o t \in Seq(S)
           /\ Len(s \o t) > 0 /\ Head(s) = (s \o t)[1]
           /\ Len(Tail(s) \o t) = Len(s \o t) - 1
           /\ \A i \in 1..Len(Tail(s) \o t) : (Tail(s) \o t)[i] = (s \o t)[i + 1]
  <1>1. /\ Tail(s) \in Seq(S) /\ Len(Tail(s)) = Len(s) - 1
        /\ \A i \in 1..Len(Tail(s)) : Tail(s)[i] = s[i + 1]
    BY HeadTailProperties
  <1>2. Len(s) \in Nat \ {0} /\ Len(t) \in Nat /\ Head(s) = s[1]
    BY EmptySeq, LenProperties
  <1>3. /\ s \o t \in Seq(S) /\ Len(s \o t) = Len(s) + Len(t)
        /\ \A i \in 1..Len(s) + Len(t) :
               (s \o t)[i] = IF i <= Len(s) THEN s[i] ELSE t[i - Len(s)]
    BY ConcatProperties
  <1> DEFINE r == Tail(s)
  <1> HIDE DEF r
  <1>4. r \in Seq(S)
    BY <1>1 DEF r
  <1>5. /\ r \o t \in Seq(S) /\ Len(r \o t) = Len(r) + Len(t)
        /\ \A i \in 1..Len(r) + Len(t) :
               (r \o t)[i] = IF i <= Len(r) THEN r[i] ELSE t[i - Len(r)]
    BY <1>4, ConcatProperties
  <1>6. ASSUME NEW i \in 1..Len(r \o t)
        PROVE  (r \o t)[i] = (s \o t)[i + 1]
    <2>1. Len(r) = Len(s) - 1 /\ i + 1 \in 1..Len(s) + Len(t) /\ i \in Nat
      BY <1>1, <1>2, <1>5 DEF r
    <2>2. CASE i <= Len(r)
      <3>1. r[i] = s[i + 1]
        BY <1>1, <1>2, <2>1, <2>2 DEF r
      <3> QED BY <3>1, <2>1, <2>2, <1>2, <1>3, <1>5
    <2>3. CASE ~(i <= Len(r))
      <3>1. i - Len(r) = (i + 1) - Len(s)
        BY <2>1, <1>2
      <3> QED BY <3>1, <2>1, <2>3, <1>2, <1>3, <1>5
    <2> QED BY <2>2, <2>3
  <1> QED BY <1>1, <1>2, <1>3, <1>5, <1>6 DEF r

(* What is put behind a stream.                                            *)
LEMMA ConcatLast ==
    ASSUME NEW S, NEW s \in Seq(S), NEW t \in Seq(S)
    PROVE  /\ s \o t \in Seq(S) /\ Len(s \o t) = Len(s) + Len(t)
           /\ Len(s) \in Nat /\ Len(t) \in Nat
           /\ \A i \in 1..Len(s) : (s \o t)[i] = s[i]
           /\ \A i \in 1..Len(t) : (s \o t)[Len(s) + i] = t[i]
           /\ \A i \in 1..Len(s \o t) :
                  \/ i \in 1..Len(s)
                  \/ i - Len(s) \in 1..Len(t) /\ i = Len(s) + (i - Len(s))
  <1>1. Len(s) \in Nat /\ Len(t) \in Nat
    BY LenProperties
  <1>2. /\ s \o t \in Seq(S) /\ Len(s \o t) = Len(s) + Len(t)
        /\ \A i \in 1..Len(s) + Len(t) :
               (s \o t)[i] = IF i <= Len(s) THEN s[i] ELSE t[i - Len(s)]
    BY ConcatProperties
  <1>3. ASSUME NEW i \in 1..Len(t)
        PROVE  (s \o t)[Len(s) + i] = t[i]
    <2>1. Len(s) + i \in 1..Len(s) + Len(t) /\ ~(Len(s) + i <= Len(s)) /\ (Len(s) + i) - Len(s) = i
      BY <1>1
    <2> QED BY <2>1, <1>2
  <1>4. \A i \in 1..Len(s) : (s \o t)[i] = s[i]
    BY <1>1, <1>2
  <1>5. \A i \in 1..Len(s \o t) :
            \/ i \in 1..Len(s)
            \/ i - Len(s) \in 1..Len(t) /\ i = Len(s) + (i - Len(s))
    BY <1>1, <1>2
  <1> QED BY <1>1, <1>2, <1>3, <1>4, <1>5

(* Where the queue is cut makes no difference to the stream.               *)
Cut(n, out, k, first, rest) ==
    /\ rest \in Seq(Msg) /\ n \o first \in Seq(Msg)
    /\ Len(rest) = Len(out) - k
    /\ \A i \in 1..Len(rest) : i + k \in 1..Len(out) /\ rest[i] = out[i + k]
    /\ (n \o first) \o rest = n \o out

LEMMA Parted ==
    ASSUME NEW n \in Seq(Msg), NEW out \in Seq(Msg), NEW k \in 0..Len(out)
    PROVE  Cut(n, out, k, SubSeq(out, 1, k), SubSeq(out, k + 1, Len(out)))
  <1> DEFINE first == SubSeq(out, 1, k)
             rest == SubSeq(out, k + 1, Len(out))
  <1>1. Len(out) \in Nat /\ k \in Nat /\ k <= Len(out)
    BY LenProperties
  <1>2. \A i \in 1..Len(out) : out[i] \in Msg
    BY ElementOfSeq
  <1>3. first \in Seq(Msg) /\ Len(first) = k
    <2>1. \A i \in 1..k : out[i] \in Msg
      BY <1>1, <1>2
    <2> QED BY <1>1, <2>1, SubSeqProperties
  <1>4. /\ rest \in Seq(Msg) /\ Len(rest) = Len(out) - k
        /\ \A i \in 1..Len(out) - k : rest[i] = out[k + 1 + i - 1]
    <2>1. \A i \in k + 1..Len(out) : out[i] \in Msg
      BY <1>1, <1>2
    <2>2. k + 1 \in Int /\ Len(out) \in Int
      BY <1>1
    <2>3. /\ rest \in Seq(Msg)
          /\ Len(rest) = IF k + 1 <= Len(out) THEN Len(out) - (k + 1) + 1 ELSE 0
          /\ \A i \in 1..Len(out) - (k + 1) + 1 : rest[i] = out[k + 1 + i - 1]
      BY <2>1, <2>2, SubSeqProperties
    <2> QED BY <2>3, <1>1
  <1>5. first \o rest = out
    <2>1. 1 \in 1..Len(out) + 1 /\ k \in 1 - 1..Len(out) /\ Len(out) \in k..Len(out)
      BY <1>1
    <2>2. first \o rest = SubSeq(out, 1, Len(out))
      BY <2>1, ConcatAdjacentSubSeq
    <2> QED BY <2>2, SubSeqFull
  <1>6. \A i \in 1..Len(rest) : i + k \in 1..Len(out) /\ rest[i] = out[i + k]
    <2> SUFFICES ASSUME NEW i \in 1..Len(rest)
                 PROVE  i + k \in 1..Len(out) /\ rest[i] = out[i + k]
      OBVIOUS
    <2>1. i \in 1..Len(out) - k /\ i + k = k + 1 + i - 1 /\ i + k \in 1..Len(out)
      BY <1>1, <1>4
    <2> QED BY <2>1, <1>4
  <1> HIDE DEF first, rest
  <1>7. n \o first \in Seq(Msg) /\ (n \o first) \o rest = n \o (first \o rest)
    <2>1. first \in Seq(Msg) /\ rest \in Seq(Msg)
      BY <1>3, <1>4
    <2>2. n \o first \in Seq(Msg)
      BY <2>1, ConcatProperties
    <2>3. (n \o first) \o rest = n \o (first \o rest)
      BY <2>1, Associative, Zenon
    <2> QED BY <2>2, <2>3
  <1>8. Cut(n, out, k, first, rest)
    BY <1>3, <1>4, <1>5, <1>6, <1>7 DEF Cut
  <1> QED BY <1>8 DEF first, rest

(* Differences of sizes, modulo Width.                                     *)
LEMMA Wrapped ==
    ASSUME NEW m \in 0..Width - 1, NEW n \in 0..Width - 1
    PROVE  (m - n) % Width = IF n <= m THEN m - n ELSE m - n + Width
  <1>1. Width \in Nat /\ Width > 0
    BY PeerAssumption
  <1> DEFINE x == m - n
  <1>2. x \in Int /\ x < Width /\ 0 - Width < x
    BY <1>1
  <1> QED BY <1>1, <1>2

-----------------------------------------------------------------------------
(* The handshake *)

LEMMA ScriptIs ==
    /\ Script[1] = "MyNick" /\ Script[2] = "Lock" /\ Script[3] = "Supports"
    /\ Script[4] = "Direction" /\ Script[5] = "Key" /\ Script[6] = "Get"
  BY DEF Script

LEMMA SentRead ==
    ASSUME NEW x, NEW c
    PROVE  /\ Read(x) \in 0..5 /\ Sent(x, c) \in {0, 2, 5, 6}
           /\ x.state \in Shaking => Sent(x, c) <= 5 /\ Read(x) <= 4
           /\ x.state \notin Shaking => Read(x) = 5
           /\ x.state = "CONNECT" => Sent(x, c) = 0 /\ Read(x) = 0
           /\ x.state = "MYNICK" => Sent(x, c) = (IF c THEN 2 ELSE 0) /\ Read(x) = 0
           /\ x.state = "LOCK" => Sent(x, c) = 2 /\ Read(x) = 1
           /\ x.state = "SUPPORTS" => Sent(x, c) = 5 /\ Read(x) = 2
           /\ x.state = "DIRECTION" => Sent(x, c) = 5 /\ Read(x) = 3
           /\ x.state = "KEY" => Sent(x, c) = 5 /\ Read(x) = 4
           /\ x.state = "GET" => Sent(x, c) = 5
           /\ x.state = "FILE_LENGTH" => Sent(x, c) = 6
  BY DEF Read, Sent, Shaking

(* Process x becomes x2 and writes m as the script has it.                 *)
LEMMA FollowsOn ==
    ASSUME NEW x, NEW x2, NEW y, NEW c, NEW s \in Seq(Msg), NEW m \in Seq(Msg),
           Follows(x, c, y, s), x.state \in Shaking, x2.state \in Steps,
           Sent(x2, c) = Sent(x, c) + Len(m),
           \A j \in 1..Len(m) : /\ m[j].type = Script[Sent(x, c) + j]
                                /\ m[j].type = "Get" => m[j].n = x2.file_pos + 1
    PROVE  Follows(x2, c, y, s \o m)
  <1>1. /\ Len(s \o m) = Len(s) + Len(m) /\ Len(s) \in Nat /\ Len(m) \in Nat
        /\ \A i \in 1..Len(s) : (s \o m)[i] = s[i]
        /\ \A i \in 1..Len(m) : (s \o m)[Len(s) + i] = m[i]
        /\ \A i \in 1..Len(s \o m) :
               \/ i \in 1..Len(s)
               \/ i - Len(s) \in 1..Len(m) /\ i = Len(s) + (i - Len(s))
    BY ConcatLast
  <1>2. Len(s) = Sent(x, c) - Read(y) /\ Read(y) \in 0..5 /\ Sent(x, c) \in 0..5
    <2>1. Len(s) = Sent(x, c) - Read(y)
      BY DEF Follows
    <2>2. Read(y) \in 0..5 /\ Sent(x, c) \in {0, 2, 5, 6} /\ Sent(x, c) <= 5
      BY SentRead
    <2>3. \A n \in {0, 2, 5, 6} : n <= 5 => n \in 0..5
      OBVIOUS
    <2>4. Sent(x, c) \in 0..5
      BY <2>2, <2>3, Zenon
    <2> QED BY <2>1, <2>2, <2>4
  <1>3. Len(s \o m) = Sent(x2, c) - Read(y)
    <2>1. \A k, l, t, r \in Int : k = t - r => k + l = (t + l) - r
      OBVIOUS
    <2>2. Len(s) \in Int /\ Len(m) \in Int /\ Sent(x, c) \in Int /\ Read(y) \in Int
      BY <1>1, <1>2
    <2>3. Len(s) + Len(m) = (Sent(x, c) + Len(m)) - Read(y)
      BY <1>2, <2>1, <2>2
    <2>4. Sent(x2, c) = Sent(x, c) + Len(m)
      OBVIOUS
    <2>5. Len(s \o m) = Len(s) + Len(m)
      BY <1>1
    <2> QED BY <2>3, <2>4, <2>5
  <1>4. ASSUME NEW i \in 1..Len(s \o m)
        PROVE  /\ (s \o m)[i].type = Script[Read(y) + i]
               /\ (s \o m)[i].type = "Get" => (s \o m)[i].n = x2.file_pos + 1
    <2>1. CASE i \in 1..Len(s)
      <3>1. s[i].type = Script[Read(y) + i] /\ (s \o m)[i] = s[i]
        BY <2>1, <1>1 DEF Follows
      <3>2. Read(y) + i \in 1..5
        <4>1. i \in Nat /\ 1 <= i /\ i <= Len(s) /\ Len(s) \in Nat
          BY <2>1, <1>1
        <4>2. \A r, t, l, j \in Int : l = t - r /\ 0 <= r /\ t <= 5 /\ 1 <= j /\ j <= l => r + j \in 1..5
          OBVIOUS
        <4>3. Read(y) \in Int /\ 0 <= Read(y) /\ Sent(x, c) \in Int /\ Sent(x, c) <= 5
          BY <1>2
        <4>4. i \in Int /\ Len(s) \in Int
          BY <4>1
        <4> QED BY <4>1, <4>2, <4>3, <4>4, <1>2, Zenon
      <3>3. Script[Read(y) + i] # "Get"
        BY <3>2, ScriptIs
      <3> QED BY <3>1, <3>3
    <2>2. CASE i - Len(s) \in 1..Len(m) /\ i = Len(s) + (i - Len(s))
      <3>1. (s \o m)[i] = m[i - Len(s)]
        BY <2>2, <1>1
      <3>2. Read(y) + i = Sent(x, c) + (i - Len(s))
        <4>1. i \in Int /\ Len(s) \in Nat
          BY <1>1
        <4>2. \A r, t, k, l \in Int : l = t - r => r + k = t + (k - l)
          OBVIOUS
        <4>3. Read(y) \in Int /\ Sent(x, c) \in Int /\ Len(s) \in Int
          BY <1>1, <1>2
        <4> QED BY <4>1, <4>2, <4>3, <1>2
      <3> QED BY <2>2, <3>1, <3>2
    <2> QED BY <2>1, <2>2, <1>1
  <1> QED BY <1>3, <1>4 DEF Follows

(* Process y becomes y2 and has read the first message.                    *)
LEMMA FollowsRead ==
    ASSUME NEW x, NEW y, NEW y2, NEW c, NEW s \in Seq(Msg), NEW t \in Seq(Msg),
           Follows(x, c, y, s), Read(y2) = Read(y) + 1,
           Len(s) > 0, Len(t) = Len(s) - 1, \A i \in 1..Len(t) : t[i] = s[i + 1]
    PROVE  Follows(x, c, y2, t)
  <1>1. Len(s) \in Nat /\ Len(s) = Sent(x, c) - Read(y) /\ Read(y) \in 0..5 /\ Sent(x, c) \in 0..6
    <2>1. Len(s) = Sent(x, c) - Read(y) /\ Len(s) \in Nat
      BY LenProperties DEF Follows
    <2>2. Read(y) \in 0..5 /\ Sent(x, c) \in {0, 2, 5, 6}
      BY SentRead
    <2> QED BY <2>1, <2>2
  <1>2. Len(t) = Sent(x, c) - Read(y2)
    BY <1>1
  <1>3. ASSUME NEW i \in 1..Len(t)
        PROVE  t[i].type = Script[Read(y2) + i] /\ (t[i].type = "Get" => t[i].n = x.file_pos + 1)
    <2>1. i + 1 \in 1..Len(s) /\ t[i] = s[i + 1] /\ Read(y2) + i = Read(y) + (i + 1)
      BY <1>1
    <2> QED BY <2>1 DEF Follows
  <1> QED BY <1>2, <1>3 DEF Follows

(* Nothing else changes what x has to follow.                              *)
LEMMA FollowsSame ==
    ASSUME NEW x, NEW x2, NEW y, NEW y2, NEW c, NEW s, Follows(x, c, y, s),
           x2.state = x.state, x2.file_pos = x.file_pos, Read(y2) = Read(y)
    PROVE  Follows(x2, c, y2, s)
  <1>1. Sent(x2, c) = Sent(x, c)
    BY DEF Sent
  <1> QED BY <1>1 DEF Follows

(* The first message is the next one of the script.                        *)
LEMMA FollowsHead ==
    ASSUME NEW x, NEW y, NEW c, NEW s \in Seq(Msg), Follows(x, c, y, s), Len(s) > 0
    PROVE  s[1].type = Script[Read(y) + 1] /\ (s[1].type = "Get" => Asked(x, s[1]))
  BY DEF Follows, Asked

LEMMA Symmetric ==
    ASSUME NEW x, NEW cx, NEW sx, NEW y, NEW cy, NEW sy, NEW longer,
           Linked(x, cx, sx, y, cy, sy, longer)
    PROVE  Linked(y, cy, sy, x, cx, sx, longer)
  BY DEF Linked, Handshake

(* In the handshake, only the handshake links the two.                     *)
LEMMA StillShaking ==
    ASSUME NEW x, NEW cx, NEW sx, NEW y, NEW cy, NEW sy, NEW longer,
           Linked(x, cx, sx, y, cy, sy, longer), x.state \in Shaking
    PROVE  Follows(x, cx, y, sx) /\ Follows(y, cy, x, sy)
  BY DEF Linked, Handshake, Exchange, Waits, Receives, Flooded, Shaking, Sending

-----------------------------------------------------------------------------
(* The exchange *)

(* An answer is all that is put behind a stream.                           *)
LEMMA OneMore ==
    ASSUME NEW s \in Seq(Msg), NEW m \in Msg
    PROVE  /\ s \o <<m>> \in Seq(Msg) /\ Len(s) \in Nat /\ Len(s \o <<m>>) = Len(s) + 1
           /\ \A i \in 1..Len(s) : (s \o <<m>>)[i] = s[i]
           /\ (s \o <<m>>)[Len(s) + 1] = m
  <1>1. <<m>> \in Seq(Msg) /\ Len(<<m>>) = 1 /\ <<m>>[1] = m
    OBVIOUS
  <1> DEFINE t == <<m>>
  <1> HIDE DEF t
  <1>2. t \in Seq(Msg) /\ Len(t) = 1 /\ t[1] = m
    BY <1>1 DEF t
  <1>3. /\ s \o t \in Seq(Msg) /\ Len(s \o t) = Len(s) + Len(t) /\ Len(s) \in Nat
        /\ \A i \in 1..Len(s) : (s \o t)[i] = s[i]
        /\ \A i \in 1..Len(t) : (s \o t)[Len(s) + i] = t[i]
    BY <1>2, ConcatLast
  <1> QED BY <1>2, <1>3 DEF t

(* The receiver x has asked, and nothing but that is on the way.           *)
LEMMA NowWaits ==
    ASSUME NEW x, NEW y, NEW cx, NEW cy, NEW sx, NEW sy, NEW longer,
           x.state = "FILE_LENGTH", y.state \in {"GET", "SEND_GET"},
           Len(sx) = 1, Asked(x, sx[1]), Len(sy) = 0
    PROVE  Linked(x, cx, sx, y, cy, sy, longer)
  BY DEF Linked, Exchange, Waits

(* Who reads a $Get reads all that the other side wrote.                   *)
LEMMA GetComes ==
    ASSUME NEW x, NEW y, NEW cx, NEW cy, NEW sx \in Seq(Msg), NEW sy \in Seq(Msg), NEW longer,
           Linked(x, cx, sx, y, cy, sy, longer), x.state \in {"GET", "SEND_GET"},
           Len(sy) > 0, sy[1].type = "Get"
    PROVE  /\ y.state = "FILE_LENGTH" /\ Len(sy) = 1
           /\ \/ Asked(y, sy[1]) /\ Len(sx) = 0
              \/ longer /\ Len(sx) > 0 /\ sx[1].type = "Data"
  <1>1. CASE Handshake(x, cx, sx, y, cy, sy)
    <2>1. Follows(x, cx, y, sx) /\ Follows(y, cy, x, sy)
      BY <1>1 DEF Handshake
    <2>2. x.state = "GET" /\ y.state \in Steps
      BY <2>1 DEF Follows, Steps, Shaking
    <2>3. Len(sy) = Sent(y, cy) - Read(x) /\ Len(sx) = Sent(x, cx) - Read(y)
      BY <2>1 DEF Follows
    <2>4. Read(x) = 5 /\ Sent(x, cx) = 5
      BY <2>2, SentRead DEF Shaking
    <2>5. Sent(y, cy) \in {0, 2, 5, 6} /\ Len(sy) \in Nat
      BY SentRead, LenProperties
    <2>6. Sent(y, cy) = 6 /\ Len(sy) = 1
      BY <2>3, <2>4, <2>5
    <2>7. y.state \notin Shaking \cup {"GET"}
      BY <2>6, SentRead
    <2>8. y.state = "FILE_LENGTH"
      BY <2>2, <2>7 DEF Steps
    <2>9. Read(y) = 5
      BY <2>8, SentRead DEF Shaking
    <2>10. Asked(y, sy[1])
      BY <2>1, FollowsHead
    <2> QED BY <2>3, <2>4, <2>6, <2>8, <2>9, <2>10
  <1>2. CASE Exchange(x, y, sx, sy, longer)
    BY <1>2 DEF Exchange, Waits, Receives, Flooded
  <1>3. CASE Waits(y, x, sy, sx, longer)
    BY <1>3 DEF Waits
  <1>4. CASE Receives(y, x, sy, sx, longer)
    BY <1>4 DEF Receives
  <1>5. CASE Flooded(y, x, sy, sx, longer)
    BY <1>5 DEF Flooded
  <1> QED BY <1>1, <1>2, <1>3, <1>4, <1>5 DEF Linked, Exchange

LEMMA GetIsAnswered ==
    ASSUME NEW x, NEW x2, NEW y, NEW cx, NEW cy, NEW sx \in Seq(Msg), NEW sy \in Seq(Msg),
           NEW longer, NEW t, NEW m \in Msg,
           Linked(x, cx, sx, y, cy, sy, longer), x.state \in {"GET", "SEND_GET"},
           Len(sy) > 0, sy[1].type = "Get", Len(t) = Len(sy) - 1, y.file_pos \in Nat,
           \/ m.type \in {"MaxedOut", "Error"} /\ x2.state = x.state
           \/ /\ m.type = "FileLength" /\ x2.state = "SEND_GET" /\ x2.open
              /\ x2.file_pos = sy[1].n - 1 /\ x2.final_pos = m.n
    PROVE  Linked(x2, cx, sx \o <<m>>, y, cy, t, longer)
  <1>0. /\ y.state = "FILE_LENGTH" /\ Len(sy) = 1
        /\ \/ Asked(y, sy[1]) /\ Len(sx) = 0
           \/ longer /\ Len(sx) > 0 /\ sx[1].type = "Data"
    BY GetComes, Zenon
  <1>1. Len(t) = 0
    BY <1>0
  <1> DEFINE s == sx \o <<m>>
  <1> HIDE DEF s
  <1>2. /\ Len(sx) \in Nat /\ Len(s) = Len(sx) + 1
        /\ \A i \in 1..Len(sx) : s[i] = sx[i]
        /\ s[Len(sx) + 1] = m
    BY OneMore DEF s
  <1>3. CASE Asked(y, sy[1]) /\ Len(sx) = 0
    <2>1. Len(s) = 1 /\ s[1] = m
      BY <1>2, <1>3
    <2>2. m.type = "FileLength" => x2.file_pos = y.file_pos
      BY <1>3 DEF Asked
    <2>3. Waits(y, x2, t, s, longer)
      BY <1>0, <1>1, <2>1, <2>2 DEF Waits
    <2> QED BY <2>3 DEF Linked, Exchange, s
  <1>4. CASE longer /\ Len(sx) > 0 /\ sx[1].type = "Data"
    <2>1. Len(s) > 0 /\ s[1] = sx[1]
      BY <1>2, <1>4
    <2>2. Flooded(y, x2, t, s, longer)
      BY <1>0, <1>1, <1>4, <2>1 DEF Flooded, Sending
    <2> QED BY <2>2 DEF Linked, Exchange, s
  <1> QED BY <1>0, <1>3, <1>4

(* When $Send is read, nothing is on the way to the other side.            *)
SendIsNext(x, y, sx, sy, longer) ==
    /\ Len(sx) = 0 /\ x.open
    /\ \/ /\ y.state = "FILE_LENGTH" /\ Len(sy) = 2 /\ Asked(y, sy[2])
          /\ longer \/ x.final_pos = x.file_pos
       \/ /\ y.state = "DATA_RECV" /\ Len(sy) = 1 /\ x.final_pos <= MaxSize
          /\ Fits(y, x, longer) /\ x.file_pos = y.file_pos

LEMMA SendComes ==
    ASSUME NEW x, NEW y, NEW cx, NEW cy, NEW sx, NEW sy, NEW longer,
           Linked(x, cx, sx, y, cy, sy, longer), x.state = "SEND_GET",
           Len(sy) > 0, sy[1].type = "Send"
    PROVE  SendIsNext(x, y, sx, sy, longer)
  <1>1. ~Handshake(x, cx, sx, y, cy, sy)
    BY DEF Handshake, Follows, Steps, Shaking
  <1>2. ~Exchange(x, y, sx, sy, longer)
    BY DEF Exchange, Waits, Receives, Flooded
  <1>3. CASE Waits(y, x, sy, sx, longer)
    BY <1>3 DEF Waits, Asked, SendIsNext
  <1>4. CASE Receives(y, x, sy, sx, longer)
    BY <1>4 DEF Receives, SendIsNext
  <1>5. ~Flooded(y, x, sy, sx, longer)
    BY DEF Flooded
  <1> QED BY <1>1, <1>2, <1>3, <1>4, <1>5 DEF Linked, Exchange

LEMMA SendIsFollowed ==
    ASSUME NEW x, NEW x2, NEW y, NEW cx, NEW cy, NEW sx, NEW sy, NEW longer, NEW t,
           Linked(x, cx, sx, y, cy, sy, longer), x.state = "SEND_GET",
           Len(sy) > 0, sy[1].type = "Send", Len(t) = Len(sy) - 1,
           \A i \in 1..Len(t) : t[i] = sy[i + 1],
           x2.state = IF x.final_pos = x.file_pos THEN "GET" ELSE "DATA_SEND",
           x2.file_pos = x.file_pos, x2.final_pos = x.final_pos, y.file_pos \in Nat
    PROVE  Linked(x2, cx, sx, y, cy, t, longer)
  <1>0. SendIsNext(x, y, sx, sy, longer)
    BY SendComes
  <1>1. Len(sx) = 0
    BY <1>0 DEF SendIsNext
  <1>2. CASE y.state = "FILE_LENGTH" /\ Len(sy) = 2 /\ Asked(y, sy[2])
    <2>1. Len(t) = 1 /\ Asked(y, t[1])
      BY <1>2
    <2>2. CASE x.final_pos = x.file_pos
      <3>1. Waits(y, x2, t, sx, longer)
        BY <1>1, <1>2, <2>1, <2>2 DEF Waits
      <3> QED BY <3>1 DEF Linked, Exchange
    <2>3. CASE longer /\ x.final_pos # x.file_pos
      <3>1. Flooded(y, x2, t, sx, longer)
        BY <1>1, <1>2, <2>1, <2>3 DEF Flooded, Asked, Sending
      <3> QED BY <3>1 DEF Linked, Exchange
    <2> QED BY <1>0, <1>2, <2>2, <2>3 DEF SendIsNext
  <1>3. CASE /\ y.state = "DATA_RECV" /\ Len(sy) = 1 /\ x.final_pos <= MaxSize
             /\ Fits(y, x, longer) /\ x.file_pos = y.file_pos
    <2>1. Contents(y, sx) /\ Len(t) = 0 /\ x2.file_pos = y.file_pos + Len(sx)
      BY <1>1, <1>3 DEF Contents
    <2>2. Fits(y, x2, longer)
      BY <1>3 DEF Fits
    <2>3. Receives(y, x2, t, sx, longer)
      BY <1>3, <2>1, <2>2 DEF Receives
    <2> QED BY <2>3 DEF Linked, Exchange
  <1> QED BY <1>0, <1>2, <1>3 DEF SendIsNext

(* Who reads an answer has read all that was on the way.                   *)
LengthIsNext(x, y, sx, sy) ==
    /\ Len(sx) = 0 /\ Len(sy) = 1 /\ y.state = "SEND_GET" /\ y.open
    /\ y.file_pos = x.file_pos /\ y.final_pos = sy[1].n

LEMMA NoScriptHere ==
    ASSUME NEW x, NEW y, NEW cy, NEW sy, Follows(y, cy, x, sy),
           x.state \notin Shaking, Len(sy) > 0, Len(sy) \in Nat
    PROVE  sy[1].type = "Get"
  <1>1. Read(x) = 5
    BY SentRead
  <1>2. 1 \in 1..Len(sy) /\ Read(x) + 1 = 6
    BY <1>1
  <1> QED BY <1>1, <1>2, ScriptIs DEF Follows

LEMMA LengthComes ==
    ASSUME NEW x, NEW y, NEW cx, NEW cy, NEW sx, NEW sy, NEW longer,
           Linked(x, cx, sx, y, cy, sy, longer), x.state = "FILE_LENGTH",
           Len(sy) > 0, Len(sy) \in Nat, sy[1].type = "FileLength"
    PROVE  LengthIsNext(x, y, sx, sy)
  <1>1. ~Follows(y, cy, x, sy)
    BY NoScriptHere DEF Shaking
  <1>2. CASE Waits(x, y, sx, sy, longer)
    BY <1>2 DEF Waits, LengthIsNext
  <1>3. ~Receives(x, y, sx, sy, longer) /\ ~Flooded(x, y, sx, sy, longer)
    BY DEF Receives, Flooded
  <1>4. ~Exchange(y, x, sy, sx, longer)
    BY DEF Exchange, Waits, Receives, Flooded, Sending
  <1> QED BY <1>1, <1>2, <1>3, <1>4 DEF Linked, Exchange, Handshake

LEMMA RefusalComes ==
    ASSUME NEW x, NEW y, NEW cx, NEW cy, NEW sx, NEW sy, NEW longer,
           Linked(x, cx, sx, y, cy, sy, longer), x.state = "FILE_LENGTH",
           Len(sy) > 0, Len(sy) \in Nat, sy[1].type \in {"MaxedOut", "Error"}
    PROVE  Len(sx) = 0 /\ Len(sy) = 1 /\ y.state \in {"GET", "SEND_GET"}
  <1>1. ~Follows(y, cy, x, sy)
    BY NoScriptHere DEF Shaking
  <1>2. CASE Waits(x, y, sx, sy, longer)
    BY <1>2 DEF Waits
  <1>3. ~Receives(x, y, sx, sy, longer) /\ ~Flooded(x, y, sx, sy, longer)
    BY DEF Receives, Flooded
  <1>4. ~Exchange(y, x, sy, sx, longer)
    BY DEF Exchange, Waits, Receives, Flooded, Sending
  <1> QED BY <1>1, <1>2, <1>3, <1>4 DEF Linked, Exchange, Handshake

(* There was nothing to fetch of a file, and the next one is asked for.    *)
LEMMA NowSkips ==
    ASSUME NEW x, NEW y, NEW cx, NEW cy, NEW sx, NEW sy, NEW longer,
           x.state = "FILE_LENGTH", y.state = "SEND_GET", y.open,
           Len(sx) = 2, sx[1].type = "Send", Asked(x, sx[2]), Len(sy) = 0,
           ~longer => y.final_pos = y.file_pos
    PROVE  Linked(x, cx, sx, y, cy, sy, longer)
  <1>1. Waits(x, y, sx, sy, longer)
    BY DEF Waits
  <1> QED BY <1>1 DEF Linked, Exchange

(* The file is asked for.                                                  *)
LEMMA NowReceives ==
    ASSUME NEW x, NEW y, NEW cx, NEW cy, NEW sx, NEW sy, NEW longer,
           x.state = "DATA_RECV", y.state = "SEND_GET", y.open,
           Len(sx) = 1, sx[1].type = "Send", Len(sy) = 0,
           y.file_pos = x.file_pos, y.final_pos <= MaxSize, Fits(x, y, longer)
    PROVE  Linked(x, cx, sx, y, cy, sy, longer)
  <1>1. Receives(x, y, sx, sy, longer)
    BY DEF Receives
  <1> QED BY <1>1 DEF Linked, Exchange

DataIsNext(x, y, sx, sy, longer) ==
    /\ Len(sx) = 0 /\ Contents(x, sy) /\ Fits(x, y, longer)
    /\ y.state \in {"DATA_SEND", "GET"} /\ y.file_pos = x.file_pos + Len(sy)
    /\ y.state = "GET" => y.file_pos = y.final_pos
    /\ y.final_pos <= MaxSize

LEMMA DataComes ==
    ASSUME NEW x, NEW y, NEW cx, NEW cy, NEW sx, NEW sy, NEW longer,
           Linked(x, cx, sx, y, cy, sy, longer), x.state = "DATA_RECV", Len(sy) > 0
    PROVE  DataIsNext(x, y, sx, sy, longer)
  <1>1. ~Handshake(x, cx, sx, y, cy, sy)
    BY DEF Handshake, Follows, Steps, Shaking
  <1>2. ~Waits(x, y, sx, sy, longer) /\ ~Flooded(x, y, sx, sy, longer)
    BY DEF Waits, Flooded
  <1>3. CASE Receives(x, y, sx, sy, longer)
    BY <1>3 DEF Receives, DataIsNext
  <1>4. ~Exchange(y, x, sy, sx, longer)
    BY DEF Exchange, Waits, Receives, Flooded, Sending
  <1> QED BY <1>1, <1>2, <1>3, <1>4 DEF Linked, Exchange

(* What is left of the contents when the first unit has been read.         *)
LEMMA ContentsRead ==
    ASSUME NEW x, NEW x2, NEW s, NEW t, Contents(x, s), Len(s) \in Nat, Len(s) > 0,
           Len(t) = Len(s) - 1, \A i \in 1..Len(t) : t[i] = s[i + 1],
           x.file_pos \in Nat, x2.file_pos = x.file_pos + 1
    PROVE  Contents(x2, t)
  <1> SUFFICES ASSUME NEW i \in 1..Len(t)
               PROVE  /\ t[i].type = "Data" /\ t[i].n = x2.file_pos + i - 1
                      /\ t[i].n < MaxSize
    BY DEF Contents
  <1>1. i + 1 \in 1..Len(s) /\ t[i] = s[i + 1]
    OBVIOUS
  <1>2. s[i + 1].type = "Data" /\ s[i + 1].n = x.file_pos + (i + 1) - 1 /\ s[i + 1].n < MaxSize
    BY <1>1 DEF Contents
  <1>3. x2.file_pos + i - 1 = x.file_pos + (i + 1) - 1
    <2>1. i \in Int /\ x.file_pos \in Int
      OBVIOUS
    <2>2. \A m, n \in Int : (m + 1) + n - 1 = m + (n + 1) - 1
      OBVIOUS
    <2> QED BY <2>1, <2>2
  <1> QED BY <1>1, <1>2, <1>3

LEMMA DataIsRead ==
    ASSUME NEW x \in Proc, NEW x2 \in Proc, NEW y \in Proc, NEW cx, NEW cy, NEW sx, NEW sy,
           NEW longer, NEW t, DataIsNext(x, y, sx, sy, longer), Len(sy) \in Nat, Len(sy) > 0,
           Len(t) = Len(sy) - 1, \A i \in 1..Len(t) : t[i] = sy[i + 1],
           x2.state = "DATA_RECV", x2.file_pos = x.file_pos + 1, x2.data_size = x.data_size - 1
    PROVE  Linked(x2, cx, sx, y, cy, t, longer)
  <1>1. /\ x.file_pos \in Nat /\ x.data_size \in Nat
        /\ y.final_pos \in Nat /\ y.file_pos \in Nat
    BY PeerAssumption DEF Proc
  <1>2. Contents(x2, t)
    <2>1. Contents(x, sy)
      BY DEF DataIsNext
    <2> QED BY <1>1, <2>1, ContentsRead
  <1>3. Fits(x2, y, longer)
    BY <1>1 DEF DataIsNext, Fits
  <1>4. y.file_pos = x2.file_pos + Len(t)
    BY <1>1 DEF DataIsNext
  <1>5. Receives(x2, y, sx, t, longer)
    BY <1>2, <1>3, <1>4 DEF Receives, DataIsNext
  <1> QED BY <1>5 DEF Linked, Exchange

(* The last unit is read; there is more only if the file is longer.        *)
LEMMA LastIsRead ==
    ASSUME NEW x \in Proc, NEW x2 \in Proc, NEW y \in Proc, NEW cx, NEW cy, NEW sx, NEW sy,
           NEW longer, NEW t, DataIsNext(x, y, sx, sy, longer), Len(sy) \in Nat, Len(sy) > 0,
           Len(t) = Len(sy) - 1, \A i \in 1..Len(t) : t[i] = sy[i + 1],
           x.data_size = 1, x2.state = "FILE_LENGTH",
           y.state = "DATA_SEND" =>
               y.file_pos <= y.final_pos /\ (Len(t) = 0 => y.file_pos < y.final_pos),
           NEW s, Len(s) = 1, Asked(x2, s[1])
    PROVE  Linked(x2, cx, s, y, cy, t, longer)
  <1>1. /\ x.file_pos \in Nat /\ y.final_pos \in Nat /\ y.file_pos \in Nat
    BY PeerAssumption DEF Proc
  <1>2. /\ y.state \in {"DATA_SEND", "GET"} /\ y.file_pos = x.file_pos + Len(sy)
        /\ y.state = "GET" => y.file_pos = y.final_pos
        /\ ~longer => 1 = y.final_pos - x.file_pos
    BY DEF DataIsNext, Fits
  <1>3. CASE Len(t) = 0 /\ y.state = "GET"
    BY <1>3, NowWaits
  <1>4. CASE Len(t) = 0 /\ y.state = "DATA_SEND"
    <2>1. longer
      BY <1>1, <1>2, <1>4
    <2>2. Flooded(x2, y, s, t, longer)
      BY <1>4, <2>1 DEF Flooded, Sending, Asked
    <2> QED BY <2>2 DEF Linked, Exchange
  <1>5. CASE Len(t) > 0
    <2>1. longer
      BY <1>1, <1>2, <1>5
    <2>2. 2 \in 1..Len(sy) /\ t[1] = sy[2]
      BY <1>5
    <2>3. t[1].type = "Data"
      BY <2>2 DEF DataIsNext, Contents
    <2>4. Flooded(x2, y, s, t, longer)
      BY <1>2, <1>5, <2>1, <2>3 DEF Flooded, Sending, Asked
    <2> QED BY <2>4 DEF Linked, Exchange
  <1>6. Len(t) = 0 \/ Len(t) > 0
    OBVIOUS
  <1> QED BY <1>2, <1>3, <1>4, <1>5, <1>6

(* The sender x puts the next units m behind what it has written.          *)
LEMMA ContentsSent ==
    ASSUME NEW x, NEW y, NEW s \in Seq(Msg), NEW m \in Seq(Msg), Contents(y, s),
           x.file_pos = y.file_pos + Len(s), y.file_pos \in Nat,
           x.final_pos \in Nat, x.final_pos <= MaxSize, x.file_pos + Len(m) <= x.final_pos,
           \A i \in 1..Len(m) : m[i].type = "Data" /\ m[i].n = x.file_pos + i - 1
    PROVE  Contents(y, s \o m) /\ x.file_pos + Len(m) = y.file_pos + Len(s \o m)
  <1>1. /\ Len(s \o m) = Len(s) + Len(m) /\ Len(s) \in Nat /\ Len(m) \in Nat
        /\ \A i \in 1..Len(s) : (s \o m)[i] = s[i]
        /\ \A i \in 1..Len(m) : (s \o m)[Len(s) + i] = m[i]
        /\ \A i \in 1..Len(s \o m) :
               \/ i \in 1..Len(s)
               \/ i - Len(s) \in 1..Len(m) /\ i = Len(s) + (i - Len(s))
    BY ConcatLast
  <1>2. ASSUME NEW i \in 1..Len(s \o m)
        PROVE  LET e == (s \o m)[i] IN
               e.type = "Data" /\ e.n = y.file_pos + i - 1 /\ e.n < MaxSize
    <2>1. CASE i \in 1..Len(s)
      <3>1. (s \o m)[i] = s[i]
        BY <1>1, <2>1
      <3> QED BY <2>1, <3>1 DEF Contents
    <2>2. CASE i - Len(s) \in 1..Len(m) /\ i = Len(s) + (i - Len(s))
      <3> DEFINE j == i - Len(s)
      <3>1. j \in 1..Len(m) /\ i = Len(s) + j
        BY <2>2
      <3> HIDE DEF j
      <3>2. (s \o m)[i] = m[j] /\ m[j].type = "Data" /\ m[j].n = x.file_pos + j - 1
        BY <1>1, <3>1
      <3>3. x.file_pos + j - 1 = y.file_pos + i - 1 /\ x.file_pos + j - 1 < MaxSize
        <4>1. /\ j \in Int /\ j <= Len(m) /\ y.file_pos \in Int /\ Len(s) \in Int
              /\ Len(m) \in Int /\ x.final_pos \in Int /\ MaxSize \in Int
          BY <1>1, <3>1, PeerAssumption
        <4>2. \A f, k, l, n, d, e \in Int :
                  /\ (f + l) + k - 1 = f + (l + k) - 1
                  /\ k <= n /\ (f + l) + n <= d /\ d <= e => (f + l) + k - 1 < e
          OBVIOUS
        <4> QED BY <3>1, <4>1, <4>2
      <3> QED BY <3>2, <3>3
    <2> QED BY <1>1, <2>1, <2>2
  <1>3. x.file_pos + Len(m) = y.file_pos + Len(s \o m)
    BY <1>1
  <1> QED BY <1>2, <1>3 DEF Contents

LEMMA DataIsSent ==
    ASSUME NEW x \in Proc, NEW x2 \in Proc, NEW y \in Proc, NEW cx, NEW cy,
           NEW sx \in Seq(Msg), NEW sy, NEW longer, NEW m \in Seq(Msg),
           Linked(x, cx, sx, y, cy, sy, longer), x.state = "DATA_SEND",
           x.final_pos <= MaxSize, x.file_pos + Len(m) <= x.final_pos,
           \A i \in 1..Len(m) : m[i].type = "Data" /\ m[i].n = x.file_pos + i - 1,
           Len(sx \o m) > 0, x2.final_pos = x.final_pos, x2.file_pos = x.file_pos + Len(m),
           x2.state = "DATA_SEND" \/ (x2.state = "GET" /\ x2.file_pos = x2.final_pos)
    PROVE  Linked(x2, cx, sx \o m, y, cy, sy, longer)
  <1>1. x.file_pos \in Nat /\ x.final_pos \in Nat /\ y.file_pos \in Nat /\ y.data_size \in Nat
    BY PeerAssumption DEF Proc
  <1>2. ~Handshake(x, cx, sx, y, cy, sy)
    BY DEF Handshake, Follows, Steps, Shaking
  <1>3. ~Exchange(x, y, sx, sy, longer) /\ ~Waits(y, x, sy, sx, longer)
    BY DEF Exchange, Waits, Receives, Flooded
  <1>4. CASE Receives(y, x, sy, sx, longer)
    <2>1. /\ Len(sy) = 0 /\ Contents(y, sx) /\ x.file_pos = y.file_pos + Len(sx)
          /\ y.state = "DATA_RECV" /\ Fits(y, x, longer)
      BY <1>4 DEF Receives
    <2>2. Contents(y, sx \o m) /\ x2.file_pos = y.file_pos + Len(sx \o m)
      BY <1>1, <2>1, ContentsSent
    <2>3. Fits(y, x2, longer)
      BY <2>1 DEF Fits
    <2>4. Receives(y, x2, sy, sx \o m, longer)
      BY <2>1, <2>2, <2>3 DEF Receives
    <2> QED BY <2>4 DEF Linked, Exchange
  <1>5. CASE Flooded(y, x, sy, sx, longer)
    <2>1. /\ Len(sx \o m) = Len(sx) + Len(m) /\ Len(sx) \in Nat /\ Len(m) \in Nat
          /\ \A i \in 1..Len(sx) : (sx \o m)[i] = sx[i]
          /\ \A i \in 1..Len(m) : (sx \o m)[Len(sx) + i] = m[i]
      BY ConcatLast
    <2>2. (sx \o m)[1].type = "Data"
      <3>1. CASE Len(sx) > 0
        <4>1. sx[1].type = "Data" /\ (sx \o m)[1] = sx[1]
          BY <1>5, <2>1, <3>1 DEF Flooded
        <4> QED BY <4>1
      <3>2. CASE Len(sx) = 0
        <4>1. 1 \in 1..Len(m) /\ Len(sx) + 1 = 1
          BY <2>1, <3>2
        <4>2. (sx \o m)[1] = m[1]
          BY <2>1, <4>1
        <4> QED BY <4>1, <4>2
      <3> QED BY <2>1, <3>1, <3>2
    <2>3. Flooded(y, x2, sy, sx \o m, longer)
      BY <1>5, <2>2 DEF Flooded, Sending
    <2> QED BY <2>3 DEF Linked, Exchange
  <1> QED BY <1>2, <1>3, <1>4, <1>5 DEF Linked, Exchange

-----------------------------------------------------------------------------
(* What is left when one process has ended *)

LEMMA Few ==
    /\ \A n \in Nat : n <= 1 => n = 0 \/ n = 1
    /\ \A n \in Nat : n <= 2 => n = 0 \/ n = 1 \/ n = 2
  OBVIOUS

Begins(t, s) == Len(t) <= Len(s) /\ \A i \in 1..Len(t) : t[i] = s[i]

(* What y may read next is legal while both run, and so is every beginning *)
(* of it.                                                                  *)
LEMMA LinkedIsLegal ==
    ASSUME NEW x \in Proc, NEW y \in Proc, NEW cx, NEW cy, NEW sx, NEW sy,
           NEW longer, NEW t, NEW out, Len(t) \in Nat, Len(sx) \in Nat, Len(sy) \in Nat,
           Len(out) \in Nat, Linked(x, cx, sx, y, cy, sy, longer),
           x.state = "DATA_SEND" => x.file_pos <= x.final_pos,
           Begins(t, sx), Len(out) <= Len(sy)
    PROVE  Legal(y, t, out, longer)
  <1>1. /\ x.file_pos \in Nat /\ x.final_pos \in Nat /\ y.file_pos \in Nat /\ y.data_size \in Nat
    BY PeerAssumption DEF Proc
  <1>2. ASSUME Follows(x, cx, y, sx), y.state \notin Shaking
        PROVE  Len(t) = 0 \/ (Len(t) = 1 /\ t[1].type = "Get")
    <2>1. Len(sx) = Sent(x, cx) - Read(y)
      BY <1>2 DEF Follows
    <2>2. Sent(x, cx) \in {0, 2, 5, 6} /\ Read(y) = 5
      BY <1>2, SentRead
    <2>3. Len(t) <= 1
      BY <1>1, <2>1, <2>2 DEF Begins
    <2>4. ASSUME Len(t) = 1
          PROVE  t[1].type = "Get"
      <3>1. Len(sx) > 0 /\ t[1] = sx[1]
        BY <1>1, <2>4 DEF Begins
      <3>2. sx[1].type = "Get"
        BY <1>1, <1>2, <3>1, NoScriptHere
      <3> QED BY <3>1, <3>2
    <2>5. Len(t) = 0 \/ Len(t) = 1
      BY <2>3, Few, Zenon
    <2> QED BY <2>4, <2>5
  <1>3. ASSUME y.state \in Shaking
        PROVE  Len(t) <= 6 - Read(y) /\ \A i \in 1..Len(t) : t[i].type = Script[Read(y) + i]
    <2>1. Follows(x, cx, y, sx)
      BY <1>3, StillShaking, Symmetric
    <2>2. Len(sx) = Sent(x, cx) - Read(y) /\ \A i \in 1..Len(sx) : sx[i].type = Script[Read(y) + i]
      BY <2>1 DEF Follows
    <2>3. Sent(x, cx) \in {0, 2, 5, 6} /\ Read(y) \in 0..5
      BY SentRead
    <2>4. Len(t) <= 6 - Read(y)
      <3>1. Len(t) \in Nat /\ Len(sx) \in Nat /\ Len(t) <= Len(sx)
        BY <1>1 DEF Begins
      <3>2. \A k, l \in Nat : \A n \in {0, 2, 5, 6}, r \in 0..5 : k <= l /\ l = n - r => k <= 6 - r
        OBVIOUS
      <3> QED BY <2>2, <2>3, <3>1, <3>2, Zenon
    <2>5. \A i \in 1..Len(t) : t[i] = sx[i] /\ i \in 1..Len(sx)
      BY <1>1 DEF Begins
    <2> QED BY <2>2, <2>4, <2>5, Zenon
  <1>4. ASSUME y.state \in Sending
        PROVE  \/ Len(t) = 0
               \/ Len(t) = 1 /\ t[1].type = "Get"
               \/ /\ Len(t) = 1 \/ (Len(t) = 2 /\ t[2].type = "Get")
                  /\ t[1].type = "Send" /\ y.state = "SEND_GET" /\ y.open /\ Len(out) = 0
    <2>1. CASE Handshake(x, cx, sx, y, cy, sy)
      BY <1>2, <1>4, <2>1 DEF Handshake, Sending, Shaking
    <2>2. CASE Waits(x, y, sx, sy, longer) \/ Receives(x, y, sx, sy, longer)
      <3>1. \/ Len(sx) = 0
            \/ Len(sx) = 1 /\ sx[1].type = "Get"
            \/ /\ Len(sx) = 1 \/ (Len(sx) = 2 /\ sx[2].type = "Get")
               /\ sx[1].type = "Send" /\ y.state = "SEND_GET" /\ y.open /\ Len(sy) = 0
        BY <2>2 DEF Waits, Receives, Asked
      <3>2. /\ Len(t) >= 1 => t[1] = sx[1]
            /\ Len(t) = 2 => t[2] = sx[2]
        BY <1>1 DEF Begins
      <3>0. Len(t) <= 2 /\ (Len(t) = 2 => Len(sx) = 2) /\ (Len(sy) = 0 => Len(out) = 0)
        <4>1. Len(sx) \in {0, 1, 2} /\ Len(t) <= Len(sx)
          BY <3>1 DEF Begins
        <4>2. \A k, l \in Nat : k <= l /\ l \in {0, 1, 2} => k <= 2 /\ (k = 2 => l = 2)
          OBVIOUS
        <4>3. Len(t) <= 2 /\ (Len(t) = 2 => Len(sx) = 2)
          BY <4>1, <4>2, Zenon
        <4>4. \A k, l \in Nat : k <= l /\ l = 0 => k = 0
          OBVIOUS
        <4>5. Len(sy) = 0 => Len(out) = 0
          BY <4>4, Zenon
        <4> QED BY <4>3, <4>5
      <3>3. Len(t) = 0 \/ Len(t) = 1 \/ Len(t) = 2
        BY <3>0, Few, Zenon
      <3>4. CASE Len(t) = 1
        <4>1. t[1] = sx[1] /\ Len(sx) > 0
          BY <1>1, <3>2, <3>4 DEF Begins
        <4> QED BY <3>0, <3>1, <3>4, <4>1
      <3>5. CASE Len(t) = 2
        <4>1. t[1] = sx[1] /\ t[2] = sx[2] /\ Len(sx) = 2
          BY <3>0, <3>2, <3>5
        <4> QED BY <3>0, <3>1, <3>5, <4>1
      <3> QED BY <3>3, <3>4, <3>5
    <2>3. CASE Flooded(x, y, sx, sy, longer)
      <3>1. Len(sx) = 0 \/ (Len(sx) = 1 /\ sx[1].type = "Get")
        BY <2>3 DEF Flooded
      <3>2. Len(t) <= 1
        BY <3>1 DEF Begins
      <3>3. Len(t) = 0 \/ Len(t) = 1
        BY <3>2, Few, Zenon
      <3>4. ASSUME Len(t) = 1
            PROVE  t[1].type = "Get"
        BY <3>1, <3>4 DEF Begins
      <3> QED BY <3>3, <3>4
    <2>4. ~Exchange(y, x, sy, sx, longer)
      BY <1>4 DEF Exchange, Waits, Receives, Flooded, Sending
    <2> QED BY <2>1, <2>2, <2>3, <2>4 DEF Linked, Exchange
  <1>5. ASSUME y.state = "FILE_LENGTH"
        PROVE  \/ Len(t) = 0
               \/ t[1].type = "Data" /\ longer
               \/ t[1].type # "Data" /\ Len(t) = 1
    <2>1. CASE Handshake(x, cx, sx, y, cy, sy)
      BY <1>2, <1>5, <2>1 DEF Handshake, Shaking
    <2>2. ~Exchange(x, y, sx, sy, longer)
      BY <1>5 DEF Exchange, Waits, Receives, Flooded, Sending
    <2>3. CASE Waits(y, x, sy, sx, longer)
      BY <2>3, <1>1 DEF Waits, Begins
    <2>4. ~Receives(y, x, sy, sx, longer)
      BY <1>5 DEF Receives
    <2>5. CASE Flooded(y, x, sy, sx, longer)
      BY <2>5, <1>1 DEF Flooded, Begins
    <2> QED BY <2>1, <2>2, <2>3, <2>4, <2>5 DEF Linked, Exchange
  <1>6. ASSUME y.state = "DATA_RECV"
        PROVE  Contents(y, t) /\ (longer \/ Len(t) <= y.data_size)
    <2>1. CASE Len(sx) = 0
      BY <1>1, <2>1 DEF Contents, Begins
    <2>2. CASE Len(sx) > 0
      <3>1. Linked(y, cy, sy, x, cx, sx, longer)
        BY Symmetric
      <3>2. DataIsNext(y, x, sy, sx, longer)
        BY <1>6, <2>2, <3>1, DataComes
      <3>3. Contents(y, t)
        <4>1. Contents(y, sx)
          BY <3>2 DEF DataIsNext
        <4>2. \A i \in 1..Len(t) : i \in 1..Len(sx) /\ t[i] = sx[i]
          BY <1>1 DEF Begins
        <4> QED BY <4>1, <4>2 DEF Contents
      <3>4. ~longer => Len(sx) <= y.data_size
        <4>1. /\ x.file_pos = y.file_pos + Len(sx) /\ x.file_pos <= x.final_pos
              /\ ~longer => y.data_size = x.final_pos - y.file_pos
          BY <1>1, <3>2 DEF DataIsNext, Fits
        <4> QED BY <1>1, <4>1
      <3> QED BY <1>1, <3>3, <3>4 DEF Begins
    <2> QED BY <1>1, <2>1, <2>2
  <1> QED BY <1>3, <1>4, <1>5, <1>6 DEF Legal

(* t is what is left of s when its first message has been read.            *)
Shorter(s, t) ==
    /\ Len(s) \in Nat /\ Len(s) > 0 /\ Len(t) \in Nat /\ Len(t) = Len(s) - 1
    /\ \A i \in 1..Len(t) : t[i] = s[i + 1]

LEMMA LegalEmpty ==
    ASSUME NEW y, NEW s, NEW out, NEW longer, Len(s) = 0, y.data_size \in Nat
    PROVE  Legal(y, s, out, longer)
  <1>1. Len(s) <= 6 - Read(y) /\ \A i \in 1..Len(s) : s[i].type = Script[Read(y) + i]
    <2>1. Read(y) \in 0..5
      BY SentRead
    <2> QED BY <2>1
  <1>2. Contents(y, s) /\ Len(s) <= y.data_size
    BY DEF Contents
  <1> QED BY <1>1, <1>2 DEF Legal

LEMMA LegalSame ==
    ASSUME NEW y, NEW y2, NEW s, NEW out, NEW out2, NEW longer, Legal(y, s, out, longer),
           y2.state = y.state, Read(y2) = Read(y), y2.open = y.open,
           y2.file_pos = y.file_pos, y2.data_size = y.data_size, Len(out) = 0 => Len(out2) = 0
    PROVE  Legal(y2, s, out2, longer)
  BY DEF Legal, Contents

LEMMA LegalInHandshake ==
    ASSUME NEW y, NEW y2, NEW s, NEW t, NEW out, NEW out2, NEW longer, Legal(y, s, out, longer),
           y.state \in Shaking, y2.state \in Shaking,
           \/ Read(y2) = Read(y) /\ t = s
           \/ Read(y2) = Read(y) + 1 /\ Shorter(s, t)
    PROVE  Legal(y2, t, out2, longer)
  <1>1. Len(s) <= 6 - Read(y) /\ \A i \in 1..Len(s) : s[i].type = Script[Read(y) + i]
    BY DEF Legal
  <1>2. Len(t) <= 6 - Read(y2) /\ \A i \in 1..Len(t) : t[i].type = Script[Read(y2) + i]
    <2>1. CASE Read(y2) = Read(y) /\ t = s
      BY <1>1, <2>1
    <2>2. CASE Read(y2) = Read(y) + 1 /\ Shorter(s, t)
      <3>1. Read(y) \in 0..5
        BY SentRead
      <3>2. Len(t) <= 6 - Read(y2)
        BY <1>1, <2>2, <3>1 DEF Shorter
      <3>3. ASSUME NEW i \in 1..Len(t)
            PROVE  t[i].type = Script[Read(y2) + i]
        <4>1. i + 1 \in 1..Len(s) /\ t[i] = s[i + 1] /\ Read(y) + (i + 1) = Read(y2) + i
          BY <2>2, <3>1 DEF Shorter
        <4> QED BY <1>1, <4>1
      <3> QED BY <3>2, <3>3
    <2> QED BY <2>1, <2>2
  <1> QED BY <1>2 DEF Legal, Shaking, Sending

LEMMA LegalAfterKey ==
    ASSUME NEW y, NEW y2, NEW s, NEW t, NEW out, NEW out2, NEW longer, Legal(y, s, out, longer),
           y.state = "KEY", Shorter(s, t), y2.state \in {"GET", "FILE_LENGTH"}
    PROVE  Legal(y2, t, out2, longer)
  <1>1. Read(y) = 4
    BY SentRead
  <1>2. Len(s) <= 2 /\ \A i \in 1..Len(s) : s[i].type = Script[4 + i]
    BY <1>1 DEF Legal, Shaking
  <1>3. Len(t) <= 1 /\ Len(t) \in Nat
    BY <1>2 DEF Shorter
  <1>4. Len(t) = 0 \/ Len(t) = 1
    BY <1>3, Few, Zenon
  <1>5. ASSUME Len(t) = 1
        PROVE  t[1].type = "Get"
    <2>1. Len(s) \in Nat /\ 1 = Len(s) - 1 /\ \A i \in 1..1 : t[i] = s[i + 1]
      BY <1>5, Zenon DEF Shorter
    <2>3. Len(s) = 2 /\ 1 \in 1..1 /\ 1 + 1 = 2
      BY <2>1
    <2>4. t[1] = s[1 + 1]
      BY <2>1, <2>3, Zenon
    <2>2. 2 \in 1..Len(s) /\ t[1] = s[2]
      BY <2>3, <2>4
    <2> QED BY <1>2, <2>2, ScriptIs
  <1> QED BY <1>4, <1>5 DEF Legal, Shaking, Sending

(* A $Get or an answer is read.                                            *)
LEMMA LegalAfterOne ==
    ASSUME NEW y, NEW y2, NEW s, NEW t, NEW out, NEW out2, NEW longer, NEW longer2,
           Legal(y, s, out, longer), Shorter(s, t), y2.data_size \in Nat,
           \/ y.state \in Sending /\ s[1].type = "Get"
           \/ y.state = "FILE_LENGTH" /\ s[1].type # "Data"
    PROVE  Legal(y2, t, out2, longer2)
  <1>1. Len(s) = 1
    BY DEF Legal, Shorter
  <1>2. Len(t) = 0
    BY <1>1 DEF Shorter
  <1> QED BY <1>2, LegalEmpty

LEMMA LegalAfterSend ==
    ASSUME NEW y, NEW y2, NEW s, NEW t, NEW out, NEW out2, NEW longer, Legal(y, s, out, longer),
           Shorter(s, t), y.state = "SEND_GET", y2.state \in Sending, s[1].type = "Send"
    PROVE  Legal(y2, t, out2, longer)
  <1>1. Len(s) = 1 \/ (Len(s) = 2 /\ s[2].type = "Get")
    BY DEF Legal, Shorter, Sending
  <1>2. Len(t) = 0 \/ (Len(t) = 1 /\ t[1].type = "Get")
    BY <1>1 DEF Shorter
  <1> QED BY <1>2 DEF Legal, Shaking, Sending

(* While y sends a file, it expects nothing.                               *)
LEMMA LegalSending ==
    ASSUME NEW y, NEW y2, NEW s, NEW out, NEW out2, NEW longer, Legal(y, s, out, longer),
           y.state = "DATA_SEND", y2.state \in Sending
    PROVE  Legal(y2, s, out2, longer)
  BY DEF Legal, Shaking, Sending

LEMMA LegalAfterData ==
    ASSUME NEW y \in Proc, NEW y2 \in Proc, NEW s, NEW t, NEW out, NEW out2, NEW longer,
           Legal(y, s, out, longer), Shorter(s, t), y.state = "DATA_RECV",
           \/ /\ y2.state = "DATA_RECV" /\ y2.file_pos = y.file_pos + 1
              /\ y2.data_size = y.data_size - 1
           \/ y2.state = "FILE_LENGTH" /\ y.data_size = 1
    PROVE  Legal(y2, t, out2, longer)
  <1>1. y.file_pos \in Nat /\ y.data_size \in Nat
    BY PeerAssumption DEF Proc
  <1>2. Contents(y, s) /\ (longer \/ Len(s) <= y.data_size)
    BY DEF Legal
  <1>3. CASE /\ y2.state = "DATA_RECV" /\ y2.file_pos = y.file_pos + 1
             /\ y2.data_size = y.data_size - 1
    <2>1. Contents(y2, t)
      BY <1>1, <1>2, <1>3, ContentsRead DEF Shorter
    <2>2. longer \/ Len(t) <= y2.data_size
      BY <1>1, <1>2, <1>3 DEF Shorter
    <2> QED BY <1>3, <2>1, <2>2 DEF Legal, Shaking, Sending
  <1>4. CASE y2.state = "FILE_LENGTH" /\ y.data_size = 1
    <2>1. CASE Len(t) = 0
      BY <1>4, <2>1 DEF Legal, Shaking, Sending
    <2>2. CASE Len(t) > 0
      <3>1. longer
        BY <1>2, <1>4, <2>2 DEF Shorter
      <3>2. 2 \in 1..Len(s) /\ t[1] = s[2]
        BY <2>2 DEF Shorter
      <3>3. t[1].type = "Data"
        BY <1>2, <3>2 DEF Contents
      <3> QED BY <1>4, <3>1, <3>3 DEF Legal, Shaking, Sending
    <2> QED BY <2>1, <2>2 DEF Shorter
  <1> QED BY <1>3, <1>4

-----------------------------------------------------------------------------
(* What a step does to the streams *)

(* The elements of t are elements of s or of m.                            *)
From(t, s, m) ==
    \A i \in 1..Len(t) : \/ \E j \in 1..Len(s) : t[i] = s[j]
                         \/ \E j \in 1..Len(m) : t[i] = m[j]

(* A process has m to write behind q, and n is on the way.                 *)
Placed(n, q, m, k, first, left) ==
    /\ n \o first \in Seq(Msg) /\ left \in Seq(Msg)
    /\ (n \o first) \o left = (n \o q) \o m
    /\ From(left, q, m)
    /\ Len(left) = Len(q \o m) - k

LEMMA Written ==
    ASSUME NEW n \in Seq(Msg), NEW q \in Seq(Msg), NEW m \in Seq(Msg), NEW k \in 0..Len(q \o m)
    PROVE  Placed(n, q, m, k, SubSeq(q \o m, 1, k), SubSeq(q \o m, k + 1, Len(q \o m)))
  <1> DEFINE out == q \o m
             first == SubSeq(out, 1, k)
             left == SubSeq(out, k + 1, Len(out))
  <1>1. /\ out \in Seq(Msg)
        /\ \A i \in 1..Len(q) : out[i] = q[i]
        /\ \A i \in 1..Len(m) : out[Len(q) + i] = m[i]
        /\ \A i \in 1..Len(out) :
               \/ i \in 1..Len(q)
               \/ i - Len(q) \in 1..Len(m) /\ i = Len(q) + (i - Len(q))
    BY ConcatLast
  <1>2. n \o out = (n \o q) \o m
    BY Associative
  <1> HIDE DEF out
  <1>3. /\ left \in Seq(Msg) /\ n \o first \in Seq(Msg) /\ Len(left) = Len(out) - k
        /\ \A i \in 1..Len(left) : i + k \in 1..Len(out) /\ left[i] = out[i + k]
        /\ (n \o first) \o left = n \o out
    <2>1. k \in 0..Len(out)
      BY DEF out
    <2>2. Cut(n, out, k, first, left)
      BY <1>1, <2>1, Parted
    <2> QED BY <2>2 DEF Cut
  <1>4. \A j \in 1..Len(out) : \/ \E l \in 1..Len(q) : out[j] = q[l]
                               \/ \E l \in 1..Len(m) : out[j] = m[l]
    <2> SUFFICES ASSUME NEW j \in 1..Len(out)
                 PROVE  \/ \E l \in 1..Len(q) : out[j] = q[l]
                        \/ \E l \in 1..Len(m) : out[j] = m[l]
      OBVIOUS
    <2>1. CASE j \in 1..Len(q)
      BY <1>1, <2>1
    <2>2. CASE j - Len(q) \in 1..Len(m) /\ j = Len(q) + (j - Len(q))
      <3>1. out[j] = m[j - Len(q)]
        BY <1>1, <2>2
      <3> QED BY <2>2, <3>1
    <2> QED BY <1>1, <2>1, <2>2
  <1> HIDE DEF first, left
  <1>5. From(left, q, m)
    <2> SUFFICES ASSUME NEW i \in 1..Len(left)
                 PROVE  \/ \E l \in 1..Len(q) : left[i] = q[l]
                        \/ \E l \in 1..Len(m) : left[i] = m[l]
      BY DEF From
    <2>1. i + k \in 1..Len(out) /\ left[i] = out[i + k]
      BY <1>3
    <2> QED BY <1>4, <2>1, Zenon
  <1>6. Placed(n, q, m, k, first, left)
    BY <1>2, <1>3, <1>5 DEF Placed, out
  <1> QED BY <1>6 DEF out, first, left

(* Process p leaves rest unread and has written msgs, to the other process *)
(* or into its queue.                                                      *)
Moved(p, rest, msgs) ==
    /\ net' \in [Peer -> Seq(Msg)] /\ sendq' \in [Peer -> Seq(Msg)]
    /\ proc' \in [Peer -> Proc]
    /\ net'[p] = rest
    /\ sendq'[Other(p)] = sendq[Other(p)] /\ proc'[Other(p)] = proc[Other(p)]
    /\ Running(Other(p)) => net'[Other(p)] \o sendq'[p] = Stream(p) \o msgs
    /\ ~Running(Other(p)) => net'[Other(p)] = net[Other(p)]
    /\ From(sendq'[p], sendq[p], msgs)

(* It writes k of the messages that it has, and becomes x.                 *)
Writes(p, rest, msgs, k, x) ==
    /\ net' = [net EXCEPT ![p] = rest,
                          ![Other(p)] = IF Running(Other(p))
                                        THEN @ \o SubSeq(sendq[p] \o msgs, 1, k) ELSE @]
    /\ sendq' = [sendq EXCEPT ![p] = SubSeq(sendq[p] \o msgs, k + 1, Len(sendq[p] \o msgs))]
    /\ proc' = [proc EXCEPT ![p] = x]

LEMMA Moves ==
    ASSUME TypeOK, NEW p \in Peer, NEW rest \in Seq(Msg), NEW msgs \in Seq(Msg),
           NEW x \in Proc, NEW k \in 0..Len(sendq[p] \o msgs), Writes(p, rest, msgs, k, x)
    PROVE  Moved(p, rest, msgs) /\ proc'[p] = x /\ Len(sendq'[p]) = Len(sendq[p] \o msgs) - k
  <1> DEFINE q == Other(p)
             first == SubSeq(sendq[p] \o msgs, 1, k)
             left == SubSeq(sendq[p] \o msgs, k + 1, Len(sendq[p] \o msgs))
  <1>1. q \in Peer /\ q # p /\ \A z \in Peer : z = p \/ z = q
    BY Others
  <1>2. /\ sendq[p] \in Seq(Msg) /\ net[q] \in Seq(Msg)
        /\ proc \in [Peer -> Proc] /\ sendq \in [Peer -> Seq(Msg)] /\ net \in [Peer -> Seq(Msg)]
    BY <1>1 DEF TypeOK
  <1>3. /\ net[q] \o first \in Seq(Msg) /\ left \in Seq(Msg)
        /\ (net[q] \o first) \o left = (net[q] \o sendq[p]) \o msgs
        /\ From(left, sendq[p], msgs)
        /\ Len(left) = Len(sendq[p] \o msgs) - k
    <2>1. Placed(net[q], sendq[p], msgs, k, first, left)
      BY <1>2, Written
    <2> QED BY <2>1 DEF Placed
  <1>4. net' = [net EXCEPT ![p] = rest, ![q] = IF Running(q) THEN net[q] \o first ELSE net[q]]
    BY <1>1, <1>2 DEF Writes
  <1>5. sendq' = [sendq EXCEPT ![p] = left]
    BY DEF Writes
  <1>6. Stream(p) = net[q] \o sendq[p]
    BY DEF Stream
  <1> HIDE DEF q, first, left
  <1>7. /\ net' \in [Peer -> Seq(Msg)] /\ net'[p] = rest
        /\ net'[q] = IF Running(q) THEN net[q] \o first ELSE net[q]
    BY <1>1, <1>2, <1>3, <1>4
  <1>8. sendq' \in [Peer -> Seq(Msg)] /\ sendq'[p] = left /\ sendq'[q] = sendq[q]
    BY <1>1, <1>2, <1>3, <1>5
  <1>9. proc' \in [Peer -> Proc] /\ proc'[p] = x /\ proc'[q] = proc[q]
    BY <1>1, <1>2 DEF Writes
  <1>10. Moved(p, rest, msgs)
    BY <1>3, <1>6, <1>7, <1>8, <1>9 DEF Moved, q
  <1> QED BY <1>3, <1>8, <1>9, <1>10 DEF left

(* The processes x and r differ at most in whether the socket is watched.  *)
Alike(x, r) ==
    /\ x \in Proc
    /\ x.state = r.state /\ x.rand = r.rand /\ x.dir = r.dir /\ x.open = r.open
    /\ x.file_size = r.file_size /\ x.file_pos = r.file_pos
    /\ x.final_pos = r.final_pos /\ x.data_size = r.data_size

LEMMA PutMoves ==
    ASSUME TypeOK, NEW p \in Peer, NEW rest \in Seq(Msg), NEW msgs \in Seq(Msg), NEW r \in Proc,
           Put(p, rest, msgs, r), Len(sendq[p]) > 0 => r.writable
    PROVE  /\ Moved(p, rest, msgs) /\ Alike(proc'[p], r)
           /\ Len(sendq'[p]) > 0 => proc'[p].writable
  <1>1. sendq[p] \in Seq(Msg)
    BY DEF TypeOK
  <1>2. sendq[p] \o msgs \in Seq(Msg) /\ Len(sendq[p] \o msgs) = Len(sendq[p]) + Len(msgs)
    BY <1>1, ConcatLast
  <1>3. PICK k \in 0..Len(sendq[p] \o msgs) :
            /\ net' = [net EXCEPT ![p] = rest,
                           ![Other(p)] = IF Running(Other(p))
                                         THEN @ \o SubSeq(sendq[p] \o msgs, 1, k) ELSE @]
            /\ sendq' = [sendq EXCEPT ![p] = SubSeq(sendq[p] \o msgs, k + 1,
                                                    Len(sendq[p] \o msgs))]
            /\ proc' = [proc EXCEPT ![p] = [r EXCEPT !.writable =
                            @ \/ Watched(sendq[p], Len(sendq[p] \o msgs) - k)]]
    BY DEF Put
  <1> DEFINE w == r.writable \/ Watched(sendq[p], Len(sendq[p] \o msgs) - k)
             x == [r EXCEPT !.writable = w]
  <1>4. w \in BOOLEAN
    BY DEF Watched, Proc
  <1> HIDE DEF w
  <1>5. x \in Proc /\ Alike(x, r) /\ x.writable = w
    BY <1>4 DEF Proc, Alike
  <1>6. proc' = [proc EXCEPT ![p] = x]
    BY <1>3 DEF w
  <1> HIDE DEF x
  <1>7. Moved(p, rest, msgs) /\ proc'[p] = x /\ Len(sendq'[p]) = Len(sendq[p] \o msgs) - k
    <2>1. Writes(p, rest, msgs, k, x)
      BY <1>3, <1>6 DEF Writes
    <2> QED BY <1>5, <2>1, Moves
  <1>8. ASSUME Len(sendq'[p]) > 0
        PROVE  w
    <2>1. CASE Len(sendq[p]) > 0
      BY <2>1 DEF w
    <2>2. CASE Len(sendq[p]) = 0
      <3>1. sendq[p] = <<>>
        BY <1>1, <2>2, EmptySeq
      <3> QED BY <1>7, <1>8, <3>1 DEF w, Watched
    <2> QED BY <1>1, <2>1, <2>2, LenProperties
  <1> QED BY <1>5, <1>7, <1>8

(* What p has of net[p] and of the queue of the other process.             *)
LEMMA ReadsFirst ==
    ASSUME TypeOK, NEW p \in Peer, net[p] # <<>>
    PROVE  /\ Tail(net[p]) \in Seq(Msg) /\ Head(net[p]) \in Msg
           /\ Stream(Other(p)) \in Seq(Msg) /\ Len(Stream(Other(p))) > 0
           /\ Head(net[p]) = Stream(Other(p))[1]
           /\ Tail(net[p]) \o sendq[Other(p)] \in Seq(Msg)
           /\ Shorter(Stream(Other(p)), Tail(net[p]) \o sendq[Other(p)])
  <1>1. Other(p) \in Peer /\ Other(Other(p)) = p
    BY Others
  <1>2. net[p] \in Seq(Msg) /\ sendq[Other(p)] \in Seq(Msg)
    BY <1>1 DEF TypeOK
  <1> DEFINE s == net[p]
             t == sendq[Other(p)]
  <1> HIDE DEF s, t
  <1>3. s \in Seq(Msg) /\ t \in Seq(Msg) /\ s # <<>>
    BY <1>2 DEF s, t
  <1>4. /\ Tail(s) \in Seq(Msg) /\ Tail(s) \o t \in Seq(Msg) /\ s \o t \in Seq(Msg)
        /\ Len(s \o t) > 0 /\ Head(s) = (s \o t)[1]
        /\ Len(Tail(s) \o t) = Len(s \o t) - 1
        /\ \A i \in 1..Len(Tail(s) \o t) : (Tail(s) \o t)[i] = (s \o t)[i + 1]
    BY <1>3, ConcatHead
  <1>5. (s \o t)[1] \in Msg
    <2>1. Len(s \o t) \in Nat
      BY <1>4, LenProperties
    <2>2. 1 \in 1..Len(s \o t)
      BY <1>4, <2>1
    <2> QED BY <1>4, <2>2, ElementOfSeq
  <1>6. Shorter(s \o t, Tail(s) \o t)
    <2>1. Len(s \o t) \in Nat /\ Len(Tail(s) \o t) \in Nat
      BY <1>4, LenProperties
    <2> QED BY <1>4, <2>1 DEF Shorter
  <1>7. Stream(Other(p)) = s \o t
    BY <1>1 DEF Stream, s, t
  <1> QED BY <1>4, <1>5, <1>6, <1>7 DEF s, t

LEMMA BecomeMoves ==
    ASSUME TypeOK, NEW p \in Peer, net[p] # <<>>, NEW r \in Proc, Become(p, r)
    PROVE  Moved(p, Tail(net[p]), <<>>) /\ proc'[p] = r /\ sendq'[p] = sendq[p]
  <1>1. Other(p) \in Peer /\ Other(p) # p /\ Tail(net[p]) \in Seq(Msg)
    BY Others, ReadsFirst
  <1>2. /\ proc \in [Peer -> Proc] /\ sendq \in [Peer -> Seq(Msg)] /\ net \in [Peer -> Seq(Msg)]
    BY DEF TypeOK
  <1>3. /\ proc' \in [Peer -> Proc] /\ proc'[p] = r /\ proc'[Other(p)] = proc[Other(p)]
        /\ sendq' = sendq
        /\ net' \in [Peer -> Seq(Msg)] /\ net'[p] = Tail(net[p])
        /\ net'[Other(p)] = net[Other(p)]
    BY <1>1, <1>2 DEF Become
  <1>4. Stream(p) \in Seq(Msg) /\ Stream(p) = net[Other(p)] \o sendq[p]
    BY <1>1, <1>2, ConcatProperties DEF Stream
  <1>5. Stream(p) \o <<>> = Stream(p)
    BY <1>4, ConcatEmptySeq
  <1>6. From(sendq[p], sendq[p], <<>>)
    BY DEF From
  <1> QED BY <1>2, <1>3, <1>4, <1>5, <1>6 DEF Moved

-----------------------------------------------------------------------------
(* What the invariant says of a running process *)

LEMMA Known ==
    ASSUME Inv, NEW p \in Peer
    PROVE  /\ TypeOK /\ DataIsData
           /\ Other(p) \in Peer /\ Other(p) # p /\ Other(Other(p)) = p
           /\ proc[p] \in Proc /\ answers[p] \in Seq(BOOLEAN)
           /\ net[p] \in Seq(Msg) /\ sendq[p] \in Seq(Msg) /\ Stream(p) \in Seq(Msg)
           /\ Len(net[p]) \in Nat /\ Len(sendq[p]) \in Nat /\ Len(Stream(p)) \in Nat
           /\ Asking(proc[p], answers[p]) /\ Announced(p)
           /\ Chosen(p, Other(p)) /\ Pair(p, Other(p)) /\ Local(p)
           /\ Running(p) => Sound(proc[p], sendq[p])
           /\ ~Running(p) => sendq[p] = <<>> /\ net[p] = <<>>
  <1>1. Other(p) \in Peer /\ Other(p) # p /\ Other(Other(p)) = p
    BY Others
  <1>2. /\ proc[p] \in Proc /\ answers[p] \in Seq(BOOLEAN)
        /\ net[p] \in Seq(Msg) /\ sendq[p] \in Seq(Msg) /\ net[Other(p)] \in Seq(Msg)
    BY <1>1 DEF Inv, TypeOK
  <1>3. Stream(p) \in Seq(Msg)
    BY <1>2, ConcatProperties DEF Stream
  <1>4. Len(net[p]) \in Nat /\ Len(sendq[p]) \in Nat /\ Len(Stream(p)) \in Nat
    BY <1>2, <1>3, LenProperties
  <1>5. /\ TypeOK /\ DataIsData /\ Local(p) /\ Announced(p)
        /\ Chosen(p, Other(p)) /\ Pair(p, Other(p))
    BY DEF Inv
  <1> QED BY <1>1, <1>2, <1>3, <1>4, <1>5 DEF Local

(* What a running process can read next is legal, if the other one runs or *)
(* not.                                                                    *)
LEMMA AlwaysLegal ==
    ASSUME Inv, NEW p \in Peer, Running(p)
    PROVE  Legal(proc[p], Stream(Other(p)), sendq[p], grown)
  <1> DEFINE q == Other(p)
  <1>1. q \in Peer /\ Other(q) = p /\ Pair(p, q)
    BY Known
  <1>2. CASE ~Running(q)
    BY <1>1, <1>2 DEF Pair
  <1>3. CASE Running(q)
    <2>1. Linked(proc[p], p = Connector, Stream(p), proc[q], q = Connector, Stream(q), grown)
      BY <1>1, <1>3 DEF Pair
    <2>2. Linked(proc[q], q = Connector, Stream(q), proc[p], p = Connector, Stream(p), grown)
      BY <2>1, Symmetric
    <2>3. /\ proc[p] \in Proc /\ proc[q] \in Proc /\ Sound(proc[q], sendq[q])
          /\ Len(Stream(q)) \in Nat /\ Len(Stream(p)) \in Nat /\ Len(sendq[p]) \in Nat
      BY <1>1, <1>3, Known
    <2>4. proc[q].state = "DATA_SEND" => proc[q].file_pos <= proc[q].final_pos
      BY <2>3 DEF Sound
    <2>5. Begins(Stream(q), Stream(q))
      BY <2>3 DEF Begins
    <2>6. Len(sendq[p]) <= Len(Stream(p))
      <3>1. net[q] \in Seq(Msg) /\ sendq[p] \in Seq(Msg)
        BY <1>1, Known
      <3>2. Len(net[q] \o sendq[p]) = Len(net[q]) + Len(sendq[p]) /\ Len(net[q]) \in Nat
        BY <3>1, ConcatLast
      <3>3. Len(sendq[p]) \in Nat /\ Stream(p) = net[q] \o sendq[p]
        BY Known DEF Stream
      <3>4. Len(Stream(p)) = Len(net[q]) + Len(sendq[p])
        BY <3>2, <3>3, Zenon
      <3>5. \A k, l, n \in Nat : n = k + l => l <= n
        OBVIOUS
      <3>6. Len(Stream(p)) \in Nat /\ Len(net[q]) \in Nat /\ Len(sendq[p]) \in Nat
        BY <2>3, <3>2, <3>3, Zenon
      <3> QED BY <3>4, <3>5, <3>6, Zenon
    <2> DEFINE cp == p = Connector
               cq == q = Connector
    <2>7. Linked(proc[q], cq, Stream(q), proc[p], cp, Stream(p), grown)
      BY <2>2
    <2> HIDE DEF cp, cq
    <2> QED BY <2>3, <2>4, <2>5, <2>6, <2>7, LinkedIsLegal
  <1> QED BY <1>2, <1>3

-----------------------------------------------------------------------------
(* A step that keeps the process running *)

(* What main has said is kept, and data was misread only if a file has     *)
(* grown.                                                                  *)
Kept(p) ==
    /\ answers' \in [Peer -> Seq(BOOLEAN)] /\ answers'[Other(p)] = answers[Other(p)]
    /\ answers[p] # <<>> => answers'[p] # <<>> /\ answers'[p][1] = answers[p][1]
    /\ grown' \in BOOLEAN /\ misread' \in BOOLEAN
    /\ (grown => grown') /\ (misread' => grown')

LEMMA HistoryKept ==
    ASSUME Inv, NEW p \in Peer, UNCHANGED history
    PROVE  Kept(p)
  BY DEF Inv, TypeOK, DataIsData, Kept, history

NowSays(m, p) ==
    /\ m.type = "Direction" =>
           answers'[p] # <<>> /\ m.download = answers'[p][1] /\ m.rand = proc'[p].rand
    /\ m.type = "Get" => m.n > 0

(* What p says after the step, it said before, or it is among msgs.        *)
LEMMA StillAnnounced ==
    ASSUME Inv, NEW p \in Peer, NEW rest, NEW msgs \in Seq(Msg), Moved(p, rest, msgs), Kept(p),
           proc'[p].rand = proc[p].rand, \A i \in 1..Len(msgs) : NowSays(msgs[i], p)
    PROVE  \A i \in 1..Len(net'[Other(p)] \o sendq'[p]) :
               NowSays((net'[Other(p)] \o sendq'[p])[i], p)
  <1> DEFINE q == Other(p)
             s == Stream(p)
             t == net'[q] \o sendq'[p]
  <1>1. /\ q \in Peer /\ s \in Seq(Msg) /\ sendq[p] \in Seq(Msg) /\ sendq'[p] \in Seq(Msg)
        /\ \A i \in 1..Len(s) : Says(s[i], p)
    BY Known DEF Announced, Moved
  <1>2. From(t, s, msgs)
    <2>1. CASE Running(q)
      <3>1. t = s \o msgs
        BY <2>1 DEF Moved
      <3> HIDE DEF s, t
      <3>2. s \in Seq(Msg)
        BY <1>1
      <3>3. /\ \A i \in 1..Len(s) : (s \o msgs)[i] = s[i]
            /\ \A i \in 1..Len(msgs) : (s \o msgs)[Len(s) + i] = msgs[i]
            /\ \A i \in 1..Len(s \o msgs) :
                   \/ i \in 1..Len(s)
                   \/ i - Len(s) \in 1..Len(msgs) /\ i = Len(s) + (i - Len(s))
        BY <3>2, ConcatLast
      <3> SUFFICES ASSUME NEW i \in 1..Len(s \o msgs)
                   PROVE  \/ \E j \in 1..Len(s) : (s \o msgs)[i] = s[j]
                          \/ \E j \in 1..Len(msgs) : (s \o msgs)[i] = msgs[j]
        BY <3>1 DEF From
      <3>4. CASE i \in 1..Len(s)
        BY <3>3, <3>4
      <3>5. CASE i - Len(s) \in 1..Len(msgs) /\ i = Len(s) + (i - Len(s))
        <4>1. (s \o msgs)[i] = msgs[i - Len(s)]
          BY <3>3, <3>5
        <4> QED BY <3>5, <4>1
      <3> QED BY <3>3, <3>4, <3>5
    <2>2. CASE ~Running(q)
      <3>1. net[q] = <<>>
        BY <1>1, <2>2, Known
      <3>2. t = sendq'[p]
        <4>1. net'[q] = <<>>
          BY <2>2, <3>1 DEF Moved
        <4> QED BY <1>1, <4>1, ConcatEmptySeq
      <3>3. s = sendq[p]
        BY <1>1, <3>1, ConcatEmptySeq DEF Stream
      <3> QED BY <3>2, <3>3 DEF Moved
    <2> QED BY <2>1, <2>2
  <1> HIDE DEF s, t, q
  <1>3. \A m : Says(m, p) => NowSays(m, p)
    BY DEF Says, NowSays, Kept
  <1>4. \A i \in 1..Len(t) : NowSays(t[i], p)
    BY <1>1, <1>2, <1>3 DEF From
  <1> QED BY <1>4 DEF t, q

(* What the other process says is not changed.                             *)
LEMMA OtherAnnounced ==
    ASSUME Inv, NEW p \in Peer, NEW rest, NEW msgs, Moved(p, rest, msgs), Kept(p),
           rest = net[p] \/ (net[p] # <<>> /\ rest = Tail(net[p]))
    PROVE  \A i \in 1..Len(rest \o sendq[Other(p)]) :
               NowSays((rest \o sendq[Other(p)])[i], Other(p))
  <1> DEFINE q == Other(p)
             s == Stream(q)
             t == rest \o sendq[q]
  <1>1. /\ q \in Peer /\ Other(q) = p /\ TypeOK
    BY Known
  <1>2. \A i \in 1..Len(s) : Says(s[i], q)
    BY <1>1, Known DEF Announced
  <1>3. \A m : Says(m, q) => NowSays(m, q)
    BY DEF Says, NowSays, Kept, Moved
  <1>4. t = s \/ Shorter(s, t)
    <2>1. CASE rest = net[p]
      BY <1>1, <2>1 DEF Stream
    <2>2. CASE net[p] # <<>> /\ rest = Tail(net[p])
      BY <1>1, <2>2, ReadsFirst
    <2> QED BY <2>1, <2>2
  <1> HIDE DEF s, t, q
  <1>5. \A i \in 1..Len(t) : \E j \in 1..Len(s) : t[i] = s[j]
    <2>1. CASE t = s
      BY <2>1
    <2>2. CASE Shorter(s, t)
      <3> SUFFICES ASSUME NEW i \in 1..Len(t)
                   PROVE  \E j \in 1..Len(s) : t[i] = s[j]
        OBVIOUS
      <3>1. i + 1 \in 1..Len(s) /\ t[i] = s[i + 1]
        BY <2>2 DEF Shorter
      <3> QED BY <3>1
    <2> QED BY <1>4, <2>1, <2>2
  <1>6. \A i \in 1..Len(t) : NowSays(t[i], q)
    BY <1>2, <1>3, <1>5
  <1> QED BY <1>6 DEF t, q

(* What the step leaves for both to read.                                  *)
NowPaired(p, rest, msgs) ==
    /\ Running(Other(p)) =>
           Linked(proc'[p], p = Connector, Stream(p) \o msgs,
                  proc[Other(p)], Other(p) = Connector, rest \o sendq[Other(p)], grown')
    /\ ~Running(Other(p)) => Legal(proc'[p], rest \o sendq[Other(p)], sendq'[p], grown')

NowChosen(p) ==
    proc'[p].dir # "unknown" =>
        /\ Len(answers'[p]) = 2 /\ answers'[Other(p)] # <<>>
        /\ answers'[Other(p)][1] \/ answers'[p][2]
        /\ proc'[p].dir = Direction(answers'[Other(p)][1], answers'[p][2],
                                    proc'[Other(p)].rand, proc'[p].rand)

LEMMA StepInv ==
    ASSUME Inv, NEW p \in Peer, NEW rest, NEW msgs \in Seq(Msg), Moved(p, rest, msgs), Kept(p),
           rest = net[p] \/ (net[p] # <<>> /\ rest = Tail(net[p])),
           proc'[p].rand = proc[p].rand, proc'[p].state # "ended",
           Sound(proc'[p], sendq'[p]), Asking(proc'[p], answers'[p]),
           \A i \in 1..Len(msgs) : NowSays(msgs[i], p),
           NowChosen(p), NowPaired(p, rest, msgs)
    PROVE  Inv'
  <1> DEFINE q == Other(p)
  <1>1. /\ q \in Peer /\ q # p /\ Other(q) = p /\ Other(p) = q
        /\ \A z \in Peer : z = p \/ z = q
    BY Others
  <1>2. /\ net'[p] = rest /\ sendq'[q] = sendq[q] /\ proc'[q] = proc[q]
        /\ answers'[q] = answers[q]
        /\ ~Running(q) => net'[q] = net[q]
        /\ Running(q) => net'[q] \o sendq'[p] = Stream(p) \o msgs
    BY DEF Moved, Kept
  <1>3. /\ Chosen(q, p) /\ Local(q) /\ Pair(q, p)
        /\ TypeOK
    BY <1>1, Known
  <1>4. TypeOK' /\ DataIsData'
    BY DEF TypeOK, Moved, Kept, DataIsData
  <1>5. /\ \A i \in 1..Len(net'[q] \o sendq'[p]) : NowSays((net'[q] \o sendq'[p])[i], p)
        /\ \A i \in 1..Len(rest \o sendq[q]) : NowSays((rest \o sendq[q])[i], q)
    BY StillAnnounced, OtherAnnounced
  <1> HIDE DEF q
  <1>6. Local(p)'
    BY DEF Local, Running
  <1>7. Local(q)'
    <2>1. (Running(q) <=> proc'[q].state # "ended") /\ (Running(q) => Sound(proc[q], sendq[q]))
      BY <1>2, <1>3 DEF Local, Running
    <2>2. ~Running(q) => sendq'[q] = <<>> /\ net'[q] = <<>>
      BY <1>2, <1>3 DEF Local
    <2>3. Asking(proc'[q], answers'[q])
      BY <1>2, <1>3 DEF Local
    <2> QED BY <1>2, <2>1, <2>2, <2>3 DEF Local, Running
  <1>8. Announced(p)'
    <2>1. Stream(p)' = net'[q] \o sendq'[p]
      BY <1>1 DEF Stream
    <2>2. \A m : NowSays(m, p) <=> Says(m, p)'
      BY DEF Says, NowSays
    <2> QED BY <1>5, <2>1, <2>2, Zenon DEF Announced
  <1>9. Announced(q)'
    BY <1>1, <1>2, <1>5 DEF Announced, Stream, Says, NowSays
  <1>10. Chosen(p, q)'
    BY <1>1 DEF Chosen, NowChosen
  <1>11. Chosen(q, p)'
    BY <1>1, <1>2, <1>3 DEF Chosen, Kept
  <1>12. Pair(p, q)' /\ Pair(q, p)'
    <2>1. ~Running(q) => Legal(proc'[p], net'[p] \o sendq'[q], sendq'[p], grown')
      BY <1>1, <1>2 DEF NowPaired
    <2>2. Running(q) => Linked(proc'[p], p = Connector, net'[q] \o sendq'[p],
                               proc'[q], q = Connector, net'[p] \o sendq'[q], grown')
      BY <1>1, <1>2 DEF NowPaired
    <2>3. Running(q) => Linked(proc'[q], q = Connector, net'[p] \o sendq'[q],
                               proc'[p], p = Connector, net'[q] \o sendq'[p], grown')
      BY <2>2, Symmetric
    <2>4. Running(q) <=> proc'[q].state # "ended"
      BY <1>2 DEF Running
    <2>5. Pair(p, q)'
      BY <1>1, <2>1, <2>2, <2>4 DEF Pair, Running, Stream
    <2>6. Pair(q, p)'
      BY <1>1, <2>3, <2>4 DEF Pair, Running, Stream
    <2> QED BY <2>5, <2>6
  <1> QED BY <1>1, <1>4, <1>6, <1>7, <1>8, <1>9, <1>10, <1>11, <1>12 DEF Inv

-----------------------------------------------------------------------------
(* A step that ends the process *)

(* What was on the way to the other process is the beginning of what p     *)
(* wrote.                                                                  *)
LEMMA NetBegins ==
    ASSUME Inv, NEW p \in Peer
    PROVE  /\ Begins(net[Other(p)], Stream(p)) /\ Len(net[Other(p)]) \in Nat
           /\ Len(sendq[p]) <= Len(Stream(p))
           /\ \A i \in 1..Len(sendq[p]) : \E j \in 1..Len(Stream(p)) : sendq[p][i] = Stream(p)[j]
  <1>1. Other(p) \in Peer /\ TypeOK
    BY Known
  <1> DEFINE n == net[Other(p)]
             o == sendq[p]
  <1>2. n \in Seq(Msg) /\ o \in Seq(Msg) /\ Stream(p) = n \o o
    BY <1>1 DEF TypeOK, Stream
  <1> HIDE DEF n, o
  <1>3. /\ Len(n \o o) = Len(n) + Len(o) /\ Len(n) \in Nat /\ Len(o) \in Nat
        /\ \A i \in 1..Len(n) : (n \o o)[i] = n[i]
        /\ \A i \in 1..Len(o) : (n \o o)[Len(n) + i] = o[i]
    BY <1>2, ConcatLast
  <1> DEFINE s == n \o o
  <1> HIDE DEF s
  <1>4. /\ Len(s) = Len(n) + Len(o)
        /\ \A i \in 1..Len(n) : s[i] = n[i]
        /\ \A i \in 1..Len(o) : s[Len(n) + i] = o[i]
    BY <1>3 DEF s
  <1>5. Begins(n, s) /\ Len(o) <= Len(s)
    BY <1>3, <1>4 DEF Begins
  <1>6. \A i \in 1..Len(o) : \E j \in 1..Len(s) : o[i] = s[j]
    <2> SUFFICES ASSUME NEW i \in 1..Len(o)
                 PROVE  \E j \in 1..Len(s) : o[i] = s[j]
      OBVIOUS
    <2>1. Len(n) + i \in 1..Len(s) /\ s[Len(n) + i] = o[i]
      BY <1>3, <1>4
    <2> QED BY <2>1
  <1>7. Stream(p) = s
    BY <1>2 DEF s
  <1> QED BY <1>3, <1>5, <1>6, <1>7 DEF n, o

(* What is left for the other process is legal.                            *)
LEMMA LegalAtEnd ==
    ASSUME Inv, NEW p \in Peer, Running(p), Running(Other(p))
    PROVE  Legal(proc[Other(p)], net[Other(p)], sendq[Other(p)], grown)
  <1> DEFINE q == Other(p)
             x == proc[p]
             y == proc[q]
             sx == Stream(p)
             sy == Stream(q)
             t == net[q]
             out == sendq[q]
             cx == p = Connector
             cy == q = Connector
  <1>1. q \in Peer /\ Other(q) = p
    BY Known
  <1>2. Linked(x, cx, sx, y, cy, sy, grown)
    BY Known DEF Pair
  <1>3. /\ x \in Proc /\ y \in Proc /\ Len(sx) \in Nat /\ Len(sy) \in Nat
        /\ Len(out) \in Nat /\ Len(t) \in Nat /\ Sound(x, sendq[p])
    BY <1>1, Known
  <1>4. x.state = "DATA_SEND" => x.file_pos <= x.final_pos
    BY <1>3 DEF Sound
  <1>5. Begins(t, sx) /\ Len(out) <= Len(sy)
    BY <1>1, NetBegins
  <1> HIDE DEF x, y, sx, sy, t, out, cx, cy
  <1>6. Legal(y, t, out, grown)
    BY <1>2, <1>3, <1>4, <1>5, LinkedIsLegal
  <1> QED BY <1>6 DEF y, t, out

LEMMA LegalLonger ==
    ASSUME NEW y, NEW s, NEW out, NEW longer, NEW longer2, Legal(y, s, out, longer),
           longer => longer2
    PROVE  Legal(y, s, out, longer2)
  BY DEF Legal

LEMMA EndInv ==
    ASSUME Inv, NEW p \in Peer, Running(p), End(p), Kept(p),
           Len(answers'[p]) <= 2, NowChosen(p)
    PROVE  Inv'
  <1> DEFINE q == Other(p)
  <1>1. /\ q \in Peer /\ q # p /\ Other(q) = p /\ Other(p) = q
        /\ \A z \in Peer : z = p \/ z = q
    BY Others
  <1>2. /\ TypeOK /\ Chosen(q, p) /\ Local(q) /\ Pair(q, p) /\ Announced(p) /\ Announced(q)
        /\ net[q] \in Seq(Msg) /\ sendq[q] \in Seq(Msg)
    BY <1>1, Known
  <1> HIDE DEF q
  <1>3. /\ net' \in [Peer -> Seq(Msg)] /\ sendq' \in [Peer -> Seq(Msg)]
        /\ net'[p] = <<>> /\ net'[q] = net[q]
        /\ sendq'[p] = <<>> /\ sendq'[q] = sendq[q]
    BY <1>1, <1>2 DEF End, TypeOK
  <1>4. /\ proc' \in [Peer -> Proc] /\ proc'[q] = proc[q]
        /\ proc'[p].state = "ended" /\ proc'[p].rand = proc[p].rand
    <2> DEFINE x == [proc[p] EXCEPT !.state = "ended"]
    <2>1. proc \in [Peer -> Proc] /\ proc[p] \in Proc
      BY <1>2 DEF TypeOK
    <2>2. x \in Proc /\ x.state = "ended" /\ x.rand = proc[p].rand
      BY <2>1 DEF Proc, UserState
    <2>3. proc' = [proc EXCEPT ![p] = x]
      BY <2>1 DEF End
    <2> HIDE DEF x
    <2> QED BY <1>1, <2>1, <2>2, <2>3
  <1>5. answers'[q] = answers[q]
    BY DEF Kept, q
  <1>6. TypeOK' /\ DataIsData'
    BY <1>3, <1>4 DEF TypeOK, Kept, DataIsData
  <1>7. Local(p)'
    BY <1>3, <1>4 DEF Local, Running, Asking
  <1>8. Local(q)'
    <2>1. Running(q) => Sound(proc[q], sendq[q])
      BY <1>2 DEF Local
    <2>2. ~Running(q) => sendq[q] = <<>> /\ net[q] = <<>>
      BY <1>2 DEF Local
    <2>3. Asking(proc[q], answers[q])
      BY <1>2 DEF Local
    <2> QED BY <1>3, <1>4, <1>5, <2>1, <2>2, <2>3 DEF Local, Running
  <1>9. Announced(p)'
    <2>1. net'[q] \o sendq'[p] = net[q]
      BY <1>2, <1>3, ConcatEmptySeq
    <2>2. Stream(p)' = net'[q] \o sendq'[p]
      BY <1>1 DEF Stream
    <2>3. \A i \in 1..Len(net[q]) : \E j \in 1..Len(Stream(p)) : net[q][i] = Stream(p)[j]
      <3>1. Begins(net[q], Stream(p)) /\ Len(net[q]) \in Nat /\ Len(Stream(p)) \in Nat
        BY <1>1, NetBegins, Known
      <3> QED BY <3>1 DEF Begins
    <2>4. \A m : Says(m, p) => Says(m, p)'
      BY <1>4 DEF Says, Kept
    <2> QED BY <1>2, <2>1, <2>2, <2>3, <2>4 DEF Announced
  <1>10. Announced(q)'
    <2>1. net'[p] \o sendq'[q] = sendq[q]
      BY <1>2, <1>3, ConcatEmptySeq
    <2>2. Stream(q)' = net'[p] \o sendq'[q]
      BY <1>1 DEF Stream
    <2>3. \A i \in 1..Len(sendq[q]) : \E j \in 1..Len(Stream(q)) : sendq[q][i] = Stream(q)[j]
      BY <1>1, NetBegins
    <2>4. \A m : Says(m, q) => Says(m, q)'
      BY <1>4, <1>5 DEF Says
    <2> QED BY <1>2, <2>1, <2>2, <2>3, <2>4 DEF Announced
  <1>11. Chosen(p, q)'
    BY <1>1 DEF Chosen, NowChosen
  <1>12. Chosen(q, p)'
    BY <1>1, <1>2, <1>4, <1>5 DEF Chosen, Kept
  <1>13. Pair(p, q)'
    BY <1>4 DEF Pair, Running
  <1>14. Pair(q, p)'
    <2>1. Running(q) => Legal(proc[q], net[q], sendq[q], grown)
      BY <1>1, LegalAtEnd
    <2>2. net'[q] \o sendq'[p] = net[q]
      BY <1>2, <1>3, ConcatEmptySeq
    <2>3. Stream(p)' = net[q]
      BY <1>1, <2>2 DEF Stream
    <2>4. Running(q) => Legal(proc'[q], Stream(p)', sendq'[q], grown')
      BY <1>3, <1>4, <2>1, <2>3, LegalLonger DEF Kept
    <2> QED BY <1>4, <2>4 DEF Pair, Running
  <1> QED BY <1>1, <1>6, <1>7, <1>8, <1>9, <1>10, <1>11, <1>12, <1>13, <1>14 DEF Inv

-----------------------------------------------------------------------------
(* The steps of the handshake *)

(* A process that can read.                                                *)
LEMMA Reading ==
    ASSUME Inv, NEW p \in Peer, Readable(p)
    PROVE  /\ Running(p) /\ proc[p].state # "CONNECT" /\ net[p] # <<>> /\ TypeOK
           /\ Tail(net[p]) \in Seq(Msg) /\ Head(net[p]) \in Msg
           /\ Head(net[p]) = Stream(Other(p))[1]
           /\ Shorter(Stream(Other(p)), Tail(net[p]) \o sendq[Other(p)])
           /\ Tail(net[p]) \o sendq[Other(p)] \in Seq(Msg)
           /\ Len(Stream(Other(p))) > 0
           /\ Legal(proc[p], Stream(Other(p)), sendq[p], grown)
           /\ Sound(proc[p], sendq[p]) /\ Asking(proc[p], answers[p])
           /\ Stream(p) \in Seq(Msg) /\ Stream(Other(p)) \in Seq(Msg)
  <1>1. Running(p) /\ proc[p].state # "CONNECT" /\ net[p] # <<>> /\ TypeOK
    BY Known DEF Readable
  <1>2. Other(p) \in Peer
    BY Known
  <1> QED BY <1>1, <1>2, Known, ReadsFirst, AlwaysLegal

(* The direction is chosen once.                                           *)
LEMMA ChoiceKept ==
    ASSUME Inv, NEW p \in Peer, Kept(p), answers'[p] = answers[p],
           proc'[p].dir = proc[p].dir, proc'[p].rand = proc[p].rand,
           proc'[Other(p)] = proc[Other(p)]
    PROVE  NowChosen(p)
  <1>1. Chosen(p, Other(p)) /\ answers'[Other(p)] = answers[Other(p)]
    BY Known DEF Kept
  <1> QED BY <1>1 DEF Chosen, NowChosen

LEMMA NotChosenYet ==
    ASSUME NEW p, proc'[p].dir = "unknown"
    PROVE  NowChosen(p)
  BY DEF NowChosen

(* A process ends and nothing else happens.                                *)
LEMMA EndsInv ==
    ASSUME Inv, NEW p \in Peer, Running(p), End(p), Kept(p), answers'[p] = answers[p]
    PROVE  Inv'
  <1>1. /\ TypeOK /\ Asking(proc[p], answers[p]) /\ Other(p) \in Peer /\ Other(p) # p
        /\ proc \in [Peer -> Proc] /\ proc[p] \in Proc
    BY Known DEF TypeOK
  <1>2. /\ proc'[p].dir = proc[p].dir /\ proc'[p].rand = proc[p].rand
        /\ proc'[Other(p)] = proc[Other(p)]
    BY <1>1 DEF End, Proc
  <1>3. NowChosen(p)
    BY <1>2, ChoiceKept
  <1>4. Len(answers'[p]) <= 2
    BY <1>1 DEF Asking
  <1> QED BY <1>3, <1>4, EndInv

(* The process x before and x2 after a step of the handshake, in which it  *)
(* reads the next message of the script or none, and writes msgs.          *)
Proceeds(x, x2, c, msgs) ==
    /\ x.state \in Shaking \ {"KEY"} /\ x2.state \in Shaking \ {"CONNECT"}
    /\ x2.state = "KEY" <=> x2.dir # "unknown"
    /\ x2.rand = x.rand /\ x2.open = x.open /\ x2.data_size = x.data_size
    /\ Sent(x2, c) = Sent(x, c) + Len(msgs)
    /\ \A j \in 1..Len(msgs) : /\ msgs[j].type = Script[Sent(x, c) + j]
                               /\ msgs[j].type # "Get"

(* In the handshake the next process state follows the script as well.     *)
LEMMA Shakes ==
    ASSUME Inv, NEW p \in Peer, NEW x2, NEW msgs \in Seq(Msg), NEW rest, Running(Other(p)),
           proc[p].state \in Shaking, x2.state \in Steps,
           Sent(x2, p = Connector) = Sent(proc[p], p = Connector) + Len(msgs),
           \A j \in 1..Len(msgs) : /\ msgs[j].type = Script[Sent(proc[p], p = Connector) + j]
                                   /\ msgs[j].type = "Get" => msgs[j].n = x2.file_pos + 1,
           \/ rest = net[p] /\ Read(x2) = Read(proc[p])
           \/ /\ net[p] # <<>> /\ rest = Tail(net[p])
              /\ Read(x2) = Read(proc[p]) + 1
    PROVE  Linked(x2, p = Connector, Stream(p) \o msgs,
                  proc[Other(p)], Other(p) = Connector, rest \o sendq[Other(p)], grown')
  <1> DEFINE q == Other(p)
             x == proc[p]
             y == proc[q]
             sx == Stream(p)
             sy == Stream(q)
             t == rest \o sendq[q]
             cx == p = Connector
             cy == q = Connector
  <1>1. /\ q \in Peer /\ Other(q) = p /\ sx \in Seq(Msg) /\ sy \in Seq(Msg) /\ TypeOK
        /\ Running(p)
    BY Known DEF Running, Shaking
  <1>2. Linked(x, cx, sx, y, cy, sy, grown)
    BY <1>1, Known DEF Pair
  <1>3. \/ t = sy /\ Read(x2) = Read(x)
        \/ /\ Len(sy) > 0 /\ t \in Seq(Msg) /\ Shorter(sy, t)
           /\ Read(x2) = Read(x) + 1
    <2>1. CASE rest = net[p] /\ Read(x2) = Read(proc[p])
      BY <1>1, <2>1 DEF Stream
    <2>2. CASE net[p] # <<>> /\ rest = Tail(net[p]) /\ Read(x2) = Read(proc[p]) + 1
      BY <1>1, <2>2, ReadsFirst
    <2> QED BY <2>1, <2>2
  <1>4. /\ x.state \in Shaking /\ Sent(x2, cx) = Sent(x, cx) + Len(msgs)
        /\ \A j \in 1..Len(msgs) : /\ msgs[j].type = Script[Sent(x, cx) + j]
                                   /\ msgs[j].type = "Get" => msgs[j].n = x2.file_pos + 1
    OBVIOUS
  <1> HIDE DEF q, x, y, sx, sy, t, cx, cy
  <1>5. Follows(x, cx, y, sx) /\ Follows(y, cy, x, sy)
    BY <1>2, <1>4, StillShaking
  <1>6. Follows(x2, cx, y, sx \o msgs)
    BY <1>1, <1>4, <1>5, FollowsOn
  <1>7. Follows(y, cy, x2, t)
    <2>1. CASE t = sy /\ Read(x2) = Read(x)
      BY <1>5, <2>1, FollowsSame
    <2>2. CASE Len(sy) > 0 /\ t \in Seq(Msg) /\ Shorter(sy, t) /\ Read(x2) = Read(x) + 1
      <3>1. Len(t) = Len(sy) - 1 /\ \A i \in 1..Len(t) : t[i] = sy[i + 1]
        BY <2>2 DEF Shorter
      <3> QED BY <1>1, <1>5, <2>2, <3>1, FollowsRead
    <2> QED BY <1>3, <2>1, <2>2
  <1>8. Linked(x2, cx, sx \o msgs, y, cy, t, grown')
    BY <1>6, <1>7 DEF Linked, Handshake
  <1> QED BY <1>8 DEF q, y, sx, t, cx, cy

LEMMA ShakeInv ==
    ASSUME Inv, NEW p \in Peer, Running(p), NEW rest, NEW msgs \in Seq(Msg),
           Moved(p, rest, msgs), Kept(p), Proceeds(proc[p], proc'[p], p = Connector, msgs),
           \/ rest = net[p] /\ Read(proc'[p]) = Read(proc[p])
           \/ /\ net[p] # <<>> /\ rest = Tail(net[p])
              /\ Read(proc'[p]) = Read(proc[p]) + 1,
           Len(sendq'[p]) > 0 => proc'[p].writable,
           Asking(proc'[p], answers'[p]), \A i \in 1..Len(msgs) : NowSays(msgs[i], p),
           NowChosen(p)
    PROVE  Inv'
  <1> DEFINE q == Other(p)
             x == proc[p]
             x2 == proc'[p]
  <1>1. /\ q \in Peer /\ sendq'[p] \in Seq(Msg) /\ Sound(x, sendq[p]) /\ TypeOK /\ x2 \in Proc
    BY Known DEF Moved
  <1>2. /\ x.state \in Shaking \ {"KEY"} /\ x2.state \in Shaking \ {"CONNECT"}
        /\ x2.state = "KEY" <=> x2.dir # "unknown"
        /\ x2.rand = x.rand /\ x2.open = x.open /\ x2.data_size = x.data_size
    BY DEF Proceeds
  <1>3. Sound(x2, sendq'[p])
    <2>1. sendq'[p] # <<>> => x2.writable
      BY <1>1, EmptySeq, LenProperties
    <2>2. x.dir = "unknown" /\ ~(x.data_size > 0) /\ ~x.open
      BY <1>1, <1>2 DEF Sound, Shaking
    <2>3. x2.state \in Shaking \ {"CONNECT"} /\ ~(x2.data_size > 0) /\ ~x2.open
      BY <1>2, <2>2
    <2> QED BY <1>2, <2>1, <2>3 DEF Sound, Shaking, Sending
  <1>4. NowPaired(p, rest, msgs)
    <2>1. ASSUME Running(q)
          PROVE  Linked(x2, p = Connector, Stream(p) \o msgs,
                        proc[q], q = Connector, rest \o sendq[q], grown')
      BY <2>1, <1>2, Shakes DEF Proceeds, Steps
    <2>2. ASSUME ~Running(q)
          PROVE  Legal(x2, rest \o sendq[q], sendq'[p], grown')
      <3> DEFINE t == rest \o sendq[q]
                 s == Stream(q)
      <3>1. \/ t = s /\ Read(x2) = Read(x)
            \/ Shorter(s, t) /\ Read(x2) = Read(x) + 1
        <4>1. CASE rest = net[p] /\ Read(x2) = Read(x)
          <5>1. Other(q) = p
            BY Known
          <5> QED BY <4>1, <5>1 DEF Stream
        <4>2. CASE net[p] # <<>> /\ rest = Tail(net[p]) /\ Read(x2) = Read(x) + 1
          BY <1>1, <4>2, ReadsFirst
        <4> QED BY <4>1, <4>2
      <3>2. Legal(x, s, sendq[p], grown)
        BY AlwaysLegal
      <3>3. grown => grown'
        BY DEF Kept
      <3> HIDE DEF t, s
      <3>4. Legal(x2, t, sendq'[p], grown)
        BY <1>2, <3>1, <3>2, LegalInHandshake
      <3>5. Legal(x2, t, sendq'[p], grown')
        BY <3>3, <3>4, LegalLonger
      <3> QED BY <3>5 DEF t
    <2> QED BY <2>1, <2>2 DEF NowPaired
  <1>5. x2.rand = x.rand /\ x2.state # "ended"
    BY <1>2 DEF Shaking
  <1>6. rest = net[p] \/ (net[p] # <<>> /\ rest = Tail(net[p]))
    OBVIOUS
  <1> QED BY <1>3, <1>4, <1>5, <1>6, StepInv

LEMMA HelloIs ==
    /\ Hello \in Seq(Msg) /\ Len(Hello) = 2
    /\ Hello[1].type = "MyNick" /\ Hello[2].type = "Lock"
    /\ <<>> \in Seq(Msg) /\ Len(<<>>) = 0
  <1>1. [type |-> "MyNick"] \in Msg /\ [type |-> "Lock"] \in Msg
    BY DEF Msg
  <1> QED BY <1>1 DEF Hello

LEMMA NothingSaid ==
    ASSUME NEW p, NEW msgs, Len(msgs) \in Nat,
           \A i \in 1..Len(msgs) : msgs[i].type \notin {"Direction", "Get"}
    PROVE  \A i \in 1..Len(msgs) : NowSays(msgs[i], p)
  BY DEF NowSays

LEMMA HelloFollows ==
    ASSUME NEW c, NEW msgs, c => msgs = Hello, ~c => msgs = <<>>
    PROVE  /\ msgs \in Seq(Msg) /\ Len(msgs) \in Nat
           /\ Len(msgs) = IF c THEN 2 ELSE 0
           /\ \A j \in 1..Len(msgs) : /\ msgs[j].type = Script[j]
                                      /\ msgs[j].type \notin {"Get", "Direction"}
  <1>1. CASE c
    <2>1. \A j \in 1..2 : j = 1 \/ j = 2
      OBVIOUS
    <2>2. \A j \in 1..2 : Hello[j].type = Script[j] /\ Hello[j].type \notin {"Get", "Direction"}
      BY <2>1, HelloIs, ScriptIs
    <2>3. Len(Hello) = 2 /\ 2 \in Nat /\ Hello \in Seq(Msg) /\ 1..Len(Hello) = 1..2
      BY HelloIs
    <2>4. msgs = Hello
      BY <1>1
    <2> HIDE DEF Hello
    <2> QED BY <1>1, <2>2, <2>3, <2>4
  <1>2. CASE ~c
    BY <1>2, HelloIs
  <1> QED BY <1>1, <1>2

LEMMA ConnectedInv ==
    ASSUME Inv, NEW p \in Peer, Connected(p)
    PROVE  Inv'
  <1> DEFINE c == p = Connector
             msgs == IF c THEN Hello ELSE <<>>
             x == proc[p]
             r == [x EXCEPT !.state = "MYNICK", !.writable = FALSE]
             x2 == proc'[p]
  <1>1. /\ x.state = "CONNECT" /\ Put(p, net[p], msgs, r) /\ UNCHANGED history
    BY DEF Connected
  <1>2. Running(p)
    BY <1>1 DEF Running
  <1>3. /\ TypeOK /\ x \in Proc /\ Sound(x, sendq[p]) /\ Asking(x, answers[p])
        /\ net[p] \in Seq(Msg) /\ sendq[p] \in Seq(Msg)
    BY <1>2, Known
  <1>4. /\ msgs \in Seq(Msg) /\ Len(msgs) \in Nat /\ Len(msgs) = IF c THEN 2 ELSE 0
        /\ \A j \in 1..Len(msgs) : /\ msgs[j].type = Script[j]
                                   /\ msgs[j].type \notin {"Get", "Direction"}
    <2>1. (c => msgs = Hello) /\ (~c => msgs = <<>>)
      OBVIOUS
    <2> HIDE DEF msgs, c
    <2> QED BY <2>1, HelloFollows
  <1> HIDE DEF c, msgs
  <1>5. r \in Proc
    BY <1>3 DEF Proc, UserState
  <1>6. Len(sendq[p]) = 0
    BY <1>1, <1>3 DEF Sound
  <1>7. /\ Moved(p, net[p], msgs) /\ Alike(x2, r)
        /\ Len(sendq'[p]) > 0 => x2.writable
    <2>1. Len(sendq[p]) > 0 => r.writable
      BY <1>6
    <2> HIDE DEF r
    <2> QED BY <1>1, <1>3, <1>4, <1>5, <2>1, PutMoves
  <1>8. /\ x2.state = "MYNICK" /\ x2.dir = x.dir /\ x2.open = x.open /\ x2.rand = x.rand
        /\ x2.data_size = x.data_size
    BY <1>3, <1>7 DEF Alike, Proc
  <1>9. x.dir = "unknown"
    BY <1>1, <1>3 DEF Sound
  <1>10. /\ Sent(x, c) = 0 /\ Sent(x2, c) = (IF c THEN 2 ELSE 0)
         /\ Read(x) = 0 /\ Read(x2) = 0
    BY <1>1, <1>8, SentRead
  <1>11. Proceeds(x, x2, c, msgs)
    BY <1>1, <1>4, <1>8, <1>9, <1>10 DEF Proceeds, Shaking
  <1>12. Kept(p) /\ answers' = answers
    BY <1>1, HistoryKept DEF history
  <1>13. Asking(x2, answers'[p])
    BY <1>1, <1>3, <1>8, <1>12 DEF Asking
  <1>14. \A i \in 1..Len(msgs) : NowSays(msgs[i], p)
    BY <1>4, NothingSaid
  <1>15. NowChosen(p)
    BY <1>8, <1>9, NotChosenYet
  <1> QED BY <1>2, <1>4, <1>7, <1>10, <1>11, <1>12, <1>13, <1>14, <1>15, ShakeInv DEF c

LEMMA ReceiveMyNickInv ==
    ASSUME Inv, NEW p \in Peer, ReceiveMyNick(p)
    PROVE  Inv'
  <1> DEFINE c == p = Connector
             msgs == IF c THEN <<>> ELSE Hello
             x == proc[p]
             r == [x EXCEPT !.state = "LOCK"]
             x2 == proc'[p]
  <1>1. /\ Readable(p) /\ x.state = "MYNICK" /\ UNCHANGED history
        /\ End(p) \/ Put(p, Tail(net[p]), msgs, r)
    BY DEF ReceiveMyNick, Command
  <1>2. /\ Running(p) /\ TypeOK /\ x \in Proc /\ Sound(x, sendq[p]) /\ Asking(x, answers[p])
        /\ net[p] # <<>> /\ Tail(net[p]) \in Seq(Msg) /\ sendq[p] \in Seq(Msg)
    BY <1>1, Reading, Known
  <1>3. Kept(p) /\ answers' = answers
    BY <1>1, HistoryKept DEF history
  <1>4. CASE End(p)
    BY <1>2, <1>3, <1>4, EndsInv
  <1>5. CASE Put(p, Tail(net[p]), msgs, r)
    <2>1. /\ msgs \in Seq(Msg) /\ Len(msgs) \in Nat /\ Len(msgs) = IF ~c THEN 2 ELSE 0
          /\ \A j \in 1..Len(msgs) : /\ msgs[j].type = Script[j]
                                     /\ msgs[j].type \notin {"Get", "Direction"}
      <3>1. (~c => msgs = Hello) /\ (~~c => msgs = <<>>)
        OBVIOUS
      <3> DEFINE d == ~c
      <3>2. (d => msgs = Hello) /\ (~d => msgs = <<>>)
        BY <3>1
      <3>3. ASSUME d => msgs = Hello, ~d => msgs = <<>>
            PROVE  /\ msgs \in Seq(Msg) /\ Len(msgs) \in Nat /\ Len(msgs) = IF d THEN 2 ELSE 0
                   /\ \A j \in 1..Len(msgs) : /\ msgs[j].type = Script[j]
                                              /\ msgs[j].type \notin {"Get", "Direction"}
        <4> HIDE DEF msgs, d
        <4> QED BY <3>3, HelloFollows
      <3> QED BY <3>2, <3>3
    <2> HIDE DEF c, msgs
    <2>2. r \in Proc
      BY <1>2 DEF Proc, UserState
    <2>3. Len(sendq[p]) > 0 => r.writable
      BY <1>2 DEF Sound, Proc
    <2>4. /\ Moved(p, Tail(net[p]), msgs) /\ Alike(x2, r)
          /\ Len(sendq'[p]) > 0 => x2.writable
      <3> HIDE DEF r
      <3> QED BY <1>2, <1>5, <2>1, <2>2, <2>3, PutMoves
    <2>5. /\ x2.state = "LOCK" /\ x2.dir = x.dir /\ x2.open = x.open /\ x2.rand = x.rand
          /\ x2.data_size = x.data_size
      BY <1>2, <2>4 DEF Alike, Proc
    <2>6. x.dir = "unknown"
      BY <1>1, <1>2 DEF Sound
    <2>7. /\ Sent(x, c) = (IF c THEN 2 ELSE 0) /\ Sent(x2, c) = 2
          /\ Read(x) = 0 /\ Read(x2) = 1
      BY <1>1, <2>5, SentRead
    <2>8. Proceeds(x, x2, c, msgs)
      BY <1>1, <2>1, <2>5, <2>6, <2>7 DEF Proceeds, Shaking
    <2>9. Asking(x2, answers'[p])
      BY <1>1, <1>2, <2>5, <1>3 DEF Asking
    <2>10. \A i \in 1..Len(msgs) : NowSays(msgs[i], p)
      BY <2>1, NothingSaid
    <2>11. NowChosen(p)
      BY <2>5, <2>6, NotChosenYet
    <2>12. Read(x2) = Read(x) + 1
      BY <2>7
    <2> QED BY <1>2, <1>3, <2>1, <2>4, <2>8, <2>9, <2>10, <2>11, <2>12, ShakeInv DEF c
  <1> QED BY <1>1, <1>4, <1>5

(* What is sent after $Lock.                                               *)
LEMMA ThreeAre ==
    ASSUME NEW download \in BOOLEAN, NEW rand \in Rand, NEW m,
           m = <<[type |-> "Supports"],
                 [type |-> "Direction", download |-> download, rand |-> rand],
                 [type |-> "Key"]>>
    PROVE  /\ m \in Seq(Msg) /\ Len(m) = 3
           /\ m[1].type = "Supports" /\ m[2].type = "Direction" /\ m[3].type = "Key"
           /\ m[2].download = download /\ m[2].rand = rand
  <1>1. /\ [type |-> "Supports"] \in Msg /\ [type |-> "Key"] \in Msg
        /\ [type |-> "Direction", download |-> download, rand |-> rand] \in Msg
    BY DEF Msg
  <1> QED BY <1>1

LEMMA ReceiveLockInv ==
    ASSUME Inv, NEW p \in Peer, ReceiveLock(p)
    PROVE  Inv'
  <1> DEFINE c == p = Connector
             x == proc[p]
             r == [x EXCEPT !.state = "SUPPORTS"]
             x2 == proc'[p]
  <1>1. PICK download \in BOOLEAN :
            /\ Put(p, Tail(net[p]),
                   <<[type |-> "Supports"],
                     [type |-> "Direction", download |-> download, rand |-> x.rand],
                     [type |-> "Key"]>>, r)
            /\ answers' = [answers EXCEPT ![p] = <<download>>]
    BY DEF ReceiveLock
  <1> DEFINE m == <<[type |-> "Supports"],
                    [type |-> "Direction", download |-> download, rand |-> x.rand],
                    [type |-> "Key"]>>
  <1>2. /\ Readable(p) /\ x.state = "LOCK" /\ UNCHANGED <<grown, misread>>
    BY DEF ReceiveLock, Command
  <1>3. /\ Running(p) /\ TypeOK /\ x \in Proc /\ Sound(x, sendq[p]) /\ Asking(x, answers[p])
        /\ net[p] # <<>> /\ Tail(net[p]) \in Seq(Msg) /\ sendq[p] \in Seq(Msg)
    BY <1>2, Reading, Known
  <1>4. /\ m \in Seq(Msg) /\ Len(m) = 3
        /\ m[1].type = "Supports" /\ m[2].type = "Direction" /\ m[3].type = "Key"
        /\ m[2].download = download /\ m[2].rand = x.rand
    <2>1. x.rand \in Rand
      BY <1>3 DEF Proc
    <2> HIDE DEF x
    <2>2. download \in BOOLEAN
      BY <1>1
    <2> HIDE DEF m
    <2>3. m = <<[type |-> "Supports"],
                [type |-> "Direction", download |-> download, rand |-> x.rand],
                [type |-> "Key"]>>
      BY DEF m
    <2> QED BY <2>1, <2>2, <2>3, ThreeAre, Zenon
  <1>5. Put(p, Tail(net[p]), m, r)
    BY <1>1
  <1> HIDE DEF m, c
  <1>6. r \in Proc /\ (Len(sendq[p]) > 0 => r.writable)
    BY <1>3 DEF Proc, UserState, Sound
  <1>7. /\ Moved(p, Tail(net[p]), m) /\ Alike(x2, r)
        /\ Len(sendq'[p]) > 0 => x2.writable
    <2> HIDE DEF r
    <2> QED BY <1>3, <1>4, <1>5, <1>6, PutMoves
  <1>8. /\ x2.state = "SUPPORTS" /\ x2.dir = x.dir /\ x2.open = x.open /\ x2.rand = x.rand
        /\ x2.data_size = x.data_size
    BY <1>3, <1>7 DEF Alike, Proc
  <1>9. x.dir = "unknown" /\ answers[p] = <<>>
    BY <1>2, <1>3 DEF Sound, Asking
  <1>10. Sent(x, c) = 2 /\ Sent(x2, c) = 5 /\ Read(x) = 1 /\ Read(x2) = 2
    BY <1>2, <1>8, SentRead
  <1>11. \A j \in 1..Len(m) : j = 1 \/ j = 2 \/ j = 3
    BY <1>4
  <1>12. Proceeds(x, x2, c, m)
    <2>1. \A j \in 1..Len(m) : m[j].type = Script[Sent(x, c) + j] /\ m[j].type # "Get"
      BY <1>4, <1>10, <1>11, ScriptIs
    <2> QED BY <1>2, <1>4, <1>8, <1>9, <1>10, <2>1 DEF Proceeds, Shaking
  <1>13. answers \in [Peer -> Seq(BOOLEAN)] /\ Other(p) \in Peer /\ Other(p) # p
    BY <1>3, Known DEF TypeOK
  <1>14. /\ answers' \in [Peer -> Seq(BOOLEAN)] /\ answers'[p] = <<download>>
         /\ answers'[Other(p)] = answers[Other(p)]
    BY <1>1, <1>13
  <1>15. Kept(p)
    BY <1>2, <1>9, <1>14 DEF Kept, Inv, TypeOK, DataIsData
  <1>16. Len(answers'[p]) = 1 /\ answers'[p][1] = download /\ answers'[p] # <<>>
    BY <1>14
  <1>17. Asking(x2, answers'[p])
    BY <1>8, <1>16 DEF Asking
  <1>18. \A i \in 1..Len(m) : NowSays(m[i], p)
    BY <1>4, <1>8, <1>11, <1>16 DEF NowSays
  <1>19. NowChosen(p)
    BY <1>8, <1>9, NotChosenYet
  <1>20. Read(x2) = Read(x) + 1
    BY <1>10
  <1> QED BY <1>3, <1>4, <1>7, <1>12, <1>15, <1>17, <1>18, <1>19, <1>20, ShakeInv DEF c

LEMMA ReceiveSupportsInv ==
    ASSUME Inv, NEW p \in Peer, ReceiveSupports(p)
    PROVE  Inv'
  <1> DEFINE c == p = Connector
             x == proc[p]
             r == [x EXCEPT !.state = "DIRECTION"]
             x2 == proc'[p]
  <1>1. /\ Readable(p) /\ x.state = "SUPPORTS" /\ UNCHANGED history /\ Become(p, r)
    BY DEF ReceiveSupports, Command
  <1>2. /\ Running(p) /\ TypeOK /\ x \in Proc /\ Sound(x, sendq[p]) /\ Asking(x, answers[p])
        /\ net[p] # <<>> /\ sendq[p] \in Seq(Msg)
    BY <1>1, Reading, Known
  <1>3. Kept(p) /\ answers' = answers
    BY <1>1, HistoryKept DEF history
  <1>4. r \in Proc
    BY <1>2 DEF Proc, UserState
  <1>5. Moved(p, Tail(net[p]), <<>>) /\ x2 = r /\ sendq'[p] = sendq[p]
    <2> HIDE DEF r
    <2> QED BY <1>1, <1>2, <1>4, BecomeMoves
  <1>6. /\ x2.state = "DIRECTION" /\ x2.dir = x.dir /\ x2.open = x.open /\ x2.rand = x.rand
        /\ x2.data_size = x.data_size /\ x2.writable = x.writable
    BY <1>2, <1>5 DEF Proc
  <1>7. x.dir = "unknown" /\ (Len(sendq'[p]) > 0 => x2.writable)
    BY <1>1, <1>2, <1>5, <1>6 DEF Sound
  <1> HIDE DEF c
  <1>8. Sent(x, c) = 5 /\ Sent(x2, c) = 5 /\ Read(x) = 2 /\ Read(x2) = 3
    BY <1>1, <1>6, SentRead
  <1>9. Proceeds(x, x2, c, <<>>)
    BY <1>1, <1>6, <1>7, <1>8, HelloIs DEF Proceeds, Shaking
  <1>10. Asking(x2, answers'[p])
    BY <1>1, <1>2, <1>3, <1>6 DEF Asking
  <1>11. NowChosen(p)
    BY <1>6, <1>7, NotChosenYet
  <1>12. Read(x2) = Read(x) + 1 /\ \A i \in 1..Len(<<>>) : NowSays(<<>>[i], p)
    BY <1>8, HelloIs
  <1> QED BY <1>2, <1>3, <1>5, <1>7, <1>9, <1>10, <1>11, <1>12, HelloIs, ShakeInv DEF c

LEMMA ReceiveDirectionInv ==
    ASSUME Inv, NEW p \in Peer, ReceiveDirection(p)
    PROVE  Inv'
  <1> DEFINE c == p = Connector
             q == Other(p)
             x == proc[p]
             m == Head(net[p])
             x2 == proc'[p]
  <1>1. PICK we \in BOOLEAN :
            /\ \/ End(p)
               \/ /\ m.download \/ we
                  /\ Become(p, [x EXCEPT !.state = "KEY",
                                         !.dir = Direction(m.download, we, m.rand, x.rand)])
            /\ answers' = [answers EXCEPT ![p] = Append(@, we)]
    BY DEF ReceiveDirection
  <1>2. /\ Readable(p) /\ x.state = "DIRECTION" /\ m.type = "Direction"
        /\ UNCHANGED <<grown, misread>>
    BY DEF ReceiveDirection, Command
  <1>3. /\ Running(p) /\ TypeOK /\ x \in Proc /\ Sound(x, sendq[p]) /\ Asking(x, answers[p])
        /\ net[p] # <<>> /\ sendq[p] \in Seq(Msg) /\ answers[p] \in Seq(BOOLEAN)
        /\ q \in Peer /\ q # p /\ Other(q) = p
        /\ m = Stream(q)[1] /\ Len(Stream(q)) > 0 /\ Len(Stream(q)) \in Nat
    BY <1>2, Reading, Known
  <1>4. /\ answers[q] # <<>> /\ m.download = answers[q][1] /\ m.rand = proc[q].rand
    <2>1. Announced(q) /\ 1 \in 1..Len(Stream(q))
      BY <1>3, Known
    <2> QED BY <1>2, <1>3, <2>1 DEF Announced, Says
  <1>5. Len(answers[p]) = 1
    BY <1>2, <1>3 DEF Asking
  <1>6. /\ answers' \in [Peer -> Seq(BOOLEAN)] /\ answers'[q] = answers[q]
        /\ answers'[p] = Append(answers[p], we)
    BY <1>1, <1>3 DEF TypeOK
  <1>7. /\ Len(answers'[p]) = 2 /\ answers'[p][1] = answers[p][1] /\ answers'[p][2] = we
        /\ answers'[p] # <<>>
    <2>1. answers[p] \in Seq(BOOLEAN)
      BY <1>3
    <2>2. /\ Len(Append(answers[p], we)) = Len(answers[p]) + 1
          /\ \A i \in 1..Len(answers[p]) : Append(answers[p], we)[i] = answers[p][i]
          /\ Append(answers[p], we)[Len(answers[p]) + 1] = we
      BY <2>1, AppendProperties
    <2>3. 1 \in 1..Len(answers[p]) /\ Len(answers[p]) + 1 = 2
      BY <1>5
    <2>4. Len(answers'[p]) = 2 /\ answers'[p][1] = answers[p][1] /\ answers'[p][2] = we
      BY <1>6, <2>2, <2>3
    <2> QED BY <2>4, HelloIs
  <1>8. Kept(p)
    BY <1>2, <1>6, <1>7 DEF Kept, Inv, TypeOK, DataIsData
  <1>9. CASE End(p)
    <2>1. x.dir = "unknown"
      BY <1>2, <1>3 DEF Sound
    <2>2. x2.dir = x.dir
      BY <1>3, <1>9 DEF End, TypeOK, Proc
    <2>3. NowChosen(p)
      BY <2>1, <2>2, NotChosenYet
    <2>4. Len(answers'[p]) <= 2
      BY <1>7
    <2> QED BY <1>3, <1>8, <1>9, <2>3, <2>4, EndInv
  <1>10. ASSUME m.download \/ we,
                Become(p, [x EXCEPT !.state = "KEY",
                                    !.dir = Direction(m.download, we, m.rand, x.rand)])
         PROVE  Inv'
    <2> DEFINE dir == Direction(m.download, we, m.rand, x.rand)
               r == [x EXCEPT !.state = "KEY", !.dir = dir]
    <2>1. dir \in {"send", "receive"}
      <3>1. m.download \in BOOLEAN /\ we \in BOOLEAN
        BY <1>3, <1>4, ElementOfSeq DEF TypeOK
      <3> QED BY <3>1 DEF Direction
    <2> HIDE DEF dir
    <2>2. r \in Proc
      BY <1>3, <2>1 DEF Proc, UserState
    <2>3. Become(p, r)
      BY <1>10 DEF dir
    <2>4. Moved(p, Tail(net[p]), <<>>) /\ x2 = r /\ sendq'[p] = sendq[p]
      <3> HIDE DEF r
      <3> QED BY <1>3, <2>2, <2>3, BecomeMoves
    <2>5. /\ x2.state = "KEY" /\ x2.dir = dir /\ x2.open = x.open /\ x2.rand = x.rand
          /\ x2.data_size = x.data_size /\ x2.writable = x.writable
      BY <1>3, <2>4 DEF Proc
    <2>6. Len(sendq'[p]) > 0 => x2.writable
      BY <1>3, <2>4, <2>5 DEF Sound
    <2>7. NowChosen(p)
      <3>1. proc'[q] = proc[q]
        BY <2>4 DEF Moved
      <3> QED BY <1>4, <1>6, <1>7, <1>10, <2>5, <3>1 DEF NowChosen, dir
    <2> HIDE DEF c
    <2>8. Sent(x, c) = 5 /\ Sent(x2, c) = 5 /\ Read(x) = 3 /\ Read(x2) = 4
      BY <1>2, <2>5, SentRead
    <2>9. Proceeds(x, x2, c, <<>>)
      BY <1>2, <2>1, <2>5, <2>8, HelloIs DEF Proceeds, Shaking
    <2>10. Asking(x2, answers'[p])
      BY <1>7, <2>5 DEF Asking
    <2>11. Read(x2) = Read(x) + 1 /\ \A i \in 1..Len(<<>>) : NowSays(<<>>[i], p)
      BY <2>8, HelloIs
    <2> QED BY <1>3, <1>8, <2>4, <2>6, <2>7, <2>9, <2>10, <2>11, HelloIs, ShakeInv DEF c
  <1> QED BY <1>1, <1>9, <1>10

-----------------------------------------------------------------------------
(* The steps of a receiver *)

(* A receiver asks for the next file, whichever it is, or ends.            *)
LEMMA NextFileInv ==
    ASSUME Inv, NEW p \in Peer, Readable(p), NEW msgs \in Seq(Msg), NEW r \in Proc,
           DownloadNextFile(p, msgs, r), Kept(p), answers'[p] = answers[p],
           proc[p].state \notin {"CONNECT", "MYNICK", "LOCK", "SUPPORTS", "DIRECTION"},
           proc[p].dir = "receive", r.dir = "receive", r.rand = proc[p].rand,
           r.open = proc[p].open, r.writable = proc[p].writable, r.data_size = 0,
           \A i \in 1..Len(msgs) : msgs[i].type \notin {"Direction", "Get"},
           \A m \in Msg :
               proc'[p] \in Proc /\ proc'[p].state = "FILE_LENGTH" /\ Asked(proc'[p], m) =>
                   NowPaired(p, Tail(net[p]), msgs \o <<m>>)
    PROVE  Inv'
  <1> DEFINE y == proc[p]
             q == Other(p)
             x2 == proc'[p]
  <1>1. /\ Running(p) /\ TypeOK /\ y \in Proc /\ Sound(y, sendq[p]) /\ Asking(y, answers[p])
        /\ net[p] # <<>> /\ Tail(net[p]) \in Seq(Msg) /\ sendq[p] \in Seq(Msg)
    BY Reading, Known
  <1>2. CASE End(p)
    BY <1>1, <1>2, EndsInv
  <1>3. CASE ~End(p)
    <2>0. PICK size \in Size \cup {Unknown} :
              /\ r.files < MaxFiles
              /\ \E resume \in IF size = Unknown THEN {0} ELSE Size :
                     Put(p, Tail(net[p]), msgs \o <<[type |-> "Get", n |-> resume + 1]>>,
                         [r EXCEPT !.state = "FILE_LENGTH", !.file_size = size,
                                   !.file_pos = resume, !.files = @ + 1])
      BY <1>3 DEF DownloadNextFile
    <2>1. PICK resume \in IF size = Unknown THEN {0} ELSE Size :
              /\ r.files < MaxFiles
              /\ Put(p, Tail(net[p]), msgs \o <<[type |-> "Get", n |-> resume + 1]>>,
                     [r EXCEPT !.state = "FILE_LENGTH", !.file_size = size,
                               !.file_pos = resume, !.files = @ + 1])
      BY <2>0
    <2> DEFINE m == [type |-> "Get", n |-> resume + 1]
               r2 == [r EXCEPT !.state = "FILE_LENGTH", !.file_size = size,
                               !.file_pos = resume, !.files = @ + 1]
               all == msgs \o <<m>>
    <2>2. /\ resume \in Nat /\ resume + 1 \in 0..Width - 1 /\ resume \in 0..Width - 1
          /\ size \in 0..Width - 1
      BY PeerAssumption DEF Size, Unknown
    <2>3. m \in Msg /\ m.type = "Get" /\ m.n = resume + 1
      BY <2>2 DEF Msg
    <2>4. r.files + 1 \in 0..MaxFiles
      BY <2>1, PeerAssumption DEF Proc
    <2>5. r2 \in Proc
      BY <2>2, <2>4 DEF Proc, UserState
    <2>6. /\ r2.state = "FILE_LENGTH" /\ r2.file_pos = resume /\ r2.rand = y.rand
          /\ r2.dir = "receive" /\ r2.open = y.open /\ r2.writable = y.writable
          /\ r2.data_size = 0
      BY DEF Proc
    <2>7. Put(p, Tail(net[p]), all, r2)
      BY <2>1
    <2> HIDE DEF m, r2
    <2>8. /\ all \in Seq(Msg) /\ Len(msgs) \in Nat /\ Len(all) = Len(msgs) + 1
          /\ \A i \in 1..Len(msgs) : all[i] = msgs[i]
          /\ all[Len(msgs) + 1] = m
      BY <2>3, OneMore
    <2> HIDE DEF all
    <2>9. Len(sendq[p]) > 0 => r2.writable
      BY <1>1, <2>6 DEF Sound
    <2>10. /\ Moved(p, Tail(net[p]), all) /\ Alike(x2, r2)
           /\ Len(sendq'[p]) > 0 => x2.writable
      BY <1>1, <2>5, <2>7, <2>8, <2>9, PutMoves
    <2>11. /\ x2 \in Proc /\ x2.state = "FILE_LENGTH" /\ x2.file_pos = resume /\ x2.rand = y.rand
           /\ x2.dir = "receive" /\ x2.open = y.open /\ x2.data_size = 0
      BY <2>6, <2>10 DEF Alike
    <2>12. Sound(x2, sendq'[p])
      <3>1. ~x2.open
        BY <1>1, <2>11 DEF Sound
      <3>2. sendq'[p] \in Seq(Msg)
        BY <2>10 DEF Moved
      <3>3. sendq'[p] # <<>> => x2.writable
        BY <2>10, <3>2, EmptySeq, LenProperties
      <3> QED BY <2>11, <3>1, <3>3 DEF Sound, Sending
    <2>13. Asking(x2, answers'[p])
      BY <1>1, <2>11 DEF Asking
    <2>14. \A i \in 1..Len(all) : NowSays(all[i], p)
      <3> SUFFICES ASSUME NEW i \in 1..Len(all)
                   PROVE  NowSays(all[i], p)
        OBVIOUS
      <3>1. CASE i \in 1..Len(msgs)
        BY <2>8, <3>1 DEF NowSays
      <3>2. CASE i = Len(msgs) + 1
        <4>1. all[i] = m /\ m.n > 0
          BY <2>2, <2>3, <2>8, <3>2
        <4> QED BY <2>3, <4>1 DEF NowSays
      <3> QED BY <2>8, <3>1, <3>2
    <2>15. NowChosen(p)
      <3>1. proc'[q] = proc[q]
        BY <2>10 DEF Moved
      <3> QED BY <2>11, <3>1, ChoiceKept
    <2>16. Asked(x2, m)
      BY <2>3, <2>11 DEF Asked
    <2>17. NowPaired(p, Tail(net[p]), all)
      BY <2>3, <2>11, <2>16 DEF all
    <2>18. x2.state # "ended"
      BY <2>11
    <2> QED BY <1>1, <2>8, <2>10, <2>11, <2>12, <2>13, <2>14, <2>15, <2>17, <2>18, StepInv
  <1> QED BY <1>2, <1>3

(* A request behind nothing else.                                          *)
LEMMA OneMessage ==
    ASSUME NEW m \in Msg
    PROVE  <<>> \o <<m>> = <<m>> /\ <<m>> \in Seq(Msg) /\ Len(<<m>>) = 1 /\ <<m>>[1] = m
  OBVIOUS

LEMMA ReceiveKeyInv ==
    ASSUME Inv, NEW p \in Peer, ReceiveKey(p)
    PROVE  Inv'
  <1> DEFINE c == p = Connector
             q == Other(p)
             x == proc[p]
             x2 == proc'[p]
             t == Tail(net[p]) \o sendq[q]
  <1>1. /\ Readable(p) /\ x.state = "KEY" /\ UNCHANGED history
    BY DEF ReceiveKey, Command
  <1>2. /\ Running(p) /\ TypeOK /\ x \in Proc /\ Sound(x, sendq[p]) /\ Asking(x, answers[p])
        /\ net[p] # <<>> /\ Tail(net[p]) \in Seq(Msg) /\ sendq[p] \in Seq(Msg)
        /\ Legal(x, Stream(q), sendq[p], grown) /\ Shorter(Stream(q), t)
    BY <1>1, Reading, Known
  <1>3. Kept(p) /\ answers' = answers /\ grown' = grown
    BY <1>1, HistoryKept DEF history
  <1>4. x.dir \in {"send", "receive"} /\ x.data_size = 0 /\ Sent(x, c) = 5 /\ Read(x) = 4
    BY <1>1, <1>2, SentRead DEF Sound, Proc
  <1>5. CASE x.dir = "send"
    <2> DEFINE r == [x EXCEPT !.state = "GET"]
    <2>1. Become(p, r)
      BY <1>5 DEF ReceiveKey
    <2>2. r \in Proc
      BY <1>2 DEF Proc, UserState
    <2>3. Moved(p, Tail(net[p]), <<>>) /\ x2 = r /\ sendq'[p] = sendq[p]
      <3> HIDE DEF r
      <3> QED BY <1>2, <2>1, <2>2, BecomeMoves
    <2>4. /\ x2.state = "GET" /\ x2.dir = x.dir /\ x2.open = x.open /\ x2.rand = x.rand
          /\ x2.data_size = x.data_size /\ x2.writable = x.writable
          /\ x2.file_size = x.file_size /\ x2.file_pos = x.file_pos /\ x2.final_pos = x.final_pos
      BY <1>2, <2>3 DEF Proc
    <2> HIDE DEF c
    <2>5. Sent(x2, c) = 5 /\ Read(x2) = 5
      BY <2>4, SentRead DEF Shaking
    <2>6. Sound(x2, sendq'[p])
      BY <1>1, <1>2, <1>4, <1>5, <2>3, <2>4 DEF Sound, Sending
    <2>7. NowPaired(p, Tail(net[p]), <<>>)
      <3>1. ASSUME Running(q)
            PROVE  Linked(x2, c, Stream(p) \o <<>>, proc[q], q = Connector, t, grown')
        <4>1. Sent(x2, c) = Sent(x, c) + Len(<<>>) /\ x2.state \in Steps /\ x.state \in Shaking
          BY <1>1, <1>4, <2>4, <2>5, HelloIs DEF Steps, Shaking
        <4>2. Read(x2) = Read(x) + 1
          BY <1>4, <2>5
        <4>3. \A j \in 1..Len(<<>>) : /\ <<>>[j].type = Script[Sent(x, c) + j]
                                      /\ <<>>[j].type = "Get" => <<>>[j].n = x2.file_pos + 1
          BY HelloIs
        <4> QED BY <1>2, <3>1, <4>1, <4>2, <4>3, HelloIs, Shakes DEF c
      <3>2. Legal(x2, t, sendq'[p], grown)
        BY <1>1, <1>2, <2>4, LegalAfterKey
      <3> QED BY <1>3, <3>1, <3>2 DEF NowPaired, c
    <2>8. NowChosen(p)
      <3>1. proc'[q] = proc[q]
        BY <2>3 DEF Moved
      <3> QED BY <1>3, <2>4, <3>1, ChoiceKept
    <2>9. Asking(x2, answers'[p])
      BY <1>2, <1>3, <2>4 DEF Asking
    <2>10. \A i \in 1..Len(<<>>) : NowSays(<<>>[i], p)
      BY HelloIs
    <2>11. x2.state # "ended"
      BY <2>4
    <2> QED BY <1>2, <1>3, <2>3, <2>4, <2>6, <2>7, <2>8, <2>9, <2>10, <2>11, HelloIs, StepInv
  <1>6. CASE x.dir = "receive"
    <2>1. DownloadNextFile(p, <<>>, x)
      BY <1>6 DEF ReceiveKey
    <2>2. ASSUME NEW m \in Msg, x2 \in Proc, x2.state = "FILE_LENGTH", Asked(x2, m)
          PROVE  NowPaired(p, Tail(net[p]), <<>> \o <<m>>)
      <3> DEFINE s == <<m>>
      <3>1. <<>> \o <<m>> = s /\ s \in Seq(Msg) /\ Len(s) = 1 /\ s[1] = m
        BY OneMessage
      <3> HIDE DEF s, c
      <3>2. Sent(x2, c) = 6 /\ Read(x2) = 5
        BY <2>2, SentRead DEF Shaking
      <3>3. ASSUME Running(q)
            PROVE  Linked(x2, c, Stream(p) \o s, proc[q], q = Connector, t, grown')
        <4>1. Sent(x2, c) = Sent(x, c) + Len(s) /\ x2.state \in Steps /\ x.state \in Shaking
          BY <1>1, <1>4, <2>2, <3>1, <3>2 DEF Steps, Shaking
        <4>2. Read(x2) = Read(x) + 1
          BY <1>4, <3>2
        <4>3. \A j \in 1..Len(s) : /\ s[j].type = Script[Sent(x, c) + j]
                                   /\ s[j].type = "Get" => s[j].n = x2.file_pos + 1
          <5>1. \A j \in 1..Len(s) : j = 1
            BY <3>1
          <5>2. s[1].type = Script[6] /\ s[1].n = x2.file_pos + 1
            BY <2>2, <3>1, ScriptIs DEF Asked
          <5> QED BY <1>4, <5>1, <5>2
        <4> QED BY <1>2, <3>1, <3>3, <4>1, <4>2, <4>3, Shakes DEF c
      <3>4. Legal(x2, t, sendq'[p], grown)
        BY <1>1, <1>2, <2>2, LegalAfterKey
      <3> QED BY <1>3, <3>1, <3>3, <3>4 DEF NowPaired, c
    <2>3. \A i \in 1..Len(<<>>) : <<>>[i].type \notin {"Direction", "Get"}
      BY HelloIs
    <2>4. x.state \notin {"CONNECT", "MYNICK", "LOCK", "SUPPORTS", "DIRECTION"}
      BY <1>1
    <2> QED BY <1>1, <1>2, <1>3, <1>4, <1>6, <2>1, <2>2, <2>3, <2>4, HelloIs, NextFileInv
  <1> QED BY <1>4, <1>5, <1>6

LEMMA Alone ==
    ASSUME NEW s \in Seq(Msg), NEW m \in Msg, Len(s) = 0
    PROVE  Len(s \o (<<>> \o <<m>>)) = 1 /\ (s \o (<<>> \o <<m>>))[1] = m
  <1>1. <<>> \o <<m>> = <<m>>
    BY OneMessage
  <1>2. Len(s \o <<m>>) = Len(s) + 1 /\ (s \o <<m>>)[Len(s) + 1] = m
    BY OneMore
  <1>3. Len(s \o <<m>>) = 0 + 1 /\ (s \o <<m>>)[0 + 1] = m
    BY <1>2
  <1> QED BY <1>1, <1>3

LEMMA ReceiveErrorInv ==
    ASSUME Inv, NEW p \in Peer, ReceiveError(p)
    PROVE  Inv'
  <1> DEFINE c == p = Connector
             cq == Other(p) = Connector
             q == Other(p)
             x == proc[p]
             x2 == proc'[p]
             t == Tail(net[p]) \o sendq[q]
  <1>1. /\ Readable(p) /\ x.state = "FILE_LENGTH" /\ UNCHANGED history /\ x.data_size = 0
        /\ Head(net[p]).type = "Error" /\ DownloadNextFile(p, <<>>, x)
    BY DEF ReceiveError, Command
  <1>2. /\ Running(p) /\ x \in Proc /\ Sound(x, sendq[p])
        /\ Legal(x, Stream(q), sendq[p], grown) /\ Shorter(Stream(q), t)
        /\ Len(Stream(q)) > 0 /\ Stream(q)[1].type = "Error"
        /\ Stream(p) \in Seq(Msg) /\ Len(Stream(q)) \in Nat
    BY <1>1, Reading, Known
  <1>3. Kept(p) /\ answers' = answers /\ grown' = grown
    BY <1>1, HistoryKept DEF history
  <1>4. x.dir = "receive"
    BY <1>1, <1>2 DEF Sound
  <1>5. ASSUME NEW m \in Msg, x2 \in Proc, x2.state = "FILE_LENGTH", Asked(x2, m)
        PROVE  NowPaired(p, Tail(net[p]), <<>> \o <<m>>)
    <2>1. ASSUME Running(q)
          PROVE  Linked(x2, c, Stream(p) \o (<<>> \o <<m>>), proc[q], cq, t, grown')
      <3>1. Linked(x, c, Stream(p), proc[q], cq, Stream(q), grown)
        BY <1>2, <2>1, Known DEF Pair
      <3> HIDE DEF c, cq, t
      <3>2. Len(Stream(p)) = 0 /\ Len(Stream(q)) = 1 /\ proc[q].state \in {"GET", "SEND_GET"}
        BY <1>1, <1>2, <3>1, RefusalComes
      <3>3. Len(t) = 0
        BY <1>2, <3>2 DEF Shorter
      <3> DEFINE s == Stream(p) \o (<<>> \o <<m>>)
      <3>4. Len(s) = 1 /\ s[1] = m
        BY <1>2, <3>2, Alone
      <3> HIDE DEF s
      <3>5. Linked(x2, c, s, proc[q], cq, t, grown')
        BY <1>5, <3>2, <3>3, <3>4, NowWaits
      <3> QED BY <3>5 DEF s
    <2>2. Legal(x2, t, sendq'[p], grown)
      <3>1. x2.data_size \in Nat
        BY <1>5, PeerAssumption DEF Proc
      <3> QED BY <1>1, <1>2, <3>1, LegalAfterOne
    <2> QED BY <1>3, <2>1, <2>2 DEF NowPaired
  <1>6. \A i \in 1..Len(<<>>) : <<>>[i].type \notin {"Direction", "Get"}
    BY HelloIs
  <1>7. x.state \notin {"CONNECT", "MYNICK", "LOCK", "SUPPORTS", "DIRECTION"}
    BY <1>1
  <1> QED BY <1>1, <1>2, <1>3, <1>4, <1>5, <1>6, <1>7, HelloIs, NextFileInv

LEMMA ReceiveMaxedOutInv ==
    ASSUME Inv, NEW p \in Peer, ReceiveMaxedOut(p)
    PROVE  Inv'
  <1>1. Readable(p) /\ End(p) /\ UNCHANGED history
    BY DEF ReceiveMaxedOut, Command
  <1>2. Running(p) /\ Kept(p) /\ answers' = answers
    BY <1>1, HistoryKept DEF Readable, history
  <1> QED BY <1>1, <1>2, EndsInv

(* The first unit of data is the one at the receiver's position, and it is *)
(* the last one if the size is reached.                                    *)
LEMMA DataIsHere ==
    ASSUME NEW x \in Proc, NEW out, NEW s, NEW o, NEW longer, Sound(x, out),
           x.state = "DATA_RECV", Legal(x, s, o, longer), Len(s) \in Nat, Len(s) > 0
    PROVE  /\ s[1].type = "Data" /\ s[1].n = x.file_pos
           /\ (x.file_pos + 1) % Width = x.file_pos + 1 /\ x.file_pos + 1 \in 0..Width - 1
           /\ x.file_pos + 1 = x.file_size <=> x.data_size = 1
  <1>1. /\ x.file_pos \in Nat /\ x.data_size \in Nat /\ x.file_size \in Nat
        /\ x.data_size < Width /\ x.file_size < Width /\ Width \in Nat /\ MaxSize \in Nat
        /\ MaxSize < Width - 1
    BY PeerAssumption DEF Proc
  <1>2. /\ x.data_size > 0
        /\ x.file_pos + x.data_size = x.file_size \/ x.file_pos + x.data_size = x.file_size + Width
    BY DEF Sound
  <1>3. Contents(x, s) /\ 1 \in 1..Len(s)
    BY DEF Legal
  <1>4. s[1].type = "Data" /\ s[1].n = x.file_pos + 1 - 1 /\ s[1].n < MaxSize
    BY <1>3 DEF Contents
  <1>5. s[1].n = x.file_pos /\ x.file_pos < MaxSize
    BY <1>1, <1>4
  <1>6. \A n \in Nat : n < Width => n % Width = n
    BY <1>1
  <1>7. x.file_pos + 1 \in Nat /\ x.file_pos + 1 < Width
    BY <1>1, <1>5
  <1>8. (x.file_pos + 1) % Width = x.file_pos + 1 /\ x.file_pos + 1 \in 0..Width - 1
    <2>1. (x.file_pos + 1) % Width = x.file_pos + 1
      BY <1>6, <1>7, Zenon
    <2> QED BY <1>1, <1>7, <2>1
  <1>9. x.file_pos + 1 = x.file_size <=> x.data_size = 1
    <2>1. CASE x.file_pos + x.data_size = x.file_size
      BY <1>1, <2>1
    <2>2. CASE x.file_pos + x.data_size = x.file_size + Width
      BY <1>1, <1>5, <2>2
    <2> QED BY <1>2, <2>1, <2>2
  <1> QED BY <1>4, <1>5, <1>8, <1>9

(* The rest of a file, when its length is read.                            *)
LEMMA RestIs ==
    ASSUME NEW size \in 0..Width - 1, NEW pos \in 0..Width - 1
    PROVE  LET rest == (size - pos) % Width IN
           /\ rest \in 0..Width - 1
           /\ pos + rest \in {size, size + Width}
           /\ pos <= size => rest = size - pos
           /\ rest = 0 => size = pos
  <1>1. (size - pos) % Width = IF pos <= size THEN size - pos ELSE size - pos + Width
    BY Wrapped
  <1> DEFINE rest == (size - pos) % Width
  <1>2. rest = IF pos <= size THEN size - pos ELSE size - pos + Width
    BY <1>1
  <1>3. Width \in Nat
    BY PeerAssumption
  <1> HIDE DEF rest
  <1>4. /\ rest \in 0..Width - 1
        /\ pos + rest \in {size, size + Width}
        /\ pos <= size => rest = size - pos
        /\ rest = 0 => size = pos
    BY <1>2, <1>3
  <1> QED BY <1>4 DEF rest

LEMMA SendIs ==
    LET send == <<[type |-> "Send"]>> IN
    /\ send \in Seq(Msg) /\ Len(send) = 1 /\ send[1].type = "Send"
    /\ \A i \in 1..Len(send) : send[i].type \notin {"Direction", "Get"}
  <1>1. [type |-> "Send"] \in Msg
    BY DEF Msg
  <1> QED BY <1>1

(* $Send and a request behind it.                                          *)
LEMMA SendAndGet ==
    ASSUME NEW s \in Seq(Msg), NEW m \in Msg, Len(s) = 0
    PROVE  LET all == s \o (<<[type |-> "Send"]>> \o <<m>>) IN
           Len(all) = 2 /\ all[1].type = "Send" /\ all[2] = m
  <1> DEFINE send == <<[type |-> "Send"]>>
             two == send \o <<m>>
  <1>1. send \in Seq(Msg) /\ Len(send) = 1 /\ send[1].type = "Send"
    BY SendIs
  <1> HIDE DEF send
  <1>2. /\ two \in Seq(Msg) /\ Len(two) = Len(send) + 1
        /\ \A i \in 1..Len(send) : two[i] = send[i]
        /\ two[Len(send) + 1] = m
    BY <1>1, OneMore
  <1> HIDE DEF two
  <1>3. Len(two) = 2 /\ two[1].type = "Send" /\ two[2] = m
    BY <1>1, <1>2
  <1>4. s = <<>>
    BY EmptySeq
  <1>5. s \o two = two
    BY <1>2, <1>4, ConcatEmptySeq
  <1> QED BY <1>3, <1>5 DEF two, send

LEMMA JustSend ==
    ASSUME NEW s \in Seq(Msg), Len(s) = 0
    PROVE  LET all == s \o <<[type |-> "Send"]>> IN Len(all) = 1 /\ all[1].type = "Send"
  <1>1. [type |-> "Send"] \in Msg
    BY DEF Msg
  <1> DEFINE m == [type |-> "Send"]
  <1>2. m.type = "Send" /\ m \in Msg
    BY <1>1
  <1> HIDE DEF m
  <1>3. Len(s \o <<m>>) = Len(s) + 1 /\ (s \o <<m>>)[Len(s) + 1] = m
    BY <1>2, OneMore
  <1>4. Len(s \o <<m>>) = 0 + 1 /\ (s \o <<m>>)[0 + 1] = m
    BY <1>3
  <1> QED BY <1>2, <1>4 DEF m

(* What the receiver and the sender have when the length is read; size is  *)
(* what the receiver takes it to be.                                       *)
LEMMA LengthFits ==
    ASSUME NEW x \in Proc, NEW y \in Proc, NEW sx, NEW sy, NEW out, NEW length,
           NEW size \in 0..Width - 1, NEW longer, LengthIsNext(x, y, sx, sy), Sound(y, out),
           length = sy[1].n, length >= size, ~longer => ~(length > size)
    PROVE  LET rest == (size - x.file_pos) % Width IN
           /\ y.final_pos <= MaxSize /\ y.final_pos = length
           /\ ~longer => rest = y.final_pos - x.file_pos
           /\ rest = 0 /\ ~longer => y.final_pos = y.file_pos
  <1> DEFINE rest == (size - x.file_pos) % Width
  <1>1. /\ x.file_pos \in 0..Width - 1 /\ y.final_pos \in Nat /\ y.file_pos \in Nat
    BY PeerAssumption DEF Proc
  <1>2. /\ y.open /\ y.file_pos = x.file_pos /\ y.final_pos = length
    BY DEF LengthIsNext
  <1>3. y.file_pos <= y.final_pos /\ y.final_pos <= MaxSize
    BY <1>2 DEF Sound
  <1>4. /\ x.file_pos <= size => rest = size - x.file_pos
        /\ rest = 0 => size = x.file_pos
    BY <1>1, RestIs
  <1> HIDE DEF rest
  <1>5. ~longer => length = size
    <2>1. length \in Nat /\ size \in Nat
      BY <1>1, <1>2, PeerAssumption
    <2> QED BY <2>1
  <1>6. /\ ~longer => rest = y.final_pos - x.file_pos
        /\ rest = 0 /\ ~longer => y.final_pos = y.file_pos
    BY <1>2, <1>3, <1>4, <1>5
  <1> QED BY <1>2, <1>3, <1>6 DEF rest

LEMMA ReceiveFileLengthInv ==
    ASSUME Inv, NEW p \in Peer, ReceiveFileLength(p)
    PROVE  Inv'
  <1> DEFINE c == p = Connector
             cq == Other(p) = Connector
             q == Other(p)
             x == proc[p]
             x2 == proc'[p]
             t == Tail(net[p]) \o sendq[q]
             length == Head(net[p]).n
             size == IF x.file_size = Unknown THEN length ELSE x.file_size
             rest == (size - x.file_pos) % Width
             r == [x EXCEPT !.file_size = size]
             send == <<[type |-> "Send"]>>
             r2 == [r EXCEPT !.state = "DATA_RECV", !.data_size = rest]
  <1>1. /\ Readable(p) /\ x.state = "FILE_LENGTH" /\ x.data_size = 0
        /\ Head(net[p]).type = "FileLength" /\ UNCHANGED <<answers, misread>>
        /\ grown' = (grown \/ length > size)
        /\ \/ DownloadNextFile(p, <<>>, r)
           \/ length >= size /\ rest = 0 /\ DownloadNextFile(p, send, r)
           \/ length >= size /\ rest # 0 /\ Put(p, Tail(net[p]), send, r2)
    BY DEF ReceiveFileLength, Command
  <1>2. /\ Running(p) /\ TypeOK /\ x \in Proc /\ Sound(x, sendq[p]) /\ Asking(x, answers[p])
        /\ Legal(x, Stream(q), sendq[p], grown) /\ Shorter(Stream(q), t)
        /\ Len(Stream(q)) > 0 /\ Head(net[p]) = Stream(q)[1] /\ Head(net[p]) \in Msg
        /\ Stream(p) \in Seq(Msg) /\ Len(Stream(q)) \in Nat
        /\ net[p] # <<>> /\ Tail(net[p]) \in Seq(Msg) /\ sendq[p] \in Seq(Msg)
        /\ q \in Peer
    BY <1>1, Reading, Known
  <1>3. length \in 0..Width - 1 /\ size \in 0..Width - 1 /\ x.file_pos \in 0..Width - 1
    <2>1. length \in 0..Width - 1
      BY <1>1, <1>2 DEF Msg
    <2> QED BY <1>2, <2>1 DEF Proc
  <1>4. /\ rest \in 0..Width - 1
        /\ x.file_pos + rest \in {size, size + Width}
    BY <1>3, RestIs
  <1>5. grown' \in BOOLEAN /\ (grown => grown') /\ (~grown' => ~(length > size))
    BY <1>1, <1>2 DEF TypeOK
  <1>6. Kept(p) /\ answers' = answers
    BY <1>1, <1>5 DEF Kept, Inv, TypeOK, DataIsData
  <1>7. x.dir = "receive" /\ ~x.open
    BY <1>1, <1>2 DEF Sound
  <1>8. Stream(q)[1].type = "FileLength" /\ Stream(q)[1].n = length
    BY <1>1, <1>2
  <1>9. ASSUME Running(q)
        PROVE  LengthIsNext(x, proc[q], Stream(p), Stream(q))
    <2>1. Linked(x, c, Stream(p), proc[q], cq, Stream(q), grown)
      BY <1>2, <1>9, Known DEF Pair
    <2> HIDE DEF c, cq
    <2> QED BY <1>1, <1>2, <1>8, <2>1, LengthComes
  <1>10. ASSUME Running(q), length >= size
         PROVE  /\ proc[q].final_pos <= MaxSize
                /\ ~grown' => rest = proc[q].final_pos - x.file_pos
                /\ rest = 0 /\ ~grown' => proc[q].final_pos = proc[q].file_pos
    <2>1. proc[q] \in Proc /\ Sound(proc[q], sendq[q])
      BY <1>2, <1>10, Known
    <2>2. LengthIsNext(x, proc[q], Stream(p), Stream(q))
      BY <1>9, <1>10
    <2> HIDE DEF x, q, length, size
    <2> QED BY <1>2, <1>3, <1>5, <1>8, <1>10, <2>1, <2>2, LengthFits
  <1>11. Running(q) => Len(t) = 0 /\ Len(Stream(p)) = 0
    <2>1. Running(q) => Len(Stream(q)) = 1 /\ Len(Stream(p)) = 0
      BY <1>9 DEF LengthIsNext
    <2>2. Len(t) = Len(Stream(q)) - 1
      BY <1>2, Zenon DEF Shorter
    <2> HIDE DEF t
    <2> QED BY <2>1, <2>2
  <1>12. ASSUME x2 \in Proc
         PROVE  Legal(x2, t, sendq'[p], grown')
    <2>1. x2.data_size \in Nat
      BY <1>12, PeerAssumption DEF Proc
    <2> HIDE DEF t, x2
    <2> QED BY <1>1, <1>2, <1>8, <2>1, LegalAfterOne
  <1>13. r \in Proc
    BY <1>2, <1>3 DEF Proc
  <1>14. /\ r.dir = x.dir /\ r.rand = x.rand /\ r.open = x.open /\ r.writable = x.writable
         /\ r.data_size = 0 /\ r.file_pos = x.file_pos /\ r.file_size = size
    BY <1>1, <1>2 DEF Proc
  <1>15. x.state \notin {"CONNECT", "MYNICK", "LOCK", "SUPPORTS", "DIRECTION"}
    BY <1>1
  <1> HIDE DEF t, length, size, rest
  <1>16. CASE DownloadNextFile(p, <<>>, r)
    <2>1. ASSUME NEW m \in Msg, x2 \in Proc, x2.state = "FILE_LENGTH", Asked(x2, m)
          PROVE  NowPaired(p, Tail(net[p]), <<>> \o <<m>>)
      <3> DEFINE s == Stream(p) \o (<<>> \o <<m>>)
      <3>1. ASSUME Running(q)
            PROVE  Linked(x2, c, s, proc[q], cq, t, grown')
        <4>1. Len(s) = 1 /\ s[1] = m
          BY <1>2, <1>11, <3>1, Alone
        <4>2. proc[q].state \in {"GET", "SEND_GET"}
          BY <1>9, <3>1 DEF LengthIsNext
        <4> HIDE DEF s, c, cq
        <4> QED BY <1>11, <2>1, <3>1, <4>1, <4>2, NowWaits
      <3> QED BY <1>12, <2>1, <3>1 DEF NowPaired, t
    <2>2. \A i \in 1..Len(<<>>) : <<>>[i].type \notin {"Direction", "Get"}
      BY HelloIs
    <2> HIDE DEF r
    <2> QED BY <1>1, <1>2, <1>6, <1>7, <1>13, <1>14, <1>15, <1>16, <2>1, <2>2, HelloIs,
               NextFileInv
  <1>17. CASE length >= size /\ rest = 0 /\ DownloadNextFile(p, send, r)
    <2>1. ASSUME NEW m \in Msg, x2 \in Proc, x2.state = "FILE_LENGTH", Asked(x2, m)
          PROVE  NowPaired(p, Tail(net[p]), send \o <<m>>)
      <3> DEFINE s == Stream(p) \o (send \o <<m>>)
      <3>1. ASSUME Running(q)
            PROVE  Linked(x2, c, s, proc[q], cq, t, grown')
        <4>1. Len(s) = 2 /\ s[1].type = "Send" /\ s[2] = m
          BY <1>2, <1>11, <3>1, SendAndGet
        <4>2. proc[q].state = "SEND_GET" /\ proc[q].open
          BY <1>9, <3>1 DEF LengthIsNext
        <4>3. ~grown' => proc[q].final_pos = proc[q].file_pos
          BY <1>10, <1>17, <3>1
        <4> HIDE DEF s, c, cq
        <4> QED BY <1>11, <2>1, <3>1, <4>1, <4>2, <4>3, NowSkips
      <3> QED BY <1>12, <2>1, <3>1 DEF NowPaired, t
    <2>2. send \in Seq(Msg) /\ \A i \in 1..Len(send) : send[i].type \notin {"Direction", "Get"}
      BY SendIs
    <2> HIDE DEF r, send
    <2> QED BY <1>1, <1>2, <1>6, <1>7, <1>13, <1>14, <1>15, <1>17, <2>1, <2>2, NextFileInv
  <1>18. CASE length >= size /\ rest # 0 /\ Put(p, Tail(net[p]), send, r2)
    <2>1. r2 \in Proc
      BY <1>4, <1>13 DEF Proc, UserState
    <2>2. /\ r2.state = "DATA_RECV" /\ r2.data_size = rest /\ r2.dir = "receive" /\ ~r2.open
          /\ r2.rand = x.rand /\ r2.writable = x.writable /\ r2.file_pos = x.file_pos
          /\ r2.file_size = size
      BY <1>7, <1>13, <1>14 DEF Proc
    <2>3. /\ send \in Seq(Msg) /\ Len(send) = 1 /\ send[1].type = "Send"
          /\ \A i \in 1..Len(send) : send[i].type \notin {"Direction", "Get"}
      BY SendIs
    <2>4. Len(sendq[p]) > 0 => r2.writable
      BY <1>2, <2>2 DEF Sound
    <2>5. /\ Moved(p, Tail(net[p]), send) /\ Alike(x2, r2)
          /\ Len(sendq'[p]) > 0 => x2.writable
      <3> HIDE DEF r2, send
      <3> QED BY <1>2, <1>18, <2>1, <2>3, <2>4, PutMoves
    <2>6. /\ x2 \in Proc /\ x2.state = "DATA_RECV" /\ x2.data_size = rest /\ x2.dir = "receive"
          /\ ~x2.open /\ x2.rand = x.rand /\ x2.file_pos = x.file_pos /\ x2.file_size = size
      BY <2>2, <2>5 DEF Alike
    <2>7. Sound(x2, sendq'[p])
      <3>1. sendq'[p] \in Seq(Msg)
        BY <2>5 DEF Moved
      <3>2. sendq'[p] # <<>> => x2.writable
        BY <2>5, <3>1, EmptySeq, LenProperties
      <3>3. rest > 0
        BY <1>4, <1>18
      <3> QED BY <1>4, <2>6, <3>2, <3>3 DEF Sound, Sending
    <2>8. NowPaired(p, Tail(net[p]), send)
      <3> DEFINE s == Stream(p) \o send
      <3>1. ASSUME Running(q)
            PROVE  Linked(x2, c, s, proc[q], cq, t, grown')
        <4>1. Len(s) = 1 /\ s[1].type = "Send"
          BY <1>2, <1>11, <3>1, JustSend
        <4>2. proc[q].state = "SEND_GET" /\ proc[q].open /\ proc[q].file_pos = x2.file_pos
          BY <1>9, <2>6, <3>1 DEF LengthIsNext
        <4>3. proc[q].final_pos <= MaxSize /\ Fits(x2, proc[q], grown')
          BY <1>10, <1>18, <2>6, <3>1 DEF Fits
        <4> HIDE DEF s, c, cq
        <4> QED BY <1>11, <2>6, <3>1, <4>1, <4>2, <4>3, NowReceives
      <3> QED BY <1>12, <2>6, <3>1 DEF NowPaired, t
    <2>9. NowChosen(p)
      <3>1. proc'[q] = proc[q]
        BY <2>5 DEF Moved
      <3> QED BY <1>6, <1>7, <2>6, <3>1, ChoiceKept
    <2>10. Asking(x2, answers'[p])
      BY <1>2, <1>6, <2>6 DEF Asking
    <2>11. \A i \in 1..Len(send) : NowSays(send[i], p)
      BY <2>3 DEF NowSays
    <2>12. x2.state # "ended"
      BY <2>6
    <2> HIDE DEF send
    <2> QED BY <1>2, <1>6, <2>3, <2>5, <2>6, <2>7, <2>8, <2>9, <2>10, <2>11, <2>12, StepInv
  <1> QED BY <1>1, <1>16, <1>17, <1>18

LEMMA ReceiveDataInv ==
    ASSUME Inv, NEW p \in Peer, ReceiveData(p)
    PROVE  Inv'
  <1> DEFINE c == p = Connector
             cq == Other(p) = Connector
             q == Other(p)
             x == proc[p]
             x2 == proc'[p]
             t == Tail(net[p]) \o sendq[q]
             pos == (x.file_pos + 1) % Width
             r == [x EXCEPT !.file_pos = pos, !.data_size = @ - 1]
  <1>1. /\ Readable(p) /\ x.data_size > 0 /\ Head(net[p]).type = "Data"
        /\ UNCHANGED <<answers, grown>>
        /\ misread' = (misread \/ Head(net[p]).n # x.file_pos)
        /\ \/ pos = x.file_size /\ DownloadNextFile(p, <<>>, r)
           \/ pos # x.file_size /\ Become(p, r)
    BY DEF ReceiveData
  <1>2. /\ Running(p) /\ TypeOK /\ x \in Proc /\ Sound(x, sendq[p]) /\ Asking(x, answers[p])
        /\ Legal(x, Stream(q), sendq[p], grown) /\ Shorter(Stream(q), t)
        /\ Len(Stream(q)) > 0 /\ Head(net[p]) = Stream(q)[1]
        /\ Stream(p) \in Seq(Msg) /\ Len(Stream(q)) \in Nat
        /\ net[p] # <<>> /\ Tail(net[p]) \in Seq(Msg) /\ sendq[p] \in Seq(Msg)
        /\ q \in Peer
    BY <1>1, Reading, Known
  <1>3. x.state = "DATA_RECV" /\ x.dir = "receive" /\ ~x.open
    BY <1>1, <1>2 DEF Sound
  <1>4. /\ Head(net[p]).n = x.file_pos /\ pos = x.file_pos + 1 /\ pos \in 0..Width - 1
        /\ pos = x.file_size <=> x.data_size = 1
    <2> HIDE DEF x, q
    <2> QED BY <1>2, <1>3, DataIsHere
  <1>5. /\ x.file_pos \in 0..Width - 1 /\ pos \in 0..Width - 1 /\ x.data_size - 1 \in 0..Width - 1
        /\ x.data_size \in Nat
    <2>1. x.file_pos \in 0..Width - 1 /\ x.data_size \in 0..Width - 1 /\ Width \in Nat
      BY <1>2, PeerAssumption DEF Proc
    <2> HIDE DEF x, pos
    <2> QED BY <1>1, <1>4, <2>1
  <1>6. Kept(p) /\ answers' = answers /\ grown' = grown
    BY <1>1, <1>4 DEF Kept, Inv, TypeOK, DataIsData
  <1>7. r \in Proc
    BY <1>2, <1>5 DEF Proc
  <1>8. /\ r.state = x.state /\ r.dir = x.dir /\ r.rand = x.rand /\ r.open = x.open
        /\ r.writable = x.writable /\ r.data_size = x.data_size - 1
        /\ r.file_pos = x.file_pos + 1 /\ r.file_size = x.file_size
    BY <1>2, <1>4 DEF Proc
  <1>9. ASSUME Running(q)
        PROVE  /\ DataIsNext(x, proc[q], Stream(p), Stream(q), grown)
               /\ proc[q] \in Proc /\ Sound(proc[q], sendq[q]) /\ sendq[q] \in Seq(Msg)
    <2>1. Linked(x, c, Stream(p), proc[q], cq, Stream(q), grown)
      BY <1>2, <1>9, Known DEF Pair
    <2> HIDE DEF c, cq
    <2> QED BY <1>2, <1>3, <1>9, <2>1, DataComes, Known
  <1>10. /\ Len(t) = Len(Stream(q)) - 1 /\ \A i \in 1..Len(t) : t[i] = Stream(q)[i + 1]
         /\ Len(t) \in Nat
    BY <1>2 DEF Shorter
  <1>11. Len(t) = 0 => sendq[q] = <<>>
    <2>1. sendq[q] \in Seq(Msg)
      BY <1>2, Known
    <2> DEFINE n == Tail(net[p])
               o == sendq[q]
    <2> HIDE DEF n, o
    <2>2. n \in Seq(Msg) /\ o \in Seq(Msg)
      BY <1>2, <2>1 DEF n, o
    <2>3. Len(n \o o) = Len(n) + Len(o) /\ Len(n) \in Nat /\ Len(o) \in Nat
      BY <2>2, ConcatLast
    <2>4. Len(n \o o) = 0 => o = <<>>
      BY <2>2, <2>3, EmptySeq
    <2> QED BY <2>4 DEF n, o
  <1> HIDE DEF t, pos
  <1>12. CASE pos = x.file_size /\ DownloadNextFile(p, <<>>, r)
    <2>1. ASSUME NEW m \in Msg, x2 \in Proc, x2.state = "FILE_LENGTH", Asked(x2, m)
          PROVE  NowPaired(p, Tail(net[p]), <<>> \o <<m>>)
      <3> DEFINE s == Stream(p) \o (<<>> \o <<m>>)
      <3>1. ASSUME Running(q)
            PROVE  Linked(x2, c, s, proc[q], cq, t, grown')
        <4>1. Len(Stream(p)) = 0
          BY <1>9, <3>1 DEF DataIsNext
        <4>2. Len(s) = 1 /\ s[1] = m
          BY <1>2, <4>1, Alone
        <4>3. proc[q].state = "DATA_SEND" =>
                  /\ proc[q].file_pos <= proc[q].final_pos
                  /\ Len(t) = 0 => proc[q].file_pos < proc[q].final_pos
          BY <1>9, <1>11, <3>1 DEF Sound
        <4>4. x.data_size = 1
          BY <1>4, <1>12
        <4> HIDE DEF s, c, cq, x, q, x2
        <4> QED BY <1>2, <1>6, <1>9, <1>10, <2>1, <3>1, <4>2, <4>3, <4>4, LastIsRead
      <3>2. Legal(x2, t, sendq'[p], grown)
        <4>1. x.data_size = 1
          BY <1>4, <1>12
        <4> HIDE DEF x, x2, q
        <4> QED BY <1>2, <1>3, <2>1, <4>1, LegalAfterData
      <3> QED BY <1>6, <3>1, <3>2 DEF NowPaired, t
    <2>2. \A i \in 1..Len(<<>>) : <<>>[i].type \notin {"Direction", "Get"}
      BY HelloIs
    <2>3. x.state \notin {"CONNECT", "MYNICK", "LOCK", "SUPPORTS", "DIRECTION"} /\ r.data_size = 0
      BY <1>3, <1>4, <1>8, <1>12
    <2> HIDE DEF r
    <2> QED BY <1>1, <1>2, <1>3, <1>6, <1>7, <1>8, <1>12, <2>1, <2>2, <2>3, HelloIs, NextFileInv
  <1>13. CASE pos # x.file_size /\ Become(p, r)
    <2>1. Moved(p, Tail(net[p]), <<>>) /\ x2 = r /\ sendq'[p] = sendq[p]
      <3> HIDE DEF r
      <3> QED BY <1>2, <1>7, <1>13, BecomeMoves
    <2>2. x2 \in Proc /\ x.data_size - 1 > 0
      BY <1>1, <1>4, <1>5, <1>7, <1>13, <2>1
    <2>3. Sound(x2, sendq'[p])
      <3>1. x2.file_pos + x2.data_size = x.file_pos + x.data_size
        <4>1. \A m, n \in Int : (m + 1) + (n - 1) = m + n
          OBVIOUS
        <4>2. x.file_pos \in Int /\ x.data_size \in Int
          BY <1>5
        <4> QED BY <1>8, <2>1, <4>1, <4>2
      <3>2. x.file_pos + x.data_size \in {x.file_size, x.file_size + Width}
        BY <1>2, <1>3 DEF Sound
      <3>3. sendq'[p] # <<>> => x2.writable
        BY <1>2, <1>8, <2>1 DEF Sound
      <3>4. /\ x2.state = "DATA_RECV" /\ x2.data_size > 0 /\ x2.dir = "receive" /\ ~x2.open
            /\ x2.file_pos + x2.data_size \in {x2.file_size, x2.file_size + Width}
        <4> HIDE DEF r, x, x2
        <4> QED BY <1>3, <1>8, <2>1, <2>2, <3>1, <3>2
      <3> HIDE DEF x2
      <3> QED BY <3>3, <3>4 DEF Sound, Sending
    <2>4. NowPaired(p, Tail(net[p]), <<>>)
      <3>1. x2.state = "DATA_RECV" /\ x2.file_pos = x.file_pos + 1 /\ x2.data_size = x.data_size - 1
        BY <1>3, <1>8, <2>1
      <3>2. ASSUME Running(q)
            PROVE  Linked(x2, c, Stream(p) \o <<>>, proc[q], cq, t, grown')
        <4>1. Stream(p) \o <<>> = Stream(p)
          BY <1>2, ConcatEmptySeq
        <4> HIDE DEF c, cq, x, q, x2
        <4>2. Linked(x2, c, Stream(p), proc[q], cq, t, grown)
          BY <1>2, <1>9, <1>10, <2>2, <3>1, <3>2, DataIsRead
        <4> QED BY <1>6, <4>1, <4>2
      <3>3. Legal(x2, t, sendq'[p], grown)
        <4> HIDE DEF x, x2, q
        <4> QED BY <1>2, <1>3, <2>2, <3>1, LegalAfterData
      <3> QED BY <1>6, <3>2, <3>3 DEF NowPaired, t
    <2>5. NowChosen(p)
      <3>1. proc'[q] = proc[q]
        BY <2>1 DEF Moved
      <3> QED BY <1>6, <1>8, <2>1, <3>1, ChoiceKept
    <2>6. Asking(x2, answers'[p])
      BY <1>2, <1>3, <1>6, <1>8, <2>1 DEF Asking
    <2>7. \A i \in 1..Len(<<>>) : NowSays(<<>>[i], p)
      BY HelloIs
    <2>8. x2.state # "ended" /\ x2.rand = x.rand
      BY <1>3, <1>8, <2>1
    <2> QED BY <1>2, <1>6, <2>1, <2>3, <2>4, <2>5, <2>6, <2>7, <2>8, HelloIs, StepInv
  <1> QED BY <1>1, <1>12, <1>13

(* Only after a file has grown is data read as a command or a command as   *)
(* data.                                                                   *)
LEMMA MisreadGrows ==
    ASSUME NEW x \in Proc, NEW out, NEW s, NEW o, NEW longer, Sound(x, out), Legal(x, s, o, longer),
           x.state \notin {"CONNECT", "ended"}, Len(s) \in Nat, Len(s) > 0,
           (s[1].type = "Data") # (x.data_size > 0)
    PROVE  longer
  <1>1. 1 \in 1..Len(s)
    OBVIOUS
  <1>2. (x.state = "DATA_RECV") <=> (x.data_size > 0)
    BY DEF Sound
  <1>3. CASE x.state = "DATA_RECV"
    BY <1>1, <1>2, <1>3 DEF Legal, Contents
  <1>4. CASE x.state # "DATA_RECV" /\ s[1].type = "Data"
    <2>1. CASE x.state \in Shaking
      <3>1. Len(s) <= 6 - Read(x) /\ s[1].type = Script[Read(x) + 1]
        <4>1. \A i \in 1..Len(s) : s[i].type = Script[Read(x) + i]
          BY <2>1 DEF Legal
        <4>2. Len(s) <= 6 - Read(x)
          BY <2>1 DEF Legal
        <4>3. s[1].type = Script[Read(x) + 1]
          BY <1>1, <4>1
        <4> QED BY <4>2, <4>3
      <3>2. Read(x) \in 0..4
        BY <2>1 DEF Read, Shaking
      <3>3. Read(x) + 1 \in 1..5
        BY <3>2
      <3> QED BY <1>4, <3>1, <3>3, ScriptIs
    <2>2. CASE x.state \in Sending
      BY <1>4, <2>2 DEF Legal
    <2>3. CASE x.state = "FILE_LENGTH"
      BY <1>4, <2>3 DEF Legal
    <2>4. x.state \in Shaking \cup Sending \cup {"FILE_LENGTH"}
      BY <1>4 DEF Shaking, Sending, Proc, UserState
    <2> QED BY <2>1, <2>2, <2>3, <2>4
  <1> QED BY <1>2, <1>3, <1>4

LEMMA MisreadInv ==
    ASSUME Inv, NEW p \in Peer, Misread(p)
    PROVE  Inv'
  <1> DEFINE q == Other(p)
  <1>1. /\ Readable(p) /\ (Head(net[p]).type = "Data") # (proc[p].data_size > 0)
        /\ misread' = TRUE /\ UNCHANGED <<answers, grown>>
        /\ proc' = [z \in Peer |-> [proc[z] EXCEPT !.state = "ended"]]
        /\ sendq' = [z \in Peer |-> <<>>] /\ net' = [z \in Peer |-> <<>>]
    BY DEF Misread
  <1>2. grown
    <2>1. /\ proc[p] \in Proc /\ Sound(proc[p], sendq[p])
          /\ Legal(proc[p], Stream(q), sendq[p], grown)
          /\ proc[p].state \notin {"CONNECT", "ended"}
          /\ Len(Stream(q)) \in Nat /\ Len(Stream(q)) > 0 /\ Head(net[p]) = Stream(q)[1]
      BY <1>1, Reading, Known DEF Running
    <2>2. (Stream(q)[1].type = "Data") # (proc[p].data_size > 0)
      BY <1>1, <2>1
    <2> HIDE DEF q
    <2> QED BY <2>1, <2>2, MisreadGrows
  <1>3. TypeOK
    BY DEF Inv
  <1>4. /\ proc' \in [Peer -> Proc]
        /\ \A z \in Peer : /\ proc'[z].state = "ended" /\ proc'[z].dir = proc[z].dir
                           /\ proc'[z].rand = proc[z].rand
    <2>1. proc' = [z \in Peer |-> [proc[z] EXCEPT !.state = "ended"]]
      BY <1>1
    <2>2. ASSUME NEW z \in Peer
          PROVE  LET e == [proc[z] EXCEPT !.state = "ended"]
                 IN  /\ e \in Proc /\ e.state = "ended" /\ e.dir = proc[z].dir
                     /\ e.rand = proc[z].rand
      <3>1. proc[z] \in Proc
        BY <1>3 DEF TypeOK
      <3> QED BY <3>1 DEF Proc, UserState
    <2> QED BY <2>1, <2>2
  <1>5. \A z \in Peer : sendq'[z] = <<>> /\ net'[z] = <<>>
    BY <1>1
  <1>6. TypeOK' /\ DataIsData'
    <2>1. sendq' \in [Peer -> Seq(Msg)] /\ net' \in [Peer -> Seq(Msg)]
      BY <1>1, HelloIs
    <2> QED BY <1>1, <1>2, <1>3, <1>4, <2>1 DEF TypeOK, DataIsData
  <1>7. ASSUME NEW z \in Peer
        PROVE  (Local(z) /\ Announced(z) /\ Chosen(z, Other(z)) /\ Pair(z, Other(z)))'
    <2>1. Other(z) \in Peer /\ Chosen(z, Other(z)) /\ Asking(proc[z], answers[z])
      BY Known
    <2>2. Local(z)'
      BY <1>1, <1>4, <1>5, <2>1 DEF Local, Running, Asking
    <2>3. Announced(z)'
      <3>1. net'[Other(z)] \o sendq'[z] = <<>>
        BY <1>5, <2>1
      <3> QED BY <3>1, HelloIs DEF Announced, Stream
    <2>4. Chosen(z, Other(z))'
      BY <1>1, <1>4, <2>1 DEF Chosen
    <2>5. Pair(z, Other(z))'
      BY <1>4 DEF Pair, Running
    <2> QED BY <2>2, <2>3, <2>4, <2>5
  <1> QED BY <1>6, <1>7 DEF Inv

(* The steps that only end the process.                                    *)
LEMMA EndingInv ==
    ASSUME Inv, NEW p \in Peer,
           ReceiveWrong(p) \/ ReadEOF(p) \/ Alarm(p) \/ Terminate(p)
    PROVE  Inv'
  <1>1. Running(p) /\ End(p) /\ UNCHANGED history
    BY DEF ReceiveWrong, ReadEOF, Alarm, Terminate, Readable, Idle
  <1>2. Kept(p) /\ answers' = answers
    BY <1>1, HistoryKept DEF history
  <1> QED BY <1>1, <1>2, EndsInv

-----------------------------------------------------------------------------
(* The steps of a sender *)

LEMMA OneIs ==
    ASSUME NEW m \in Msg, m.type \notin {"Direction", "Get"}, NEW p
    PROVE  /\ <<m>> \in Seq(Msg)
           /\ \A i \in 1..Len(<<m>>) : NowSays(<<m>>[i], p)
  BY DEF NowSays

(* The answer m to a $Get; the process becomes r.                          *)
LEMMA AnswerInv ==
    ASSUME Inv, NEW p \in Peer, ReceiveGet(p), NEW m \in Msg, NEW r \in Proc,
           Put(p, Tail(net[p]), <<m>>, r),
           r.dir = proc[p].dir, r.rand = proc[p].rand, r.writable = proc[p].writable,
           r.data_size = proc[p].data_size,
           \/ /\ m.type \in {"MaxedOut", "Error"} /\ r.state = proc[p].state /\ ~r.open
           \/ /\ m.type = "FileLength" /\ r.state = "SEND_GET" /\ r.open
              /\ r.file_pos = Head(net[p]).n - 1 /\ r.final_pos = m.n
              /\ r.file_size = r.final_pos /\ r.final_pos <= MaxSize
              /\ r.file_pos <= r.final_pos
    PROVE  Inv'
  <1> DEFINE c == p = Connector
             cq == Other(p) = Connector
             q == Other(p)
             x == proc[p]
             x2 == proc'[p]
             t == Tail(net[p]) \o sendq[q]
  <1>1. /\ Readable(p) /\ x.state \in {"GET", "SEND_GET"} /\ x.data_size = 0
        /\ Head(net[p]).type = "Get" /\ UNCHANGED history
    BY DEF ReceiveGet, Command
  <1>2. /\ Running(p) /\ TypeOK /\ x \in Proc /\ Sound(x, sendq[p]) /\ Asking(x, answers[p])
        /\ Legal(x, Stream(q), sendq[p], grown) /\ Shorter(Stream(q), t)
        /\ Len(Stream(q)) > 0 /\ Head(net[p]) = Stream(q)[1]
        /\ Stream(p) \in Seq(Msg) /\ Stream(q) \in Seq(Msg)
        /\ net[p] # <<>> /\ Tail(net[p]) \in Seq(Msg) /\ sendq[p] \in Seq(Msg)
        /\ q \in Peer
    BY <1>1, Reading, Known
  <1>3. Kept(p) /\ answers' = answers /\ grown' = grown
    BY <1>1, HistoryKept DEF history
  <1>4. x.dir = "send"
    BY <1>1, <1>2 DEF Sound, Sending
  <1>5. <<m>> \in Seq(Msg) /\ \A i \in 1..Len(<<m>>) : NowSays(<<m>>[i], p)
    <2>1. m.type \notin {"Direction", "Get"}
      OBVIOUS
    <2> QED BY <2>1, OneIs
  <1>6. Len(sendq[p]) > 0 => r.writable
    BY <1>2 DEF Sound
  <1>7. /\ Moved(p, Tail(net[p]), <<m>>) /\ Alike(x2, r)
        /\ Len(sendq'[p]) > 0 => x2.writable
    BY <1>2, <1>5, <1>6, PutMoves
  <1>8. /\ x2 \in Proc /\ x2.dir = "send" /\ x2.rand = x.rand /\ x2.data_size = 0
        /\ x2.state \in {"GET", "SEND_GET"}
        /\ \/ m.type \in {"MaxedOut", "Error"} /\ x2.state = x.state /\ ~x2.open
           \/ /\ m.type = "FileLength" /\ x2.state = "SEND_GET" /\ x2.open
              /\ x2.file_pos = Stream(q)[1].n - 1 /\ x2.final_pos = m.n
              /\ x2.file_size = x2.final_pos /\ x2.final_pos <= MaxSize
              /\ x2.file_pos <= x2.final_pos
    BY <1>1, <1>2, <1>4, <1>7 DEF Alike
  <1>9. Sound(x2, sendq'[p])
    <2>1. sendq'[p] \in Seq(Msg)
      BY <1>7 DEF Moved
    <2>2. sendq'[p] # <<>> => x2.writable
      BY <1>7, <2>1, EmptySeq, LenProperties
    <2> HIDE DEF x2
    <2> QED BY <1>8, <2>2 DEF Sound, Sending
  <1>10. NowPaired(p, Tail(net[p]), <<m>>)
    <2>1. ASSUME Running(q)
          PROVE  Linked(x2, c, Stream(p) \o <<m>>, proc[q], cq, t, grown')
      <3>1. Linked(x, c, Stream(p), proc[q], cq, Stream(q), grown)
        BY <1>2, <2>1, Known DEF Pair
      <3>2. proc[q].file_pos \in Nat
        <4>1. proc[q] \in Proc
          BY <1>2, Known
        <4> QED BY <4>1, PeerAssumption DEF Proc
      <3>3. Len(t) = Len(Stream(q)) - 1
        BY <1>2, Zenon DEF Shorter
      <3>4. Stream(q)[1].type = "Get"
        BY <1>1, <1>2
      <3> HIDE DEF c, cq, x, x2, q, t
      <3>5. \/ m.type \in {"MaxedOut", "Error"} /\ x2.state = x.state
            \/ /\ m.type = "FileLength" /\ x2.state = "SEND_GET" /\ x2.open
               /\ x2.file_pos = Stream(q)[1].n - 1 /\ x2.final_pos = m.n
        BY <1>8
      <3>6. Linked(x2, c, Stream(p) \o <<m>>, proc[q], cq, t, grown)
        BY <1>1, <1>2, <3>1, <3>2, <3>3, <3>4, <3>5, GetIsAnswered
      <3> QED BY <1>3, <3>6
    <2>2. Legal(x2, t, sendq'[p], grown)
      <3>1. x2.data_size \in Nat
        BY <1>8
      <3>2. x.state \in Sending /\ Stream(q)[1].type = "Get"
        BY <1>1, <1>2 DEF Sending
      <3> HIDE DEF x, x2, q, t
      <3> QED BY <1>2, <3>1, <3>2, LegalAfterOne
    <2> QED BY <1>3, <2>1, <2>2 DEF NowPaired
  <1>11. NowChosen(p)
    <2>1. proc'[q] = proc[q]
      BY <1>7 DEF Moved
    <2> QED BY <1>3, <1>4, <1>8, <2>1, ChoiceKept
  <1>12. Asking(x2, answers'[p])
    BY <1>2, <1>3, <1>8 DEF Asking
  <1>13. x2.state # "ended"
    BY <1>8
  <1> QED BY <1>2, <1>3, <1>5, <1>7, <1>8, <1>9, <1>10, <1>11, <1>12, <1>13, StepInv

LEMMA ReceiveGetInv ==
    ASSUME Inv, NEW p \in Peer, ReceiveGet(p)
    PROVE  Inv'
  <1> DEFINE x == proc[p]
             offset == Head(net[p]).n - 1
             closed == [x EXCEPT !.open = FALSE]
  <1>1. /\ Readable(p) /\ x.state \in {"GET", "SEND_GET"} /\ Head(net[p]).type = "Get"
        /\ \/ \E type \in {"MaxedOut", "Error"} :
                  Put(p, Tail(net[p]), <<[type |-> type]>>, closed)
           \/ \E size \in Size :
                  /\ offset <= size
                  /\ Put(p, Tail(net[p]), <<[type |-> "FileLength", n |-> size]>>,
                         [closed EXCEPT !.state = "SEND_GET", !.open = TRUE,
                                        !.file_pos = offset, !.file_size = size,
                                        !.final_pos = size])
    BY DEF ReceiveGet, Command
  <1>2. x \in Proc /\ Head(net[p]) \in Msg /\ Head(net[p]).n > 0
    <2>1. /\ Announced(Other(p)) /\ Head(net[p]) = Stream(Other(p))[1]
          /\ Len(Stream(Other(p))) > 0 /\ Len(Stream(Other(p))) \in Nat
          /\ x \in Proc /\ Head(net[p]) \in Msg
      BY <1>1, Reading, Known
    <2>2. 1 \in 1..Len(Stream(Other(p)))
      BY <2>1
    <2> QED BY <1>1, <2>1, <2>2 DEF Announced, Says
  <1>3. offset \in 0..Width - 1
    <2> DEFINE n == Head(net[p]).n
    <2>1. n \in 0..Width - 1 /\ Width \in Nat
      BY <1>1, <1>2, PeerAssumption DEF Msg
    <2>2. n > 0
      BY <1>2
    <2> HIDE DEF n
    <2>3. n - 1 \in 0..Width - 1
      BY <2>1, <2>2
    <2> QED BY <2>3 DEF n
  <1>4. closed \in Proc /\ closed.state = x.state /\ ~closed.open /\ closed.dir = x.dir
        /\ closed.rand = x.rand /\ closed.writable = x.writable
        /\ closed.data_size = x.data_size
    BY <1>2 DEF Proc
  <1>5. ASSUME NEW type \in {"MaxedOut", "Error"},
               Put(p, Tail(net[p]), <<[type |-> type]>>, closed)
        PROVE  Inv'
    <2> DEFINE m == [type |-> type]
    <2>1. m \in Msg /\ m.type \in {"MaxedOut", "Error"}
      BY DEF Msg
    <2>2. Put(p, Tail(net[p]), <<m>>, closed)
      BY <1>5
    <2> HIDE DEF m, closed
    <2> QED BY <1>4, <2>1, <2>2, AnswerInv
  <1>6. ASSUME NEW size \in Size, offset <= size,
               Put(p, Tail(net[p]), <<[type |-> "FileLength", n |-> size]>>,
                   [closed EXCEPT !.state = "SEND_GET", !.open = TRUE, !.file_pos = offset,
                                  !.file_size = size, !.final_pos = size])
        PROVE  Inv'
    <2> DEFINE m == [type |-> "FileLength", n |-> size]
               r == [closed EXCEPT !.state = "SEND_GET", !.open = TRUE, !.file_pos = offset,
                                   !.file_size = size, !.final_pos = size]
    <2>1. size \in 0..Width - 1 /\ size <= MaxSize
      BY PeerAssumption DEF Size
    <2>2. m \in Msg /\ m.type = "FileLength" /\ m.n = size
      BY <2>1 DEF Msg
    <2>3. r \in Proc
      BY <1>3, <1>4, <2>1 DEF Proc, UserState
    <2>4. /\ r.state = "SEND_GET" /\ r.open /\ r.file_pos = offset /\ r.file_size = size
          /\ r.final_pos = size /\ r.dir = x.dir /\ r.rand = x.rand
          /\ r.writable = x.writable /\ r.data_size = x.data_size
      BY <1>4 DEF Proc
    <2>5. Put(p, Tail(net[p]), <<m>>, r)
      BY <1>6
    <2> HIDE DEF m, r
    <2> QED BY <1>6, <2>1, <2>2, <2>3, <2>4, <2>5, AnswerInv
  <1> QED BY <1>1, <1>5, <1>6

LEMMA ReceiveSendInv ==
    ASSUME Inv, NEW p \in Peer, ReceiveSend(p)
    PROVE  Inv'
  <1> DEFINE c == p = Connector
             cq == Other(p) = Connector
             q == Other(p)
             x == proc[p]
             x2 == proc'[p]
             t == Tail(net[p]) \o sendq[q]
             all == x.final_pos = x.file_pos
             r == IF all THEN [x EXCEPT !.state = "GET", !.open = FALSE]
                         ELSE [x EXCEPT !.state = "DATA_SEND", !.writable = TRUE]
  <1>1. /\ Readable(p) /\ x.state = "SEND_GET" /\ x.data_size = 0
        /\ Head(net[p]).type = "Send" /\ UNCHANGED history /\ Become(p, r)
    BY DEF ReceiveSend, Command
  <1>2. /\ Running(p) /\ TypeOK /\ x \in Proc /\ Sound(x, sendq[p]) /\ Asking(x, answers[p])
        /\ Legal(x, Stream(q), sendq[p], grown) /\ Shorter(Stream(q), t)
        /\ Len(Stream(q)) > 0 /\ Stream(q)[1].type = "Send"
        /\ Stream(p) \in Seq(Msg) /\ Stream(q) \in Seq(Msg)
        /\ net[p] # <<>> /\ sendq[p] \in Seq(Msg)
        /\ q \in Peer
    BY <1>1, Reading, Known
  <1>3. Kept(p) /\ answers' = answers /\ grown' = grown
    BY <1>1, HistoryKept DEF history
  <1>4. x.open /\ Len(sendq[p]) = 0
    BY <1>1, <1>2 DEF Legal, Sending
  <1>5. /\ x.dir = "send" /\ x.file_size = x.final_pos
        /\ x.file_pos <= x.final_pos /\ x.final_pos <= MaxSize
    BY <1>2, <1>4 DEF Sound
  <1>6. r \in Proc
    BY <1>2 DEF Proc, UserState
  <1>7. /\ r.state = (IF all THEN "GET" ELSE "DATA_SEND")
        /\ r.open = (IF all THEN FALSE ELSE x.open)
        /\ r.writable = (IF all THEN x.writable ELSE TRUE)
        /\ r.rand = x.rand /\ r.dir = x.dir /\ r.data_size = x.data_size
        /\ r.file_pos = x.file_pos /\ r.final_pos = x.final_pos /\ r.file_size = x.file_size
    BY <1>2 DEF Proc
  <1>8. Moved(p, Tail(net[p]), <<>>) /\ x2 = r /\ sendq'[p] = sendq[p]
    <2> HIDE DEF r
    <2> QED BY <1>1, <1>2, <1>6, BecomeMoves
  <1>9. sendq[p] = <<>>
    BY <1>2, <1>4, EmptySeq
  <1>10. /\ x2 \in Proc /\ x2.rand = x.rand /\ x2.dir = "send" /\ x2.data_size = 0
         /\ x2.file_pos = x.file_pos /\ x2.final_pos = x.final_pos
         /\ x2.file_size = x.final_pos
         /\ x2.state = (IF all THEN "GET" ELSE "DATA_SEND")
         /\ x2.open = ~all /\ (~all => x2.writable)
    <2> HIDE DEF r
    <2> QED BY <1>1, <1>4, <1>5, <1>6, <1>7, <1>8
  <1>11. ~all => x2.file_pos < x2.final_pos /\ x2.final_pos > 0
    <2>1. x.file_pos \in Nat /\ x.final_pos \in Nat
      BY <1>2, PeerAssumption DEF Proc
    <2> HIDE DEF x2, x
    <2> QED BY <1>5, <1>10, <2>1
  <1>12. Sound(x2, sendq'[p])
    <2>1. /\ sendq'[p] = <<>> /\ x2.dir = "send" /\ x2.file_size = x2.final_pos
          /\ x2.file_pos <= x2.final_pos /\ x2.final_pos <= MaxSize /\ ~(x2.data_size > 0)
      <3> HIDE DEF x2
      <3> QED BY <1>5, <1>8, <1>9, <1>10
    <2>2. CASE all
      <3>1. x2.state = "GET" /\ ~x2.open
        BY <1>10, <2>2
      <3> HIDE DEF x2, all
      <3> QED BY <2>1, <3>1 DEF Sound, Sending
    <2>3. CASE ~all
      <3>1. /\ x2.state = "DATA_SEND" /\ x2.open /\ x2.writable
            /\ x2.file_pos < x2.final_pos /\ x2.final_pos > 0
        BY <1>10, <1>11, <2>3
      <3> HIDE DEF x2, all
      <3> QED BY <2>1, <3>1 DEF Sound, Sending
    <2> QED BY <2>2, <2>3
  <1>13. NowPaired(p, Tail(net[p]), <<>>)
    <2>1. ASSUME Running(q)
          PROVE  Linked(x2, c, Stream(p) \o <<>>, proc[q], cq, t, grown')
      <3>1. Linked(x, c, Stream(p), proc[q], cq, Stream(q), grown)
        BY <1>2, <2>1, Known DEF Pair
      <3>2. proc[q].file_pos \in Nat
        <4>1. proc[q] \in Proc
          BY <1>2, Known
        <4> QED BY <4>1, PeerAssumption DEF Proc
      <3>3. Len(t) = Len(Stream(q)) - 1 /\ \A i \in 1..Len(t) : t[i] = Stream(q)[i + 1]
        BY <1>2, Zenon DEF Shorter
      <3>4. Stream(p) \o <<>> = Stream(p)
        BY <1>2, ConcatEmptySeq
      <3>5. x2.state = IF x.final_pos = x.file_pos THEN "GET" ELSE "DATA_SEND"
        BY <1>10
      <3> HIDE DEF c, cq, x, x2, q, t, all
      <3>6. Linked(x2, c, Stream(p), proc[q], cq, t, grown)
        BY <1>1, <1>2, <1>10, <3>1, <3>2, <3>3, <3>5, SendIsFollowed
      <3> QED BY <1>3, <3>4, <3>6
    <2>2. Legal(x2, t, sendq'[p], grown)
      <3>1. x2.state \in Sending
        BY <1>10 DEF Sending
      <3> HIDE DEF x, x2, q, t
      <3> QED BY <1>1, <1>2, <3>1, LegalAfterSend
    <2> QED BY <1>3, <2>1, <2>2 DEF NowPaired
  <1>14. NowChosen(p)
    <2>1. proc'[q] = proc[q]
      BY <1>8 DEF Moved
    <2> QED BY <1>3, <1>5, <1>10, <2>1, ChoiceKept
  <1>15. Asking(x2, answers'[p])
    <2> HIDE DEF x2
    <2> QED BY <1>2, <1>3, <1>10 DEF Asking
  <1>16. x2.state # "ended" /\ \A i \in 1..Len(<<>>) : NowSays(<<>>[i], p)
    BY <1>10, HelloIs
  <1> HIDE DEF r
  <1> QED BY <1>2, <1>3, <1>8, <1>10, <1>12, <1>13, <1>14, <1>15, <1>16, HelloIs, StepInv

(* What is read of the file at once.                                       *)
LEMMA BlockIs ==
    ASSUME NEW x \in Proc, NEW q \in Seq(Msg), x.file_pos <= x.final_pos, x.final_pos <= MaxSize,
           Len(q) = 0 => x.file_pos < x.final_pos
    PROVE  LET block == Smaller(Block, x.final_pos - x.file_pos)
               m == IF q = <<>> /\ block > 0
                    THEN [i \in 1..block |-> [type |-> "Data", n |-> x.file_pos + i - 1]]
                    ELSE <<>>
           IN  /\ m \in Seq(Msg) /\ Len(m) \in Nat /\ x.file_pos + Len(m) <= x.final_pos
               /\ Len(q \o m) > 0
               /\ \A i \in 1..Len(m) : m[i].type = "Data" /\ m[i].n = x.file_pos + i - 1
  <1> DEFINE block == Smaller(Block, x.final_pos - x.file_pos)
             d == [i \in 1..block |-> [type |-> "Data", n |-> x.file_pos + i - 1]]
             m == IF q = <<>> /\ block > 0 THEN d ELSE <<>>
  <1>1. /\ x.file_pos \in Nat /\ x.final_pos \in Nat /\ MaxSize \in Nat /\ Width \in Nat
        /\ MaxSize < Width - 1 /\ Block \in Nat /\ Block > 0 /\ Len(q) \in Nat
    BY PeerAssumption, LenProperties DEF Proc
  <1>2. /\ block \in Nat /\ x.file_pos + block <= x.final_pos
        /\ x.file_pos < x.final_pos => block > 0
    BY <1>1 DEF Smaller
  <1> HIDE DEF block
  <1>3. ASSUME NEW i \in 1..block
        PROVE  d[i] \in Msg /\ d[i].type = "Data" /\ d[i].n = x.file_pos + i - 1
    <2>1. x.file_pos + i - 1 \in 0..Width - 1
      BY <1>1, <1>2
    <2>2. d[i] = [type |-> "Data", n |-> x.file_pos + i - 1]
      OBVIOUS
    <2> QED BY <2>1, <2>2 DEF Msg
  <1>4. d \in Seq(Msg) /\ Len(d) = block
    <2>1. d \in [1..block -> Msg]
      BY <1>3
    <2> HIDE DEF d
    <2> QED BY <1>2, <2>1, LenProperties, SeqDef
  <1> HIDE DEF d
  <1>5. CASE q = <<>>
    <2>1. block > 0 /\ m = d
      BY <1>1, <1>2, <1>5, EmptySeq
    <2>2. q \o m = d
      BY <1>4, <1>5, <2>1, ConcatEmptySeq
    <2> QED BY <1>1, <1>2, <1>3, <1>4, <2>1, <2>2 DEF block, d
  <1>6. CASE q # <<>>
    <2>1. m = <<>> /\ q \o m = q /\ Len(q) > 0
      BY <1>1, <1>6, EmptySeq, ConcatEmptySeq
    <2> QED BY <1>1, <2>1, HelloIs DEF block, d
  <1> QED BY <1>5, <1>6

(* A step that reads nothing.                                              *)
LEMMA NothingRead ==
    ASSUME TypeOK, NEW p \in Peer, NEW s, NEW out,
           net' = [net EXCEPT ![Other(p)] = IF Running(Other(p)) THEN @ \o s ELSE @],
           sendq' = [sendq EXCEPT ![p] = out]
    PROVE  net' = [net EXCEPT ![p] = net[p],
                              ![Other(p)] = IF Running(Other(p)) THEN @ \o s ELSE @]
  <1>1. Other(p) # p /\ net \in [Peer -> Seq(Msg)]
    BY Others DEF TypeOK
  <1> QED BY <1>1

LEMMA SendDataInv ==
    ASSUME Inv, NEW p \in Peer, SendData(p)
    PROVE  Inv'
  <1> DEFINE c == p = Connector
             cq == Other(p) = Connector
             q == Other(p)
             x == proc[p]
             x2 == proc'[p]
             block == Smaller(Block, x.final_pos - x.file_pos)
             fresh == sendq[p] = <<>> /\ block > 0
             m == IF sendq[p] = <<>> /\ block > 0
                  THEN [i \in 1..block |-> [type |-> "Data", n |-> x.file_pos + i - 1]]
                  ELSE <<>>
             queue == IF fresh
                      THEN [i \in 1..block |-> [type |-> "Data", n |-> x.file_pos + i - 1]]
                      ELSE sendq[p]
             pos == IF fresh THEN x.file_pos + block ELSE x.file_pos
  <1>1. /\ x.state = "DATA_SEND" /\ x.writable /\ UNCHANGED history
        /\ \E k \in 1..Len(queue) :
               LET done == pos = x.final_pos /\ k = Len(queue) IN
               /\ net' = [net EXCEPT ![q] = IF Running(q) THEN @ \o SubSeq(queue, 1, k) ELSE @]
               /\ sendq' = [sendq EXCEPT ![p] = SubSeq(queue, k + 1, Len(queue))]
               /\ proc' = [proc EXCEPT ![p] =
                              IF done
                              THEN [x EXCEPT !.state = "GET", !.file_pos = pos,
                                             !.writable = FALSE, !.open = FALSE]
                              ELSE [x EXCEPT !.file_pos = pos]]
    BY DEF SendData
  <1>2. Running(p)
    BY <1>1 DEF Running
  <1>3. /\ TypeOK /\ x \in Proc /\ Sound(x, sendq[p]) /\ Asking(x, answers[p])
        /\ Legal(x, Stream(q), sendq[p], grown) /\ q \in Peer /\ Other(q) = p
        /\ Stream(p) \in Seq(Msg) /\ net[p] \in Seq(Msg) /\ sendq[p] \in Seq(Msg)
    BY <1>2, Known, AlwaysLegal
  <1>4. Kept(p) /\ answers' = answers /\ grown' = grown
    BY <1>1, HistoryKept DEF history
  <1>5. /\ x.open /\ x.final_pos > 0 /\ x.dir = "send" /\ x.file_size = x.final_pos
        /\ x.file_pos <= x.final_pos /\ x.final_pos <= MaxSize
        /\ sendq[p] = <<>> => x.file_pos < x.final_pos
        /\ ~(x.data_size > 0)
    BY <1>1, <1>3 DEF Sound
  <1>6. /\ m \in Seq(Msg) /\ Len(m) \in Nat /\ x.file_pos + Len(m) <= x.final_pos
        /\ Len(sendq[p] \o m) > 0
        /\ \A i \in 1..Len(m) : m[i].type = "Data" /\ m[i].n = x.file_pos + i - 1
    <2>1. Len(sendq[p]) = 0 => x.file_pos < x.final_pos
      BY <1>3, <1>5, EmptySeq
    <2> DEFINE o == sendq[p]
    <2>2. o \in Seq(Msg) /\ (Len(o) = 0 => x.file_pos < x.final_pos)
      BY <1>3, <2>1
    <2> HIDE DEF o, x
    <2> QED BY <1>3, <1>5, <2>2, BlockIs DEF o
  <1>7. queue = sendq[p] \o m
    <2>1. CASE fresh
      <3>1. queue = m /\ sendq[p] = <<>>
        BY <2>1
      <3> HIDE DEF m, queue
      <3> QED BY <1>6, <3>1, ConcatEmptySeq
    <2>2. CASE ~fresh
      <3>1. queue = sendq[p] /\ m = <<>>
        BY <2>2
      <3> HIDE DEF m, queue
      <3> QED BY <1>3, <3>1, ConcatEmptySeq
    <2> QED BY <2>1, <2>2
  <1>8. pos = x.file_pos + Len(m)
    <2>0. x.file_pos \in Nat /\ x.final_pos \in Nat /\ Block \in Nat
      BY <1>3, PeerAssumption DEF Proc
    <2>1. CASE fresh
      <3>1. block \in Nat
        BY <1>5, <2>0 DEF Smaller
      <3>2. m = [i \in 1..block |-> [type |-> "Data", n |-> x.file_pos + i - 1]]
        BY <2>1
      <3>3. DOMAIN m = 1..block
        BY <3>2
      <3>4. Len(m) = block
        <4> HIDE DEF m, block
        <4> QED BY <1>6, <3>1, <3>3, LenProperties
      <3> QED BY <2>1, <3>4
    <2>2. CASE ~fresh
      <3>1. m = <<>> /\ pos = x.file_pos
        BY <2>2
      <3> HIDE DEF m, pos
      <3> QED BY <2>0, <3>1, HelloIs
    <2> QED BY <2>1, <2>2
  <1> HIDE DEF m, pos, queue, block, fresh
  <1>9. PICK k \in 1..Len(queue) :
            /\ net' = [net EXCEPT ![q] = IF Running(q) THEN @ \o SubSeq(queue, 1, k) ELSE @]
            /\ sendq' = [sendq EXCEPT ![p] = SubSeq(queue, k + 1, Len(queue))]
            /\ proc' = [proc EXCEPT ![p] =
                           IF pos = x.final_pos /\ k = Len(queue)
                           THEN [x EXCEPT !.state = "GET", !.file_pos = pos,
                                          !.writable = FALSE, !.open = FALSE]
                           ELSE [x EXCEPT !.file_pos = pos]]
    BY <1>1
  <1> DEFINE done == pos = x.final_pos /\ k = Len(queue)
             r == IF pos = x.final_pos /\ k = Len(queue)
                  THEN [x EXCEPT !.state = "GET", !.file_pos = pos,
                                 !.writable = FALSE, !.open = FALSE]
                  ELSE [x EXCEPT !.file_pos = pos]
  <1>10. pos \in 0..Width - 1 /\ pos <= x.final_pos /\ x.file_pos \in Nat /\ x.final_pos \in Nat
    <2>1. x.file_pos \in 0..Width - 1 /\ x.final_pos \in 0..Width - 1 /\ Width \in Nat
      BY <1>3, PeerAssumption DEF Proc
    <2> HIDE DEF x
    <2> QED BY <1>6, <1>8, <2>1
  <1>11. r \in Proc
    BY <1>3, <1>10 DEF Proc, UserState
  <1>12. /\ r.state = (IF done THEN "GET" ELSE "DATA_SEND") /\ r.file_pos = pos
         /\ r.writable = ~done /\ r.open = ~done /\ r.rand = x.rand /\ r.dir = x.dir
         /\ r.final_pos = x.final_pos /\ r.file_size = x.file_size /\ r.data_size = x.data_size
    <2>1. CASE done
      BY <1>3, <2>1 DEF Proc
    <2>2. CASE ~done
      BY <1>1, <1>3, <1>5, <2>2 DEF Proc
    <2> QED BY <2>1, <2>2
  <1> HIDE DEF r, done
  <1>13. Moved(p, net[p], m) /\ x2 = r /\ Len(sendq'[p]) = Len(queue) - k
    <2>1. net' = [net EXCEPT ![p] = net[p],
                             ![q] = IF Running(q) THEN @ \o SubSeq(queue, 1, k) ELSE @]
      BY <1>3, <1>9, NothingRead
    <2>2. proc' = [proc EXCEPT ![p] = r]
      BY <1>9 DEF r
    <2>3. Writes(p, net[p], m, k, r)
      BY <1>7, <1>9, <2>1, <2>2 DEF Writes
    <2>4. k \in 0..Len(sendq[p] \o m)
      <3>1. k \in 1..Len(sendq[p] \o m)
        BY <1>7
      <3> HIDE DEF q, x
      <3> QED BY <3>1
    <2>5. Moved(p, net[p], m) /\ proc'[p] = r /\ Len(sendq'[p]) = Len(sendq[p] \o m) - k
      BY <1>3, <1>6, <1>11, <2>3, <2>4, Moves
    <2> QED BY <1>7, <2>5
  <1>14. /\ x2 \in Proc /\ x2.state = (IF done THEN "GET" ELSE "DATA_SEND") /\ x2.file_pos = pos
         /\ x2.writable = ~done /\ x2.open = ~done /\ x2.rand = x.rand /\ x2.dir = "send"
         /\ x2.final_pos = x.final_pos /\ x2.file_size = x.final_pos /\ ~(x2.data_size > 0)
    BY <1>5, <1>11, <1>12, <1>13
  <1>15. sendq'[p] \in Seq(Msg) /\ (sendq'[p] = <<>> <=> k = Len(queue))
    <2>1. sendq'[p] \in Seq(Msg) /\ Len(queue) \in Nat
      <3>1. sendq[p] \o m \in Seq(Msg)
        BY <1>3, <1>6, ConcatProperties
      <3>2. queue \in Seq(Msg)
        BY <1>7, <3>1
      <3> QED BY <1>13, <3>2, LenProperties DEF Moved
    <2>2. sendq'[p] = <<>> <=> Len(sendq'[p]) = 0
      BY <2>1, EmptySeq
    <2>3. Len(sendq'[p]) = 0 <=> k = Len(queue)
      BY <1>13, <2>1
    <2> QED BY <2>1, <2>2, <2>3
  <1>16. Sound(x2, sendq'[p])
    <2>1. CASE done
      <3>1. sendq'[p] = <<>> /\ x2.state = "GET" /\ ~x2.open
        BY <1>14, <1>15, <2>1 DEF done
      <3> HIDE DEF x2
      <3> QED BY <1>14, <3>1 DEF Sound, Sending
    <2>2. CASE ~done
      <3>1. /\ x2.state = "DATA_SEND" /\ x2.open /\ x2.writable
            /\ x2.file_pos <= x2.final_pos /\ x2.final_pos <= MaxSize /\ x2.final_pos > 0
            /\ x2.file_size = x2.final_pos
        BY <1>5, <1>10, <1>14, <2>2
      <3>2. sendq'[p] = <<>> => x2.file_pos < x2.final_pos
        <4>1. sendq'[p] = <<>> => pos # x.final_pos
          BY <1>15, <2>2 DEF done
        <4>2. pos # x.final_pos => pos < x.final_pos
          <5> HIDE DEF x
          <5> QED BY <1>10
        <4> QED BY <1>14, <4>1, <4>2
      <3> HIDE DEF x2
      <3> QED BY <1>14, <3>1, <3>2 DEF Sound, Sending
    <2> QED BY <2>1, <2>2
  <1>17. NowPaired(p, net[p], m)
    <2>0. net[p] \o sendq[q] = Stream(q)
      BY <1>3 DEF Stream
    <2>1. ASSUME Running(q)
          PROVE  Linked(x2, c, Stream(p) \o m, proc[q], cq, Stream(q), grown')
      <3>1. Linked(x, c, Stream(p), proc[q], cq, Stream(q), grown)
        BY <1>2, <1>3, <2>1, Known DEF Pair
      <3>2. proc[q] \in Proc
        BY <1>3, Known
      <3>3. Len(Stream(p) \o m) > 0
        <4>1. /\ Len(Stream(p)) >= Len(sendq[p]) /\ Len(sendq[p]) \in Nat
              /\ Len(Stream(p)) \in Nat
          BY <1>3, NetBegins, Known
        <4>2. Len(Stream(p) \o m) = Len(Stream(p)) + Len(m)
          BY <1>3, <1>6, ConcatLast
        <4>3. Len(sendq[p] \o m) = Len(sendq[p]) + Len(m)
          BY <1>3, <1>6, ConcatLast
        <4>4. \A i, j, l \in Nat : i >= j /\ j + l > 0 => i + l > 0
          OBVIOUS
        <4>5. Len(sendq[p]) + Len(m) > 0
          BY <1>6, <4>3
        <4>6. Len(Stream(p)) + Len(m) > 0
          BY <1>6, <4>1, <4>4, <4>5
        <4> QED BY <4>2, <4>6
      <3>4. x2.state = "DATA_SEND" \/ (x2.state = "GET" /\ x2.file_pos = x2.final_pos)
        BY <1>14 DEF done
      <3>5. x2.file_pos = x.file_pos + Len(m)
        BY <1>8, <1>14
      <3> HIDE DEF c, cq, x, x2, q
      <3>6. Linked(x2, c, Stream(p) \o m, proc[q], cq, Stream(q), grown)
        BY <1>1, <1>3, <1>5, <1>6, <1>14, <3>1, <3>2, <3>3, <3>4, <3>5, DataIsSent
      <3> QED BY <1>4, <3>6
    <2>2. Legal(x2, Stream(q), sendq'[p], grown)
      <3>1. x2.state \in Sending
        BY <1>14 DEF Sending
      <3> HIDE DEF x, x2, q
      <3> QED BY <1>1, <1>3, <3>1, LegalSending
    <2> QED BY <1>4, <2>0, <2>1, <2>2 DEF NowPaired
  <1>18. NowChosen(p)
    <2>1. proc'[q] = proc[q]
      BY <1>13 DEF Moved
    <2> QED BY <1>4, <1>5, <1>14, <2>1, ChoiceKept
  <1>19. Asking(x2, answers'[p])
    <2>1. x2.state \in {"GET", "DATA_SEND"}
      BY <1>14
    <2> HIDE DEF x2
    <2> QED BY <1>3, <1>4, <2>1 DEF Asking
  <1>20. x2.state # "ended" /\ \A i \in 1..Len(m) : NowSays(m[i], p)
    BY <1>6, <1>14 DEF NowSays
  <1> QED BY <1>2, <1>4, <1>6, <1>13, <1>14, <1>16, <1>17, <1>18, <1>19, <1>20, StepInv

(* The link says nothing of the queue and of whether the socket is watched.*)
LEMMA LinkedSame ==
    ASSUME NEW x, NEW x2, NEW y, NEW cx, NEW cy, NEW sx, NEW sy, NEW longer,
           Linked(x, cx, sx, y, cy, sy, longer),
           x2.state = x.state, x2.file_pos = x.file_pos, x2.final_pos = x.final_pos,
           x2.data_size = x.data_size, x2.open = x.open
    PROVE  Linked(x2, cx, sx, y, cy, sy, longer)
  <1>1. CASE Handshake(x, cx, sx, y, cy, sy)
    <2>1. Follows(x2, cx, y, sx)
      BY <1>1, FollowsSame DEF Handshake
    <2>2. Read(x2) = Read(x)
      BY DEF Read
    <2>3. Follows(y, cy, x2, sy)
      BY <1>1, <2>2, FollowsSame DEF Handshake
    <2> QED BY <2>1, <2>3 DEF Linked, Handshake
  <1>2. CASE Exchange(x, y, sx, sy, longer)
    <2>1. Waits(x, y, sx, sy, longer) => Waits(x2, y, sx, sy, longer)
      BY DEF Waits, Asked
    <2>2. Receives(x, y, sx, sy, longer) => Receives(x2, y, sx, sy, longer)
      BY DEF Receives, Fits, Contents
    <2>3. Flooded(x, y, sx, sy, longer) => Flooded(x2, y, sx, sy, longer)
      BY DEF Flooded
    <2> QED BY <1>2, <2>1, <2>2, <2>3 DEF Linked, Exchange
  <1>3. CASE Exchange(y, x, sy, sx, longer)
    <2>1. Waits(y, x, sy, sx, longer) => Waits(y, x2, sy, sx, longer)
      BY DEF Waits
    <2>2. Receives(y, x, sy, sx, longer) => Receives(y, x2, sy, sx, longer)
      BY DEF Receives, Fits
    <2>3. Flooded(y, x, sy, sx, longer) => Flooded(y, x2, sy, sx, longer)
      BY DEF Flooded
    <2> QED BY <1>3, <2>1, <2>2, <2>3 DEF Linked, Exchange
  <1> QED BY <1>1, <1>2, <1>3 DEF Linked

LEMMA FlushInv ==
    ASSUME Inv, NEW p \in Peer, Flush(p)
    PROVE  Inv'
  <1> DEFINE c == p = Connector
             cq == Other(p) = Connector
             q == Other(p)
             o == sendq[p]
             x == proc[p]
             x2 == proc'[p]
  <1>1. /\ x.state \notin {"CONNECT", "DATA_SEND", "ended"} /\ x.writable /\ UNCHANGED history
        /\ \E k \in Smaller(1, Len(o))..Len(o) :
               /\ net' = [net EXCEPT ![q] = IF Running(q) THEN @ \o SubSeq(o, 1, k) ELSE @]
               /\ sendq' = [sendq EXCEPT ![p] = SubSeq(@, k + 1, Len(@))]
               /\ proc' = [proc EXCEPT ![p].writable = k < Len(o)]
    BY DEF Flush
  <1>2. Running(p)
    BY <1>1 DEF Running
  <1>3. /\ TypeOK /\ x \in Proc /\ Sound(x, o) /\ Asking(x, answers[p])
        /\ Legal(x, Stream(q), o, grown) /\ q \in Peer /\ Other(q) = p
        /\ Stream(p) \in Seq(Msg) /\ net[p] \in Seq(Msg) /\ o \in Seq(Msg) /\ Len(o) \in Nat
        /\ sendq \in [Peer -> Seq(Msg)] /\ proc \in [Peer -> Proc]
    BY <1>2, Known, AlwaysLegal DEF TypeOK
  <1>4. Kept(p) /\ answers' = answers /\ grown' = grown
    BY <1>1, HistoryKept DEF history
  <1>5. PICK k \in Smaller(1, Len(o))..Len(o) :
            /\ net' = [net EXCEPT ![q] = IF Running(q) THEN @ \o SubSeq(o, 1, k) ELSE @]
            /\ sendq' = [sendq EXCEPT ![p] = SubSeq(@, k + 1, Len(@))]
            /\ proc' = [proc EXCEPT ![p].writable = k < Len(o)]
    BY <1>1
  <1>6. k \in 0..Len(o)
    BY <1>3 DEF Smaller
  <1> DEFINE w == k < Len(o)
             r == [x EXCEPT !.writable = w]
  <1>7. /\ r \in Proc /\ r.writable = w /\ r.state = x.state /\ r.rand = x.rand /\ r.dir = x.dir
        /\ r.open = x.open /\ r.file_size = x.file_size /\ r.file_pos = x.file_pos
        /\ r.final_pos = x.final_pos /\ r.data_size = x.data_size
    <2>1. w \in BOOLEAN
      OBVIOUS
    <2> HIDE DEF w
    <2> QED BY <1>3, <2>1 DEF Proc
  <1>8. o \o <<>> = o
    BY <1>3, ConcatEmptySeq
  <1>9. proc' = [proc EXCEPT ![p] = r] /\ sendq' = [sendq EXCEPT ![p] = SubSeq(o, k + 1, Len(o))]
    BY <1>3, <1>5
  <1> HIDE DEF r, w
  <1>10. Moved(p, net[p], <<>>) /\ x2 = r /\ Len(sendq'[p]) = Len(o) - k
    <2>1. net' = [net EXCEPT ![p] = net[p],
                             ![q] = IF Running(q) THEN @ \o SubSeq(o, 1, k) ELSE @]
      BY <1>3, <1>5, <1>9, NothingRead
    <2>2. Writes(p, net[p], <<>>, k, r)
      BY <1>8, <1>9, <2>1 DEF Writes
    <2>3. k \in 0..Len(sendq[p] \o <<>>)
      BY <1>6, <1>8
    <2>4. Moved(p, net[p], <<>>) /\ proc'[p] = r /\ Len(sendq'[p]) = Len(sendq[p] \o <<>>) - k
      <3>1. TypeOK /\ net[p] \in Seq(Msg) /\ <<>> \in Seq(Msg) /\ r \in Proc
        BY <1>3, <1>7, HelloIs
      <3> QED BY <2>2, <2>3, <3>1, Moves
    <2> QED BY <1>8, <2>4
  <1>11. /\ sendq'[p] \in Seq(Msg) /\ (sendq'[p] # <<>> => w)
         /\ Len(o) = 0 => Len(sendq'[p]) = 0
    <2>1. sendq'[p] \in Seq(Msg)
      BY <1>10 DEF Moved
    <2>2. sendq'[p] # <<>> => Len(sendq'[p]) > 0
      BY <2>1, EmptySeq, LenProperties
    <2> QED BY <1>3, <1>6, <1>10, <2>1, <2>2 DEF w
  <1>12. /\ x2 \in Proc /\ x2.writable = w /\ x2.state = x.state /\ x2.rand = x.rand
         /\ x2.dir = x.dir /\ x2.open = x.open /\ x2.file_size = x.file_size
         /\ x2.file_pos = x.file_pos /\ x2.final_pos = x.final_pos /\ x2.data_size = x.data_size
    BY <1>7, <1>10
  <1>13. Sound(x2, sendq'[p])
    <2> HIDE DEF x, x2, o
    <2> QED BY <1>1, <1>3, <1>11, <1>12 DEF Sound
  <1>14. Asking(x2, answers'[p])
    BY <1>3, <1>4, <1>12 DEF Asking
  <1>15. NowPaired(p, net[p], <<>>)
    <2>0. net[p] \o sendq[q] = Stream(q) /\ Stream(p) \o <<>> = Stream(p)
      BY <1>3, ConcatEmptySeq DEF Stream
    <2>1. ASSUME Running(q)
          PROVE  Linked(x2, c, Stream(p), proc[q], cq, Stream(q), grown)
      <3>1. Linked(x, c, Stream(p), proc[q], cq, Stream(q), grown)
        BY <1>2, <1>3, <2>1, Known DEF Pair
      <3> HIDE DEF c, cq, x, x2, q
      <3> QED BY <1>12, <3>1, LinkedSame
    <2>2. Legal(x2, Stream(q), sendq'[p], grown)
      <3>1. Read(x2) = Read(x)
        BY <1>12 DEF Read
      <3> HIDE DEF x, x2, q, o
      <3> QED BY <1>3, <1>11, <1>12, <3>1, LegalSame
    <2> QED BY <1>4, <2>0, <2>1, <2>2 DEF NowPaired
  <1>16. NowChosen(p)
    <2>1. proc'[q] = proc[q]
      BY <1>10 DEF Moved
    <2> QED BY <1>4, <1>12, <2>1, ChoiceKept
  <1>17. x2.state # "ended" /\ \A i \in 1..Len(<<>>) : NowSays(<<>>[i], p)
    BY <1>1, <1>12, HelloIs, NothingSaid
  <1> QED BY <1>2, <1>4, <1>10, <1>12, <1>13, <1>14, <1>15, <1>16, <1>17, HelloIs, StepInv

-----------------------------------------------------------------------------
(* The invariant holds *)

LEMMA InitInv ==
    ASSUME Init
    PROVE  Inv
  <1>1. /\ sendq = [p \in Peer |-> <<>>] /\ net = [p \in Peer |-> <<>>]
        /\ answers = [p \in Peer |-> <<>>] /\ grown = FALSE /\ misread = FALSE
    BY DEF Init
  <1>2. ASSUME NEW p \in Peer
        PROVE  /\ proc[p] \in Proc /\ proc[p].state = "CONNECT" /\ proc[p].dir = "unknown"
               /\ proc[p].writable /\ ~proc[p].open /\ proc[p].data_size = 0
    <2>1. proc[p] \in [state : {"CONNECT"}, rand : Rand, dir : {"unknown"},
                       file_size : {0}, file_pos : {0}, final_pos : {0},
                       data_size : {0}, writable : {TRUE}, open : {FALSE}, files : {0}]
      BY DEF Init
    <2>2. 0 \in 0..Width - 1 /\ 0 \in 0..MaxFiles
      BY PeerAssumption
    <2> QED BY <2>1, <2>2 DEF Proc, UserState
  <1>3. proc \in [Peer -> Proc]
    <2>1. proc = [p \in Peer |-> proc[p]]
      BY DEF Init
    <2> QED BY <1>2, <2>1
  <1>4. TypeOK /\ DataIsData
    <2>1. \A S : <<>> \in Seq(S)
      OBVIOUS
    <2> QED BY <1>1, <1>3, <2>1 DEF TypeOK, DataIsData
  <1>5. ASSUME NEW p \in Peer
        PROVE  Stream(p) = <<>>
    <2>1. Other(p) \in Peer
      BY Others
    <2> QED BY <1>1, <2>1, HelloIs, ConcatEmptySeq DEF Stream
  <1>6. ASSUME NEW p \in Peer
        PROVE  Local(p) /\ Announced(p) /\ Chosen(p, Other(p)) /\ Pair(p, Other(p))
    <2> DEFINE q == Other(p)
               c == p = Connector
               cq == q = Connector
               x == proc[p]
               y == proc[q]
    <2>1. q \in Peer
      BY Others
    <2>2. Running(p) /\ Running(q) /\ answers[p] = <<>> /\ sendq[p] = <<>>
      BY <1>1, <1>2, <2>1 DEF Running
    <2>3. Sound(x, <<>>)
      BY <1>2 DEF Sound, Sending
    <2>4. Local(p)
      BY <1>2, <2>2, <2>3, HelloIs DEF Local, Asking
    <2>5. Announced(p)
      <3>1. Stream(p) = <<>>
        BY <1>5
      <3> QED BY <3>1, HelloIs DEF Announced
    <2>6. Chosen(p, q)
      BY <1>2 DEF Chosen
    <2>7. Handshake(x, c, <<>>, y, cq, <<>>)
      <3>1. x.state = "CONNECT" /\ y.state = "CONNECT"
        BY <1>2, <2>1
      <3> HIDE DEF x, y, c, cq
      <3>2. Sent(x, c) = 0 /\ Sent(y, cq) = 0 /\ Read(x) = 0 /\ Read(y) = 0
        BY <3>1, SentRead
      <3> QED BY <3>1, <3>2, HelloIs DEF Handshake, Follows, Steps, Shaking
    <2>8. Pair(p, q)
      <3>1. Stream(p) = <<>> /\ Stream(q) = <<>>
        BY <1>5, <2>1
      <3> QED BY <2>2, <2>7, <3>1 DEF Pair, Linked
    <2> QED BY <2>4, <2>5, <2>6, <2>8
  <1> QED BY <1>4, <1>6 DEF Inv

LEMMA NextInv ==
    ASSUME Inv, [Next]_vars
    PROVE  Inv'
  <1>1. CASE UNCHANGED vars
    BY <1>1 DEF Inv, TypeOK, DataIsData, Local, Announced, Chosen, Pair, Stream, Running, Says, vars
  <1>2. ASSUME NEW p \in Peer, Step(p)
        PROVE  Inv'
    <2>1. CASE Connected(p)
      BY <2>1, ConnectedInv
    <2>2. CASE ReceiveMyNick(p)
      BY <2>2, ReceiveMyNickInv
    <2>3. CASE ReceiveLock(p)
      BY <2>3, ReceiveLockInv
    <2>4. CASE ReceiveSupports(p)
      BY <2>4, ReceiveSupportsInv
    <2>5. CASE ReceiveDirection(p)
      BY <2>5, ReceiveDirectionInv
    <2>6. CASE ReceiveKey(p)
      BY <2>6, ReceiveKeyInv
    <2>7. CASE ReceiveFileLength(p)
      BY <2>7, ReceiveFileLengthInv
    <2>8. CASE ReceiveError(p)
      BY <2>8, ReceiveErrorInv
    <2>9. CASE ReceiveMaxedOut(p)
      BY <2>9, ReceiveMaxedOutInv
    <2>10. CASE ReceiveData(p)
      BY <2>10, ReceiveDataInv
    <2>11. CASE Misread(p)
      BY <2>11, MisreadInv
    <2>12. CASE ReceiveGet(p)
      BY <2>12, ReceiveGetInv
    <2>13. CASE ReceiveSend(p)
      BY <2>13, ReceiveSendInv
    <2>14. CASE SendData(p)
      BY <2>14, SendDataInv
    <2>15. CASE Flush(p)
      BY <2>15, FlushInv
    <2>16. CASE ReceiveWrong(p) \/ ReadEOF(p)
      BY <2>16, EndingInv
    <2> QED BY <1>2, <2>1, <2>2, <2>3, <2>4, <2>5, <2>6, <2>7, <2>8, <2>9, <2>10, <2>11,
               <2>12, <2>13, <2>14, <2>15, <2>16 DEF Step
  <1>3. ASSUME NEW p \in Peer, Alarm(p) \/ Terminate(p)
        PROVE  Inv'
    BY <1>3, EndingInv
  <1> QED BY <1>1, <1>2, <1>3 DEF Next

-----------------------------------------------------------------------------
(* The properties *)

(* The parts of the invariant hold in every state that the two processes   *)
(* reach, whatever their main processes answer.                            *)
THEOREM InvHolds == Spec => []Inv
  <1>1. Init => Inv
    BY InitInv
  <1>2. Inv /\ [Next]_vars => Inv'
    BY NextInv
  <1> QED BY <1>1, <1>2, PTL DEF Spec

(* A $Send is handled only when the file that it is about is open and all  *)
(* that was said before has been written, and what is sent is in an open   *)
(* file: the assertion in upload_file (user.c) holds.                      *)
LEMMA SendIsFound ==
    ASSUME Inv
    PROVE  SendFindsFile
  <1> SUFFICES ASSUME NEW p \in Peer
               PROVE  /\ Command(p, "Send", {"SEND_GET"}) => proc[p].open /\ sendq[p] = <<>>
                      /\ proc[p].state = "DATA_SEND" => proc[p].open /\ proc[p].file_size # 0
    BY DEF SendFindsFile
  <1>1. ASSUME Command(p, "Send", {"SEND_GET"})
        PROVE  proc[p].open /\ sendq[p] = <<>>
    <2> DEFINE x == proc[p]
               s == Stream(Other(p))
               out == sendq[p]
    <2>1. Readable(p) /\ x.state = "SEND_GET" /\ Head(net[p]).type = "Send"
      BY <1>1 DEF Command
    <2>2. s[1].type = "Send" /\ Len(s) > 0 /\ Legal(x, s, out, grown) /\ out \in Seq(Msg)
      BY <2>1, Reading, Known
    <2> HIDE DEF x, s, out
    <2>3. x.open /\ Len(out) = 0
      BY <2>1, <2>2 DEF Legal, Sending
    <2>4. out = <<>>
      BY <2>2, <2>3, EmptySeq
    <2> QED BY <2>3, <2>4 DEF x, out
  <1>2. ASSUME proc[p].state = "DATA_SEND"
        PROVE  proc[p].open /\ proc[p].file_size # 0
    <2>1. Sound(proc[p], sendq[p]) /\ proc[p] \in Proc
      BY <1>2, Known DEF Running
    <2> QED BY <1>2, <2>1 DEF Sound
  <1> QED BY <1>1, <1>2

(* What is exchanged is read as what it was sent as, at its position, and  *)
(* the assertion in upload_file holds.                                     *)
THEOREM ExchangeIsSound == Spec => []ExchangeSound
  <1>1. Inv => ExchangeSound
    BY SendIsFound DEF Inv, ExchangeSound
  <1> QED BY <1>1, InvHolds, PTL

LEMMA Differ ==
    ASSUME Inv
    PROVE  DirectionsDiffer
  <1> SUFFICES ASSUME Steady, NEW p \in Peer, NEW q \in Peer, p # q,
                      proc[p].dir # "unknown", proc[q].dir # "unknown"
               PROVE  /\ "send" \in {proc[p].dir, proc[q].dir}
                      /\ proc[p].dir = proc[q].dir <=> Tie /\ BothWant
    BY DEF DirectionsDiffer
  <1> DEFINE we == answers[p][1]
             they == answers[q][1]
             our == proc[p].rand
             their == proc[q].rand
  <1>1. /\ q = Other(p) /\ p = Other(q)
        /\ \A z \in Peer : z = p \/ z = q
    BY Others
  <1>2. Chosen(p, q) /\ Chosen(q, p)
    BY <1>1, Known
  <1>3. Len(answers[p]) = 2 /\ Len(answers[q]) = 2
    BY <1>2 DEF Chosen
  <1>4. answers[p][2] = we /\ answers[q][2] = they
    BY <1>3 DEF Steady
  <1>5. we \in BOOLEAN /\ they \in BOOLEAN /\ answers[p] # <<>> /\ answers[q] # <<>>
    <2>1. answers[p] \in Seq(BOOLEAN) /\ answers[q] \in Seq(BOOLEAN)
      BY Known
    <2>2. 1 \in 1..Len(answers[p]) /\ 1 \in 1..Len(answers[q])
      BY <1>3
    <2> QED BY <1>3, <2>1, <2>2, ElementOfSeq, EmptySeq
  <1>6. our \in Nat /\ their \in Nat
    <2>1. our \in Rand /\ their \in Rand
      BY Known DEF Proc
    <2> QED BY <2>1, PeerAssumption
  <1>7. /\ proc[p].dir = Direction(they, we, their, our)
        /\ proc[q].dir = Direction(we, they, our, their)
        /\ they \/ we
    BY <1>2, <1>4, Zenon DEF Chosen
  <1>8. Tie <=> our = their
    BY <1>1 DEF Tie
  <1>9. BothWant <=> we /\ they
    BY <1>1, <1>5 DEF BothWant
  <1> HIDE DEF we, they, our, their
  <1>10. /\ \/ Direction(they, we, their, our) = "send"
            \/ Direction(we, they, our, their) = "send"
         /\ Direction(they, we, their, our) = Direction(we, they, our, their)
               <=> our = their /\ we /\ they
    <2>1. CASE we /\ they
      BY <1>6, <2>1 DEF Direction
    <2>2. CASE we /\ ~they
      BY <2>2 DEF Direction
    <2>3. CASE ~we /\ they
      BY <2>3 DEF Direction
    <2> QED BY <1>5, <1>7, <2>1, <2>2, <2>3
  <1> QED BY <1>7, <1>8, <1>9, <1>10

(* Two processes that have chosen their directions have chosen different   *)
(* ones if main did not change its mind, and the same one, to send, exactly *)
(* when both want to download and drew the same number (user.c:979-983).   *)
THEOREM DirectionsDifferHold == Spec => []DirectionsDiffer
  BY Differ, InvHolds, PTL

(* What two processes of different directions wait for is on the way.      *)
LEMMA ReceiverIsServed ==
    ASSUME NEW r \in Proc, NEW s \in Proc, Sound(r, <<>>), Sound(s, <<>>), ~s.writable, ~r.writable,
           NEW longer, ~longer, Exchange(r, s, <<>>, <<>>, longer)
    PROVE  FALSE
  <1>1. CASE Waits(r, s, <<>>, <<>>, longer)
    BY <1>1, HelloIs DEF Waits
  <1>2. CASE Receives(r, s, <<>>, <<>>, longer)
    <2>1. /\ r.state = "DATA_RECV" /\ s.state \in {"DATA_SEND", "GET"}
          /\ r.data_size = s.final_pos - r.file_pos
          /\ s.file_pos = r.file_pos + 0 /\ (s.state = "GET" => s.file_pos = s.final_pos)
      BY <1>2, HelloIs DEF Receives, Fits
    <2>2. s.state = "GET"
      BY <2>1 DEF Sound
    <2>3. r.data_size > 0 /\ r.file_pos \in Nat /\ s.final_pos \in Nat
      BY <2>1 DEF Sound, Proc
    <2> QED BY <2>1, <2>2, <2>3
  <1>3. CASE Flooded(r, s, <<>>, <<>>, longer)
    BY <1>3 DEF Flooded
  <1> QED BY <1>1, <1>2, <1>3 DEF Exchange

(* In the handshake they wait only when both are to send.                  *)
LEMMA HandshakeGoesOn ==
    ASSUME NEW x \in Proc, NEW y \in Proc, NEW c \in BOOLEAN, Sound(x, <<>>), Sound(y, <<>>),
           ~x.writable, ~y.writable,
           Handshake(x, c, <<>>, y, ~c, <<>>)
    PROVE  /\ x.state = "GET" /\ x.dir = "send"
           /\ y.state = "GET" /\ y.dir = "send"
  <1>1. /\ Sent(x, c) = Read(y) /\ Sent(y, ~c) = Read(x)
        /\ x.state \in Steps /\ y.state \in Steps
    <2>1. /\ 0 = Sent(x, c) - Read(y) /\ 0 = Sent(y, ~c) - Read(x)
          /\ x.state \in Steps /\ y.state \in Steps
      BY HelloIs DEF Handshake, Follows
    <2>2. /\ Sent(x, c) \in {0, 2, 5, 6} /\ Sent(y, ~c) \in {0, 2, 5, 6}
          /\ Read(x) \in 0..5 /\ Read(y) \in 0..5
      BY SentRead
    <2> QED BY <2>1, <2>2
  <1>2. x.state # "CONNECT" /\ y.state # "CONNECT"
    BY DEF Sound
  <1>3. x.state = "MYNICK" => FALSE
    BY <1>1, <1>2 DEF Sent, Read, Steps, Shaking
  <1>4. y.state = "MYNICK" => FALSE
    BY <1>1, <1>2 DEF Sent, Read, Steps, Shaking
  <1>5. x.state = "GET" /\ y.state = "GET"
    BY <1>1, <1>2, <1>3, <1>4 DEF Sent, Read, Steps, Shaking
  <1> QED BY <1>5 DEF Sound, Sending

LEMMA NobodyIsLeft ==
    ASSUME Inv
    PROVE  NoMutualWait
  <1> SUFFICES ASSUME ~grown, \A z \in Peer : Idle(z)
               PROVE  /\ \A z \in Peer : proc[z].state = "GET" /\ proc[z].dir = "send"
                      /\ Steady => Tie /\ BothWant
    BY DEF NoMutualWait
  <1>1. PICK p \in Peer : p = Connector
    BY PeerAssumption
  <1> DEFINE q == Other(p)
             x == proc[p]
             y == proc[q]
             c == p = Connector
             cq == q = Connector
  <1>2. /\ q \in Peer /\ q # p /\ Other(q) = p /\ (cq <=> ~c)
        /\ \A z \in Peer : z = p \/ z = q
    BY Others, OneConnects
  <1>3. /\ x \in Proc /\ y \in Proc /\ ~x.writable /\ ~y.writable
        /\ Running(p) /\ Running(q) /\ net[p] = <<>> /\ net[q] = <<>>
        /\ Sound(x, sendq[p]) /\ Sound(y, sendq[q])
    BY <1>2, Known DEF Idle
  <1>4. sendq[p] = <<>> /\ sendq[q] = <<>>
    BY <1>3 DEF Sound
  <1>5. Stream(p) = <<>> /\ Stream(q) = <<>>
    BY <1>2, <1>3, <1>4, HelloIs, ConcatEmptySeq DEF Stream
  <1>6. Linked(x, c, <<>>, y, cq, <<>>, grown)
    BY <1>2, <1>3, <1>5, Known DEF Pair
  <1>7. ASSUME x.state = "GET" /\ x.dir = "send" /\ y.state = "GET" /\ y.dir = "send"
        PROVE  /\ \A z \in Peer : proc[z].state = "GET" /\ proc[z].dir = "send"
               /\ Steady => Tie /\ BothWant
    BY <1>2, <1>7, Differ DEF DirectionsDiffer
  <1>8. c \in BOOLEAN /\ cq = ~c
    BY <1>2
  <1> HIDE DEF q, x, y, c, cq
  <1>9. Sound(x, <<>>) /\ Sound(y, <<>>)
    BY <1>3, <1>4
  <1>10. CASE Handshake(x, c, <<>>, y, cq, <<>>)
    BY <1>3, <1>7, <1>8, <1>9, <1>10, HandshakeGoesOn
  <1>11. CASE Exchange(x, y, <<>>, <<>>, grown)
    BY <1>3, <1>9, <1>11, ReceiverIsServed
  <1>12. CASE Exchange(y, x, <<>>, <<>>, grown)
    BY <1>3, <1>9, <1>12, ReceiverIsServed
  <1> QED BY <1>6, <1>10, <1>11, <1>12 DEF Linked

(* Two processes that run wait for each other with nothing on the way only *)
(* when both have settled on sending, which without a change of main's     *)
(* mind is the tie of two that both want to download, or for a file that   *)
(* has grown.                                                              *)
THEOREM NobodyWaits == Spec => []NoMutualWait
  BY NobodyIsLeft, InvHolds, PTL
=============================================================================
