------------------------ MODULE DownloadQueueProofs -------------------------
(***************************************************************************)
(* Proofs about DownloadQueue, for any number of connections and files:    *)
(* the two processes of a connection agree on what is transferred, the     *)
(* download slots are counted right, the entry at queue_pos is the one     *)
(* under transfer whatever unqueue removes, and no file gets its final     *)
(* name that was not received.                                             *)
(***************************************************************************)
EXTENDS DownloadQueue, FiniteSetTheorems, SequenceTheorems, WellFoundedInduction, TLAPS

-----------------------------------------------------------------------------
(* The inductive invariant *)

(* A process that does not run waits for nothing and has no file; one that *)
(* runs has a file exactly while it downloads.                             *)
ProcessSound(c) ==
    /\ step[c] = "off" => wait[c] = "no" /\ file[c] = NoFile
    /\ file[c] # NoFile <=> wait[c] = "no" /\ step[c] \in {"file_length", "data_recv"}
    /\ wait[c] \in {"want", "receive", "send"} => step[c] = "direction"
    /\ wait[c] = "file" => step[c] \in {"key", "file_length", "data_recv"}

(* What is left of a connection that was dropped.                          *)
Dropped(c) ==
    /\ toMain[c] = <<>> /\ toUser[c] = <<>>
    /\ c \notin occupied

(* The messages of a process that has no slot: what main answers one at a  *)
(* time, or the last it has to say.                                        *)
IsLast(q) == q # <<>> /\ Head(q).id = "TERMINATING"
Asks(q, id) == Len(q) = 1 /\ Head(q).id = id
IdlePipe(c, q) ==
    \/ q = <<>>
    \/ IsLast(q)
    \/ /\ dir[c] = "unknown"
       /\ \E id \in {"WANT_DOWNLOAD", "VALIDATE_receive", "VALIDATE_send"} : Asks(q, id)
    \/ /\ dir[c] = "receive"
       /\ Asks(q, "CHECK_DOWNLOAD")

(* The messages about the download of the file f: its start, its end, and  *)
(* the next request; a success is one of that very file.                   *)
EndsWith(q, f) ==
    \/ q = <<>>
    \/ IsLast(q)
    \/ /\ q # <<>>
       /\ \/ Head(q).id = "ENDED_failure"
          \/ Head(q).id = "ENDED_success" /\ Head(q).file = f
       /\ \/ Tail(q) = <<>>
          \/ IsLast(Tail(q))
          \/ Asks(Tail(q), "CHECK_DOWNLOAD")
Starts(q, f) == q # <<>> /\ Head(q).id = "TRANSFER_START" /\ Head(q).file = f
BusyPipe(q, f) ==
    \/ EndsWith(q, f)
    \/ Starts(q, f) /\ EndsWith(Tail(q), f)

(* The pipe to main agrees with what main knows of the connection.         *)
PipeSound(c) ==
    IF c \in occupied
    THEN /\ dir[c] = "receive"
         /\ transfer_file[c] \in Name
         /\ BusyPipe(toMain[c], transfer_file[c])
    ELSE IdlePipe(c, toMain[c])

(* Main has taken the direction the process was told, and nothing is under *)
(* way between them.                                                       *)
Quiet(c, d) ==
    /\ toMain[c] = <<>> /\ toUser[c] = <<>>
    /\ dir[c] = d
    /\ c \notin occupied

(* The process waits for the answer to a request about its direction.      *)
Settles(c, id) ==
    /\ c \notin occupied
    /\ \/ Asks(toMain[c], id) /\ toUser[c] = <<>> /\ dir[c] = "unknown"
       \/ /\ toMain[c] = <<>>
          /\ \/ toUser[c] = <<"no">>
             \/ /\ toUser[c] = <<"yes">>
                /\ \/ id = "WANT_DOWNLOAD" /\ dir[c] = "unknown"
                   \/ id = "VALIDATE_receive" /\ dir[c] = "receive"
                   \/ id = "VALIDATE_send" /\ dir[c] = "send"
          /\ id = "WANT_DOWNLOAD" => dir[c] = "unknown"

(* The process waits for a file, which main has noted if it named one.     *)
WaitsForFile(c) ==
    /\ dir[c] = "receive"
    /\ \/ toUser[c] = <<>>
       \/ /\ toMain[c] = <<>>
          /\ \/ toUser[c] = <<NoFile>> /\ c \notin occupied
             \/ toUser[c] = <<transfer_file[c]>> /\ c \in occupied

(* The process downloads its file.                                         *)
Downloads(c) ==
    /\ dir[c] = "receive"
    /\ c \in occupied /\ transfer_file[c] = file[c]
    /\ toUser[c] = <<>>
    /\ \/ toMain[c] = <<>>
       \/ step[c] = "data_recv" /\ Len(toMain[c]) = 1 /\ Starts(toMain[c], file[c])

(* A process that runs and its connection are at the same point.           *)
InStep(c) ==
    /\ step[c] = "direction" /\ wait[c] = "no" => Quiet(c, "unknown")
    /\ step[c] = "key" /\ wait[c] = "no" => Quiet(c, "receive")
    /\ step[c] = "send" => Quiet(c, "send")
    /\ wait[c] = "want" => Settles(c, "WANT_DOWNLOAD")
    /\ wait[c] = "receive" => Settles(c, "VALIDATE_receive")
    /\ wait[c] = "send" => Settles(c, "VALIDATE_send")
    /\ wait[c] = "file" => WaitsForFile(c)
    /\ file[c] # NoFile => Downloads(c)

ConnSound(c) ==
    /\ ProcessSound(c)
    /\ IF Live(c) THEN PipeSound(c) /\ InStep(c) ELSE Dropped(c)

(* An entry is only noted while a slot is occupied, and the list is never  *)
(* put in front of itself.                                                 *)
QueueSound ==
    /\ queued_valid \subseteq occupied
    /\ QueuePosTracksTransfer
    /\ \A c \in queued_valid : transfer_file[c] = List => c \notin shifted

Inv ==
    /\ TypeOK
    /\ used_dl_slots = Cardinality(occupied)
    /\ OnePerDirection
    /\ \A c \in Conn : ConnSound(c)
    /\ QueueSound

-----------------------------------------------------------------------------
(* Induction over the natural numbers, for a set instead of a formula: the *)
(* smallest number outside the set would have no predecessor in it.        *)
LEMMA SetInduction ==
    ASSUME NEW S, 0 \in S, \A n \in Nat : n \in S => n + 1 \in S
    PROVE  Nat \subseteq S
  <1> DEFINE T == Nat \ S
             R == OpToRel(<, Nat)
  <1>1. IsWellFoundedOn(R, Nat)
    BY NatLessThanWellFounded
  <1> SUFFICES ASSUME T # {} PROVE FALSE
    OBVIOUS
  <1>2. \A m, n \in Nat : m < n => <<m, n>> \in R
    BY DEF OpToRel
  <1> HIDE DEF R
  <1>3. PICK x \in T : \A y \in T : ~(<<y, x>> \in R)
    BY <1>1, WFMin
  <1>4. x # 0 /\ x \in Nat
    BY <1>3
  <1>5. x - 1 \in Nat /\ x - 1 < x
    BY <1>4
  <1>6. x - 1 \in S
    BY <1>2, <1>3, <1>4, <1>5
  <1>7. (x - 1) + 1 \in S
    BY <1>5, <1>6
  <1> QED BY <1>3, <1>4, <1>7

-----------------------------------------------------------------------------
(* What unqueue does to the queue *)

(* The kept entries among the first c of buf.                              *)
Kept(buf, c) == {j \in 1..c : buf[j] # Null}
Rank(buf, c) == Cardinality(Kept(buf, c))

LEMMA RankMonotonic ==
    ASSUME NEW buf, NEW c \in Nat, NEW i \in 0..c
    PROVE  Rank(buf, i) \in Nat /\ Rank(buf, i) <= Rank(buf, c)
  <1>1. IsFiniteSet(1..c)
    BY FS_Interval
  <1>2. IsFiniteSet(Kept(buf, c)) /\ Kept(buf, i) \subseteq Kept(buf, c)
    BY <1>1, FS_Subset DEF Kept
  <1> QED BY <1>2, FS_Subset, FS_CardinalityType DEF Rank

LEMMA RankProperties ==
    ASSUME NEW buf, NEW c \in Nat
    PROVE  /\ Rank(buf, c) \in Nat /\ Rank(buf, c) <= c
           /\ Rank(buf, 0) = 0
           /\ Rank(buf, c + 1) = IF buf[c + 1] = Null THEN Rank(buf, c) ELSE Rank(buf, c) + 1
           /\ \A i \in 0..c : Rank(buf, i) \in Nat /\ Rank(buf, i) <= Rank(buf, c)
  <1>1. IsFiniteSet(1..c) /\ Cardinality(1..c) = c
    BY FS_Interval
  <1>2. IsFiniteSet(Kept(buf, c)) /\ Rank(buf, c) <= c
    BY <1>1, FS_Subset DEF Kept, Rank
  <1>3. Rank(buf, c) \in Nat
    BY <1>2, FS_CardinalityType DEF Rank
  <1>4. Rank(buf, 0) = 0
    <2>1. Kept(buf, 0) = {}
      BY DEF Kept
    <2> QED BY <2>1, FS_EmptySet DEF Rank
  <1>5. CASE buf[c + 1] = Null
    <2>1. Kept(buf, c + 1) = Kept(buf, c)
      BY <1>5 DEF Kept
    <2> QED BY <2>1, <1>2, <1>3, <1>4, <1>5, RankMonotonic DEF Rank
  <1>6. CASE buf[c + 1] # Null
    <2>1. Kept(buf, c + 1) = Kept(buf, c) \cup {c + 1} /\ c + 1 \notin Kept(buf, c)
      BY <1>6 DEF Kept
    <2> QED BY <2>1, <1>2, <1>3, <1>4, <1>6, FS_AddElement, RankMonotonic DEF Rank
  <1> QED BY <1>5, <1>6

(* Nothing is removed.                                                     *)
LEMMA FullRank ==
    ASSUME NEW buf, NEW n \in Nat, Rank(buf, n) = n
    PROVE  \A i \in 1..n : buf[i] # Null /\ Rank(buf, i) = i
  <1>1. IsFiniteSet(1..n) /\ Cardinality(1..n) = n /\ Kept(buf, n) \in SUBSET (1..n)
    BY FS_Interval DEF Kept
  <1>2. Kept(buf, n) = 1..n
    BY <1>1, FS_Subset DEF Rank
  <1> SUFFICES ASSUME NEW i \in 1..n
               PROVE  buf[i] # Null /\ Rank(buf, i) = i
    OBVIOUS
  <1>3. buf[i] # Null /\ Kept(buf, i) = 1..i
    BY <1>2 DEF Kept
  <1>4. Cardinality(1..i) = i
    BY FS_Interval
  <1> QED BY <1>3, <1>4 DEF Rank

(* compact_queue_ptrv when it has looked at the first c places: the kept   *)
(* entries among them are in the first places, in their order, and the     *)
(* next free place is the one after them.                                  *)
LoopSound(buf, c, acc) ==
    LET n == Len(buf) IN
    /\ acc = [buf |-> acc.buf, free |-> acc.free]
    /\ DOMAIN acc.buf = 1..n
    /\ \A i \in c + 1..n : acc.buf[i] = buf[i]
    /\ \A i \in 1..c : buf[i] # Null => acc.buf[Rank(buf, i)] = buf[i]
    /\ \A i \in 1..c : IF i <= Rank(buf, c)
                       THEN acc.buf[i] # Null /\ \E j \in 1..c : acc.buf[i] = buf[j]
                       ELSE acc.buf[i] = Null
    /\ acc.free = IF Rank(buf, c) = c THEN 0 ELSE Rank(buf, c) + 1

LEMMA LoopStep ==
    ASSUME NEW S, NEW buf \in Seq(S), NEW c \in 0..Len(buf) - 1, NEW acc, LoopSound(buf, c, acc)
    PROVE  LoopSound(buf, c + 1, CompactStep(acc, c + 1))
  <1> DEFINE n == Len(buf)
             k == Rank(buf, c)
             b == acc.buf
  <1>1. n \in Nat /\ c \in Nat /\ c + 1 <= n
    OBVIOUS
  <1>2. /\ k \in Nat /\ k <= c
        /\ Rank(buf, c + 1) = IF buf[c + 1] = Null THEN k ELSE k + 1
        /\ \A i \in 0..c : Rank(buf, i) \in Nat /\ Rank(buf, i) <= k
    BY <1>1, RankProperties
  <1>3. \A i \in 1..c : buf[i] # Null => Rank(buf, i) >= 1
    <2> SUFFICES ASSUME NEW i \in 1..c, buf[i] # Null
                 PROVE  Rank(buf, i) >= 1
      OBVIOUS
    <2>1. i - 1 \in Nat /\ (i - 1) + 1 = i
      OBVIOUS
    <2>2. Rank(buf, i - 1) \in Nat /\ Rank(buf, i) = Rank(buf, i - 1) + 1
      BY <2>1, RankProperties
    <2> QED BY <2>2
  <1>4. /\ acc = [buf |-> b, free |-> acc.free]
        /\ DOMAIN b = 1..n
        /\ \A i \in c + 1..n : b[i] = buf[i]
        /\ \A i \in 1..c : buf[i] # Null => b[Rank(buf, i)] = buf[i]
        /\ \A i \in 1..c : IF i <= k THEN b[i] # Null /\ \E j \in 1..c : b[i] = buf[j]
                           ELSE b[i] = Null
        /\ acc.free = IF k = c THEN 0 ELSE k + 1
    BY DEF LoopSound
  <1>5. b[c + 1] = buf[c + 1]
    BY <1>1, <1>4
  <1> HIDE DEF n, k, b
  <1>6. CASE buf[c + 1] = Null
    <2> DEFINE new == CompactStep(acc, c + 1)
    <2>1. new = [buf |-> b, free |-> k + 1]
      <3>1. new = [acc EXCEPT !.free = IF @ = 0 THEN c + 1 ELSE @]
        BY <1>5, <1>6 DEF CompactStep, b
      <3>2. acc.free = 0 <=> k = c
        BY <1>2, <1>4
      <3> QED BY <3>1, <3>2, <1>2, <1>4
    <2> HIDE DEF new
    <2>2. Rank(buf, c + 1) = k /\ k # c + 1
      BY <1>1, <1>2, <1>6
    <2>3. \A i \in (c + 1) + 1..n : b[i] = buf[i]
      BY <1>1, <1>4
    <2>4. \A i \in 1..c + 1 : buf[i] # Null => b[Rank(buf, i)] = buf[i]
      BY <1>1, <1>4, <1>6
    <2>5. \A i \in 1..c + 1 : IF i <= k THEN b[i] # Null /\ \E j \in 1..c + 1 : b[i] = buf[j]
                              ELSE b[i] = Null
      <3> SUFFICES ASSUME NEW i \in 1..c + 1
                   PROVE  IF i <= k THEN b[i] # Null /\ \E j \in 1..c + 1 : b[i] = buf[j]
                          ELSE b[i] = Null
        OBVIOUS
      <3>1. CASE i = c + 1
        BY <3>1, <1>2, <1>5, <1>6
      <3>2. CASE i \in 1..c
        BY <3>2, <1>1, <1>4
      <3> QED BY <3>1, <3>2, <1>1
    <2>6. new.buf = b /\ new.free = k + 1 /\ new = [buf |-> new.buf, free |-> new.free]
      BY <2>1
    <2>7. LoopSound(buf, c + 1, new)
      BY <2>2, <2>3, <2>4, <2>5, <2>6, <1>4 DEF LoopSound, n
    <2> QED BY <2>7 DEF new
  <1>7. CASE buf[c + 1] # Null /\ acc.free = 0
    <2>1. CompactStep(acc, c + 1) = acc
      BY <1>5, <1>7 DEF CompactStep, b
    <2>2. k = c /\ Rank(buf, c + 1) = c + 1
      BY <1>2, <1>4, <1>7
    <2>3. \A i \in (c + 1) + 1..n : b[i] = buf[i]
      BY <1>1, <1>4
    <2>4. \A i \in 1..c + 1 : buf[i] # Null => b[Rank(buf, i)] = buf[i]
      <3> SUFFICES ASSUME NEW i \in 1..c + 1, buf[i] # Null
                   PROVE  b[Rank(buf, i)] = buf[i]
        OBVIOUS
      <3>1. CASE i = c + 1
        BY <3>1, <2>2, <1>5
      <3>2. CASE i \in 1..c
        BY <3>2, <1>4
      <3> QED BY <3>1, <3>2, <1>1
    <2>5. \A i \in 1..c + 1 : b[i] # Null /\ \E j \in 1..c + 1 : b[i] = buf[j]
      <3> SUFFICES ASSUME NEW i \in 1..c + 1
                   PROVE  b[i] # Null /\ \E j \in 1..c + 1 : b[i] = buf[j]
        OBVIOUS
      <3>1. CASE i = c + 1
        BY <3>1, <1>5, <1>7
      <3>2. CASE i \in 1..c
        BY <3>2, <2>2, <1>1, <1>4
      <3> QED BY <3>1, <3>2, <1>1
    <2>6. \A i \in 1..c + 1 : IF i <= c + 1
                              THEN b[i] # Null /\ \E j \in 1..c + 1 : b[i] = buf[j]
                              ELSE b[i] = Null
      BY <2>5, <1>1, SMTT(20)
    <2>7. acc = [buf |-> b, free |-> acc.free] /\ DOMAIN b = 1..n /\ acc.free = 0
      BY <1>4, <1>7
    <2>8. LoopSound(buf, c + 1, acc)
      BY <2>2, <2>3, <2>4, <2>6, <2>7 DEF LoopSound, n, b
    <2> QED BY <2>1, <2>8
  <1>8. CASE buf[c + 1] # Null /\ acc.free # 0
    <2>1. acc.free = k + 1 /\ k + 1 <= c /\ Rank(buf, c + 1) = k + 1 /\ k + 1 # c + 1
      BY <1>1, <1>2, <1>4, <1>8
    <2> DEFINE moved == [b EXCEPT ![k + 1] = buf[c + 1], ![c + 1] = Null]
               nulls == {i \in (k + 1) + 1..c + 1 : moved[i] = Null}
    <2>2. CompactStep(acc, c + 1) = [buf |-> moved, free |-> Min(nulls)]
      BY <2>1, <1>5, <1>8 DEF CompactStep, b
    <2>3. /\ DOMAIN moved = 1..n
          /\ \A i \in 1..n : moved[i] = IF i = c + 1 THEN Null
                                        ELSE IF i = k + 1 THEN buf[c + 1] ELSE b[i]
      BY <2>1, <1>1, <1>2, <1>4
    <2>4. Min(nulls) = (k + 1) + 1
      <3>1. (k + 1) + 1 \in nulls
        <4>1. (k + 1) + 1 \in 1..n /\ (k + 1) + 1 \in (k + 1) + 1..c + 1
          BY <2>1, <1>1, <1>2
        <4>2. moved[(k + 1) + 1] = Null
          <5>1. CASE k + 1 = c
            BY <5>1, <4>1, <2>3
          <5>2. CASE k + 1 # c
            <6>1. (k + 1) + 1 \in 1..c /\ ~((k + 1) + 1 <= k)
              BY <5>2, <2>1, <1>1, <1>2
            <6> QED BY <6>1, <4>1, <2>1, <2>3, <1>1, <1>2, <1>4
          <5> QED BY <5>1, <5>2
        <4> QED BY <4>1, <4>2
      <3>2. \A x \in nulls : x \in Int /\ (k + 1) + 1 <= x
        BY <1>1, <1>2
      <3> HIDE DEF nulls
      <3>3. \A x \in nulls : (\A y \in nulls : x =< y) => x = (k + 1) + 1
        BY <3>1, <3>2, <1>2, SMTT(20)
      <3> QED BY <3>1, <3>2, <3>3 DEF Min
    <2> HIDE DEF moved, nulls
    <2>5. \A i \in (c + 1) + 1..n : moved[i] = buf[i]
      <3> SUFFICES ASSUME NEW i \in (c + 1) + 1..n
                   PROVE  moved[i] = buf[i]
        OBVIOUS
      <3>1. i \in 1..n /\ i \in c + 1..n /\ i # c + 1 /\ i # k + 1
        BY <2>1, <1>1, <1>2
      <3> QED BY <3>1, <2>3, <1>4
    <2>6. \A i \in 1..c + 1 : buf[i] # Null => moved[Rank(buf, i)] = buf[i]
      <3> SUFFICES ASSUME NEW i \in 1..c + 1, buf[i] # Null
                   PROVE  moved[Rank(buf, i)] = buf[i]
        OBVIOUS
      <3>1. CASE i = c + 1
        <4>1. k + 1 \in 1..n
          BY <2>1, <1>1, <1>2
        <4> QED BY <4>1, <3>1, <2>1, <2>3
      <3>2. CASE i \in 1..c
        <4>1. Rank(buf, i) \in 1..k /\ Rank(buf, i) \in 1..n
          BY <3>2, <1>1, <1>2, <1>3
        <4>2. Rank(buf, i) # c + 1 /\ Rank(buf, i) # k + 1
          BY <4>1, <1>1, <1>2
        <4> QED BY <4>1, <4>2, <3>2, <2>3, <1>4
      <3> QED BY <3>1, <3>2, <1>1
    <2>7. \A i \in 1..c + 1 :
            IF i <= k + 1 THEN moved[i] # Null /\ \E j \in 1..c + 1 : moved[i] = buf[j]
            ELSE moved[i] = Null
      <3> SUFFICES ASSUME NEW i \in 1..c + 1
                   PROVE  IF i <= k + 1
                          THEN moved[i] # Null /\ \E j \in 1..c + 1 : moved[i] = buf[j]
                          ELSE moved[i] = Null
        OBVIOUS
      <3>0. i \in 1..n
        BY <1>1
      <3>1. CASE i = c + 1
        BY <3>0, <3>1, <2>1, <2>3, <1>1, <1>2
      <3>2. CASE i = k + 1
        <4>1. moved[i] = buf[c + 1] /\ c + 1 \in 1..c + 1
          BY <3>0, <3>2, <2>1, <2>3, <1>1
        <4> QED BY <4>1, <3>2, <1>2, <1>8
      <3>3. CASE i # c + 1 /\ i # k + 1
        <4>1. moved[i] = b[i] /\ i \in 1..c
          BY <3>0, <3>3, <2>3, <1>1
        <4>2. i <= k <=> i <= k + 1
          BY <3>3, <1>2
        <4> QED BY <4>1, <4>2, <1>1, <1>4
      <3> QED BY <3>1, <3>2, <3>3
    <2> DEFINE new == CompactStep(acc, c + 1)
    <2>8. new.buf = moved /\ new.free = (k + 1) + 1 /\ new = [buf |-> new.buf, free |-> new.free]
      BY <2>2, <2>4
    <2> HIDE DEF new
    <2>9. LoopSound(buf, c + 1, new)
      BY <2>1, <2>3, <2>5, <2>6, <2>7, <2>8 DEF LoopSound, n
    <2> QED BY <2>9 DEF new
  <1> QED BY <1>6, <1>7, <1>8

(* The loop of Compact, up to the place m.                                 *)
IsLoop(buf, m, g) ==
    g = [c \in 0..m |-> IF c = 0 THEN [buf |-> buf, free |-> 0] ELSE CompactStep(g[c - 1], c)]

LEMMA LoopExists ==
    ASSUME NEW buf, NEW n \in Nat
    PROVE  \E g : IsLoop(buf, n, g)
  <1> DEFINE T == {m \in Nat : \E g : IsLoop(buf, m, g)}
  <1>1. 0 \in T
    <2> DEFINE g == [c \in 0..0 |-> [buf |-> buf, free |-> 0]]
    <2>1. IsLoop(buf, 0, g)
      BY DEF IsLoop
    <2> QED BY <2>1
  <1>2. ASSUME NEW m \in Nat, m \in T
        PROVE  m + 1 \in T
    <2>1. PICK g : IsLoop(buf, m, g)
      BY <1>2
    <2> DEFINE h == [c \in 0..m + 1 |-> IF c = m + 1 THEN CompactStep(g[m], m + 1) ELSE g[c]]
    <2>2. \A c \in 0..m : h[c] = g[c]
      OBVIOUS
    <2>3. \A c \in 0..m :
            g[c] = IF c = 0 THEN [buf |-> buf, free |-> 0] ELSE CompactStep(g[c - 1], c)
      BY <2>1 DEF IsLoop
    <2>4. \A c \in 0..m + 1 :
            h[c] = IF c = 0 THEN [buf |-> buf, free |-> 0] ELSE CompactStep(h[c - 1], c)
      <3> SUFFICES ASSUME NEW c \in 0..m + 1
                   PROVE  h[c] = IF c = 0 THEN [buf |-> buf, free |-> 0]
                                 ELSE CompactStep(h[c - 1], c)
        OBVIOUS
      <3>1. CASE c = m + 1
        <4>1. h[c] = CompactStep(g[m], c) /\ c # 0 /\ c - 1 = m /\ m \in 0..m
          BY <3>1
        <4> QED BY <4>1, <2>2
      <3>2. CASE c \in 0..m /\ c # 0
        <4>1. c - 1 \in 0..m
          BY <3>2
        <4> QED BY <4>1, <3>2, <2>2, <2>3
      <3>3. CASE c = 0
        <4>1. 0 \in 0..m
          OBVIOUS
        <4> QED BY <4>1, <3>3, <2>2, <2>3
      <3> QED BY <3>1, <3>2, <3>3
    <2>5. DOMAIN h = 0..m + 1 /\ h = [c \in 0..m + 1 |-> h[c]]
      OBVIOUS
    <2> HIDE DEF h
    <2>6. IsLoop(buf, m + 1, h)
      BY <2>4, <2>5 DEF IsLoop
    <2> QED BY <2>6
  <1> HIDE DEF T
  <1>3. Nat \subseteq T
    BY <1>1, <1>2, SetInduction
  <1> QED BY <1>3 DEF T

(* compact_queue_ptrv leaves the kept entries, in their order.             *)
THEOREM CompactProperties ==
    ASSUME NEW S, NEW buf \in Seq(S)
    PROVE  /\ Compact(buf) = [i \in 1..Rank(buf, Len(buf)) |-> Compact(buf)[i]]
           /\ Rank(buf, Len(buf)) \in Nat
           /\ \A i \in 1..Len(buf) : buf[i] # Null =>
                  /\ Rank(buf, i) \in 1..Rank(buf, Len(buf))
                  /\ Compact(buf)[Rank(buf, i)] = buf[i]
           /\ \A i \in 1..Rank(buf, Len(buf)) :
                  Compact(buf)[i] # Null /\ \E j \in 1..Len(buf) : Compact(buf)[i] = buf[j]
  <1> DEFINE n == Len(buf)
             k == Rank(buf, n)
             loop == CHOOSE g : IsLoop(buf, n, g)
  <1>1. n \in Nat /\ DOMAIN buf = 1..n
    OBVIOUS
  <1>2. IsLoop(buf, n, loop)
    BY <1>1, LoopExists
  <1>3. Compact(buf) = IF loop[n].free = 0 THEN buf
                       ELSE [i \in 1..loop[n].free - 1 |-> loop[n].buf[i]]
    BY DEF Compact, IsLoop
  <1> HIDE DEF loop
  <1>4. \A c \in 0..n :
          loop[c] = IF c = 0 THEN [buf |-> buf, free |-> 0] ELSE CompactStep(loop[c - 1], c)
    BY <1>2 DEF IsLoop
  <1>5. LoopSound(buf, n, loop[n])
    <2> DEFINE T == {m \in Nat : m <= n => LoopSound(buf, m, loop[m])}
    <2>1. 0 \in T
      <3>1. loop[0] = [buf |-> buf, free |-> 0]
        BY <1>1, <1>4
      <3>2. Rank(buf, 0) = 0
        BY RankProperties
      <3>3. loop[0].buf = buf /\ loop[0].free = 0 /\ \A i \in 1..0 : FALSE
        BY <3>1
      <3>4. LoopSound(buf, 0, loop[0])
        BY <3>1, <3>2, <3>3, <1>1 DEF LoopSound
      <3> QED BY <3>4
    <2>2. ASSUME NEW m \in Nat, m \in T
          PROVE  m + 1 \in T
      <3> SUFFICES ASSUME m + 1 <= n
                   PROVE  LoopSound(buf, m + 1, loop[m + 1])
        OBVIOUS
      <3>1. m \in 0..n - 1 /\ m <= n /\ m + 1 \in 0..n /\ m + 1 # 0 /\ (m + 1) - 1 = m
        BY <1>1
      <3>2. loop[m + 1] = CompactStep(loop[m], m + 1)
        BY <1>4, <3>1
      <3>3. LoopSound(buf, m, loop[m])
        BY <2>2, <3>1
      <3> QED BY <3>1, <3>2, <3>3, LoopStep
    <2> HIDE DEF T
    <2>3. Nat \subseteq T
      BY <2>1, <2>2, SetInduction
    <2> QED BY <2>3, <1>1 DEF T
  <1> DEFINE b == loop[n].buf
             res == Compact(buf)
  <1>6. /\ DOMAIN b = 1..n
        /\ \A i \in 1..n : buf[i] # Null => b[Rank(buf, i)] = buf[i]
        /\ \A i \in 1..n : IF i <= k THEN b[i] # Null /\ \E j \in 1..n : b[i] = buf[j]
                           ELSE b[i] = Null
        /\ loop[n].free = IF k = n THEN 0 ELSE k + 1
    BY <1>5 DEF LoopSound
  <1>7. k \in Nat /\ k <= n /\ \A i \in 0..n : Rank(buf, i) \in Nat /\ Rank(buf, i) <= k
    BY <1>1, RankProperties
  <1>8. \A i \in 1..n : buf[i] # Null => Rank(buf, i) \in 1..k
    <2> SUFFICES ASSUME NEW i \in 1..n, buf[i] # Null
                 PROVE  Rank(buf, i) \in 1..k
      OBVIOUS
    <2>1. i - 1 \in Nat /\ (i - 1) + 1 = i /\ i \in 0..n
      BY <1>1
    <2>2. Rank(buf, i - 1) \in Nat /\ Rank(buf, i) = Rank(buf, i - 1) + 1
      BY <2>1, RankProperties
    <2> QED BY <2>1, <2>2, <1>7
  <1> HIDE DEF k, n, b
  <1>9. DOMAIN res = 1..k /\ res = [i \in 1..k |-> res[i]]
    <2>1. CASE k = n
      <3>1. res = buf /\ buf = [i \in 1..n |-> buf[i]]
        BY <2>1, <1>1, <1>3, <1>6, <1>7
      <3> QED BY <2>1, <3>1
    <2>2. CASE k # n
      <3>1. res = [i \in 1..k |-> b[i]]
        BY <2>2, <1>3, <1>6, <1>7 DEF b
      <3> QED BY <3>1
    <2> QED BY <2>1, <2>2
  <1>10. \A i \in 1..k : res[i] # Null /\ (\E j \in 1..n : res[i] = buf[j])
    <2>1. CASE k = n
      <3>1. res = buf
        BY <2>1, <1>1, <1>3, <1>6, <1>7
      <3>2. \A i \in 1..n : buf[i] # Null
        BY <2>1, <1>1, FullRank DEF k
      <3> QED BY <2>1, <3>1, <3>2
    <2>2. CASE k # n
      <3>1. res = [i \in 1..k |-> b[i]]
        BY <2>2, <1>3, <1>6, <1>7 DEF b
      <3>2. \A i \in 1..k : i \in 1..n /\ i <= k
        BY <1>1, <1>7
      <3> QED BY <3>1, <3>2, <1>6
    <2> QED BY <2>1, <2>2
  <1>11. \A i \in 1..n : buf[i] # Null => res[Rank(buf, i)] = buf[i]
    <2> SUFFICES ASSUME NEW i \in 1..n, buf[i] # Null
                 PROVE  res[Rank(buf, i)] = buf[i]
      OBVIOUS
    <2>1. Rank(buf, i) \in 1..k /\ b[Rank(buf, i)] = buf[i]
      BY <1>6, <1>8
    <2>2. CASE k # n
      <3>1. res = [j \in 1..k |-> b[j]]
        BY <2>2, <1>3, <1>6, <1>7 DEF b
      <3> QED BY <2>1, <3>1
    <2>3. CASE k = n
      <3>1. res = buf
        BY <2>3, <1>1, <1>3, <1>6, <1>7
      <3>2. Rank(buf, i) = i
        BY <2>3, <1>1, FullRank DEF k
      <3> QED BY <3>1, <3>2
    <2> QED BY <2>2, <2>3
  <1> QED BY <1>7, <1>8, <1>9, <1>10, <1>11 DEF k, n

-----------------------------------------------------------------------------
(* What a step of one connection leaves alone *)

LEMMA OthersSound ==
    ASSUME NEW d \in Conn, ConnSound(d),
           step'[d] = step[d], wait'[d] = wait[d], file'[d] = file[d],
           toMain'[d] = toMain[d], toUser'[d] = toUser[d], dir'[d] = dir[d],
           transfer_file'[d] = transfer_file[d], d \in occupied' <=> d \in occupied
    PROVE  ConnSound(d)'
  <1>1. ProcessSound(d)'
    BY DEF ConnSound, ProcessSound
  <1>2. Live(d)' <=> Live(d)
    BY DEF Live
  <1>3. Dropped(d) => Dropped(d)'
    BY DEF Dropped
  <1>4. IdlePipe(d, toMain[d]) => IdlePipe(d, toMain[d])'
    BY DEF IdlePipe
  <1>5. PipeSound(d) => PipeSound(d)'
    BY <1>4 DEF PipeSound
  <1>6. InStep(d) => InStep(d)'
    BY DEF InStep, Quiet, Settles, WaitsForFile, Downloads
  <1> QED BY <1>1, <1>2, <1>3, <1>5, <1>6 DEF ConnSound

(* A step of the process of the connection c.                              *)
LEMMA UserFrame ==
    ASSUME Inv, NEW c \in Conn, UNCHANGED mainVars,
           NEW s \in Step, NEW w \in Wait, NEW f \in Name \cup {NoFile}, Continue(c, s, w, f),
           toMain' \in [Conn -> Seq(Msg)], toUser' \in [Conn -> Seq(Answer)],
           \A d \in Conn : d # c => toMain'[d] = toMain[d] /\ toUser'[d] = toUser[d],
           ConnSound(c)'
    PROVE  Inv'
  <1>1. TypeOK'
    BY DEF Inv, TypeOK, mainVars, queueVars, Continue
  <1>2. \A d \in Conn : ConnSound(d)'
    <2> SUFFICES ASSUME NEW d \in Conn, d # c
                 PROVE  ConnSound(d)'
      OBVIOUS
    <2>1. ConnSound(d)
      BY DEF Inv
    <2>2. /\ step'[d] = step[d] /\ wait'[d] = wait[d] /\ file'[d] = file[d]
          /\ dir' = dir /\ transfer_file' = transfer_file /\ occupied' = occupied
      BY DEF Inv, TypeOK, mainVars, queueVars, Continue
    <2> QED BY <2>1, <2>2, OthersSound
  <1>3. OnePerDirection'
    BY DEF Inv, OnePerDirection, mainVars
  <1>4. QueueSound'
    BY DEF Inv, QueueSound, QueuePosTracksTransfer, mainVars, queueVars
  <1> QED BY <1>1, <1>2, <1>3, <1>4 DEF Inv, mainVars, queueVars

(* The values of the connection c after such a step.                       *)
LEMMA Continued ==
    ASSUME TypeOK, NEW c \in Conn, NEW s, NEW w, NEW f, Continue(c, s, w, f)
    PROVE  step'[c] = s /\ wait'[c] = w /\ file'[c] = f
  BY DEF TypeOK, Continue

(* The messages with the ids.                                              *)
Sent(c, ids) == [i \in 1..Len(ids) |-> Message(c, ids[i])]

LEMMA SentProperties ==
    ASSUME TypeOK, NEW c \in Conn
    PROVE  /\ \A id \in Id : Message(c, id) \in Msg
           /\ \A id \in Id : Message(c, id).id = id
           /\ \A id \in {"TRANSFER_START", "ENDED_success"} : Message(c, id).file = file[c]
           /\ \A x : Sent(c, <<x>>) = <<Message(c, x)>>
           /\ \A x, y : Sent(c, <<x, y>>) = <<Message(c, x), Message(c, y)>>
           /\ \A x, y, z : Sent(c, <<x, y, z>>) = <<Message(c, x), Message(c, y), Message(c, z)>>
  <1>1. \A id \in Id : Message(c, id) \in Msg /\ Message(c, id).id = id
    BY DEF TypeOK, Message, Msg
  <1>2. \A id \in {"TRANSFER_START", "ENDED_success"} : Message(c, id).file = file[c]
    BY DEF Message
  <1>3. \A x : Sent(c, <<x>>) = <<Message(c, x)>>
    BY DEF Sent
  <1>4. \A x, y : Sent(c, <<x, y>>) = <<Message(c, x), Message(c, y)>>
    BY DEF Sent
  <1>5. \A x, y, z : Sent(c, <<x, y, z>>) = <<Message(c, x), Message(c, y), Message(c, z)>>
    BY DEF Sent
  <1> QED BY <1>1, <1>2, <1>3, <1>4, <1>5

LEMMA PutProperties ==
    ASSUME TypeOK, NEW c \in Conn, NEW ids, Put(c, ids), Sent(c, ids) \in Seq(Msg)
    PROVE  /\ toMain' \in [Conn -> Seq(Msg)]
           /\ toMain'[c] = IF Live(c) THEN toMain[c] \o Sent(c, ids) ELSE toMain[c]
           /\ \A d \in Conn : d # c => toMain'[d] = toMain[d]
  <1>1. toMain \in [Conn -> Seq(Msg)] /\ toMain[c] \in Seq(Msg)
    BY DEF TypeOK
  <1>2. toMain[c] \o Sent(c, ids) \in Seq(Msg)
    BY <1>1, ConcatProperties
  <1>3. toMain' = IF Live(c) THEN [toMain EXCEPT ![c] = @ \o Sent(c, ids)] ELSE toMain
    BY DEF Put, Sent
  <1> HIDE DEF Sent
  <1> QED BY <1>1, <1>2, <1>3

(* A process whose connection is gone hears nothing.                       *)
LEMMA AnsweredProperties ==
    ASSUME Inv, NEW c \in Conn, NEW a, Answered(c, a)
    PROVE  /\ Live(c) /\ toUser[c] # <<>> /\ Head(toUser[c]) = a
           /\ toUser' \in [Conn -> Seq(Answer)]
           /\ toUser'[c] = Tail(toUser[c])
           /\ \A d \in Conn : d # c => toUser'[d] = toUser[d]
  <1>1. Live(c)
    BY DEF Answered, Inv, ConnSound, Dropped
  <1>2. toUser \in [Conn -> Seq(Answer)] /\ toUser[c] \in Seq(Answer) /\ toUser[c] # <<>>
    BY DEF Inv, TypeOK, Answered
  <1>3. Tail(toUser[c]) \in Seq(Answer)
    BY <1>2, HeadTailProperties
  <1> QED BY <1>1, <1>2, <1>3 DEF Answered

(* Short sequences.                                                        *)
LEMMA ShortSequences ==
    /\ \A x : Len(<<x>>) = 1 /\ Head(<<x>>) = x /\ Tail(<<x>>) = <<>> /\ <<x>> # <<>>
    /\ \A x, y : Head(<<x, y>>) = x /\ Tail(<<x, y>>) = <<y>> /\ <<x, y>> # <<>>
    /\ \A x, y, z : Head(<<x, y, z>>) = x /\ Tail(<<x, y, z>>) = <<y, z>> /\ <<x, y, z>> # <<>>
  OBVIOUS

LEMMA ShortIsSeq ==
    ASSUME NEW S, NEW x \in S, NEW y \in S, NEW z \in S
    PROVE  <<x>> \in Seq(S) /\ <<x, y>> \in Seq(S) /\ <<x, y, z>> \in Seq(S)
  OBVIOUS

LEMMA BehindStart ==
    ASSUME NEW S, NEW q \in Seq(S), NEW r \in Seq(S)
    PROVE  /\ q = <<>> => q \o r = r
           /\ Len(q) = 1 => q \o r # <<>> /\ Head(q \o r) = Head(q) /\ Tail(q \o r) = r
  <1>1. q = <<>> => q \o r = r
    BY ConcatEmptySeq
  <1>2. ASSUME Len(q) = 1
        PROVE  q \o r # <<>> /\ Head(q \o r) = Head(q) /\ Tail(q \o r) = r
    <2>1. /\ q \o r \in Seq(S) /\ Len(q \o r) = 1 + Len(r) /\ Len(r) \in Nat
          /\ \A i \in 1..(1 + Len(r)) : (q \o r)[i] = IF i <= 1 THEN q[i] ELSE r[i - 1]
      BY <1>2, ConcatProperties, SMTT(20)
    <2> DEFINE t == q \o r
    <2> HIDE DEF t
    <2>2. t \in Seq(S) /\ t # <<>> /\ Head(t) = t[1] /\ t[1] = q[1] /\ Head(q) = q[1]
      BY <2>1 DEF t
    <2>3. /\ Tail(t) \in Seq(S) /\ Len(Tail(t)) = Len(r)
          /\ \A i \in 1..Len(Tail(t)) : Tail(t)[i] = t[i + 1]
      <3>1. Len(t) = 1 + Len(r)
        BY <2>1 DEF t
      <3> QED BY <2>1, <2>2, <3>1, HeadTailProperties
    <2>4. \A i \in 1..Len(Tail(t)) : Tail(t)[i] = r[i]
      <3> SUFFICES ASSUME NEW i \in 1..Len(Tail(t))
                   PROVE  Tail(t)[i] = r[i]
        OBVIOUS
      <3>1. i + 1 \in 1..(1 + Len(r)) /\ ~(i + 1 <= 1) /\ (i + 1) - 1 = i
        BY <2>1, <2>3
      <3>2. t[i + 1] = r[i]
        BY <2>1, <3>1 DEF t
      <3> QED BY <2>3, <3>2
    <2>5. Tail(t) = r
      BY <2>3, <2>4, SeqEqual
    <2> QED BY <2>2, <2>5 DEF t
  <1> QED BY <1>1, <1>2

-----------------------------------------------------------------------------
(* The steps of a user process *)

(* A process that asks its first question, or the next one.                *)
LEMMA AskStep ==
    ASSUME Inv, NEW c \in Conn, ReceiveDirection(c) \/ ReceiveKey(c)
    PROVE  Inv'
  <1>0. TypeOK /\ ConnSound(c)
    BY DEF Inv
  <1>1. PICK id \in {"WANT_DOWNLOAD", "CHECK_DOWNLOAD"}, w \in {"want", "file"} :
           /\ id = "WANT_DOWNLOAD" => step[c] = "direction" /\ w = "want"
           /\ id = "CHECK_DOWNLOAD" => step[c] = "key" /\ w = "file"
           /\ Idle(c) /\ Put(c, <<id>>) /\ Continue(c, step[c], w, NoFile)
           /\ UNCHANGED mainVars /\ toUser' = toUser
    BY DEF ReceiveDirection, ReceiveKey
  <1>2. /\ wait[c] = "no" /\ step[c] \in {"direction", "key"}
        /\ step'[c] = step[c] /\ wait'[c] = w /\ file'[c] = NoFile
    BY <1>0, <1>1, Continued DEF Idle
  <1> DEFINE m == Message(c, id)
  <1>3. m \in Msg /\ m.id = id /\ Sent(c, <<id>>) = <<m>>
    BY <1>0, SentProperties DEF Id
  <1> HIDE DEF m
  <1>3a. Sent(c, <<id>>) \in Seq(Msg)
    BY <1>3, ShortIsSeq
  <1>4. /\ toMain' \in [Conn -> Seq(Msg)]
        /\ toMain'[c] = IF Live(c) THEN toMain[c] \o <<m>> ELSE toMain[c]
        /\ \A d \in Conn : d # c => toMain'[d] = toMain[d]
    BY <1>0, <1>1, <1>3, <1>3a, PutProperties
  <1>5. dir' = dir /\ occupied' = occupied /\ (Live(c)' <=> Live(c))
    BY <1>1 DEF mainVars, queueVars, Live
  <1>6. ProcessSound(c)'
    BY <1>1, <1>2 DEF ProcessSound
  <1>7. ASSUME Live(c) PROVE ConnSound(c)'
    <2>1. /\ toMain[c] = <<>> /\ toUser[c] = <<>> /\ c \notin occupied
          /\ id = "WANT_DOWNLOAD" => dir[c] = "unknown"
          /\ id = "CHECK_DOWNLOAD" => dir[c] = "receive"
      BY <1>0, <1>1, <1>2, <1>7 DEF ConnSound, InStep, Quiet
    <2>2. toMain'[c] = <<m>> /\ Asks(toMain[c], id)'
      BY <1>3, <1>4, <1>7, <2>1, ShortSequences, BehindStart DEF Asks
    <2>3. PipeSound(c)'
      BY <1>1, <1>5, <2>1, <2>2 DEF PipeSound, IdlePipe, Asks
    <2>4. InStep(c)'
      <3>1. toUser'[c] = <<>> /\ dir'[c] = dir[c] /\ c \notin occupied'
        BY <1>1, <1>5, <2>1
      <3>2. CASE id = "WANT_DOWNLOAD"
        <4>1. Settles(c, "WANT_DOWNLOAD")'
          BY <2>1, <2>2, <3>1, <3>2 DEF Settles
        <4> QED BY <1>1, <1>2, <3>2, <4>1 DEF InStep
      <3>3. CASE id = "CHECK_DOWNLOAD"
        <4>1. WaitsForFile(c)'
          BY <2>1, <3>1, <3>3 DEF WaitsForFile
        <4> QED BY <1>1, <1>2, <3>3, <4>1 DEF InStep
      <3> QED BY <3>2, <3>3
    <2> QED BY <1>5, <1>6, <1>7, <2>3, <2>4 DEF ConnSound
  <1>8. ASSUME ~Live(c) PROVE ConnSound(c)'
    <2>1. Dropped(c)
      BY <1>0, <1>8 DEF ConnSound
    <2>2. toMain'[c] = toMain[c]
      BY <1>4, <1>8
    <2>3. Dropped(c)'
      BY <1>1, <1>5, <2>1, <2>2 DEF Dropped
    <2>4. ~Live(c)'
      BY <1>5, <1>8
    <2> QED BY <1>6, <2>3, <2>4 DEF ConnSound
  <1>9. toUser' \in [Conn -> Seq(Answer)] /\ step[c] \in Step /\ w \in Wait
    BY <1>0, <1>1 DEF TypeOK, Wait
  <1> QED BY <1>1, <1>4, <1>7, <1>8, <1>9, UserFrame

(* A process that ends, or is ended, has at most its last word to say.     *)
LEMMA ExitStep ==
    ASSUME Inv, NEW c \in Conn, UNCHANGED mainVars, Exit(c),
           toMain' \in [Conn -> Seq(Msg)], toUser' \in [Conn -> Seq(Answer)],
           \A d \in Conn : d # c => toMain'[d] = toMain[d] /\ toUser'[d] = toUser[d],
           Live(c) => PipeSound(c)',
           ~Live(c) => toMain'[c] = toMain[c] /\ toUser'[c] = toUser[c]
    PROVE  Inv'
  <1>1. TypeOK /\ ConnSound(c)
    BY DEF Inv
  <1>2. Continue(c, "off", "no", NoFile)
    BY DEF Exit
  <1>3. step'[c] = "off" /\ wait'[c] = "no" /\ file'[c] = NoFile
    BY <1>1, <1>2, Continued
  <1>4. ProcessSound(c)' /\ InStep(c)'
    BY <1>3 DEF ProcessSound, InStep
  <1>5. Live(c)' <=> Live(c)
    BY DEF mainVars, Live
  <1>6. ~Live(c) => Dropped(c)'
    BY <1>1 DEF ConnSound, Dropped, mainVars, queueVars
  <1>7. ConnSound(c)'
    BY <1>4, <1>5, <1>6 DEF ConnSound
  <1> QED BY <1>2, <1>7, UserFrame DEF Step, Wait

LEMMA DieStep ==
    ASSUME Inv, NEW c \in Conn, Die(c)
    PROVE  Inv'
  <1>1. TypeOK /\ ConnSound(c)
    BY DEF Inv
  <1>2. UNCHANGED <<mainVars, toMain, toUser>> /\ Exit(c)
    BY DEF Die
  <1>3. Live(c) => PipeSound(c)'
    <2>1. IdlePipe(c, toMain[c]) => IdlePipe(c, toMain[c])'
      BY <1>2 DEF IdlePipe, mainVars
    <2> QED BY <1>1, <1>2, <2>1 DEF ConnSound, PipeSound, mainVars, queueVars
  <1> QED BY <1>1, <1>2, <1>3, ExitStep DEF TypeOK

(* The last word of a process is sound whatever main thinks of it.         *)
LEMMA LastIsSound ==
    ASSUME Inv, NEW c \in Conn, Live(c), UNCHANGED mainVars,
           toMain'[c] # <<>>, Head(toMain'[c]).id = "TERMINATING"
    PROVE  PipeSound(c)'
  <1>1. IsLast(toMain[c])'
    BY DEF IsLast
  <1>2. IdlePipe(c, toMain[c])' /\ BusyPipe(toMain[c], transfer_file[c])'
    BY <1>1 DEF IdlePipe, BusyPipe, EndsWith
  <1>3. PipeSound(c)
    BY DEF Inv, ConnSound
  <1> QED BY <1>2, <1>3 DEF PipeSound, mainVars, queueVars

(* A process with an answer about its direction.                           *)
LEMMA SettledProperties ==
    ASSUME Inv, NEW c \in Conn, wait[c] \in {"want", "receive", "send"}, NEW a \in {"yes", "no"},
           Answered(c, a)
    PROVE  /\ Live(c) /\ c \notin occupied
           /\ toMain[c] = <<>> /\ toUser'[c] = <<>>
           /\ wait[c] = "want" => dir[c] = "unknown"
           /\ wait[c] \in {"receive", "send"} /\ a = "yes" => dir[c] = wait[c]
  <1>1. Live(c) /\ toUser[c] # <<>> /\ Head(toUser[c]) = a /\ toUser'[c] = Tail(toUser[c])
    BY AnsweredProperties
  <1>2. InStep(c)
    BY <1>1 DEF Inv, ConnSound
  <1>3. PICK id \in {"WANT_DOWNLOAD", "VALIDATE_receive", "VALIDATE_send"} :
          /\ Settles(c, id)
          /\ wait[c] = "want" <=> id = "WANT_DOWNLOAD"
          /\ wait[c] = "receive" <=> id = "VALIDATE_receive"
          /\ wait[c] = "send" <=> id = "VALIDATE_send"
    BY <1>2 DEF InStep
  <1>4. toMain[c] = <<>> /\ c \notin occupied /\ (id = "WANT_DOWNLOAD" => dir[c] = "unknown")
    BY <1>1, <1>3 DEF Settles
  <1>5. toUser[c] = <<a>> /\ toUser'[c] = <<>>
    BY <1>1, <1>3, ShortSequences, ZenonT(40) DEF Settles
  <1>6. a = "yes" => toUser[c] # <<"no">>
    BY <1>5, ShortSequences
  <1>7. wait[c] \in {"receive", "send"} /\ a = "yes" => dir[c] = wait[c]
    BY <1>1, <1>3, <1>6 DEF Settles
  <1> QED BY <1>1, <1>3, <1>4, <1>5, <1>7

LEMMA WantStep ==
    ASSUME Inv, NEW c \in Conn, ReceiveWant(c)
    PROVE  Inv'
  <1>0. TypeOK /\ ConnSound(c)
    BY DEF Inv
  <1>1. PICK a \in {"yes", "no"} :
          /\ Answered(c, a)
          /\ \/ Put(c, <<"VALIDATE_receive">>) /\ Continue(c, "direction", "receive", NoFile)
             \/ Put(c, <<"VALIDATE_send">>) /\ Continue(c, "direction", "send", NoFile)
             \/ Put(c, <<"TERMINATING">>) /\ Exit(c)
    BY DEF ReceiveWant
  <1>2. wait[c] = "want" /\ UNCHANGED mainVars
    BY DEF ReceiveWant
  <1>3. /\ Live(c) /\ c \notin occupied /\ toMain[c] = <<>> /\ toUser'[c] = <<>>
        /\ dir[c] = "unknown"
    BY <1>1, <1>2, SettledProperties
  <1>4. /\ toUser' \in [Conn -> Seq(Answer)]
        /\ \A d \in Conn : d # c => toUser'[d] = toUser[d]
    BY <1>1, AnsweredProperties
  <1>5. dir' = dir /\ occupied' = occupied /\ Live(c)'
    BY <1>2, <1>3 DEF mainVars, queueVars, Live
  <1>6. ASSUME NEW id \in Id, Put(c, <<id>>)
        PROVE  /\ toMain' \in [Conn -> Seq(Msg)]
               /\ toMain'[c] = <<Message(c, id)>> /\ Message(c, id).id = id
               /\ \A d \in Conn : d # c => toMain'[d] = toMain[d]
    <2>1. Message(c, id) \in Msg /\ Message(c, id).id = id /\ Sent(c, <<id>>) = <<Message(c, id)>>
      BY <1>0, SentProperties
    <2>2. <<Message(c, id)>> \in Seq(Msg) /\ <<>> \o <<Message(c, id)>> = <<Message(c, id)>>
      BY <2>1, ShortIsSeq, ConcatEmptySeq
    <2> QED BY <1>0, <1>3, <1>6, <2>1, <2>2, PutProperties
  <1>7. ASSUME NEW d \in {"receive", "send"}, NEW id \in {"VALIDATE_receive", "VALIDATE_send"},
               d = "receive" <=> id = "VALIDATE_receive",
               Put(c, <<id>>), Continue(c, "direction", d, NoFile)
        PROVE  Inv'
    <2>1. step'[c] = "direction" /\ wait'[c] = d /\ file'[c] = NoFile
      BY <1>0, <1>7, Continued
    <2>2. id \in Id
      BY DEF Id
    <2>3. Asks(toMain[c], id)'
      BY <1>6, <1>7, <2>2, ShortSequences DEF Asks
    <2>4. Settles(c, id)'
      BY <1>3, <1>5, <2>3 DEF Settles
    <2>5. ProcessSound(c)'
      BY <2>1 DEF ProcessSound
    <2>5a. InStep(c)'
      <3>1. CASE d = "receive"
        <4>1. id = "VALIDATE_receive" /\ wait'[c] = "receive"
          BY <1>7, <2>1, <3>1
        <4>2. Settles(c, "VALIDATE_receive")'
          BY <2>4, <4>1
        <4> QED BY <2>1, <4>1, <4>2 DEF InStep
      <3>2. CASE d = "send"
        <4>1. id = "VALIDATE_send" /\ wait'[c] = "send"
          BY <1>7, <2>1, <3>2
        <4>2. Settles(c, "VALIDATE_send")'
          BY <2>4, <4>1
        <4> QED BY <2>1, <4>1, <4>2 DEF InStep
      <3> QED BY <1>7, <3>1, <3>2
    <2>6. PipeSound(c)'
      BY <1>3, <1>5, <2>3 DEF PipeSound, IdlePipe
    <2>7. ConnSound(c)'
      BY <1>5, <2>5, <2>5a, <2>6 DEF ConnSound
    <2> QED BY <1>2, <1>4, <1>6, <1>7, <2>2, <2>7, UserFrame DEF Step, Wait
  <1>8. ASSUME Put(c, <<"TERMINATING">>), Exit(c)
        PROVE  Inv'
    <2>1. "TERMINATING" \in Id
      BY DEF Id
    <2> DEFINE m == Message(c, "TERMINATING")
    <2>2. /\ toMain' \in [Conn -> Seq(Msg)] /\ toMain'[c] = <<m>> /\ m.id = "TERMINATING"
          /\ \A d \in Conn : d # c => toMain'[d] = toMain[d]
      BY <1>6, <1>8, <2>1
    <2> HIDE DEF m
    <2>3. toMain'[c] # <<>> /\ Head(toMain'[c]).id = "TERMINATING"
      BY <2>2, ShortSequences
    <2>4. PipeSound(c)'
      BY <1>2, <1>3, <2>3, LastIsSound
    <2> QED BY <1>2, <1>3, <1>4, <1>8, <2>2, <2>4, ExitStep
  <1> QED BY <1>1, <1>7, <1>8
LEMMA ValidStep ==
    ASSUME Inv, NEW c \in Conn, ReceiveValid(c)
    PROVE  Inv'
  <1>0. TypeOK /\ ConnSound(c) /\ wait[c] \in {"receive", "send"} /\ UNCHANGED mainVars
    BY DEF Inv, ReceiveValid
  <1>1. CASE /\ Answered(c, "yes") /\ UNCHANGED toMain
             /\ Continue(c, IF wait[c] = "send" THEN "send" ELSE "key", "no", NoFile)
    <2> DEFINE s == IF wait[c] = "send" THEN "send" ELSE "key"
    <2>1. step'[c] = s /\ wait'[c] = "no" /\ file'[c] = NoFile
      BY <1>0, <1>1, Continued
    <2>2. /\ Live(c) /\ c \notin occupied /\ toMain[c] = <<>> /\ toUser'[c] = <<>>
          /\ dir[c] = wait[c]
      BY <1>0, <1>1, SettledProperties
    <2>3. Live(c)' /\ toMain'[c] = <<>> /\ c \notin occupied'
      <3>1. toMain'[c] = <<>> /\ dir'[c] = dir[c] /\ c \notin occupied' /\ wait[c] # "none"
        BY <1>0, <1>1, <2>2 DEF mainVars, queueVars
      <3>2. Live(c)'
        BY <3>1, <2>2 DEF Live
      <3> QED BY <3>1, <3>2
    <2>4. ProcessSound(c)'
      BY <2>1 DEF ProcessSound
    <2>5. PipeSound(c)'
      BY <2>3 DEF PipeSound, IdlePipe
    <2>6. InStep(c)'
      <3>1. CASE wait[c] = "send"
        <4>1. toMain'[c] = <<>> /\ toUser'[c] = <<>> /\ dir'[c] = "send" /\ c \notin occupied'
          BY <2>2, <3>1, <1>0, <1>1 DEF mainVars, queueVars
        <4>2. Quiet(c, "send")'
          BY <4>1 DEF Quiet
        <4> QED BY <2>1, <3>1, <4>2 DEF InStep
      <3>2. CASE wait[c] = "receive"
        <4>1. toMain'[c] = <<>> /\ toUser'[c] = <<>> /\ dir'[c] = "receive" /\ c \notin occupied'
          BY <2>2, <3>2, <1>0, <1>1 DEF mainVars, queueVars
        <4>2. Quiet(c, "receive")'
          BY <4>1 DEF Quiet
        <4> QED BY <2>1, <3>2, <4>2 DEF InStep
      <3> QED BY <1>0, <3>1, <3>2
    <2>7. ConnSound(c)'
      BY <2>3, <2>4, <2>5, <2>6 DEF ConnSound
    <2>8. /\ toUser' \in [Conn -> Seq(Answer)] /\ toMain' \in [Conn -> Seq(Msg)]
          /\ \A d \in Conn : d # c => toUser'[d] = toUser[d] /\ toMain'[d] = toMain[d]
      BY <1>0, <1>1, AnsweredProperties DEF TypeOK
    <2>9. s \in Step /\ "no" \in Wait
      BY DEF Step, Wait
    <2> QED BY <1>0, <1>1, <2>7, <2>8, <2>9, UserFrame
  <1>2. CASE Answered(c, "no") /\ Put(c, <<"TERMINATING">>) /\ Exit(c)
    <2>1. Live(c) /\ toMain[c] = <<>>
      BY <1>0, <1>2, SettledProperties
    <2> DEFINE m == Message(c, "TERMINATING")
    <2>2. m \in Msg /\ m.id = "TERMINATING" /\ Sent(c, <<"TERMINATING">>) = <<m>>
      BY <1>0, SentProperties DEF Id
    <2> HIDE DEF m
    <2>3. Sent(c, <<"TERMINATING">>) \in Seq(Msg) /\ <<>> \o <<m>> = <<m>>
      BY <2>2, ShortIsSeq, ConcatEmptySeq
    <2>4. /\ toMain' \in [Conn -> Seq(Msg)]
          /\ toMain'[c] = <<m>>
          /\ \A d \in Conn : d # c => toMain'[d] = toMain[d]
      BY <1>0, <1>2, <2>1, <2>2, <2>3, PutProperties
    <2>5. PipeSound(c)'
      BY <1>0, <2>1, <2>2, <2>4, ShortSequences, LastIsSound
    <2>6. /\ toUser' \in [Conn -> Seq(Answer)]
          /\ \A d \in Conn : d # c => toUser'[d] = toUser[d]
      BY <1>2, AnsweredProperties
    <2> QED BY <1>0, <1>2, <2>1, <2>4, <2>5, <2>6, ExitStep
  <1> QED BY <1>1, <1>2 DEF ReceiveValid

(* A connection with a slot.                                               *)
LEMMA OccupiedReceives ==
    ASSUME Inv, NEW c \in occupied
    PROVE  c \in Conn /\ dir[c] = "receive" /\ transfer_file[c] \in Name
  BY DEF Inv, TypeOK, ConnSound, PipeSound, Live, Dropped

(* The process and what it says of its file, q.                            *)
LEMMA ReportProperties ==
    ASSUME Inv, NEW c \in Conn, file[c] # NoFile, UNCHANGED mainVars,
           NEW ids, Put(c, ids), Sent(c, ids) \in Seq(Msg),
           \/ EndsWith(Sent(c, ids), file[c])
           \/ step[c] = "file_length" /\ BusyPipe(Sent(c, ids), file[c])
    PROVE  /\ toMain' \in [Conn -> Seq(Msg)]
           /\ \A d \in Conn : d # c => toMain'[d] = toMain[d]
           /\ Live(c) => /\ PipeSound(c)' /\ Downloads(c)
                         /\ step[c] = "file_length" => toMain'[c] = Sent(c, ids)
           /\ ~Live(c) => toMain'[c] = toMain[c]
  <1> DEFINE q == toMain[c]
             r == Sent(c, ids)
             f == file[c]
  <1>1. TypeOK /\ ConnSound(c)
    BY DEF Inv
  <1>2. /\ toMain' \in [Conn -> Seq(Msg)]
        /\ toMain'[c] = IF Live(c) THEN q \o r ELSE q
        /\ \A d \in Conn : d # c => toMain'[d] = toMain[d]
    BY <1>1, PutProperties
  <1>3. ASSUME Live(c)
        PROVE  /\ PipeSound(c)' /\ Downloads(c)
               /\ step[c] = "file_length" => toMain'[c] = Sent(c, ids)
    <2>1. Downloads(c)
      BY <1>1, <1>3 DEF ConnSound, InStep
    <2>2. /\ q \in Seq(Msg) /\ r \in Seq(Msg)
          /\ c \in occupied /\ transfer_file[c] = f /\ dir[c] = "receive"
          /\ q = <<>> \/ (step[c] = "data_recv" /\ Len(q) = 1 /\ Starts(q, f))
      BY <1>1, <2>1 DEF TypeOK, Downloads
    <2>2a. f \in Name
      BY <2>2, OccupiedReceives
    <2>3. EndsWith(r, f) \/ (step[c] = "file_length" /\ BusyPipe(r, f))
      OBVIOUS
    <2> HIDE DEF q, r, f
    <2>4. BusyPipe(q \o r, f)
      <3>1. CASE q = <<>>
        <4>1. q \o r = r
          BY <2>2, <3>1, BehindStart
        <4> QED BY <2>3, <4>1 DEF BusyPipe
      <3>2. CASE step[c] = "data_recv" /\ Len(q) = 1 /\ Starts(q, f)
        <4>1. q \o r # <<>> /\ Head(q \o r) = Head(q) /\ Tail(q \o r) = r
          BY <2>2, <3>2, BehindStart
        <4>2. EndsWith(r, f)
          BY <2>3, <3>2
        <4> QED BY <3>2, <4>1, <4>2 DEF BusyPipe, Starts
      <3> QED BY <2>2, <3>1, <3>2
    <2>5. toMain'[c] = q \o r
      BY <1>2, <1>3
    <2>6. dir'[c] = dir[c] /\ transfer_file'[c] = f /\ c \in occupied'
      BY <2>2 DEF mainVars, queueVars
    <2>7. PipeSound(c)'
      BY <2>2, <2>2a, <2>4, <2>5, <2>6 DEF PipeSound
    <2>8. ASSUME step[c] = "file_length" PROVE toMain'[c] = r
      <3>1. q = <<>>
        BY <2>2, <2>8
      <3> QED BY <2>2, <2>5, <3>1, BehindStart
    <2> QED BY <2>1, <2>7, <2>8 DEF r
  <1> QED BY <1>2, <1>3

(* The end of a file is reported, and the next one asked for.              *)
LEMMA NextStep ==
    ASSUME Inv, NEW c \in Conn, Idle(c), file[c] # NoFile, UNCHANGED mainVars, toUser' = toUser,
           NEW ids, Put(c, ids), Sent(c, ids) \in Seq(Msg),
           \/ EndsWith(Sent(c, ids), file[c])
           \/ step[c] = "file_length" /\ BusyPipe(Sent(c, ids), file[c]),
           Continue(c, step[c], "file", NoFile)
    PROVE  Inv'
  <1>1. TypeOK /\ ConnSound(c)
    BY DEF Inv
  <1>2. /\ toMain' \in [Conn -> Seq(Msg)]
        /\ \A d \in Conn : d # c => toMain'[d] = toMain[d]
        /\ Live(c) => PipeSound(c)' /\ Downloads(c)
        /\ ~Live(c) => toMain'[c] = toMain[c]
    BY ReportProperties
  <1>3. step'[c] = step[c] /\ wait'[c] = "file" /\ file'[c] = NoFile
    BY <1>1, Continued
  <1>4. step[c] \in {"file_length", "data_recv"}
    BY <1>1 DEF ConnSound, ProcessSound
  <1>5. ProcessSound(c)'
    BY <1>3, <1>4 DEF ProcessSound
  <1>6. dir'[c] = dir[c] /\ (Live(c)' <=> Live(c)) /\ toUser'[c] = toUser[c]
    BY DEF mainVars, Live
  <1>7. ASSUME Live(c) PROVE InStep(c)'
    <2>1. WaitsForFile(c)'
      BY <1>2, <1>6, <1>7 DEF Downloads, WaitsForFile
    <2> QED BY <1>3, <1>4, <2>1 DEF InStep
  <1>8. ~Live(c) => Dropped(c)'
    BY <1>1, <1>2, <1>6 DEF ConnSound, Dropped, mainVars, queueVars
  <1>9. ConnSound(c)'
    BY <1>2, <1>5, <1>6, <1>7, <1>8 DEF ConnSound
  <1>10. step[c] \in Step /\ "file" \in Wait /\ toUser' \in [Conn -> Seq(Answer)]
    BY <1>1 DEF TypeOK, Wait
  <1> QED BY <1>2, <1>9, <1>10, UserFrame
(* What a process with an answer to its request for a file knows.          *)
LEMMA FileAnswered ==
    ASSUME Inv, NEW c \in Conn, wait[c] = "file", NEW a, Answered(c, a)
    PROVE  /\ Live(c) /\ dir[c] = "receive"
           /\ toMain[c] = <<>> /\ toUser'[c] = <<>>
           /\ a = NoFile => c \notin occupied
           /\ a # NoFile => c \in occupied /\ transfer_file[c] = a
           /\ toUser' \in [Conn -> Seq(Answer)]
           /\ \A d \in Conn : d # c => toUser'[d] = toUser[d]
  <1>1. /\ Live(c) /\ toUser[c] # <<>> /\ Head(toUser[c]) = a /\ toUser'[c] = Tail(toUser[c])
        /\ toUser' \in [Conn -> Seq(Answer)]
        /\ \A d \in Conn : d # c => toUser'[d] = toUser[d]
    BY AnsweredProperties
  <1>2. WaitsForFile(c) /\ (c \in occupied => transfer_file[c] \in Name)
    BY <1>1 DEF Inv, ConnSound, InStep, PipeSound
  <1>3. dir[c] = "receive" /\ toMain[c] = <<>>
    BY <1>1, <1>2 DEF WaitsForFile
  <1>4. \/ toUser[c] = <<NoFile>> /\ c \notin occupied
        \/ toUser[c] = <<transfer_file[c]>> /\ c \in occupied
    BY <1>1, <1>2 DEF WaitsForFile
  <1>5. toUser'[c] = <<>>
    BY <1>1, <1>4, ShortSequences
  <1>6. \/ a = NoFile /\ c \notin occupied
        \/ a = transfer_file[c] /\ c \in occupied
    BY <1>1, <1>4, ShortSequences
  <1>7. NoFile \notin Name
    BY ConstantsAssumption DEF Name
  <1> QED BY <1>1, <1>2, <1>3, <1>5, <1>6, <1>7

LEMMA FileStep ==
    ASSUME Inv, NEW c \in Conn, ReceiveFile(c)
    PROVE  Inv'
  <1>0. TypeOK /\ ConnSound(c) /\ wait[c] = "file" /\ UNCHANGED mainVars
    BY DEF Inv, ReceiveFile
  <1>1. PICK a \in Name \cup {NoFile} :
          /\ Answered(c, a)
          /\ \/ a = NoFile /\ Put(c, <<"TERMINATING">>) /\ Exit(c)
             \/ a \in Name /\ Continue(c, "file_length", "no", a) /\ UNCHANGED toMain
             \/ a \in Name /\ EndAndNext(c, "ENDED_failure")
             \/ a \in Name /\ Put(c, <<"TERMINATING", "ENDED_failure">>) /\ Exit(c)
    BY DEF ReceiveFile
  <1>2. a \in Name <=> a # NoFile
    BY ConstantsAssumption DEF Name
  <1>3. /\ Live(c) /\ dir[c] = "receive"
        /\ toMain[c] = <<>> /\ toUser'[c] = <<>>
        /\ a \in Name => c \in occupied /\ transfer_file[c] = a
        /\ toUser' \in [Conn -> Seq(Answer)]
        /\ \A d \in Conn : d # c => toUser'[d] = toUser[d]
    BY <1>0, <1>1, <1>2, FileAnswered
  <1> DEFINE m == Message(c, "TERMINATING")
             e == Message(c, "ENDED_failure")
             n == Message(c, "CHECK_DOWNLOAD")
  <1>4. /\ m \in Msg /\ m.id = "TERMINATING"
        /\ e \in Msg /\ e.id = "ENDED_failure"
        /\ n \in Msg /\ n.id = "CHECK_DOWNLOAD"
        /\ Sent(c, <<"TERMINATING">>) = <<m>>
        /\ Sent(c, <<"TERMINATING", "ENDED_failure">>) = <<m, e>>
        /\ Sent(c, <<"ENDED_failure", "CHECK_DOWNLOAD">>) = <<e, n>>
    BY <1>0, SentProperties DEF Id
  <1> HIDE DEF m, e, n
  <1>5. <<m>> \in Seq(Msg) /\ <<m, e>> \in Seq(Msg) /\ <<e, n>> \in Seq(Msg)
    BY <1>4, ShortIsSeq
  <1>6. /\ <<>> \o <<m>> = <<m>> /\ <<>> \o <<m, e>> = <<m, e>> /\ <<>> \o <<e, n>> = <<e, n>>
    BY <1>5, ConcatEmptySeq
  <1>7. ASSUME NEW ids, Put(c, ids), Exit(c),
               ids = <<"TERMINATING">> \/ ids = <<"TERMINATING", "ENDED_failure">>
        PROVE  Inv'
    <2>1. /\ Sent(c, ids) \in Seq(Msg) /\ Sent(c, ids) # <<>> /\ Head(Sent(c, ids)) = m
          /\ <<>> \o Sent(c, ids) = Sent(c, ids)
      BY <1>4, <1>5, <1>6, <1>7, ShortSequences
    <2>2. /\ toMain' \in [Conn -> Seq(Msg)]
          /\ toMain'[c] = Sent(c, ids)
          /\ \A d \in Conn : d # c => toMain'[d] = toMain[d]
      BY <1>0, <1>3, <1>7, <2>1, PutProperties
    <2>3. PipeSound(c)'
      BY <1>0, <1>3, <1>4, <2>1, <2>2, LastIsSound
    <2> QED BY <1>0, <1>3, <1>7, <2>2, <2>3, ExitStep
  <1>8. dir'[c] = dir[c] /\ Live(c)' /\ occupied' = occupied /\ transfer_file' = transfer_file
    BY <1>0, <1>3 DEF mainVars, queueVars, Live
  <1>9. CASE a \in Name /\ Continue(c, "file_length", "no", a) /\ UNCHANGED toMain
    <2>1. step'[c] = "file_length" /\ wait'[c] = "no" /\ file'[c] = a /\ toMain'[c] = <<>>
      BY <1>0, <1>3, <1>9, Continued
    <2>2. Downloads(c)'
      BY <1>3, <1>8, <1>9, <2>1 DEF Downloads
    <2>3. PipeSound(c)'
      BY <1>3, <1>8, <1>9, <2>1 DEF PipeSound, BusyPipe, EndsWith
    <2>4. ProcessSound(c)' /\ InStep(c)'
      BY <1>2, <1>9, <2>1, <2>2 DEF ProcessSound, InStep
    <2>5. ConnSound(c)'
      BY <1>8, <2>3, <2>4 DEF ConnSound
    <2>6. /\ toMain' \in [Conn -> Seq(Msg)] /\ "file_length" \in Step /\ "no" \in Wait
          /\ \A d \in Conn : d # c => toMain'[d] = toMain[d]
      BY <1>0, <1>9 DEF TypeOK, Step, Wait
    <2> QED BY <1>0, <1>3, <1>9, <2>5, <2>6, UserFrame
  <1>10. CASE a \in Name /\ EndAndNext(c, "ENDED_failure")
    <2>1. Put(c, <<"ENDED_failure", "CHECK_DOWNLOAD">>) /\ Continue(c, step[c], "file", NoFile)
      BY <1>10 DEF EndAndNext
    <2>2. /\ toMain' \in [Conn -> Seq(Msg)]
          /\ toMain'[c] = <<e, n>>
          /\ \A d \in Conn : d # c => toMain'[d] = toMain[d]
      BY <1>0, <1>3, <1>4, <1>5, <1>6, <2>1, PutProperties
    <2>3. EndsWith(<<e, n>>, a)
      BY <1>4, ShortSequences DEF EndsWith, Asks
    <2>4. PipeSound(c)'
      BY <1>3, <1>8, <1>10, <2>2, <2>3 DEF PipeSound, BusyPipe
    <2>5. step'[c] = step[c] /\ wait'[c] = "file" /\ file'[c] = NoFile
      BY <1>0, <2>1, Continued
    <2>6. step[c] \in {"key", "file_length", "data_recv"}
      BY <1>0 DEF ConnSound, ProcessSound
    <2>7. WaitsForFile(c)'
      BY <1>3, <1>8 DEF WaitsForFile
    <2>8. ProcessSound(c)' /\ InStep(c)'
      BY <2>5, <2>6, <2>7 DEF ProcessSound, InStep
    <2>9. ConnSound(c)'
      BY <1>8, <2>4, <2>8 DEF ConnSound
    <2>10. step[c] \in Step /\ "file" \in Wait
      BY <1>0 DEF TypeOK, Wait
    <2> QED BY <1>0, <1>3, <2>1, <2>2, <2>9, <2>10, UserFrame
  <1> QED BY <1>1, <1>7, <1>9, <1>10

LEMMA ReportStep ==
    ASSUME Inv, NEW c \in Conn, 
           ReceiveFileLength(c) \/ ReceiveMaxedOut(c) \/ FinishDownload(c) \/ FailDownload(c)
    PROVE  Inv'
  <1>0. /\ TypeOK /\ ConnSound(c)
        /\ Idle(c) /\ step[c] \in {"file_length", "data_recv"}
        /\ UNCHANGED mainVars /\ toUser' = toUser
    BY DEF Inv, ReceiveFileLength, ReceiveMaxedOut, FinishDownload, FailDownload
  <1>1. file[c] # NoFile
    BY <1>0 DEF ConnSound, ProcessSound, Idle
  <1> DEFINE t == Message(c, "TERMINATING")
             b == Message(c, "TRANSFER_START")
             e == Message(c, "ENDED_failure")
             s == Message(c, "ENDED_success")
             n == Message(c, "CHECK_DOWNLOAD")
  <1>2. /\ t \in Msg /\ t.id = "TERMINATING"
        /\ b \in Msg /\ b.id = "TRANSFER_START" /\ b.file = file[c]
        /\ e \in Msg /\ e.id = "ENDED_failure"
        /\ s \in Msg /\ s.id = "ENDED_success" /\ s.file = file[c]
        /\ n \in Msg /\ n.id = "CHECK_DOWNLOAD"
    BY <1>0, SentProperties DEF Id
  <1>3. /\ Sent(c, <<"TRANSFER_START">>) = <<b>>
        /\ Sent(c, <<"TRANSFER_START", "ENDED_success", "CHECK_DOWNLOAD">>) = <<b, s, n>>
        /\ Sent(c, <<"ENDED_failure", "CHECK_DOWNLOAD">>) = <<e, n>>
        /\ Sent(c, <<"ENDED_success", "CHECK_DOWNLOAD">>) = <<s, n>>
        /\ Sent(c, <<"TERMINATING", "ENDED_failure">>) = <<t, e>>
        /\ Sent(c, <<"ENDED_failure", "TERMINATING">>) = <<e, t>>
    BY <1>0, SentProperties
  <1> HIDE DEF t, b, e, s, n
  <1>4. /\ <<b>> \in Seq(Msg) /\ <<b, s, n>> \in Seq(Msg) /\ <<e, n>> \in Seq(Msg)
        /\ <<s, n>> \in Seq(Msg) /\ <<t, e>> \in Seq(Msg) /\ <<e, t>> \in Seq(Msg)
    BY <1>2, ShortIsSeq
  <1>5. /\ EndsWith(<<e, n>>, file[c]) /\ EndsWith(<<s, n>>, file[c])
        /\ EndsWith(<<t, e>>, file[c]) /\ EndsWith(<<e, t>>, file[c])
    BY <1>2, ShortSequences DEF EndsWith, IsLast, Asks
  <1>6. BusyPipe(<<b>>, file[c]) /\ BusyPipe(<<b, s, n>>, file[c])
    <2>1. EndsWith(<<>>, file[c])
      BY DEF EndsWith
    <2> QED BY <1>2, <1>5, <2>1, ShortSequences DEF BusyPipe, Starts
  <1>7. ASSUME NEW ended \in {"ENDED_success", "ENDED_failure"}, EndAndNext(c, ended)
        PROVE  Inv'
    <2>1. Put(c, <<ended, "CHECK_DOWNLOAD">>) /\ Continue(c, step[c], "file", NoFile)
      BY <1>7 DEF EndAndNext
    <2>2. Sent(c, <<ended, "CHECK_DOWNLOAD">>) \in {<<e, n>>, <<s, n>>}
      BY <1>3
    <2>3. /\ Sent(c, <<ended, "CHECK_DOWNLOAD">>) \in Seq(Msg)
          /\ EndsWith(Sent(c, <<ended, "CHECK_DOWNLOAD">>), file[c])
      BY <1>4, <1>5, <2>2
    <2> QED BY <1>0, <1>1, <2>1, <2>3, NextStep
  <1>8. ASSUME NEW ids, Put(c, ids), Exit(c),
               ids = <<"TERMINATING", "ENDED_failure">> \/ ids = <<"ENDED_failure", "TERMINATING">>
        PROVE  Inv'
    <2>1. Sent(c, ids) \in Seq(Msg) /\ EndsWith(Sent(c, ids), file[c])
      BY <1>3, <1>4, <1>5, <1>8
    <2>2. /\ toMain' \in [Conn -> Seq(Msg)]
          /\ \A d \in Conn : d # c => toMain'[d] = toMain[d]
          /\ Live(c) => PipeSound(c)'
          /\ ~Live(c) => toMain'[c] = toMain[c]
      BY <1>0, <1>1, <1>8, <2>1, ReportProperties
    <2>3. toUser' \in [Conn -> Seq(Answer)]
      BY <1>0 DEF TypeOK
    <2> QED BY <1>0, <1>8, <2>2, <2>3, ExitStep
  <1>9. CASE ReceiveFileLength(c)
    <2>0. step[c] = "file_length"
      BY <1>9 DEF ReceiveFileLength
    <2>1. CASE Put(c, <<"TRANSFER_START">>) /\ Continue(c, "data_recv", "no", file[c])
      <3>1. /\ toMain' \in [Conn -> Seq(Msg)]
            /\ \A d \in Conn : d # c => toMain'[d] = toMain[d]
            /\ Live(c) => PipeSound(c)' /\ Downloads(c) /\ toMain'[c] = <<b>>
            /\ ~Live(c) => toMain'[c] = toMain[c]
        BY <1>0, <1>1, <1>3, <1>4, <1>6, <2>0, <2>1, ReportProperties
      <3>2. step'[c] = "data_recv" /\ wait'[c] = "no" /\ file'[c] = file[c]
        BY <1>0, <2>1, Continued
      <3>3. ProcessSound(c)'
        BY <1>1, <3>2 DEF ProcessSound
      <3>4. dir'[c] = dir[c] /\ (Live(c)' <=> Live(c)) /\ transfer_file' = transfer_file
            /\ occupied' = occupied
        BY <1>0 DEF mainVars, queueVars, Live
      <3>5. ASSUME Live(c) PROVE InStep(c)'
        <4>1. Starts(<<b>>, file[c]) /\ Len(<<b>>) = 1
          BY <1>2, ShortSequences DEF Starts
        <4>2. Downloads(c)'
          BY <1>0, <3>1, <3>2, <3>4, <3>5, <4>1 DEF Downloads
        <4> QED BY <3>2, <4>2 DEF InStep
      <3>6. ~Live(c) => Dropped(c)'
        BY <1>0, <3>1, <3>4 DEF ConnSound, Dropped
      <3>7. ConnSound(c)'
        BY <3>1, <3>3, <3>4, <3>5, <3>6 DEF ConnSound
      <3>8. "data_recv" \in Step /\ "no" \in Wait /\ file[c] \in Name \cup {NoFile}
            /\ toUser' \in [Conn -> Seq(Answer)]
        BY <1>0 DEF TypeOK, Step, Wait
      <3> QED BY <1>0, <2>1, <3>1, <3>7, <3>8, UserFrame
    <2>2. CASE /\ Put(c, <<"TRANSFER_START", "ENDED_success", "CHECK_DOWNLOAD">>)
               /\ Continue(c, "file_length", "file", NoFile)
      <3>1. /\ Sent(c, <<"TRANSFER_START", "ENDED_success", "CHECK_DOWNLOAD">>) \in Seq(Msg)
            /\ BusyPipe(Sent(c, <<"TRANSFER_START", "ENDED_success", "CHECK_DOWNLOAD">>), file[c])
        BY <1>3, <1>4, <1>6
      <3> QED BY <1>0, <1>1, <2>0, <2>2, <3>1, NextStep
    <2> QED BY <1>7, <1>8, <1>9, <2>1, <2>2 DEF ReceiveFileLength
  <1> QED BY <1>0, <1>7, <1>8, <1>9 DEF ReceiveMaxedOut, FinishDownload, FailDownload

LEMMA TerminateStep ==
    ASSUME Inv, NEW c \in Conn, Terminate(c)
    PROVE  Inv'
  <1>0. /\ TypeOK /\ ConnSound(c)
        /\ Idle(c) /\ Put(c, <<"TERMINATING">>) /\ Exit(c)
        /\ UNCHANGED mainVars /\ toUser' = toUser
    BY DEF Inv, Terminate
  <1> DEFINE m == Message(c, "TERMINATING")
  <1>1. m \in Msg /\ m.id = "TERMINATING" /\ Sent(c, <<"TERMINATING">>) = <<m>>
    BY <1>0, SentProperties DEF Id
  <1> HIDE DEF m
  <1>2. <<m>> \in Seq(Msg) /\ <<>> \o <<m>> = <<m>> /\ EndsWith(<<m>>, file[c])
    BY <1>1, ShortIsSeq, ConcatEmptySeq, ShortSequences DEF EndsWith, IsLast
  <1>3. /\ toMain' \in [Conn -> Seq(Msg)]
        /\ toMain'[c] = IF Live(c) THEN toMain[c] \o <<m>> ELSE toMain[c]
        /\ \A d \in Conn : d # c => toMain'[d] = toMain[d]
    BY <1>0, <1>1, <1>2, PutProperties
  <1>4. ASSUME Live(c) PROVE PipeSound(c)'
    <2>1. CASE file[c] # NoFile
      BY <1>0, <1>1, <1>2, <1>4, <2>1, ReportProperties
    <2>2. CASE file[c] = NoFile
      <3>1. wait[c] = "no" /\ step[c] \in {"direction", "key", "send"}
        BY <1>0, <2>2 DEF ConnSound, ProcessSound, Idle, Running, TypeOK, Step
      <3>2. toMain[c] = <<>>
        BY <1>0, <1>4, <3>1 DEF ConnSound, InStep, Quiet
      <3>3. toMain'[c] = <<m>>
        BY <1>2, <1>3, <1>4, <3>2
      <3> QED BY <1>0, <1>1, <1>4, <3>3, ShortSequences, LastIsSound
    <2> QED BY <2>1, <2>2
  <1> QED BY <1>0, <1>3, <1>4, ExitStep DEF TypeOK

(* The alarm of the process becomes due, or is set again.                  *)
LEMMA TimerStep ==
    ASSUME Inv, NEW c \in Conn, Silence(c) \/ ReceiveIgnored(c)
    PROVE  Inv'
  <1>1. /\ UNCHANGED <<queue, queue_pos, queued_valid, shifted, occupied, transfer_file,
                       used_dl_slots, renamed, dir, toMain, toUser, step, wait, file>>
        /\ silent' \subseteq Conn
    BY DEF Silence, ReceiveIgnored, mainVars, queueVars, Inv, TypeOK
  <1>2. TypeOK'
    BY <1>1 DEF Inv, TypeOK
  <1>3. \A d \in Conn : ConnSound(d)'
    BY <1>1, OthersSound DEF Inv
  <1>4. QueueSound'
    BY <1>1 DEF Inv, QueueSound, QueuePosTracksTransfer
  <1> QED BY <1>1, <1>2, <1>3, <1>4 DEF Inv, OnePerDirection

LEMMA UserStepSound ==
    ASSUME Inv, NEW c \in Conn, UserStep(c)
    PROVE  Inv'
  BY AskStep, WantStep, ValidStep, FileStep, ReportStep, TerminateStep, TimerStep, DieStep
     DEF UserStep, Alarm
-----------------------------------------------------------------------------
(* The steps of the main process *)

(* A step about the connection c.                                          *)
LEMMA MainFrame ==
    ASSUME Inv, NEW c \in Conn, TypeOK', used_dl_slots' = Cardinality(occupied'),
           OnePerDirection', QueueSound', ConnSound(c)',
           \A d \in Conn : d # c =>
               /\ step'[d] = step[d] /\ wait'[d] = wait[d] /\ file'[d] = file[d]
               /\ toMain'[d] = toMain[d] /\ toUser'[d] = toUser[d] /\ dir'[d] = dir[d]
               /\ transfer_file'[d] = transfer_file[d] /\ (d \in occupied' <=> d \in occupied)
    PROVE  Inv'
  <1>1. \A d \in Conn : ConnSound(d)'
    <2> SUFFICES ASSUME NEW d \in Conn, d # c
                 PROVE  ConnSound(d)'
      OBVIOUS
    <2> QED BY OthersSound DEF Inv
  <1> QED BY <1>1 DEF Inv

(* At most one connection occupies a slot, and it receives.                *)
LEMMA OneOccupied ==
    ASSUME Inv, NEW c \in Conn, dir[c] = "receive"
    PROVE  /\ \A d \in occupied : d = c
           /\ IsFiniteSet(occupied) /\ Cardinality(occupied) \in Nat
  <1>1. \A d \in occupied : d \in Conn /\ dir[d] = "receive"
    BY DEF Inv, TypeOK, ConnSound, PipeSound, Live, Dropped
  <1>2. IsFiniteSet(occupied)
    BY ConstantsAssumption, FS_Subset DEF Inv, TypeOK
  <1> QED BY <1>1, <1>2, FS_CardinalityType DEF Inv, OnePerDirection

(* A message of a connection, and the pipe without it.                     *)
LEMMA ReceiveProperties ==
    ASSUME Inv, NEW c \in Conn, NEW id, Receive(c, id)
    PROVE  /\ Live(c) /\ PipeSound(c) /\ InStep(c) /\ ProcessSound(c)
           /\ toMain[c] \in Seq(Msg) /\ toMain[c] # <<>> /\ Head(toMain[c]).id = id
           /\ Head(toMain[c]) \in Msg /\ Tail(toMain[c]) \in Seq(Msg)
           /\ Len(toMain[c]) = 1 => Tail(toMain[c]) = <<>>
           /\ Consume(c) => /\ toMain' \in [Conn -> Seq(Msg)]
                            /\ toMain'[c] = Tail(toMain[c])
                            /\ \A d \in Conn : d # c => toMain'[d] = toMain[d]
  <1>1. /\ Live(c) /\ PipeSound(c) /\ InStep(c) /\ ProcessSound(c)
        /\ toMain[c] # <<>> /\ Head(toMain[c]).id = id
    BY DEF Inv, ConnSound, Receive
  <1>2. toMain \in [Conn -> Seq(Msg)] /\ toMain[c] \in Seq(Msg)
    BY DEF Inv, TypeOK
  <1>3. /\ Head(toMain[c]) \in Msg /\ Tail(toMain[c]) \in Seq(Msg)
        /\ Len(Tail(toMain[c])) = Len(toMain[c]) - 1
    BY <1>1, <1>2, HeadTailProperties
  <1>4. Len(toMain[c]) = 1 => Tail(toMain[c]) = <<>>
    <2> DEFINE t == Tail(toMain[c])
    <2>1. t \in Seq(Msg) /\ (Len(toMain[c]) = 1 => Len(t) = 0)
      BY <1>3
    <2> HIDE DEF t
    <2>2. Len(toMain[c]) = 1 => t = <<>>
      BY <2>1, EmptySeq
    <2> QED BY <2>2 DEF t
  <1> QED BY <1>1, <1>2, <1>3, <1>4 DEF Consume

(* The answer a on an empty pipe.                                          *)
LEMMA SendProperties ==
    ASSUME TypeOK, NEW c \in Conn, NEW a \in Answer, SendAnswer(c, a)
    PROVE  /\ toUser' \in [Conn -> Seq(Answer)]
           /\ toUser[c] = <<>> => toUser'[c] = <<a>>
           /\ \A d \in Conn : d # c => toUser'[d] = toUser[d]
  <1>1. toUser \in [Conn -> Seq(Answer)] /\ toUser[c] \in Seq(Answer)
    BY DEF TypeOK
  <1>2. Append(toUser[c], a) \in Seq(Answer)
    BY <1>1
  <1>3. toUser[c] = <<>> => Append(toUser[c], a) = <<a>>
    OBVIOUS
  <1>4. toUser' = [toUser EXCEPT ![c] = Append(toUser[c], a)]
    BY DEF SendAnswer
  <1> QED BY <1>1, <1>2, <1>3, <1>4

LEMMA ConnectStep ==
    ASSUME Inv, NEW c \in Conn, Connect(c)
    PROVE  Inv'
  <1>1. TypeOK /\ ProcessSound(c) /\ Dropped(c) /\ step[c] = "off"
    BY DEF Inv, ConnSound, Connect, Running
  <1>2. /\ dir' = [dir EXCEPT ![c] = "unknown"] /\ step' = [step EXCEPT ![c] = "direction"]
        /\ transfer_file' = [transfer_file EXCEPT ![c] = NoFile]
        /\ queue_pos' = [queue_pos EXCEPT ![c] = 0] /\ queued_valid' = queued_valid \ {c}
        /\ UNCHANGED <<queue, occupied, used_dl_slots, renamed, shifted, toMain, toUser, wait, file, silent>>
    BY DEF Connect
  <1>3. TypeOK'
    BY <1>1, <1>2 DEF TypeOK, Dir, Step
  <1>4. dir'[c] = "unknown" /\ step'[c] = "direction" /\ wait'[c] = "no" /\ file'[c] = NoFile
    BY <1>1, <1>2 DEF TypeOK, ProcessSound
  <1>5. Quiet(c, "unknown")'
    BY <1>1, <1>2, <1>4 DEF Dropped, Quiet
  <1>6. ConnSound(c)'
    <2>1. ProcessSound(c)'
      BY <1>4 DEF ProcessSound
    <2>2. InStep(c)' /\ PipeSound(c)'
      BY <1>4, <1>5 DEF InStep, PipeSound, IdlePipe, Quiet
    <2> QED BY <1>4, <2>1, <2>2 DEF ConnSound, Live
  <1>7. OnePerDirection'
    BY <1>1, <1>2 DEF TypeOK, Inv, OnePerDirection
  <1>8. QueueSound'
    BY <1>1, <1>2 DEF TypeOK, Inv, QueueSound, QueuePosTracksTransfer
  <1>9. used_dl_slots' = Cardinality(occupied')
    BY <1>2 DEF Inv
  <1>10. \A d \in Conn : d # c =>
               /\ step'[d] = step[d] /\ wait'[d] = wait[d] /\ file'[d] = file[d]
               /\ toMain'[d] = toMain[d] /\ toUser'[d] = toUser[d] /\ dir'[d] = dir[d]
               /\ transfer_file'[d] = transfer_file[d] /\ (d \in occupied' <=> d \in occupied)
    BY <1>1, <1>2 DEF TypeOK
  <1> QED BY <1>3, <1>6, <1>7, <1>8, <1>9, <1>10, MainFrame

(* A request about the direction, which only a process that waits for the  *)
(* answer sent.                                                            *)
LEMMA SettlesProperties ==
    ASSUME Inv, NEW c \in Conn, NEW id \in {"WANT_DOWNLOAD", "VALIDATE_receive", "VALIDATE_send"},
           Receive(c, id)
    PROVE  /\ c \notin occupied /\ dir[c] = "unknown" /\ Tail(toMain[c]) = <<>>
           /\ file[c] = NoFile
           /\ step[c] # "off" => /\ step[c] = "direction" /\ toUser[c] = <<>>
                                 /\ wait[c] = CASE id = "WANT_DOWNLOAD" -> "want"
                                                [] id = "VALIDATE_receive" -> "receive"
                                                [] id = "VALIDATE_send" -> "send"
  <1>1. /\ PipeSound(c) /\ InStep(c) /\ ProcessSound(c) /\ toMain[c] # <<>>
        /\ Head(toMain[c]).id = id /\ (Len(toMain[c]) = 1 => Tail(toMain[c]) = <<>>)
    BY ReceiveProperties
  <1>2. c \notin occupied /\ IdlePipe(c, toMain[c])
    BY <1>1 DEF PipeSound, BusyPipe, EndsWith, IsLast, Starts
  <1>3. dir[c] = "unknown" /\ Tail(toMain[c]) = <<>>
    BY <1>1, <1>2 DEF IdlePipe, IsLast, Asks
  <1>4. file[c] = NoFile
    BY <1>1, <1>3 DEF InStep, Downloads
  <1>5. ASSUME step[c] # "off"
        PROVE  /\ step[c] = "direction" /\ toUser[c] = <<>>
               /\ wait[c] = CASE id = "WANT_DOWNLOAD" -> "want"
                              [] id = "VALIDATE_receive" -> "receive"
                              [] id = "VALIDATE_send" -> "send"
    <2>1. step[c] \in Step /\ wait[c] \in Wait
      BY DEF Inv, TypeOK
    <2>2. step[c] # "send" /\ wait[c] # "no"
      BY <1>1, <1>4, <1>5, <2>1 DEF InStep, Quiet, ProcessSound, Step
    <2>3. wait[c] # "file"
      BY <1>1, <1>3 DEF InStep, WaitsForFile
    <2>4. wait[c] \in {"want", "receive", "send"}
      BY <2>1, <2>2, <2>3 DEF Wait
    <2>5. PICK w \in {"WANT_DOWNLOAD", "VALIDATE_receive", "VALIDATE_send"} :
            /\ Settles(c, w)
            /\ wait[c] = "want" => w = "WANT_DOWNLOAD"
            /\ wait[c] = "receive" => w = "VALIDATE_receive"
            /\ wait[c] = "send" => w = "VALIDATE_send"
      BY <1>1, <2>4 DEF InStep
    <2>6. w = id /\ toUser[c] = <<>>
      BY <1>1, <2>5 DEF Settles, Asks
    <2>7. step[c] = "direction"
      BY <1>1, <2>4 DEF ProcessSound
    <2> QED BY <2>4, <2>5, <2>6, <2>7
  <1> QED BY <1>2, <1>3, <1>4, <1>5
LEMMA WantDownloadStep ==
    ASSUME Inv, NEW c \in Conn, HandleWantDownload(c)
    PROVE  Inv'
  <1>1. /\ TypeOK /\ Receive(c, "WANT_DOWNLOAD") /\ Consume(c) /\ UNCHANGED <<mainVars, userVars>>
    BY DEF Inv, HandleWantDownload
  <1>2. PICK a \in {"yes", "no"} : SendAnswer(c, a)
    BY DEF HandleWantDownload
  <1>3. /\ toMain' \in [Conn -> Seq(Msg)] /\ toMain'[c] = Tail(toMain[c])
        /\ \A d \in Conn : d # c => toMain'[d] = toMain[d]
        /\ Live(c) /\ ProcessSound(c)
    BY <1>1, ReceiveProperties
  <1>4. /\ c \notin occupied /\ dir[c] = "unknown" /\ Tail(toMain[c]) = <<>> /\ file[c] = NoFile
        /\ step[c] # "off" => step[c] = "direction" /\ toUser[c] = <<>> /\ wait[c] = "want"
    BY <1>1, SettlesProperties
  <1>5. /\ toUser' \in [Conn -> Seq(Answer)]
        /\ toUser[c] = <<>> => toUser'[c] = <<a>>
        /\ \A d \in Conn : d # c => toUser'[d] = toUser[d]
    BY <1>1, <1>2, SendProperties DEF Answer
  <1>6. ProcessSound(c)' /\ Live(c)'
    BY <1>1, <1>3 DEF ProcessSound, Live, mainVars, userVars
  <1>7. PipeSound(c)'
    BY <1>1, <1>3, <1>4 DEF PipeSound, IdlePipe, mainVars, queueVars
  <1>8. InStep(c)'
    <2>1. /\ step'[c] = step[c] /\ wait'[c] = wait[c] /\ file'[c] = NoFile
          /\ dir'[c] = "unknown" /\ c \notin occupied'
      BY <1>1, <1>4 DEF mainVars, queueVars, userVars
    <2>2. CASE step[c] = "off"
      BY <1>3, <2>1, <2>2 DEF ProcessSound, InStep
    <2>3. CASE step[c] # "off"
      <3>1. toMain'[c] = <<>> /\ toUser'[c] = <<a>>
        BY <1>3, <1>4, <1>5, <2>3
      <3>2. Settles(c, "WANT_DOWNLOAD")'
        BY <2>1, <3>1 DEF Settles
      <3> QED BY <1>4, <2>1, <2>3, <3>2 DEF InStep
    <2> QED BY <2>2, <2>3
  <1>9. ConnSound(c)'
    BY <1>6, <1>7, <1>8 DEF ConnSound
  <1>10. TypeOK'
    BY <1>1, <1>3, <1>5 DEF TypeOK, mainVars, queueVars, userVars
  <1>11. /\ OnePerDirection' /\ QueueSound' /\ used_dl_slots' = Cardinality(occupied')
    BY <1>1 DEF Inv, OnePerDirection, QueueSound, QueuePosTracksTransfer, mainVars, queueVars
  <1>12. \A d \in Conn : d # c =>
               /\ step'[d] = step[d] /\ wait'[d] = wait[d] /\ file'[d] = file[d]
               /\ toMain'[d] = toMain[d] /\ toUser'[d] = toUser[d] /\ dir'[d] = dir[d]
               /\ transfer_file'[d] = transfer_file[d] /\ (d \in occupied' <=> d \in occupied)
    BY <1>1, <1>3, <1>5 DEF mainVars, queueVars, userVars
  <1> QED BY <1>9, <1>10, <1>11, <1>12, MainFrame

LEMMA ValidateDirStep ==
    ASSUME Inv, NEW c \in Conn, NEW d \in {"receive", "send"}, HandleValidateDir(c, d)
    PROVE  Inv'
  <1> DEFINE id == IF d = "receive" THEN "VALIDATE_receive" ELSE "VALIDATE_send"
             a == IF MayTake(c, d) THEN "yes" ELSE "no"
  <1>1. /\ TypeOK /\ Receive(c, id) /\ Consume(c) /\ UNCHANGED <<queueVars, userVars>>
        /\ dir' = IF MayTake(c, d) THEN [dir EXCEPT ![c] = d] ELSE dir
        /\ SendAnswer(c, a)
    BY DEF Inv, HandleValidateDir
  <1>2. /\ toMain' \in [Conn -> Seq(Msg)] /\ toMain'[c] = Tail(toMain[c])
        /\ \A x \in Conn : x # c => toMain'[x] = toMain[x]
        /\ Live(c) /\ ProcessSound(c)
    BY <1>1, ReceiveProperties
  <1>3. /\ c \notin occupied /\ dir[c] = "unknown" /\ Tail(toMain[c]) = <<>> /\ file[c] = NoFile
        /\ step[c] # "off" => step[c] = "direction" /\ toUser[c] = <<>> /\ wait[c] = d
    BY <1>1, SettlesProperties
  <1>4. /\ toUser' \in [Conn -> Seq(Answer)]
        /\ toUser[c] = <<>> => toUser'[c] = <<a>>
        /\ \A x \in Conn : x # c => toUser'[x] = toUser[x]
    BY <1>1, SendProperties DEF Answer
  <1>5. /\ dir'[c] = IF MayTake(c, d) THEN d ELSE "unknown"
        /\ dir' \in [Conn -> Dir]
        /\ \A x \in Conn : x # c => dir'[x] = dir[x]
    BY <1>1, <1>3 DEF TypeOK, Dir
  <1>6. ProcessSound(c)' /\ Live(c)'
    BY <1>1, <1>2, <1>5 DEF ProcessSound, Live, userVars
  <1>7. PipeSound(c)'
    BY <1>1, <1>2, <1>3 DEF PipeSound, IdlePipe, queueVars
  <1>8. InStep(c)'
    <2>1. /\ step'[c] = step[c] /\ wait'[c] = wait[c] /\ file'[c] = NoFile /\ c \notin occupied'
      BY <1>1, <1>3 DEF queueVars, userVars
    <2>2. CASE step[c] = "off"
      BY <1>2, <2>1, <2>2 DEF ProcessSound, InStep
    <2>3. CASE step[c] # "off"
      <3>1. /\ toMain'[c] = <<>> /\ toUser'[c] = <<a>> /\ step'[c] = "direction" /\ wait'[c] = d
            /\ a = "yes" => dir'[c] = d
            /\ a \in {"yes", "no"}
        BY <1>2, <1>3, <1>4, <1>5, <2>1, <2>3
      <3> HIDE DEF a
      <3>2. CASE d = "receive"
        <4>1. Settles(c, "VALIDATE_receive")'
          BY <2>1, <3>1, <3>2 DEF Settles
        <4> QED BY <2>1, <3>1, <3>2, <4>1 DEF InStep
      <3>3. CASE d = "send"
        <4>1. Settles(c, "VALIDATE_send")'
          BY <2>1, <3>1, <3>3 DEF Settles
        <4> QED BY <2>1, <3>1, <3>3, <4>1 DEF InStep
      <3> QED BY <3>2, <3>3
    <2> QED BY <2>2, <2>3
  <1>9. ConnSound(c)'
    BY <1>6, <1>7, <1>8 DEF ConnSound
  <1>10. TypeOK'
    BY <1>1, <1>2, <1>4, <1>5 DEF TypeOK, queueVars, userVars
  <1>11. OnePerDirection'
    <2>1. MayTake(c, d) => \A x \in Conn : dir[x] # d
      BY DEF MayTake, HasUserConn
    <2> QED BY <1>3, <1>5, <2>1 DEF Inv, OnePerDirection
  <1>12. QueueSound' /\ used_dl_slots' = Cardinality(occupied')
    BY <1>1 DEF Inv, QueueSound, QueuePosTracksTransfer, queueVars
  <1>13. \A x \in Conn : x # c =>
               /\ step'[x] = step[x] /\ wait'[x] = wait[x] /\ file'[x] = file[x]
               /\ toMain'[x] = toMain[x] /\ toUser'[x] = toUser[x] /\ dir'[x] = dir[x]
               /\ transfer_file'[x] = transfer_file[x] /\ (x \in occupied' <=> x \in occupied)
    BY <1>1, <1>2, <1>4, <1>5 DEF queueVars, userVars
  <1> QED BY <1>9, <1>10, <1>11, <1>12, <1>13, MainFrame

LEMMA CheckDownloadStep ==
    ASSUME Inv, NEW c \in Conn, HandleCheckDownload(c)
    PROVE  Inv'
  <1> DEFINE pos == queue_pos[c] + 1
             has == pos <= Len(queue)
             a == IF has THEN queue[pos].file ELSE NoFile
  <1>1. /\ TypeOK /\ Receive(c, "CHECK_DOWNLOAD") /\ Consume(c)
        /\ UNCHANGED <<dir, queue_pos, renamed, step, wait, file, silent>>
    BY DEF Inv, HandleCheckDownload, userVars
  <1>2. pos \in Nat \ {0} /\ queue \in Seq(Entry) /\ Len(queue) \in Nat
        /\ (has => pos \in 1..Len(queue)) /\ (has => queue[pos] \in Entry)
    BY <1>1 DEF TypeOK
  <1>3. /\ has => /\ queue' = [queue EXCEPT ![pos].status = "PROCESSING"]
                  /\ queued_valid' = queued_valid \cup {c}
                  /\ occupied' = occupied \cup {c}
                  /\ transfer_file' = [transfer_file EXCEPT ![c] = queue[pos].file]
                  /\ used_dl_slots' = used_dl_slots + 1
                  /\ shifted' = shifted \ {c}
        /\ ~has => UNCHANGED <<queue, queued_valid, occupied, transfer_file, used_dl_slots, shifted>>
        /\ SendAnswer(c, a)
    BY <1>2 DEF HandleCheckDownload
  <1>4. /\ toMain' \in [Conn -> Seq(Msg)] /\ toMain'[c] = Tail(toMain[c])
        /\ \A x \in Conn : x # c => toMain'[x] = toMain[x]
        /\ Live(c) /\ PipeSound(c) /\ InStep(c) /\ ProcessSound(c)
        /\ toMain[c] # <<>> /\ Head(toMain[c]).id = "CHECK_DOWNLOAD"
        /\ Len(toMain[c]) = 1 => Tail(toMain[c]) = <<>>
    BY <1>1, ReceiveProperties
  <1>5. c \notin occupied /\ dir[c] = "receive" /\ Tail(toMain[c]) = <<>>
    <2>1. c \notin occupied /\ IdlePipe(c, toMain[c])
      BY <1>4 DEF PipeSound, BusyPipe, EndsWith, IsLast, Starts
    <2> QED BY <1>4, <2>1 DEF IdlePipe, IsLast, Asks
  <1>6. step[c] # "off" => wait[c] = "file" /\ toUser[c] = <<>>
    <2> SUFFICES ASSUME step[c] # "off"
                 PROVE  wait[c] = "file" /\ toUser[c] = <<>>
      OBVIOUS
    <2>1. step[c] \in Step /\ wait[c] \in Wait
      BY <1>1 DEF TypeOK
    <2>2. file[c] = NoFile
      BY <1>4, <1>5 DEF InStep, Downloads
    <2>3. step[c] # "send" /\ wait[c] # "no"
      BY <1>4, <2>1, <2>2 DEF InStep, Quiet, ProcessSound, Step
    <2>4. wait[c] \notin {"want", "receive", "send"}
      BY <1>4 DEF InStep, Settles, Asks
    <2>5. wait[c] = "file"
      BY <2>1, <2>3, <2>4 DEF Wait
    <2> QED BY <1>4, <2>5 DEF InStep, WaitsForFile
  <1>7. a \in Name \cup {NoFile} /\ (has => a \in Name) /\ (~has => a = NoFile)
    BY <1>2 DEF Entry
  <1>8. /\ toUser' \in [Conn -> Seq(Answer)]
        /\ toUser[c] = <<>> => toUser'[c] = <<a>>
        /\ \A x \in Conn : x # c => toUser'[x] = toUser[x]
    BY <1>1, <1>3, <1>7, SendProperties DEF Answer
  <1>9. \A x \in occupied : FALSE
    BY <1>5, OneOccupied
  <1>10. TypeOK' /\ used_dl_slots' = Cardinality(occupied')
    <2>1. CASE has
      <3>1. queue' \in Seq(Entry)
        <4> DEFINE e == [queue[pos] EXCEPT !.status = "PROCESSING"]
        <4>1. e \in Entry /\ queue' = [queue EXCEPT ![pos] = e]
          BY <1>2, <1>3, <2>1 DEF Entry
        <4> HIDE DEF e
        <4> QED BY <1>2, <2>1, <4>1
      <3>2. transfer_file' \in [Conn -> Name \cup {NoFile}]
        BY <1>1, <1>3, <1>7, <2>1 DEF TypeOK
      <3>3. used_dl_slots' = Cardinality(occupied') /\ used_dl_slots' \in Nat
        <4>1. IsFiniteSet(occupied) /\ Cardinality(occupied) \in Nat
          BY <1>5, OneOccupied
        <4>2. Cardinality(occupied \cup {c}) = Cardinality(occupied) + 1
          BY <1>5, <4>1, FS_AddElement
        <4>3. used_dl_slots = Cardinality(occupied) /\ has
          BY <2>1 DEF Inv
        <4>4. occupied' = occupied \cup {c} /\ used_dl_slots' = used_dl_slots + 1
          BY <1>3, <4>3
        <4> QED BY <4>1, <4>2, <4>3, <4>4
      <3> QED BY <1>1, <1>3, <1>4, <1>8, <2>1, <3>1, <3>2, <3>3 DEF TypeOK
    <2>2. CASE ~has
      BY <1>1, <1>3, <1>4, <1>8, <2>2 DEF TypeOK, Inv
    <2> QED BY <2>1, <2>2
  <1>11. /\ has => c \in occupied' /\ transfer_file'[c] = a
         /\ ~has => c \notin occupied'
    BY <1>1, <1>3, <1>5 DEF TypeOK
  <1> HIDE DEF has, a
  <1>12. ConnSound(c)'
    <2>1. dir'[c] = "receive" /\ toMain'[c] = <<>> /\ Live(c)'
      BY <1>1, <1>4, <1>5 DEF Live
    <2>2. ProcessSound(c)'
      BY <1>1, <1>4 DEF ProcessSound
    <2>3. PipeSound(c)'
      BY <1>7, <1>11, <2>1 DEF PipeSound, IdlePipe, BusyPipe, EndsWith
    <2>4. InStep(c)'
      <3>1. CASE step[c] = "off"
        BY <1>1, <2>2, <3>1 DEF ProcessSound, InStep
      <3>2. CASE step[c] # "off"
        <4>1. wait[c] = "file" /\ toUser'[c] = <<a>>
          BY <1>6, <1>8, <3>2
        <4>2. WaitsForFile(c)'
          BY <1>7, <1>11, <2>1, <4>1 DEF WaitsForFile
        <4>3. wait'[c] = "file" /\ step'[c] # "send" /\ file'[c] = NoFile
          BY <1>1, <1>4, <4>1 DEF ProcessSound
        <4> QED BY <4>2, <4>3 DEF InStep
      <3> QED BY <3>1, <3>2
    <2> QED BY <2>1, <2>2, <2>3, <2>4 DEF ConnSound
  <1>13. OnePerDirection'
    BY <1>1 DEF Inv, OnePerDirection
  <1>14. QueueSound'
    <2>1. queued_valid = {}
      BY <1>9 DEF Inv, QueueSound
    <2>2. CASE has
      <3>1. queued_valid' = {c} /\ c \in occupied' /\ c \notin shifted'
        BY <1>3, <1>11, <2>1, <2>2
      <3>2. /\ Len(queue') = Len(queue) /\ queue_pos'[c] < Len(queue')
            /\ queue'[pos] = [file |-> a, status |-> "PROCESSING"]
        <4> DEFINE e == [queue[pos] EXCEPT !.status = "PROCESSING"]
        <4>1. queue' = [queue EXCEPT ![pos] = e] /\ a = queue[pos].file
          BY <1>2, <1>3, <2>2 DEF has, a
        <4>2. e = [file |-> a, status |-> "PROCESSING"]
          BY <1>2, <2>2, <4>1 DEF Entry
        <4> HIDE DEF e
        <4>3. pos \in 1..Len(queue) /\ queue_pos'[c] = queue_pos[c] /\ queue_pos[c] \in Nat
          BY <1>1, <1>2, <2>2 DEF TypeOK
        <4>4. Len(queue') = Len(queue) /\ queue'[pos] = e
          BY <1>2, <4>1, <4>3
        <4>5. queue_pos[c] < Len(queue)
          BY <4>3
        <4> QED BY <4>2, <4>3, <4>4, <4>5
      <3>3. queue'[queue_pos'[c] + 1] = [file |-> transfer_file'[c], status |-> "PROCESSING"]
        BY <1>1, <1>11, <2>2, <3>2
      <3> QED BY <3>1, <3>2, <3>3 DEF QueueSound, QueuePosTracksTransfer
    <2>3. CASE ~has
      BY <1>3, <2>1, <2>3 DEF QueueSound, QueuePosTracksTransfer
    <2> QED BY <2>2, <2>3
  <1>15. \A x \in Conn : x # c =>
               /\ step'[x] = step[x] /\ wait'[x] = wait[x] /\ file'[x] = file[x]
               /\ toMain'[x] = toMain[x] /\ toUser'[x] = toUser[x] /\ dir'[x] = dir[x]
               /\ transfer_file'[x] = transfer_file[x] /\ (x \in occupied' <=> x \in occupied)
    BY <1>1, <1>3, <1>4, <1>8 DEF TypeOK
  <1> QED BY <1>10, <1>12, <1>13, <1>14, <1>15, MainFrame
LEMMA RemoveAtType ==
    ASSUME NEW S, NEW p \in Seq(S), NEW c \in 1..Len(p)
    PROVE  RemoveAt(p, c) \in Seq(S)
  <1> DEFINE front == SubSeq(p, 1, c - 1)
             back  == SubSeq(p, c + 1, Len(p))
  <1>1. front \in Seq(S) /\ back \in Seq(S)
    OBVIOUS
  <1>2. RemoveAt(p, c) = front \o back
    BY DEF RemoveAt
  <1> HIDE DEF front, back
  <1> QED BY <1>1, <1>2, ConcatProperties

(* handle_ended_download of a connection with a slot, the only one.        *)
LEMMA EndedProperties ==
    ASSUME Inv, NEW c \in occupied, NEW success, HandleEndedDownload(c, success)
    PROVE  /\ queue' \in Seq(Entry)
           /\ occupied' = occupied \ {c} /\ queued_valid' = {}
           /\ used_dl_slots' = Cardinality(occupied') /\ used_dl_slots' \in Nat
           /\ transfer_file' = [transfer_file EXCEPT ![c] = NoFile]
           /\ transfer_file' \in [Conn -> Name \cup {NoFile}]
           /\ renamed' \subseteq Name
  <1>1. TypeOK /\ c \in Conn /\ dir[c] = "receive" /\ transfer_file[c] \in Name
    BY OccupiedReceives DEF Inv
  <1>2. /\ occupied' = occupied \ {c} /\ queued_valid' = queued_valid \ {c}
        /\ used_dl_slots' = used_dl_slots - 1
        /\ transfer_file' = [transfer_file EXCEPT ![c] = NoFile]
    BY DEF HandleEndedDownload
  <1>3. /\ \A d \in occupied : d = c
        /\ IsFiniteSet(occupied) /\ Cardinality(occupied) \in Nat
    BY <1>1, OneOccupied
  <1>4. queued_valid \subseteq occupied /\ (c \in queued_valid => queue_pos[c] < Len(queue))
    BY DEF Inv, QueueSound, QueuePosTracksTransfer
  <1>5. queued_valid' = {}
    BY <1>2, <1>3, <1>4
  <1>6. used_dl_slots' = Cardinality(occupied') /\ used_dl_slots' \in Nat
    <2>1. IsFiniteSet(occupied \ {c}) /\ Cardinality(occupied \ {c}) = Cardinality(occupied) - 1
      BY <1>3, FS_RemoveElement
    <2>2. Cardinality(occupied \ {c}) \in Nat
      BY <2>1, FS_CardinalityType
    <2> QED BY <1>2, <2>1, <2>2 DEF Inv
  <1>7. queue' \in Seq(Entry)
    <2>1. CASE c \notin queued_valid
      BY <1>1, <2>1 DEF HandleEndedDownload, TypeOK
    <2>2. CASE c \in queued_valid
      <3>1. queue' = RemoveAt(queue, queue_pos[c] + 1)
        BY <2>2 DEF HandleEndedDownload
      <3>2. queue \in Seq(Entry) /\ queue_pos[c] + 1 \in 1..Len(queue)
        BY <1>1, <1>4, <2>2 DEF TypeOK
      <3> QED BY <3>1, <3>2, RemoveAtType
    <2> QED BY <2>1, <2>2
  <1>8. renamed' \subseteq Name
    BY <1>1 DEF HandleEndedDownload, TypeOK
  <1>9. transfer_file' \in [Conn -> Name \cup {NoFile}]
    BY <1>1, <1>2 DEF TypeOK
  <1> QED BY <1>2, <1>5, <1>6, <1>7, <1>8, <1>9

(* A message about a download: the connection has a slot.                  *)
LEMMA BusyProperties ==
    ASSUME Inv, NEW c \in Conn, NEW id \in {"ENDED_success", "ENDED_failure", "TRANSFER_START"},
           Receive(c, id)
    PROVE  /\ c \in occupied /\ dir[c] = "receive" /\ transfer_file[c] \in Name
           /\ BusyPipe(toMain[c], transfer_file[c])
           /\ step[c] # "off" /\ file[c] = NoFile =>
                  wait[c] = "file" /\ step[c] # "send" /\ toUser[c] = <<>>
           /\ file[c] # NoFile => Downloads(c)
  <1>1. /\ PipeSound(c) /\ InStep(c) /\ ProcessSound(c)
        /\ toMain[c] # <<>> /\ Head(toMain[c]).id = id
    BY ReceiveProperties
  <1>2. c \in occupied
    BY <1>1 DEF PipeSound, IdlePipe, IsLast, Asks
  <1>3. dir[c] = "receive" /\ transfer_file[c] \in Name /\ BusyPipe(toMain[c], transfer_file[c])
    BY <1>1, <1>2 DEF PipeSound
  <1>4. file[c] # NoFile => Downloads(c)
    BY <1>1 DEF InStep
  <1>5. ASSUME step[c] # "off", file[c] = NoFile
        PROVE  wait[c] = "file" /\ step[c] # "send" /\ toUser[c] = <<>>
    <2>1. step[c] \in Step /\ wait[c] \in Wait
      BY DEF Inv, TypeOK
    <2>2. step[c] # "send" /\ wait[c] # "no"
      BY <1>1, <1>2, <1>5, <2>1 DEF InStep, Quiet, ProcessSound, Step
    <2>3. wait[c] \notin {"want", "receive", "send"}
      BY <1>1, <1>2 DEF InStep, Settles
    <2>4. wait[c] = "file"
      BY <2>1, <2>2, <2>3 DEF Wait
    <2>5. toUser[c] = <<>>
      BY <1>1, <2>4 DEF InStep, WaitsForFile
    <2> QED BY <2>2, <2>4, <2>5
  <1> QED BY <1>2, <1>3, <1>4, <1>5

LEMMA DownloadEndedStep ==
    ASSUME Inv, NEW c \in Conn, HandleDownloadEnded(c)
    PROVE  Inv'
  <1>1. PICK success \in BOOLEAN :
          /\ Receive(c, IF success THEN "ENDED_success" ELSE "ENDED_failure")
          /\ HandleEndedDownload(c, success)
    BY DEF HandleDownloadEnded
  <1>2. Consume(c) /\ UNCHANGED <<dir, queue_pos, shifted, toUser, step, wait, file, silent>> /\ TypeOK
    BY DEF HandleDownloadEnded, userVars, Inv
  <1>3. PICK id \in {"ENDED_success", "ENDED_failure"} : Receive(c, id)
    BY <1>1
  <1>4. /\ c \in occupied /\ dir[c] = "receive" /\ transfer_file[c] \in Name
        /\ BusyPipe(toMain[c], transfer_file[c])
        /\ step[c] # "off" /\ file[c] = NoFile =>
               wait[c] = "file" /\ step[c] # "send" /\ toUser[c] = <<>>
        /\ file[c] # NoFile => Downloads(c)
    BY <1>3, BusyProperties
  <1>5. /\ toMain' \in [Conn -> Seq(Msg)] /\ toMain'[c] = Tail(toMain[c])
        /\ \A x \in Conn : x # c => toMain'[x] = toMain[x]
        /\ Live(c) /\ InStep(c) /\ ProcessSound(c)
        /\ toMain[c] # <<>> /\ Head(toMain[c]).id = id
    BY <1>2, <1>3, ReceiveProperties
  <1>6. /\ queue' \in Seq(Entry)
        /\ occupied' = occupied \ {c} /\ queued_valid' = {}
        /\ used_dl_slots' = Cardinality(occupied') /\ used_dl_slots' \in Nat
        /\ transfer_file' = [transfer_file EXCEPT ![c] = NoFile]
        /\ transfer_file' \in [Conn -> Name \cup {NoFile}]
        /\ renamed' \subseteq Name
    BY <1>1, <1>4, EndedProperties
  <1>7. file[c] = NoFile
    BY <1>4, <1>5 DEF Downloads, Starts
  <1>8. Tail(toMain[c]) = <<>> \/ IsLast(Tail(toMain[c])) \/ Asks(Tail(toMain[c]), "CHECK_DOWNLOAD")
    BY <1>4, <1>5 DEF BusyPipe, Starts, EndsWith, IsLast
  <1>9. ConnSound(c)'
    <2>1. dir'[c] = "receive" /\ Live(c)' /\ c \notin occupied'
      BY <1>2, <1>4, <1>6 DEF Live
    <2>2. ProcessSound(c)'
      BY <1>2, <1>5 DEF ProcessSound
    <2>3. PipeSound(c)'
      BY <1>5, <1>8, <2>1 DEF PipeSound, IdlePipe
    <2>4. InStep(c)'
      <3>1. CASE step[c] = "off"
        BY <1>2, <2>2, <3>1 DEF ProcessSound, InStep
      <3>2. CASE step[c] # "off"
        <4>1. wait[c] = "file" /\ step[c] # "send" /\ toUser[c] = <<>>
          BY <1>4, <1>7, <3>2
        <4>2. WaitsForFile(c)'
          BY <1>2, <2>1, <4>1 DEF WaitsForFile
        <4>3. wait'[c] = "file" /\ step'[c] # "send" /\ file'[c] = NoFile
          BY <1>2, <1>7, <4>1
        <4> QED BY <4>2, <4>3 DEF InStep
      <3> QED BY <3>1, <3>2
    <2> QED BY <2>1, <2>2, <2>3, <2>4 DEF ConnSound
  <1>10. TypeOK'
    BY <1>2, <1>5, <1>6 DEF TypeOK
  <1>11. OnePerDirection' /\ QueueSound'
    BY <1>2, <1>6 DEF Inv, OnePerDirection, QueueSound, QueuePosTracksTransfer
  <1>12. \A x \in Conn : x # c =>
               /\ step'[x] = step[x] /\ wait'[x] = wait[x] /\ file'[x] = file[x]
               /\ toMain'[x] = toMain[x] /\ toUser'[x] = toUser[x] /\ dir'[x] = dir[x]
               /\ transfer_file'[x] = transfer_file[x] /\ (x \in occupied' <=> x \in occupied)
    BY <1>2, <1>5, <1>6 DEF TypeOK
  <1> QED BY <1>6, <1>9, <1>10, <1>11, <1>12, MainFrame

LEMMA TransferStartStep ==
    ASSUME Inv, NEW c \in Conn, HandleTransferStart(c)
    PROVE  Inv'
  <1>1. /\ Receive(c, "TRANSFER_START") /\ Consume(c) /\ TypeOK
        /\ transfer_file' = [transfer_file EXCEPT ![c] = Head(toMain[c]).file]
        /\ UNCHANGED <<queue, queue_pos, queued_valid, occupied, used_dl_slots, renamed, shifted,
                       dir, toUser, step, wait, file, silent>>
    BY DEF HandleTransferStart, userVars, Inv
  <1>2. /\ c \in occupied /\ dir[c] = "receive" /\ transfer_file[c] \in Name
        /\ BusyPipe(toMain[c], transfer_file[c])
        /\ step[c] # "off" /\ file[c] = NoFile =>
               wait[c] = "file" /\ step[c] # "send" /\ toUser[c] = <<>>
        /\ file[c] # NoFile => Downloads(c)
    BY <1>1, BusyProperties
  <1>3. /\ toMain' \in [Conn -> Seq(Msg)] /\ toMain'[c] = Tail(toMain[c])
        /\ \A x \in Conn : x # c => toMain'[x] = toMain[x]
        /\ Live(c) /\ InStep(c) /\ ProcessSound(c)
        /\ toMain[c] # <<>> /\ Head(toMain[c]).id = "TRANSFER_START"
        /\ Len(toMain[c]) = 1 => Tail(toMain[c]) = <<>>
    BY <1>1, ReceiveProperties
  <1>4. Head(toMain[c]).file = transfer_file[c] /\ EndsWith(Tail(toMain[c]), transfer_file[c])
    BY <1>2, <1>3 DEF BusyPipe, EndsWith, IsLast, Starts
  <1>5. transfer_file' = transfer_file
    BY <1>1, <1>4 DEF TypeOK
  <1>6. ConnSound(c)'
    <2>1. /\ dir'[c] = "receive" /\ Live(c)' /\ c \in occupied' /\ toUser'[c] = toUser[c]
          /\ transfer_file'[c] = transfer_file[c] /\ file'[c] = file[c]
      BY <1>1, <1>2, <1>5 DEF Live
    <2>2. ProcessSound(c)'
      BY <1>1, <1>3 DEF ProcessSound
    <2>3. PipeSound(c)'
      BY <1>2, <1>3, <1>4, <2>1 DEF PipeSound, BusyPipe
    <2>4. InStep(c)'
      <3>1. CASE step[c] = "off"
        BY <1>1, <2>2, <3>1 DEF ProcessSound, InStep
      <3>2. CASE step[c] # "off" /\ file[c] = NoFile
        <4>1. wait[c] = "file" /\ step[c] # "send" /\ toUser[c] = <<>>
          BY <1>2, <3>2
        <4>2. WaitsForFile(c)'
          BY <2>1, <4>1 DEF WaitsForFile
        <4>3. wait'[c] = "file" /\ step'[c] # "send" /\ file'[c] = NoFile
          BY <1>1, <3>2, <4>1
        <4> QED BY <4>2, <4>3 DEF InStep
      <3>3. CASE file[c] # NoFile
        <4>1. wait[c] = "no" /\ step[c] \in {"file_length", "data_recv"}
          BY <1>3, <3>3 DEF ProcessSound
        <4>2. Downloads(c) /\ toMain'[c] = <<>>
          BY <1>2, <1>3, <3>3 DEF Downloads
        <4>3. Downloads(c)'
          BY <1>1, <2>1, <4>2 DEF Downloads
        <4>4. wait'[c] = "no" /\ step'[c] \in {"file_length", "data_recv"}
          BY <1>1, <4>1
        <4> QED BY <4>3, <4>4 DEF InStep
      <3> QED BY <3>1, <3>2, <3>3
    <2> QED BY <2>1, <2>2, <2>3, <2>4 DEF ConnSound
  <1>7. TypeOK'
    BY <1>1, <1>3, <1>5 DEF TypeOK
  <1>8. OnePerDirection' /\ QueueSound' /\ used_dl_slots' = Cardinality(occupied')
    BY <1>1, <1>5 DEF Inv, OnePerDirection, QueueSound, QueuePosTracksTransfer
  <1>9. \A x \in Conn : x # c =>
               /\ step'[x] = step[x] /\ wait'[x] = wait[x] /\ file'[x] = file[x]
               /\ toMain'[x] = toMain[x] /\ toUser'[x] = toUser[x] /\ dir'[x] = dir[x]
               /\ transfer_file'[x] = transfer_file[x] /\ (x \in occupied' <=> x \in occupied)
    BY <1>1, <1>3, <1>5
  <1> QED BY <1>6, <1>7, <1>8, <1>9, MainFrame

LEMMA DisconnectStep ==
    ASSUME Inv, NEW c \in Conn, UserDisconnect(c)
    PROVE  Inv'
  <1>1. /\ TypeOK /\ ProcessSound(c)
        /\ dir' = [dir EXCEPT ![c] = "none"]
        /\ toMain' = [toMain EXCEPT ![c] = <<>>] /\ toUser' = [toUser EXCEPT ![c] = <<>>]
        /\ UNCHANGED <<queue_pos, shifted, step, wait, file, silent>>
    BY DEF Inv, ConnSound, UserDisconnect, userVars
  <1>2. /\ queue' \in Seq(Entry)
        /\ c \notin occupied' /\ occupied' \subseteq occupied /\ occupied \subseteq occupied' \cup {c}
        /\ used_dl_slots' = Cardinality(occupied') /\ used_dl_slots' \in Nat
        /\ transfer_file' \in [Conn -> Name \cup {NoFile}]
        /\ \A x \in Conn : x # c => transfer_file'[x] = transfer_file[x]
        /\ renamed' \subseteq Name
        /\ \/ queued_valid' = {}
           \/ UNCHANGED <<queue, queued_valid, occupied, transfer_file>>
    <2>1. CASE c \in occupied
      <3>1. HandleEndedDownload(c, FALSE)
        BY <2>1 DEF UserDisconnect
      <3>2. /\ queue' \in Seq(Entry)
            /\ occupied' = occupied \ {c} /\ queued_valid' = {}
            /\ used_dl_slots' = Cardinality(occupied') /\ used_dl_slots' \in Nat
            /\ transfer_file' = [transfer_file EXCEPT ![c] = NoFile]
            /\ transfer_file' \in [Conn -> Name \cup {NoFile}]
            /\ renamed' \subseteq Name
        BY <2>1, <3>1, EndedProperties
      <3> QED BY <1>1, <3>2 DEF TypeOK
    <2>2. CASE c \notin occupied
      BY <1>1, <2>2 DEF UserDisconnect, TypeOK, Inv
    <2> QED BY <2>1, <2>2
  <1>3. TypeOK'
    <2>1. toMain' \in [Conn -> Seq(Msg)] /\ toUser' \in [Conn -> Seq(Answer)]
      <3>1. <<>> \in Seq(Msg) /\ <<>> \in Seq(Answer)
        BY EmptySeq
      <3> QED BY <1>1, <3>1 DEF TypeOK
    <2>2. queued_valid' \subseteq Conn
      BY <1>1, <1>2 DEF TypeOK
    <2> QED BY <1>1, <1>2, <2>1, <2>2 DEF TypeOK, Dir
  <1>4. ConnSound(c)'
    <2>1. ProcessSound(c)'
      BY <1>1 DEF ProcessSound
    <2>2. Dropped(c)' /\ ~Live(c)'
      BY <1>1, <1>2 DEF Dropped, Live, TypeOK
    <2> QED BY <2>1, <2>2 DEF ConnSound
  <1>5. OnePerDirection'
    BY <1>1 DEF TypeOK, Inv, OnePerDirection
  <1>6. QueueSound'
    BY <1>1, <1>2 DEF Inv, QueueSound, QueuePosTracksTransfer
  <1>7. \A x \in Conn : x # c =>
               /\ step'[x] = step[x] /\ wait'[x] = wait[x] /\ file'[x] = file[x]
               /\ toMain'[x] = toMain[x] /\ toUser'[x] = toUser[x] /\ dir'[x] = dir[x]
               /\ transfer_file'[x] = transfer_file[x] /\ (x \in occupied' <=> x \in occupied)
    BY <1>1, <1>2 DEF TypeOK
  <1> QED BY <1>2, <1>3, <1>4, <1>5, <1>6, <1>7, MainFrame

LEMMA MainStepSound ==
    ASSUME Inv, NEW c \in Conn, MainStep(c)
    PROVE  Inv'
  BY WantDownloadStep, ValidateDirStep, CheckDownloadStep, DownloadEndedStep, TransferStartStep,
     DisconnectStep DEF MainStep, HandleTerminating, HandleEof
-----------------------------------------------------------------------------
(* The commands *)

(* A command changes the queue, and leaves the connections alone.          *)
LEMMA CommandFrame ==
    ASSUME Inv, UNCHANGED <<occupied, transfer_file, used_dl_slots, renamed, dir, toMain, toUser,
                            userVars>>,
           queue' \in Seq(Entry), queue_pos' \in [Conn -> Nat],
           queued_valid' \subseteq Conn, shifted' \subseteq Conn, QueueSound'
    PROVE  Inv'
  <1>1. UNCHANGED <<occupied, transfer_file, used_dl_slots, renamed, dir, toMain, toUser,
                    step, wait, file, silent>>
    BY DEF userVars
  <1>2. TypeOK'
    BY <1>1 DEF Inv, TypeOK
  <1>3. \A c \in Conn : ConnSound(c)'
    BY <1>1, OthersSound DEF Inv
  <1> QED BY <1>1, <1>2, <1>3 DEF Inv, OnePerDirection

LEMMA GetStep ==
    ASSUME Inv, NEW f \in File, Get(f)
    PROVE  Inv'
  <1> DEFINE e == [file |-> f, status |-> "QUEUED"]
  <1>1. /\ TypeOK /\ queue' = Append(queue, e)
        /\ UNCHANGED <<queue_pos, queued_valid, occupied, transfer_file, used_dl_slots,
                       renamed, shifted, dir, toMain, toUser, userVars>>
    BY DEF Inv, Get
  <1>2. e \in Entry /\ queue \in Seq(Entry)
    BY <1>1 DEF TypeOK, Entry, Name
  <1> HIDE DEF e
  <1>3. /\ queue' \in Seq(Entry) /\ Len(queue') = Len(queue) + 1 /\ Len(queue) \in Nat
        /\ \A i \in 1..Len(queue) : queue'[i] = queue[i]
    BY <1>1, <1>2, AppendProperties
  <1>4. ASSUME NEW c \in queued_valid'
        PROVE  /\ queue_pos'[c] < Len(queue')
               /\ c \notin shifted' =>
                    queue'[queue_pos'[c] + 1] = [file |-> transfer_file'[c], status |-> "PROCESSING"]
    <2>1. c \in queued_valid /\ c \in Conn /\ queue_pos[c] \in Nat /\ queue_pos[c] < Len(queue)
      BY <1>1, <1>4 DEF TypeOK, Inv, QueueSound, QueuePosTracksTransfer
    <2>2. queue_pos[c] + 1 \in 1..Len(queue)
      BY <1>3, <2>1
    <2>3. queue'[queue_pos[c] + 1] = queue[queue_pos[c] + 1] /\ queue_pos[c] < Len(queue')
      BY <1>3, <2>1, <2>2
    <2> QED BY <1>1, <2>1, <2>3 DEF Inv, QueueSound, QueuePosTracksTransfer
  <1>5. QueueSound'
    BY <1>1, <1>4 DEF Inv, QueueSound, QueuePosTracksTransfer
  <1> QED BY <1>1, <1>3, <1>5, CommandFrame DEF TypeOK

LEMMA BrowseStep ==
    ASSUME Inv, Browse
    PROVE  Inv'
  <1> DEFINE e == [file |-> List, status |-> "QUEUED"]
  <1>1. /\ TypeOK /\ List \notin Queued /\ queue' = <<e>> \o queue
        /\ shifted' = shifted \cup queued_valid
        /\ UNCHANGED <<queue_pos, queued_valid, occupied, transfer_file, used_dl_slots,
                       renamed, dir, toMain, toUser, userVars>>
    BY DEF Inv, Browse
  <1>2. e \in Entry /\ queue \in Seq(Entry)
    BY <1>1 DEF TypeOK, Entry, Name
  <1> HIDE DEF e
  <1>3. queue' \in Seq(Entry) /\ Len(queue') = Len(queue) + 1 /\ Len(queue) \in Nat
    <2>1. <<e>> \in Seq(Entry) /\ Len(<<e>>) = 1
      BY <1>2
    <2> QED BY <1>1, <1>2, <2>1, ConcatProperties
  <1>4. ASSUME NEW c \in queued_valid'
        PROVE  /\ queue_pos'[c] < Len(queue') /\ c \in shifted'
               /\ transfer_file'[c] # List
    <2>1. /\ c \in queued_valid /\ c \in Conn /\ queue_pos[c] \in Nat
          /\ queue_pos[c] < Len(queue)
          /\ transfer_file[c] = List => c \notin shifted
          /\ c \notin shifted =>
               queue[queue_pos[c] + 1] = [file |-> transfer_file[c], status |-> "PROCESSING"]
      BY <1>1, <1>4 DEF TypeOK, Inv, QueueSound, QueuePosTracksTransfer
    <2>2. transfer_file[c] # List
      <3>1. ASSUME transfer_file[c] = List PROVE FALSE
        <4>1. queue[queue_pos[c] + 1].file = List
          BY <2>1, <3>1
        <4>2. queue_pos[c] + 1 \in 1..Len(queue)
          BY <1>3, <2>1
        <4> QED BY <1>1, <4>1, <4>2 DEF Queued
      <3> QED BY <3>1
    <2> QED BY <1>1, <1>3, <2>1, <2>2
  <1>5. QueueSound'
    BY <1>1, <1>4 DEF Inv, QueueSound, QueuePosTracksTransfer
  <1> QED BY <1>1, <1>3, <1>5, CommandFrame DEF TypeOK

LEMMA UnqueueStep ==
    ASSUME Inv, NEW removed \in SUBSET (1..Len(queue)), Unqueue(removed)
    PROVE  Inv'
  <1> DEFINE buf == [i \in 1..Len(queue) |-> IF i \in removed THEN Null ELSE queue[i]]
  <1>1. /\ TypeOK
        /\ queued_valid' = QueuedValidAfter(buf) /\ queue_pos' = QueuePosAfter(buf)
        /\ queue' = Compact(buf)
        /\ UNCHANGED <<occupied, transfer_file, used_dl_slots,
                       renamed, shifted, dir, toMain, toUser, userVars>>
    BY DEF Inv, Unqueue
  <1>2. queue \in Seq(Entry) /\ Len(queue) \in Nat
    BY <1>1 DEF TypeOK
  <1>3. /\ buf \in Seq(Entry \cup {Null}) /\ Len(buf) = Len(queue)
        /\ \A i \in 1..Len(queue) : buf[i] # Null => buf[i] = queue[i] /\ buf[i] \in Entry
    <2>1. \A i \in 1..Len(queue) : queue[i] \in Entry
      BY <1>2
    <2>2. buf \in [1..Len(queue) -> Entry \cup {Null}]
      BY <2>1
    <2>3. buf \in Seq(Entry \cup {Null}) /\ Len(buf) = Len(queue)
      <3> HIDE DEF buf
      <3>1. buf \in Seq(Entry \cup {Null})
        BY <1>2, <2>2, SeqDef
      <3>2. DOMAIN buf = 1..Len(queue)
        BY <2>2
      <3> QED BY <1>2, <3>1, <3>2, LenProperties
    <2> QED BY <2>1, <2>3
  <1> HIDE DEF buf
  <1> DEFINE n == Rank(buf, Len(buf))
  <1>4. /\ queue' = [i \in 1..n |-> queue'[i]] /\ n \in Nat
        /\ \A i \in 1..Len(buf) : buf[i] # Null =>
               Rank(buf, i) \in 1..n /\ queue'[Rank(buf, i)] = buf[i]
        /\ \A i \in 1..n : queue'[i] # Null /\ \E j \in 1..Len(buf) : queue'[i] = buf[j]
    BY <1>1, <1>3, CompactProperties
  <1> HIDE DEF n
  <1>5. queue' \in Seq(Entry) /\ Len(queue') = n
    <2>1. \A i \in 1..n : queue'[i] \in Entry
      BY <1>3, <1>4
    <2>2. queue' \in [1..n -> Entry] /\ DOMAIN queue' = 1..n
      BY <1>4, <2>1
    <2>3. queue' \in Seq(Entry)
      BY <1>4, <2>2, SeqDef
    <2> QED BY <1>4, <2>2, <2>3, LenProperties
  <1>6. \A c \in Conn : Rank(buf, queue_pos[c]) \in Nat
    BY <1>1, RankProperties DEF TypeOK
  <1>7. queue_pos' \in [Conn -> Nat] /\ queued_valid' \subseteq queued_valid
    BY <1>1, <1>6 DEF QueuePosAfter, QueuedValidAfter, Rank, Kept, TypeOK
  <1>8. ASSUME NEW c \in queued_valid'
        PROVE  /\ queue_pos'[c] < Len(queue')
               /\ queue'[queue_pos'[c] + 1] = queue[queue_pos[c] + 1]
    <2>1. /\ c \in queued_valid /\ c \in Conn /\ queue_pos[c] \in Nat
          /\ queue_pos[c] < Len(buf)
          /\ dir[c] = "receive"
      BY <1>1, <1>3, <1>7, <1>8, OccupiedReceives
         DEF TypeOK, Inv, QueueSound, QueuePosTracksTransfer
    <2>2. buf[queue_pos[c] + 1] # Null
      BY <1>1, <1>8, <2>1 DEF QueuedValidAfter
    <2>3. queue_pos'[c] = Rank(buf, queue_pos[c])
      BY <1>1, <2>1 DEF QueuePosAfter, Rank, Kept
    <2>4. Rank(buf, queue_pos[c] + 1) = queue_pos'[c] + 1 /\ queue_pos'[c] \in Nat
      BY <2>1, <2>2, <2>3, RankProperties
    <2>5. queue_pos[c] + 1 \in 1..Len(buf) /\ queue_pos[c] + 1 \in 1..Len(queue)
      BY <1>2, <1>3, <2>1
    <2>6. queue_pos'[c] + 1 \in 1..n /\ queue'[queue_pos'[c] + 1] = buf[queue_pos[c] + 1]
      BY <1>4, <2>2, <2>4, <2>5
    <2>7. queue_pos'[c] < n
      BY <1>4, <2>4, <2>6
    <2> QED BY <1>3, <1>5, <2>2, <2>5, <2>6, <2>7
  <1>9. QueueSound'
    BY <1>1, <1>7, <1>8 DEF Inv, QueueSound, QueuePosTracksTransfer
  <1> QED BY <1>1, <1>5, <1>7, <1>9, CommandFrame DEF TypeOK

-----------------------------------------------------------------------------
(* The theorems *)

LEMMA InitSound == Init => Inv
  <1> SUFFICES ASSUME Init PROVE Inv
    OBVIOUS
  <1>1. TypeOK
    <2>1. <<>> \in Seq(Entry) /\ <<>> \in Seq(Msg) /\ <<>> \in Seq(Answer)
      BY EmptySeq
    <2> QED BY <2>1 DEF Init, TypeOK, Dir, Step, Wait
  <1>2. used_dl_slots = Cardinality(occupied)
    BY FS_EmptySet DEF Init
  <1>3. OnePerDirection /\ QueueSound
    BY DEF Init, OnePerDirection, QueueSound, QueuePosTracksTransfer
  <1>4. \A c \in Conn : ConnSound(c)
    BY DEF Init, ConnSound, ProcessSound, Dropped, Live
  <1> QED BY <1>1, <1>2, <1>3, <1>4 DEF Inv

LEMMA NextSound == Inv /\ [Next]_vars => Inv'
  <1> SUFFICES ASSUME Inv, [Next]_vars PROVE Inv'
    OBVIOUS
  <1>1. CASE UNCHANGED vars
    <2>1. UNCHANGED <<queue, queue_pos, queued_valid, shifted, occupied, transfer_file,
                      used_dl_slots, renamed, dir, toMain, toUser, userVars>>
      BY <1>1 DEF vars, userVars
    <2>2. QueueSound'
      BY <2>1 DEF Inv, QueueSound, QueuePosTracksTransfer
    <2> QED BY <2>1, <2>2, CommandFrame DEF Inv, TypeOK
  <1>2. CASE Command
    BY <1>2, GetStep, BrowseStep, UnqueueStep DEF Command
  <1>3. CASE \E c \in Conn : Connect(c) \/ UserStep(c) \/ MainStep(c) \/ Cancel(c)
    BY <1>3, ConnectStep, UserStepSound, MainStepSound, DisconnectStep DEF Cancel
  <1> QED BY <1>1, <1>2, <1>3 DEF Next

(* Whatever the two processes of each connection and the commands do, in   *)
(* whatever order: the pipe of a connection holds no more than the reports *)
(* of one download, a process that runs and what the main process knows of *)
(* its connection are at the same point, and the entry is the one it is    *)
(* about (main.c:336-372, 577-684, user.c).                                *)
THEOREM InvHolds == Spec => []Inv
  BY InitSound, NextSound, PTL DEF Spec

(* The download slots are counted right, and the process and the main      *)
(* process agree on the file (main.c:336, 468, 651).                       *)
THEOREM TransfersAgree == Spec => []DownloadsSound
  <1>1. Inv => DownloadsSound
    <2> SUFFICES ASSUME Inv PROVE DownloadsSound
      OBVIOUS
    <2>1. DlSlotAccounting
      BY OccupiedReceives DEF Inv, DlSlotAccounting
    <2>2. SameFile
      BY DEF Inv, SameFile, ConnSound, InStep, Downloads
    <2> QED BY <2>1, <2>2 DEF Inv, DownloadsSound
  <1> QED BY <1>1, InvHolds, PTL

(* Two connections of the user never have the same direction, even when    *)
(* both asked while neither had one (main.c:223-230).                      *)
THEOREM DirectionsAreTaken == Spec => []OnePerDirection
  <1>1. Inv => OnePerDirection
    BY DEF Inv
  <1> QED BY <1>1, InvHolds, PTL

(* The entry at queue_pos is the one under transfer until something is put *)
(* in front of it, whatever unqueue removes (microdc.h:343, main.c:350).   *)
THEOREM EntryIsTracked == Spec => []QueuePosTracksTransfer
  <1>1. Inv => QueuePosTracksTransfer
    BY DEF Inv, QueueSound
  <1> QED BY <1>1, InvHolds, PTL

(* handle_ended_download renames only what was received.                   *)
LEMMA EndedRenames ==
    ASSUME Inv, NEW c \in Conn, HandleDownloadEnded(c), NEW f \in renamed' \ renamed
    PROVE  f # List /\ Reported(f)
  <1>1. PICK success \in BOOLEAN :
          /\ Receive(c, IF success THEN "ENDED_success" ELSE "ENDED_failure")
          /\ HandleEndedDownload(c, success)
    BY DEF HandleDownloadEnded
  <1>2. /\ success /\ c \in queued_valid /\ queue[queue_pos[c] + 1].file # List
        /\ f = transfer_file[c]
    BY <1>1 DEF HandleEndedDownload
  <1>3. Receive(c, "ENDED_success") /\ Consume(c)
    BY <1>1, <1>2 DEF HandleDownloadEnded
  <1>4. /\ toMain[c] # <<>> /\ Head(toMain[c]).id = "ENDED_success"
        /\ toMain'[c] = Tail(toMain[c])
    BY <1>3, ReceiveProperties
  <1>5. BusyPipe(toMain[c], transfer_file[c])
    BY <1>3, BusyProperties
  <1>6. Head(toMain[c]).file = f
    BY <1>2, <1>4, <1>5 DEF BusyPipe, EndsWith, IsLast, Starts
  <1>7. Reported(f)
    BY <1>4, <1>6 DEF Reported
  <1>8. ASSUME f = List PROVE FALSE
    <2>1. c \notin shifted /\ transfer_file[c] = List
      BY <1>2, <1>8 DEF Inv, QueueSound
    <2>2. queue[queue_pos[c] + 1] = [file |-> transfer_file[c], status |-> "PROCESSING"]
      BY <1>2, <2>1 DEF Inv, QueueSound, QueuePosTracksTransfer
    <2>3. queue[queue_pos[c] + 1].file = List
      BY <2>1, <2>2
    <2> QED BY <1>2, <2>3
  <1> QED BY <1>7, <1>8

(* Only a file that a process reported as received gets its final name,    *)
(* and never a file list (main.c:355-372).                                 *)
THEOREM OnlyReceivedIsRenamed == Spec => RenamedWasReceived
  <1>1. ASSUME Inv, [Next]_vars
        PROVE  \A f \in renamed' \ renamed : f # List /\ Reported(f)
    <2>1. CASE UNCHANGED vars \/ Command \/ \E c \in Conn : Connect(c)
      <3>1. renamed' = renamed
        BY <2>1 DEF vars, Command, Get, Browse, Unqueue, Connect
      <3> QED BY <3>1
    <2>2. CASE \E c \in Conn : UserStep(c)
      <3>1. renamed' = renamed
        BY <2>2 DEF UserStep, ReceiveDirection, ReceiveWant, ReceiveValid, ReceiveKey, ReceiveFile,
             ReceiveFileLength, ReceiveMaxedOut, FinishDownload, FailDownload, Terminate,
             Silence, ReceiveIgnored, Alarm, Die,
             mainVars, queueVars
      <3> QED BY <3>1
    <2>3. ASSUME NEW c \in Conn, UserDisconnect(c)
          PROVE  renamed' = renamed
      BY <2>3 DEF UserDisconnect, HandleEndedDownload
    <2>4. ASSUME NEW c \in Conn, MainStep(c), ~HandleDownloadEnded(c)
          PROVE  renamed' = renamed
      BY <2>3, <2>4 DEF MainStep, HandleWantDownload, HandleValidateDir, HandleCheckDownload,
           HandleTransferStart, HandleTerminating, HandleEof, mainVars, queueVars
    <2>5. CASE \E c \in Conn : Cancel(c)
      BY <2>3, <2>5 DEF Cancel
    <2>6. CASE \E c \in Conn : MainStep(c)
      BY <1>1, <2>4, <2>6, EndedRenames
    <2> QED BY <1>1, <2>1, <2>2, <2>5, <2>6 DEF Next
  <1>2. Inv /\ [Next]_vars => [\A f \in renamed' \ renamed : f # List /\ Reported(f)]_vars
    BY <1>1
  <1> QED BY <1>2, InvHolds, PTL DEF Spec, RenamedWasReceived
=============================================================================
