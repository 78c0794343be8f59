-------------------------- MODULE UserConnsProofs --------------------------
(***************************************************************************)
(* Proofs about UserConns, for any number of nicks, structures and         *)
(* connections: the names of the connections are right, the reference      *)
(* counts are exact, and whoever was asked to connect is waited for.       *)
(***************************************************************************)
EXTENDS UserConns, FiniteSetTheorems, WellFoundedInduction, TLAPS

-----------------------------------------------------------------------------
(* The inductive invariant *)

Finite ==
    /\ IsFiniteSet(DOMAIN hub_users)
    /\ IsFiniteSet(DOMAIN pending_userinfo)
    /\ IsFiniteSet(responses)

(* The count of info i, 0 when it is not allocated.                        *)
Count(I, i) == IF i \in DOMAIN I THEN I[i].refcount ELSE 0

(* The pointers to info i, counted table by table.                         *)
One(holds) == IF holds THEN 1 ELSE 0
Joined(C, i) == Cardinality({c \in DOMAIN C : C[c].info = i})
Pointers(i) ==
    Held(hub_users, i) + Held(pending_userinfo, i) + Joined(uconn, i)
        + One(browse_user = i) + One(i \in responses)

(* MemorySound in two parts.                                               *)
CountsExact == \A i \in Info : Count(infos, i) = Pointers(i)
ConnsKept ==
    \A i \in DOMAIN infos :
        /\ Elements(infos[i].conn) \subseteq DOMAIN uconn
        /\ Len(infos[i].conn) <= MaxConn

(* A connection that knows its user is in conn[] of it.                    *)
ConnsListed ==
    \A c \in DOMAIN uconn :
        uconn[c].info # NoInfo => c \in Elements(infos[uconn[c].info].conn)

(* The tables hold each nick's own info, and a nick has one of them.       *)
NicksMatch ==
    /\ \A n \in DOMAIN hub_users : infos[hub_users[n]].nick = n
    /\ \A n \in DOMAIN pending_userinfo : infos[pending_userinfo[n]].nick = n
    /\ \A i, j \in DOMAIN infos : infos[i].nick = infos[j].nick => i = j

(* A connection has the name that its user and its direction give it.      *)
NamesMatch ==
    \A c \in DOMAIN uconn :
        IF uconn[c].info = NoInfo
        THEN uconn[c].name = c /\ uconn[c].dir = "unknown"
        ELSE uconn[c].name = Named(infos[uconn[c].info].nick, uconn[c].dir)

(* conn[] of a user holds its own connections, each of them once.          *)
ConnsMatch ==
    \A i \in DOMAIN infos :
        /\ \A k, m \in 1..Len(infos[i].conn) :
               infos[i].conn[k] = infos[i].conn[m] => k = m
        /\ \A c \in Elements(infos[i].conn) : uconn[c].info = i

Tidy == NicksMatch /\ NamesMatch /\ ConnsMatch

Awaited ==
    /\ \A n \in DOMAIN hub_users :
           infos[hub_users[n]].active_state \in Sent =>
               n \in DOMAIN pending_userinfo /\ pending_userinfo[n] = hub_users[n]
    /\ \A n \in DOMAIN pending_userinfo : HasRoom(pending_userinfo[n])

Inv ==
    /\ TypeOK
    /\ Finite
    /\ KeysAreNames
    /\ MemorySound => ConnsListed
    /\ MemorySound /\ "returned" \notin past => Tidy
    /\ past = {} => MemorySound /\ Awaited

-----------------------------------------------------------------------------
(* Counting *)

(* Marking the members of a finite set does not change their number.       *)
LEMMA TaggedCount ==
    ASSUME NEW S, IsFiniteSet(S), NEW t
    PROVE  /\ IsFiniteSet({<<t, x>> : x \in S})
           /\ Cardinality({<<t, x>> : x \in S}) = Cardinality(S)
<1> DEFINE T == {<<t, x>> : x \in S}
           f == [x \in S |-> <<t, x>>]
<1>1. f \in [S -> T]
      OBVIOUS
<1>2. IsInjective(f)
  <2>1. \A x, y \in S : f[x] = f[y] => x = y
        OBVIOUS
  <2>2. DOMAIN f = S
        OBVIOUS
  <2> HIDE DEF f
  <2> QED
        BY <2>1, <2>2 DEF IsInjective
<1>3. \A y \in T : \E x \in S : f[x] = y
      OBVIOUS
<1>4. f \in Bijection(S, T)
      BY <1>1, <1>2, <1>3 DEF Bijection, Injection, Surjection
<1>5. ExistsBijection(S, T)
      BY <1>4 DEF ExistsBijection
<1> QED
      BY <1>5, FS_Bijection

(* Two finite sets without a common member are counted one after the other.*)
LEMMA DisjointCount ==
    ASSUME NEW S, NEW T, IsFiniteSet(S), IsFiniteSet(T), S \cap T = {}
    PROVE  /\ IsFiniteSet(S \cup T)
           /\ Cardinality(S \cup T) = Cardinality(S) + Cardinality(T)
<1>1. Cardinality(S) \in Nat /\ Cardinality(T) \in Nat /\ Cardinality(S \cap T) = 0
      BY FS_CardinalityType, FS_EmptySet
<1>2. /\ IsFiniteSet(S \cup T)
      /\ Cardinality(S \cup T) = Cardinality(S) + Cardinality(T) - Cardinality(S \cap T)
      BY FS_Union
<1> QED
      BY <1>1, <1>2

(* Whether x is in a set of one member, as a number.                       *)
LEMMA MeetCount ==
    ASSUME NEW S, NEW x
    PROVE  /\ IsFiniteSet(S \cap {x})
           /\ Cardinality(S \cap {x}) = One(x \in S)
<1>1. CASE x \in S
  <2>1. S \cap {x} = {x}
        BY <1>1
  <2> QED
        BY <1>1, <2>1, FS_Singleton DEF One
<1>2. CASE x \notin S
  <2>1. S \cap {x} = {}
        BY <1>2
  <2> QED
        BY <1>2, <2>1, FS_EmptySet DEF One
<1> QED
      BY <1>1, <1>2
(* A set that differs from S at most in x.                                 *)
LEMMA TouchedCount ==
    ASSUME NEW S, NEW T, NEW x, IsFiniteSet(S), T \ {x} = S \ {x}
    PROVE  /\ IsFiniteSet(T)
           /\ Cardinality(T) \in Nat
           /\ Cardinality(T) = Cardinality(S) - One(x \in S) + One(x \in T)
<1> DEFINE R == S \ {x}
<1>1. /\ IsFiniteSet(R)
      /\ Cardinality(R) = IF x \in S THEN Cardinality(S) - 1 ELSE Cardinality(S)
      BY FS_RemoveElement
<1>2. Cardinality(S) \in Nat /\ Cardinality(R) \in Nat
      BY <1>1, FS_CardinalityType
<1>3. /\ IsFiniteSet(R \cup {x})
      /\ Cardinality(R \cup {x}) = IF x \in R THEN Cardinality(R) ELSE Cardinality(R) + 1
      BY <1>1, FS_AddElement
<1>4. CASE x \in T
  <2>1. T = R \cup {x}
        BY <1>4
  <2> QED
        BY <1>1, <1>2, <1>3, <1>4, <2>1 DEF One
<1>5. CASE x \notin T
  <2>1. T = R
        BY <1>5
  <2> QED
        BY <1>1, <1>2, <1>5, <2>1 DEF One
<1> QED
      BY <1>4, <1>5

LEMMA HeldNat ==
    ASSUME NEW f, IsFiniteSet(DOMAIN f), NEW j
    PROVE  Held(f, j) \in Nat
<1>1. IsFiniteSet({n \in DOMAIN f : f[n] = j})
      BY FS_Subset
<1> QED
      BY <1>1, FS_CardinalityType DEF Held

LEMMA WithHeld ==
    ASSUME NEW f, IsFiniteSet(DOMAIN f), NEW x, NEW v, NEW j
    PROVE  /\ IsFiniteSet(DOMAIN With(f, x, v))
           /\ Held(With(f, x, v), j) = Held(f, j) - One(x \in DOMAIN f /\ f[x] = j) + One(v = j)
<1> DEFINE S == {n \in DOMAIN f : f[n] = j}
           T == {n \in DOMAIN With(f, x, v) : With(f, x, v)[n] = j}
<1>1. IsFiniteSet(S)
      BY FS_Subset
<1>2. T \ {x} = S \ {x}
      BY DEF With
<1>3. (x \in S) = (x \in DOMAIN f /\ f[x] = j) /\ (x \in T) = (v = j)
      BY DEF With
<1>4. Cardinality(T) = Cardinality(S) - One(x \in S) + One(x \in T)
      BY <1>1, <1>2, TouchedCount
<1>5. IsFiniteSet(DOMAIN With(f, x, v))
      BY FS_AddElement DEF With
<1> QED
      BY <1>3, <1>4, <1>5 DEF Held

LEMMA WithoutHeld ==
    ASSUME NEW f, IsFiniteSet(DOMAIN f), NEW x, NEW j
    PROVE  /\ IsFiniteSet(DOMAIN Without(f, x))
           /\ Held(Without(f, x), j) = Held(f, j) - One(x \in DOMAIN f /\ f[x] = j)
<1> DEFINE S == {n \in DOMAIN f : f[n] = j}
           T == {n \in DOMAIN Without(f, x) : Without(f, x)[n] = j}
<1>1. IsFiniteSet(S)
      BY FS_Subset
<1>2. T \ {x} = S \ {x}
      BY DEF Without
<1>3. (x \in S) = (x \in DOMAIN f /\ f[x] = j) /\ x \notin T
      BY DEF Without
<1>4. Cardinality(T) = Cardinality(S) - One(x \in S) + One(x \in T)
      BY <1>1, <1>2, TouchedCount
<1>5. Cardinality(S) \in Nat /\ One(x \in S) \in Nat /\ One(x \in T) = 0
      BY <1>1, <1>3, FS_CardinalityType DEF One
<1>6. IsFiniteSet(DOMAIN Without(f, x))
      BY FS_RemoveElement DEF Without
<1> QED
      BY <1>3, <1>4, <1>5, <1>6 DEF Held

(* Tables of connections that differ at most in c.                         *)
LEMMA JoinedTouched ==
    ASSUME NEW C, NEW D, NEW c, NEW j, IsFiniteSet(DOMAIN C),
           DOMAIN D \ {c} = DOMAIN C \ {c},
           \A d \in DOMAIN C \ {c} : D[d].info = C[d].info
    PROVE  Joined(D, j) = Joined(C, j) - One(c \in DOMAIN C /\ C[c].info = j)
                                       + One(c \in DOMAIN D /\ D[c].info = j)
<1> DEFINE S == {d \in DOMAIN C : C[d].info = j}
           T == {d \in DOMAIN D : D[d].info = j}
<1>1. IsFiniteSet(S)
      BY FS_Subset
<1>2. T \ {c} = S \ {c}
      OBVIOUS
<1>3. /\ (c \in S) = (c \in DOMAIN C /\ C[c].info = j)
      /\ (c \in T) = (c \in DOMAIN D /\ D[c].info = j)
      OBVIOUS
<1>4. Cardinality(T) = Cardinality(S) - One(c \in S) + One(c \in T)
      BY <1>1, <1>2, TouchedCount
<1> QED
      BY <1>3, <1>4 DEF Joined

(* The pointers to an info, which References shows one by one, are counted *)
(* table by table.                                                         *)
LEMMA ReferencesCount ==
    TypeOK /\ Finite =>
        \A i : /\ IsFiniteSet(References(i))
               /\ Cardinality(References(i)) = Pointers(i)
<1> SUFFICES ASSUME TypeOK, Finite, NEW i
             PROVE  /\ IsFiniteSet(References(i))
                    /\ Cardinality(References(i)) = Pointers(i)
      OBVIOUS
<1> DEFINE H == {n \in DOMAIN hub_users : hub_users[n] = i}
           P == {n \in DOMAIN pending_userinfo : pending_userinfo[n] = i}
           C == {c \in DOMAIN uconn : uconn[c].info = i}
           B == {browse_user} \cap {i}
           R == responses \cap {i}
           Tagged(t, S) == {<<t, x>> : x \in S}
<1>1. IsFiniteSet(H) /\ IsFiniteSet(P) /\ IsFiniteSet(C) /\ IsFiniteSet(B) /\ IsFiniteSet(R)
  <2>1. IsFiniteSet(DOMAIN uconn)
        BY FS_Subset, UserConnsAssumption DEF TypeOK
  <2> QED
        BY <2>1, FS_Subset, FS_Intersection, FS_Singleton DEF Finite
<1>2. /\ Cardinality(H) = Held(hub_users, i)
      /\ Cardinality(P) = Held(pending_userinfo, i)
      /\ Cardinality(C) = Joined(uconn, i)
      BY DEF Held, Joined
<1>3. Cardinality(B) = One(browse_user = i) /\ Cardinality(R) = One(i \in responses)
  <2>1. Cardinality(B) = One(i \in {browse_user}) /\ Cardinality(R) = One(i \in responses)
        BY MeetCount
  <2>2. (i \in {browse_user}) = (browse_user = i)
        OBVIOUS
  <2> QED
        BY <2>1, <2>2
<1> DEFINE TH == Tagged("hub", H)
           TP == Tagged("pending", P)
           TC == Tagged("conn", C)
           TB == Tagged("browse", B)
           TR == Tagged("response", R)
<1>4. /\ IsFiniteSet(TH) /\ Cardinality(TH) = Cardinality(H)
      /\ IsFiniteSet(TP) /\ Cardinality(TP) = Cardinality(P)
      /\ IsFiniteSet(TC) /\ Cardinality(TC) = Cardinality(C)
      /\ IsFiniteSet(TB) /\ Cardinality(TB) = Cardinality(B)
      /\ IsFiniteSet(TR) /\ Cardinality(TR) = Cardinality(R)
      BY <1>1, TaggedCount
<1>5. /\ TH \cap TP = {} /\ (TH \cup TP) \cap TC = {}
      /\ (TH \cup TP \cup TC) \cap TB = {} /\ (TH \cup TP \cup TC \cup TB) \cap TR = {}
      OBVIOUS
<1>6. References(i) = TH \cup TP \cup TC \cup TB \cup TR
      BY DEF References
<1> HIDE DEF TH, TP, TC, TB, TR, H, P, C, B, R
<1>7. IsFiniteSet(TH \cup TP) /\ Cardinality(TH \cup TP) = Cardinality(TH) + Cardinality(TP)
      BY <1>4, <1>5, DisjointCount
<1>8. /\ IsFiniteSet(TH \cup TP \cup TC)
      /\ Cardinality(TH \cup TP \cup TC) = Cardinality(TH \cup TP) + Cardinality(TC)
      BY <1>4, <1>5, <1>7, DisjointCount
<1>9. /\ IsFiniteSet(TH \cup TP \cup TC \cup TB)
      /\ Cardinality(TH \cup TP \cup TC \cup TB) = Cardinality(TH \cup TP \cup TC) + Cardinality(TB)
      BY <1>4, <1>5, <1>8, DisjointCount
<1>10. /\ IsFiniteSet(TH \cup TP \cup TC \cup TB \cup TR)
       /\ Cardinality(TH \cup TP \cup TC \cup TB \cup TR)
              = Cardinality(TH \cup TP \cup TC \cup TB) + Cardinality(TR)
      BY <1>4, <1>5, <1>9, DisjointCount
<1> QED
      BY <1>2, <1>3, <1>4, <1>6, <1>7, <1>8, <1>9, <1>10 DEF Pointers

(* What is counted are numbers.                                            *)
LEMMA PointersNat ==
    TypeOK /\ Finite =>
        \A i : /\ Held(hub_users, i) \in Nat
               /\ Held(pending_userinfo, i) \in Nat
               /\ Joined(uconn, i) \in Nat
               /\ One(browse_user = i) \in {0, 1}
               /\ One(i \in responses) \in {0, 1}
<1> SUFFICES ASSUME TypeOK, Finite, NEW i
             PROVE  /\ Held(hub_users, i) \in Nat
                    /\ Held(pending_userinfo, i) \in Nat
                    /\ Joined(uconn, i) \in Nat
                    /\ One(browse_user = i) \in {0, 1}
                    /\ One(i \in responses) \in {0, 1}
      OBVIOUS
<1>1. Held(hub_users, i) \in Nat /\ Held(pending_userinfo, i) \in Nat
      BY HeldNat DEF Finite
<1>2. Joined(uconn, i) \in Nat
  <2>1. IsFiniteSet({c \in DOMAIN uconn : uconn[c].info = i})
        BY FS_Subset, UserConnsAssumption DEF TypeOK
  <2> QED
        BY <2>1, FS_CardinalityType DEF Joined
<1> QED
      BY <1>1, <1>2 DEF One

LEMMA MemoryParts ==
    TypeOK /\ Finite => (MemorySound <=> CountsExact /\ ConnsKept)
<1> SUFFICES ASSUME TypeOK, Finite
             PROVE  MemorySound <=> CountsExact /\ ConnsKept
      OBVIOUS
<1>1. \A i : /\ IsFiniteSet(References(i))
             /\ Cardinality(References(i)) = Pointers(i)
      BY ReferencesCount
<1>2. \A i : References(i) = {} <=> Pointers(i) = 0
      BY <1>1, FS_EmptySet
<1>3. DOMAIN infos \subseteq Info
      BY DEF TypeOK
<1>4. /\ \A i \in Info \ DOMAIN infos : Count(infos, i) = 0
      /\ \A i \in DOMAIN infos : Count(infos, i) = infos[i].refcount
      BY DEF Count
<1>5. CountsExact <=> /\ \A i \in Info \ DOMAIN infos : References(i) = {}
                      /\ \A i \in DOMAIN infos : infos[i].refcount = Cardinality(References(i))
  <2> USE <1>1, <1>2, <1>3, <1>4 DEF CountsExact
  <2>1. ASSUME CountsExact
        PROVE  /\ \A i \in Info \ DOMAIN infos : References(i) = {}
               /\ \A i \in DOMAIN infos : infos[i].refcount = Cardinality(References(i))
    <3>1. ASSUME NEW i \in Info \ DOMAIN infos
          PROVE  References(i) = {}
      <4>1. Pointers(i) = 0
            BY <2>1, <3>1
      <4> QED
            BY <4>1
    <3>2. ASSUME NEW i \in DOMAIN infos
          PROVE  infos[i].refcount = Cardinality(References(i))
      <4>1. Count(infos, i) = Pointers(i)
            BY <2>1, <3>2
      <4> QED
            BY <3>2, <4>1
    <3> QED
          BY <3>1, <3>2
  <2>2. ASSUME \A i \in Info \ DOMAIN infos : References(i) = {},
               \A i \in DOMAIN infos : infos[i].refcount = Cardinality(References(i)),
               NEW i \in Info
        PROVE  Count(infos, i) = Pointers(i)
    <3>1. CASE i \in DOMAIN infos
          BY <2>2, <3>1
    <3>2. CASE i \notin DOMAIN infos
      <4>1. Pointers(i) = 0
            BY <2>2, <3>2
      <4> QED
            BY <3>2, <4>1
    <3> QED
          BY <3>1, <3>2
  <2> QED
        BY <2>1, <2>2
<1> QED
      BY <1>5 DEF MemorySound, ConnsKept
-----------------------------------------------------------------------------
(* What the operations leave of the table of users *)

InfoRecord == [nick : Nick, refcount : Int, conn : Seq(Conn), active_state : ActiveState]
IsInfos(I) == DOMAIN I \subseteq Info /\ \A i \in DOMAIN I : I[i] \in InfoRecord

(* J has users of I, with their nicks and their connections.               *)
Keeps(I, J) ==
    /\ DOMAIN J \subseteq DOMAIN I
    /\ \A i \in DOMAIN J : J[i].nick = I[i].nick /\ J[i].conn = I[i].conn
SameStates(I, J) == \A i \in DOMAIN J : J[i].active_state = I[i].active_state

LEMMA KeepsTransitive ==
    ASSUME NEW I, NEW J, NEW K, Keeps(I, J), Keeps(J, K)
    PROVE  Keeps(I, K)
BY DEF Keeps

LEMMA ReleaseProperties ==
    ASSUME NEW I, IsInfos(I), NEW i
    PROVE  /\ IsInfos(Release(I, i))
           /\ Keeps(I, Release(I, i)) /\ SameStates(I, Release(I, i))
           /\ \A j : Count(Release(I, i), j) = Count(I, j) - One(j = i /\ i \in DOMAIN I)
<1>1. CASE i \notin DOMAIN I
  <2>1. Release(I, i) = I
        BY <1>1 DEF Release
  <2>2. \A j : Count(I, j) \in Int /\ One(j = i /\ i \in DOMAIN I) = 0
        BY <1>1 DEF Count, One, IsInfos, InfoRecord
  <2> QED
        BY <2>1, <2>2 DEF Keeps, SameStates
<1>2. CASE i \in DOMAIN I /\ I[i].refcount = 1
  <2>1. Release(I, i) = [y \in DOMAIN I \ {i} |-> I[y]]
        BY <1>2 DEF Release, Without
  <2> QED
        BY <1>2, <2>1 DEF IsInfos, InfoRecord, Keeps, SameStates, Count, One
<1>3. CASE i \in DOMAIN I /\ I[i].refcount # 1
  <2>1. Release(I, i) = [I EXCEPT ![i].refcount = @ - 1]
        BY <1>3 DEF Release
  <2>2. I[i] \in InfoRecord
        BY <1>3 DEF IsInfos
  <2>3. /\ DOMAIN Release(I, i) = DOMAIN I
        /\ \A j \in DOMAIN I \ {i} : Release(I, i)[j] = I[j]
        /\ Release(I, i)[i] = [I[i] EXCEPT !.refcount = @ - 1]
        BY <1>3, <2>1
  <2>4. /\ Release(I, i)[i] \in InfoRecord
        /\ Release(I, i)[i].nick = I[i].nick
        /\ Release(I, i)[i].conn = I[i].conn
        /\ Release(I, i)[i].active_state = I[i].active_state
        /\ Release(I, i)[i].refcount = I[i].refcount - 1
        BY <2>2, <2>3 DEF InfoRecord
  <2>5. IsInfos(Release(I, i)) /\ Keeps(I, Release(I, i)) /\ SameStates(I, Release(I, i))
        BY <1>3, <2>3, <2>4 DEF IsInfos, Keeps, SameStates
  <2>6. \A j : Count(I, j) \in Int
        BY DEF Count, IsInfos, InfoRecord
  <2>7. ASSUME NEW j
        PROVE  Count(Release(I, i), j) = Count(I, j) - One(j = i /\ i \in DOMAIN I)
    <3>1. CASE j = i
          BY <1>3, <2>3, <2>4, <3>1 DEF Count, One
    <3>2. CASE j # i
          BY <1>3, <2>3, <2>6, <3>2 DEF Count, One
    <3> QED
          BY <3>1, <3>2
  <2> QED
        BY <2>5, <2>7
<1> QED
      BY <1>1, <1>2, <1>3

LEMMA RetainProperties ==
    ASSUME NEW I, IsInfos(I), NEW i \in DOMAIN I
    PROVE  /\ IsInfos(Retain(I, i)) /\ DOMAIN Retain(I, i) = DOMAIN I
           /\ Keeps(I, Retain(I, i)) /\ SameStates(I, Retain(I, i))
           /\ \A j : Count(Retain(I, i), j) = Count(I, j) + One(j = i)
<1>1. Retain(I, i) = [I EXCEPT ![i].refcount = @ + 1]
      BY DEF Retain
<1>2. I[i] \in InfoRecord
      BY DEF IsInfos
<1>3. /\ DOMAIN Retain(I, i) = DOMAIN I
      /\ \A j \in DOMAIN I \ {i} : Retain(I, i)[j] = I[j]
      /\ Retain(I, i)[i] = [I[i] EXCEPT !.refcount = @ + 1]
      BY <1>1
<1>4. /\ Retain(I, i)[i] \in InfoRecord
      /\ Retain(I, i)[i].nick = I[i].nick
      /\ Retain(I, i)[i].conn = I[i].conn
      /\ Retain(I, i)[i].active_state = I[i].active_state
      /\ Retain(I, i)[i].refcount = I[i].refcount + 1
      BY <1>2, <1>3 DEF InfoRecord
<1>5. IsInfos(Retain(I, i)) /\ Keeps(I, Retain(I, i)) /\ SameStates(I, Retain(I, i))
      BY <1>3, <1>4 DEF IsInfos, Keeps, SameStates
<1>6. \A j : Count(I, j) \in Int
      BY DEF Count, IsInfos, InfoRecord
<1>7. ASSUME NEW j
      PROVE  Count(Retain(I, i), j) = Count(I, j) + One(j = i)
  <2>1. CASE j = i
        BY <1>3, <1>4, <2>1 DEF Count, One
  <2>2. CASE j # i
        BY <1>3, <1>6, <2>2 DEF Count, One
  <2> QED
        BY <2>1, <2>2
<1> QED
      BY <1>3, <1>5, <1>7

(* A change of what a user is asked for, and of the count.                 *)
SetState(I, i, state) == [I EXCEPT ![i].active_state = state]
SetCount(I, i, r) == [I EXCEPT ![i].refcount = r]

LEMMA StateProperties ==
    ASSUME NEW I, IsInfos(I), NEW i \in DOMAIN I, NEW state \in ActiveState,
           NEW J, J = SetState(I, i, state)
    PROVE  /\ IsInfos(J) /\ DOMAIN J = DOMAIN I /\ Keeps(I, J)
           /\ J[i].active_state = state
           /\ \A j \in DOMAIN I \ {i} : J[j].active_state = I[j].active_state
           /\ \A j : Count(J, j) = Count(I, j)
<1>1. I[i] \in InfoRecord
      BY DEF IsInfos
<1>2. /\ DOMAIN J = DOMAIN I
      /\ \A j \in DOMAIN I \ {i} : J[j] = I[j]
      /\ J[i] = [I[i] EXCEPT !.active_state = state]
      BY DEF SetState
<1>3. /\ J[i] \in InfoRecord
      /\ J[i].nick = I[i].nick
      /\ J[i].conn = I[i].conn
      /\ J[i].active_state = state
      /\ J[i].refcount = I[i].refcount
      BY <1>1, <1>2 DEF InfoRecord
<1>4. IsInfos(J) /\ Keeps(I, J)
      BY <1>2, <1>3 DEF IsInfos, Keeps
<1>5. \A j : Count(J, j) = Count(I, j)
      BY <1>2, <1>3 DEF Count
<1>6. \A j \in DOMAIN I \ {i} : J[j].active_state = I[j].active_state
      BY <1>2
<1> QED
      BY <1>2, <1>3, <1>4, <1>5, <1>6

(* Every user loses as many references as the table has of it, and is gone *)
(* when that were all.                                                     *)
LEMMA ReleaseAllProperties ==
    ASSUME NEW I, IsInfos(I), NEW f, IsFiniteSet(DOMAIN f),
           \A j \in Info : Held(f, j) <= Count(I, j)
    PROVE  /\ IsInfos(ReleaseAll(I, f))
           /\ Keeps(I, ReleaseAll(I, f)) /\ SameStates(I, ReleaseAll(I, f))
           /\ \A j \in Info : Count(ReleaseAll(I, f), j) = Count(I, j) - Held(f, j)
<1> DEFINE J == ReleaseAll(I, f)
<1>1. \A j : Held(f, j) \in Nat
      BY HeldNat
<1>2. /\ DOMAIN J = {j \in DOMAIN I : Held(f, j) = 0 \/ I[j].refcount > Held(f, j)}
      /\ \A j \in DOMAIN J : J[j] = [I[j] EXCEPT !.refcount = @ - Held(f, j)]
      BY DEF ReleaseAll
<1> HIDE DEF J
<1>3. ASSUME NEW j \in DOMAIN J
      PROVE  /\ j \in DOMAIN I
             /\ J[j] \in InfoRecord
             /\ J[j].nick = I[j].nick
             /\ J[j].conn = I[j].conn
             /\ J[j].active_state = I[j].active_state
             /\ J[j].refcount = I[j].refcount - Held(f, j)
  <2>1. j \in DOMAIN I /\ I[j] \in InfoRecord
        BY <1>2 DEF IsInfos
  <2>2. J[j] = [I[j] EXCEPT !.refcount = @ - Held(f, j)]
        BY <1>2
  <2> QED
        BY <1>1, <2>1, <2>2 DEF InfoRecord
<1>4. IsInfos(J) /\ Keeps(I, J) /\ SameStates(I, J)
      BY <1>3 DEF IsInfos, Keeps, SameStates
<1>5. ASSUME NEW j \in Info
      PROVE  Count(J, j) = Count(I, j) - Held(f, j)
  <2>1. Held(f, j) <= Count(I, j) /\ Held(f, j) \in Nat
        BY <1>1
  <2>2. CASE j \notin DOMAIN I
        BY <1>2, <2>1, <2>2 DEF Count
  <2>3. CASE j \in DOMAIN J
        BY <1>3, <2>3 DEF Count
  <2>4. CASE j \in DOMAIN I /\ j \notin DOMAIN J
    <3>1. I[j].refcount \in Int
          BY <2>4 DEF IsInfos, InfoRecord
    <3> QED
          BY <1>2, <2>1, <2>4, <3>1 DEF Count
  <2> QED
        BY <2>2, <2>3, <2>4
<1> QED
      BY <1>4, <1>5 DEF J
(* What an operation leaves of the hub and of the users, when they were I. *)
SoundOutcome(I, o) ==
    /\ IsInfos(o.infos) /\ Keeps(I, o.infos)
    /\ DOMAIN o.hub_users \subseteq DOMAIN hub_users
    /\ \A n \in DOMAIN o.hub_users : o.hub_users[n] = hub_users[n]
    /\ DOMAIN o.pending \subseteq Nick
    /\ \A n \in DOMAIN o.pending :
           /\ o.pending[n] \in Info
           /\ \/ n \in DOMAIN pending_userinfo /\ o.pending[n] = pending_userinfo[n]
              \/ o.pending[n] \in DOMAIN I /\ I[o.pending[n]].nick = n
    /\ IsFiniteSet(DOMAIN o.hub_users) /\ IsFiniteSet(DOMAIN o.pending)
    /\ o.logged_in \in BOOLEAN

(* The references that the two tables lose or win are lost or won by the   *)
(* counts.                                                                 *)
Balanced(I, o) ==
    \A j \in Info :
        Count(o.infos, j) - Held(o.hub_users, j) - Held(o.pending, j)
            = Count(I, j) - Held(hub_users, j) - Held(pending_userinfo, j)

(* The counts of I are not below the entries of the two tables.            *)
Covered(I) ==
    \A j \in Info : Held(hub_users, j) + Held(pending_userinfo, j) <= Count(I, j)

LEMMA EmptyHeld ==
    /\ DOMAIN Empty = {} /\ IsFiniteSet(DOMAIN Empty)
    /\ \A j : Held(Empty, j) = 0
<1>1. DOMAIN Empty = {}
      BY DEF Empty
<1>2. ASSUME NEW j
      PROVE  Held(Empty, j) = 0
  <2>1. {n \in DOMAIN Empty : Empty[n] = j} = {}
        BY <1>1
  <2> QED
        BY <2>1, FS_EmptySet DEF Held
<1> QED
      BY <1>1, <1>2, FS_EmptySet

LEMMA CountInt ==
    ASSUME NEW I, IsInfos(I), NEW j
    PROVE  Count(I, j) \in Int
BY DEF IsInfos, InfoRecord, Count

LEMMA DisconnectedOutcome ==
    ASSUME TypeOK, Finite, NEW I, IsInfos(I), Covered(I)
    PROVE  LET o == Disconnected(I)
           IN  /\ SoundOutcome(I, o) /\ Balanced(I, o)
               /\ o.hub_users = Empty /\ o.pending = Empty
<1> DEFINE J == ReleaseAll(I, hub_users)
           K == ReleaseAll(J, pending_userinfo)
           o == Disconnected(I)
<1>1. \A j : Held(hub_users, j) \in Nat /\ Held(pending_userinfo, j) \in Nat
      BY PointersNat
<1>2. \A j : Count(I, j) \in Int
      BY CountInt
<1>3. \A j \in Info : Held(hub_users, j) <= Count(I, j)
      BY <1>1, <1>2 DEF Covered
<1>4. /\ IsInfos(J) /\ Keeps(I, J)
      /\ \A j \in Info : Count(J, j) = Count(I, j) - Held(hub_users, j)
      BY <1>3, ReleaseAllProperties DEF Finite
<1>5. \A j \in Info : Held(pending_userinfo, j) <= Count(J, j)
      BY <1>1, <1>2, <1>4 DEF Covered
<1>6. /\ IsInfos(K) /\ Keeps(J, K)
      /\ \A j \in Info : Count(K, j) = Count(J, j) - Held(pending_userinfo, j)
  <2> HIDE DEF J
  <2> QED
        BY <1>4, <1>5, ReleaseAllProperties DEF Finite
<1>7. o.infos = K /\ o.hub_users = Empty /\ o.pending = Empty /\ o.logged_in = FALSE
      BY DEF Disconnected
<1> HIDE DEF J, K, o
<1>8. SoundOutcome(I, o)
      BY <1>4, <1>6, <1>7, KeepsTransitive, EmptyHeld DEF SoundOutcome
<1>9. Balanced(I, o)
  <2> SUFFICES ASSUME NEW j \in Info
               PROVE  Count(o.infos, j) - Held(o.hub_users, j) - Held(o.pending, j)
                          = Count(I, j) - Held(hub_users, j) - Held(pending_userinfo, j)
        BY DEF Balanced
  <2>1. Held(o.hub_users, j) = 0 /\ Held(o.pending, j) = 0
        BY <1>7, EmptyHeld
  <2> QED
        BY <1>1, <1>2, <1>4, <1>6, <1>7, <2>1
<1> QED
      BY <1>7, <1>8, <1>9 DEF o

(* hub_connect_user: nothing happens, or the hub is lost, or the user is   *)
(* one who is waited for.  Each reference is counted, unless another info  *)
(* of the nick was waited for.                                             *)
LEMMA ConnectOutcome ==
    ASSUME TypeOK, Finite, NEW I, IsInfos(I), Covered(I), NEW i \in DOMAIN I,
           NEW o \in Connect(I, i)
    PROVE  /\ SoundOutcome(I, o)
           /\ (I[i].nick \in DOMAIN pending_userinfo => pending_userinfo[I[i].nick] = i)
                  => Balanced(I, o)
           /\ \/ o.hub_users = Empty /\ o.pending = Empty
              \/ o.infos = I /\ o.hub_users = hub_users /\ o.pending = pending_userinfo
              \/ /\ o.hub_users = hub_users
                 /\ o.pending = With(pending_userinfo, I[i].nick, i)
                 /\ \A j \in DOMAIN o.infos \ {i} : o.infos[j].active_state = I[j].active_state
<1> DEFINE n == I[i].nick
           same == [infos |-> I, hub_users |-> hub_users,
                    pending |-> pending_userinfo, logged_in |-> logged_in]
           A == Asked(I, i)
           new == IF n \in DOMAIN pending_userinfo THEN A ELSE Retain(A, i)
           sent == [same EXCEPT !.infos = new, !.pending = With(pending_userinfo, n, i)]
<1>1. o = same \/ o = Disconnected(I) \/ o = sent
      BY DEF Connect
<1>2. i \in Info /\ n \in Nick
      BY DEF IsInfos, InfoRecord
<1>3. \A j : Held(hub_users, j) \in Nat /\ Held(pending_userinfo, j) \in Nat /\ Count(I, j) \in Int
      BY PointersNat, CountInt
<1>4. CASE o = same
  <2>1. o.infos = I /\ o.hub_users = hub_users /\ o.pending = pending_userinfo
            /\ o.logged_in = logged_in
        BY <1>4
  <2>2. SoundOutcome(I, o)
        BY <2>1 DEF SoundOutcome, Keeps, TypeOK, Finite
  <2>3. Balanced(I, o)
        BY <2>1 DEF Balanced
  <2> QED
        BY <2>1, <2>2, <2>3
<1>5. CASE o = Disconnected(I)
      BY <1>5, DisconnectedOutcome
<1>6. CASE o = sent
  <2>1. /\ o.infos = new /\ o.hub_users = hub_users
        /\ o.pending = With(pending_userinfo, n, i) /\ o.logged_in = logged_in
        BY <1>6
  <2>2. /\ IsInfos(A) /\ DOMAIN A = DOMAIN I /\ Keeps(I, A)
        /\ \A j \in DOMAIN I \ {i} : A[j].active_state = I[j].active_state
        /\ \A j : Count(A, j) = Count(I, j)
    <3> DEFINE state == IF is_active THEN "SENT_ACTIVE" ELSE "SENT_PASSIVE"
    <3>1. state \in ActiveState
          BY DEF ActiveState
    <3>2. A = SetState(I, i, state)
          BY DEF Asked, SetState
    <3> HIDE DEF state, A, n, same
    <3> QED
          BY <3>1, <3>2, StateProperties
  <2> HIDE DEF A
  <2>3. /\ IsInfos(new) /\ DOMAIN new = DOMAIN I /\ Keeps(I, new)
        /\ \A j \in DOMAIN I \ {i} : new[j].active_state = I[j].active_state
        /\ \A j : Count(new, j) = Count(I, j) + One(n \notin DOMAIN pending_userinfo /\ j = i)
    <3>1. CASE n \in DOMAIN pending_userinfo
      <4>1. \A j : One(n \notin DOMAIN pending_userinfo /\ j = i) = 0
            BY <3>1 DEF One
      <4> QED
            BY <1>3, <2>2, <3>1, <4>1
    <3>2. CASE n \notin DOMAIN pending_userinfo
      <4>1. new = Retain(A, i)
            BY <3>2
      <4>2. /\ IsInfos(Retain(A, i)) /\ DOMAIN Retain(A, i) = DOMAIN A
            /\ Keeps(A, Retain(A, i)) /\ SameStates(A, Retain(A, i))
            /\ \A j : Count(Retain(A, i), j) = Count(A, j) + One(j = i)
            BY <2>2, RetainProperties
      <4>3. \A j : One(n \notin DOMAIN pending_userinfo /\ j = i) = One(j = i)
            BY <3>2 DEF One
      <4>4. Keeps(I, Retain(A, i))
            BY <2>2, <4>2, KeepsTransitive
      <4> HIDE DEF new, n
      <4> QED
            BY <2>2, <4>1, <4>2, <4>3, <4>4 DEF SameStates
    <3> QED
          BY <3>1, <3>2
  <2> HIDE DEF new
  <2>4. \A j : Held(o.pending, j) = Held(pending_userinfo, j)
                   - One(n \in DOMAIN pending_userinfo /\ pending_userinfo[n] = j) + One(i = j)
        BY <2>1, WithHeld DEF Finite
  <2>5. SoundOutcome(I, o)
    <3>1. IsFiniteSet(DOMAIN o.pending)
      <4>1. IsFiniteSet(DOMAIN With(pending_userinfo, n, i))
            BY WithHeld DEF Finite
      <4> QED
            BY <2>1, <4>1
    <3>2. /\ DOMAIN o.pending = DOMAIN pending_userinfo \cup {n}
          /\ o.pending[n] = i
          /\ \A m \in DOMAIN o.pending : m # n => o.pending[m] = pending_userinfo[m]
          BY <2>1 DEF With
    <3>3. DOMAIN o.pending \subseteq Nick
          BY <1>2, <3>2 DEF TypeOK
    <3>4. ASSUME NEW m \in DOMAIN o.pending
          PROVE  /\ o.pending[m] \in Info
                 /\ \/ m \in DOMAIN pending_userinfo /\ o.pending[m] = pending_userinfo[m]
                    \/ o.pending[m] \in DOMAIN I /\ I[o.pending[m]].nick = m
          BY <1>2, <3>2 DEF TypeOK
    <3> HIDE DEF n
    <3> QED
          BY <2>1, <2>3, <3>1, <3>3, <3>4 DEF SoundOutcome, TypeOK, Finite
  <2>6. ASSUME n \in DOMAIN pending_userinfo => pending_userinfo[n] = i
        PROVE  Balanced(I, o)
    <3> SUFFICES ASSUME NEW j \in Info
                 PROVE  Count(o.infos, j) - Held(o.hub_users, j) - Held(o.pending, j)
                            = Count(I, j) - Held(hub_users, j) - Held(pending_userinfo, j)
          BY DEF Balanced
    <3>1. One(n \notin DOMAIN pending_userinfo /\ j = i)
              = One(i = j) - One(n \in DOMAIN pending_userinfo /\ pending_userinfo[n] = j)
          BY <2>6 DEF One
    <3>2. One(i = j) \in Int /\ One(n \in DOMAIN pending_userinfo /\ pending_userinfo[n] = j) \in Int
          BY DEF One
    <3>3. Count(o.infos, j) = Count(I, j) + One(n \notin DOMAIN pending_userinfo /\ j = i)
          BY <2>1, <2>3
    <3>4. Held(o.hub_users, j) = Held(hub_users, j)
          BY <2>1
    <3>5. Held(o.pending, j) = Held(pending_userinfo, j)
                   - One(n \in DOMAIN pending_userinfo /\ pending_userinfo[n] = j) + One(i = j)
          BY <2>4
    <3>6. Held(hub_users, j) \in Nat /\ Held(pending_userinfo, j) \in Nat /\ Count(I, j) \in Int
          BY <1>3
    <3> HIDE DEF n
    <3> QED
          BY <3>1, <3>2, <3>3, <3>4, <3>5, <3>6
  <2> QED
        BY <2>1, <2>3, <2>5, <2>6
<1> QED
      BY <1>1, <1>4, <1>5, <1>6
-----------------------------------------------------------------------------
(* Steps that leave the connections alone *)

(* What the tables, the connections, browse and the responses point to.    *)
Reachable ==
    /\ \A n \in DOMAIN hub_users : hub_users[n] \in DOMAIN infos
    /\ \A n \in DOMAIN pending_userinfo : pending_userinfo[n] \in DOMAIN infos
    /\ \A c \in DOMAIN uconn : uconn[c].info # NoInfo => uconn[c].info \in DOMAIN infos
    /\ browse_user # NoInfo => browse_user \in DOMAIN infos
    /\ responses \subseteq DOMAIN infos

LEMMA MemoryReachable ==
    TypeOK /\ MemorySound => Reachable
<1> SUFFICES ASSUME TypeOK, MemorySound
             PROVE  Reachable
      OBVIOUS
<1>1. \A i \in Info : References(i) # {} => i \in DOMAIN infos
      BY DEF MemorySound
<1>2. ASSUME NEW n \in DOMAIN hub_users
      PROVE  hub_users[n] \in DOMAIN infos
  <2>1. hub_users[n] \in Info
        BY DEF TypeOK
  <2>2. <<"hub", n>> \in References(hub_users[n])
        BY DEF References
  <2> QED
        BY <1>1, <2>1, <2>2
<1>3. ASSUME NEW n \in DOMAIN pending_userinfo
      PROVE  pending_userinfo[n] \in DOMAIN infos
  <2>1. pending_userinfo[n] \in Info
        BY DEF TypeOK
  <2>2. <<"pending", n>> \in References(pending_userinfo[n])
        BY DEF References
  <2> QED
        BY <1>1, <2>1, <2>2
<1>4. ASSUME NEW c \in DOMAIN uconn, uconn[c].info # NoInfo
      PROVE  uconn[c].info \in DOMAIN infos
  <2>1. uconn[c].info \in Info
        BY <1>4 DEF TypeOK
  <2>2. <<"conn", c>> \in References(uconn[c].info)
        BY DEF References
  <2> QED
        BY <1>1, <2>1, <2>2
<1>5. ASSUME browse_user # NoInfo
      PROVE  browse_user \in DOMAIN infos
  <2>1. browse_user \in Info
        BY <1>5 DEF TypeOK
  <2>2. <<"browse", browse_user>> \in References(browse_user)
        BY DEF References
  <2> QED
        BY <1>1, <2>1, <2>2
<1>6. ASSUME NEW i \in responses
      PROVE  i \in DOMAIN infos
  <2>1. i \in Info
        BY DEF TypeOK
  <2>2. <<"response", i>> \in References(i)
        BY DEF References
  <2> QED
        BY <1>1, <2>1, <2>2
<1> QED
      BY <1>2, <1>3, <1>4, <1>5, <1>6 DEF Reachable

LEMMA InfosAre ==
    TypeOK => IsInfos(infos)
BY DEF TypeOK, IsInfos, InfoRecord

LEMMA InfosCovered ==
    TypeOK /\ Finite /\ MemorySound => Covered(infos)
<1> SUFFICES ASSUME TypeOK, Finite, MemorySound, NEW j \in Info
             PROVE  Held(hub_users, j) + Held(pending_userinfo, j) <= Count(infos, j)
      BY DEF Covered
<1>1. Count(infos, j) = Pointers(j)
      BY MemoryParts DEF CountsExact
<1> QED
      BY <1>1, PointersNat DEF Pointers

(* No user is added, and a table wins no entry but one of the user's own   *)
(* nick.                                                                   *)
PastGrows == past \subseteq past' /\ past' \subseteq {"returned", "cut off"}
HubFrame ==
    /\ IsInfos(infos') /\ Keeps(infos, infos')
    /\ DOMAIN hub_users' \subseteq DOMAIN hub_users
    /\ \A n \in DOMAIN hub_users' : hub_users'[n] = hub_users[n]
    /\ DOMAIN pending_userinfo' \subseteq Nick
    /\ \A n \in DOMAIN pending_userinfo' :
           /\ pending_userinfo'[n] \in Info
           /\ \/ n \in DOMAIN pending_userinfo /\ pending_userinfo'[n] = pending_userinfo[n]
              \/ /\ pending_userinfo'[n] \in DOMAIN infos
                 /\ infos[pending_userinfo'[n]].nick = n
    /\ IsFiniteSet(DOMAIN hub_users') /\ IsFiniteSet(DOMAIN pending_userinfo')
    /\ browse_user' \in Info \cup {NoInfo}
    /\ responses' \subseteq Info /\ IsFiniteSet(responses')
    /\ logged_in' \in BOOLEAN /\ is_active' \in BOOLEAN
    /\ PastGrows

(* The connections keep their users, and have the names that these give.   *)
ConnFrame ==
    /\ DOMAIN uconn' = DOMAIN uconn
    /\ \A c \in DOMAIN uconn :
           /\ uconn'[c] \in [name : Name, info : Info \cup {NoInfo}, dir : Dir]
           /\ uconn'[c].info = uconn[c].info
           /\ \/ uconn'[c] = uconn[c]
              \/ /\ uconn[c].info # NoInfo
                 /\ uconn'[c].name = Named(infos[uconn[c].info].nick, uconn'[c].dir)
    /\ DOMAIN user_conns' \subseteq Name
    /\ KeysAreNames'
    /\ refused' \subseteq DOMAIN uconn

Frame == HubFrame /\ UNCHANGED <<user_conns, uconn, refused>>

LEMMA NamedStep ==
    ASSUME Inv, MemorySound, HubFrame, ConnFrame,
           past' = {} => \A j \in Info : Count(infos', j) = Pointers(j)',
           past' = {} /\ Reachable' => Awaited'
    PROVE  Inv'
<1> USE DEF Inv, HubFrame, ConnFrame, PastGrows
<1>1. TypeOK'
      BY DEF TypeOK, IsInfos, InfoRecord
<1>2. Finite'
      BY DEF Finite
<1>3. KeysAreNames'
      OBVIOUS
<1>4. MemorySound' => Reachable'
      BY <1>1, MemoryReachable, PTL
<1>5. (MemorySound <=> CountsExact /\ ConnsKept)'
      BY <1>1, <1>2, MemoryParts, PTL
<1>6. ConnsKept
      BY MemoryParts
<1>7. ConnsKept'
      BY <1>6 DEF ConnsKept, Keeps
<1>8. ASSUME MemorySound'
      PROVE  ConnsListed'
  <2>1. ASSUME NEW c \in DOMAIN uconn', uconn'[c].info # NoInfo
        PROVE  c \in Elements(infos'[uconn'[c].info].conn)
    <3>1. c \in DOMAIN uconn /\ uconn'[c].info = uconn[c].info
          OBVIOUS
    <3>2. uconn'[c].info \in DOMAIN infos'
          BY <1>4, <1>8, <2>1 DEF Reachable
    <3>3. infos'[uconn[c].info].conn = infos[uconn[c].info].conn
          BY <3>1, <3>2 DEF Keeps
    <3>4. c \in Elements(infos[uconn[c].info].conn)
          BY <2>1, <3>1 DEF ConnsListed
    <3> QED
          BY <3>1, <3>3, <3>4
  <2> QED
        BY <2>1 DEF ConnsListed
<1>9. ASSUME MemorySound', "returned" \notin past'
      PROVE  Tidy'
  <2>1. Tidy
        BY <1>9
  <2>2. Reachable'
        BY <1>4, <1>9
  <2>3. NicksMatch'
    <3>1. NicksMatch
          BY <2>1 DEF Tidy
    <3>2. ASSUME NEW n \in DOMAIN hub_users'
          PROVE  infos'[hub_users'[n]].nick = n
      <4>1. hub_users'[n] \in DOMAIN infos'
            BY <2>2 DEF Reachable
      <4>2. infos'[hub_users'[n]].nick = infos[hub_users'[n]].nick
            BY <4>1 DEF Keeps
      <4>3. infos[hub_users[n]].nick = n /\ hub_users'[n] = hub_users[n]
            BY <3>1 DEF NicksMatch
      <4> QED
            BY <4>2, <4>3
    <3>3. ASSUME NEW n \in DOMAIN pending_userinfo'
          PROVE  infos'[pending_userinfo'[n]].nick = n
      <4>1. pending_userinfo'[n] \in DOMAIN infos'
            BY <2>2 DEF Reachable
      <4>2. infos'[pending_userinfo'[n]].nick = infos[pending_userinfo'[n]].nick
            BY <4>1 DEF Keeps
      <4>3. infos[pending_userinfo'[n]].nick = n
            BY <3>1 DEF NicksMatch
      <4> QED
            BY <4>2, <4>3
    <3>4. \A i, j \in DOMAIN infos' : infos'[i].nick = infos'[j].nick => i = j
          BY <3>1 DEF NicksMatch, Keeps
    <3> QED
          BY <3>2, <3>3, <3>4 DEF NicksMatch
  <2>4. NamesMatch'
    <3>1. NamesMatch
          BY <2>1 DEF Tidy
    <3>2. ASSUME NEW c \in DOMAIN uconn'
          PROVE  IF uconn'[c].info = NoInfo
                 THEN uconn'[c].name = c /\ uconn'[c].dir = "unknown"
                 ELSE uconn'[c].name = Named(infos'[uconn'[c].info].nick, uconn'[c].dir)
      <4>1. CASE uconn[c].info = NoInfo
            BY <3>1, <4>1 DEF NamesMatch
      <4>2. CASE uconn[c].info # NoInfo
        <5>1. uconn[c].info \in DOMAIN infos'
              BY <2>2, <4>2 DEF Reachable
        <5>2. infos'[uconn[c].info].nick = infos[uconn[c].info].nick
              BY <5>1 DEF Keeps
        <5>3. uconn'[c].name = Named(infos[uconn[c].info].nick, uconn'[c].dir)
              BY <3>1, <4>2 DEF NamesMatch
        <5> QED
              BY <4>2, <5>2, <5>3
      <4> QED
            BY <4>1, <4>2
    <3> QED
          BY <3>2 DEF NamesMatch
  <2>5. ConnsMatch'
    <3>1. ConnsMatch
          BY <2>1 DEF Tidy
    <3>2. ConnsKept
          BY MemoryParts
    <3>3. ASSUME NEW i \in DOMAIN infos'
          PROVE  /\ \A k, m \in 1..Len(infos'[i].conn) :
                        infos'[i].conn[k] = infos'[i].conn[m] => k = m
                 /\ \A c \in Elements(infos'[i].conn) : uconn'[c].info = i
      <4>1. i \in DOMAIN infos /\ infos'[i].conn = infos[i].conn
            BY DEF Keeps
      <4>2. Elements(infos[i].conn) \subseteq DOMAIN uconn
            BY <3>2, <4>1 DEF ConnsKept
      <4>3. \A c \in Elements(infos[i].conn) : uconn[c].info = i
            BY <3>1, <4>1 DEF ConnsMatch
      <4>4. \A c \in DOMAIN uconn : uconn'[c].info = uconn[c].info
            OBVIOUS
      <4>5. \A k, m \in 1..Len(infos[i].conn) : infos[i].conn[k] = infos[i].conn[m] => k = m
            BY <3>1, <4>1 DEF ConnsMatch
      <4> HIDE DEF ConnFrame, HubFrame, Inv, PastGrows
      <4> QED
            BY <4>1, <4>2, <4>3, <4>4, <4>5
    <3> QED
          BY <3>3 DEF ConnsMatch
  <2> QED
        BY <2>3, <2>4, <2>5 DEF Tidy
<1>10. ASSUME past' = {}
       PROVE  MemorySound' /\ Awaited'
  <2>1. CountsExact'
        BY <1>10 DEF CountsExact
  <2>2. MemorySound'
        BY <1>5, <1>7, <2>1
  <2> QED
        BY <1>4, <1>10, <2>2
<1> QED
      BY <1>1, <1>2, <1>3, <1>8, <1>9, <1>10

LEMMA FrameStep ==
    ASSUME Inv, MemorySound, Frame,
           past' = {} => \A j \in Info : Count(infos', j) = Pointers(j)',
           past' = {} /\ Reachable' => Awaited'
    PROVE  Inv'
<1>1. ConnFrame
      BY DEF Inv, TypeOK, KeysAreNames, Frame, ConnFrame
<1> QED
      BY <1>1, NamedStep DEF Frame

(* Nobody is sent a request.                                               *)
LEMMA AwaitedKept ==
    ASSUME Awaited, Reachable', Keeps(infos, infos'),
           DOMAIN pending_userinfo' = DOMAIN pending_userinfo,
           \A n \in DOMAIN pending_userinfo : pending_userinfo'[n] = pending_userinfo[n],
           DOMAIN hub_users' \subseteq DOMAIN hub_users,
           \A n \in DOMAIN hub_users' : hub_users'[n] = hub_users[n],
           \A i \in DOMAIN infos' :
               infos'[i].active_state \in Sent => infos[i].active_state \in Sent
    PROVE  Awaited'
<1>1. ASSUME NEW n \in DOMAIN hub_users', infos'[hub_users'[n]].active_state \in Sent
      PROVE  n \in DOMAIN pending_userinfo' /\ pending_userinfo'[n] = hub_users'[n]
      BY <1>1 DEF Awaited, Reachable
<1>2. ASSUME NEW n \in DOMAIN pending_userinfo'
      PROVE  HasRoom(pending_userinfo[n])'
      BY DEF Awaited, Reachable, HasRoom, Keeps
<1> QED
      BY <1>1, <1>2 DEF Awaited
-----------------------------------------------------------------------------
(* The initial state *)

LEMMA InitInv ==
    Init => Inv
<1> SUFFICES ASSUME Init
             PROVE  Inv
      OBVIOUS
<1>1. DOMAIN Empty = {} /\ IsFiniteSet({}) /\ \A j : Held(Empty, j) = 0
      BY EmptyHeld, FS_EmptySet
<1>2. /\ user_conns = Empty /\ uconn = Empty /\ infos = Empty /\ hub_users = Empty
      /\ pending_userinfo = Empty /\ browse_user = NoInfo /\ responses = {} /\ refused = {}
      /\ logged_in = FALSE /\ is_active \in BOOLEAN /\ past = {}
      BY DEF Init
<1> HIDE DEF Empty
<1>3. TypeOK /\ Finite /\ KeysAreNames
      BY <1>1, <1>2 DEF TypeOK, Finite, KeysAreNames
<1>4. MemorySound
  <2>1. ASSUME NEW i \in Info
        PROVE  References(i) = {}
        BY <1>1, <1>2, UserConnsAssumption DEF References
  <2> QED
        BY <1>1, <1>2, <2>1 DEF MemorySound
<1>5. ConnsListed /\ Tidy /\ Awaited
      BY <1>1, <1>2 DEF ConnsListed, Tidy, NicksMatch, NamesMatch, ConnsMatch, Awaited
<1> QED
      BY <1>3, <1>4, <1>5 DEF Inv

-----------------------------------------------------------------------------
(* The steps *)

(* What a step may start from.                                             *)
LEMMA Starting ==
    ASSUME Inv, MemorySound
    PROVE  /\ TypeOK /\ Finite /\ KeysAreNames
           /\ IsInfos(infos) /\ Covered(infos) /\ Keeps(infos, infos)
           /\ Reachable /\ CountsExact /\ ConnsKept /\ ConnsListed
           /\ "returned" \notin past => Tidy
           /\ past = {} => Tidy /\ Awaited
           /\ \A j : Count(infos, j) \in Int
           /\ \A j : /\ Held(hub_users, j) \in Nat /\ Held(pending_userinfo, j) \in Nat
                     /\ Joined(uconn, j) \in Nat
<1>1. TypeOK /\ Finite /\ KeysAreNames
      BY DEF Inv
<1>2. IsInfos(infos) /\ Covered(infos) /\ Keeps(infos, infos)
      BY <1>1, InfosAre, InfosCovered DEF Keeps
<1>3. Reachable /\ CountsExact /\ ConnsKept
      BY <1>1, MemoryReachable, MemoryParts
<1>4. \A j : Count(infos, j) \in Int
      BY <1>2, CountInt
<1>5. \A j : /\ Held(hub_users, j) \in Nat /\ Held(pending_userinfo, j) \in Nat
             /\ Joined(uconn, j) \in Nat
      BY <1>1, PointersNat
<1>6. /\ ConnsListed
      /\ "returned" \notin past => Tidy
      /\ past = {} => Tidy /\ Awaited
      BY DEF Inv
<1> QED
      BY <1>1, <1>2, <1>3, <1>4, <1>5, <1>6

LEMMA OutcomeOf ==
    ASSUME NEW I, NEW o, SoundOutcome(I, o), Keeps(infos, I)
    PROVE  SoundOutcome(infos, o)
<1>1. Keeps(infos, o.infos)
      BY KeepsTransitive DEF SoundOutcome
<1> QED
      BY <1>1 DEF SoundOutcome, Keeps

(* A step that only changes what the hub knows.                            *)
LEMMA OutcomeStep ==
    ASSUME Inv, MemorySound, NEW o, SoundOutcome(infos, o), SetHub(o),
           past = {} => Balanced(infos, o),
           past = {} /\ Reachable' => Awaited',
           UNCHANGED <<user_conns, uconn, refused, browse_user, responses, is_active, past>>
    PROVE  Inv'
<1>1. /\ TypeOK /\ Finite /\ CountsExact
      /\ \A j : /\ Held(hub_users, j) \in Nat /\ Held(pending_userinfo, j) \in Nat
                /\ Joined(uconn, j) \in Nat /\ Count(infos, j) \in Int
      BY Starting
<1>2. Frame
      BY <1>1 DEF Frame, HubFrame, PastGrows, SoundOutcome, SetHub, TypeOK, Finite
<1>3. ASSUME past' = {}, NEW j \in Info
      PROVE  Count(infos', j) = Pointers(j)'
  <2>1. Count(infos', j) - Held(hub_users', j) - Held(pending_userinfo', j)
            = Count(infos, j) - Held(hub_users, j) - Held(pending_userinfo, j)
        BY <1>3 DEF Balanced, SetHub
  <2>2. Count(infos, j) = Pointers(j)
        BY <1>1 DEF CountsExact
  <2>3. Joined(uconn', j) = Joined(uconn, j)
        OBVIOUS
  <2>4. Held(hub_users', j) \in Nat /\ Held(pending_userinfo', j) \in Nat
        BY <1>2, HeldNat DEF Frame, HubFrame
  <2>5. Count(infos', j) \in Int
        BY <1>2, CountInt DEF Frame, HubFrame
  <2>6. One(browse_user = j) \in Int /\ One(j \in responses) \in Int
        BY DEF One
  <2> QED
        BY <1>1, <2>1, <2>2, <2>3, <2>4, <2>5, <2>6 DEF Pointers
<1> QED
      BY <1>2, <1>3, FrameStep

(* A request that is sent is entered into the table of those who are       *)
(* waited for, and is only sent to a user who has room.                    *)
LEMMA ConnectAwaited ==
    ASSUME TypeOK, Finite, Reachable, Tidy, Awaited,
           NEW I, IsInfos(I), Covered(I), Keeps(infos, I),
           \A j \in DOMAIN I : I[j].active_state \in Sent => infos[j].active_state \in Sent,
           NEW i \in DOMAIN I, HasRoom(i), NEW o \in Connect(I, i),
           Keeps(o.infos, infos'), SameStates(o.infos, infos'),
           hub_users' = o.hub_users, pending_userinfo' = o.pending,
           Reachable'
    PROVE  Awaited'
<1> DEFINE m == I[i].nick
<1>1. /\ SoundOutcome(I, o)
      /\ \/ o.hub_users = Empty /\ o.pending = Empty
         \/ o.infos = I /\ o.hub_users = hub_users /\ o.pending = pending_userinfo
         \/ /\ o.hub_users = hub_users
            /\ o.pending = With(pending_userinfo, m, i)
            /\ \A j \in DOMAIN o.infos \ {i} : o.infos[j].active_state = I[j].active_state
      BY ConnectOutcome
<1>2. Keeps(infos, infos') /\ Keeps(infos, o.infos)
      BY <1>1, KeepsTransitive DEF SoundOutcome
<1>3. CASE o.hub_users = Empty /\ o.pending = Empty
      BY <1>3, EmptyHeld DEF Awaited
<1>4. CASE o.infos = I /\ o.hub_users = hub_users /\ o.pending = pending_userinfo
  <2>1. \A j \in DOMAIN infos' :
            infos'[j].active_state \in Sent => infos[j].active_state \in Sent
        BY <1>2, <1>4 DEF SameStates, Keeps
  <2> QED
        BY <1>2, <1>4, <2>1, AwaitedKept
<1>5. CASE /\ o.hub_users = hub_users
           /\ o.pending = With(pending_userinfo, m, i)
           /\ \A j \in DOMAIN o.infos \ {i} : o.infos[j].active_state = I[j].active_state
  <2>1. /\ DOMAIN pending_userinfo' = DOMAIN pending_userinfo \cup {m}
        /\ pending_userinfo'[m] = i
        /\ \A n \in DOMAIN pending_userinfo \ {m} : pending_userinfo'[n] = pending_userinfo[n]
        BY <1>5 DEF With
  <2>2. i \in DOMAIN infos /\ m = infos[i].nick
        BY DEF Keeps
  <2>3. ASSUME NEW n \in DOMAIN hub_users', infos'[hub_users'[n]].active_state \in Sent
        PROVE  n \in DOMAIN pending_userinfo' /\ pending_userinfo'[n] = hub_users'[n]
    <3> DEFINE h == hub_users[n]
    <3>1. n \in DOMAIN hub_users /\ hub_users'[n] = h
          BY <1>5
    <3>2. h \in DOMAIN infos /\ infos[h].nick = n /\ h \in DOMAIN infos'
          BY <3>1 DEF Reachable, Tidy, NicksMatch
    <3>3. CASE h = i
          BY <2>1, <2>2, <3>1, <3>2, <3>3
    <3>4. CASE h # i
      <4>1. n # m
            BY <2>2, <3>2, <3>4 DEF Tidy, NicksMatch
      <4>2. h \in DOMAIN o.infos /\ h \in DOMAIN I
            BY <1>1, <3>2 DEF Keeps, SoundOutcome
      <4>3. infos'[h].active_state = I[h].active_state
            BY <1>5, <3>2, <3>4, <4>2 DEF SameStates
      <4>4. infos[h].active_state \in Sent
            BY <2>3, <3>1, <4>2, <4>3
      <4> QED
            BY <2>1, <3>1, <4>1, <4>4 DEF Awaited
    <3> QED
          BY <3>3, <3>4
  <2>4. ASSUME NEW n \in DOMAIN pending_userinfo'
        PROVE  HasRoom(pending_userinfo[n])'
    <3>1. pending_userinfo'[n] \in DOMAIN infos'
          BY DEF Reachable
    <3>2. HasRoom(pending_userinfo'[n])
          BY <2>1 DEF Awaited
    <3> QED
          BY <1>2, <3>1, <3>2 DEF HasRoom, Keeps
  <2> QED
        BY <2>3, <2>4 DEF Awaited
<1> QED
      BY <1>1, <1>3, <1>4, <1>5
(* A step that changes the infos, browse_user and the responses only: the  *)
(* counts follow the pointers, and nobody is sent a request.               *)
LEMMA UsersStep ==
    ASSUME Inv, MemorySound, IsInfos(infos'), Keeps(infos, infos'),
           browse_user' \in Info \cup {NoInfo},
           responses' \subseteq Info, IsFiniteSet(responses'),
           \A i \in DOMAIN infos' :
               infos'[i].active_state \in Sent => infos[i].active_state \in Sent,
           \A j \in Info : Count(infos', j) - One(browse_user' = j) - One(j \in responses')
                               = Count(infos, j) - One(browse_user = j) - One(j \in responses),
           UNCHANGED <<user_conns, uconn, refused, hub_users, pending_userinfo>>,
           logged_in' \in BOOLEAN, is_active' \in BOOLEAN, past' = past
    PROVE  Inv'
<1>1. /\ TypeOK /\ Finite /\ CountsExact
      /\ past = {} => Awaited
      /\ \A j : /\ Held(hub_users, j) \in Nat /\ Held(pending_userinfo, j) \in Nat
                /\ Joined(uconn, j) \in Nat /\ Count(infos, j) \in Int
      BY Starting
<1>2. Frame
      BY <1>1 DEF Frame, HubFrame, PastGrows, TypeOK, Finite
<1>3. ASSUME NEW j \in Info
      PROVE  Count(infos', j) = Pointers(j)'
  <2>1. Count(infos, j) = Pointers(j)
        BY <1>1 DEF CountsExact
  <2>2. /\ Joined(uconn', j) = Joined(uconn, j)
        /\ Held(hub_users', j) = Held(hub_users, j)
        /\ Held(pending_userinfo', j) = Held(pending_userinfo, j)
        OBVIOUS
  <2>3. Count(infos', j) \in Int
        BY CountInt
  <2>4. /\ One(browse_user = j) \in Int /\ One(j \in responses) \in Int
        /\ One(browse_user' = j) \in Int /\ One(j \in responses') \in Int
        BY DEF One
  <2> QED
        BY <1>1, <2>1, <2>2, <2>3, <2>4 DEF Pointers
<1>4. past' = {} /\ Reachable' => Awaited'
      BY <1>1, AwaitedKept
<1> QED
      BY <1>2, <1>3, <1>4, FrameStep

LEMMA HubLoginStep ==
    ASSUME Inv, MemorySound, HubLogin
    PROVE  Inv'
<1>1. TypeOK /\ Finite /\ IsInfos(infos) /\ Keeps(infos, infos)
      BY Starting
<1> QED
      BY <1>1, UsersStep DEF HubLogin, TypeOK, Finite

LEMMA SetActiveStep ==
    ASSUME Inv, MemorySound, SetActive
    PROVE  Inv'
<1>1. TypeOK /\ Finite /\ IsInfos(infos) /\ Keeps(infos, infos)
      BY Starting
<1> QED
      BY <1>1, UsersStep DEF SetActive, TypeOK, Finite, hubVars

LEMMA MyINFOStep ==
    ASSUME Inv, MemorySound, NEW n \in Nick, MyINFO(n)
    PROVE  Inv'
<1> DEFINE i == hub_users[n]
<1>1. TypeOK /\ Finite /\ IsInfos(infos) /\ Reachable
      BY Starting
<1>2. i \in DOMAIN infos
      BY <1>1 DEF MyINFO, Reachable
<1>3. "UNKNOWN" \in ActiveState /\ "UNKNOWN" \notin Sent
      BY DEF ActiveState, Sent
<1>4. infos' = SetState(infos, i, "UNKNOWN")
      BY DEF MyINFO, SetState
<1> HIDE DEF i
<1>5. /\ IsInfos(infos') /\ DOMAIN infos' = DOMAIN infos /\ Keeps(infos, infos')
      /\ infos'[i].active_state = "UNKNOWN"
      /\ \A j \in DOMAIN infos \ {i} : infos'[j].active_state = infos[j].active_state
      /\ \A j : Count(infos', j) = Count(infos, j)
      BY <1>1, <1>2, <1>3, <1>4, StateProperties
<1>6. \A j \in DOMAIN infos' : infos'[j].active_state \in Sent => infos[j].active_state \in Sent
      BY <1>3, <1>5
<1> QED
      BY <1>1, <1>5, <1>6, UsersStep DEF MyINFO, TypeOK, Finite, hubVars

LEMMA BrowseNoneStep ==
    ASSUME Inv, MemorySound, BrowseNone
    PROVE  Inv'
<1> DEFINE i == browse_user
<1>1. TypeOK /\ Finite /\ IsInfos(infos) /\ Reachable /\ \A j : Count(infos, j) \in Int
      BY Starting
<1>2. i \in DOMAIN infos /\ i # NoInfo /\ browse_user' = NoInfo /\ infos' = Release(infos, i)
      BY <1>1 DEF BrowseNone, Reachable
<1>3. /\ IsInfos(infos') /\ Keeps(infos, infos') /\ SameStates(infos, infos')
      /\ \A j : Count(infos', j) = Count(infos, j) - One(j = i /\ i \in DOMAIN infos)
      BY <1>1, <1>2, ReleaseProperties
<1>4. ASSUME NEW j \in Info
      PROVE  Count(infos', j) - One(browse_user' = j) - One(j \in responses')
                 = Count(infos, j) - One(browse_user = j) - One(j \in responses)
  <2>1. One(j = i /\ i \in DOMAIN infos) = One(browse_user = j) /\ One(browse_user' = j) = 0
        BY <1>2, UserConnsAssumption DEF One
  <2>2. responses' = responses
        BY DEF BrowseNone
  <2>3. One(browse_user = j) \in Int /\ One(j \in responses) \in Int
        BY DEF One
  <2> HIDE DEF i
  <2> QED
        BY <1>1, <1>3, <2>1, <2>2, <2>3
<1>5. \A j \in DOMAIN infos' : infos'[j].active_state \in Sent => infos[j].active_state \in Sent
      BY <1>3 DEF SameStates
<1> QED
      BY <1>1, <1>2, <1>3, <1>4, <1>5, UsersStep DEF BrowseNone, TypeOK, Finite, hubVars

LEMMA HandleSearchResultStep ==
    ASSUME Inv, MemorySound, NEW n \in Nick, HandleSearchResult(n)
    PROVE  Inv'
<1> DEFINE i == hub_users[n]
<1>1. TypeOK /\ Finite /\ IsInfos(infos) /\ Reachable /\ \A j : Count(infos, j) \in Int
      BY Starting
<1>2. /\ i \in DOMAIN infos /\ i \in Info /\ i \notin responses
      /\ responses' = responses \cup {i} /\ infos' = Retain(infos, i)
      BY <1>1 DEF HandleSearchResult, Reachable, TypeOK
<1>3. /\ IsInfos(infos') /\ Keeps(infos, infos') /\ SameStates(infos, infos')
      /\ \A j : Count(infos', j) = Count(infos, j) + One(j = i)
      BY <1>1, <1>2, RetainProperties
<1>4. ASSUME NEW j \in Info
      PROVE  Count(infos', j) - One(browse_user' = j) - One(j \in responses')
                 = Count(infos, j) - One(browse_user = j) - One(j \in responses)
  <2>1. One(j \in responses') = One(j \in responses) + One(j = i)
        BY <1>2 DEF One
  <2>2. browse_user' = browse_user
        BY DEF HandleSearchResult
  <2>3. One(browse_user = j) \in Int /\ One(j \in responses) \in Int /\ One(j = i) \in Int
        BY DEF One
  <2> HIDE DEF i
  <2> QED
        BY <1>1, <1>3, <2>1, <2>2, <2>3
<1>5. \A j \in DOMAIN infos' : infos'[j].active_state \in Sent => infos[j].active_state \in Sent
      BY <1>3 DEF SameStates
<1>6. responses' \subseteq Info /\ IsFiniteSet(responses')
      BY <1>1, <1>2, FS_AddElement DEF TypeOK, Finite
<1> QED
      BY <1>1, <1>3, <1>4, <1>5, <1>6, UsersStep DEF HandleSearchResult, TypeOK, hubVars

LEMMA UnsearchStep ==
    ASSUME Inv, MemorySound, NEW i \in Info, Unsearch(i)
    PROVE  Inv'
<1>1. TypeOK /\ Finite /\ IsInfos(infos) /\ Reachable /\ \A j : Count(infos, j) \in Int
      BY Starting
<1>2. /\ i \in DOMAIN infos /\ i \in responses
      /\ responses' = responses \ {i} /\ infos' = Release(infos, i)
      BY <1>1 DEF Unsearch, Reachable
<1>3. /\ IsInfos(infos') /\ Keeps(infos, infos') /\ SameStates(infos, infos')
      /\ \A j : Count(infos', j) = Count(infos, j) - One(j = i /\ i \in DOMAIN infos)
      BY <1>1, <1>2, ReleaseProperties
<1>4. ASSUME NEW j \in Info
      PROVE  Count(infos', j) - One(browse_user' = j) - One(j \in responses')
                 = Count(infos, j) - One(browse_user = j) - One(j \in responses)
  <2>1. One(j \in responses') = One(j \in responses) - One(j = i /\ i \in DOMAIN infos)
        BY <1>2 DEF One
  <2>2. browse_user' = browse_user
        BY DEF Unsearch
  <2>3. /\ One(browse_user = j) \in Int /\ One(j \in responses) \in Int
        /\ One(j = i /\ i \in DOMAIN infos) \in Int
        BY DEF One
  <2> QED
        BY <1>1, <1>3, <2>1, <2>2, <2>3
<1>5. \A j \in DOMAIN infos' : infos'[j].active_state \in Sent => infos[j].active_state \in Sent
      BY <1>3 DEF SameStates
<1>6. responses' \subseteq Info /\ IsFiniteSet(responses')
      BY <1>1, <1>2, FS_RemoveElement DEF TypeOK, Finite
<1> QED
      BY <1>1, <1>3, <1>4, <1>5, <1>6, UsersStep DEF Unsearch, TypeOK, hubVars
LEMMA DisconnectedStep ==
    ASSUME Inv, MemorySound, SetHub(Disconnected(infos)),
           UNCHANGED <<user_conns, uconn, refused, browse_user, responses, is_active, past>>
    PROVE  Inv'
<1> DEFINE o == Disconnected(infos)
<1>1. TypeOK /\ Finite /\ IsInfos(infos) /\ Covered(infos)
      BY Starting
<1>2. SoundOutcome(infos, o) /\ Balanced(infos, o) /\ o.hub_users = Empty /\ o.pending = Empty
      BY <1>1, DisconnectedOutcome
<1>3. SetHub(o)
      OBVIOUS
<1> HIDE DEF o
<1>4. Awaited'
      BY <1>2, <1>3, EmptyHeld DEF SetHub, Awaited
<1> QED
      BY <1>2, <1>3, <1>4, OutcomeStep

LEMMA HubDisconnectStep ==
    ASSUME Inv, MemorySound, HubDisconnect
    PROVE  Inv'
BY DisconnectedStep DEF HubDisconnect

LEMMA HubReloadUsersStep ==
    ASSUME Inv, MemorySound, HubReloadUsers
    PROVE  Inv'
<1> DEFINE J == ReleaseAll(infos, hub_users)
           o == [infos |-> J, hub_users |-> Empty, pending |-> pending_userinfo,
                 logged_in |-> logged_in]
<1>1. /\ TypeOK /\ Finite /\ IsInfos(infos) /\ Covered(infos)
      /\ \A j : /\ Held(hub_users, j) \in Nat /\ Held(pending_userinfo, j) \in Nat
                /\ Count(infos, j) \in Int
      /\ past = {} => Awaited
      BY Starting
<1>2. \A j \in Info : Held(hub_users, j) <= Count(infos, j)
      BY <1>1 DEF Covered
<1>3. /\ IsInfos(J) /\ Keeps(infos, J) /\ SameStates(infos, J)
      /\ \A j \in Info : Count(J, j) = Count(infos, j) - Held(hub_users, j)
      BY <1>1, <1>2, ReleaseAllProperties DEF Finite
<1>4. /\ o.infos = J /\ o.hub_users = Empty /\ o.pending = pending_userinfo
      /\ o.logged_in = logged_in
      OBVIOUS
<1>5. /\ SetHub(o)
      /\ UNCHANGED <<user_conns, uconn, refused, browse_user, responses, is_active, past>>
      BY DEF HubReloadUsers, SetHub
<1> HIDE DEF o, J
<1>6. SoundOutcome(infos, o)
      BY <1>1, <1>3, <1>4, EmptyHeld DEF SoundOutcome, TypeOK, Finite
<1>7. Balanced(infos, o)
  <2> SUFFICES ASSUME NEW j \in Info
               PROVE  Count(o.infos, j) - Held(o.hub_users, j) - Held(o.pending, j)
                          = Count(infos, j) - Held(hub_users, j) - Held(pending_userinfo, j)
        BY DEF Balanced
  <2>1. Held(o.hub_users, j) = 0 /\ Held(o.pending, j) = Held(pending_userinfo, j)
        BY <1>4, EmptyHeld
  <2>2. Count(o.infos, j) = Count(infos, j) - Held(hub_users, j)
        BY <1>3, <1>4
  <2> QED
        BY <1>1, <2>1, <2>2
<1>8. ASSUME past = {}, Reachable'
      PROVE  Awaited'
  <2>1. \A j \in DOMAIN infos' : infos'[j].active_state \in Sent => infos[j].active_state \in Sent
        BY <1>3, <1>4, <1>5 DEF SameStates, SetHub
  <2>2. Keeps(infos, infos') /\ UNCHANGED pending_userinfo /\ DOMAIN hub_users' = {}
        BY <1>3, <1>4, <1>5, EmptyHeld DEF SetHub
  <2> QED
        BY <1>1, <1>8, <2>1, <2>2, AwaitedKept
<1> QED
      BY <1>5, <1>6, <1>7, <1>8, OutcomeStep

LEMMA QuitStep ==
    ASSUME Inv, MemorySound, NEW n \in Nick, Quit(n)
    PROVE  Inv'
<1> DEFINE i == hub_users[n]
           J == Release(infos, i)
           H == Without(hub_users, n)
           o == [infos |-> J, hub_users |-> H, pending |-> pending_userinfo,
                 logged_in |-> logged_in]
<1>1. /\ TypeOK /\ Finite /\ IsInfos(infos) /\ Reachable
      /\ \A j : /\ Held(hub_users, j) \in Nat /\ Held(pending_userinfo, j) \in Nat
                /\ Count(infos, j) \in Int
      /\ past = {} => Awaited
      BY Starting
<1>2. n \in DOMAIN hub_users /\ i \in DOMAIN infos
      BY <1>1 DEF Quit, Reachable
<1>3. /\ IsInfos(J) /\ Keeps(infos, J) /\ SameStates(infos, J)
      /\ \A j : Count(J, j) = Count(infos, j) - One(j = i /\ i \in DOMAIN infos)
      BY <1>1, ReleaseProperties
<1>4. /\ IsFiniteSet(DOMAIN H)
      /\ \A j : Held(H, j) = Held(hub_users, j) - One(n \in DOMAIN hub_users /\ i = j)
      BY <1>1, WithoutHeld DEF Finite
<1>5. DOMAIN H \subseteq DOMAIN hub_users /\ \A m \in DOMAIN H : H[m] = hub_users[m]
      BY DEF Without
<1>6. /\ o.infos = J /\ o.hub_users = H /\ o.pending = pending_userinfo
      /\ o.logged_in = logged_in
      OBVIOUS
<1>7. /\ SetHub(o)
      /\ UNCHANGED <<user_conns, uconn, refused, browse_user, responses, is_active, past>>
      BY DEF Quit, SetHub
<1> HIDE DEF o, J, H, i
<1>8. SoundOutcome(infos, o)
      BY <1>1, <1>3, <1>4, <1>5, <1>6 DEF SoundOutcome, TypeOK, Finite
<1>9. Balanced(infos, o)
  <2> SUFFICES ASSUME NEW j \in Info
               PROVE  Count(o.infos, j) - Held(o.hub_users, j) - Held(o.pending, j)
                          = Count(infos, j) - Held(hub_users, j) - Held(pending_userinfo, j)
        BY DEF Balanced
  <2>1. One(j = i /\ i \in DOMAIN infos) = One(n \in DOMAIN hub_users /\ i = j)
        BY <1>2 DEF One
  <2>2. One(n \in DOMAIN hub_users /\ i = j) \in Int
        BY DEF One
  <2> QED
        BY <1>1, <1>3, <1>4, <1>6, <2>1, <2>2
<1>10. ASSUME past = {}, Reachable'
       PROVE  Awaited'
  <2>1. \A j \in DOMAIN infos' : infos'[j].active_state \in Sent => infos[j].active_state \in Sent
        BY <1>3, <1>6, <1>7 DEF SameStates, SetHub
  <2>2. /\ Keeps(infos, infos') /\ UNCHANGED pending_userinfo
        /\ DOMAIN hub_users' \subseteq DOMAIN hub_users
        /\ \A m \in DOMAIN hub_users' : hub_users'[m] = hub_users[m]
        BY <1>3, <1>5, <1>6, <1>7 DEF SetHub
  <2> QED
        BY <1>1, <1>10, <2>1, <2>2, AwaitedKept
<1> QED
      BY <1>7, <1>8, <1>9, <1>10, OutcomeStep
(* Who is waited for under the nick of a user is that user.                *)
LEMMA PendingOwn ==
    ASSUME Tidy, Reachable, NEW i \in DOMAIN infos,
           infos[i].nick \in DOMAIN pending_userinfo
    PROVE  pending_userinfo[infos[i].nick] = i
BY DEF Tidy, NicksMatch, Reachable

LEMMA CountProperties ==
    ASSUME NEW I, IsInfos(I), NEW i \in DOMAIN I, NEW r \in Int,
           NEW J, J = SetCount(I, i, r)
    PROVE  /\ IsInfos(J) /\ DOMAIN J = DOMAIN I /\ Keeps(I, J) /\ SameStates(I, J)
           /\ Count(J, i) = r
           /\ \A j : j # i => Count(J, j) = Count(I, j)
<1>1. I[i] \in InfoRecord
      BY DEF IsInfos
<1>2. /\ DOMAIN J = DOMAIN I
      /\ \A j \in DOMAIN I \ {i} : J[j] = I[j]
      /\ J[i] = [I[i] EXCEPT !.refcount = r]
      BY DEF SetCount
<1>3. /\ J[i] \in InfoRecord
      /\ J[i].nick = I[i].nick
      /\ J[i].conn = I[i].conn
      /\ J[i].active_state = I[i].active_state
      /\ J[i].refcount = r
      BY <1>1, <1>2 DEF InfoRecord
<1>4. IsInfos(J) /\ Keeps(I, J) /\ SameStates(I, J)
      BY <1>2, <1>3 DEF IsInfos, Keeps, SameStates
<1>5. Count(J, i) = r /\ \A j : j # i => Count(J, j) = Count(I, j)
      BY <1>2, <1>3 DEF Count
<1> QED
      BY <1>2, <1>4, <1>5

(* A request from I, which is infos but for what the users are asked for.  *)
LEMMA ConnectStep ==
    ASSUME Inv, MemorySound, NEW I, IsInfos(I), Keeps(infos, I), \A j : Count(I, j) = Count(infos, j),
           \A j \in DOMAIN I : I[j].active_state \in Sent => infos[j].active_state \in Sent,
           NEW i \in DOMAIN I, HasRoom(i), NEW o \in Connect(I, i), SetHub(o),
           UNCHANGED <<user_conns, uconn, refused, browse_user, responses, is_active, past>>
    PROVE  Inv'
<1>1. /\ TypeOK /\ Finite /\ Reachable /\ Covered(infos)
      /\ past = {} => Tidy /\ Awaited
      BY Starting
<1>2. Covered(I)
      BY <1>1 DEF Covered
<1>3. /\ SoundOutcome(I, o)
      /\ (I[i].nick \in DOMAIN pending_userinfo => pending_userinfo[I[i].nick] = i)
             => Balanced(I, o)
      BY <1>1, <1>2, ConnectOutcome
<1>4. SoundOutcome(infos, o)
      BY <1>3, OutcomeOf
<1>5. ASSUME past = {}
      PROVE  Balanced(infos, o)
  <2>1. i \in DOMAIN infos /\ I[i].nick = infos[i].nick
        BY DEF Keeps
  <2>2. I[i].nick \in DOMAIN pending_userinfo => pending_userinfo[I[i].nick] = i
        BY <1>1, <1>5, <2>1, PendingOwn
  <2>3. Balanced(I, o)
        BY <1>3, <2>2
  <2> QED
        BY <2>3 DEF Balanced
<1>6. ASSUME past = {}, Reachable'
      PROVE  Awaited'
  <2>1. /\ Keeps(o.infos, infos') /\ SameStates(o.infos, infos')
        /\ hub_users' = o.hub_users /\ pending_userinfo' = o.pending
        BY DEF SetHub, Keeps, SameStates
  <2> QED
        BY <1>1, <1>2, <1>6, <2>1, ConnectAwaited
<1> QED
      BY <1>4, <1>5, <1>6, OutcomeStep

LEMMA ConnectByCommandStep ==
    ASSUME Inv, MemorySound, NEW i \in Info, ConnectByCommand(i)
    PROVE  Inv'
<1>1. IsInfos(infos) /\ Keeps(infos, infos)
      BY Starting
<1>2. PICK o \in Connect(infos, i) : SetHub(o)
      BY DEF ConnectByCommand
<1>3. i \in DOMAIN infos /\ HasRoom(i)
      BY DEF ConnectByCommand
<1>4. UNCHANGED <<user_conns, uconn, refused, browse_user, responses, is_active, past>>
      BY DEF ConnectByCommand
<1> QED
      BY <1>1, <1>2, <1>3, <1>4, ConnectStep

LEMMA RevConnectToMeStep ==
    ASSUME Inv, MemorySound, NEW n \in Nick, RevConnectToMe(n)
    PROVE  Inv'
<1> DEFINE i == hub_users[n]
           state == infos[i].active_state
           passive == [infos EXCEPT ![i].active_state = "RECEIVED_PASSIVE"]
           told == [passive EXCEPT ![i].refcount = @ - 1]
           J == IF n \in DOMAIN pending_userinfo THEN told ELSE passive
           P == Without(pending_userinfo, n)
           o == [infos |-> J, hub_users |-> hub_users, pending |-> P, logged_in |-> logged_in]
<1>1. /\ TypeOK /\ Finite /\ IsInfos(infos) /\ Reachable
      /\ \A j : /\ Held(hub_users, j) \in Nat /\ Held(pending_userinfo, j) \in Nat
                /\ Count(infos, j) \in Int
      /\ past = {} => Tidy /\ Awaited
      BY Starting
<1>2. i \in DOMAIN infos /\ i \in Info /\ n \in DOMAIN hub_users /\ HasRoom(i)
      BY <1>1 DEF RevConnectToMe, Reachable, TypeOK
<1>3. UNCHANGED <<user_conns, uconn, refused, browse_user, responses, is_active, past>>
      BY DEF RevConnectToMe
<1>4. "RECEIVED_PASSIVE" \in ActiveState /\ "RECEIVED_PASSIVE" \notin Sent
      BY DEF ActiveState, Sent
<1>5. /\ IsInfos(passive) /\ DOMAIN passive = DOMAIN infos /\ Keeps(infos, passive)
      /\ passive[i].active_state = "RECEIVED_PASSIVE"
      /\ \A j \in DOMAIN infos \ {i} : passive[j].active_state = infos[j].active_state
      /\ \A j : Count(passive, j) = Count(infos, j)
  <2>1. passive = SetState(infos, i, "RECEIVED_PASSIVE")
        BY DEF SetState
  <2> HIDE DEF passive, i
  <2> QED
        BY <1>1, <1>2, <1>4, <2>1, StateProperties
<1>6. \A j \in DOMAIN passive : passive[j].active_state \in Sent => infos[j].active_state \in Sent
      BY <1>4, <1>5
<1>7. \/ ~is_active /\ state = "SENT_PASSIVE" /\ SetHub(o)
      \/ SetHub(Disconnected(infos))
      \/ \E q \in Connect(passive, i) : SetHub(q)
      BY DEF RevConnectToMe, SetHub
<1>8. CASE SetHub(Disconnected(infos))
      BY <1>3, <1>8, DisconnectedStep
<1>9. CASE \E q \in Connect(passive, i) : SetHub(q)
  <2>1. PICK q \in Connect(passive, i) : SetHub(q)
        BY <1>9
  <2> HIDE DEF passive, i
  <2> QED
        BY <1>2, <1>3, <1>5, <1>6, <2>1, ConnectStep
<1>10. CASE SetHub(o)
  <2>1. told = [passive EXCEPT ![i].refcount = passive[i].refcount - 1]
        OBVIOUS
  <2>2. passive[i].refcount \in Int /\ Count(passive, i) = passive[i].refcount
        BY <1>2, <1>5 DEF IsInfos, InfoRecord, Count
  <2>3. /\ o.infos = J /\ o.hub_users = hub_users /\ o.pending = P /\ o.logged_in = logged_in
        OBVIOUS
  <2>4. /\ DOMAIN P \subseteq DOMAIN pending_userinfo /\ n \notin DOMAIN P
        /\ \A m \in DOMAIN P : P[m] = pending_userinfo[m]
        /\ \A m \in DOMAIN pending_userinfo : m # n => m \in DOMAIN P
        BY DEF Without
  <2>5. /\ IsFiniteSet(DOMAIN P)
        /\ \A j : Held(P, j) = Held(pending_userinfo, j)
                       - One(n \in DOMAIN pending_userinfo /\ pending_userinfo[n] = j)
        BY <1>1, WithoutHeld DEF Finite
  <2> HIDE DEF passive, i, P
  <2>6. /\ IsInfos(told) /\ Keeps(passive, told) /\ SameStates(passive, told)
        /\ Count(told, i) = Count(passive, i) - 1
        /\ \A j : j # i => Count(told, j) = Count(passive, j)
    <3> DEFINE r == passive[i].refcount - 1
    <3>1. r \in Int /\ told = SetCount(passive, i, r)
          BY <2>1, <2>2 DEF SetCount
    <3> HIDE DEF r, told
    <3>2. /\ IsInfos(told) /\ Keeps(passive, told) /\ SameStates(passive, told)
          /\ Count(told, i) = r
          /\ \A j : j # i => Count(told, j) = Count(passive, j)
          BY <1>2, <1>5, <3>1, CountProperties
    <3>3. r = Count(passive, i) - 1
          BY <2>2 DEF r
    <3> QED
          BY <3>1, <3>2, <3>3
  <2> HIDE DEF told
  <2>7. /\ IsInfos(J) /\ Keeps(passive, J) /\ SameStates(passive, J)
        /\ \A j : Count(J, j) = Count(infos, j) - One(n \in DOMAIN pending_userinfo /\ j = i)
    <3>1. CASE n \in DOMAIN pending_userinfo
          BY <1>1, <1>5, <2>6, <3>1 DEF One
    <3>2. CASE n \notin DOMAIN pending_userinfo
          BY <1>1, <1>5, <3>2 DEF One, Keeps, SameStates
    <3> QED
          BY <3>1, <3>2
  <2>8. Keeps(infos, J)
        BY <1>5, <2>7, KeepsTransitive
  <2> HIDE DEF J, o
  <2>9. SoundOutcome(infos, o)
        BY <1>1, <2>3, <2>4, <2>5, <2>7, <2>8 DEF SoundOutcome, TypeOK, Finite
  <2>10. ASSUME past = {}
         PROVE  Balanced(infos, o)
    <3>1. n \in DOMAIN pending_userinfo => pending_userinfo[n] = i
          BY <1>1, <1>2, <2>10 DEF i, Tidy, NicksMatch, Reachable
    <3> SUFFICES ASSUME NEW j \in Info
                 PROVE  Count(o.infos, j) - Held(o.hub_users, j) - Held(o.pending, j)
                            = Count(infos, j) - Held(hub_users, j) - Held(pending_userinfo, j)
          BY DEF Balanced
    <3>2. One(n \in DOMAIN pending_userinfo /\ j = i)
              = One(n \in DOMAIN pending_userinfo /\ pending_userinfo[n] = j)
          BY <3>1 DEF One
    <3>3. One(n \in DOMAIN pending_userinfo /\ j = i) \in Int
          BY DEF One
    <3> QED
          BY <1>1, <2>3, <2>5, <2>7, <3>2, <3>3
  <2>11. ASSUME past = {}, Reachable'
         PROVE  Awaited'
    <3>1. /\ infos' = J /\ hub_users' = hub_users /\ pending_userinfo' = P
          BY <1>10, <2>3 DEF SetHub
    <3>2. ASSUME NEW m \in DOMAIN hub_users', infos'[hub_users'[m]].active_state \in Sent
          PROVE  m \in DOMAIN pending_userinfo' /\ pending_userinfo'[m] = hub_users'[m]
      <4> DEFINE h == hub_users[m]
      <4>1. h \in DOMAIN infos' /\ h \in DOMAIN infos /\ h \in DOMAIN passive
            BY <1>1, <1>5, <2>11, <3>1 DEF Reachable
      <4>2. passive[h].active_state \in Sent
            BY <2>7, <3>1, <3>2, <4>1 DEF SameStates
      <4>3. infos[h].active_state \in Sent /\ h # i
            BY <1>4, <1>5, <1>6, <4>1, <4>2
      <4>4. m # n
            BY <4>3 DEF i
      <4> QED
            BY <1>1, <2>4, <2>11, <3>1, <4>3, <4>4 DEF Awaited
    <3>3. ASSUME NEW m \in DOMAIN pending_userinfo'
          PROVE  HasRoom(pending_userinfo[m])'
      <4>1. pending_userinfo'[m] \in DOMAIN infos' /\ pending_userinfo'[m] = pending_userinfo[m]
                /\ m \in DOMAIN pending_userinfo
            BY <2>4, <2>11, <3>1 DEF Reachable
      <4>2. HasRoom(pending_userinfo[m])
            BY <1>1, <2>11, <4>1 DEF Awaited
      <4> QED
            BY <2>8, <3>1, <4>1, <4>2 DEF HasRoom, Keeps
    <3> QED
          BY <3>2, <3>3 DEF Awaited
  <2> QED
        BY <1>3, <1>10, <2>9, <2>10, <2>11, OutcomeStep
<1> QED
      BY <1>7, <1>8, <1>9, <1>10
(* The new browse_user, when the hub and the users are what o says, which  *)
(* still know him: his reference is counted, that of the last is given up. *)
LEMMA BrowseUserStep ==
    ASSUME Inv, MemorySound, NEW o, SoundOutcome(infos, o), NEW i \in Info,
           BrowseUser(o.infos, i),
           hub_users' = o.hub_users, pending_userinfo' = o.pending, logged_in' = o.logged_in,
           UNCHANGED <<user_conns, uconn, refused, responses, is_active>>,
           PastGrows,
           past' = {} => /\ Balanced(infos, o)
                         /\ \E n \in DOMAIN o.hub_users : o.hub_users[n] = i,
           past' = {} /\ Reachable' /\ Keeps(o.infos, infos') /\ SameStates(o.infos, infos')
               => Awaited'
    PROVE  Inv'
<1> DEFINE K == o.infos
           b == browse_user
           J == Release(K, b)
<1>1. /\ TypeOK /\ Finite /\ CountsExact /\ IsInfos(K)
      /\ \A j : Joined(uconn, j) \in Nat /\ Count(infos, j) \in Int
                    /\ Held(hub_users, j) \in Nat /\ Held(pending_userinfo, j) \in Nat
      BY Starting DEF SoundOutcome
<1>2. browse_user' = i /\ infos' = IF i \in DOMAIN J THEN Retain(J, i) ELSE J
      BY DEF BrowseUser
<1>3. /\ IsInfos(J) /\ Keeps(K, J) /\ SameStates(K, J)
      /\ \A j : Count(J, j) = Count(K, j) - One(j = b /\ b \in DOMAIN K)
      BY <1>1, ReleaseProperties
<1> HIDE DEF J
<1>4. /\ IsInfos(infos') /\ Keeps(J, infos') /\ SameStates(J, infos')
      /\ \A j : Count(infos', j) = Count(J, j) + One(j = i /\ i \in DOMAIN J)
  <2>1. CASE i \in DOMAIN J
    <3>1. /\ IsInfos(Retain(J, i)) /\ Keeps(J, Retain(J, i)) /\ SameStates(J, Retain(J, i))
          /\ \A j : Count(Retain(J, i), j) = Count(J, j) + One(j = i)
          BY <1>3, <2>1, RetainProperties
    <3>2. \A j : One(j = i /\ i \in DOMAIN J) = One(j = i)
          BY <2>1 DEF One
    <3> QED
          BY <1>2, <2>1, <3>1, <3>2
  <2>2. CASE i \notin DOMAIN J
    <3>1. \A j : One(j = i /\ i \in DOMAIN J) = 0
          BY <2>2 DEF One
    <3>2. \A j : Count(J, j) \in Int
          BY <1>3, CountInt
    <3> QED
          BY <1>2, <1>3, <2>2, <3>1, <3>2 DEF Keeps, SameStates
  <2> QED
        BY <2>1, <2>2
<1>5. Keeps(K, infos') /\ SameStates(K, infos')
      BY <1>3, <1>4, KeepsTransitive DEF Keeps, SameStates
<1>6. Keeps(infos, infos')
      BY <1>5, KeepsTransitive DEF SoundOutcome
<1>7. Frame
      BY <1>1, <1>2, <1>4, <1>6 DEF Frame, HubFrame, SoundOutcome, TypeOK, Finite
<1>8. ASSUME past' = {}, NEW j \in Info
      PROVE  Count(infos', j) = Pointers(j)'
  <2>1. ASSUME NEW k \in Info
        PROVE  /\ Count(K, k) = Held(o.hub_users, k) + Held(o.pending, k) + Joined(uconn, k)
                                    + One(b = k) + One(k \in responses)
               /\ Held(o.hub_users, k) \in Nat /\ Held(o.pending, k) \in Nat
    <3>1. Count(K, k) - Held(o.hub_users, k) - Held(o.pending, k)
              = Count(infos, k) - Held(hub_users, k) - Held(pending_userinfo, k)
          BY <1>8 DEF Balanced
    <3>2. Count(infos, k) = Held(hub_users, k) + Held(pending_userinfo, k) + Joined(uconn, k)
                                + One(b = k) + One(k \in responses)
          BY <1>1 DEF CountsExact, Pointers
    <3>3. Held(o.hub_users, k) \in Nat /\ Held(o.pending, k) \in Nat
          BY HeldNat DEF SoundOutcome
    <3>4. Count(K, k) \in Int
          BY <1>1, CountInt
    <3>5. One(b = k) \in Int /\ One(k \in responses) \in Int
          BY DEF One
    <3> HIDE DEF K, b
    <3> QED
          BY <1>1, <3>1, <3>2, <3>3, <3>4, <3>5
  <2>2. \A k : Joined(uconn, k) \in Nat /\ One(b = k) \in {0, 1} /\ One(k \in responses) \in {0, 1}
        BY <1>1 DEF One
  <2>3. One(j = b /\ b \in DOMAIN K) = One(b = j)
    <3>1. CASE b = j
      <4>1. One(b = j) = 1
            BY <3>1 DEF One
      <4>2. Count(K, j) >= 1
            BY <2>1, <2>2, <4>1
      <4>3. j \in DOMAIN K
            BY <4>2 DEF Count
      <4> QED
            BY <3>1, <4>3
    <3>2. CASE b # j
          BY <3>2 DEF One
    <3> QED
          BY <3>1, <3>2
  <2>4. i \in DOMAIN J
    <3>1. Held(o.hub_users, i) >= 1
      <4>1. PICK n \in DOMAIN o.hub_users : o.hub_users[n] = i
            BY <1>8
      <4> DEFINE S == {m \in DOMAIN o.hub_users : o.hub_users[m] = i}
      <4>2. IsFiniteSet(S) /\ S # {}
            BY <4>1, FS_Subset DEF SoundOutcome
      <4>3. Cardinality(S) \in Nat /\ Cardinality(S) # 0
            BY <4>2, FS_CardinalityType, FS_EmptySet
      <4> QED
            BY <4>3 DEF Held
    <3>2. Count(J, i) >= 1
      <4>1. CASE b = i
        <5>1. One(b = i) = 1 /\ One(i = b /\ b \in DOMAIN K) \in {0, 1}
              BY <4>1 DEF One
        <5>2. Count(K, i) >= 2
              BY <2>1, <2>2, <3>1, <5>1
        <5>3. Count(K, i) \in Int /\ Count(J, i) = Count(K, i) - One(i = b /\ b \in DOMAIN K)
              BY <1>1, <1>3, CountInt
        <5> QED
              BY <5>1, <5>2, <5>3
      <4>2. CASE b # i
        <5>1. One(i = b /\ b \in DOMAIN K) = 0
              BY <4>2 DEF One
        <5>2. Count(K, i) >= 1
              BY <2>1, <2>2, <3>1
        <5>3. Count(K, i) \in Int /\ Count(J, i) = Count(K, i) - One(i = b /\ b \in DOMAIN K)
              BY <1>1, <1>3, CountInt
        <5> QED
              BY <5>1, <5>2, <5>3
      <4> QED
            BY <4>1, <4>2
    <3> QED
          BY <3>2 DEF Count
  <2>5. One(j = i /\ i \in DOMAIN J) = One(browse_user' = j)
        BY <1>2, <2>4 DEF One
  <2>6. Count(infos', j) = Count(K, j) - One(b = j) + One(browse_user' = j)
    <3>1. Count(infos', j) = Count(J, j) + One(j = i /\ i \in DOMAIN J)
          BY <1>4
    <3>2. Count(J, j) = Count(K, j) - One(j = b /\ b \in DOMAIN K)
          BY <1>3
    <3> QED
          BY <2>3, <2>5, <3>1, <3>2
  <2>7. /\ Held(hub_users', j) = Held(o.hub_users, j)
        /\ Held(pending_userinfo', j) = Held(o.pending, j)
        /\ Joined(uconn', j) = Joined(uconn, j)
        /\ responses' = responses
        OBVIOUS
  <2>8. One(browse_user' = j) \in Int
        BY DEF One
  <2> HIDE DEF b, K
  <2> QED
        BY <2>1, <2>2, <2>6, <2>7, <2>8 DEF Pointers
<1>9. past' = {} /\ Reachable' => Awaited'
      BY <1>5
<1> QED
      BY <1>7, <1>8, <1>9, FrameStep

LEMMA BrowseStep ==
    ASSUME Inv, MemorySound, NEW n \in Nick, Browse(n)
    PROVE  Inv'
<1> DEFINE i == hub_users[n]
           same == [infos |-> infos, hub_users |-> hub_users,
                    pending |-> pending_userinfo, logged_in |-> logged_in]
<1>1. /\ TypeOK /\ Finite /\ IsInfos(infos) /\ Keeps(infos, infos) /\ Covered(infos)
      /\ Reachable /\ past \subseteq {"returned", "cut off"}
      /\ past = {} => Tidy /\ Awaited
      BY Starting DEF TypeOK
<1>2. n \in DOMAIN hub_users /\ i \in Info /\ i \in DOMAIN infos
      BY <1>1 DEF Browse, Reachable, TypeOK
<1>3. UNCHANGED <<user_conns, uconn, refused, responses, is_active>>
      BY DEF Browse
<1>4. CASE BrowseUser(infos, i) /\ UNCHANGED <<hubVars, past>>
  <2>1. /\ same.infos = infos /\ same.hub_users = hub_users
        /\ same.pending = pending_userinfo /\ same.logged_in = logged_in
        OBVIOUS
  <2>2. /\ hub_users' = hub_users /\ pending_userinfo' = pending_userinfo
        /\ logged_in' = logged_in /\ past' = past
        BY <1>4 DEF hubVars
  <2> HIDE DEF same
  <2>3. SoundOutcome(infos, same) /\ Balanced(infos, same)
        BY <1>1, <2>1 DEF SoundOutcome, Balanced, TypeOK, Finite
  <2>4. ASSUME past' = {}, Reachable', Keeps(infos, infos'), SameStates(infos, infos')
        PROVE  Awaited'
    <3>1. \A j \in DOMAIN infos' :
              infos'[j].active_state \in Sent => infos[j].active_state \in Sent
          BY <2>4 DEF SameStates
    <3> QED
          BY <1>1, <2>2, <2>4, <3>1, AwaitedKept
  <2>5. PastGrows /\ \E m \in DOMAIN same.hub_users : same.hub_users[m] = i
        BY <1>1, <1>2, <2>1, <2>2 DEF PastGrows
  <2> HIDE DEF i
  <2> QED
        BY <1>1, <1>2, <1>3, <1>4, <2>1, <2>2, <2>3, <2>4, <2>5, BrowseUserStep
<1>5. CASE /\ HasRoom(i)
           /\ \E o \in Connect(infos, i) :
                  /\ BrowseUser(o.infos, i)
                  /\ hub_users' = o.hub_users
                  /\ pending_userinfo' = o.pending
                  /\ logged_in' = o.logged_in
                  /\ past' = IF o.logged_in THEN past ELSE past \cup {"cut off"}
  <2>1. PICK o \in Connect(infos, i) :
            /\ BrowseUser(o.infos, i)
            /\ hub_users' = o.hub_users
            /\ pending_userinfo' = o.pending
            /\ logged_in' = o.logged_in
            /\ past' = IF o.logged_in THEN past ELSE past \cup {"cut off"}
        BY <1>5
  <2> HIDE DEF i
  <2>2. o.logged_in => o.hub_users = hub_users
    <3> DEFINE new == IF infos[i].nick \in DOMAIN pending_userinfo THEN Asked(infos, i)
                      ELSE Retain(Asked(infos, i), i)
               sent == [same EXCEPT !.infos = new,
                                    !.pending = With(pending_userinfo, infos[i].nick, i)]
    <3>1. o = same \/ o = Disconnected(infos) \/ o = sent
          BY DEF Connect
    <3>2. Disconnected(infos).logged_in = FALSE
          BY DEF Disconnected
    <3>3. same.hub_users = hub_users /\ sent.hub_users = hub_users
          OBVIOUS
    <3> HIDE DEF same, sent
    <3> QED
          BY <3>1, <3>2, <3>3
  <2>3. /\ SoundOutcome(infos, o)
        /\ (infos[i].nick \in DOMAIN pending_userinfo => pending_userinfo[infos[i].nick] = i)
               => Balanced(infos, o)
        BY <1>1, <1>2, ConnectOutcome
  <2>4. past \subseteq past' /\ PastGrows
        BY <1>1, <2>1 DEF PastGrows
  <2>5. ASSUME past' = {}
        PROVE  /\ Balanced(infos, o)
               /\ \E m \in DOMAIN o.hub_users : o.hub_users[m] = i
    <3>1. past = {} /\ o.logged_in
          BY <2>1, <2>5
    <3>2. Balanced(infos, o)
          BY <1>1, <1>2, <2>3, <3>1, PendingOwn
    <3> QED
          BY <1>2, <2>2, <3>1, <3>2 DEF i
  <2>6. ASSUME past' = {}, Reachable', Keeps(o.infos, infos'), SameStates(o.infos, infos')
        PROVE  Awaited'
    <3>1. past = {}
          BY <2>4, <2>6
    <3> QED
          BY <1>1, <1>2, <1>5, <2>1, <2>6, <3>1, ConnectAwaited
  <2> QED
        BY <1>2, <1>3, <2>1, <2>3, <2>4, <2>5, <2>6, BrowseUserStep
<1> QED
      BY <1>4, <1>5 DEF Browse
-----------------------------------------------------------------------------
(* The steps that add a user or a connection *)

LEMMA FoundConns ==
    ASSUME TypeOK, KeysAreNames, NEW n
    PROVE  /\ ConnsOf(n) \in Seq(Conn)
           /\ (\A dir \in Dir : Named(n, dir) \notin DOMAIN user_conns) => ConnsOf(n) = <<>>
<1> DEFINE Found(name) == IF name \in DOMAIN user_conns THEN <<user_conns[name]>> ELSE <<>>
<1>1. ConnsOf(n) = Found(Named(n, "send")) \o Found(Named(n, "receive"))
                       \o Found(Named(n, "unknown"))
      BY DEF ConnsOf
<1>2. ASSUME NEW name
      PROVE  Found(name) \in Seq(Conn)
  <2>1. CASE name \in DOMAIN user_conns
    <3>1. user_conns[name] \in Conn
          BY <2>1 DEF TypeOK, KeysAreNames
    <3>2. Found(name) = <<user_conns[name]>>
          BY <2>1
    <3> HIDE DEF Found
    <3> QED
          BY <3>1, <3>2
  <2>2. CASE name \notin DOMAIN user_conns
    <3>1. Found(name) = <<>>
          BY <2>2
    <3> HIDE DEF Found
    <3> QED
          BY <3>1
  <2> QED
        BY <2>1, <2>2
<1>3. (\A dir \in Dir : Named(n, dir) \notin DOMAIN user_conns) =>
          \A dir \in Dir : Found(Named(n, dir)) = <<>>
      OBVIOUS
<1> HIDE DEF Found
<1> QED
      BY <1>1, <1>2, <1>3 DEF Dir

(* Names tell whose connection it is.                                      *)
LEMMA NamedInjective ==
    ASSUME NEW m, NEW n, NEW d \in Dir, NEW e \in Dir, Named(m, d) = Named(n, e)
    PROVE  m = n /\ d = e
<1>1. Suffix["unknown"] = "" /\ Suffix["send"] = "UL" /\ Suffix["receive"] = "DL"
      BY DEF Suffix
<1>2. m = n /\ Suffix[d] = Suffix[e]
      BY DEF Named
<1> QED
      BY <1>1, <1>2 DEF Dir

LEMMA NoConns ==
    ASSUME Inv, MemorySound, "returned" \notin past, NEW n \in Nick,
           \A j \in DOMAIN infos : infos[j].nick # n
    PROVE  ConnsOf(n) = <<>>
<1>1. TypeOK /\ KeysAreNames /\ Reachable /\ Tidy
      BY Starting
<1>2. ASSUME NEW dir \in Dir, Named(n, dir) \in DOMAIN user_conns
      PROVE  FALSE
  <2> DEFINE c == user_conns[Named(n, dir)]
             i == uconn[c].info
  <2>1. c \in DOMAIN uconn /\ uconn[c].name = Named(n, dir)
        BY <1>1, <1>2 DEF KeysAreNames
  <2>2. uconn[c].dir \in Dir /\ c \in Conn
        BY <1>1, <2>1 DEF TypeOK
  <2>3. CASE i = NoInfo
    <3>1. Named(n, dir) = c
          BY <1>1, <2>1, <2>3 DEF Tidy, NamesMatch
    <3> QED
          BY <2>2, <3>1, NameAssumption
  <2>4. CASE i # NoInfo
    <3>1. i \in DOMAIN infos
          BY <1>1, <2>1, <2>4 DEF Reachable
    <3>2. Named(n, dir) = Named(infos[i].nick, uconn[c].dir)
          BY <1>1, <2>1, <2>4 DEF Tidy, NamesMatch
    <3>3. n = infos[i].nick
          BY <2>2, <3>2, NamedInjective
    <3> QED
          BY <3>1, <3>3
  <2> QED
        BY <2>3, <2>4
<1> QED
      BY <1>1, <1>2, FoundConns

LEMMA HelloStep ==
    ASSUME Inv, MemorySound, NEW n \in Nick, NEW i \in Info, Hello(n, i)
    PROVE  Inv'
<1>1. /\ TypeOK /\ Finite /\ KeysAreNames /\ Reachable /\ CountsExact /\ ConnsKept /\ ConnsListed
      /\ "returned" \notin past => Tidy
      /\ past = {} => Awaited
      /\ \A j : /\ Held(hub_users, j) \in Nat /\ Held(pending_userinfo, j) \in Nat
                /\ Joined(uconn, j) \in Nat /\ Count(infos, j) \in Int
      BY Starting
<1>2. PICK conn :
          /\ conn = ConnsOf(n) \/ conn = <<>>
          /\ infos' = With(infos, i, [nick |-> n, refcount |-> 1, conn |-> conn,
                                      active_state |-> "UNKNOWN"])
      BY DEF Hello, UserInfoNew
<1> DEFINE new == [nick |-> n, refcount |-> 1, conn |-> conn, active_state |-> "UNKNOWN"]
<1>3. /\ i \notin DOMAIN infos
      /\ hub_users' = With(hub_users, n, i)
      /\ past' = IF \E j \in DOMAIN infos : infos[j].nick = n THEN past \cup {"returned"} ELSE past
      /\ UNCHANGED <<user_conns, uconn, refused, pending_userinfo, logged_in,
                     browse_user, responses, is_active>>
      BY DEF Hello
<1>4. conn \in Seq(Conn) /\ (ConnsOf(n) = <<>> => conn = <<>>)
  <2>1. ConnsOf(n) \in Seq(Conn) /\ <<>> \in Seq(Conn)
        BY <1>1, FoundConns
  <2> QED
        BY <1>2, <2>1
<1>5. /\ DOMAIN infos' = DOMAIN infos \cup {i} /\ infos'[i] = new
      /\ \A j \in DOMAIN infos : infos'[j] = infos[j]
  <2>1. infos' = With(infos, i, new)
        BY <1>2
  <2> HIDE DEF new
  <2> QED
        BY <1>3, <2>1 DEF With
<1>6. /\ DOMAIN hub_users' = DOMAIN hub_users \cup {n} /\ hub_users'[n] = i
      /\ \A m \in DOMAIN hub_users \ {n} : hub_users'[m] = hub_users[m]
      BY <1>3 DEF With
<1>7. /\ new.nick = n /\ new.refcount = 1 /\ new.conn = conn /\ new.active_state = "UNKNOWN"
      /\ new \in [nick : Nick, refcount : Int, conn : Seq(Conn), active_state : ActiveState]
      BY <1>4 DEF ActiveState
<1>8. past \subseteq past' /\ past' \subseteq {"returned", "cut off"}
      BY <1>1, <1>3 DEF TypeOK
<1> HIDE DEF new
<1>9. TypeOK'
  <2>1. \A j \in DOMAIN infos' :
            infos'[j] \in [nick : Nick, refcount : Int, conn : Seq(Conn), active_state : ActiveState]
        BY <1>1, <1>5, <1>7 DEF TypeOK
  <2>2. DOMAIN hub_users' \subseteq Nick /\ \A m \in DOMAIN hub_users' : hub_users'[m] \in Info
        BY <1>1, <1>6 DEF TypeOK
  <2> QED
        BY <1>1, <1>3, <1>5, <1>8, <2>1, <2>2 DEF TypeOK
<1>10. Finite'
       BY <1>1, <1>3, WithHeld DEF Finite
<1>11. KeysAreNames'
       BY <1>1, <1>3 DEF KeysAreNames
<1>12. ConnsListed'
       BY <1>1, <1>3, <1>5 DEF Reachable, ConnsListed
<1>13. ASSUME "returned" \notin past'
       PROVE  /\ Tidy /\ Tidy' /\ conn = <<>>
              /\ \A j \in DOMAIN infos : infos[j].nick # n
  <2>1. "returned" \notin past /\ \A j \in DOMAIN infos : infos[j].nick # n
        BY <1>3, <1>13
  <2>2. NicksMatch /\ NamesMatch /\ ConnsMatch
        BY <1>1, <2>1 DEF Tidy
  <2>3. conn = <<>>
        BY <1>4, <2>1, NoConns
  <2>4. NicksMatch'
    <3>1. \A m \in DOMAIN hub_users' : infos'[hub_users'[m]].nick = m
          BY <1>1, <1>5, <1>6, <1>7, <2>2 DEF NicksMatch, Reachable
    <3>2. \A m \in DOMAIN pending_userinfo' : infos'[pending_userinfo'[m]].nick = m
          BY <1>1, <1>3, <1>5, <2>2 DEF NicksMatch, Reachable
    <3>3. \A j, k \in DOMAIN infos' : infos'[j].nick = infos'[k].nick => j = k
          BY <1>5, <1>7, <2>1, <2>2 DEF NicksMatch
    <3> QED
          BY <3>1, <3>2, <3>3 DEF NicksMatch
  <2>5. NamesMatch'
        BY <1>1, <1>3, <1>5, <2>2 DEF NamesMatch, Reachable
  <2>6. ConnsMatch'
    <3>1. ASSUME NEW j \in DOMAIN infos'
          PROVE  /\ \A k, m \in 1..Len(infos'[j].conn) :
                        infos'[j].conn[k] = infos'[j].conn[m] => k = m
                 /\ \A c \in Elements(infos'[j].conn) : uconn'[c].info = j
      <4>1. CASE j \in DOMAIN infos
            BY <1>3, <1>5, <2>2, <4>1 DEF ConnsMatch
      <4>2. CASE j = i
        <5>1. infos'[j].conn = <<>>
              BY <1>5, <1>7, <2>3, <4>2
        <5> QED
              BY <5>1 DEF Elements
      <4> QED
            BY <1>5, <4>1, <4>2
    <3> QED
          BY <3>1 DEF ConnsMatch
  <2> QED
        BY <2>1, <2>2, <2>3, <2>4, <2>5, <2>6 DEF Tidy
<1>14. ASSUME past' = {}
       PROVE  MemorySound' /\ Awaited'
  <2>1. /\ past = {} /\ Tidy /\ conn = <<>>
        /\ \A j \in DOMAIN infos : infos[j].nick # n
        BY <1>8, <1>13, <1>14
  <2>2. n \notin DOMAIN hub_users
        BY <1>1, <2>1 DEF Reachable, Tidy, NicksMatch
  <2>3. ASSUME NEW j \in Info
        PROVE  Count(infos', j) = Pointers(j)'
    <3>1. Count(infos, j) = Pointers(j)
          BY <1>1 DEF CountsExact
    <3>2. Count(infos', j) = Count(infos, j) + One(j = i)
      <4>1. CASE j = i
            BY <1>3, <1>5, <1>7, <4>1 DEF Count, One
      <4>2. CASE j # i
        <5>1. Count(infos', j) = Count(infos, j)
              BY <1>5, <4>2 DEF Count
        <5>2. One(j = i) = 0
              BY <4>2 DEF One
        <5> QED
              BY <1>1, <5>1, <5>2
      <4> QED
            BY <4>1, <4>2
    <3>3. Held(hub_users', j) = Held(hub_users, j) + One(j = i)
      <4>1. Held(hub_users', j) = Held(hub_users, j)
                - One(n \in DOMAIN hub_users /\ hub_users[n] = j) + One(i = j)
            BY <1>1, <1>3, WithHeld DEF Finite
      <4>2. One(n \in DOMAIN hub_users /\ hub_users[n] = j) = 0
            BY <2>2 DEF One
      <4>3. One(i = j) = One(j = i) /\ One(j = i) \in Int
            BY DEF One
      <4> QED
            BY <1>1, <4>1, <4>2, <4>3
    <3>4. /\ Held(pending_userinfo', j) = Held(pending_userinfo, j)
          /\ Joined(uconn', j) = Joined(uconn, j)
          /\ One(browse_user' = j) = One(browse_user = j)
          /\ One(j \in responses') = One(j \in responses)
          BY <1>3
    <3>5. One(browse_user = j) \in Int /\ One(j \in responses) \in Int /\ One(j = i) \in Int
          BY DEF One
    <3> QED
          BY <1>1, <3>1, <3>2, <3>3, <3>4, <3>5 DEF Pointers
  <2>4. ConnsKept'
    <3>1. ASSUME NEW j \in DOMAIN infos'
          PROVE  /\ Elements(infos'[j].conn) \subseteq DOMAIN uconn'
                 /\ Len(infos'[j].conn) <= MaxConn
      <4>1. CASE j \in DOMAIN infos
            BY <1>1, <1>3, <1>5, <4>1 DEF ConnsKept
      <4>2. CASE j = i
        <5>1. infos'[j].conn = <<>>
              BY <1>5, <1>7, <2>1, <4>2
        <5> QED
              BY <5>1, UserConnsAssumption DEF Elements
      <4> QED
            BY <1>5, <4>1, <4>2
    <3> QED
          BY <3>1 DEF ConnsKept
  <2>5. (MemorySound <=> CountsExact /\ ConnsKept)'
        BY <1>9, <1>10, MemoryParts, PTL
  <2>6. CountsExact'
        BY <2>3 DEF CountsExact
  <2>7. Awaited'
    <3>1. ASSUME NEW m \in DOMAIN hub_users', infos'[hub_users'[m]].active_state \in Sent
          PROVE  m \in DOMAIN pending_userinfo' /\ pending_userinfo'[m] = hub_users'[m]
      <4>1. m # n
            BY <1>5, <1>6, <1>7, <3>1 DEF Sent
      <4> QED
            BY <1>1, <1>3, <1>5, <1>6, <2>1, <3>1, <4>1 DEF Awaited, Reachable
    <3>2. ASSUME NEW m \in DOMAIN pending_userinfo'
          PROVE  HasRoom(pending_userinfo[m])'
          BY <1>1, <1>3, <1>5, <2>1 DEF Awaited, Reachable, HasRoom
    <3> QED
          BY <3>1, <3>2 DEF Awaited
  <2> QED
        BY <2>4, <2>5, <2>6, <2>7
<1> QED
      BY <1>9, <1>10, <1>11, <1>12, <1>13, <1>14 DEF Inv
LEMMA NickListStep ==
    ASSUME Inv, MemorySound, NEW n \in Nick, NEW i \in Info, NickList(n, i)
    PROVE  Inv'
BY HelloStep DEF NickList

LEMMA StutterStep ==
    ASSUME Inv, UNCHANGED vars
    PROVE  Inv'
<1>1. /\ UNCHANGED <<user_conns, uconn, refused, infos, browse_user, responses,
                     is_active, past>>
      /\ UNCHANGED <<hub_users, pending_userinfo, logged_in>>
      BY DEF vars, hubVars
<1>2. TypeOK' = TypeOK /\ Finite' = Finite /\ KeysAreNames' = KeysAreNames
      BY <1>1 DEF TypeOK, Finite, KeysAreNames
<1>3. MemorySound' = MemorySound
      BY <1>1 DEF MemorySound, References
<1>4. ConnsListed' = ConnsListed /\ Tidy' = Tidy /\ Awaited' = Awaited
      BY <1>1 DEF ConnsListed, Tidy, NicksMatch, NamesMatch, ConnsMatch, Awaited, HasRoom
<1> QED
      BY <1>1, <1>2, <1>3, <1>4 DEF Inv

(* What is to be shown of a step of a connection.                          *)
LEMMA Assembled ==
    ASSUME Inv, MemorySound, TypeOK', Finite', KeysAreNames', past' = past,
           Reachable' => ConnsListed',
           Reachable' /\ "returned" \notin past => Tidy',
           past = {} => CountsExact' /\ ConnsKept',
           past = {} /\ Reachable' => Awaited'
    PROVE  Inv'
<1>1. MemorySound' => Reachable'
      BY MemoryReachable, PTL
<1>2. (MemorySound <=> CountsExact /\ ConnsKept)'
      BY MemoryParts, PTL
<1> QED
      BY <1>1, <1>2 DEF Inv

LEMMA UserConnectionNewStep ==
    ASSUME Inv, MemorySound, NEW c \in Conn, UserConnectionNew(c)
    PROVE  Inv'
<1>1. /\ TypeOK /\ Finite /\ KeysAreNames /\ Reachable /\ CountsExact /\ ConnsKept /\ ConnsListed
      /\ "returned" \notin past => Tidy
      /\ past = {} => Awaited
      /\ \A j : /\ Held(hub_users, j) \in Nat /\ Held(pending_userinfo, j) \in Nat
                /\ Joined(uconn, j) \in Nat /\ Count(infos, j) \in Int
      BY Starting
<1> DEFINE new == [name |-> c, info |-> NoInfo, dir |-> "unknown"]
<1>2. /\ c \notin DOMAIN uconn
      /\ UNCHANGED <<refused, infos, hub_users, pending_userinfo, logged_in, browse_user,
                     responses, is_active, past>>
      BY DEF UserConnectionNew, hubVars
<1>3. uconn' = With(uconn, c, new) /\ user_conns' = With(user_conns, c, c)
      BY DEF UserConnectionNew
<1>4. /\ new.name = c /\ new.info = NoInfo /\ new.dir = "unknown"
      /\ new \in [name : Name, info : Info \cup {NoInfo}, dir : Dir]
      BY DEF Name, Dir
<1> HIDE DEF new
<1>5. /\ DOMAIN uconn' = DOMAIN uconn \cup {c} /\ uconn'[c] = new
      /\ \A d \in DOMAIN uconn : uconn'[d] = uconn[d]
      BY <1>2, <1>3 DEF With
<1>6. /\ DOMAIN user_conns' = DOMAIN user_conns \cup {c} /\ user_conns'[c] = c
      /\ \A name \in DOMAIN user_conns \ {c} : user_conns'[name] = user_conns[name]
      BY <1>3 DEF With
<1>7. TypeOK'
  <2>1. c \in Name
        BY DEF Name
  <2>2. \A d \in DOMAIN uconn' : uconn'[d] \in [name : Name, info : Info \cup {NoInfo}, dir : Dir]
        BY <1>1, <1>4, <1>5 DEF TypeOK
  <2> QED
        BY <1>1, <1>2, <1>5, <1>6, <2>1, <2>2 DEF TypeOK
<1>8. Finite'
      BY <1>1, <1>2 DEF Finite
<1>9. KeysAreNames'
  <2>1. ASSUME NEW name \in DOMAIN user_conns'
        PROVE  user_conns'[name] \in DOMAIN uconn' /\ uconn'[user_conns'[name]].name = name
    <3>1. CASE name = c
          BY <1>4, <1>5, <1>6, <3>1
    <3>2. CASE name # c
          BY <1>1, <1>5, <1>6, <3>2 DEF KeysAreNames
    <3> QED
          BY <3>1, <3>2
  <2> QED
        BY <2>1 DEF KeysAreNames
<1>10. ConnsListed'
       BY <1>1, <1>2, <1>4, <1>5 DEF ConnsListed
<1>11. ASSUME "returned" \notin past
       PROVE  Tidy'
  <2>1. NicksMatch /\ NamesMatch /\ ConnsMatch
        BY <1>1, <1>11 DEF Tidy
  <2>2. NicksMatch'
        BY <1>2, <2>1 DEF NicksMatch
  <2>3. NamesMatch'
        BY <1>2, <1>4, <1>5, <2>1 DEF NamesMatch
  <2>4. ConnsMatch'
        BY <1>1, <1>2, <1>5, <2>1 DEF ConnsMatch, ConnsKept
  <2> QED
        BY <2>2, <2>3, <2>4 DEF Tidy
<1>12. CountsExact'
  <2>1. ASSUME NEW j \in Info
        PROVE  Joined(uconn', j) = Joined(uconn, j)
    <3>1. IsFiniteSet(DOMAIN uconn)
          BY <1>1, FS_Subset, UserConnsAssumption DEF TypeOK
    <3>2. DOMAIN uconn' \ {c} = DOMAIN uconn \ {c}
          BY <1>5
    <3>3. \A d \in DOMAIN uconn \ {c} : uconn'[d].info = uconn[d].info
          BY <1>5
    <3>4. Joined(uconn', j) = Joined(uconn, j) - One(c \in DOMAIN uconn /\ uconn[c].info = j)
                                               + One(c \in DOMAIN uconn' /\ uconn'[c].info = j)
          BY <3>1, <3>2, <3>3, JoinedTouched
    <3>5. One(c \in DOMAIN uconn /\ uconn[c].info = j) = 0
          BY <1>2 DEF One
    <3>6. One(c \in DOMAIN uconn' /\ uconn'[c].info = j) = 0
          BY <1>4, <1>5, UserConnsAssumption DEF One
    <3> QED
          BY <1>1, <3>4, <3>5, <3>6
  <2> QED
        BY <1>1, <1>2, <2>1 DEF CountsExact, Pointers
<1>13. ConnsKept'
       BY <1>1, <1>2, <1>5 DEF ConnsKept
<1>14. past = {} => Awaited'
       BY <1>1, <1>2 DEF Awaited, HasRoom
<1> QED
      BY <1>2, <1>7, <1>8, <1>9, <1>10, <1>11, <1>12, <1>13, <1>14, Assembled
LEMMA ServedConn ==
    ASSUME KeysAreNames, NEW c, Served(c)
    PROVE  c \in DOMAIN uconn /\ uconn[c].name \in DOMAIN user_conns
                /\ user_conns[uconn[c].name] = c
BY DEF Served, KeysAreNames

LEMMA RenamedProperties ==
    ASSUME KeysAreNames, NEW c \in DOMAIN uconn, NEW name,
           user_conns' = Renamed(c, name),
           DOMAIN uconn' = DOMAIN uconn, uconn'[c].name = name,
           \A d \in DOMAIN uconn \ {c} : uconn'[d] = uconn[d]
    PROVE  KeysAreNames' /\ DOMAIN user_conns' \subseteq DOMAIN user_conns \cup {name}
<1>1. /\ DOMAIN user_conns' = (DOMAIN user_conns \ {uconn[c].name}) \cup {name}
      /\ user_conns'[name] = c
      /\ \A key \in DOMAIN user_conns' \ {name} :
             key # uconn[c].name /\ user_conns'[key] = user_conns[key]
      BY DEF Renamed, With, Without
<1>2. ASSUME NEW key \in DOMAIN user_conns'
      PROVE  user_conns'[key] \in DOMAIN uconn' /\ uconn'[user_conns'[key]].name = key
  <2>1. CASE key = name
        BY <1>1, <2>1
  <2>2. CASE key # name
    <3>1. key \in DOMAIN user_conns /\ key # uconn[c].name /\ user_conns'[key] = user_conns[key]
          BY <1>1, <2>2
    <3>2. user_conns[key] \in DOMAIN uconn /\ uconn[user_conns[key]].name = key
          BY <3>1 DEF KeysAreNames
    <3> QED
          BY <3>1, <3>2
  <2> QED
        BY <2>1, <2>2
<1> QED
      BY <1>1, <1>2 DEF KeysAreNames

LEMMA AppendElements ==
    ASSUME NEW S, NEW s \in Seq(S), NEW x \in S
    PROVE  /\ Append(s, x) \in Seq(S) /\ Len(Append(s, x)) = Len(s) + 1
           /\ Elements(Append(s, x)) = Elements(s) \cup {x}
<1>1. /\ Append(s, x) \in Seq(S) /\ Len(Append(s, x)) = Len(s) + 1 /\ Len(s) \in Nat
      /\ \A k \in 1..Len(s) : Append(s, x)[k] = s[k]
      /\ Append(s, x)[Len(s) + 1] = x
      OBVIOUS
<1> QED
      BY <1>1 DEF Elements

(* The reference of the table of those who are waited for, given up.       *)
LEMMA PendingGivenUp ==
    ASSUME TypeOK, Finite, NEW n, NEW j, pending_userinfo' = Without(pending_userinfo, n)
    PROVE  /\ IsFiniteSet(DOMAIN pending_userinfo')
           /\ DOMAIN pending_userinfo' = DOMAIN pending_userinfo \ {n}
           /\ \A m \in DOMAIN pending_userinfo' : pending_userinfo'[m] = pending_userinfo[m]
           /\ Held(pending_userinfo', j) = Held(pending_userinfo, j)
                  - One(n \in DOMAIN pending_userinfo /\ pending_userinfo[n] = j)
<1>1. /\ IsFiniteSet(DOMAIN pending_userinfo')
      /\ Held(pending_userinfo', j) = Held(pending_userinfo, j)
             - One(n \in DOMAIN pending_userinfo /\ pending_userinfo[n] = j)
      BY WithoutHeld DEF Finite
<1> QED
      BY <1>1 DEF Without

LEMMA NickRefused ==
    ASSUME Inv, MemorySound, NEW c \in Conn, NEW n \in Nick, NEW i \in Info \cup {NoInfo},
           Served(c),
           i = IF n \in DOMAIN pending_userinfo THEN pending_userinfo[n]
               ELSE IF n \in DOMAIN hub_users THEN hub_users[n] ELSE NoInfo,
           ~(i # NoInfo /\ HasRoom(i)),
           infos' = IF n \in DOMAIN pending_userinfo THEN Release(infos, i) ELSE infos,
           Refuse(c),
           pending_userinfo' = Without(pending_userinfo, n),
           UNCHANGED <<hub_users, logged_in, browse_user, responses, is_active, past>>
    PROVE  Inv'
<1>1. /\ TypeOK /\ Finite /\ KeysAreNames /\ Reachable /\ CountsExact /\ IsInfos(infos)
      /\ Keeps(infos, infos)
      /\ past = {} => Awaited
      /\ \A j : /\ Held(hub_users, j) \in Nat /\ Held(pending_userinfo, j) \in Nat
                /\ Joined(uconn, j) \in Nat /\ Count(infos, j) \in Int
      BY Starting
<1>2. /\ IsInfos(infos') /\ Keeps(infos, infos') /\ SameStates(infos, infos')
      /\ \A j : Count(infos', j) = Count(infos, j)
                    - One(n \in DOMAIN pending_userinfo /\ pending_userinfo[n] = j)
  <2>1. CASE n \in DOMAIN pending_userinfo
    <3>1. i = pending_userinfo[n] /\ i \in DOMAIN infos /\ infos' = Release(infos, i)
          BY <1>1, <2>1 DEF Reachable
    <3>2. /\ IsInfos(infos') /\ Keeps(infos, infos') /\ SameStates(infos, infos')
          /\ \A j : Count(infos', j) = Count(infos, j) - One(j = i /\ i \in DOMAIN infos)
          BY <1>1, <3>1, ReleaseProperties
    <3>3. \A j : (j = i /\ i \in DOMAIN infos) = (n \in DOMAIN pending_userinfo /\ pending_userinfo[n] = j)
          BY <2>1, <3>1
    <3>4. \A j : One(j = i /\ i \in DOMAIN infos) = One(n \in DOMAIN pending_userinfo /\ pending_userinfo[n] = j)
          BY <3>3 DEF One
    <3> QED
          BY <3>2, <3>4
  <2>2. CASE n \notin DOMAIN pending_userinfo
    <3>1. infos' = infos
          BY <2>2
    <3>2. \A j : One(n \in DOMAIN pending_userinfo /\ pending_userinfo[n] = j) = 0
          BY <2>2 DEF One
    <3> QED
          BY <1>1, <3>1, <3>2 DEF SameStates
  <2> QED
        BY <2>1, <2>2
<1>3. /\ IsFiniteSet(DOMAIN pending_userinfo')
      /\ DOMAIN pending_userinfo' = DOMAIN pending_userinfo \ {n}
      /\ \A m \in DOMAIN pending_userinfo' : pending_userinfo'[m] = pending_userinfo[m]
      /\ \A j : Held(pending_userinfo', j) = Held(pending_userinfo, j)
                    - One(n \in DOMAIN pending_userinfo /\ pending_userinfo[n] = j)
      BY <1>1, PendingGivenUp
<1>4. ConnFrame
      BY <1>1, ServedConn DEF ConnFrame, Refuse, TypeOK, KeysAreNames
<1>5. HubFrame
      BY <1>1, <1>2, <1>3 DEF HubFrame, PastGrows, TypeOK, Finite
<1>6. ASSUME NEW j \in Info
      PROVE  Count(infos', j) = Pointers(j)'
  <2>1. Count(infos, j) = Pointers(j)
        BY <1>1 DEF CountsExact
  <2>2. Joined(uconn', j) = Joined(uconn, j) /\ Held(hub_users', j) = Held(hub_users, j)
        BY DEF Refuse
  <2>3. /\ One(n \in DOMAIN pending_userinfo /\ pending_userinfo[n] = j) \in Int
        /\ One(browse_user = j) \in Int /\ One(j \in responses) \in Int
        BY DEF One
  <2> QED
        BY <1>1, <1>2, <1>3, <2>1, <2>2, <2>3 DEF Pointers
<1>7. ASSUME past = {}, Reachable'
      PROVE  Awaited'
  <2>1. n \notin DOMAIN pending_userinfo
    <3>1. SUFFICES ASSUME n \in DOMAIN pending_userinfo
                   PROVE  FALSE
          OBVIOUS
    <3>2. i = pending_userinfo[n] /\ HasRoom(i)
          BY <1>1, <1>7, <3>1 DEF Awaited
    <3>3. i \in Info
          BY <1>1, <3>1, <3>2 DEF TypeOK
    <3> QED
          BY <3>2, <3>3, UserConnsAssumption
  <2>2. /\ DOMAIN pending_userinfo' = DOMAIN pending_userinfo
        /\ \A m \in DOMAIN pending_userinfo : pending_userinfo'[m] = pending_userinfo[m]
        BY <1>3, <2>1
  <2>3. \A j \in DOMAIN infos' : infos'[j].active_state \in Sent => infos[j].active_state \in Sent
        BY <1>2 DEF SameStates
  <2> QED
        BY <1>1, <1>2, <1>7, <2>2, <2>3, AwaitedKept
<1> QED
      BY <1>4, <1>5, <1>6, <1>7, NamedStep DEF PastGrows, HubFrame
(* What validate_nick makes of the user.                                   *)
Entered(I, i, c) ==
    [I EXCEPT ![i].refcount = @ + 1, ![i].conn = Append(@, c), ![i].active_state = Answered(@)]

LEMMA JoinedUser ==
    ASSUME IsInfos(infos), NEW c \in Conn, NEW i \in DOMAIN infos, NEW joined,
           joined = Entered(infos, i, c)
    PROVE  /\ IsInfos(joined) /\ DOMAIN joined = DOMAIN infos
           /\ \A j \in DOMAIN infos \ {i} : joined[j] = infos[j]
           /\ joined[i].nick = infos[i].nick
           /\ joined[i].refcount = infos[i].refcount + 1
           /\ joined[i].conn = Append(infos[i].conn, c)
           /\ joined[i].active_state \notin Sent
           /\ \A j : Count(joined, j) = Count(infos, j) + One(j = i)
<1>1. infos[i] \in InfoRecord
      BY DEF IsInfos
<1>2. Answered(infos[i].active_state) \in ActiveState \ Sent
      BY <1>1 DEF Answered, InfoRecord, ActiveState, Sent
<1>3. /\ DOMAIN joined = DOMAIN infos
      /\ \A j \in DOMAIN infos \ {i} : joined[j] = infos[j]
      /\ joined[i] = [infos[i] EXCEPT !.refcount = infos[i].refcount + 1,
                                      !.conn = Append(infos[i].conn, c),
                                      !.active_state = Answered(infos[i].active_state)]
      BY DEF Entered
<1>4. /\ joined[i].nick = infos[i].nick
      /\ joined[i].refcount = infos[i].refcount + 1
      /\ joined[i].conn = Append(infos[i].conn, c)
      /\ joined[i].active_state = Answered(infos[i].active_state)
      /\ joined[i] \in InfoRecord
  <2> DEFINE conn == Append(infos[i].conn, c)
             state == Answered(infos[i].active_state)
  <2>1. conn \in Seq(Conn) /\ state \in ActiveState /\ infos[i].refcount + 1 \in Int
        BY <1>1, <1>2, AppendElements DEF InfoRecord
  <2>2. joined[i] = [infos[i] EXCEPT !.refcount = infos[i].refcount + 1, !.conn = conn,
                                     !.active_state = state]
        BY <1>3
  <2> HIDE DEF conn, state
  <2>3. /\ joined[i].nick = infos[i].nick
        /\ joined[i].refcount = infos[i].refcount + 1
        /\ joined[i].conn = conn
        /\ joined[i].active_state = state
        /\ joined[i] \in InfoRecord
        BY <1>1, <2>1, <2>2 DEF InfoRecord
  <2> QED
        BY <2>3 DEF conn, state
<1>5. IsInfos(joined)
      BY <1>3, <1>4 DEF IsInfos
<1>6. \A j : Count(infos, j) \in Int
      BY CountInt
<1>7. \A j : Count(joined, j) = Count(infos, j) + One(j = i)
  <2>1. ASSUME NEW j
        PROVE  Count(joined, j) = Count(infos, j) + One(j = i)
    <3>1. CASE j = i
          BY <1>3, <1>4, <3>1 DEF Count, One
    <3>2. CASE j # i
          BY <1>3, <1>6, <3>2 DEF Count, One
    <3> QED
          BY <3>1, <3>2
  <2> QED
        BY <2>1
<1> QED
      BY <1>2, <1>3, <1>4, <1>5, <1>7

(* The reference that is given up is never the last one.                   *)
LEMMA JoinedReleased ==
    ASSUME NEW J, IsInfos(J), NEW i \in DOMAIN J, J[i].refcount # 1
    PROVE  /\ DOMAIN Release(J, i) = DOMAIN J
           /\ \A j \in DOMAIN J \ {i} : Release(J, i)[j] = J[j]
           /\ Release(J, i)[i].nick = J[i].nick
           /\ Release(J, i)[i].conn = J[i].conn
           /\ Release(J, i)[i].active_state = J[i].active_state
<1>1. Release(J, i) = [J EXCEPT ![i].refcount = @ - 1]
      BY DEF Release
<1>2. J[i] \in InfoRecord
      BY DEF IsInfos
<1>3. /\ DOMAIN Release(J, i) = DOMAIN J
      /\ \A j \in DOMAIN J \ {i} : Release(J, i)[j] = J[j]
      /\ Release(J, i)[i] = [J[i] EXCEPT !.refcount = @ - 1]
      BY <1>1
<1> QED
      BY <1>2, <1>3 DEF InfoRecord
LEMMA NickEntered ==
    ASSUME IsInfos(infos), NEW c \in Conn, NEW i \in DOMAIN infos, NEW n,
           n \in DOMAIN pending_userinfo => pending_userinfo[n] = i /\ infos[i].refcount >= 1,
           NEW joined, IsInfos(joined), DOMAIN joined = DOMAIN infos,
           \A j \in DOMAIN infos \ {i} : joined[j] = infos[j],
           joined[i].nick = infos[i].nick,
           joined[i].refcount = infos[i].refcount + 1,
           joined[i].conn = Append(infos[i].conn, c),
           joined[i].active_state \notin Sent,
           \A j : Count(joined, j) = Count(infos, j) + One(j = i),
           infos' = IF n \in DOMAIN pending_userinfo THEN Release(joined, i) ELSE joined
    PROVE  /\ IsInfos(infos') /\ DOMAIN infos' = DOMAIN infos
           /\ \A j \in DOMAIN infos \ {i} : infos'[j] = infos[j]
           /\ infos'[i].nick = infos[i].nick
           /\ infos'[i].conn = Append(infos[i].conn, c)
           /\ infos'[i].active_state \notin Sent
           /\ \A j : Count(infos', j) = Count(infos, j) + One(j = i)
                         - One(n \in DOMAIN pending_userinfo /\ pending_userinfo[n] = j)
<1>1. infos[i] \in InfoRecord /\ \A j : Count(infos, j) \in Int
      BY CountInt DEF IsInfos
<1>2. CASE n \notin DOMAIN pending_userinfo
  <2>1. infos' = joined
        BY <1>2
  <2>2. ASSUME NEW j
        PROVE  Count(infos', j) = Count(infos, j) + One(j = i)
                   - One(n \in DOMAIN pending_userinfo /\ pending_userinfo[n] = j)
    <3>1. One(n \in DOMAIN pending_userinfo /\ pending_userinfo[n] = j) = 0 /\ One(j = i) \in Int
          BY <1>2 DEF One
    <3>2. Count(infos', j) = Count(infos, j) + One(j = i)
          BY <2>1
    <3> QED
          BY <1>1, <3>1, <3>2
  <2> QED
        BY <2>1, <2>2
<1>3. CASE n \in DOMAIN pending_userinfo
  <2>1. infos' = Release(joined, i) /\ joined[i].refcount # 1 /\ pending_userinfo[n] = i
        BY <1>1, <1>3 DEF InfoRecord
  <2>2. /\ DOMAIN infos' = DOMAIN joined
        /\ \A j \in DOMAIN joined \ {i} : infos'[j] = joined[j]
        /\ infos'[i].nick = joined[i].nick
        /\ infos'[i].conn = joined[i].conn
        /\ infos'[i].active_state = joined[i].active_state
        BY <2>1, JoinedReleased
  <2>3. /\ IsInfos(Release(joined, i))
        /\ \A j : Count(Release(joined, i), j) = Count(joined, j) - One(j = i /\ i \in DOMAIN joined)
        BY ReleaseProperties
  <2>4. ASSUME NEW j
        PROVE  Count(infos', j) = Count(infos, j) + One(j = i)
                   - One(n \in DOMAIN pending_userinfo /\ pending_userinfo[n] = j)
    <3>1. One(n \in DOMAIN pending_userinfo /\ pending_userinfo[n] = j) = One(j = i)
          BY <1>3, <2>1 DEF One
    <3>2. One(j = i /\ i \in DOMAIN joined) = One(j = i)
          BY DEF One
    <3>3. Count(infos', j) = Count(joined, j) - One(j = i /\ i \in DOMAIN joined)
          BY <2>1, <2>3
    <3>4. Count(joined, j) = Count(infos, j) + One(j = i)
          OBVIOUS
    <3> DEFINE p == One(n \in DOMAIN pending_userinfo /\ pending_userinfo[n] = j)
               q == One(j = i /\ i \in DOMAIN joined)
    <3>5. /\ p = One(j = i) /\ q = One(j = i) /\ Count(infos', j) = Count(joined, j) - q
          /\ Count(infos, j) \in Int /\ One(j = i) \in Int
          BY <1>1, <3>1, <3>2, <3>3 DEF One
    <3> HIDE DEF p, q
    <3>6. Count(infos', j) = Count(infos, j) + One(j = i) - p
          BY <3>4, <3>5
    <3> QED
          BY <3>6 DEF p
  <2> QED
        BY <2>1, <2>2, <2>3, <2>4
<1> QED
      BY <1>2, <1>3
LEMMA ConnEntered ==
    ASSUME NEW C, NEW D, NEW c \in DOMAIN C, NEW i, NEW j, IsFiniteSet(DOMAIN C),
           DOMAIN D = DOMAIN C, \A d \in DOMAIN C \ {c} : D[d] = C[d],
           C[c].info # j, D[c].info = i, Joined(C, j) \in Nat
    PROVE  Joined(D, j) = Joined(C, j) + One(j = i)
<1>1. Joined(D, j) = Joined(C, j) - One(c \in DOMAIN C /\ C[c].info = j)
                                  + One(c \in DOMAIN D /\ D[c].info = j)
      BY JoinedTouched
<1>2. /\ One(c \in DOMAIN C /\ C[c].info = j) = 0
      /\ One(c \in DOMAIN D /\ D[c].info = j) = One(j = i)
      /\ One(j = i) \in Int
      BY DEF One
<1> QED
      BY <1>1, <1>2

LEMMA NickAccepted ==
    ASSUME Inv, MemorySound, NEW c \in Conn, NEW n \in Nick, NEW i \in Info,
           Served(c), uconn[c].info = NoInfo, HasRoom(i), i \in DOMAIN infos,
           n \in DOMAIN pending_userinfo => pending_userinfo[n] = i,
           n \notin DOMAIN pending_userinfo => n \in DOMAIN hub_users /\ hub_users[n] = i,
           IsInfos(infos'), DOMAIN infos' = DOMAIN infos,
           \A j \in DOMAIN infos \ {i} : infos'[j] = infos[j],
           infos'[i].nick = infos[i].nick,
           infos'[i].conn = Append(infos[i].conn, c),
           infos'[i].active_state \notin Sent,
           \A j : Count(infos', j) = Count(infos, j) + One(j = i)
                      - One(n \in DOMAIN pending_userinfo /\ pending_userinfo[n] = j),
           DOMAIN uconn' = DOMAIN uconn,
           \A d \in DOMAIN uconn \ {c} : uconn'[d] = uconn[d],
           uconn'[c].info = i, uconn'[c].name = Named(n, "unknown"),
           uconn'[c].dir = uconn[c].dir,
           uconn'[c] \in [name : Name, info : Info \cup {NoInfo}, dir : Dir],
           user_conns' = Renamed(c, Named(n, "unknown")),
           pending_userinfo' = Without(pending_userinfo, n),
           UNCHANGED <<refused, hub_users, logged_in, browse_user, responses, is_active, past>>
    PROVE  Inv'
<1>1. /\ TypeOK /\ Finite /\ KeysAreNames /\ Reachable /\ CountsExact /\ ConnsKept /\ ConnsListed
      /\ IsInfos(infos)
      /\ "returned" \notin past => Tidy
      /\ past = {} => Tidy /\ Awaited
      /\ \A j : /\ Held(hub_users, j) \in Nat /\ Held(pending_userinfo, j) \in Nat
                /\ Joined(uconn, j) \in Nat /\ Count(infos, j) \in Int
      BY Starting
<1>2. c \in DOMAIN uconn
      BY <1>1, ServedConn
<1>3. /\ IsFiniteSet(DOMAIN pending_userinfo')
      /\ DOMAIN pending_userinfo' = DOMAIN pending_userinfo \ {n}
      /\ \A m \in DOMAIN pending_userinfo' : pending_userinfo'[m] = pending_userinfo[m]
      /\ \A j : Held(pending_userinfo', j) = Held(pending_userinfo, j)
                    - One(n \in DOMAIN pending_userinfo /\ pending_userinfo[n] = j)
      BY <1>1, PendingGivenUp
<1>4. KeysAreNames' /\ DOMAIN user_conns' \subseteq DOMAIN user_conns \cup {Named(n, "unknown")}
      BY <1>1, <1>2, RenamedProperties
<1>5. TypeOK'
  <2>1. Named(n, "unknown") \in Name
        BY DEF Name, Dir
  <2>2. \A j \in DOMAIN infos' :
            infos'[j] \in [nick : Nick, refcount : Int, conn : Seq(Conn), active_state : ActiveState]
        BY DEF IsInfos, InfoRecord
  <2>3. \A d \in DOMAIN uconn' : uconn'[d] \in [name : Name, info : Info \cup {NoInfo}, dir : Dir]
        BY <1>1 DEF TypeOK
  <2>4. /\ DOMAIN pending_userinfo' \subseteq Nick
        /\ \A m \in DOMAIN pending_userinfo' : pending_userinfo'[m] \in Info
        BY <1>1, <1>3 DEF TypeOK
  <2> QED
        BY <1>1, <1>4, <2>1, <2>2, <2>3, <2>4 DEF TypeOK
<1>6. Finite'
      BY <1>1, <1>3 DEF Finite
<1> DEFINE conn == infos[i].conn
<1>7. conn \in Seq(Conn) /\ Len(conn) \in Nat /\ Len(conn) < MaxConn
      BY <1>1 DEF IsInfos, InfoRecord, HasRoom
<1>8. /\ Elements(infos'[i].conn) = Elements(conn) \cup {c}
      /\ Len(infos'[i].conn) = Len(conn) + 1
      /\ ((\A k, m \in 1..Len(conn) : conn[k] = conn[m] => k = m) /\ c \notin Elements(conn)) =>
             \A k, m \in 1..(Len(conn) + 1) : infos'[i].conn[k] = infos'[i].conn[m] => k = m
  <2>1. infos'[i].conn = Append(conn, c)
        OBVIOUS
  <2> HIDE DEF conn
  <2>2. /\ Elements(Append(conn, c)) = Elements(conn) \cup {c}
        /\ Len(Append(conn, c)) = Len(conn) + 1
        BY <1>7, AppendElements
  <2>3. ASSUME \A k, m \in 1..Len(conn) : conn[k] = conn[m] => k = m, c \notin Elements(conn)
        PROVE  \A k, m \in 1..(Len(conn) + 1) : Append(conn, c)[k] = Append(conn, c)[m] => k = m
    <3> DEFINE s == Append(conn, c)
    <3>1. (\A k \in 1..Len(conn) : s[k] = conn[k]) /\ s[Len(conn) + 1] = c
          BY <1>7
    <3>2. \A k \in 1..Len(conn) : conn[k] # c
          BY <2>3 DEF Elements
    <3>3. \A k \in 1..(Len(conn) + 1) : k \in 1..Len(conn) \/ k = Len(conn) + 1
          BY <1>7
    <3> HIDE DEF s
    <3>4. ASSUME NEW k \in 1..(Len(conn) + 1), NEW m \in 1..(Len(conn) + 1), s[k] = s[m]
          PROVE  k = m
      <4>1. CASE k \in 1..Len(conn) /\ m \in 1..Len(conn)
            BY <2>3, <3>1, <3>4, <4>1
      <4>2. CASE k = Len(conn) + 1 \/ m = Len(conn) + 1
            BY <3>1, <3>2, <3>3, <3>4, <4>2
      <4> QED
            BY <3>3, <4>1, <4>2
    <3> QED
          BY <3>4 DEF s
  <2> QED
        BY <2>1, <2>2, <2>3
<1> HIDE DEF conn
<1>9. ConnsListed'
  <2>1. ASSUME NEW d \in DOMAIN uconn', uconn'[d].info # NoInfo
        PROVE  d \in Elements(infos'[uconn'[d].info].conn)
    <3>1. CASE d = c
          BY <1>8, <3>1
    <3>2. CASE d # c
      <4>1. d \in DOMAIN uconn /\ uconn'[d] = uconn[d]
            BY <3>2
      <4>2. d \in Elements(infos[uconn[d].info].conn) /\ uconn[d].info \in DOMAIN infos
            BY <1>1, <2>1, <4>1 DEF ConnsListed, Reachable
      <4>3. CASE uconn[d].info = i
            BY <1>8, <4>1, <4>2, <4>3, ZenonT(40) DEF conn
      <4>4. CASE uconn[d].info # i
            BY <4>1, <4>2, <4>4
      <4> QED
            BY <4>3, <4>4
    <3> QED
          BY <3>1, <3>2
  <2> QED
        BY <2>1 DEF ConnsListed
<1>10. ASSUME "returned" \notin past, Reachable'
       PROVE  Tidy'
  <2>1. NicksMatch /\ NamesMatch /\ ConnsMatch
        BY <1>1, <1>10 DEF Tidy
  <2>2. \A j \in DOMAIN infos : infos'[j].nick = infos[j].nick
        OBVIOUS
  <2>3. infos[i].nick = n
        BY <2>1 DEF NicksMatch
  <2>4. NicksMatch'
        BY <1>1, <1>3, <2>1, <2>2 DEF NicksMatch, Reachable
  <2>5. NamesMatch'
    <3>1. ASSUME NEW d \in DOMAIN uconn'
          PROVE  IF uconn'[d].info = NoInfo
                 THEN uconn'[d].name = d /\ uconn'[d].dir = "unknown"
                 ELSE uconn'[d].name = Named(infos'[uconn'[d].info].nick, uconn'[d].dir)
      <4>1. CASE d = c
        <5>1. uconn[c].dir = "unknown"
              BY <1>2, <2>1 DEF NamesMatch
        <5>2. i # NoInfo
              BY UserConnsAssumption
        <5> QED
              BY <2>2, <2>3, <4>1, <5>1, <5>2
      <4>2. CASE d # c
        <5>1. d \in DOMAIN uconn /\ uconn'[d] = uconn[d]
              BY <4>2
        <5>2. uconn[d].info # NoInfo => uconn[d].info \in DOMAIN infos
              BY <1>1, <5>1 DEF Reachable
        <5>3. IF uconn[d].info = NoInfo
              THEN uconn[d].name = d /\ uconn[d].dir = "unknown"
              ELSE uconn[d].name = Named(infos[uconn[d].info].nick, uconn[d].dir)
              BY <2>1, <5>1 DEF NamesMatch
        <5> QED
              BY <2>2, <5>1, <5>2, <5>3
      <4> QED
            BY <4>1, <4>2
    <3> QED
          BY <3>1 DEF NamesMatch
  <2>6. ConnsMatch'
    <3>1. ASSUME NEW j \in DOMAIN infos'
          PROVE  /\ \A k, m \in 1..Len(infos'[j].conn) :
                        infos'[j].conn[k] = infos'[j].conn[m] => k = m
                 /\ \A d \in Elements(infos'[j].conn) : uconn'[d].info = j
      <4>1. /\ \A k, m \in 1..Len(infos[j].conn) : infos[j].conn[k] = infos[j].conn[m] => k = m
            /\ \A d \in Elements(infos[j].conn) : uconn[d].info = j
            /\ Elements(infos[j].conn) \subseteq DOMAIN uconn
            BY <1>1, <2>1 DEF ConnsMatch, ConnsKept
      <4>2. c \notin Elements(infos[j].conn)
        <5>1. j # NoInfo
              BY <1>1, UserConnsAssumption DEF TypeOK
        <5> QED
              BY <4>1, <5>1
      <4>3. CASE j = i
        <5>1. /\ \A k, m \in 1..Len(conn) : conn[k] = conn[m] => k = m
              /\ c \notin Elements(conn)
              /\ \A d \in Elements(conn) : d \in DOMAIN uconn /\ uconn[d].info = i
              BY <4>1, <4>2, <4>3 DEF conn
        <5>2. \A k, m \in 1..Len(infos'[i].conn) : infos'[i].conn[k] = infos'[i].conn[m] => k = m
              BY <1>8, <5>1
        <5>3. \A d \in Elements(infos'[i].conn) : uconn'[d].info = i
              BY <1>8, <5>1
        <5> QED
              BY <4>3, <5>2, <5>3
      <4>4. CASE j # i
        <5>1. infos'[j].conn = infos[j].conn
              BY <4>4
        <5>2. \A d \in Elements(infos[j].conn) : uconn'[d].info = j
              BY <4>1, <4>2
        <5> QED
              BY <4>1, <5>1, <5>2
      <4> QED
            BY <4>3, <4>4
    <3> QED
          BY <3>1 DEF ConnsMatch
  <2> QED
        BY <2>4, <2>5, <2>6 DEF Tidy
<1>11. CountsExact'
  <2>1. ASSUME NEW j \in Info
        PROVE  Count(infos', j) = Pointers(j)'
    <3>1. Count(infos, j) = Pointers(j)
          BY <1>1 DEF CountsExact
    <3>2. Joined(uconn', j) = Joined(uconn, j) + One(j = i)
      <4>1. IsFiniteSet(DOMAIN uconn)
            BY <1>1, FS_Subset, UserConnsAssumption DEF TypeOK
      <4>2. uconn[c].info # j
            BY UserConnsAssumption
      <4> QED
            BY <1>1, <1>2, <4>1, <4>2, ConnEntered
    <3>3. /\ Held(hub_users', j) = Held(hub_users, j)
          /\ One(browse_user' = j) = One(browse_user = j)
          /\ One(j \in responses') = One(j \in responses)
          OBVIOUS
    <3>4. /\ One(browse_user = j) \in Int /\ One(j \in responses) \in Int /\ One(j = i) \in Int
          /\ One(n \in DOMAIN pending_userinfo /\ pending_userinfo[n] = j) \in Int
          BY DEF One
    <3> QED
          BY <1>1, <1>3, <3>1, <3>2, <3>3, <3>4, SMTT(20) DEF Pointers
  <2> QED
        BY <2>1 DEF CountsExact
<1>12. ConnsKept'
  <2>1. ASSUME NEW j \in DOMAIN infos'
        PROVE  Elements(infos'[j].conn) \subseteq DOMAIN uconn' /\ Len(infos'[j].conn) <= MaxConn
    <3>1. CASE j = i
      <4>1. Elements(conn) \subseteq DOMAIN uconn
            BY <1>1 DEF ConnsKept, conn
      <4>2. Elements(infos'[i].conn) \subseteq DOMAIN uconn'
            BY <1>2, <1>8, <4>1
      <4>3. Len(infos'[i].conn) <= MaxConn
            BY <1>7, <1>8, UserConnsAssumption
      <4> QED
            BY <3>1, <4>2, <4>3
    <3>2. CASE j # i
          BY <1>1, <3>2 DEF ConnsKept
    <3> QED
          BY <3>1, <3>2
  <2> QED
        BY <2>1 DEF ConnsKept
<1>13. ASSUME past = {}, Reachable'
       PROVE  Awaited'
  <2>1. NicksMatch /\ Awaited
        BY <1>1, <1>13 DEF Tidy
  <2>2. ASSUME NEW m \in DOMAIN hub_users', infos'[hub_users'[m]].active_state \in Sent
        PROVE  m \in DOMAIN pending_userinfo' /\ pending_userinfo'[m] = hub_users'[m]
    <3>1. hub_users[m] # i /\ m \in DOMAIN hub_users /\ hub_users[m] \in DOMAIN infos
          BY <1>1, <2>2 DEF Reachable
    <3>2. infos[hub_users[m]].active_state \in Sent
          BY <2>2, <3>1
    <3>3. m \in DOMAIN pending_userinfo /\ pending_userinfo[m] = hub_users[m]
          BY <2>1, <3>1, <3>2 DEF Awaited
    <3> QED
          BY <1>3, <3>1, <3>3
  <2>3. ASSUME NEW m \in DOMAIN pending_userinfo'
        PROVE  HasRoom(pending_userinfo[m])'
    <3>1. m \in DOMAIN pending_userinfo /\ m # n /\ pending_userinfo'[m] = pending_userinfo[m]
          BY <1>3
    <3>2. infos[i].nick = n /\ infos[pending_userinfo[m]].nick = m
          BY <2>1, <3>1 DEF NicksMatch
    <3>3. pending_userinfo[m] \in DOMAIN infos /\ pending_userinfo[m] # i
          BY <1>1, <3>1, <3>2 DEF Reachable
    <3>4. HasRoom(pending_userinfo[m])
          BY <2>1, <3>1 DEF Awaited
    <3> QED
          BY <3>1, <3>3, <3>4 DEF HasRoom
  <2> QED
        BY <2>2, <2>3 DEF Awaited
<1> QED
      BY <1>4, <1>5, <1>6, <1>9, <1>10, <1>11, <1>12, <1>13, Assembled
LEMMA ValidateNickStep ==
    ASSUME Inv, MemorySound, NEW c \in Conn, NEW n \in Nick, ValidateNick(c, n)
    PROVE  Inv'
<1>1. /\ TypeOK /\ KeysAreNames /\ Reachable /\ CountsExact /\ IsInfos(infos) /\ Finite
      /\ \A j : /\ Held(hub_users, j) \in Nat /\ Held(pending_userinfo, j) \in Nat
                /\ Joined(uconn, j) \in Nat
      BY Starting
<1> DEFINE pending == n \in DOMAIN pending_userinfo
           i == IF pending THEN pending_userinfo[n]
                ELSE IF n \in DOMAIN hub_users THEN hub_users[n] ELSE NoInfo
           name == Named(n, "unknown")
           joined == [infos EXCEPT ![i].refcount = @ + 1, ![i].conn = Append(@, c),
                                   ![i].active_state = Answered(@)]
<1>2. /\ Served(c) /\ uconn[c].info = NoInfo
      /\ pending_userinfo' = Without(pending_userinfo, n)
      /\ UNCHANGED <<hub_users, logged_in, browse_user, responses, is_active, past>>
      /\ IF i # NoInfo /\ HasRoom(i)
         THEN /\ infos' = IF pending THEN Release(joined, i) ELSE joined
              /\ uconn' = [uconn EXCEPT ![c].info = i, ![c].name = name]
              /\ user_conns' = Renamed(c, name)
              /\ UNCHANGED refused
         ELSE /\ infos' = IF pending THEN Release(infos, i) ELSE infos
              /\ Refuse(c)
      BY DEF ValidateNick
<1>3. i \in Info \cup {NoInfo} /\ (i # NoInfo => i \in DOMAIN infos)
      BY <1>1 DEF TypeOK, Reachable
<1>4. CASE ~(i # NoInfo /\ HasRoom(i))
  <2>1. infos' = (IF pending THEN Release(infos, i) ELSE infos) /\ Refuse(c)
        BY <1>2, <1>4
  <2> QED
        BY <1>2, <1>3, <1>4, <2>1, NickRefused
<1>5. CASE i # NoInfo /\ HasRoom(i)
  <2>1. /\ infos' = IF pending THEN Release(joined, i) ELSE joined
        /\ uconn' = [uconn EXCEPT ![c].info = i, ![c].name = name]
        /\ user_conns' = Renamed(c, name)
        /\ UNCHANGED refused
        BY <1>2, <1>5
  <2>2. /\ i \in Info /\ i \in DOMAIN infos /\ HasRoom(i)
        /\ pending => pending_userinfo[n] = i
        /\ ~pending => n \in DOMAIN hub_users /\ hub_users[n] = i
        BY <1>3, <1>5
  <2>3. c \in DOMAIN uconn /\ name \in Name
        BY <1>1, <1>2, ServedConn DEF Name, Dir
  <2>4. /\ DOMAIN uconn' = DOMAIN uconn
        /\ \A d \in DOMAIN uconn \ {c} : uconn'[d] = uconn[d]
        /\ uconn'[c].info = i /\ uconn'[c].name = name /\ uconn'[c].dir = uconn[c].dir
        /\ uconn'[c] \in [name : Name, info : Info \cup {NoInfo}, dir : Dir]
    <3>1. uconn[c] \in [name : Name, info : Info \cup {NoInfo}, dir : Dir]
          BY <1>1, <2>3 DEF TypeOK
    <3> HIDE DEF i, name, joined, pending
    <3>2. /\ DOMAIN uconn' = DOMAIN uconn
          /\ \A d \in DOMAIN uconn \ {c} : uconn'[d] = uconn[d]
          /\ uconn'[c] = [uconn[c] EXCEPT !.info = i, !.name = name]
          BY <2>1, <2>3
    <3> QED
          BY <2>2, <2>3, <3>1, <3>2
  <2>5. /\ IsInfos(joined) /\ DOMAIN joined = DOMAIN infos
        /\ \A j \in DOMAIN infos \ {i} : joined[j] = infos[j]
        /\ joined[i].nick = infos[i].nick
        /\ joined[i].refcount = infos[i].refcount + 1
        /\ joined[i].conn = Append(infos[i].conn, c)
        /\ joined[i].active_state \notin Sent
        /\ \A j : Count(joined, j) = Count(infos, j) + One(j = i)
    <3>1. joined = Entered(infos, i, c)
          BY DEF Entered
    <3> HIDE DEF i, name, joined, pending
    <3> QED
          BY <1>1, <2>2, <3>1, JoinedUser
  <2>6. pending => infos[i].refcount >= 1
    <3>1. SUFFICES ASSUME pending
                   PROVE  infos[i].refcount >= 1
          OBVIOUS
    <3>2. pending_userinfo[n] = i /\ n \in DOMAIN pending_userinfo /\ i \in DOMAIN infos /\ i \in Info
          BY <2>2, <3>1
    <3> HIDE DEF i, name, joined, pending
    <3>3. Held(pending_userinfo, i) # 0
      <4>1. IsFiniteSet({m \in DOMAIN pending_userinfo : pending_userinfo[m] = i})
            BY <1>1, FS_Subset DEF Finite
      <4> QED
            BY <3>2, <4>1, FS_EmptySet DEF Held
    <3>4. infos[i].refcount = Pointers(i)
          BY <1>1, <3>2 DEF CountsExact, Count
    <3> QED
          BY <1>1, <3>3, <3>4 DEF Pointers, One
  <2> HIDE DEF i, name, joined
  <2>7. /\ IsInfos(infos') /\ DOMAIN infos' = DOMAIN infos
        /\ \A j \in DOMAIN infos \ {i} : infos'[j] = infos[j]
        /\ infos'[i].nick = infos[i].nick
        /\ infos'[i].conn = Append(infos[i].conn, c)
        /\ infos'[i].active_state \notin Sent
        /\ \A j : Count(infos', j) = Count(infos, j) + One(j = i)
                      - One(n \in DOMAIN pending_userinfo /\ pending_userinfo[n] = j)
        BY <1>1, <2>1, <2>2, <2>5, <2>6, NickEntered, SMTT(20)
  <2> QED
        BY <1>2, <2>1, <2>2, <2>4, <2>7, NickAccepted DEF name
<1> QED
      BY <1>4, <1>5
LEMMA JoinedKept ==
    ASSUME ConnFrame, NEW j
    PROVE  Joined(uconn', j) = Joined(uconn, j)
BY DEF ConnFrame, Joined

(* A connection gets its direction, or is refused, and nothing else.       *)
LEMMA NamedOnly ==
    ASSUME Inv, MemorySound, ConnFrame,
           UNCHANGED <<infos, hub_users, pending_userinfo, logged_in, browse_user, responses,
                       is_active, past>>
    PROVE  Inv'
<1>1. /\ TypeOK /\ Finite /\ CountsExact /\ IsInfos(infos) /\ Keeps(infos, infos)
      /\ past = {} => Awaited
      BY Starting
<1>2. HubFrame
      BY <1>1 DEF HubFrame, PastGrows, TypeOK, Finite
<1>3. \A j \in Info : Count(infos', j) = Pointers(j)'
      BY <1>1, JoinedKept DEF CountsExact, Pointers
<1>4. past' = {} => Awaited'
      BY <1>1 DEF Awaited, HasRoom
<1> QED
      BY <1>2, <1>3, <1>4, NamedStep

LEMMA NamedOutcome ==
    ASSUME Inv, MemorySound, ConnFrame, NEW o, SoundOutcome(infos, o), SetHub(o),
           past = {} => Balanced(infos, o),
           past = {} /\ Reachable' => Awaited',
           UNCHANGED <<browse_user, responses, is_active, past>>
    PROVE  Inv'
<1>1. /\ TypeOK /\ Finite /\ CountsExact
      /\ \A j : /\ Held(hub_users, j) \in Nat /\ Held(pending_userinfo, j) \in Nat
                /\ Joined(uconn, j) \in Nat /\ Count(infos, j) \in Int
      BY Starting
<1>2. HubFrame
      BY <1>1 DEF HubFrame, PastGrows, SoundOutcome, SetHub, TypeOK, Finite
<1>3. ASSUME past' = {}, NEW j \in Info
      PROVE  Count(infos', j) = Pointers(j)'
  <2>1. Count(infos', j) - Held(hub_users', j) - Held(pending_userinfo', j)
            = Count(infos, j) - Held(hub_users, j) - Held(pending_userinfo, j)
        BY <1>3 DEF Balanced, SetHub
  <2>2. Count(infos, j) = Pointers(j)
        BY <1>1 DEF CountsExact
  <2>3. Joined(uconn', j) = Joined(uconn, j)
        BY JoinedKept
  <2>4. Held(hub_users', j) \in Nat /\ Held(pending_userinfo', j) \in Nat
        BY <1>2, HeldNat DEF HubFrame
  <2>5. Count(infos', j) \in Int
        BY <1>2, CountInt DEF HubFrame
  <2>6. One(browse_user = j) \in Int /\ One(j \in responses) \in Int
        BY DEF One
  <2>7. Pointers(j)' = Held(hub_users', j) + Held(pending_userinfo', j) + Joined(uconn, j)
                           + One(browse_user = j) + One(j \in responses)
        BY <2>3 DEF Pointers
  <2> QED
    <3>1. Count(infos, j) = Held(hub_users, j) + Held(pending_userinfo, j) + Joined(uconn, j)
                                + One(browse_user = j) + One(j \in responses)
          BY <2>2 DEF Pointers
    <3>2. /\ Held(hub_users, j) \in Nat /\ Held(pending_userinfo, j) \in Nat
          /\ Joined(uconn, j) \in Nat
          BY <1>1
    <3> DEFINE b == One(browse_user = j)
               r == One(j \in responses)
    <3>3. b \in Int /\ r \in Int
          BY <2>6
    <3>4. /\ Count(infos, j) = Held(hub_users, j) + Held(pending_userinfo, j) + Joined(uconn, j) + b + r
          /\ Pointers(j)' = Held(hub_users', j) + Held(pending_userinfo', j) + Joined(uconn, j) + b + r
          BY <2>7, <3>1
    <3> HIDE DEF b, r
    <3> QED
          BY <2>1, <2>4, <2>5, <3>2, <3>3, <3>4
<1> QED
      BY <1>2, <1>3, NamedStep

LEMMA ValidateDirStep ==
    ASSUME Inv, MemorySound, NEW c \in Conn, NEW dir \in {"send", "receive"}, ValidateDir(c, dir)
    PROVE  Inv'
<1>1. /\ TypeOK /\ Finite /\ KeysAreNames /\ Reachable /\ Covered(infos) /\ IsInfos(infos)
      /\ Keeps(infos, infos)
      /\ past = {} => Tidy /\ Awaited
      BY Starting
<1> DEFINE i == uconn[c].info
           name == Named(infos[i].nick, dir)
           directed == [uconn EXCEPT ![c].dir = dir, ![c].name = name]
<1>2. /\ Served(c) /\ i # NoInfo
      /\ UNCHANGED <<browse_user, responses, is_active, past>>
      /\ \/ Refuse(c) /\ UNCHANGED <<infos, hubVars>>
         \/ /\ uconn' = directed /\ user_conns' = Renamed(c, name) /\ UNCHANGED refused
            /\ \/ UNCHANGED <<infos, hubVars>>
               \/ /\ HasRoom(i)
                  /\ \E o \in Connect(infos, i) : SetHub(o)
      BY DEF ValidateDir
<1>3. c \in DOMAIN uconn /\ i \in DOMAIN infos
      BY <1>1, <1>2, ServedConn DEF Reachable
<1>4. CASE Refuse(c) /\ UNCHANGED <<infos, hubVars>>
  <2>1. ConnFrame
        BY <1>1, <1>3, <1>4 DEF ConnFrame, Refuse, TypeOK, KeysAreNames
  <2> QED
        BY <1>2, <1>4, <2>1, NamedOnly DEF hubVars
<1>5. ASSUME uconn' = directed, user_conns' = Renamed(c, name), UNCHANGED refused
      PROVE  ConnFrame
  <2>1. uconn[c] \in [name : Name, info : Info \cup {NoInfo}, dir : Dir]
        BY <1>1, <1>3 DEF TypeOK
  <2>2. name \in Name /\ dir \in Dir
    <3>1. infos[i].nick \in Nick
          BY <1>1, <1>3 DEF TypeOK
    <3> QED
          BY <3>1 DEF Name, Dir
  <2> HIDE DEF name
  <2>3. /\ DOMAIN uconn' = DOMAIN uconn
        /\ \A d \in DOMAIN uconn \ {c} : uconn'[d] = uconn[d]
        /\ uconn'[c] = [uconn[c] EXCEPT !.dir = dir, !.name = name]
        BY <1>3, <1>5
  <2>4. /\ uconn'[c].name = name /\ uconn'[c].dir = dir /\ uconn'[c].info = i
        /\ uconn'[c] \in [name : Name, info : Info \cup {NoInfo}, dir : Dir]
        BY <2>1, <2>2, <2>3
  <2>5. KeysAreNames' /\ DOMAIN user_conns' \subseteq DOMAIN user_conns \cup {name}
        BY <1>1, <1>3, <1>5, <2>3, <2>4, RenamedProperties
  <2>6. /\ DOMAIN user_conns' \subseteq Name
        /\ refused' \subseteq DOMAIN uconn
        /\ \A d \in DOMAIN uconn : uconn[d] \in [name : Name, info : Info \cup {NoInfo}, dir : Dir]
        BY <1>1, <1>5, <2>2, <2>5 DEF TypeOK
  <2>7. ASSUME NEW d \in DOMAIN uconn
        PROVE  /\ uconn'[d] \in [name : Name, info : Info \cup {NoInfo}, dir : Dir]
               /\ uconn'[d].info = uconn[d].info
               /\ \/ uconn'[d] = uconn[d]
                  \/ /\ uconn[d].info # NoInfo
                     /\ uconn'[d].name = Named(infos[uconn[d].info].nick, uconn'[d].dir)
    <3>1. CASE d = c
          BY <1>2, <2>4, <3>1 DEF name
    <3>2. CASE d # c
          BY <2>3, <2>6, <3>2
    <3> QED
          BY <3>1, <3>2
  <2> QED
        BY <2>3, <2>5, <2>6, <2>7 DEF ConnFrame
<1>6. CASE /\ uconn' = directed /\ user_conns' = Renamed(c, name) /\ UNCHANGED refused
           /\ UNCHANGED <<infos, hubVars>>
  <2>1. ConnFrame
        BY <1>5, <1>6
  <2> QED
        BY <1>2, <1>6, <2>1, NamedOnly DEF hubVars
<1>7. ASSUME uconn' = directed, user_conns' = Renamed(c, name), UNCHANGED refused,
             HasRoom(i), NEW o \in Connect(infos, i), SetHub(o)
      PROVE  Inv'
  <2>1. ConnFrame
        BY <1>5, <1>7
  <2> HIDE DEF i, name, directed
  <2>2. /\ SoundOutcome(infos, o)
        /\ (infos[i].nick \in DOMAIN pending_userinfo => pending_userinfo[infos[i].nick] = i)
               => Balanced(infos, o)
        BY <1>1, <1>3, <1>7, ConnectOutcome
  <2>3. ASSUME past = {}
        PROVE  Balanced(infos, o)
    <3>1. infos[i].nick \in DOMAIN pending_userinfo => pending_userinfo[infos[i].nick] = i
          BY <1>1, <1>3, <2>3, PendingOwn
    <3> QED
          BY <2>2, <3>1
  <2>4. ASSUME past = {}, Reachable'
        PROVE  Awaited'
    <3>1. /\ Keeps(o.infos, infos') /\ SameStates(o.infos, infos')
          /\ hub_users' = o.hub_users /\ pending_userinfo' = o.pending
          BY <1>7 DEF SetHub, Keeps, SameStates
    <3>2. \A j \in DOMAIN infos : infos[j].active_state \in Sent => infos[j].active_state \in Sent
          OBVIOUS
    <3> QED
          BY <1>1, <1>3, <1>7, <2>4, <3>1, <3>2, ConnectAwaited
  <2> QED
        BY <1>2, <1>7, <2>1, <2>2, <2>3, <2>4, NamedOutcome
<1> QED
      BY <1>2, <1>4, <1>6, <1>7
-----------------------------------------------------------------------------
(* The end of a connection *)

LEMMA FirstPlace ==
    ASSUME NEW S, NEW s \in Seq(S), NEW c \in Elements(s)
    PROVE  \E k \in 1..Len(s) : s[k] = c /\ \A j \in 1..(k - 1) : s[j] # c
<1> DEFINE T == {k \in 1..Len(s) : s[k] = c}
<1>1. T # {} /\ T \subseteq Nat /\ Len(s) \in Nat
      BY DEF Elements
<1>2. PICK k \in T : \A j \in Nat : <<j, k>> \in OpToRel(<, Nat) => j \notin T
      BY <1>1, NatLessThanWellFounded, WFMin
<1>3. ASSUME NEW j \in 1..(k - 1)
      PROVE  s[j] # c
  <2> DEFINE l == Len(s)
  <2>1. l \in Nat /\ k \in 1..l
        BY <1>1
  <2> HIDE DEF l
  <2>2. j \in Nat /\ j < k /\ j \in 1..l /\ k \in Nat
        BY <2>1
  <2>3. <<j, k>> \in OpToRel(<, Nat)
        BY <2>2 DEF OpToRel
  <2>4. j \notin T
        BY <1>2, <2>2, <2>3
  <2> QED
        BY <2>2, <2>4 DEF l
<1> QED
      BY <1>2, <1>3

(* conn[] without c: c is gone if it was there once, and nothing else is.  *)
LEMMA UnlistedProperties ==
    ASSUME NEW S, NEW s \in Seq(S), NEW c \in Elements(s)
    PROVE  /\ Unlisted(s, c) \in Seq(S) /\ Len(Unlisted(s, c)) = Len(s) - 1
           /\ Elements(Unlisted(s, c)) \subseteq Elements(s)
           /\ Elements(s) \ {c} \subseteq Elements(Unlisted(s, c))
           /\ (\A k, m \in 1..Len(s) : s[k] = s[m] => k = m) =>
                  /\ c \notin Elements(Unlisted(s, c))
                  /\ \A k, m \in 1..Len(Unlisted(s, c)) :
                         Unlisted(s, c)[k] = Unlisted(s, c)[m] => k = m
<1> DEFINE p == CHOOSE k \in 1..Len(s) : s[k] = c /\ \A j \in 1..(k - 1) : s[j] # c
           u == Unlisted(s, c)
<1>1. Len(s) \in Nat /\ p \in 1..Len(s) /\ s[p] = c
      BY FirstPlace
<1>2. u = SubSeq(s, 1, p - 1) \o SubSeq(s, p + 1, Len(s))
      BY DEF Unlisted, RemoveAt
<1> HIDE DEF p, u
<1>3. /\ u \in Seq(S) /\ Len(u) = Len(s) - 1
      /\ \A k \in 1..(Len(s) - 1) : u[k] = IF k < p THEN s[k] ELSE s[k + 1]
  <2> DEFINE l == SubSeq(s, 1, p - 1)
             r == SubSeq(s, p + 1, Len(s))
  <2>1. /\ l \in Seq(S) /\ Len(l) = p - 1
        /\ \A k \in 1..(p - 1) : l[k] = s[k]
        BY <1>1
  <2>2. /\ r \in Seq(S) /\ Len(r) = Len(s) - p
        /\ \A k \in 1..(Len(s) - p) : r[k] = s[k + p]
        BY <1>1
  <2> HIDE DEF l, r
  <2>3. u = l \o r
        BY <1>2 DEF l, r
  <2>4. u \in Seq(S) /\ Len(u) = Len(s) - 1
        BY <1>1, <2>1, <2>2, <2>3
  <2>5. ASSUME NEW k \in 1..(Len(s) - 1)
        PROVE  u[k] = IF k < p THEN s[k] ELSE s[k + 1]
    <3>1. CASE k < p
      <4>1. u[k] = l[k] /\ k \in 1..(p - 1)
            BY <1>1, <2>1, <2>2, <2>3, <3>1
      <4> QED
            BY <2>1, <3>1, <4>1
    <3>2. CASE ~(k < p)
      <4>1. u[k] = r[k - (p - 1)] /\ k - (p - 1) \in 1..(Len(s) - p)
            BY <1>1, <2>1, <2>2, <2>3, <3>2
      <4>2. r[k - (p - 1)] = s[k - (p - 1) + p] /\ k - (p - 1) + p = k + 1
            BY <1>1, <2>2, <4>1
      <4> QED
            BY <3>2, <4>1, <4>2
    <3> QED
          BY <3>1, <3>2
  <2> QED
        BY <2>4, <2>5
<1>4. Elements(u) \subseteq Elements(s)
  <2>1. ASSUME NEW k \in 1..(Len(s) - 1)
        PROVE  u[k] \in Elements(s)
    <3>1. u[k] = s[k] \/ u[k] = s[k + 1]
          BY <1>3
    <3>2. k \in 1..Len(s) /\ k + 1 \in 1..Len(s)
          BY <1>1
    <3> QED
          BY <3>1, <3>2 DEF Elements
  <2> QED
        BY <1>3, <2>1 DEF Elements
<1>5. Elements(s) \ {c} \subseteq Elements(u)
  <2>1. ASSUME NEW k \in 1..Len(s), s[k] # c
        PROVE  s[k] \in Elements(u)
    <3>1. CASE k < p
      <4>1. k \in 1..(Len(s) - 1) /\ u[k] = s[k]
            BY <1>1, <1>3, <3>1
      <4> QED
            BY <1>3, <4>1 DEF Elements
    <3>2. CASE k > p
      <4>1. k - 1 \in 1..(Len(s) - 1) /\ ~(k - 1 < p) /\ (k - 1) + 1 = k
            BY <1>1, <3>2
      <4>2. u[k - 1] = s[k]
            BY <1>3, <4>1
      <4> QED
            BY <1>3, <4>1, <4>2 DEF Elements
    <3> QED
          BY <1>1, <2>1, <3>1, <3>2
  <2> QED
        BY <2>1 DEF Elements
<1>6. ASSUME \A k, m \in 1..Len(s) : s[k] = s[m] => k = m
      PROVE  /\ c \notin Elements(u)
             /\ \A k, m \in 1..Len(u) : u[k] = u[m] => k = m
  <2> DEFINE at(k) == IF k < p THEN k ELSE k + 1
  <2>1. ASSUME NEW k \in 1..(Len(s) - 1)
        PROVE  at(k) \in 1..Len(s) /\ at(k) # p /\ u[k] = s[at(k)]
        BY <1>1, <1>3
  <2>2. \A k, m \in 1..(Len(s) - 1) : at(k) = at(m) => k = m
        BY <1>1
  <2> HIDE DEF at
  <2>3. ASSUME NEW k \in 1..Len(u)
        PROVE  u[k] # c
    <3>1. at(k) \in 1..Len(s) /\ at(k) # p /\ u[k] = s[at(k)]
          BY <1>3, <2>1
    <3> QED
          BY <1>1, <1>6, <3>1
  <2>4. ASSUME NEW k \in 1..Len(u), NEW m \in 1..Len(u), u[k] = u[m]
        PROVE  k = m
    <3>1. /\ at(k) \in 1..Len(s) /\ u[k] = s[at(k)]
          /\ at(m) \in 1..Len(s) /\ u[m] = s[at(m)]
          BY <1>3, <2>1
    <3>2. at(k) = at(m)
          BY <1>6, <2>4, <3>1
    <3> QED
          BY <1>3, <2>2, <3>2
  <2> QED
        BY <2>3, <2>4 DEF Elements
<1> QED
      BY <1>3, <1>4, <1>5, <1>6 DEF u
Distinct(s) == \A k, m \in 1..Len(s) : s[k] = s[m] => k = m

(* t is s without c, if c was in s at most once.                           *)
Lost(s, t, c) ==
    /\ Len(t) <= Len(s)
    /\ Elements(t) \subseteq Elements(s) /\ Elements(s) \ {c} \subseteq Elements(t)
    /\ Distinct(s) => Distinct(t)

LEMMA ConnEnds ==
    ASSUME Inv, MemorySound, NEW c \in Conn, Served(c), NEW i, i = uconn[c].info,
           user_conns' = Without(user_conns, uconn[c].name),
           uconn' = Without(uconn, c), refused' = refused \ {c},
           IsInfos(infos'), DOMAIN infos' \subseteq DOMAIN infos, SameStates(infos, infos'),
           \A j \in DOMAIN infos' :
               infos'[j].nick = infos[j].nick /\ Lost(infos[j].conn, infos'[j].conn, c),
           i \in DOMAIN infos' /\ Distinct(infos[i].conn) => c \notin Elements(infos'[i].conn),
           \A j \in Info : Count(infos', j) = Count(infos, j) - One(j = i),
           UNCHANGED <<hub_users, pending_userinfo, logged_in, browse_user, responses,
                       is_active, past>>
    PROVE  Inv'
<1>1. /\ TypeOK /\ Finite /\ KeysAreNames /\ Reachable /\ CountsExact /\ ConnsKept /\ ConnsListed
      /\ IsInfos(infos)
      /\ "returned" \notin past => Tidy
      /\ past = {} => Tidy /\ Awaited
      /\ \A j : /\ Held(hub_users, j) \in Nat /\ Held(pending_userinfo, j) \in Nat
                /\ Joined(uconn, j) \in Nat /\ Count(infos, j) \in Int
      BY Starting
<1>2. c \in DOMAIN uconn
      BY <1>1, ServedConn
<1>3. /\ DOMAIN uconn' = DOMAIN uconn \ {c}
      /\ \A d \in DOMAIN uconn' : uconn'[d] = uconn[d]
      /\ DOMAIN user_conns' = DOMAIN user_conns \ {uconn[c].name}
      /\ \A name \in DOMAIN user_conns' : user_conns'[name] = user_conns[name]
      BY DEF Without
<1>4. TypeOK'
      BY <1>1, <1>3 DEF TypeOK, IsInfos, InfoRecord
<1>5. Finite'
      BY <1>1 DEF Finite
<1>6. KeysAreNames'
      BY <1>1, <1>3 DEF KeysAreNames
<1>7. ASSUME Reachable'
      PROVE  ConnsListed'
  <2>1. ASSUME NEW d \in DOMAIN uconn', uconn'[d].info # NoInfo
        PROVE  d \in Elements(infos'[uconn'[d].info].conn)
    <3>1. d \in DOMAIN uconn /\ uconn'[d] = uconn[d] /\ d # c
          BY <1>3
    <3>2. d \in Elements(infos[uconn[d].info].conn)
          BY <1>1, <2>1, <3>1 DEF ConnsListed
    <3>3. uconn[d].info \in DOMAIN infos'
          BY <1>7, <2>1, <3>1 DEF Reachable
    <3>4. Elements(infos[uconn[d].info].conn) \ {c} \subseteq Elements(infos'[uconn[d].info].conn)
          BY <3>3 DEF Lost
    <3> QED
          BY <3>1, <3>2, <3>4
  <2> QED
        BY <2>1 DEF ConnsListed
<1>8. ASSUME ConnsMatch, NEW j \in DOMAIN infos'
      PROVE  /\ Distinct(infos'[j].conn)
             /\ Elements(infos'[j].conn) \subseteq DOMAIN uconn'
             /\ \A d \in Elements(infos'[j].conn) : uconn'[d].info = j
             /\ Len(infos'[j].conn) <= MaxConn
  <2>1. j \in DOMAIN infos
        OBVIOUS
  <2>2. /\ Distinct(infos[j].conn)
        /\ \A d \in Elements(infos[j].conn) : uconn[d].info = j
        BY <1>8, <2>1 DEF ConnsMatch, Distinct
  <2>3. Elements(infos[j].conn) \subseteq DOMAIN uconn /\ Len(infos[j].conn) <= MaxConn
        BY <1>1, <2>1 DEF ConnsKept
  <2>4. /\ Distinct(infos'[j].conn) /\ Len(infos'[j].conn) <= Len(infos[j].conn)
        /\ Elements(infos'[j].conn) \subseteq Elements(infos[j].conn)
        BY <2>2 DEF Lost
  <2>5. c \notin Elements(infos'[j].conn)
    <3>1. CASE j = i
          BY <2>2, <3>1
    <3>2. CASE j # i
          BY <2>2, <2>4, <3>2
    <3> QED
          BY <3>1, <3>2
  <2>6. Len(infos'[j].conn) <= MaxConn
    <3>1. infos[j].conn \in Seq(Conn) /\ infos'[j].conn \in Seq(Conn)
          BY <1>1, <2>1 DEF IsInfos, InfoRecord
    <3>2. Len(infos[j].conn) \in Nat /\ Len(infos'[j].conn) \in Nat
          BY <3>1
    <3> QED
          BY <2>3, <2>4, <3>2, UserConnsAssumption
  <2> QED
        BY <1>3, <2>2, <2>3, <2>4, <2>5, <2>6
<1>9. ASSUME "returned" \notin past, Reachable'
      PROVE  Tidy'
  <2>1. NicksMatch /\ NamesMatch /\ ConnsMatch
        BY <1>1, <1>9 DEF Tidy
  <2>2. NicksMatch'
        BY <1>9, <2>1 DEF NicksMatch, Reachable
  <2>3. NamesMatch'
    <3>1. ASSUME NEW d \in DOMAIN uconn'
          PROVE  IF uconn'[d].info = NoInfo
                 THEN uconn'[d].name = d /\ uconn'[d].dir = "unknown"
                 ELSE uconn'[d].name = Named(infos'[uconn'[d].info].nick, uconn'[d].dir)
      <4>1. d \in DOMAIN uconn /\ uconn'[d] = uconn[d]
            BY <1>3
      <4>2. IF uconn[d].info = NoInfo
            THEN uconn[d].name = d /\ uconn[d].dir = "unknown"
            ELSE uconn[d].name = Named(infos[uconn[d].info].nick, uconn[d].dir)
            BY <2>1, <4>1 DEF NamesMatch
      <4>3. uconn[d].info # NoInfo => uconn[d].info \in DOMAIN infos'
            BY <1>9, <4>1 DEF Reachable
      <4> QED
            BY <4>1, <4>2, <4>3
    <3> QED
          BY <3>1 DEF NamesMatch
  <2>4. ConnsMatch'
        BY <1>8, <2>1 DEF ConnsMatch, Distinct
  <2> QED
        BY <2>2, <2>3, <2>4 DEF Tidy
<1>10. CountsExact'
  <2>1. ASSUME NEW j \in Info
        PROVE  Count(infos', j) = Pointers(j)'
    <3>1. Count(infos, j) = Held(hub_users, j) + Held(pending_userinfo, j) + Joined(uconn, j)
                                + One(browse_user = j) + One(j \in responses)
          BY <1>1 DEF CountsExact, Pointers
    <3>2. Joined(uconn', j) = Joined(uconn, j) - One(j = i)
      <4>1. IsFiniteSet(DOMAIN uconn)
            BY <1>1, FS_Subset, UserConnsAssumption DEF TypeOK
      <4>2. DOMAIN uconn' \ {c} = DOMAIN uconn \ {c}
            BY <1>3
      <4>3. \A d \in DOMAIN uconn \ {c} : uconn'[d].info = uconn[d].info
            BY <1>3
      <4>4. Joined(uconn', j) = Joined(uconn, j) - One(c \in DOMAIN uconn /\ uconn[c].info = j)
                                                 + One(c \in DOMAIN uconn' /\ uconn'[c].info = j)
            BY <4>1, <4>2, <4>3, JoinedTouched
      <4>5. One(c \in DOMAIN uconn /\ uconn[c].info = j) = One(j = i)
            BY <1>2 DEF One
      <4>6. One(c \in DOMAIN uconn' /\ uconn'[c].info = j) = 0
            BY <1>3 DEF One
      <4>7. One(j = i) \in Int
            BY DEF One
      <4> QED
            BY <1>1, <4>4, <4>5, <4>6, <4>7
    <3>3. Pointers(j)' = Held(hub_users, j) + Held(pending_userinfo, j) + Joined(uconn', j)
                             + One(browse_user = j) + One(j \in responses)
          BY DEF Pointers
    <3>4. /\ Held(hub_users, j) \in Nat /\ Held(pending_userinfo, j) \in Nat
          /\ Joined(uconn, j) \in Nat
          BY <1>1
    <3>5. Count(infos', j) = Count(infos, j) - One(j = i)
          OBVIOUS
    <3> DEFINE b == One(browse_user = j)
               r == One(j \in responses)
               e == One(j = i)
    <3>6. b \in Int /\ r \in Int /\ e \in Int
          BY DEF One
    <3>7. /\ Count(infos, j) = Held(hub_users, j) + Held(pending_userinfo, j) + Joined(uconn, j) + b + r
          /\ Pointers(j)' = Held(hub_users, j) + Held(pending_userinfo, j) + Joined(uconn', j) + b + r
          /\ Joined(uconn', j) = Joined(uconn, j) - e
          /\ Count(infos', j) = Count(infos, j) - e
          BY <3>1, <3>2, <3>3, <3>5
    <3> HIDE DEF b, r, e
    <3> QED
          BY <3>4, <3>6, <3>7
  <2> QED
        BY <2>1 DEF CountsExact
<1>11. past = {} => ConnsKept'
       BY <1>1, <1>8 DEF Tidy, ConnsKept
<1>12. ASSUME past = {}, Reachable'
       PROVE  Awaited'
  <2>1. Awaited
        BY <1>1, <1>12
  <2>2. ASSUME NEW n \in DOMAIN hub_users', infos'[hub_users'[n]].active_state \in Sent
        PROVE  n \in DOMAIN pending_userinfo' /\ pending_userinfo'[n] = hub_users'[n]
    <3>1. n \in DOMAIN hub_users /\ hub_users[n] \in DOMAIN infos'
          BY <1>12 DEF Reachable
    <3>2. infos[hub_users[n]].active_state \in Sent
          BY <2>2, <3>1 DEF SameStates
    <3> QED
          BY <2>1, <3>1, <3>2 DEF Awaited
  <2>3. ASSUME NEW n \in DOMAIN pending_userinfo'
        PROVE  HasRoom(pending_userinfo[n])'
    <3> DEFINE p == pending_userinfo[n]
    <3>1. p \in DOMAIN infos' /\ p \in DOMAIN infos
          BY <1>12 DEF Reachable
    <3>2. Len(infos[p].conn) < MaxConn
          BY <2>1 DEF Awaited, HasRoom
    <3>3. infos[p].conn \in Seq(Conn) /\ infos'[p].conn \in Seq(Conn)
          BY <1>1, <3>1 DEF IsInfos, InfoRecord
    <3>4. Len(infos[p].conn) \in Nat /\ Len(infos'[p].conn) \in Nat
          BY <3>3
    <3>5. Len(infos'[p].conn) <= Len(infos[p].conn)
          BY <3>1 DEF Lost
    <3>6. pending_userinfo'[n] = p
          OBVIOUS
    <3> HIDE DEF p
    <3> QED
          BY <3>2, <3>4, <3>5, <3>6, UserConnsAssumption DEF HasRoom
  <2> QED
        BY <2>2, <2>3 DEF Awaited
<1> QED
      BY <1>4, <1>5, <1>6, <1>7, <1>9, <1>10, <1>11, <1>12, Assembled
SetConn(I, i, conn) == [I EXCEPT ![i].conn = conn]

LEMMA ConnProperties ==
    ASSUME NEW I, IsInfos(I), NEW i \in DOMAIN I, NEW conn \in Seq(Conn),
           NEW J, J = SetConn(I, i, conn)
    PROVE  /\ IsInfos(J) /\ DOMAIN J = DOMAIN I
           /\ \A j \in DOMAIN I \ {i} : J[j] = I[j]
           /\ J[i].conn = conn /\ J[i].nick = I[i].nick
           /\ J[i].active_state = I[i].active_state
           /\ \A j : Count(J, j) = Count(I, j)
<1>1. I[i] \in InfoRecord
      BY DEF IsInfos
<1>2. /\ DOMAIN J = DOMAIN I
      /\ \A j \in DOMAIN I \ {i} : J[j] = I[j]
      /\ J[i] = [I[i] EXCEPT !.conn = conn]
      BY DEF SetConn
<1>3. /\ J[i] \in InfoRecord
      /\ J[i].nick = I[i].nick
      /\ J[i].conn = conn
      /\ J[i].active_state = I[i].active_state
      /\ J[i].refcount = I[i].refcount
      BY <1>1, <1>2 DEF InfoRecord
<1>4. IsInfos(J)
      BY <1>2, <1>3 DEF IsInfos
<1>5. \A j : Count(J, j) = Count(I, j)
      BY <1>2, <1>3 DEF Count
<1> QED
      BY <1>2, <1>3, <1>4, <1>5

LEMMA UserDisconnectStep ==
    ASSUME Inv, MemorySound, NEW c \in Conn, UserDisconnect(c)
    PROVE  Inv'
<1>1. /\ TypeOK /\ KeysAreNames /\ Reachable /\ ConnsListed /\ IsInfos(infos)
      /\ \A j : Count(infos, j) \in Int
      BY Starting
<1> DEFINE i == uconn[c].info
<1>2. /\ Served(c)
      /\ user_conns' = Without(user_conns, uconn[c].name)
      /\ uconn' = Without(uconn, c) /\ refused' = refused \ {c}
      /\ UNCHANGED <<hub_users, pending_userinfo, logged_in, browse_user, responses,
                     is_active, past>>
      BY DEF UserDisconnect, hubVars
<1>3. c \in DOMAIN uconn /\ (i # NoInfo => i \in DOMAIN infos)
      BY <1>1, <1>2, ServedConn DEF Reachable
<1>4. CASE i = NoInfo
  <2>1. infos' = infos
        BY <1>4 DEF UserDisconnect
  <2>2. \A j \in DOMAIN infos : Lost(infos[j].conn, infos[j].conn, c)
    <3>1. ASSUME NEW j \in DOMAIN infos
          PROVE  Len(infos[j].conn) \in Nat
      <4>1. infos[j].conn \in Seq(Conn)
            BY <1>1 DEF IsInfos, InfoRecord
      <4> QED
            BY <4>1
    <3> QED
          BY <3>1 DEF Lost
  <2>3. i \notin DOMAIN infos
        BY <1>1, <1>4, UserConnsAssumption DEF TypeOK
  <2>4. \A j \in Info : Count(infos', j) = Count(infos, j) - One(j = i)
    <3>1. \A j \in Info : One(j = i) = 0
          BY <1>4, UserConnsAssumption DEF One
    <3> QED
          BY <1>1, <2>1, <3>1
  <2>5. SameStates(infos, infos') /\ IsInfos(infos') /\ DOMAIN infos' \subseteq DOMAIN infos
        BY <1>1, <2>1 DEF SameStates
  <2>6. \A j \in DOMAIN infos' :
            infos'[j].nick = infos[j].nick /\ Lost(infos[j].conn, infos'[j].conn, c)
        BY <2>1, <2>2
  <2>7. i \in DOMAIN infos' /\ Distinct(infos[i].conn) => c \notin Elements(infos'[i].conn)
        BY <2>1, <2>3
  <2> QED
        BY <1>2, <2>4, <2>5, <2>6, <2>7, ConnEnds
<1>5. CASE i # NoInfo
  <2> DEFINE u == Unlisted(infos[i].conn, c)
             K == SetConn(infos, i, u)
  <2>1. infos' = Release(K, i)
        BY <1>5 DEF UserDisconnect, SetConn
  <2>2. i \in DOMAIN infos /\ infos[i].conn \in Seq(Conn) /\ c \in Elements(infos[i].conn)
        BY <1>1, <1>3, <1>5 DEF IsInfos, InfoRecord, ConnsListed
  <2>3. /\ u \in Seq(Conn) /\ Len(u) = Len(infos[i].conn) - 1
        /\ Elements(u) \subseteq Elements(infos[i].conn)
        /\ Elements(infos[i].conn) \ {c} \subseteq Elements(u)
        /\ Distinct(infos[i].conn) => c \notin Elements(u) /\ Distinct(u)
        BY <2>2, UnlistedProperties DEF Distinct
  <2> HIDE DEF i, u
  <2>4. /\ IsInfos(K) /\ DOMAIN K = DOMAIN infos
        /\ \A j \in DOMAIN infos \ {i} : K[j] = infos[j]
        /\ K[i].conn = u /\ K[i].nick = infos[i].nick
        /\ K[i].active_state = infos[i].active_state
        /\ \A j : Count(K, j) = Count(infos, j)
        BY <1>1, <2>2, <2>3, ConnProperties
  <2> HIDE DEF K
  <2>5. /\ IsInfos(Release(K, i))
        /\ Keeps(K, Release(K, i)) /\ SameStates(K, Release(K, i))
        /\ \A j : Count(Release(K, i), j) = Count(K, j) - One(j = i /\ i \in DOMAIN K)
        BY <2>4, ReleaseProperties
  <2>6. DOMAIN infos' \subseteq DOMAIN infos /\ IsInfos(infos')
        BY <2>1, <2>4, <2>5 DEF Keeps
  <2>7. \A j \in Info : Count(infos', j) = Count(infos, j) - One(j = i)
    <3>1. \A j : (j = i /\ i \in DOMAIN K) = (j = i)
          BY <2>2, <2>4
    <3>2. \A j : One(j = i /\ i \in DOMAIN K) = One(j = i)
          BY <3>1 DEF One
    <3> QED
          BY <2>1, <2>4, <2>5, <3>2
  <2>8. ASSUME NEW j \in DOMAIN infos'
        PROVE  /\ infos'[j].nick = infos[j].nick /\ Lost(infos[j].conn, infos'[j].conn, c)
               /\ infos'[j].active_state = infos[j].active_state
    <3>1. /\ infos'[j].nick = K[j].nick /\ infos'[j].conn = K[j].conn
          /\ infos'[j].active_state = K[j].active_state
          BY <2>1, <2>5 DEF Keeps, SameStates
    <3>2. j \in DOMAIN infos /\ Len(infos[j].conn) \in Nat
      <4>1. j \in DOMAIN infos
            BY <2>6
      <4>2. infos[j].conn \in Seq(Conn)
            BY <1>1, <4>1 DEF IsInfos, InfoRecord
      <4> QED
            BY <4>1, <4>2
    <3>3. CASE j = i
      <4>1. infos'[j].conn = u
            BY <2>4, <3>1, <3>3
      <4>2. Lost(infos[j].conn, u, c)
            BY <2>3, <3>2, <3>3 DEF Lost
      <4> QED
            BY <2>4, <3>1, <3>3, <4>1, <4>2
    <3>4. CASE j # i
      <4>1. K[j] = infos[j]
            BY <2>4, <3>2, <3>4
      <4> QED
            BY <3>1, <3>2, <4>1 DEF Lost
    <3> QED
          BY <3>3, <3>4
  <2>9. i \in DOMAIN infos' /\ Distinct(infos[i].conn) => c \notin Elements(infos'[i].conn)
    <3>1. i \in DOMAIN infos' => infos'[i].conn = u
          BY <2>1, <2>4, <2>5 DEF Keeps
    <3> QED
          BY <2>3, <3>1
  <2>10. SameStates(infos, infos')
         BY <2>8 DEF SameStates
  <2>11. i = uconn[c].info
         BY DEF i
  <2> QED
        BY <1>2, <2>6, <2>7, <2>8, <2>9, <2>10, <2>11, ConnEnds
<1> QED
      BY <1>4, <1>5

-----------------------------------------------------------------------------
(* Every state *)

LEMMA NextInv ==
    ASSUME Inv, [Next]_vars
    PROVE  Inv'
<1>1. CASE UNCHANGED vars
      BY <1>1, StutterStep
<1>2. CASE Next
  <2>1. MemorySound
        BY <1>2 DEF Next
  <2>2. CASE HubStep
        BY <2>1, <2>2, HubLoginStep, HubDisconnectStep, HubReloadUsersStep, MyINFOStep, QuitStep,
           RevConnectToMeStep, HelloStep, NickListStep DEF HubStep
  <2>3. CASE CommandStep
        BY <2>1, <2>3, SetActiveStep, BrowseNoneStep, BrowseStep, HandleSearchResultStep,
           ConnectByCommandStep, UnsearchStep DEF CommandStep
  <2>4. CASE ConnStep
        BY <2>1, <2>4, UserConnectionNewStep, UserDisconnectStep, ValidateNickStep,
           ValidateDirStep DEF ConnStep
  <2> QED
        BY <1>2, <2>2, <2>3, <2>4 DEF Next
<1> QED
      BY <1>1, <1>2

(* The inductive invariant holds: the tables are well formed, names lead   *)
(* to connections of that name, conn[] lists the connections of a user,    *)
(* and, until a nick gets a second info or browse loses the hub, every     *)
(* count is the number of pointers and whoever was asked is waited for.    *)
THEOREM InvHolds == Spec => []Inv
<1>1. Init => Inv
      BY InitInv
<1>2. Inv /\ [Next]_vars => Inv'
      BY NextInv
<1> QED
      BY <1>1, <1>2, PTL DEF Spec

(* user_conns leads to allocated connections, under their own names        *)
(* (update_user_connection_name, user_disconnect).                         *)
THEOREM NamesAreRight == Spec => []KeysAreNames
<1>1. Inv => KeysAreNames
      BY DEF Inv
<1> QED
      BY <1>1, InvHolds, PTL

(* No user is freed while something points to it and none is kept when     *)
(* nothing does (user_info_free), as long as no nick gets a second info    *)
(* and browse does not lose the hub.                                       *)
THEOREM CountsAreExact == Spec => []RefcountExact
<1>1. Inv => RefcountExact
      BY DEF Inv, RefcountExact
<1> QED
      BY <1>1, InvHolds, PTL

(* Whoever was sent a request to connect is waited for, and has room for   *)
(* the connection (hub_connect_user, validate_nick).                       *)
THEOREM AskedAreAwaited == Spec => []SentIsAwaited
<1>1. Inv => SentIsAwaited
      BY DEF Inv, SentIsAwaited, Awaited
<1> QED
      BY <1>1, InvHolds, PTL

(* A sequence without repetitions has as many elements as places.          *)
LEMMA DistinctCount ==
    ASSUME NEW S, NEW s \in Seq(S), Distinct(s)
    PROVE  Cardinality(Elements(s)) = Len(s)
<1> DEFINE f == [k \in 1..Len(s) |-> s[k]]
<1>1. f \in [1..Len(s) -> Elements(s)]
      BY DEF Elements
<1>2. IsInjective(f)
      BY DEF IsInjective, Distinct
<1>3. \A x \in Elements(s) : \E k \in 1..Len(s) : f[k] = x
      BY DEF Elements
<1>4. f \in Bijection(1..Len(s), Elements(s))
      BY <1>1, <1>2, <1>3 DEF Bijection, Injection, Surjection
<1>5. ExistsBijection(1..Len(s), Elements(s))
      BY <1>4 DEF ExistsBijection
<1>6. IsFiniteSet(1..Len(s)) /\ Cardinality(1..Len(s)) = Len(s)
  <2>1. Len(s) \in Nat /\ 1 \in Int
        OBVIOUS
  <2> QED
        BY <2>1, FS_Interval
<1> QED
      BY <1>5, <1>6, FS_Bijection

(* The fields of the structures have their types, and conn[] of a user and *)
(* the users of the connections say the same (validate_nick,               *)
(* user_disconnect), a returned user aside.                                *)
THEOREM ConnsAreSound == Spec => []ConnsSound
<1>1. ASSUME Inv
      PROVE  ConnsSound
  <2>1. ASSUME MemorySound, "returned" \notin past, NEW i \in DOMAIN infos
        PROVE  /\ Cardinality(Elements(infos[i].conn)) = Len(infos[i].conn)
               /\ \A c \in Elements(infos[i].conn) : uconn[c].info = i
    <3>1. ConnsMatch /\ TypeOK
          BY <1>1, <2>1 DEF Inv, Tidy
    <3>2. Distinct(infos[i].conn) /\ infos[i].conn \in Seq(Conn)
          BY <2>1, <3>1 DEF ConnsMatch, Distinct, TypeOK
    <3> QED
          BY <2>1, <3>1, <3>2, DistinctCount DEF ConnsMatch
  <2> QED
        BY <1>1, <2>1 DEF Inv, ConnsSound, ConnsMatchInfos, ConnsListed
<1> QED
      BY <1>1, InvHolds, PTL
=============================================================================
