----------------------------- MODULE UserConns -----------------------------
(***************************************************************************)
(* The users of the hub and the connections to them (hub.c, main.c).  A    *)
(* DCUserInfo is shared by the hub's list, the users who were asked to     *)
(* connect, the connections, the browsed user and the search results, and  *)
(* counts them; a DCUserConn is found by a name that changes as more is    *)
(* known of it.                                                            *)
(*                                                                         *)
(* A state in which a count is wrong or freed memory can be reached is the *)
(* last one of a behaviour: what follows is a leak or the use of memory    *)
(* that is gone.                                                           *)
(***************************************************************************)
EXTENDS Integers, Sequences, FiniteSets, SequencesExt

CONSTANTS
    Nick,
    Conn,          \* addresses of DCUserConn structures, also their names
                   \* "unknown<n>" while the nick is not known
    Info,          \* addresses of DCUserInfo structures
    MaxConn,       \* DC_USER_MAX_CONN
    MaxResponses,  \* bound: users that a search response refers to
    NoInfo         \* a NULL DCUserInfo

ASSUME UserConnsAssumption ==
    /\ IsFiniteSet(Conn)
    /\ MaxConn \in Nat \ {0}
    /\ NoInfo \notin Info

VARIABLES
    user_conns,        \* name -> connection
    uconn,             \* connection -> [name, info, dir], for the allocated
    refused,           \* connections whose process was told to give up
    infos,             \* info -> [nick, refcount, conn, active_state], for the
                       \* allocated; conn is conn[0..conn_count-1]
    hub_users,         \* nick -> info
    pending_userinfo,  \* nick -> info
    browse_user,
    responses,         \* infos that a search response refers to
    logged_in,         \* the hub is connected, hub_putf may succeed
    is_active,
    past               \* history: "returned" when a DCUserInfo was made for a
                       \* nick that had one, "cut off" when browse lost the hub

hubVars == <<hub_users, pending_userinfo, logged_in>>
vars == <<user_conns, uconn, refused, infos, hubVars, browse_user, responses,
          is_active, past>>

ActiveState == {"UNKNOWN", "KNOWN_ACTIVE", "RECEIVED_PASSIVE", "SENT_PASSIVE",
                "SENT_ACTIVE"}
Sent == {"SENT_PASSIVE", "SENT_ACTIVE"}
Dir == {"unknown", "send", "receive"}
Suffix == [unknown |-> "", send |-> "UL", receive |-> "DL"]
Named(n, dir) == <<n, Suffix[dir]>>
Name == Conn \cup {Named(n, d) : n \in Nick, d \in Dir}

(* The names of unknown connections have no bar, the others have one.      *)
ASSUME NameAssumption == \A n \in Nick, d \in Dir : Named(n, d) \notin Conn

Empty == [x \in {} |-> x]
With(f, x, v) == [y \in DOMAIN f \cup {x} |-> IF y = x THEN v ELSE f[y]]
Without(f, x) == [y \in DOMAIN f \ {x} |-> f[y]]
Elements(s) == {s[k] : k \in 1..Len(s)}

Init ==
    /\ user_conns = Empty
    /\ uconn = Empty
    /\ refused = {}
    /\ infos = Empty
    /\ hub_users = Empty
    /\ pending_userinfo = Empty
    /\ browse_user = NoInfo
    /\ responses = {}
    /\ logged_in = FALSE
    /\ is_active \in BOOLEAN
    /\ past = {}

-----------------------------------------------------------------------------
(* What is referred to *)

(* The pointers to info i, by where they are.                              *)
References(i) ==
    {<<"hub", n>> : n \in {n \in DOMAIN hub_users : hub_users[n] = i}} \cup
    {<<"pending", n>> : n \in {n \in DOMAIN pending_userinfo : pending_userinfo[n] = i}} \cup
    {<<"conn", c>> : c \in {c \in DOMAIN uconn : uconn[c].info = i}} \cup
    {<<"browse", x>> : x \in {browse_user} \cap {i}} \cup
    {<<"response", x>> : x \in responses \cap {i}}

(* Every structure that can be reached is allocated, the reference count   *)
(* of a user is the number of pointers to it, and conn[] was not written   *)
(* beyond its end.                                                         *)
MemorySound ==
    /\ \A i \in Info \ DOMAIN infos : References(i) = {}
    /\ \A i \in DOMAIN infos :
           /\ infos[i].refcount = Cardinality(References(i))
           /\ Elements(infos[i].conn) \subseteq DOMAIN uconn
           /\ Len(infos[i].conn) <= MaxConn

-----------------------------------------------------------------------------
(* DCUserInfo: I is a value of infos *)

(* user_info_free                                                          *)
Release(I, i) ==
    IF i \notin DOMAIN I THEN I
    ELSE IF I[i].refcount = 1 THEN Without(I, i)
    ELSE [I EXCEPT ![i].refcount = @ - 1]

(* The entries of table f that refer to i.                                 *)
Held(f, i) == Cardinality({n \in DOMAIN f : f[n] = i})

(* Release, for every entry of table f                                     *)
ReleaseAll(I, f) ==
    [i \in {j \in DOMAIN I : Held(f, j) = 0 \/ I[j].refcount > Held(f, j)} |->
        [I[i] EXCEPT !.refcount = @ - Held(f, i)]]

Retain(I, i) == [I EXCEPT ![i].refcount = @ + 1]

(* has_user_conn, when uconn is C                                          *)
HasUserConn(i, C, dir) == \E c \in Elements(infos[i].conn) : C[c].dir = dir

HasRoom(i) == Len(infos[i].conn) < MaxConn

(* The connections that user_info_new finds by their names.                *)
ConnsOf(n) ==
    LET Found(name) == IF name \in DOMAIN user_conns THEN <<user_conns[name]>> ELSE <<>>
    IN  Found(Named(n, "send")) \o Found(Named(n, "receive")) \o Found(Named(n, "unknown"))

(* user_info_new.  The third connection is stored behind conn[], where     *)
(* conn_count is: a NULL there sets the count to 0, unless the compiler    *)
(* keeps the count elsewhere.                                              *)
UserInfoNew(i, n) ==
    \E conn \in {ConnsOf(n)} \cup (IF Len(ConnsOf(n)) = MaxConn THEN {<<>>} ELSE {}) :
        infos' = With(infos, i, [nick |-> n, refcount |-> 1, conn |-> conn,
                                 active_state |-> "UNKNOWN"])

(* hub_disconnect: what it leaves of the value I of infos.                 *)
Disconnected(I) ==
    [infos |-> ReleaseAll(ReleaseAll(I, hub_users), pending_userinfo),
     hub_users |-> Empty, pending |-> Empty, logged_in |-> FALSE]

Asked(I, i) ==
    [I EXCEPT ![i].active_state = IF is_active THEN "SENT_ACTIVE" ELSE "SENT_PASSIVE"]

\* Variant of Connect: a second request for a user counts again.
ConnectRecounted(I, i) ==
    {[infos |-> Retain(Asked(I, i), i), hub_users |-> hub_users,
      pending |-> With(pending_userinfo, I[i].nick, i), logged_in |-> TRUE]}

(* hub_connect_user(i) when infos is I: the possible results.  Without a   *)
(* hub the message cannot be sent.                                         *)
Connect(I, i) ==
    LET waiting == IF is_active THEN I[i].active_state = "SENT_ACTIVE"
                   ELSE I[i].active_state \in {"SENT_PASSIVE", "RECEIVED_PASSIVE"}
        counted == I[i].nick \in DOMAIN pending_userinfo
        same == [infos |-> I, hub_users |-> hub_users,
                 pending |-> pending_userinfo, logged_in |-> logged_in]
        sent == [same EXCEPT !.infos = IF counted THEN Asked(I, i) ELSE Retain(Asked(I, i), i),
                             !.pending = With(pending_userinfo, I[i].nick, i)]
    IN  IF waiting THEN {same}
        ELSE {Disconnected(I)} \cup (IF logged_in THEN {sent} ELSE {})

SetHub(o) ==
    /\ infos' = o.infos
    /\ hub_users' = o.hub_users
    /\ pending_userinfo' = o.pending
    /\ logged_in' = o.logged_in

-----------------------------------------------------------------------------
(* The hub *)

(* The login is complete.                                                  *)
HubLogin ==
    /\ ~logged_in
    /\ logged_in' = TRUE
    /\ UNCHANGED <<user_conns, uconn, refused, infos, hub_users, pending_userinfo,
                   browse_user, responses, is_active, past>>

HubDisconnect ==
    /\ logged_in
    /\ SetHub(Disconnected(infos))
    /\ UNCHANGED <<user_conns, uconn, refused, browse_user, responses, is_active, past>>

SetActive ==
    /\ is_active' = ~is_active
    /\ UNCHANGED <<user_conns, uconn, refused, infos, hubVars, browse_user,
                   responses, past>>

(* $Hello makes a new info whether or not the nick has one.  If the        *)
(* $GetINFO that follows cannot be sent the hub is disconnected, which is  *)
(* HubDisconnect, since the handler does nothing after it.                 *)
Hello(n, i) ==
    /\ logged_in
    /\ i \notin DOMAIN infos
    /\ UserInfoNew(i, n)
    /\ hub_users' = With(hub_users, n, i)
    /\ past' = IF \E j \in DOMAIN infos : infos[j].nick = n
               THEN past \cup {"returned"} ELSE past
    /\ UNCHANGED <<user_conns, uconn, refused, pending_userinfo, logged_in,
                   browse_user, responses, is_active>>

(* $MyINFO, $NickList and $OpList only for a nick without one; a message   *)
(* with several nicks is several steps.                                    *)
NickList(n, i) ==
    /\ n \notin DOMAIN hub_users
    /\ Hello(n, i)

(* $MyINFO of a known user: whether it is passive must be found out again. *)
MyINFO(n) ==
    /\ n \in DOMAIN hub_users
    /\ infos[hub_users[n]].active_state \in {"RECEIVED_PASSIVE", "KNOWN_ACTIVE"}
    /\ infos' = [infos EXCEPT ![hub_users[n]].active_state = "UNKNOWN"]
    /\ UNCHANGED <<user_conns, uconn, refused, hubVars, browse_user, responses,
                   is_active, past>>

Quit(n) ==
    /\ n \in DOMAIN hub_users
    /\ infos' = Release(infos, hub_users[n])
    /\ hub_users' = Without(hub_users, n)
    /\ UNCHANGED <<user_conns, uconn, refused, pending_userinfo, logged_in,
                   browse_user, responses, is_active, past>>

(* hub_reload_users, when $GetNickList could be sent                       *)
HubReloadUsers ==
    /\ logged_in
    /\ infos' = ReleaseAll(infos, hub_users)
    /\ hub_users' = Empty
    /\ UNCHANGED <<user_conns, uconn, refused, pending_userinfo, logged_in,
                   browse_user, responses, is_active, past>>

(* $RevConnectToMe from a user who cannot accept connections.  If we are   *)
(* passive too it is told so, once.                                        *)
RevConnectToMe(n) ==
    /\ n \in DOMAIN hub_users
    /\ HasRoom(hub_users[n])
    /\ LET i == hub_users[n]
           state == infos[i].active_state
           passive == [infos EXCEPT ![i].active_state = "RECEIVED_PASSIVE"]
       IN  \/ /\ ~is_active /\ state = "SENT_PASSIVE"
              /\ pending_userinfo' = Without(pending_userinfo, n)
              /\ infos' = IF n \in DOMAIN pending_userinfo
                          THEN [passive EXCEPT ![i].refcount = @ - 1]
                          ELSE passive
              /\ UNCHANGED <<hub_users, logged_in>>
           \/ /\ ~is_active /\ state \notin {"SENT_PASSIVE", "RECEIVED_PASSIVE"}
              /\ SetHub(Disconnected(infos))    \* our $RevConnectToMe is not sent
           \/ /\ is_active \/ state # "SENT_PASSIVE"
              /\ \E o \in Connect(passive, i) : SetHub(o)
    /\ UNCHANGED <<user_conns, uconn, refused, browse_user, responses, is_active, past>>

-----------------------------------------------------------------------------
(* Commands *)

(* retry, download and getresult connect to a user of the hub, to the      *)
(* browsed user and to a user who answered a search.                       *)
ConnectByCommand(i) ==
    /\ i \in DOMAIN infos
    /\ \/ \E n \in DOMAIN hub_users : hub_users[n] = i
       \/ i = browse_user
       \/ i \in responses
    /\ ~HasUserConn(i, uconn, "receive")
    /\ HasRoom(i)
    /\ \E o \in Connect(infos, i) : SetHub(o)
    /\ UNCHANGED <<user_conns, uconn, refused, browse_user, responses, is_active, past>>

(* browse_none and the new browse_user, when infos is I                    *)
BrowseUser(I, i) ==
    LET J == Release(I, browse_user)
    IN  /\ infos' = IF i \in DOMAIN J THEN Retain(J, i) ELSE J
        /\ browse_user' = i

(* browse of a user whose list is there, or is queued first: then the user *)
(* is connected to, and the result is ignored.                             *)
Browse(n) ==
    /\ n \in DOMAIN hub_users
    /\ LET i == hub_users[n] IN
       \/ /\ BrowseUser(infos, i)
          /\ UNCHANGED <<hubVars, past>>
       \/ /\ ~HasUserConn(i, uconn, "receive")
          /\ HasRoom(i)
          /\ \E o \in Connect(infos, i) :
                 /\ BrowseUser(o.infos, i)
                 /\ hub_users' = o.hub_users
                 /\ pending_userinfo' = o.pending
                 /\ logged_in' = o.logged_in
                 /\ past' = IF o.logged_in THEN past ELSE past \cup {"cut off"}
    /\ UNCHANGED <<user_conns, uconn, refused, responses, is_active>>

BrowseNone ==
    /\ browse_user # NoInfo
    /\ infos' = Release(infos, browse_user)
    /\ browse_user' = NoInfo
    /\ UNCHANGED <<user_conns, uconn, refused, hubVars, responses, is_active, past>>

(* A search response that matches a search (handle_search_result), and the *)
(* end of the last search that has it (unsearch).                          *)
HandleSearchResult(n) ==
    /\ n \in DOMAIN hub_users
    /\ hub_users[n] \notin responses
    /\ Cardinality(responses) < MaxResponses
    /\ responses' = responses \cup {hub_users[n]}
    /\ infos' = Retain(infos, hub_users[n])
    /\ UNCHANGED <<user_conns, uconn, refused, hubVars, browse_user, is_active, past>>

Unsearch(i) ==
    /\ i \in responses
    /\ responses' = responses \ {i}
    /\ infos' = Release(infos, i)
    /\ UNCHANGED <<user_conns, uconn, refused, hubVars, browse_user, is_active, past>>

-----------------------------------------------------------------------------
(* Connections *)

(* A connection that is not the value of its name in user_conns is not     *)
(* served by the main loop and not found by a command.                     *)
Served(c) == \E name \in DOMAIN user_conns : user_conns[name] = c

(* user_connection_new: $ConnectToMe, or a connection to our port          *)
UserConnectionNew(c) ==
    /\ c \notin DOMAIN uconn
    /\ uconn' = With(uconn, c, [name |-> c, info |-> NoInfo, dir |-> "unknown"])
    /\ user_conns' = With(user_conns, c, c)
    /\ UNCHANGED <<refused, infos, hubVars, browse_user, responses, is_active, past>>

\* Variant of Renamed: the old name remains.
RenamedTwice(c, name) == With(user_conns, name, c)
(* update_user_connection_name: user_conns, when c is renamed to name.     *)
Renamed(c, name) == With(Without(user_conns, uconn[c].name), name, c)

Refuse(c) ==
    /\ refused' = refused \cup {c}
    /\ UNCHANGED <<user_conns, uconn>>

\* Variant of Answered: the state is left alone.
AnsweredKeepsState(state) == state
(* The active_state of a user who has connected.                           *)
Answered(state) ==
    CASE state = "SENT_PASSIVE" -> "KNOWN_ACTIVE"
      [] state = "SENT_ACTIVE"  -> "UNKNOWN"
      [] OTHER                  -> state

\* Variant of ValidateNick: the connection is not entered into conn[].
ValidateNickUnlisted(c, n) ==
    /\ Served(c) /\ c \notin refused
    /\ uconn[c].info = NoInfo
    /\ n \in DOMAIN hub_users
    /\ uconn' = [uconn EXCEPT ![c].info = hub_users[n], ![c].name = Named(n, "unknown")]
    /\ user_conns' = Renamed(c, Named(n, "unknown"))
    /\ infos' = Retain(infos, hub_users[n])
    /\ UNCHANGED <<refused, hubVars, browse_user, responses, is_active, past>>

(* VALIDATE_NICK: the nick is that of a user who was asked to connect, or  *)
(* of a user of the hub.  The reference of pending_userinfo is given up.   *)
ValidateNick(c, n) ==
    /\ Served(c) /\ c \notin refused
    /\ uconn[c].info = NoInfo
    /\ LET pending == n \in DOMAIN pending_userinfo
           i == IF pending THEN pending_userinfo[n]
                ELSE IF n \in DOMAIN hub_users THEN hub_users[n] ELSE NoInfo
           name == Named(n, "unknown")
           joined == [infos EXCEPT ![i].refcount = @ + 1, ![i].conn = Append(@, c),
                                   ![i].active_state = Answered(@)]
       IN  IF i # NoInfo /\ HasRoom(i)
           THEN /\ infos' = IF pending THEN Release(joined, i) ELSE joined
                /\ uconn' = [uconn EXCEPT ![c].info = i, ![c].name = name]
                /\ user_conns' = Renamed(c, name)
                /\ UNCHANGED refused
           ELSE /\ infos' = IF pending THEN Release(infos, i) ELSE infos
                /\ Refuse(c)
    /\ pending_userinfo' = Without(pending_userinfo, n)
    /\ UNCHANGED <<hub_users, logged_in, browse_user, responses, is_active, past>>

(* VALIDATE_DIR: one connection of a user for each direction.  If the user *)
(* downloads from us and we have queued something, it is asked for another *)
(* connection.                                                             *)
ValidateDir(c, dir) ==
    /\ Served(c) /\ c \notin refused
    /\ uconn[c].info # NoInfo
    /\ uconn[c].dir = "unknown"
    /\ LET i == uconn[c].info
           name == Named(infos[i].nick, dir)
           directed == [uconn EXCEPT ![c].dir = dir, ![c].name = name]
       IN  IF HasUserConn(i, uconn, dir)
           THEN /\ Refuse(c)
                /\ UNCHANGED <<infos, hubVars>>
           ELSE /\ uconn' = directed
                /\ user_conns' = Renamed(c, name)
                /\ \/ UNCHANGED <<infos, hubVars>>       \* nothing is queued
                   \/ /\ dir = "send"
                      /\ HasRoom(i)
                      /\ ~HasUserConn(i, directed, "receive")
                      /\ \E o \in Connect(infos, i) : SetHub(o)
                /\ UNCHANGED refused
    /\ UNCHANGED <<browse_user, responses, is_active, past>>

(* conn[] without the first place that holds c                             *)
Unlisted(conn, c) ==
    RemoveAt(conn, CHOOSE k \in 1..Len(conn) : conn[k] = c /\ \A j \in 1..(k - 1) : conn[j] # c)

(* user_disconnect: TERMINATING, the end of the process, or cancel         *)
UserDisconnect(c) ==
    /\ Served(c)
    /\ user_conns' = Without(user_conns, uconn[c].name)
    /\ uconn' = Without(uconn, c)
    /\ refused' = refused \ {c}
    /\ LET i == uconn[c].info
       IN  infos' = IF i = NoInfo THEN infos
                    ELSE Release([infos EXCEPT ![i].conn = Unlisted(@, c)], i)
    /\ UNCHANGED <<hubVars, browse_user, responses, is_active, past>>

HubStep ==
    \/ HubLogin \/ HubDisconnect \/ HubReloadUsers
    \/ \E n \in Nick : MyINFO(n) \/ Quit(n) \/ RevConnectToMe(n)
    \/ \E n \in Nick, i \in Info : Hello(n, i) \/ NickList(n, i)

CommandStep ==
    \/ SetActive \/ BrowseNone
    \/ \E n \in Nick : Browse(n) \/ HandleSearchResult(n)
    \/ \E i \in Info : ConnectByCommand(i) \/ Unsearch(i)

ConnStep ==
    \E c \in Conn :
        \/ UserConnectionNew(c)
        \/ UserDisconnect(c)
        \/ \E n \in Nick : ValidateNick(c, n)
        \/ \E dir \in {"send", "receive"} : ValidateDir(c, dir)

Next == MemorySound /\ (HubStep \/ CommandStep \/ ConnStep)

Spec == Init /\ [][Next]_vars

-----------------------------------------------------------------------------
(* Properties *)

(* The tables map names to allocated connections and nicks to infos, a     *)
(* served connection has the fields of DCUserConn, an info those of        *)
(* DCUserInfo.                                                             *)
TypeOK ==
    /\ \A c \in DOMAIN uconn : uconn[c] \in [name : Name, info : Info \cup {NoInfo}, dir : Dir]
    /\ DOMAIN uconn \subseteq Conn
    /\ DOMAIN user_conns \subseteq Name
    /\ DOMAIN infos \subseteq Info
    /\ \A i \in DOMAIN infos :
           infos[i] \in [nick : Nick, refcount : Int, conn : Seq(Conn),
                         active_state : ActiveState]
    /\ \A f \in {hub_users, pending_userinfo} :
           DOMAIN f \subseteq Nick /\ \A n \in DOMAIN f : f[n] \in Info
    /\ refused \subseteq DOMAIN uconn
    /\ browse_user \in Info \cup {NoInfo}
    /\ responses \subseteq Info
    /\ logged_in \in BOOLEAN /\ is_active \in BOOLEAN
    /\ past \subseteq {"returned", "cut off"}

(* The reference count of a user is the number of pointers to it from the  *)
(* hub's list, the pending users, the connections, the browsed user and    *)
(* the search results, and a pointer never outlives its user or its        *)
(* connection: unless a nick got a second info, or browse lost the hub.    *)
RefcountExact == past = {} => MemorySound

(* conn[] of a user and info of its connections say the same, except that  *)
(* a user that returned has connections of its predecessor in conn[].      *)
ConnsMatchInfos ==
    MemorySound =>
        /\ \A c \in DOMAIN uconn : uconn[c].info # NoInfo =>
               c \in Elements(infos[uconn[c].info].conn)
        /\ "returned" \notin past =>
               \A i \in DOMAIN infos :
                   /\ Cardinality(Elements(infos[i].conn)) = Len(infos[i].conn)
                   /\ \A c \in Elements(infos[i].conn) : uconn[c].info = i

ConnsSound == TypeOK /\ ConnsMatchInfos

(* user_conns never holds a connection that was freed, or under a name     *)
(* that is not its own, even after two connections had the same name; the  *)
(* hidden one of them is never served again.                               *)
KeysAreNames ==
    \A name \in DOMAIN user_conns :
        /\ user_conns[name] \in DOMAIN uconn
        /\ uconn[user_conns[name]].name = name

(* Who was sent a request to connect is waited for: the state that keeps   *)
(* hub_connect_user from sending another one ends when the user connects.  *)
(* A user who is waited for has a free place in conn[], so the refusal of  *)
(* a pending user in validate_nick never happens.                          *)
SentIsAwaited ==
    past = {} =>
        /\ \A n \in DOMAIN hub_users :
               infos[hub_users[n]].active_state \in Sent =>
                   n \in DOMAIN pending_userinfo /\ pending_userinfo[n] = hub_users[n]
        /\ \A n \in DOMAIN pending_userinfo : HasRoom(pending_userinfo[n])
=============================================================================
