----------------------------- MODULE HubSession -----------------------------
(***************************************************************************)
(* The connection to the hub (hub.c): the name of the hub is looked up, a  *)
(* socket is connected, the login is exchanged, and after a disconnection  *)
(* the connection is made again if the user wants that.  The lookups are   *)
(* those of Lookup, shared with the lookup command.                        *)
(***************************************************************************)
EXTENDS Lookup

CONSTANTS
    Address,       \* hubs given by address, which need no lookup
    NoHost,        \* no address, or a NULL name
    NoLookup       \* a NULL lookup

ASSUME HubAssumption ==
    /\ Host \cap Address = {}
    /\ NoHost \notin Host \cup Address
    /\ NoLookup \notin LookupId

VARIABLES
    hub_state,
    hub_socket,      \* "open" or "closed" (-1)
    hub_addr,        \* the hub whose address it holds
    hub_hostname,
    hub_lookup,
    hub_connected,   \* the user wants to be connected
    auto_reconnect,
    idle             \* time since hub_last_activity: 0, 1 from the reconnect
                     \* interval (10 s), 2 from the check interval (150 s) on

hubVars == <<hub_state, hub_socket, hub_addr, hub_hostname, hub_lookup,
             hub_connected, auto_reconnect, idle>>
vars == <<lookupVars, hubVars>>

HubState == {"DISCONNECTED", "LOOKUP", "CONNECT", "LOCK", "HELLO", "LOGGED_IN"}
Online   == {"LOCK", "HELLO", "LOGGED_IN"}

Init ==
    /\ InitLookup
    /\ hub_state = "DISCONNECTED"
    /\ hub_socket = "closed"
    /\ hub_addr = NoHost
    /\ hub_hostname = NoHost
    /\ hub_lookup = NoLookup
    /\ hub_connected = FALSE
    /\ auto_reconnect = FALSE
    /\ idle \in 0..2

-----------------------------------------------------------------------------
(* The functions of hub.c that the handlers share *)

\* Variants of Disconnect: the lookup is not cancelled, the socket is not
\* forgotten.
DisconnectOnly(p, lookup) ==
    /\ hub_state' = "DISCONNECTED"
    /\ hub_socket' = "closed"
    /\ hub_hostname' = NoHost
    /\ hub_lookup' = NoLookup
    /\ idle' = 0
    /\ pending' = p
DisconnectKeepsSocket(p, lookup) ==
    /\ hub_state' = "DISCONNECTED"
    /\ hub_socket' = hub_socket
    /\ hub_hostname' = NoHost
    /\ hub_lookup' = NoLookup
    /\ idle' = 0
    /\ pending' = Cancelled(p, lookup)

(* hub_disconnect, when pending_lookups is p and hub_lookup is lookup.     *)
Disconnect(p, lookup) ==
    /\ hub_state' = "DISCONNECTED"
    /\ hub_socket' = "closed"
    /\ hub_hostname' = NoHost
    /\ hub_lookup' = NoLookup
    /\ idle' = 0
    /\ pending' = Cancelled(p, lookup)

HubDisconnect ==
    /\ Disconnect(pending, hub_lookup)
    /\ UNCHANGED <<requests, results, crashed, hub_addr, hub_connected, auto_reconnect>>

(* A handler that goes on to the state s and says something to the hub.    *)
Proceed(s) ==
    /\ hub_state' = s
    /\ idle' = 0
    /\ UNCHANGED <<lookupVars, hub_socket, hub_addr, hub_hostname, hub_lookup,
                   hub_connected, auto_reconnect>>

(* hub_connect, called with these values of pending_lookups, hub_lookup    *)
(* and hub_hostname: connect is under way, or fails at once.               *)
HubConnect(addr, p, lookup, hostname) ==
    \/ /\ hub_socket' = "open"
       /\ hub_addr' = addr
       /\ hub_state' = "CONNECT"
       /\ hub_hostname' = hostname
       /\ hub_lookup' = lookup
       /\ pending' = p
       /\ UNCHANGED idle
    \/ /\ Disconnect(p, lookup)
       /\ UNCHANGED hub_addr

(* hub_new: connect to an address, or look up a name first.                *)
HubNew(h) ==
    \/ /\ h \in Address
       /\ hub_connected' = TRUE
       /\ HubConnect(h, pending, hub_lookup, hub_hostname)
       /\ UNCHANGED <<requests, results, crashed>>
    \/ /\ h \in Host
       /\ hub_hostname' = h
       /\ \E id \in LookupId : /\ AddLookupRequest(id, h, "hub")
                               /\ hub_lookup' = id
       /\ hub_state' = "LOOKUP"
       /\ UNCHANGED <<hub_socket, hub_addr, hub_connected, idle>>

-----------------------------------------------------------------------------
(* Commands *)

(* connect *)
CmdConnect(h) ==
    /\ ~crashed
    /\ hub_state = "DISCONNECTED"
    /\ HubNew(h)
    /\ UNCHANGED auto_reconnect

(* disconnect *)
CmdDisconnect ==
    /\ ~crashed
    /\ hub_state # "DISCONNECTED"
    /\ Disconnect(pending, hub_lookup)
    /\ hub_connected' = FALSE
    /\ UNCHANGED <<requests, results, crashed, hub_addr, auto_reconnect>>

(* lookup *)
CmdLookup(h) ==
    /\ ~crashed
    /\ \E id \in LookupId : AddLookupRequest(id, h, "command")
    /\ UNCHANGED hubVars

(* set auto_reconnect *)
SetAutoReconnect(b) ==
    /\ ~crashed
    /\ auto_reconnect # b
    /\ auto_reconnect' = b
    /\ UNCHANGED <<lookupVars, hub_state, hub_socket, hub_addr, hub_hostname, hub_lookup,
                   hub_connected, idle>>

(* set hub_charset reconnects: hub_disconnect, then hub_connect.           *)
SetHubCharset ==
    /\ ~crashed
    /\ hub_state = "LOGGED_IN"
    /\ HubConnect(hub_addr, Cancelled(pending, hub_lookup), NoLookup, NoHost)
    /\ UNCHANGED <<requests, results, crashed, hub_connected, auto_reconnect>>

-----------------------------------------------------------------------------
(* The main loop *)

(* hub_now_writable: the connection is made, or it failed, or data waits   *)
(* that can be sent or not.                                                *)
HubNowWritable ==
    /\ ~crashed
    /\ \/ hub_state = "CONNECT" /\ Proceed("LOCK")
       \/ hub_state \in Online \cup {"CONNECT"} /\ HubDisconnect

(* hub_input_available: the hub closed the connection.                     *)
HubClosed ==
    /\ ~crashed
    /\ hub_state \in Online
    /\ HubDisconnect

(* $Lock: answered by $Key and $ValidateNick, which may fail to be sent.   *)
HandleLock ==
    /\ ~crashed
    /\ \/ hub_state = "LOCK" /\ Proceed("HELLO")
       \/ hub_state \in Online /\ HubDisconnect

(* $Hello: the first one ends the login, any other one names a user.       *)
HandleHello ==
    /\ ~crashed
    /\ \/ hub_state \in {"HELLO", "LOGGED_IN"} /\ Proceed("LOGGED_IN")
       \/ hub_state = "LOCK" /\ Proceed("LOCK")
       \/ hub_state \in Online /\ HubDisconnect

(* $ValidateDenide and $BadPass, and $GetPass when there is no password:   *)
(* the hub does not want us.                                               *)
HandleRefused ==
    /\ ~crashed
    /\ hub_state \in Online
    /\ HubDisconnect

(* Any other message, answered or not.                                     *)
HandleOther ==
    /\ ~crashed
    /\ hub_state \in Online
    /\ Proceed(hub_state)

(* check_hub_activity, when the connection has been silent for long.       *)
KeepAlive ==
    /\ ~crashed
    /\ hub_connected
    /\ hub_state = "LOGGED_IN"
    /\ idle = 2
    /\ Proceed("LOGGED_IN") \/ HubDisconnect

\* Variant of AutoReconnect: only a hub with a name is connected to again.
AutoReconnectByName ==
    /\ ~crashed
    /\ hub_connected /\ auto_reconnect
    /\ hub_state = "DISCONNECTED"
    /\ idle >= 1
    /\ hub_hostname # NoHost
    /\ HubNew(hub_hostname)
    /\ UNCHANGED auto_reconnect

(* check_hub_activity, when there is no connection and there should be.    *)
AutoReconnect ==
    /\ ~crashed
    /\ hub_connected /\ auto_reconnect
    /\ hub_state = "DISCONNECTED"
    /\ idle >= 1
    /\ IF hub_hostname # NoHost
       THEN HubNew(hub_hostname)
       ELSE /\ HubConnect(hub_addr, pending, hub_lookup, NoHost)
            /\ UNCHANGED <<requests, results, crashed, hub_connected>>
    /\ UNCHANGED auto_reconnect

(* lookup_result_fd_readable gives a result to hub_address_looked_up.      *)
HubAddressLookedUp ==
    /\ ResultForHub
    /\ \/ /\ ~Head(results).ok
          /\ hub_lookup' = NoLookup
          /\ pending' = Tail(pending)
          /\ UNCHANGED <<hub_state, hub_socket, hub_addr, hub_hostname, hub_connected, idle>>
       \/ /\ Head(results).ok
          /\ hub_connected' = TRUE
          /\ HubConnect(Head(results).host, Tail(pending), NoLookup, hub_hostname)
    /\ UNCHANGED auto_reconnect

OtherResult ==
    /\ ResultForNobody \/ ResultIgnored
    /\ UNCHANGED hubVars

(* The child process of Lookup.                                            *)
LookupChild == LookupMain /\ UNCHANGED hubVars

(* Time passes without activity.                                           *)
Tick ==
    /\ ~crashed
    /\ idle < 2
    /\ idle' = idle + 1
    /\ UNCHANGED <<lookupVars, hub_state, hub_socket, hub_addr, hub_hostname, hub_lookup,
                   hub_connected, auto_reconnect>>

-----------------------------------------------------------------------------

Next ==
    \/ \E h \in Host \cup Address : CmdConnect(h)
    \/ CmdDisconnect
    \/ \E h \in Host : CmdLookup(h)
    \/ \E b \in BOOLEAN : SetAutoReconnect(b)
    \/ SetHubCharset
    \/ HubNowWritable
    \/ HubClosed
    \/ HandleLock
    \/ HandleHello
    \/ HandleRefused
    \/ HandleOther
    \/ KeepAlive
    \/ AutoReconnect
    \/ HubAddressLookedUp
    \/ OtherResult
    \/ LookupChild
    \/ Tick

Spec == Init /\ [][Next]_vars

(***************************************************************************)
(* Fairness: the child resolves what it is asked, the main loop reads the  *)
(* results and checks the hub every second, and time passes.               *)
(***************************************************************************)
FairSpec ==
    /\ Spec
    /\ WF_vars(LookupChild)
    /\ WF_vars(HubAddressLookedUp \/ OtherResult)
    /\ WF_vars(AutoReconnect)
    /\ WF_vars(Tick)

-----------------------------------------------------------------------------
(* Properties *)

(* Every variable has its type.                                            *)
TypeOK ==
    /\ LookupTypeOK
    /\ hub_state \in HubState
    /\ hub_socket \in {"open", "closed"}
    /\ hub_addr \in Host \cup Address \cup {NoHost}
    /\ hub_hostname \in Host \cup {NoHost}
    /\ hub_lookup \in LookupId \cup {NoLookup}
    /\ hub_connected \in BOOLEAN /\ auto_reconnect \in BOOLEAN
    /\ idle \in 0..2

(* The lookup whose result will connect to the hub is the one hub_lookup   *)
(* points to, and the hub is still wanted then: a result that arrives      *)
(* after disconnect connects to nothing, and hub_lookup never points to a  *)
(* record that is freed (hub.c:299, 374; lookup.c:268).                    *)
HubLookupIsPending ==
    \A id \in LookupId :
        hub_lookup = id <=>
            \E i \in 1..Len(pending) : /\ pending[i].id = id
                                       /\ pending[i].callback = "hub"
                                       /\ ~pending[i].cancelled

(* There is a socket exactly in the states that use it, so hub_connect     *)
(* never loses one that is open (hub.c:341).                               *)
SocketMatchesState ==
    hub_socket = "open" <=> hub_state \in {"CONNECT", "LOCK", "HELLO", "LOGGED_IN"}

SessionSound == TypeOK /\ HubLookupIsPending /\ SocketMatchesState

(* The lookup of the hub comes to an end (lookup.c:249).                   *)
HubLookupEnds == hub_lookup # NoLookup ~> hub_lookup = NoLookup \/ crashed

(* Who wants to stay connected is: the automatic reconnection is tried     *)
(* again and again until it succeeds (hub.c:83).                           *)
Reconnects ==
    <>[](hub_state = "DISCONNECTED" /\ hub_connected /\ auto_reconnect /\ ~crashed)
        => []<><<AutoReconnect>>_vars

SessionGoesOn == HubLookupEnds /\ Reconnects

=============================================================================
