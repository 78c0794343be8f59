------------------------------ MODULE Variables ------------------------------
(***************************************************************************)
(* The settings that "set" shows and changes (variables.c), but for the    *)
(* texts that the hub is told, which HubTexts has.  An argument is a sign  *)
(* and a name; what a name means as a number or an address is given.       *)
(***************************************************************************)
EXTENDS Integers, Sequences, FiniteSets, SequencesExt

CONSTANTS
    Flag,         \* flags with a name: "debug", "upload", ...
    Number,       \* function from the texts that are numbers to their values
    Address,      \* function from the texts that are addresses to them
    Unknown,      \* texts that are neither, nor the name of anything
    None

Positive == {"1", "on", "yes", "true"}
Negative == {"0", "off", "no", "false"}
Plain(name) == <<"", name>>

\* The bits of the flags, with those that have no name.
AllFlags == Flag \cup {"common", "unused"}
FlagName == [name \in Flag \cup {"all", "default"} |-> IF name \in Flag THEN {name} ELSE AllFlags]
Variable == {"active", "auto_reconnect", "display", "log", "listenaddr", "remoteaddr",
             "listenport", "slots", "filelist_refresh_interval", "usersortorder"}

-----------------------------------------------------------------------------
(* Getters: a sequence of arguments, or None for NULL *)

Shown(flags) ==
    LET named == flags \cap Flag
    IN  IF named = {} THEN <<>> ELSE [k \in 1..Cardinality(named) |-> Plain(SetToSeq(named)[k])]

TextOf(f, value) == Plain(CHOOSE text \in DOMAIN f : f[text] = value)

(* var_get_display_flags, var_get_bool, var_get_remote_addr,               *)
(* var_get_listen_addr, var_get_listen_port, var_get_slots, var_get_time,  *)
(* var_get_user_sort_order.                                                *)
Get(v, variable) ==
    CASE variable \in {"display", "log"} -> Shown(v[variable])
      [] variable \in {"active", "auto_reconnect"} -> <<Plain(IF v[variable] THEN "on" ELSE "off")>>
      [] variable \in {"listenaddr", "remoteaddr"} ->
             IF v[variable] = None THEN None ELSE <<TextOf(Address, v[variable])>>
      [] variable = "listenport" ->
             IF v.listenport = 0 THEN None ELSE <<TextOf(Number, v.listenport)>>
      [] variable \in {"slots", "filelist_refresh_interval"} -> <<TextOf(Number, v[variable])>>
      [] variable = "usersortorder" ->
             <<<<IF v.usersortorder.asc THEN "+" ELSE "-", v.usersortorder.by>>>>

-----------------------------------------------------------------------------
(* Setters: the settings that may result *)

(* var_set_display_flags: a name that is not known stops it, a mixture of  *)
(* setting and adding does not.                                            *)
SetDisplayFlags(v, variable, args) ==
    LET Of(sign) == UNION {FlagName[args[k][2]] : k \in {i \in 1..Len(args) : args[i][1] = sign}}
        base == IF Of("") # {} THEN Of("") ELSE v[variable]
    IN  IF \E k \in 1..Len(args) : args[k][2] \notin DOMAIN FlagName THEN {v}
        ELSE {[v EXCEPT ![variable] = ((base \cup Of("+")) \ Of("-")) \cup {"common"}]}

(* parse_bool, with string_in_csv.                                         *)
IsBool(text) == text \in Positive \cup Negative

(* var_set_active and set_active, which may fail.                          *)
SetActive(v, args) ==
    IF Len(args) # 1 \/ ~IsBool(args[1][2]) THEN {v}
    ELSE {v, [v EXCEPT !.active = args[1][2] \in Positive]}

(* var_set_auto_reconnect.                                                 *)
SetAutoReconnect(v, args) ==
    IF Len(args) # 1 \/ ~IsBool(args[1][2]) THEN {v}
    ELSE {[v EXCEPT !.auto_reconnect = args[1][2] \in Positive]}

(* var_set_remote_addr and var_set_listen_addr: what is no address is      *)
(* said, and whatever was in the memory is set.                            *)
SetAddress(v, variable, args) ==
    IF Len(args) # 1 THEN {v}
    ELSE IF args[1][2] = "" THEN {[v EXCEPT ![variable] = None]}
    ELSE IF args[1][2] \in DOMAIN Address THEN {[v EXCEPT ![variable] = Address[args[1][2]]]}
    ELSE {[v EXCEPT ![variable] = a] : a \in {Address[text] : text \in DOMAIN Address} \cup {None}}

(* var_set_listen_port.                                                    *)
SetListenPort(v, args) ==
    IF Len(args) # 1 THEN {v}
    ELSE IF args[1][2] = "" THEN {v, [v EXCEPT !.listenport = 0]}
    ELSE IF args[1][2] \notin DOMAIN Number THEN {v}
    ELSE {v, [v EXCEPT !.listenport = Number[args[1][2]]]}

(* var_set_slots, where no digits are a zero, and                          *)
(* var_set_filelist_refresh_interval, which says so.                       *)
SetNumber(v, variable, args) ==
    IF Len(args) # 1 THEN {v}
    ELSE IF args[1][2] = "" THEN {[v EXCEPT ![variable] = 0]}
    ELSE IF args[1][2] \notin DOMAIN Number THEN {v}
    ELSE {[v EXCEPT ![variable] = Number[args[1][2]]]}

(* var_set_user_sort_order: by name in doubt.                              *)
SetUserSortOrder(v, args) ==
    IF Len(args) # 1 THEN {v}
    ELSE {[v EXCEPT !.usersortorder = [by |-> IF args[1][2] = "share" THEN "share" ELSE "name",
                                       asc |-> args[1][1] # "-"]]}

(* cmd_set, with a variable and arguments; the signs of the other          *)
(* variables belong to the name, which is then not known.                  *)
CmdSet(v, variable, args) ==
    LET signed == \E k \in 1..Len(args) : args[k][1] # ""
        plain == IF signed THEN [k \in 1..Len(args) |-> IF args[k][1] = "" THEN args[k]
                                                       ELSE Plain(args[k][1])] ELSE args
    IN  IF args = <<>> THEN {v}
        ELSE CASE variable \in {"display", "log"} -> SetDisplayFlags(v, variable, args)
               [] variable = "active" -> SetActive(v, plain)
               [] variable = "auto_reconnect" -> SetAutoReconnect(v, plain)
               [] variable \in {"listenaddr", "remoteaddr"} -> SetAddress(v, variable, plain)
               [] variable = "listenport" -> SetListenPort(v, plain)
               [] variable \in {"slots", "filelist_refresh_interval"} -> SetNumber(v, variable, plain)
               [] variable = "usersortorder" -> SetUserSortOrder(v, args)

(* display_completion_generator: the names that may follow a sign.         *)
DisplayCompletion(v, variable, sign) ==
    CASE sign = "+" -> Flag \ v[variable]
      [] sign = "-" -> Flag \cap v[variable]
      [] OTHER -> Flag

-----------------------------------------------------------------------------
(* Properties *)

\* Settings that differ in everything; the flags are of every kind.
Setting ==
    {[display |-> flags \cup {"common"}, log |-> flags \cup {"common"},
      active |-> on, auto_reconnect |-> on,
      listenaddr |-> a, remoteaddr |-> a,
      listenport |-> n, slots |-> n, filelist_refresh_interval |-> n,
      usersortorder |-> [by |-> by, asc |-> on]] :
     flags \in {{"unused"}, {}} \cup {{f} : f \in Flag} \cup {Flag}, on \in BOOLEAN,
     a \in {Address[text] : text \in DOMAIN Address} \cup {None},
     n \in {Number[text] : text \in DOMAIN Number}, by \in {"name", "share"}}

Typed(shown) == IF shown = None THEN <<Plain("")>> ELSE shown

(* What is shown of a setting can be typed to restore it, whatever it is   *)
(* by then, but for flags of which none has a name; and no other setting   *)
(* changes (variables.c:616-1048).                                         *)
ShownCanBeSet ==
    \A v, w \in Setting, variable \in Variable :
        Get(v, variable) # <<>> =>
            /\ \E next \in CmdSet(w, variable, Typed(Get(v, variable))) :
                   Get(next, variable) = Get(v, variable)
            /\ \A next \in CmdSet(w, variable, Typed(Get(v, variable))) :
                   /\ Get(next, variable) \in {Get(v, variable), Get(w, variable)}
                   /\ \A other \in Variable \ {variable} : next[other] = w[other]

(* An error leaves the setting as it was, but for an address, the file of  *)
(* the log and the order of users, which take anything; and the messages   *)
(* that are common to all are always shown (variables.c:761-787).          *)
ErrorsChangeNothing ==
    LET few == {Plain(name) : name \in Unknown \cup {"all", CHOOSE f \in Flag : TRUE}}
                   \cup {<<sign, name>> : sign \in {"+", "-"}, name \in Flag \cup {"all"} \cup Unknown}
    IN  \A v \in Setting :
            /\ \A variable \in Variable \ {"listenaddr", "remoteaddr", "usersortorder"}, name \in Unknown :
                   CmdSet(v, variable, <<Plain(name)>>) = {v}
            /\ \A one, two \in few :
                   \A next \in CmdSet(v, "display", <<one, two>>) : "common" \in next.display
            /\ \A one \in few, name \in Unknown :
                   CmdSet(v, "display", <<one, Plain(name)>>) = {v}

(* What is completed behind a sign is taken, and changes the flags.        *)
CompletedChanges ==
    \A v \in Setting, sign \in {"+", "-"} : \A name \in DisplayCompletion(v, "display", sign) :
        \A next \in CmdSet(v, "display", <<<<sign, name>>>>) :
            /\ next # v
            /\ name \notin DisplayCompletion(next, "display", sign)
=============================================================================
