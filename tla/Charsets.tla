------------------------------- MODULE Charsets -------------------------------
(***************************************************************************)
(* The character sets and the converters between them (charsets.c), as     *)
(* main (main.c:1236) and the set command (variables.c:345-380) change     *)
(* them.  A converter is the pair of sets that it was opened for.          *)
(***************************************************************************)
EXTENDS Integers, FiniteSets

CONSTANTS
    Known,        \* names of character sets that iconv knows
    Bogus,        \* and that it does not
    Alike,        \* pairs of names that differ in case only
    Locale,       \* what nl_langinfo says
    None

VARIABLES
    charset,      \* the names, None for a null pointer
    iconv,        \* the converters, None for no_iconv
    open,         \* the number of descriptors that iconv has open
    phase         \* of main: before, in and behind the main loop

vars == <<charset, iconv, open, phase>>

Name == Known \cup Bogus
Kind == {"main", "hub", "fs", "log", "utf8"}

\* DECLARE_ICONV_CONVERSION: each pair in both directions.
Both(pairs) == pairs \cup {<<q[2], q[1]>> : q \in pairs}
Conversion ==
    Both({<<"main", "hub">>, <<"main", "fs">>, <<"hub", "fs">>, <<"main", "log">>,
          <<"utf8", "fs">>, <<"utf8", "main">>, <<"utf8", "hub">>})

(* The converters that each of the four functions closes and opens.        *)
Own ==
    [main |-> Both({<<"main", "hub">>, <<"main", "fs">>, <<"main", "log">>, <<"main", "utf8">>}),
     hub  |-> Both({<<"main", "hub">>, <<"hub", "fs">>, <<"hub", "utf8">>}),
     fs   |-> Both({<<"hub", "fs">>, <<"main", "fs">>, <<"fs", "utf8">>}),
     log  |-> Both({<<"main", "log">>})]

\* strcasecmp of two names.
Same(c, d) == c = d \/ <<c, d>> \in Alike \/ <<d, c>> \in Alike

(* ICONV_OPEN: none without both sets, or if one is not known.             *)
Opened(charsets, conversion) ==
    IF {charsets[conversion[1]], charsets[conversion[2]]} \subseteq Known
    THEN [from |-> charsets[conversion[1]], to |-> charsets[conversion[2]]]
    ELSE None

(* ICONV_CLOSE, for all of them.                                           *)
Closed(converters, own) == [q \in Conversion |-> IF q \in own THEN None ELSE converters[q]]

Count(converters, own) == Cardinality({q \in own : converters[q] # None})

(* set_main_charset, set_hub_charset, set_fs_charset, set_log_charset.     *)
SetCharset(kind, c) ==
    IF charset[kind] = c \/ (c # None /\ charset[kind] # None /\ Same(c, charset[kind]))
    THEN UNCHANGED <<charset, iconv, open>>
    ELSE LET new == [charset EXCEPT ![kind] = IF c = "" THEN Locale ELSE c]
             closed == Closed(iconv, Own[kind])
         IN  /\ charset' = new
             /\ iconv' = [q \in Conversion |->
                              IF q \in Own[kind] /\ c # None THEN Opened(new, q)
                              ELSE closed[q]]
             /\ open' = open - Count(iconv, Own[kind]) + Count(iconv', Own[kind])

-----------------------------------------------------------------------------

Init ==
    /\ charset = [k \in Kind |-> IF k = "utf8" THEN "UTF-8" ELSE None]
    /\ iconv = [q \in Conversion |-> None]
    /\ open = 0
    /\ phase = "main"

Following(kind) == CASE kind = "main" -> "hub" [] kind = "hub" -> "fs" [] OTHER -> "loop"

(* main: the three sets, one after the other.                              *)
Start ==
    /\ phase \in {"main", "hub", "fs"}
    /\ SetCharset(phase, "")
    /\ phase' = Following(phase)

(* set hub_charset, set filesystem_charset and set log_charset.            *)
Set ==
    /\ phase = "loop"
    /\ \E kind \in {"hub", "fs", "log"}, c \in Name \cup {""} : SetCharset(kind, c)
    /\ UNCHANGED phase

(* The end of main.                                                        *)
End ==
    /\ phase \in {"loop", "end hub", "end fs"}
    /\ SetCharset(CASE phase = "loop" -> "main" [] phase = "end hub" -> "hub" [] OTHER -> "fs", None)
    /\ phase' = CASE phase = "loop" -> "end hub" [] phase = "end hub" -> "end fs" [] OTHER -> "ended"

Next == Start \/ Set \/ End

Spec == Init /\ [][Next]_vars

-----------------------------------------------------------------------------
(* Properties *)

(* Whatever sets are named in whatever order, also ones that are not       *)
(* known, a text is converted between the sets that are named now: no      *)
(* converter is left over from before, missing or left open, and with no   *)
(* set there is none (charsets.c:47-198).                                  *)
CharsetsSound ==
    /\ \A q \in Conversion :
           iconv[q] = IF \A k \in {q[1], q[2]} : charset[k] \in Known
                      THEN [from |-> charset[q[1]], to |-> charset[q[2]]] ELSE None
    /\ open = Count(iconv, Conversion)
    /\ phase = "ended" => \A q \in Conversion : iconv[q] = None
=============================================================================
