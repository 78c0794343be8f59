---------------------------- MODULE CommandLine -----------------------------
(***************************************************************************)
(* How a line that the user types becomes commands and arguments, and how  *)
(* the completion puts a name into a line (common/quoting.c, command.c,    *)
(* screen.c).  A line is a sequence of characters; one that is not printed *)
(* has a number, its byte, by which it is quoted.                          *)
(***************************************************************************)
EXTENDS Integers, Sequences, SequencesExt, FiniteSets

CONSTANTS
    Letter,      \* characters without a meaning
    Newline,     \* a character that is not printed, written \n or \012
    High,        \* a character above 127, written \303
    WordMax,     \* bound: characters of a word
    LineMax      \* bound: characters of a line

Quote == "\""
Backslash == "\\"
Whitespace == {" ", Newline}
Special == {" ", Quote, Backslash, ";", "#"}
Character == Letter \cup Special \cup {"*", Newline, High}

Digits == <<"0", "1", "2", "3", "4", "5", "6", "7">>
DigitOf(c) == CHOOSE d \in 0..7 : Digits[d + 1] = c
Byte == [c \in {Newline, High} |-> IF c = Newline THEN 10 ELSE 195]
CharOf(b) == IF \E c \in DOMAIN Byte : Byte[c] = b THEN CHOOSE c \in DOMAIN Byte : Byte[c] = b
             ELSE "other"
Concat(texts) == FlattenSeq(texts)
From(s, i) == SubSeq(s, i, Len(s))
Upto(s, i) == SubSeq(s, 1, i)

-----------------------------------------------------------------------------
(* Quoting *)

(* A byte in octal.  Between double quotes it is printed as a char, whose  *)
(* sign fills the 32 bits.                                                 *)
Octal(c, quoted) ==
    LET Digit(place) == Digits[1 + ((Byte[c] \div place) % 8)]
    IN  (IF quoted /\ Byte[c] >= 128 THEN <<"3", "7", "7", "7", "7", "7", "7", "7">> ELSE <<>>)
            \o <<Digit(64), Digit(8), Digit(1)>>

(* quote_word_full.  How says which other characters are escaped outside   *)
(* of quotes: "also" everywhere, "first" at the start, and whether the     *)
(* newline is written as in C.                                             *)
QuoteWordFull(s, quoted, end, how) ==
    LET Escaped(i) ==
            LET c == s[i]
            IN  IF c = Newline /\ how.c THEN <<Backslash, "n">>
                ELSE IF c \in DOMAIN Byte THEN <<Backslash>> \o Octal(c, quoted)
                ELSE IF \/ c \in {Quote, Backslash}
                        \/ ~quoted /\ (c \in {" "} \cup how.also \/ (i = 1 /\ c \in how.first))
                     THEN <<Backslash, c>>
                ELSE <<c>>
        text == Concat([i \in 1..Len(s) |-> Escaped(i)])
    IN  IF quoted THEN <<Quote>> \o text \o (IF end THEN <<Quote>> ELSE <<>>) ELSE text

FilenameQuoteString(s, quoted, end) ==
    QuoteWordFull(s, quoted, end, [also |-> {";", "*", "?"}, first |-> {"#"}, c |-> FALSE])
QuoteString(s, quoted, end) ==
    QuoteWordFull(s, quoted, end, [also |-> {";"}, first |-> {"#"}, c |-> FALSE])

(* dequote_words_full: quotes are dropped, an escape is the character      *)
(* itself, a newline if simple, or a byte of up to three digits; an escape *)
(* at the end is nothing.                                                  *)
RECURSIVE DequoteDigits(_, _, _)
DequoteDigits(s, simple, digits) ==
    IF s = <<>> \/ s = <<Backslash>> THEN <<>>
    ELSE IF s[1] = Quote THEN DequoteDigits(Tail(s), simple, digits)
    ELSE IF s[1] # Backslash THEN <<s[1]>> \o DequoteDigits(Tail(s), simple, digits)
    ELSE IF simple /\ s[2] = "n" THEN <<Newline>> \o DequoteDigits(From(s, 3), simple, digits)
    ELSE IF s[2] \notin ToSet(Digits) THEN <<s[2]>> \o DequoteDigits(From(s, 3), simple, digits)
    ELSE LET n == CHOOSE k \in 1..digits :
                      /\ k < Len(s) /\ \A j \in 2..k + 1 : s[j] \in ToSet(Digits)
                      /\ k = digits \/ k + 2 > Len(s) \/ s[k + 2] \notin ToSet(Digits)
             byte == FoldLeft(LAMBDA v, c : v * 8 + DigitOf(c), 0, SubSeq(s, 2, n + 1)) % 256
         IN  <<CharOf(byte)>> \o DequoteDigits(From(s, n + 2), simple, digits)

\* Variant of DequoteWordsFull: a number has up to four digits.
DequoteLongNumbers(s, simple) == DequoteDigits(s, simple, 4)

DequoteWordsFull(s, simple) == DequoteDigits(s, simple, 3)
DequoteWords(s) == DequoteWordsFull(s, TRUE)
DequoteString(s) == DequoteWordsFull(s, FALSE)

-----------------------------------------------------------------------------
(* Words *)

(* Positions are those of the characters; the end of a line is the one     *)
(* behind the last.                                                        *)
FindWordStart(s, i) ==
    IF \A j \in i..Len(s) : s[j] \in Whitespace THEN Len(s) + 1
    ELSE CHOOSE j \in i..Len(s) : s[j] \notin Whitespace /\ \A k \in i..j - 1 : s[k] \in Whitespace

RECURSIVE WordEndFrom(_, _, _, _)
WordEndFrom(s, i, quoted, term) ==
    IF i > Len(s) THEN Len(s) + 1
    ELSE IF s[i] = Backslash THEN WordEndFrom(s, i + 2, quoted, term)
    ELSE IF s[i] = Quote THEN WordEndFrom(s, i + 1, ~quoted, term)
    ELSE IF ~quoted /\ s[i] \in Whitespace \cup term THEN i
    ELSE WordEndFrom(s, i + 1, quoted, term)

FindWordEnd(s, i, term) == WordEndFrom(s, FindWordStart(s, i), FALSE, term)

(* The word at the start of a word (get_word_dequoted_termchar).           *)
GetWord(s, i, term) ==
    LET start == FindWordStart(s, i)
    IN  DequoteWords(SubSeq(s, start, FindWordEnd(s, start, term) - 1))

RECURSIVE FindUnquoted(_, _, _, _)
(* The position of the last unquoted ";" (find_last_unquoted_char), or 0.  *)
FindUnquoted(s, i, quoted, match) ==
    IF i > Len(s) THEN match
    ELSE IF s[i] = Backslash THEN FindUnquoted(s, i + 2, quoted, match)
    ELSE IF s[i] = Quote THEN FindUnquoted(s, i + 1, ~quoted, match)
    ELSE FindUnquoted(s, i + 1, quoted, IF ~quoted /\ s[i] = ";" THEN i ELSE match)

(* Whether a word begins with "#" (find_unquoted_leading_char).  Neither a *)
(* quote nor an escape begins a word here.                                 *)
RECURSIVE CommentFrom(_, _, _, _)
CommentFrom(s, i, quoted, word) ==
    /\ i <= Len(s)
    /\ IF s[i] = Backslash THEN CommentFrom(s, i + 2, quoted, word)
       ELSE IF s[i] = Quote THEN CommentFrom(s, i + 1, ~quoted, word)
       ELSE IF quoted THEN CommentFrom(s, i + 1, quoted, word)
       ELSE IF s[i] \in Whitespace THEN CommentFrom(s, i + 1, quoted, FALSE)
       ELSE (s[i] = "#" /\ ~word) \/ CommentFrom(s, i + 1, quoted, TRUE)
CommentedOut(s) == CommentFrom(s, 1, FALSE, FALSE)

-----------------------------------------------------------------------------
(* Commands *)

(* The words of a command from the one at i on, and the position of what   *)
(* ends it.                                                                *)
RECURSIVE Arguments(_, _)
Arguments(s, i) ==
    LET next == FindWordStart(s, FindWordEnd(s, i, {";"}))
        rest == Arguments(s, next)
    IN  IF next > Len(s) \/ s[next] \in {"#", ";"}
        THEN [argv |-> <<GetWord(s, i, {";"})>>, next |-> next]
        ELSE [argv |-> <<GetWord(s, i, {";"})>> \o rest.argv, next |-> rest.next]

(* command_execute: the commands that a line calls, each as its words.  A  *)
(* name is known with the text it is an alias for, or with none.  An alias *)
(* is replaced by its text, and what follows the word goes on as the rest  *)
(* of the new line.                                                        *)
RECURSIVE CommandExecute(_, _)
CommandExecute(commands, s) ==
    LET start == FindWordStart(s, 1)
        name == GetWord(s, start, {";"})
        command == Arguments(s, start)
    IN  IF start > Len(s) \/ s[start] = "#" THEN <<>>
        ELSE IF s[start] = ";" THEN CommandExecute(commands, From(s, start + 1))
        ELSE IF name \in DOMAIN commands /\ commands[name] # <<>>
        THEN CommandExecute(commands, commands[name] \o From(s, FindWordEnd(s, start, {})))
        ELSE <<command.argv>> \o CommandExecute(commands, From(s, command.next))

(* cmd_alias with one argument: NAME=VALUE.                                *)
CmdAlias(commands, arg) ==
    LET eq == SelectInSeq(arg, LAMBDA c : c = "=")
        name == Upto(arg, eq - 1)
    IN  IF \/ eq = 0
           \/ \E i \in 1..Len(name) : name[i] \in {" ", Quote, "#", ";"}
           \/ name \in DOMAIN commands /\ commands[name] = <<>>
        THEN commands
        ELSE [n \in DOMAIN commands \cup {name} |->
                 IF n = name THEN From(arg, eq + 1) ELSE commands[n]]

-----------------------------------------------------------------------------
(* Completion *)

(* find_completion_word_start: the last word before the cursor, which is   *)
(* at the end of s; behind whitespace, a new one.                          *)
RECURSIVE CompletionWordFrom(_, _)
CompletionWordFrom(s, start) ==
    LET end == FindWordEnd(s, start, {})
    IN  IF end > Len(s) THEN FindWordStart(s, start) ELSE CompletionWordFrom(s, end)
FindCompletionWordStart(s) == CompletionWordFrom(s, 1)

(* get_word_index of the text behind a position.                           *)
RECURSIVE GetWordIndex(_, _)
GetWordIndex(s, i) ==
    LET end == FindWordEnd(s, i, {}) IN IF end > Len(s) THEN 0 ELSE 1 + GetWordIndex(s, end)

(* fill_completion_info: the word from ws to the cursor, and how many      *)
(* words of the command, which begins at base, are before it.  The word    *)
(* may begin before the command.                                           *)
FillCompletionInfo(line, base, ws) ==
    [line |-> line, base |-> base, word |-> DequoteString(From(line, ws)), ws |-> ws,
     index |-> IF ws <= base THEN 0 ELSE GetWordIndex(Upto(line, ws - 1), base)]

(* default_completion_selector, for a line that ends with the cursor: the  *)
(* command whose completor is asked, "" for the names of the commands, and *)
(* for which word.  No command has a name with ";" in it.                  *)
RECURSIVE DefaultCompletionSelector(_, _)
DefaultCompletionSelector(commands, ci) ==
    LET semicolon == FindUnquoted(ci.line, ci.base, FALSE, 0)
        ci2 == IF semicolon = 0 THEN ci
               ELSE FillCompletionInfo(ci.line, FindWordStart(ci.line, semicolon + 1), ci.ws)
        name == GetWord(ci2.line, ci2.base, {})
        spec == commands[name]
        \* The name is taken for as long as it is typed.
        ws == ci2.ws - ci2.base + 1 + Len(spec) - Len(name)
        newline == spec \o From(ci2.line, FindWordEnd(ci2.line, ci2.base, {}))
    IN  IF CommentedOut(From(ci.line, ci.base)) THEN {}
        ELSE IF ci2.index = 0 THEN {[command |-> <<>>, word |-> ci2.word]}
        ELSE IF name \notin DOMAIN commands THEN {}
        ELSE IF spec = <<>> THEN {[command |-> name, word |-> ci2.word]}
        ELSE DefaultCompletionSelector(commands, [ci2 EXCEPT !.line = newline, !.base = 1, !.ws = ws])

(* get_quoted_input of the only result, which is quoted as the word was.   *)
GetQuotedInput(s, ws, input) ==
    Append(QuoteWordFull(input, ws <= Len(s) /\ s[ws] = Quote, TRUE,
                         [also |-> {";"}, first |-> {"#"}, c |-> TRUE]), " ")

(* completion_readline, when the command at hand is completed to that      *)
(* name: the result replaces the word.                                     *)
CompletionReadline(s, ws, name) == Upto(s, ws - 1) \o GetQuotedInput(s, ws, name)

-----------------------------------------------------------------------------
(* Properties *)

Word == SeqOf(Character, WordMax)
Styles(w) == {quoted \in BOOLEAN : (quoted => High \notin ToSet(w)) /\ (w = <<>> => quoted)}

(* Words that are quoted, as names of users or of files, and put into a    *)
(* line, apart or as two commands, come back as they were (quoting.c with  *)
(* command_execute).  A character above 127 does not between quotes        *)
(* (quoting.c:89).                                                         *)
LineRoundTrip ==
    \A v, w \in Word : Len(v) + Len(w) \in {WordMax, WordMax + 1} =>
    \A qv \in Styles(v), qw \in Styles(w) :
        LET Typed(between) == CommandExecute([n \in {} |-> <<>>],
                QuoteString(v, qv, TRUE) \o between \o FilenameQuoteString(w, qw, TRUE))
        IN  /\ Typed(<<" ">>) = <<<<v, w>>>>
            /\ Typed(<<";">>) = <<<<v>>, <<w>>>>

(* What is completed is what is executed: the command whose completor is   *)
(* asked is the last one that the line calls, the name that was found      *)
(* becomes its last word, and no other word or command of the line         *)
(* changes, whatever is quoted, escaped, commented out or left open in it, *)
(* and also if the command is an alias (screen.c:506, command.c:335,       *)
(* command.c:483).  The name of the alias is typed as it is: quoted,       *)
(* escaped or behind spaces, it is longer than command.c:377 takes it for. *)
(* A ";" right behind it is dropped with the word it begins                *)
(* (command.c:505), and a "#" behind a ";" begins a comment only for       *)
(* command_execute.                                                        *)
Line ==
    {s \in SeqOf({"a", "n"} \cup Special, LineMax) :
        s # <<>> =>
            /\ s[1] # " "
            /\ \A i \in 1..Len(s) - 1 :
                   /\ "n" \in {s[i], s[i + 1]} => {s[i], s[i + 1]} \cap {Quote, Backslash} = {}
                   /\ <<s[i], s[i + 1]>> \notin {<<"n", ";">>, <<";", "#">>}}
Builtin == {<<"a">>, <<"3">>}
AliasText == {<<"a">>, <<"3", " ", "a">>, <<"3", ";", "a">>, <<"a", " ", Quote, "n", Quote>>}
CompletionFits ==
    \A s \in Line : \A text \in IF "n" \in ToSet(s) THEN AliasText ELSE {<<"a">>} :
        LET commands == CmdAlias([n \in Builtin |-> <<>>], <<"n", "=">> \o text)
            ws == FindCompletionWordStart(s)
            quoted == ws <= Len(s) /\ s[ws] = Quote
            before == CommandExecute(commands, Append(Upto(s, ws - 1), "3"))
        IN  \A asked \in DefaultCompletionSelector(commands, FillCompletionInfo(s, 1, ws)) :
                asked.command # <<>> => \A c \in Character :
                    LET name == Append(asked.word, c)
                        last == before[Len(before)]
                    IN  (quoted => High \notin ToSet(name)) =>
                            /\ last[1] = asked.command
                            /\ CommandExecute(commands, CompletionReadline(s, ws, name))
                                   = Append(Front(before), Append(Front(last), name))
=============================================================================
