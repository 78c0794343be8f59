------------------------------ MODULE Options -------------------------------
(***************************************************************************)
(* Options in front of, between and behind arguments, as ls takes them     *)
(* (common/optparser.c, which goes through the arguments once for the      *)
(* options and once for the rest) and as main takes them (lib/getopt.c,    *)
(* which moves the arguments behind the options while it reads them).      *)
(* argv[0], the name of the program, is left out.                          *)
(***************************************************************************)
EXTENDS Integers, Sequences, FiniteSets, SequencesExt

CONSTANTS
    Option,     \* [names, arg], with names of one letter and longer ones
    Word,       \* words of a line
    MaxWords    \* bound: words in a line

Dash == "-"
IsLong(word) == Len(word) > 1 /\ word[1] = Dash /\ word[2] = Dash
IsShort(word) == Len(word) > 1 /\ word[1] = Dash /\ word[2] # Dash

From(s, i) == SubSeq(s, i, Len(s))
NameOf(text) ==
    LET eq == SelectInSeq(text, LAMBDA c : c = "=")
    IN  IF eq = 0 THEN text ELSE SubSeq(text, 1, eq - 1)
HasValue(text) == NameOf(text) # text
ValueOf(text) == From(text, Len(NameOf(text)) + 2)

LongNames(o) == {n \in o.names : Len(n) # 1}
Short(c) == {o \in Option : <<c>> \in o.names}
Named(name) == {o \in Option : name \in LongNames(o)}
Abbreviated(name) == {o \in Option : \E n \in LongNames(o) : IsPrefix(name, n)}

NoValue == <<"none">>
Given(o, value) == [option |-> o, value |-> value]
Reading(options, args) == [ok |-> TRUE, options |-> options, args |-> args]
Failed == [ok |-> FALSE, options |-> <<>>, args |-> <<>>]

-----------------------------------------------------------------------------
(* common/optparser.c *)

Start == [cur_arg |-> 1, cur_chr |-> 0, no_more_opts |-> FALSE, value |-> NoValue]
Token(kind, s) == [kind |-> kind, option |-> {}, state |-> s]
Error(s) == Token("error", s)
Found(o, s) == [kind |-> "option", option |-> o, state |-> s]

(* lookup_long_option: the only option of which a name begins so.          *)
LookupLongOption(name) == Abbreviated(name)

(* handle_short_option.                                                    *)
HandleShortOption(argv, s) ==
    LET arg == argv[s.cur_arg]
        rest == From(arg, s.cur_chr + 2)
        next == [s EXCEPT !.cur_arg = @ + 1, !.cur_chr = 0]
    IN  IF Short(arg[s.cur_chr + 1]) = {} THEN Error(s)
        ELSE LET o == CHOOSE o \in Short(arg[s.cur_chr + 1]) : TRUE IN
        CASE o.arg = "no" ->
                 Found(o, [(IF rest = <<>> THEN next ELSE [s EXCEPT !.cur_chr = @ + 1])
                               EXCEPT !.value = NoValue])
          [] o.arg = "opt" ->
                 Found(o, [next EXCEPT !.value = IF rest = <<>> THEN NoValue ELSE rest])
          [] o.arg = "req" /\ rest # <<>> -> Found(o, [next EXCEPT !.value = rest])
          [] o.arg = "req" /\ rest = <<>> ->
                 IF next.cur_arg > Len(argv) THEN Error(next)
                 ELSE Found(o, [next EXCEPT !.value = argv[next.cur_arg], !.cur_arg = @ + 1])

(* next_token, for a word that begins with two dashes.                     *)
HandleLongOption(argv, s) ==
    LET text == From(argv[s.cur_arg], 3)
        value == IF HasValue(text) THEN ValueOf(text) ELSE NoValue
        next == [s EXCEPT !.cur_arg = @ + 1, !.value = value]
        found == LookupLongOption(NameOf(text))
    IN  IF Cardinality(found) # 1 THEN Error(next)
        ELSE LET o == CHOOSE o \in found : TRUE IN
        CASE o.arg = "no" /\ value # NoValue -> Error(next)
          [] o.arg = "req" /\ value = NoValue ->
                 IF next.cur_arg > Len(argv) THEN Error(next)
                 ELSE Found(o, [next EXCEPT !.value = argv[next.cur_arg], !.cur_arg = @ + 1])
          [] OTHER -> Found(o, next)

(* next_token.                                                             *)
RECURSIVE NextToken(_, _)
NextToken(argv, s) ==
    IF s.cur_arg > Len(argv) THEN Token("done", [s EXCEPT !.value = NoValue])
    ELSE IF s.cur_chr # 0 THEN HandleShortOption(argv, s)
    ELSE LET arg == argv[s.cur_arg] IN
         CASE ~s.no_more_opts /\ arg = <<Dash, Dash>> ->
                  NextToken(argv, [s EXCEPT !.cur_arg = @ + 1, !.no_more_opts = TRUE])
           [] ~s.no_more_opts /\ IsLong(arg) /\ arg # <<Dash, Dash>> -> HandleLongOption(argv, s)
           [] ~s.no_more_opts /\ IsShort(arg) -> HandleShortOption(argv, [s EXCEPT !.cur_chr = 1])
           [] OTHER -> Token("arg", [s EXCEPT !.cur_arg = @ + 1, !.value = arg])

(* The loop over next_token, which gave t.                                 *)
RECURSIVE Tokens(_, _)
Tokens(argv, t) ==
    CASE t.kind = "done" -> <<>>
      [] t.kind = "error" -> <<t>>
      [] OTHER -> <<t>> \o Tokens(argv, NextToken(argv, t.state))

(* look_for_token: options only, or only what is none.                     *)
LookForToken(tokens, options) ==
    SelectSeq(tokens, LAMBDA t : t.kind = "error" \/ options # (t.kind = "arg"))

(* The loops of cmd_ls over the options and, from the beginning again      *)
(* (check_parsing_opts), over the arguments.                               *)
Parsed(tokens) ==
    LET options == LookForToken(tokens, TRUE)
        args == LookForToken(tokens, FALSE)
    IN  IF \E i \in DOMAIN tokens : tokens[i].kind = "error" THEN Failed
        ELSE Reading([i \in DOMAIN options |-> Given(options[i].option, options[i].state.value)],
                     [i \in DOMAIN args |-> args[i].state.value])

-----------------------------------------------------------------------------
(* lib/getopt.c: the words between first and last are arguments that were  *)
(* passed, those between last and optind options that were read since.     *)

IsOption(word) == IsLong(word) \/ IsShort(word)

(* exchange: the shorter segment goes to the far end of the longer one.    *)
RECURSIVE Swapped(_, _, _, _)
Swapped(argv, bottom, middle, top) ==
    LET low == middle - bottom
        high == top - middle
        Swap(len, by) ==
            [i \in DOMAIN argv |->
                CASE i \in bottom..bottom + len - 1 -> argv[i + by]
                  [] i \in bottom + by..bottom + by + len - 1 -> argv[i - by]
                  [] OTHER -> argv[i]]
    IN  IF low = 0 \/ high = 0 THEN argv
        ELSE IF high > low THEN Swapped(Swap(low, high), bottom, middle, top - low)
        ELSE Swapped(Swap(high, low), bottom + high, middle, top)

Exchange(d) ==
    IF d.first = d.last \/ d.last = d.optind THEN d
    ELSE [d EXCEPT !.argv = Swapped(d.argv, d.first, d.last, d.optind),
                   !.first = @ + (d.optind - d.last), !.last = d.optind]

(* _getopt_internal_r, between two words.                                  *)
Skipped(d) ==
    LET e == [Exchange(d) EXCEPT !.first = IF d.first = d.last THEN d.optind ELSE @]
        rest == {i \in d.optind..Len(d.argv) : IsOption(d.argv[i])}
        optind == IF rest = {} THEN Len(d.argv) + 1 ELSE CHOOSE i \in rest : \A j \in rest : i <= j
    IN  [e EXCEPT !.optind = optind, !.last = optind]

Ended(d) ==
    LET e == [d EXCEPT !.optind = @ + 1]
        x == IF d.first = d.last THEN [e EXCEPT !.first = e.optind] ELSE Exchange(e)
    IN  [x EXCEPT !.last = Len(d.argv) + 1, !.optind = Len(d.argv) + 1]

Return(kind, d) == [kind |-> kind, given |-> {}, d |-> d]
Done(d) == Return("done", IF d.first # d.last THEN [d EXCEPT !.optind = d.first] ELSE d)
Wrong(d) == Return("error", d)
Code(o, value, d) == [kind |-> "option", given |-> Given(o, value), d |-> d]

(* The option that is in the word at optind, from nextchar on.             *)
WithArgument(o, text, here, next) ==
    CASE here -> Code(o, text, next)
      [] ~here /\ o.arg # "req" -> Code(o, NoValue, next)
      [] ~here /\ o.arg = "req" /\ next.optind > Len(next.argv) -> Wrong(next)
      [] OTHER -> Code(o, next.argv[next.optind], [next EXCEPT !.optind = @ + 1])

(* The option that is written out, or that begins so.                      *)
LongNamed(name) == IF Named(name) # {} THEN Named(name) ELSE Abbreviated(name)

LongOption(d) ==
    LET text == d.nextchar
        found == LongNamed(NameOf(text))
        next == [d EXCEPT !.nextchar = <<>>, !.optind = @ + 1]
    IN  IF Cardinality(found) # 1 THEN Wrong(next)
        ELSE LET o == CHOOSE o \in found : TRUE IN
        IF HasValue(text) /\ o.arg = "no" THEN Wrong(next)
        ELSE WithArgument(o, ValueOf(text), HasValue(text), next)

ShortOption(d) ==
    LET rest == Tail(d.nextchar)
        next == [d EXCEPT !.nextchar = <<>>, !.optind = @ + 1]
    IN  IF Short(Head(d.nextchar)) = {} THEN Wrong(d)
        ELSE LET o == CHOOSE o \in Short(Head(d.nextchar)) : TRUE IN
        IF o.arg # "no" THEN WithArgument(o, rest, rest # <<>>, next)
        ELSE Code(o, NoValue, IF rest = <<>> THEN next ELSE [d EXCEPT !.nextchar = rest])

(* _getopt_internal_r; permute unless POSIXLY_CORRECT is set.              *)
PastDashes(d) ==
    IF d.optind <= Len(d.argv) /\ d.argv[d.optind] = <<Dash, Dash>> THEN Ended(d) ELSE d
ReadWord(d) ==
    LET word == d.argv[d.optind]
    IN  IF d.optind > Len(d.argv) THEN Done(d)
        ELSE IF ~IsOption(word) THEN Return("done", d)
        ELSE IF IsLong(word) THEN LongOption([d EXCEPT !.nextchar = From(word, 3)])
        ELSE ShortOption([d EXCEPT !.nextchar = From(word, 2)])
Getopt(d, permute) ==
    IF d.nextchar # <<>> THEN ShortOption(d)
    ELSE ReadWord(PastDashes(IF permute THEN Skipped(d) ELSE d))

(* The loop of main, for which getopt_long returned t.                     *)
RECURSIVE GetoptLoop(_, _, _)
GetoptLoop(t, permute, options) ==
    CASE t.kind = "error" -> Failed
      [] t.kind = "done" -> Reading(options, From(t.d.argv, t.d.optind))
      [] OTHER -> GetoptLoop(Getopt(t.d, permute), permute, Append(options, t.given))

Main(argv, permute) ==
    LET d == [argv |-> argv, optind |-> 1, first |-> 1, last |-> 1, nextchar |-> <<>>]
    IN  GetoptLoop(Getopt(d, permute), permute, <<>>)

-----------------------------------------------------------------------------
(* Properties *)

(* What a line says: words without a dash are arguments, "--" ends the     *)
(* options, letters may stand together, the value of an option stands      *)
(* behind it or is the next word; a name that is written out is meant.     *)
RECURSIVE Meant(_, _)
Meant(argv, permute) ==
    LET word == Head(argv)
        rest == Tail(argv)
        name == NameOf(From(word, 3))
        long == IF Named(name) # {} THEN Named(name) ELSE Abbreviated(name)
        value == ValueOf(From(word, 3))
        Also(what, m) == IF m.ok THEN [m EXCEPT !.options = <<what>> \o @] ELSE m
        NextIs(o) ==
            IF rest = <<>> THEN Failed ELSE Also(Given(o, Head(rest)), Meant(Tail(rest), permute))
        One(found, has, text, more) ==
            IF Cardinality(found) # 1 THEN Failed
            ELSE LET o == CHOOSE o \in found : TRUE IN
                 CASE has -> Also(Given(o, text), Meant(rest, permute))
                   [] ~has /\ o.arg = "req" -> NextIs(o)
                   [] OTHER -> Also(Given(o, NoValue), Meant(more, permute))
    IN  IF argv = <<>> THEN Reading(<<>>, <<>>)
        ELSE IF word = <<Dash, Dash>> THEN Reading(<<>>, rest)
        ELSE IF IsLong(word)
        THEN IF HasValue(From(word, 3)) /\ \E o \in long : o.arg = "no" THEN Failed
             ELSE One(long, HasValue(From(word, 3)), value, rest)
        ELSE IF IsShort(word)
        THEN LET more == From(word, 3)
                 o == Short(word[2])
                 plain == \A p \in o : p.arg = "no"
             IN  One(o, ~plain /\ more # <<>>, more,
                     IF plain /\ more # <<>> THEN <<<<Dash>> \o more>> \o rest ELSE rest)
        ELSE IF permute
        THEN LET m == Meant(rest, permute)
             IN  IF m.ok THEN [m EXCEPT !.args = <<word>> \o @] ELSE m
        ELSE Reading(<<>>, argv)

(* Both parsers read every line as it is meant, wherever the options       *)
(* stand: each option with its value, the arguments in their order, and an *)
(* error where there is one (command.c:1319-1345, main.c:1147-1182).       *)
(* lookup_long_option takes a name for ambiguous, although it is written   *)
(* out, when a longer one begins with it.                                  *)
Prefixed(argv) ==
    \E i \in DOMAIN argv : /\ IsLong(argv[i])
                           /\ LET name == NameOf(From(argv[i], 3))
                              IN  Named(name) # {} /\ Cardinality(Abbreviated(name)) > 1

OptionsAreRead ==
    \A argv \in SeqOf(Word, MaxWords) : \A permute \in BOOLEAN :
        \A meant \in {Meant(argv, permute)}, tokens \in {Tokens(argv, NextToken(argv, Start))} :
            /\ Main(argv, permute) = meant
            /\ permute /\ ~Prefixed(argv) => Parsed(tokens) = meant
=============================================================================
