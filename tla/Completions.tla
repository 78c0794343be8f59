---------------------------- MODULE Completions -----------------------------
(***************************************************************************)
(* Which names a pattern matches: fnmatch with FNM_PERIOD, the only flag   *)
(* that the client uses (lib/fnmatch_loop.c, without character classes and *)
(* collating symbols), and the way of a component of a path, as it was     *)
(* typed, to a name or a pattern (fs.c).  And what the completion offers   *)
(* and inserts for names of files, programs, users, connections and        *)
(* values: the walk along the word as it was typed, and the choice that is *)
(* put in its place (fs.c, command.c, hub.c, main.c, variables.c,          *)
(* screen.c).                                                              *)
(***************************************************************************)
EXTENDS CommandLine

CONSTANTS
    Ascii,      \* characters in the order of their codes
    Pattern,    \* patterns, without ":" "=" "." behind a "["
    Component,  \* components as they are typed, without digits
    Name,       \* names of files
    Disk,       \* [order, kind, target]: the entries of a disk by their paths
    Typing,     \* words as they are typed, in front of the cursor
    Path,       \* directories of PATH, each with its files
    Nick        \* names of users

Code(c) == SelectInSeq(Ascii, LAMBDA d : d = c)
Wild == {"*", "?"}
Hides(n, period) == period /\ n # <<>> /\ n[1] = "."

-----------------------------------------------------------------------------
(* lib/fnmatch_loop.c.  c is the character that was read, p what follows.  *)

Nul == "end of the pattern"
Next(p) == IF p = <<>> THEN Nul ELSE p[1]
Unmatched == [kind |-> "fails", rest |-> <<>>]
Class(kind, rest) == [kind |-> kind, rest |-> rest]

(* matched: the rest of the brackets is skipped.                           *)
RECURSIVE Ignore(_)
Ignore(p) ==
    CASE Next(p) = Nul \/ p = <<Backslash>> -> Unmatched
      [] Next(p) = "]" -> Class("in", Tail(p))
      [] Next(p) = Backslash /\ Len(p) > 1 -> Ignore(From(p, 3))
      [] OTHER -> Ignore(Tail(p))

(* The loop over what stands in brackets.  An escaped character is read    *)
(* once more, and ends the brackets if it is one.                          *)
RECURSIVE Bracket(_, _, _)
Closing(c, p, fn) == IF c = "]" THEN Class("out", p) ELSE Bracket(c, p, fn)
Bracket(c, p, fn) ==
    LET range == Len(p) > 1 /\ p[1] = "-" /\ p[2] # "]"
        q == IF p = <<>> THEN <<>> ELSE Tail(p)
        end == IF Next(q) = Backslash THEN Tail(q) ELSE q
        rest == Tail(end)
    IN  IF c = Backslash /\ p = <<>> THEN Unmatched
        ELSE IF c = Backslash
        THEN IF p[1] = fn THEN Ignore(q) ELSE Closing(p[1], q, fn)
        ELSE IF c = Nul THEN Unmatched
        ELSE IF ~range /\ c = fn THEN Ignore(p)
        ELSE IF Next(p) # "-" \/ Next(q) = "]" THEN Closing(Next(p), q, fn)
        ELSE IF end = <<>> THEN Unmatched
        ELSE IF Code(c) <= Code(fn) /\ Code(fn) <= Code(end[1]) THEN Ignore(rest)
        ELSE Closing(Next(rest), IF rest = <<>> THEN <<>> ELSE Tail(rest), fn)

RECURSIVE Fct(_, _, _)

(* The wildcards that follow a star need a character each; what follows    *)
(* them is tried at every place that begins with its first character.      *)
RECURSIVE Stars(_, _, _)
Stars(p, n, period) ==
    CASE Next(p) = "*" -> Stars(Tail(p), n, period)
      [] Next(p) = "?" -> n # <<>> /\ Stars(Tail(p), Tail(n), period)
      [] Next(p) = Nul -> TRUE
      [] OTHER -> \E k \in 1..Len(n) :
             /\ \/ p[1] = "["
                \/ n[k] = IF p[1] = Backslash THEN Next(Tail(p)) ELSE p[1]
             /\ Fct(p, From(n, k), period /\ k = 1)

Fct(p, n, period) ==
    CASE Next(p) = Nul -> n = <<>>
      [] Next(p) = "*" -> ~Hides(n, period) /\ Stars(Tail(p), n, period)
      [] Next(p) = "?" -> n # <<>> /\ ~Hides(n, period) /\ Fct(Tail(p), Tail(n), FALSE)
      [] Next(p) = Backslash ->
             Len(p) > 1 /\ n # <<>> /\ n[1] = p[2] /\ Fct(From(p, 3), Tail(n), FALSE)
      [] Next(p) = "[" ->
             /\ n # <<>> /\ ~Hides(n, period)
             /\ LET not == Next(Tail(p)) \in {"!", "^"}
                    q == IF not THEN From(p, 3) ELSE Tail(p)
                    class == Bracket(Next(q), IF q = <<>> THEN <<>> ELSE Tail(q), n[1])
                IN  /\ class.kind = IF not THEN "out" ELSE "in"
                    /\ Fct(class.rest, Tail(n), FALSE)
      [] OTHER -> n # <<>> /\ n[1] = p[1] /\ Fct(Tail(p), Tail(n), FALSE)

Fnmatch(pattern, name) == Fct(pattern, name, TRUE)

-----------------------------------------------------------------------------
(* fs.c *)

(* skip_slashes.                                                           *)
RECURSIVE SkipSlashes(_, _)
SkipSlashes(buf, quoted) ==
    CASE buf # <<>> /\ buf[1] = Quote -> SkipSlashes(Tail(buf), ~quoted)
      [] buf # <<>> /\ buf[1] = "/" -> SkipSlashes(Tail(buf), quoted)
      [] IsPrefix(<<Backslash, "/">>, buf) -> SkipSlashes(From(buf, 3), quoted)
      [] OTHER -> [buf |-> buf, quoted |-> quoted]

HasLeadingSlash(buf) ==
    LET text == SelectInSeq(buf, LAMBDA c : c # Quote)
    IN  text # 0 /\ (buf[text] = "/" \/ IsPrefix(<<Backslash, "/">>, From(buf, text)))

(* dircomp_to_fnmatch_str: whether there are wildcards,                    *)
RECURSIVE HasWildcards(_, _)
HasWildcards(buf, quoted) ==
    CASE buf = <<>> \/ Next(buf) = "/" -> FALSE
      [] Next(buf) = Quote -> HasWildcards(Tail(buf), ~quoted)
      [] Next(buf) = Backslash -> HasWildcards(From(buf, 3), quoted)
      [] OTHER -> (buf[1] \in Wild /\ ~quoted) \/ HasWildcards(Tail(buf), quoted)

(* and the component without its quotes and escapes.                       *)
RECURSIVE Unescaped(_, _, _)
Unescaped(buf, quoted, wildcards) ==
    LET Then(text, rest) ==
            LET more == Unescaped(rest, quoted, wildcards) IN [more EXCEPT !.text = text \o @]
    IN  CASE buf \in {<<>>, <<Backslash>>} \/ Next(buf) = "/" ->
                 [text |-> <<>>, rest |-> IF buf = <<Backslash>> THEN <<>> ELSE buf, quoted |-> quoted]
          [] Next(buf) = Quote -> Unescaped(Tail(buf), ~quoted, wildcards)
          [] Next(buf) = Backslash /\ Len(buf) > 1 ->
                 Then(IF buf[2] \in Wild /\ (quoted \/ ~wildcards) THEN <<Backslash, buf[2]>>
                      ELSE <<buf[2]>>, From(buf, 3))
          [] OTHER ->
                 Then(IF buf[1] \in Wild /\ wildcards /\ quoted THEN <<Backslash, buf[1]>>
                      ELSE <<buf[1]>>, Tail(buf))

DircompToFnmatchStr(buf, quoted) ==
    LET s == SkipSlashes(buf, quoted)
        wildcards == HasWildcards(s.buf, s.quoted)
        comp == Unescaped(s.buf, s.quoted, wildcards)
    IN  [wildcards |-> wildcards, comp |-> comp.text, path |-> comp.rest, quoted |-> comp.quoted]

-----------------------------------------------------------------------------
(* Properties *)

(* What a pattern means: the name is cut into pieces, one for each part of *)
(* the pattern.  Brackets that are not closed match nothing.               *)
RECURSIVE Members(_, _)
Members(p, first) ==
    LET With(set, rest) ==
            LET more == Members(rest, FALSE) IN [more EXCEPT !.set = @ \cup set]
    IN  IF p = <<>> THEN [closed |-> FALSE, set |-> {}, rest |-> <<>>]
        ELSE IF p[1] = "]" /\ ~first THEN [closed |-> TRUE, set |-> {}, rest |-> Tail(p)]
        ELSE IF Len(p) > 2 /\ p[2] = "-" /\ p[3] # "]"
        THEN With({Ascii[i] : i \in Code(p[1])..Code(p[3])}, From(p, 4))
        ELSE With({p[1]}, Tail(p))

RECURSIVE Means(_, _)
Means(p, n) ==
    CASE p = <<>> -> n = <<>>
      [] Next(p) = "*" -> \E k \in 1..Len(n) + 1 : Means(Tail(p), From(n, k))
      [] Next(p) = "[" ->
             LET not == Next(Tail(p)) \in {"!", "^"}
                 members == Members(From(p, IF not THEN 3 ELSE 2), TRUE)
             IN  /\ n # <<>> /\ members.closed /\ (n[1] \in members.set) # not
                 /\ Means(members.rest, Tail(n))
      [] OTHER ->
             LET escaped == p[1] = Backslash
             IN  /\ n # <<>> /\ p # <<Backslash>>
                 /\ (p[1] = "?" \/ n[1] = p[IF escaped THEN 2 ELSE 1])
                 /\ Means(From(p, IF escaped THEN 3 ELSE 2), Tail(n))

(* fnmatch matches what the pattern means, and a leading period only with  *)
(* a period (lib/fnmatch_loop.c).  Not so if a backslash stands in         *)
(* brackets, where a "]" behind it ends them although it is escaped        *)
(* (fnmatch_loop.c:245-254), and if brackets follow stars and question     *)
(* marks at the start: they do not match a period then, wherever it stands *)
(* (fnmatch_loop.c:165).                                                   *)
EscapeInBrackets(p) == \E i \in DOMAIN p : \E j \in 1..i : p[i] = Backslash /\ p[j] = "["
BracketsBehindStars(p) ==
    \E i \in DOMAIN p : p[1] = "*" /\ p[i] = "[" /\ ToSet(Upto(p, i - 1)) = Wild

FnmatchIsMeant ==
    \A p \in Pattern : \A n \in Name :
        ~EscapeInBrackets(p) /\ ~BracketsBehindStars(p) =>
            Fnmatch(p, n) = (/\ Means(p, n)
                             /\ Hides(n, TRUE) => Next(p) = "." \/ IsPrefix(<<Backslash, ".">>, p))

(* A component matches as it was typed: a "*" or "?" is a wildcard unless  *)
(* it is quoted, every other character is itself (fs.c:1077-1153).  An     *)
(* escaped "*" or "?" is a wildcard if there is another one, and has a     *)
(* backslash in front otherwise, just the other way around (fs.c:1135);    *)
(* with a wildcard, a bracket or a backslash is one of fnmatch, also if it *)
(* is quoted.                                                              *)
RECURSIVE Typed(_, _)
Typed(s, quoted) ==
    CASE s \in {<<>>, <<Backslash>>} -> <<>>
      [] Next(s) = Quote -> Typed(Tail(s), ~quoted)
      [] Next(s) = Backslash /\ Len(s) > 1 -> <<Backslash, s[2]>> \o Typed(From(s, 3), quoted)
      [] OTHER -> (IF quoted \/ s[1] \notin Wild THEN <<Backslash, s[1]>> ELSE <<s[1]>>)
                      \o Typed(Tail(s), quoted)

EscapedWildcard(s) ==
    \E i \in 1..Len(s) - 1 : s[i] = Backslash /\ s[i + 1] \in Wild

ComponentIsMeant ==
    \A s \in Component :
        LET d == DircompToFnmatchStr(s, FALSE)
        IN  ~EscapedWildcard(s) /\ ~(d.wildcards /\ ToSet(d.comp) \cap {"[", Backslash} # {}) =>
                \A n \in Name :
                    (IF d.wildcards THEN Fnmatch(d.comp, n) ELSE d.comp = n)
                        = (/\ Means(Typed(s, FALSE), n)
                           /\ (d.wildcards /\ Hides(n, TRUE)) => d.comp[1] = ".")

-----------------------------------------------------------------------------
(* Files by their paths *)

(* The root is the working directory.  A link leads to a directory, its    *)
(* target, or has none.                                                    *)
Kind(disk, path) ==
    IF path = <<>> THEN "dir" ELSE IF path \in DOMAIN disk.kind THEN disk.kind[path] ELSE "none"
Followed(disk, path) == IF path \in DOMAIN disk.target THEN disk.target[path] ELSE path

(* The entry that a text names, if there is one; stat follows a link at    *)
(* the end too.                                                            *)
Resolve(disk, text) ==
    LET Cut(acc, c) ==
            IF c = "/" THEN Append(acc, <<>>) ELSE [acc EXCEPT ![Len(acc)] = Append(@, c)]
        Step(at, name) ==
            LET dir == Followed(disk, at)
            IN  IF Kind(disk, dir) # "dir" THEN <<<<"none">>>>
                ELSE IF name \in {<<>>, <<".">>} THEN dir
                ELSE IF name = <<".", ".">> THEN (IF dir = <<>> THEN <<>> ELSE Front(dir))
                ELSE Append(dir, name)
    IN  FoldLeft(Step, <<>>, FoldLeft(Cut, <<<<>>>>, text))
Lstat(disk, text) == Kind(disk, Resolve(disk, text))
Stat(disk, text) == Kind(disk, Followed(disk, Resolve(disk, text)))

(* The names that readdir gives, in its order.                             *)
Readdir(disk, text) ==
    LET dir == Followed(disk, Resolve(disk, text))
        here == SelectSeq(disk.order, LAMBDA p : Front(p) = dir)
    IN  IF Kind(disk, dir) # "dir" THEN <<>>
        ELSE <<<<".">>, <<".", ".">>>> \o [i \in DOMAIN here |-> Last(here[i])]

ConcatFilenames(p1, p2) ==
    CASE p1 = <<>> /\ p2 = <<>> -> <<".">>
      [] p1 = <<>> \/ p2 = <<>> -> p1 \o p2
      [] OTHER -> (IF Last(p1) = "/" THEN Front(p1) ELSE p1) \o <<"/">> \o p2

-----------------------------------------------------------------------------
(* Entries *)

Entry(name, input, fmt, final, quoted, from) ==
    [name |-> name, input |-> input, input_fmt |-> fmt, input_single_fmt |-> fmt,
     finalize |-> final, quoted |-> quoted, from |-> from]

(* add_local_wildcard_result, of what is a kind of entry and, with links   *)
(* followed, of a final kind.  A link to a directory gets its slash when   *)
(* it is typed already.                                                    *)
WildcardResult(kind, final, flags, entry, typed) ==
    LET directory == [entry EXCEPT !.finalize = FALSE]
    IN  CASE kind = "dir" /\ "DIR" \in flags ->
                 {[directory EXCEPT !.input_fmt = <<"/">>, !.input_single_fmt = <<"/">>]}
          [] kind = "link" /\ final = "dir" /\ "DIR" \in flags ->
                 {[directory EXCEPT !.input_single_fmt = IF typed THEN <<"/">> ELSE <<>>]}
          [] kind = "link" /\ final # "dir" /\ "REG" \in flags -> {entry}
          [] kind \in {"reg", "exe"} /\ flags \cap {"REG", "EXE"} # {}
                 /\ ("EXE" \in flags => kind = "exe") -> {entry}
          [] OTHER -> {}

AddLocalWildcardResult(disk, name, flags, word) ==
    LET dquoted == Next(word) = Quote
        Add(entry) ==
            WildcardResult(Lstat(disk, name), Stat(disk, name), flags, entry,
                           word = IF dquoted THEN Front(entry.input) ELSE entry.input)
    IN  Add(Entry(name, FilenameQuoteString(name, dquoted, TRUE), <<>>, TRUE, TRUE, 0))

(* local_wildcard_complete.  What is quoted at the end of one directory is *)
(* quoted at the beginning of the next one, since the calls share the flag.*)
RECURSIVE LocalWildcardComplete(_, _, _, _, _, _, _)
LocalWildcardComplete(disk, path, quoted, basedir, flags, word, found) ==
    LET Add(names) == UNION {AddLocalWildcardResult(disk, n, flags, word) : n \in names}
        Results(results, q) == [results |-> results, quoted |-> q]
        Walk(d, full, files) ==
            LET Below(acc, name) ==
                    LET dir == ConcatFilenames(basedir, name)
                        r == LocalWildcardComplete(disk, d.path, acc.quoted, dir, flags, word, TRUE)
                    IN  IF Fnmatch(d.comp, name) /\ Stat(disk, dir) = "dir"
                        THEN Results(acc.results \cup r.results, r.quoted) ELSE acc
                Begins(n) == IsPrefix(d.comp, n) /\ (n[1] = ".") = (Next(d.comp) = ".")
                Chosen(n) == IF d.wildcards THEN Fnmatch(d.comp, n) ELSE Begins(n)
            IN  CASE d.path # <<>> /\ d.wildcards -> FoldLeft(Below, Results({}, d.quoted), files)
                  [] d.path # <<>> /\ ~d.wildcards ->
                         IF Lstat(disk, full) = "none" THEN Results({}, d.quoted)
                         ELSE LocalWildcardComplete(disk, d.path, d.quoted, full, flags, word, found)
                  [] d.path = <<>> ->
                         Results(Add(IF ~d.wildcards /\ found THEN {full}
                                     ELSE {ConcatFilenames(basedir, n) : n \in {m \in ToSet(files) : Chosen(m)}}),
                                 d.quoted)
        Walked(d) == Walk(d, ConcatFilenames(basedir, d.comp), Readdir(disk, basedir))
    IN  Walked(DircompToFnmatchStr(path, quoted))

LocalFsCompletionGenerator(disk, word, flags) ==
    LocalWildcardComplete(disk, word, FALSE, IF HasLeadingSlash(word) THEN <<"/">> ELSE <<>>,
                          flags, word, FALSE).results

(* get_file_dir_part: the word has a directory.                            *)
HasDirPart(word) == "/" \in ToSet(word)

(* executable_completion_generator.                                        *)
ExecutableCompletionGenerator(disk, word_full, path_has_cwd) ==
    LET word == DequoteString(word_full)
        In(i) == {n \in DOMAIN Path[i] : Path[i][n] = "exe" /\ IsPrefix(word, n)}
        programs == UNION {{Entry(n, n, <<>>, TRUE, FALSE, i) : n \in In(i)} : i \in DOMAIN Path}
        near == HasDirPart(word) \/ path_has_cwd
        flags == IF near THEN {"DIR", "EXE"} ELSE {"DIR"}
    IN  programs \cup IF near \/ programs = {}
                      THEN LocalFsCompletionGenerator(disk, word_full, flags) ELSE {}

-----------------------------------------------------------------------------
(* Users, connections and values *)

(* user_completion_generator, of all users of the hub.                     *)
UserCompletionGenerator(names, word) ==
    {Entry(n, n, <<>>, TRUE, FALSE, 1) : n \in {m \in names : IsPrefix(word, m)}}

UserOrMyselfCompletionGenerator(names, my_nick, word) ==
    UserCompletionGenerator(names, word)
        \cup {[e EXCEPT !.from = 2] : e \in UserCompletionGenerator({my_nick}, word)}

UserWithQueueCompletionGenerator(names, queue, word) ==
    {e \in UserCompletionGenerator(names, word) : Len(queue[e.name]) > 0}

(* say_user_completion_generator: who is addressed stands before a colon.  *)
SayUserCompletionGenerator(names, word_full) ==
    {[Entry(e.name, QuoteString(e.name, Next(word_full) = Quote, TRUE), <<>>, FALSE, TRUE, 1)
          EXCEPT !.input_single_fmt = <<":", " ">>] :
        e \in UserCompletionGenerator(names, DequoteString(word_full))}

(* transfer_completion_generator: the name of a connection is that of its  *)
(* user and what is done there.                                            *)
TransferCompletionGenerator(names, word) ==
    UserCompletionGenerator({n \o <<"|">> \o way : n \in names, way \in {<<"D", "L">>, <<"U", "L">>}}, word)

(* bool_completion_generator.                                              *)
Bools == {<<"1">>, <<"o", "n">>, <<"y", "e", "s">>, <<"t", "r", "u", "e">>,
          <<"0">>, <<"o", "f", "f">>, <<"n", "o">>, <<"f", "a", "l", "s", "e">>}
BoolCompletionGenerator(word) == UserCompletionGenerator(Bools, word)

-----------------------------------------------------------------------------
(* screen.c *)

(* get_quoted_input of any result; CommandLine has the one of a name that  *)
(* is not quoted yet.                                                      *)
EntryInput(word, e, single, finalize) ==
    LET open == e.quoted /\ e.input[1] = Quote
        final == finalize /\ e.finalize
        text == (IF open THEN Front(e.input) ELSE e.input)
                    \o (IF single THEN e.input_single_fmt ELSE e.input_fmt)
        closed == IF e.quoted THEN (IF open /\ final THEN Append(text, Quote) ELSE text)
                  ELSE QuoteWordFull(text, Next(word) = Quote, final,
                                     [also |-> {";"}, first |-> {"#"}, c |-> TRUE])
    IN  IF final THEN Append(closed, " ") ELSE closed

(* completion_readline: the text that takes the place of the word, if      *)
(* there are several results as far as they agree.                         *)
LeadingSame(texts) ==
    LET one == CHOOSE t \in texts : TRUE
        n == CHOOSE k \in 0..Len(one) :
                 /\ \A t \in texts : IsPrefix(Upto(one, k), t)
                 /\ k = Len(one) \/ \E t \in texts : ~IsPrefix(Upto(one, k + 1), t)
    IN  Upto(one, n)

Inserted(word, results) ==
    IF Cardinality(results) = 1 THEN EntryInput(word, CHOOSE e \in results : TRUE, TRUE, TRUE)
    ELSE LeadingSame({EntryInput(word, e, FALSE, FALSE) : e \in results})

-----------------------------------------------------------------------------
(* Properties *)

(* The text of a word, with single slashes.                                *)
Read(word) ==
    FoldLeft(LAMBDA acc, c : IF c = "/" /\ acc # <<>> /\ Last(acc) = "/" THEN acc ELSE Append(acc, c),
             <<>>, DequoteString(word))
Names(results) == {e.name : e \in results}
Fits(disk, name, flags) ==
    CASE Stat(disk, name) = "dir" -> "DIR" \in flags
      [] Lstat(disk, name) = "none" -> FALSE
      [] OTHER -> "REG" \in flags

(* Words of which the wildcards are found, and which are read alike in     *)
(* every directory.                                                        *)
Legible(word) == \A i \in 1..Len(word) - 1 : word[i] = Backslash => word[i + 1] \notin Wild \cup {"/"}
Globs(word) == HasWildcards([i \in DOMAIN word |-> IF word[i] = "/" THEN "." ELSE word[i]], FALSE)
Plain(word) == Legible(word) /\ ~Globs(word)
Globbed(word) ==
    /\ Legible(word) /\ Globs(word) /\ Last(word) # "/"
    /\ Backslash \notin ToSet(DequoteString(word))
    /\ \A i \in DOMAIN word : word[i] = Quote => \A j \in 1..i : word[j] \notin Wild

(* The entries that a word is the beginning of, or that match it.          *)
Beginning(disk, word, flags) ==
    LET text == Read(word)
        cut == SelectLastInSeq(text, LAMBDA c : c = "/")
        file == From(text, cut + 1)
        Begins(n) == IsPrefix(file, n) /\ (n[1] = ".") = (Next(file) = ".")
    IN  {Upto(text, cut) \o n : n \in {m \in ToSet(Readdir(disk, Upto(text, cut))) :
            Begins(m) /\ Fits(disk, Upto(text, cut) \o m, flags)}}

RECURSIVE Matching(_, _, _)
Matching(disk, typed, base) ==
    LET slash == SelectInSeq(typed, LAMBDA c : c = "/")
        comp == IF slash = 0 THEN typed ELSE Upto(typed, slash - 2)
        names == {n \in ToSet(Readdir(disk, base)) :
                     Means(comp, n) /\ (n[1] = "." => IsPrefix(<<Backslash, ".">>, comp))}
        found == {ConcatFilenames(base, n) : n \in names}
    IN  IF comp = <<>>
        THEN IF slash = 0 THEN {base}
             ELSE Matching(disk, From(typed, slash + 1), IF base = <<>> THEN <<"/">> ELSE base)
        ELSE IF slash = 0 THEN found
        ELSE UNION {Matching(disk, From(typed, slash + 1), b) : b \in {f \in found : Stat(disk, f) = "dir"}}

(* The only choice becomes the argument of the command, closed if it is a  *)
(* file and open to go on if it is a directory; a link to one gets its     *)
(* slash when it is completed again.                                       *)
OneIsInserted(disk, word, e, text, again) ==
    LET more == IF e.finalize THEN <<<<"a">>>> ELSE <<>>
        link == Lstat(disk, e.name) = "link"
        Slashed(slash) ==
            /\ CommandExecute(<<>>, <<"a", " ">> \o text \o Concat(more))
                   = <<<<<<"a">>, e.name \o (IF e.finalize THEN <<>> ELSE slash)>> \o more>>
            /\ ~e.finalize =>
                   /\ slash \in (IF link THEN {<<>>} ELSE {<<"/">>})
                                    \cup (IF link /\ Read(word) = e.name THEN {<<"/">>} ELSE {})
                   /\ slash = <<>> => Inserted(text, again) = Append(text, "/")
    IN  /\ e.finalize = (Stat(disk, e.name) # "dir")
        /\ Slashed(From(Read(text), Len(e.name) + 1))

(* Of several choices, what they have in common takes the place of the     *)
(* word, and none is lost by it: the completion offers them again.         *)
CommonIsInserted(word, results, text, again) ==
    /\ \A r \in results : IsPrefix(Read(text), r.name \o r.input_fmt)
    /\ Plain(word) => IsPrefix(Read(word), Read(text))
    /\ Plain(word) /\ Plain(text) => Names(again) = Names(results)

(* What the completion of a path offers is there: all that begins so, or   *)
(* all that the wildcards match, and what is inserted leads to it          *)
(* (fs.c:1179-1515, screen.c:468-555).  Not so with an escaped wildcard,   *)
(* which is how a name with one is completed (fs.c:1135), with an escaped  *)
(* slash behind a name (fs.c:1098), with quotes behind a wildcard, which   *)
(* are open in some of the directories (fs.c:1398), with a backslash next  *)
(* to a wildcard and with a slash at the end behind one, which makes files *)
(* be offered (fs.c:1422).                                                 *)
PathIsCompleted(disk, word, flags) ==
    \A results \in {LocalFsCompletionGenerator(disk, word, flags)} :
        /\ \A r \in results : Lstat(disk, r.name) # "none"
        /\ Plain(word) => Names(results) = Beginning(disk, word, flags)
        /\ Globbed(word) =>
               Names(results) = {n \in Matching(disk, Typed(word, FALSE), <<>>) : Fits(disk, n, flags)}
        /\ results # {} => \A text \in {Inserted(word, results)} :
               LET again == LocalFsCompletionGenerator(disk, text, flags)
               IN  IF Cardinality(results) = 1
                   THEN \A e \in results : OneIsInserted(disk, word, e, text, again)
                   ELSE CommonIsInserted(word, results, text, again)

PathsAreCompleted ==
    \A disk \in Disk : \A word \in Typing : \A flags \in {{"DIR", "REG"}, {"DIR"}} :
        PathIsCompleted(disk, word, flags)

(* The first argument of shell is completed to every program of PATH that  *)
(* begins so, to programs of the current directory only behind a slash or  *)
(* with "." in PATH, and to its directories there and when no program      *)
(* begins so (command.c:555-624; [2] and [3] of command.c:539-554).  [1]   *)
(* of that comment, directories always, the code does not do: when a       *)
(* program matches and "." is not in PATH, none is offered.  A program     *)
(* that is in two directories is not closed.                               *)
ProgramsAreCompleted ==
    \A disk \in Disk : \A word \in Typing : \A path_has_cwd \in BOOLEAN :
        \A results \in {ExecutableCompletionGenerator(disk, word, path_has_cwd)}, read \in {Read(word)} :
            LET near == path_has_cwd \/ "/" \in ToSet(read)
                programs == {n \in Name : IsPrefix(read, n)
                                 /\ \E i \in DOMAIN Path : n \in DOMAIN Path[i] /\ Path[i][n] = "exe"}
                local == Names({r \in results : r.from = 0})
            IN  /\ Names({r \in results : r.from # 0}) = programs
                /\ \A n \in local : Stat(disk, n) = "dir" \/ near
                /\ \A n \in local : Stat(disk, n) # "dir" => Lstat(disk, n) = "exe"
                /\ Plain(word) /\ (near \/ programs = {}) =>
                       {n \in local : Stat(disk, n) = "dir"} = Beginning(disk, word, {"DIR"})
                /\ Plain(word) /\ near =>
                       {n \in Beginning(disk, word, {"REG"}) : Lstat(disk, n) = "exe"} \subseteq local
                /\ Cardinality(results) = 1 /\ programs # {} =>
                       \A text \in {Inserted(word, results)} : Last(text) = " " /\ Read(Front(text)) \in programs


(* Of one user, connection or value that begins so the name is inserted as *)
(* one argument, whatever characters it has, and another may follow; for   *)
(* say the name with a colon stands in front of what is said.  Of several  *)
(* none is lost by what is inserted.  Our own nick is offered twice when   *)
(* the hub lists it, and not closed then (hub.c:166).                      *)
Offered(kind, my_nick, word) ==
    LET w == DequoteString(word)
        queue == [n \in Nick |-> IF n = my_nick THEN <<>> ELSE <<"f">>]
    IN  CASE kind = "bool" -> BoolCompletionGenerator(w)
          [] kind = "user" -> UserCompletionGenerator(Nick, w)
          [] kind = "queued" -> UserWithQueueCompletionGenerator(Nick, queue, w)
          [] kind = "myself" -> UserOrMyselfCompletionGenerator(Nick \ {my_nick}, my_nick, w)
          [] kind = "twice" -> UserOrMyselfCompletionGenerator(Nick, my_nick, w)
          [] kind = "transfer" -> TransferCompletionGenerator({my_nick}, w)
Offers(kind, my_nick) ==
    CASE kind = "bool" -> Bools
      [] kind = "queued" -> Nick \ {my_nick}
      [] kind = "transfer" -> {my_nick \o <<"|", way, "L">> : way \in {"D", "U"}}
      [] OTHER -> Nick

NameIsCompleted(kind, my_nick, word) ==
    \A results \in {Offered(kind, my_nick, word)}, read \in {DequoteString(word)} :
        /\ Names(results) = {n \in Offers(kind, my_nick) : IsPrefix(read, n)}
        /\ results # {} => \A text \in {Inserted(word, results)} :
               IF Cardinality(results) = 1
               THEN CommandExecute(<<>>, <<"a", " ">> \o text \o <<"b">>)
                        = <<<<<<"a">>, (CHOOSE e \in results : TRUE).name, <<"b">>>>>>
               ELSE /\ IsPrefix(read, DequoteString(text))
                    /\ Names(Offered(kind, my_nick, text)) = Names(results)

SaidToOne(my_nick, word) ==
    LET said == SayUserCompletionGenerator({my_nick}, word)
        argv == CommandExecute(<<>>, <<"s", " ">> \o Inserted(word, said) \o <<"b">>)[1]
    IN  said # {} =>
            FoldLeft(LAMBDA out, w : IF out = <<>> THEN w ELSE out \o <<" ">> \o w, <<>>, Tail(argv))
                = my_nick \o <<":", " ", "b">>

NamesAreCompleted ==
    /\ \A n \in Bools, quote \in {<<>>, <<Quote>>} : \A k \in 0..Len(n) :
           NameIsCompleted("bool", <<>>, quote \o Upto(n, k))
    /\ \A word \in Typing : \A my_nick \in Nick :
           /\ SaidToOne(my_nick, word)
           /\ \A kind \in {"user", "queued", "myself", "twice", "transfer"} :
                  NameIsCompleted(kind, my_nick, word)
=============================================================================
