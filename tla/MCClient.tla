------------------------------- MODULE MCClient -------------------------------
(***************************************************************************)
(* What the user and the other clients meet, in one model: a connection of *)
(* two clients, with files of at most two units and one or two files asked *)
(* for; the terminal; the lists that are browsed; and the texts that are   *)
(* typed, searched in and sent.  A behaviour takes the steps of one part,  *)
(* which it chooses at the start, while the others stay as they begin.     *)
(* What has no state is evaluated for all small inputs.                    *)
(***************************************************************************)
EXTENDS PeerProtocol, Screen, SequencesExt, TLC

CONSTANTS
    a, b,
    s1, s2,
    u, v, Me, Crash

MCPeer == {a, b}
OneShell == {s1}
TwoShells == {s1, s2}
MCPrompt == {"p", "q"}

VARIABLES
    part,         \* the part that takes steps
    our_filelist, browse_list, browse_user, browse_path, browse_path_previous,
    browsing_myself, prompt, queued, files, pending_parses, crashed,    \* Browsing
    charset, iconv, open, phase                                         \* Charsets

browse_vars == <<our_filelist, browse_list, browse_user, browse_path, browse_path_previous,
                 browsing_myself, prompt, queued, files, pending_parses, crashed>>
charset_vars == <<charset, iconv, open, phase>>

-----------------------------------------------------------------------------
(* The instances *)

(* A list with a directory, and one without.                               *)
Small == {[dirs |-> {<<>>, <<"a">>}, files |-> {<<"b">>}],
          [dirs |-> {<<>>}, files |-> {<<"a">>}]}

B == INSTANCE Browsing WITH
         User <- {u, v}, Kind <- {"DcLst", "xml"}, Tree <- Small, Hidden <- {}, Begins <- {},
         Component <- {"a", "b", "*", ".."}, PathMax <- 2, MaxLists <- 2, MaxPending <- 2

(* Names of which one begins with another, a hidden one, a directory in    *)
(* one, and an empty list.                                                 *)
Large == {[dirs |-> {<<>>, <<"a">>, <<"a", "b">>, <<"ab">>},
           files |-> {<<"b">>, <<"a", "a">>, <<"a", ".h">>, <<"a", "b", "b">>}],
          [dirs |-> {<<>>}, files |-> {}]}

P == INSTANCE Browsing WITH
         User <- {u, v}, Kind <- {"DcLst", "xml"}, Tree <- Large, Hidden <- {".h"},
         Begins <- {<<"", "a">>, <<"", "b">>, <<"", "ab">>, <<"a", "a">>, <<"a", "ab">>,
                    <<"b", "b">>, <<"ab", "ab">>, <<".", ".h">>, <<".", ".">>, <<".", "..">>,
                    <<"..", "..">>},
         Component <- {"a", "b", "ab", ".", "..", "", "*", ".*"}, PathMax <- 3,
         MaxLists <- 2, MaxPending <- 2

(* Parts of patterns, and everything that may stand in brackets; a disk    *)
(* with a directory, one in a directory, a link to one, and names that     *)
(* need quotes; and one with names that begin like something else.         *)
PatternPart == {<<"a">>, <<"*">>, <<"?">>, <<"[", ".", "]">>, <<"[", "!", "a", "]">>,
                <<"[", "a", "-", "b", "]">>, <<"\\", "*">>, <<"\\">>, <<"[">>, <<"]">>}
DiskOf(dirs, regs, exes, target) ==
    [order |-> FoldSet(LAMBDA p, order : Append(order, p), <<>>,
                       dirs \cup regs \cup exes \cup DOMAIN target),
     kind |-> [d \in dirs |-> "dir"] @@ [f \in regs |-> "reg"] @@ [f \in exes |-> "exe"]
                  @@ [f \in DOMAIN target |-> "link"],
     target |-> target]
FirstDisk ==
    DiskOf({<<<<"a">>>>, <<<<"a", "a">>>>},
           {<<<<"a">>, <<"b">>>>, <<<<"a">>, <<".", "h">>>>, <<<<"a">>, <<"*">>>>, <<<<"a", "a">>, <<"b">>>>,
            <<<<".", "h">>>>},
           {<<<<"a", "\"">>>>},
           <<<<"a", " ">>>> :> <<<<"a">>>> @@ <<<<"b">>>> :> <<<<"none">>>>)
SecondDisk ==
    DiskOf({}, {<<<<"#">>>>, <<<<";", "a">>>>, <<<<"\\", "b">>>>, <<<<"?">>>>, <<<<"a", "\"", "b">>>>}, {}, <<>>)

L == INSTANCE Completions WITH
         Letter <- {"a", "n", "3"}, Newline <- "nl", High <- "hi", WordMax <- 2, LineMax <- 5,
         Ascii <- <<"!", "*", "-", ".", "?", "[", "\\", "]", "a", "b">>,
         Pattern <- {FlattenSeq(q) : q \in SeqOf(PatternPart, 3)}
                        \cup {<<"[">> \o q : q \in SeqOf({"a", "b", "-", "!", "]", "\\"}, 4)},
         Component <- SeqOf({"a", "*", "?", "\"", "\\", "[", "."}, 4),
         Name <- SeqOf({"a", "b", ".", "]", "*", "\""}, 2) \cup {<<"a", "b", "a">>, <<"a", ".", "a">>},
         Disk <- {FirstDisk, SecondDisk},
         Typing <- SeqOf({"a", "b", "*", "/", "\"", "\\", ".", " "}, 3)
                       \cup SeqOf({"a", "*", "/"}, 4)
                       \cup {<<"\"">> \o q : q \in SeqOf({"a", "*", "/"}, 3)}
                       \cup SeqOf({"#", ";", "?", "\"", "\\"}, 2),
         Nick <- {<<"a">>, <<"a", "b">>, <<"a", "\"">>, <<"#">>, <<";", "a">>, <<"\\", "b">>, <<"b", " ">>},
         Path <- <<<<"a">> :> "exe" @@ <<"a", "b">> :> "reg", <<"a">> :> "exe" @@ <<"b", "a">> :> "exe">>

G == INSTANCE Messages WITH Byte <- {"a", "/"}, LengthMax <- 3

F == INSTANCE FileLists WITH
         Letter <- {"a"}, Digit <- ("1" :> 1), NameMax <- 2, TextMax <- 6

(* Two names of one set, which is that of the locale, and one of none.     *)
C == INSTANCE Charsets WITH
         Known <- {"UTF-8", "ISO", "iso"}, Bogus <- {"bogus"}, Alike <- {<<"ISO", "iso">>},
         Locale <- "ISO"

(* Nicks, settings and messages of at most two characters; bytes of which  *)
(* some are reserved in a key.                                             *)
H == INSTANCE HubTexts WITH
         Letter <- {"a"}, MaxLength <- 2, TextMax <- 2, Byte <- {0, 1, 36, 37, 80, 165}

V == INSTANCE Variables WITH
         Flag <- {"debug", "upload"}, Number <- ("0" :> 0 @@ "1" :> 1 @@ "7" :> 7),
         Address <- ("1.1.1.1" :> 1 @@ "2.2.2.2" :> 2), Unknown <- {"bogus"}

(* Names with every character that separates something in an answer; a     *)
(* file without a hash, one that begins like an extension, and one whose   *)
(* name is that of a list.                                                 *)
SLetter == {"a", "A", "b", ".", " ", "(", ")", "?", "\\", "/", "TTH:", "^E", "$SR", "h", "n", "0", "1"}
SFile(size, tth) == [size |-> size, tth |-> tth]
SList ==
    [order |-> <<<<<<"a">>>>, <<<<"a">>, <<"b", " ", "(">>>>, <<<<"a">>, <<"A", ".", "a", "b">>>>,
                 <<<<"b", ".", "b">>>>, <<<<"a">>, <<"b">>>>, <<<<"a">>, <<"b">>, <<"a", "?">>>>>>,
     files |-> <<<<"a">>, <<"b", " ", "(">>>> :> SFile("1", None)
               @@ <<<<"a">>, <<"A", ".", "a", "b">>>> :> SFile("0", <<"A", "b">>)
               @@ <<<<"b", ".", "b">>>> :> SFile("3", <<"A", "A">>)
               @@ <<<<"a">>, <<"b">>, <<"a", "?">>>> :> SFile("2", None)]

(* Active clients that share an address or a port, one of which is the     *)
(* default, and a passive one.                                             *)
SClient(nick, host, port, active) ==
    [nick |-> <<nick>>, host |-> host, port |-> port, active |-> active]

S == INSTANCE InboundSearch WITH
         Letter <- SLetter,
         Lower <- [l \in SLetter \cup {"tth:"} |->
                       CASE l = "A" -> "a" [] l = "TTH:" -> "tth:" [] OTHER -> l],
         Dollar <- "$", Nul <- "end", MaxQuery <- 0, MaxName <- 0,
         Extensions <- [t \in 0..9 |-> CASE t = 2 -> <<<<"a">>, <<"b">>>> [] t = 3 -> <<<<"b">>>>
                                          [] OTHER -> None],
         Lists <- {SList, [SList EXCEPT !.order = [k \in 1..6 |-> @[7 - k]]]},
         ListNames <- {<<"/", "b", ".", "b">>},
         Query <- {<<"a">>, <<"b", "?">>, <<"A", " ", "b">>, <<" ">>, <<"|", "a", "?">>, <<"b">>,
                   <<"TTH:", "a", "a">>},
         MaxResults <- {1, 2, 6},
         Client <- {SClient("a", "1.1.1.1", "4", TRUE), SClient("n", "1.1.1.1", "3", TRUE),
                    SClient("b", "2.2.2.2", "4", TRUE), SClient("h", "2.2.2.2", "0", FALSE)},
         HashLength <- 2, OffsetMax <- 5

(* Names that begin with one another, an empty value, words that are no    *)
(* option although they have a dash.                                       *)
O == INSTANCE Options WITH
         Option <- {[names |-> {<<"a">>, <<"a", "b">>}, arg |-> "no"],
                    [names |-> {<<"b">>, <<"a", "b", "c">>}, arg |-> "req"],
                    [names |-> {<<"c">>, <<"c", "a">>, <<"c", "b">>}, arg |-> "opt"]},
         Word <- {<<>>, <<"a">>, <<"-">>, <<"-", "-">>, <<"-", "a">>, <<"-", "a", "b">>,
                  <<"-", "b", "a">>, <<"-", "a", "c">>, <<"-", "d">>, <<"-", "-", "a">>,
                  <<"-", "-", "a", "b">>, <<"-", "-", "a", "b", "c", "=", "a">>,
                  <<"-", "-", "c">>, <<"-", "-", "c", "a", "=">>, <<"-", "-", "a", "b", "c">>,
                  <<"-", "-", "a", "b", "=">>},
         MaxWords <- 3

-----------------------------------------------------------------------------

ClientInit ==
    /\ part \in {"connection", "screen", "browsing", "charsets", "paths", "lines", "lists"}
    /\ Init /\ ScreenInit /\ B!Init /\ C!Init
    /\ part # "connection" => \A p \in Peer : proc[p].rand = 1
    /\ part # "screen" => screen_prompt = "p"

ClientNext ==
    \/ part = "connection" /\ Next /\ UNCHANGED <<part, screen_vars, browse_vars, charset_vars>>
    \/ part = "screen" /\ ScreenNext /\ UNCHANGED <<part, vars, browse_vars, charset_vars>>
    \/ part = "browsing" /\ B!Next /\ UNCHANGED <<part, vars, screen_vars, charset_vars>>
    \/ part = "charsets" /\ C!Next /\ UNCHANGED <<part, vars, screen_vars, browse_vars>>

ClientSpec == ClientInit /\ [][ClientNext]_<<part, vars, screen_vars, browse_vars, charset_vars>> /\ Fairness

-----------------------------------------------------------------------------
(* Properties, besides those of PeerProtocol and Screen *)

(* What is browsed is the list of the user who is named, at a directory of *)
(* it (command.c:1029-1259, filelist-in.c:405-477).                        *)
BrowsingSound == B!BrowsingSound

(* What is read is what was meant: a pattern matches what it means         *)
(* (fnmatch_loop.c, fs.c:1077); what a path matches, and what it is        *)
(* completed to, is found by its name (fs.c:233-265, fs.c:1208-1372); what *)
(* others search for is answered, and the file of an answer is found when  *)
(* it, or a part of it, is asked for (search.c, hub.c, user.c); options    *)
(* are those that are given (common/optparser.c, lib/getopt.c); and what   *)
(* crosses a pipe arrives                                                  *)
(* (common/byteq.c, common/msgq.c, lookup.c:52-153, local_flist.c).        *)
ReadAsMeant ==
    part = "paths" =>
      /\ L!FnmatchIsMeant /\ L!ComponentIsMeant /\ P!ResultsAreFound
      /\ S!SearchesAreAnswered /\ S!AnswersAreRead
      /\ S!SearchersAreAnswered /\ S!PartsAreOpened
      /\ O!OptionsAreRead /\ G!MessagesSound

(* "TTH search support for remote client requests" (README.md:104).        *)
HashIsFound == part = "paths" => S!HashIsFound

(* What is typed, or completed, is what is executed (common/quoting.c,     *)
(* command.c:335-624, screen.c:411-570, fs.c:1179-1515), set (variables.c) and said to the *)
(* users of the hub (hub.c, connection.c), in the character sets that are  *)
(* set (charsets.c).                                                       *)
TypedIsMeant ==
    /\ part = "lines" =>
         /\ L!LineRoundTrip /\ L!CompletionFits /\ L!PathsAreCompleted /\ L!ProgramsAreCompleted
         /\ L!NamesAreCompleted
         /\ V!ShownCanBeSet /\ V!ErrorsChangeNothing /\ V!CompletedChanges
         /\ H!StreamIsWhole /\ H!SaidIsShown /\ H!SettingsAreRead /\ H!KeyIsOfLock
    /\ C!CharsetsSound

(* A list is the same after it was written, sent and read (fs.c:591-628,   *)
(* xml_flist.c:139-442, filelist-in.c:81-272).                             *)
ListsAgree == part = "lists" => F!ListsAgree
=============================================================================
