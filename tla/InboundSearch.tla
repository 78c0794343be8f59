---------------------------- MODULE InboundSearch ----------------------------
(***************************************************************************)
(* The searches of others (search.c, hub.c, fs.c, user.c): a search as the *)
(* client sends it, who is answered, what is found in the shared files, the *)
(* answer as text, what the other client takes from it, and the file that  *)
(* it then asks for, by its name or its hash.  Texts are as in TextSearch; *)
(* "^E" is the character 5, and a number is a digit.                       *)
(***************************************************************************)
EXTENDS TextSearch

CONSTANTS
    Extensions,   \* of each type, or None for any
    Lists,        \* directories and files that are shared, in the order of the hash maps
    ListNames,    \* texts of the paths of the file lists
    Query,        \* what users search for
    MaxResults,   \* of MAX_RESULTS_ACTIVE and MAX_RESULTS_PASSIVE
    Client,       \* with their nicks, addresses and ports, active or passive
    HashLength,   \* of TIGER_HASH_LENGTH
    OffsetMax,    \* of an int64_t
    None

Value == [d \in {"0", "1", "2", "3", "4", "5", "6", "7", "8", "9"} |->
              CHOOSE n \in 0..9 : ToString(n) = d]

AnyType == 1
FolderType == 8
ChecksumType == 9

Before(text, i) == SubSeq(text, 1, i - 1)
Behind(text, i) == SubSeq(text, i + 1, Len(text))
Places(text, c) == {i \in 1..Len(text) : text[i] = c}

StrSep(text, c) ==
    IF text = None THEN [token |-> None, rest |-> None]
    ELSE IF Places(text, c) = {} THEN [token |-> text, rest |-> None]
    ELSE [token |-> Before(text, Min(Places(text, c))), rest |-> Behind(text, Min(Places(text, c)))]

-----------------------------------------------------------------------------
(* A search *)

(* cmd_search and cmd_searchtth, with add_search_request_type: what is     *)
(* sent, and the selection that is kept.                                   *)
SearchArgs(args) == [i \in 1..Len(args) |-> IF args[i] \in {" ", "|"} THEN Dollar ELSE args[i]]
SearchTth(args) == IF args[1] = "TTH:" THEN args ELSE <<"TTH:">> \o args
Sent(args, type) == <<"F", "?", "F", "?", "0", "?", ToString(type), "?">> \o SearchArgs(args)
Selection(args, type) ==
    [size_min |-> 0, datatype |-> type, patterns |-> ParseSearchStrings(SearchArgs(args))]

Upper(c) == IF \E u \in Letter : u # c /\ Lower[u] = c THEN CHOOSE u \in Letter : u # c /\ Lower[u] = c ELSE c

(* parse_hash.                                                             *)
ParseHash(str) ==
    IF Len(str) > 1 /\ Lower[str[1]] = "tth:" THEN <<[i \in 1..Len(str) - 1 |-> Upper(str[i + 1])]>>
    ELSE <<>>

(* parse_search_selection, for the texts that Sent makes: the characters   *)
(* that say what the size means are both letters, which is always a        *)
(* minimum, and the type is counted from zero.                             *)
TypeOf(digit) == Value[digit] - 1

ParseSearchSelection(str) ==
    LET sizestr == StrSep(Behind(str, 4), "?")
        datatype == StrSep(sizestr.rest, "?")
        type == TypeOf(datatype.token[1])
        patterns == IF type = ChecksumType THEN ParseHash(datatype.rest)
                    ELSE ParseSearchStrings(datatype.rest)
    IN  IF datatype.rest = <<>> \/ patterns = <<>> THEN None
        ELSE [size_min |-> Value[sizestr.token[1]], datatype |-> type, patterns |-> patterns]

-----------------------------------------------------------------------------
(* What is found *)

(* match_file_extension: the last of the extensions as it is, the others   *)
(* as the beginning of one.                                                *)
MatchFileExtension(filename, type) ==
    LET dots == Places(filename, ".")
        ext == InLower(Behind(filename, Max(dots)))
    IN  \/ Extensions[type] = None
        \/ /\ dots # {}
           /\ \/ ext = Last(Extensions[type])
              \/ \E k \in 1..Len(Extensions[type]) - 1 : IsPrefix(Extensions[type][k], ext)

Children(list, path) ==
    SelectSeq(list.order, LAMBDA p : Len(p) = Len(path) + 1 /\ IsPrefix(path, p))

MatchFile(list, path, data) ==
    LET node == list.files[path]
    IN  IF data.datatype = ChecksumType THEN node.tth # None /\ node.tth = data.patterns[1]
        ELSE /\ data.datatype # FolderType
             /\ Value[node.size] >= data.size_min
             /\ MatchSearchPatterns(Last(path), data.patterns)
             /\ MatchFileExtension(Last(path), data.datatype)

MatchDirectory(path, data) ==
    /\ data.datatype \in {AnyType, FolderType}
    /\ path # <<>> /\ MatchSearchPatterns(Last(path), data.patterns)

(* filelist_search: the paths, in the order they are found in.             *)
RECURSIVE FilelistSearch(_, _, _, _)
FilelistSearch(list, path, data, maxresults) ==
    IF path \in DOMAIN list.files THEN IF MatchFile(list, path, data) THEN <<path>> ELSE <<>>
    ELSE FoldLeft(LAMBDA found, child :
                      IF Len(found) >= maxresults \/ (data.datatype = ChecksumType /\ found # <<>>)
                      THEN found
                      ELSE found \o FilelistSearch(list, child, data, maxresults - Len(found)),
                  IF MatchDirectory(path, data) THEN <<path>> ELSE <<>>,
                  Children(list, path))

-----------------------------------------------------------------------------
(* Who is answered *)

DefaultPort == "4"   \* DC_CLIENT_UDP_PORT

(* add_search_request_type: the whole of the message.                      *)
SearchMessage(me, args, type) ==
    (IF me.active THEN <<me.host, ":", me.port>> ELSE <<"Hub:">> \o me.nick)
        \o <<" ">> \o Sent(args, type)

(* parse_ip_and_port.                                                      *)
ParseIpAndPort(source) ==
    LET colon == Max(Places(source, ":"))
    IN  IF Places(source, ":") = {} THEN [host |-> source[1], port |-> DefaultPort]
        ELSE [host |-> Before(source, colon)[1], port |-> Behind(source, colon)[1]]

(* perform_inbound_search: passive users are sent half as many.            *)
PerformInboundSearch(list, data, to) ==
    LET maxresults == Max(MaxResults) \div (IF "nick" \in DOMAIN to THEN 2 ELSE 1)
        found == FilelistSearch(list, <<>>, data, maxresults)
    IN  [k \in 1..Len(found) |-> [to |-> to, path |-> found[k]]]

(* hub_handle_command, for $Search: neither ourselves nor one whom the hub *)
(* did not announce.                                                       *)
HandleSearch(list, buf, me, users) ==
    LET source == StrSep(buf, " ")
        data == ParseSearchSelection(source.rest)
        nick == Tail(source.token)
        addr == ParseIpAndPort(source.token)
    IN  IF data = None THEN <<>>
        ELSE IF source.token[1] = "Hub:"
        THEN IF nick \notin users \/ nick = me.nick THEN <<>>
             ELSE PerformInboundSearch(list, data, [nick |-> nick])
        ELSE IF addr.host = me.host /\ addr.port = me.port THEN <<>>
        ELSE PerformInboundSearch(list, data, addr)

-----------------------------------------------------------------------------
(* The answer *)

(* filelist_get_path, translate_local_to_remote, translate_remote_to_local.*)
GetPath(path) ==
    IF path = <<>> THEN <<"/">> ELSE FlattenSeq([k \in 1..Len(path) |-> <<"/">> \o path[k]])
TranslateLocalToRemote(name) ==
    [i \in 1..Len(name) - 1 |-> IF name[i + 1] = "/" THEN "\\" ELSE name[i + 1]]
TranslateRemoteToLocal(name) ==
    <<"/">> \o [i \in 1..Len(name) |-> IF name[i] = "\\" THEN "/" ELSE name[i]]

\* What is known of the one who answers; used may be more than slots.
Answerer == [nick |-> <<"n">>, hub |-> <<"h", " ", "/", "(", "h", ")">>, slots |-> 1]
FreeSlots(used) == IF used > Answerer.slots THEN 0 ELSE Answerer.slots - used

(* append_result; a passive user is named, which the hub takes off again.  *)
AppendResult(list, path, used, hub_addr) ==
    LET file == path \in DOMAIN list.files
    IN  <<"$SR", " ">> \o Answerer.nick \o <<" ">> \o TranslateLocalToRemote(GetPath(path))
        \o (IF file THEN <<"^E", list.files[path].size>> ELSE <<>>)
        \o <<" ", ToString(FreeSlots(used)), "/", ToString(Answerer.slots), "^E">>
        \o (IF file /\ list.files[path].tth # None THEN <<"TTH:">> \o list.files[path].tth
            ELSE Answerer.hub)
        \o <<" ", "(">> \o hub_addr \o <<")">>

(* parse_search_response.                                                  *)
ParseSearchResponse(buf) ==
    LET nick == StrSep(Behind(buf, 2), " ")
        slash == Min(Places(nick.rest, "/"))
        blank == Max(Places(Before(nick.rest, slash), " "))
        filename == StrSep(Before(nick.rest, blank), "^E")
        free == SubSeq(nick.rest, blank + 1, slash - 1)
        total == StrSep(Behind(nick.rest, slash), "^E")
        paren == Max(Places(total.rest, "("))
    IN  [nick |-> nick.token, filename |-> filename.token,
         filetype |-> IF filename.rest = None THEN "DIR" ELSE "REG",
         filesize |-> IF filename.rest = None THEN "0" ELSE filename.rest[1],
         slots_free |-> free, slots_total |-> total.token,
         hub_name |-> Before(total.rest, paren),
         hub_addr |-> StrSep(Behind(total.rest, paren), ")").token]

(* match_tth: the name of the hub stands for the hash.                     *)
Trim(text) ==
    LET start == Min({i \in 1..Len(text) : text[i] # " "})
    IN  StrSep(SubSeq(text, start, Len(text)), " ").token
MatchTth(data, hub_name) ==
    /\ Len(data.patterns) = 1 /\ Len(data.patterns[1]) > 1
    /\ Trim(data.patterns[1]) = Trim([i \in 1..Len(hub_name) |-> Lower[hub_name[i]]])

(* match_selection_against_response.                                       *)
MatchSelection(data, sr) ==
    IF sr.filetype = "DIR"
    THEN data.datatype \in {AnyType, FolderType} /\ MatchSearchPatterns(sr.filename, data.patterns)
    ELSE /\ data.datatype # FolderType
         /\ Value[sr.filesize] >= data.size_min
         /\ IF data.datatype = ChecksumType THEN MatchTth(data, sr.hub_name)
            ELSE /\ MatchSearchPatterns(sr.filename, data.patterns)
                 /\ MatchFileExtension(sr.filename, data.datatype)

-----------------------------------------------------------------------------
(* The file that is asked for *)

(* path_to_node.                                                           *)
RECURSIVE PathToNode(_)
PathToNode(text) ==
    LET start == StrSep(text, "/")
    IN  IF start.rest = None THEN <<start.token>> ELSE <<start.token>> \o PathToNode(start.rest)

(* cmd_getresult: the path of the file in the queue.                       *)
GetResult(sr) ==
    LET path == TranslateRemoteToLocal(sr.filename)
        start == Min({i \in 1..Len(path) : path[i] # "/"})
    IN  GetPath(PathToNode(SubSeq(path, start, Len(path))))

(* get_child_node and filelist_lookup.                                     *)
GetChildNode(list, node, name) ==
    IF name = <<".">> THEN node
    ELSE IF name = <<".", ".">> THEN IF node = <<>> THEN node ELSE Front(node)
    ELSE IF Append(node, name) \in ToSet(list.order) THEN Append(node, name) ELSE None

RECURSIVE FilelistLookup(_, _, _)
FilelistLookup(list, node, filename) ==
    LET starts == {i \in 1..Len(filename) : filename[i] # "/"}
        name == StrSep(SubSeq(filename, Min(starts), Len(filename)), "/")
        child == GetChildNode(list, node, name.token)
    IN  IF filename = <<>> \/ filename[1] # "/" THEN None
        ELSE IF starts = {} THEN node
        ELSE IF node \in DOMAIN list.files \/ child = None THEN None
        ELSE IF name.rest = None THEN child
        ELSE FilelistLookup(list, child, <<"/">> \o name.rest)

(* resolve_upload_file: one of our lists, or a shared file.                *)
ResolveUploadFile(list, name) ==
    LET start == Max({i \in 1..Len(name) : \A j \in 1..i : name[j] = "/"})
        path == SubSeq(name, start, Len(name))
    IN  IF path \in ListNames THEN [list |-> path]
        ELSE IF FilelistLookup(list, <<>>, path) = None THEN None
        ELSE [node |-> FilelistLookup(list, <<>>, path)]

(* filelist_lookup_tth: the first in the order of the hash maps.           *)
RECURSIVE FilelistLookupTth(_, _, _)
FilelistLookupTth(list, node, tth) ==
    IF node \in DOMAIN list.files
    THEN IF list.files[node].tth # None /\ InLower(list.files[node].tth) = InLower(tth)
         THEN node ELSE None
    ELSE FoldLeft(LAMBDA res, child :
                      IF res # None THEN res ELSE FilelistLookupTth(list, child, tth),
                  None, Children(list, node))

(* user_handle_command, for $ADCGET with a name: a blank behind a          *)
(* backslash does not end it.                                              *)
ReadAdcget(buf) ==
    LET type == StrSep(buf, " ")
        ends == {i \in 2..Len(type.rest) : type.rest[i] = " " /\ type.rest[i - 1] # "\\"}
        startpos == StrSep(Behind(type.rest, Min(ends)), " ")
        numbytes == StrSep(startpos.rest, " ").token
    IN  IF type.token = <<>> \/ type.rest = None \/ type.rest[1] = " " \/ ends = {}
           \/ startpos.rest = None
        THEN None
        ELSE [type |-> type.token, name |-> Before(type.rest, Min(ends)),
              offset |-> Value[startpos.token[1]],
              bytes |-> IF numbytes[1] = "-" THEN -Value[numbytes[2]] ELSE Value[numbytes[1]]]

RECURSIVE Unescaped(_)
Unescaped(text) ==
    IF text \in {<<>>, <<"\\">>} THEN <<>>
    ELSE IF text[1] = "\\" THEN <<text[2]>> \o Unescaped(Behind(text, 2))
    ELSE <<text[1]>> \o Unescaped(Tail(text))

(* open_upload_file_adcget: what is opened.  An unknown type is reported,  *)
(* and then taken for a file.                                              *)
OpenUploadFileAdcget(list, type, name) ==
    IF type = <<"tthl">> THEN None
    ELSE IF Len(name) = 1 + HashLength /\ name[1] = "TTH/"
    THEN LET node == FilelistLookupTth(list, <<>>, Tail(name))
         IN  IF node = None THEN None ELSE [node |-> node]
    ELSE ResolveUploadFile(list, TranslateRemoteToLocal(Unescaped(name)))

(* open_upload_file_block and open_upload_file_adcget: where the part that *)
(* is asked for ends, by numbers of 64 bits.                               *)
FinalPos(offset, numbytes, size) ==
    LET end == (offset + numbytes) % (2 * OffsetMax + 2)
    IN  IF numbytes = -1 \/ end >= size THEN size ELSE end

-----------------------------------------------------------------------------
(* Properties *)

Matching(list, data) ==
    {p \in DOMAIN list.files : MatchFile(list, p, data)}
        \cup {p \in ToSet(list.order) \ DOMAIN list.files : MatchDirectory(p, data)}

\* What a user who searches asks for: the type as microdc.h:135 counts it.
Wanted(args, type) ==
    [size_min |-> 0, datatype |-> type,
     patterns |-> IF type = ChecksumType THEN ParseHash(SearchArgs(SearchTth(args)))
                  ELSE ParseSearchStrings(SearchArgs(args))]
WantedFiles(list, args) == Matching(list, Wanted(args, AnyType)) \cap DOMAIN list.files

(* Of what is asked for, of whatever type, at most as many answers as      *)
(* allowed are found, no node twice, and none that matches is left out if  *)
(* there is room; of a hash, one file (search.c:354-408).  The words of a  *)
(* search for words arrive.  A search for anything, the only type that     *)
(* search sends (command.c:1777), finds the files that have its words, and *)
(* nothing that has not.  That types arrive one too small is HashIsFound   *)
(* below: for it a search for anything may leave the directories out, and  *)
(* of what is found for the other types nothing is said.                   *)
SearchesAreAnswered ==
    \A list \in Lists, query \in Query, maxresults \in MaxResults :
        LET Found(data) == FilelistSearch(list, <<>>, data, maxresults)
            OfType(type) == ParseSearchSelection(Sent(query, type))
        IN  /\ \A type \in 1..9 :
                   LET data == Wanted(query, type)
                       found == Found(data)
                       room == IF type = ChecksumType THEN 1 ELSE maxresults
                   IN  data.patterns # <<>> =>
                         /\ Len(found) <= room
                         /\ Cardinality(ToSet(found)) = Len(found)
                         /\ ToSet(found) \subseteq Matching(list, data)
                         /\ Len(found) < room => ToSet(found) = Matching(list, data)
            /\ \A type \in 1..8 :
                   LET data == OfType(type)
                       asked == Wanted(query, type)
                   IN  /\ (data = None) = (asked.patterns = <<>>)
                       /\ data # None => /\ data.patterns = asked.patterns
                                         /\ data.size_min = asked.size_min
            /\ OfType(AnyType) # None =>
                   /\ ToSet(Found(OfType(AnyType))) \subseteq Matching(list, Wanted(query, AnyType))
                   /\ Len(Found(OfType(AnyType))) < maxresults =>
                          WantedFiles(list, query) \subseteq ToSet(Found(OfType(AnyType)))

(* Everyone who searches for anything is answered, with the files that     *)
(* have the words, and no one else is; own searches, which the hub sends   *)
(* back, are not (hub.c:886-983, search.c:411-433).                        *)
SearchersAreAnswered ==
    \A list \in Lists, query \in Query, me, other \in Client :
        LET asked == Wanted(query, AnyType).patterns # <<>>
            addr == [host |-> other.host, port |-> other.port]
            buf == SearchMessage(other, query, AnyType)
            short == <<other.host, " ">> \o Sent(query, AnyType)
            answers == HandleSearch(list, buf, me, {client.nick : client \in Client})
            found == {answers[k].path : k \in 1..Len(answers)}
            room == Max(MaxResults) \div (IF other.active THEN 1 ELSE 2)
        IN  /\ me = other \/ ~asked => answers = <<>>
            /\ me # other /\ asked =>
                   /\ \A k \in 1..Len(answers) :
                          answers[k].to = IF other.active THEN addr ELSE [nick |-> other.nick]
                   /\ found \subseteq Matching(list, Wanted(query, AnyType))
                   /\ Cardinality(found) = Len(answers) /\ Len(answers) <= room
                   /\ Len(answers) < room => WantedFiles(list, query) \subseteq found
            /\ other.active /\ other.port = DefaultPort =>
                   HandleSearch(list, short, me, {}) = answers

(* An answer is read as the node that was found, whatever is in its name   *)
(* and that of the hub; a search for words takes it; and what is then      *)
(* asked for is that file (search.c:296-600, command.c:2101-2180,          *)
(* fs.c:815-964).                                                          *)
AnswersAreRead ==
    \A list \in Lists, used \in 0..2 : \A path \in ToSet(list.order) :
        LET sr == ParseSearchResponse(AppendResult(list, path, used, <<"1.1.1.1", ":", "4">>))
            file == path \in DOMAIN list.files
        IN  /\ sr.nick = Answerer.nick /\ sr.hub_addr = <<"1.1.1.1", ":", "4">>
            /\ sr.filename = TranslateLocalToRemote(GetPath(path))
            /\ sr.filetype = (IF file THEN "REG" ELSE "DIR")
            /\ file => sr.filesize = list.files[path].size
            /\ sr.slots_free = <<ToString(FreeSlots(used))>> /\ sr.slots_total = <<"1">>
            /\ \A query \in Query :
                   Wanted(query, AnyType).patterns # <<>> /\ path \in Matching(list, Wanted(query, AnyType))
                       => MatchSelection(Selection(query, AnyType), sr)
            /\ file /\ list.files[path].tth # None =>
                   MatchSelection(Selection(SearchTth(list.files[path].tth), ChecksumType), sr)
            /\ file => LET asked == TranslateRemoteToLocal(TranslateLocalToRemote(GetResult(sr)))
                       IN  ResolveUploadFile(list, asked)
                               = IF asked \in ListNames THEN [list |-> asked] ELSE [node |-> path]

(* A part of a file is opened if its name was escaped, with the separators *)
(* of either system, or if it has the hash that was named; and the part is *)
(* the one that was asked for, as far as the file has it                   *)
(* (user.c:703-796, user.c:1128-1187, fs.c:208-235).                       *)
PartsAreOpened ==
    \A list \in Lists : \A path \in DOMAIN list.files :
        LET slashes == Tail(GetPath(path))
            Escaped(name) ==
                FlattenSeq([i \in 1..Len(name) |->
                               IF name[i] \in {" ", "\\"} THEN <<"\\", name[i]>> ELSE <<name[i]>>])
            Asked(name, bytes) == ReadAdcget(<<"file", " ">> \o name \o <<" ", "2", " ">> \o bytes)
            Opened(request) == OpenUploadFileAdcget(list, request.type, request.name)
            tth == list.files[path].tth
            given == IF GetPath(path) \in ListNames THEN [list |-> GetPath(path)] ELSE [node |-> path]
        IN  /\ \A name \in {slashes, <<"/">> \o slashes, TranslateLocalToRemote(GetPath(path))} :
                   LET request == Asked(Escaped(name), <<"-", "1">>)
                   IN  /\ request # None /\ request.offset = 2 /\ request.bytes = -1
                       /\ Opened(request) = given
            /\ tth # None =>
                   LET request == Asked(<<"TTH/">> \o InLower(tth), <<"3">>)
                       opened == Opened(request)
                   IN  /\ request # None /\ request.bytes = 3
                       /\ opened # None /\ list.files[opened.node].tth = tth
            /\ \A size \in 0..OffsetMax : \A offset \in 0..size, bytes \in -1..OffsetMax :
                   FinalPos(offset, bytes, size)
                       = IF bytes = -1 THEN size ELSE Min({size, offset + bytes})

(* "TTH search support for remote client requests" (README.md:104): a file *)
(* is found by its hash (search.c:253).                                    *)
HashIsFound ==
    \A list \in Lists : \A path \in DOMAIN list.files :
        LET tth == list.files[path].tth
            data == ParseSearchSelection(Sent(SearchTth(tth), ChecksumType))
        IN  tth # None => /\ data # None
                          /\ FilelistSearch(list, <<>>, data, Max(MaxResults)) # <<>>
=============================================================================
