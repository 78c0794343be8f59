----------------------------- MODULE FileLists ------------------------------
(***************************************************************************)
(* How a list of shared files is written for other clients, as text or as  *)
(* XML, and read again (fs.c, xml_flist.c, filelist-in.c), and how it gets *)
(* from the process that made it to the main process as data.  A list maps *)
(* the path of every node to what is known of it; the root has the empty   *)
(* path and a name is a sequence of characters.                            *)
(***************************************************************************)
EXTENDS Integers, Sequences, SequencesExt, FiniteSetsExt, TLC

CONSTANTS
    Letter,       \* characters of names
    Digit,        \* those that are digits, as a function to their numbers
    NameMax,      \* bound: characters of a name
    TextMax,      \* bound: characters of a text that anybody wrote
    None

Tab == "TAB"
CR == "CR"
LF == "LF"
Bar == "|"
Character == Letter \cup DOMAIN Digit \cup {Tab, CR, LF, Bar}

Dir == [type |-> "dir", size |-> 0, tth |-> FALSE]
File(size, tth) == [type |-> "file", size |-> size, tth |-> tth]
Root == <<>> :> Dir

IsDir(list, path) == path \in DOMAIN list /\ list[path].type = "dir"
Below(list, path) == {p \in DOMAIN list : IsPrefix(path, p)}

(* hmap_iterator over the children of a directory, in some order.          *)
Children(list, path) == SetToSeq({p \in DOMAIN list : p # <<>> /\ Front(p) = path})
ForChildren(list, path, Op(_)) ==
    FlattenSeq([i \in 1..Len(Children(list, path)) |-> Op(Children(list, path)[i])])

(* new_file_node: a node of that name that is there already is forgotten,  *)
(* with all that is in it.                                                 *)
NewFileNode(list, path, node) ==
    [p \in (DOMAIN list \ Below(list, path)) \cup {path} |-> IF p = path THEN node ELSE list[p]]

-----------------------------------------------------------------------------
(* Text *)

SizeText(size) == <<CHOOSE d \in DOMAIN Digit : Digit[d] = size>>

(* parse_uint64; no digits are 0.  That it has 64 bits is left out.        *)
IsNumber(text) == ToSet(text) \subseteq DOMAIN Digit
Number(text) == FoldLeft(LAMBDA n, d : 10 * n + Digit[d], 0, text)

(* filelist_to_string.                                                     *)
RECURSIVE FilelistToString(_, _)
FilelistToString(list, path) ==
    LET line == [i \in 1..Len(path) - 1 |-> Tab]
                    \o (IF path = <<>> THEN <<>> ELSE Last(path))
    IN  IF ~IsDir(list, path)
        THEN line \o <<Bar>> \o SizeText(list[path].size) \o <<CR, LF>>
        ELSE (IF path = <<>> THEN <<>> ELSE line \o <<CR, LF>>)
                 \o ForChildren(list, path, LAMBDA p : FilelistToString(list, p))

(* The first position from i on of one of those characters, or of the end. *)
Find(text, i, chars) == Min({j \in i..Len(text) : text[j] \in chars} \cup {Len(text) + 1})
FindOther(text, i, char) ==
    Min({j \in i..Len(text) : text[j] # char} \cup {Max({i, Len(text) + 1})})

\* Variant of ParseLines: a directory stays open.
RECURSIVE ParseLinesFlat(_, _, _, _)
ParseLinesFlat(text, c, list, dirs) ==
    LET start == FindOther(text, c, LF)
        first == FindOther(text, start, Tab)
        end == Find(text, first, {CR, Bar})
        path == Append(Last(dirs), SubSeq(text, first, end - 1))
        next == Find(text, end, {CR})
        size == SubSeq(text, end + 1, next - 1)
    IN  IF next > Len(text) THEN list
        ELSE IF first = end /\ text[end] = CR THEN ParseLinesFlat(text, end + 2, list, dirs)
        ELSE IF text[end] = CR
        THEN ParseLinesFlat(text, end + 2, NewFileNode(list, path, Dir), Append(dirs, path))
        ELSE IF IsNumber(size)
        THEN ParseLinesFlat(text, next + 2, NewFileNode(list, path, File(Number(size), FALSE)), dirs)
        ELSE ParseLinesFlat(text, next + 2, list, dirs)

(* parse_decoded_dclst, from the position c on: dirs are the directories   *)
(* that are open.  An empty line and one with a bad size are skipped.      *)
RECURSIVE ParseLines(_, _, _, _)
ParseLines(text, c, list, dirs) ==
    LET start == FindOther(text, c, LF)
        first == FindOther(text, start, Tab)
        depth == 1 + first - start
        open == IF depth < Len(dirs) THEN SubSeq(dirs, 1, depth) ELSE dirs
        end == Find(text, first, {CR, Bar})
        path == Append(Last(open), SubSeq(text, first, end - 1))
        next == Find(text, end, {CR})
        size == SubSeq(text, end + 1, next - 1)
    IN  IF next > Len(text) THEN list
        ELSE IF first = end /\ text[end] = CR THEN ParseLines(text, end + 2, list, dirs)
        ELSE IF text[end] = CR
        THEN ParseLines(text, end + 2, NewFileNode(list, path, Dir), Append(open, path))
        ELSE IF IsNumber(size)
        THEN ParseLines(text, next + 2, NewFileNode(list, path, File(Number(size), FALSE)), open)
        ELSE ParseLines(text, next + 2, list, open)

ParseDecodedDclst(text) == ParseLines(text, 1, Root, <<<<>>>>)

-----------------------------------------------------------------------------
(* XML *)

Start(element, name, size, tth) ==
    [start |-> TRUE, element |-> element, name |-> name, size |-> size, tth |-> tth]
End == [start |-> FALSE]

(* write_node; quotes and the character set are left out.                  *)
RECURSIVE WriteNode(_, _)
WriteNode(list, path) ==
    LET node == list[path]
        start == IF node.type = "dir" THEN Start("Directory", Last(path), None, FALSE)
                 ELSE Start("File", Last(path), SizeText(node.size), node.tth)
    IN  <<start>> \o ForChildren(list, path, LAMBDA p : WriteNode(list, p)) \o <<End>>

WriteXmlFilelistDocument(list) ==
    <<Start("FileListing", None, None, FALSE)>>
        \o ForChildren(list, <<>>, LAMBDA p : WriteNode(list, p)) \o <<End>>

(* start_element_callback, for elements with a name: what is not known is  *)
(* skipped, with all that is in it.  A bad size is 0.                      *)
StartElementCallback(p, e) ==
    LET path == Append(p.current, e.name)
        size == IF e.size # None /\ IsNumber(e.size) THEN Number(e.size) ELSE 0
    IN  CASE p.unknown_level = 0 /\ e.element = "FileListing" ->
                 [p EXCEPT !.list = Root, !.current = <<>>]
          [] p.unknown_level = 0 /\ e.element = "Directory" ->
                 [p EXCEPT !.list = NewFileNode(@, path, Dir), !.current = path]
          [] p.unknown_level = 0 /\ e.element = "File" ->
                 [p EXCEPT !.list = NewFileNode(@, path, File(size, e.tth)), !.current = path]
          [] OTHER -> [p EXCEPT !.unknown_level = @ + 1]

(* end_element_callback; the parent of the root is NULL.                   *)
EndElementCallback(p) ==
    IF p.unknown_level > 0 THEN [p EXCEPT !.unknown_level = @ - 1]
    ELSE [p EXCEPT !.current = IF @ = <<>> THEN None ELSE Front(@)]

(* filelist_xml_open.                                                      *)
FilelistXmlOpen(document) ==
    LET Callback(p, e) == IF e.start THEN StartElementCallback(p, e) ELSE EndElementCallback(p)
    IN  FoldLeft(Callback, [list |-> None, current |-> None, unknown_level |-> 0], document).list

-----------------------------------------------------------------------------
(* Data *)

(* copy_filelist_to_data: a node, the number of its children, and they;    *)
(* the size of a directory is not sent.                                    *)
RECURSIVE FilelistToData(_, _)
FilelistToData(list, path) ==
    <<[name |-> IF path = <<>> THEN <<>> ELSE Last(path), node |-> list[path],
       children |-> Len(Children(list, path))]>>
        \o ForChildren(list, path, LAMBDA p : FilelistToData(list, p))

(* data_to_filelist, of a node that comes to that path: the list, and how  *)
(* much of the data it was.  Sizes are summed up.                          *)
RECURSIVE DataToFilelist(_, _)
DataToFilelist(data, path) ==
    LET AddChild(r, i) ==
            LET rest == SubSeq(data, r.used + 1, Len(data))
                p == Append(path, Head(rest).name)
                child == DataToFilelist(rest, p)
            IN  [list |-> [child.list @@ r.list EXCEPT ![path].size = @ + child.list[p].size],
                 used |-> r.used + child.used]
    IN  FoldLeft(AddChild, [list |-> path :> Head(data).node, used |-> 1],
                 [i \in 1..Head(data).children |-> i])

(* What the main process has of a list that another process read.          *)
Received(list) == DataToFilelist(FilelistToData(list, <<>>), <<>>).list

-----------------------------------------------------------------------------
(* Properties *)

(* The lists with two names, of those that can be written as text, and a   *)
(* depth of two.                                                           *)
Name ==
    {n \in SeqOf(Letter \cup {Tab, LF}, NameMax) : n # <<>> /\ n[1] \in Letter}
Leaf == {None, Dir} \cup {File(size, tth) : size \in Range(Digit), tth \in BOOLEAN}
Lists ==
    UNION {LET Inner == {<<n, m>> : n, m \in names}
               Paths == {<<n>> : n \in names} \cup Inner
               Shapes == {f \in [Paths -> Leaf] :
                             \A q \in Inner : f[q] # None => f[Front(q)] = Dir}
           IN  {Root @@ [p \in {q \in Paths : f[q] # None} |-> f[p]] : f \in Shapes} :
           names \in kSubset(2, Name)}

WithSizes(list) ==
    [p \in DOMAIN list |->
        [list[p] EXCEPT !.size = MapThenSumSet(LAMBDA q : list[q].size, Below(list, p))]]
WithoutTth(list) == [p \in DOMAIN list |-> [list[p] EXCEPT !.tth = FALSE]]

(* An element that the client does not know, with one in it that it does.  *)
Unknown ==
    <<Start("Thumbnail", None, None, FALSE), Start("File", <<"a">>, None, FALSE), End, End>>

(* Other clients and the main process have the list that was written, with *)
(* its hashes when it was XML, whatever other elements are in it; and a    *)
(* text that anybody wrote gives a tree (fs.c:591-628, xml_flist.c:139-442,*)
(* filelist-in.c:81-272).                                                  *)
ListsAgree ==
    /\ \A list \in Lists :
           /\ Received(ParseDecodedDclst(FilelistToString(list, <<>>))) =
                  WithSizes(WithoutTth(list))
           /\ \A document \in {WriteXmlFilelistDocument(list)} :
                  /\ Received(FilelistXmlOpen(document)) = WithSizes(list)
                  /\ \A i \in 1..Len(document) - 1 :
                         FilelistXmlOpen(SubSeq(document, 1, i) \o Unknown
                             \o SubSeq(document, i + 1, Len(document))) =
                         FilelistXmlOpen(document)
    /\ \A list \in {ParseDecodedDclst(text) : text \in SeqOf(Character, TextMax)} :
           /\ \A p \in DOMAIN list : p # <<>> => IsDir(list, Front(p))
           /\ Received(list) = WithSizes(list)
=============================================================================
