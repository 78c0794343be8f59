------------------------------ MODULE Browsing ------------------------------
(***************************************************************************)
(* Browsing the file list of a user, or one's own (command.c), and how the *)
(* paths that the user types lead to the nodes of a list (fs.c).  Lists    *)
(* come from the parse process (filelist-in.c) in the order in which they  *)
(* were asked for; our own is replaced whenever the share is looked at.    *)
(* The path of a node is the node; a list is the set of its directories    *)
(* and the set of its files.                                               *)
(***************************************************************************)
EXTENDS Integers, Sequences, SequencesExt

CONSTANTS
    User,          \* other users; whether they are on the hub is left open
    Me,
    Kind,          \* formats of lists, "DcLst" and "xml" among them
    Tree,          \* file lists
    Hidden,        \* names that begin with "."
    Begins,        \* pairs of a text and a name that begins with it
    Component,     \* parts of the paths that the user types
    PathMax,       \* bound: components of such a path
    MaxLists,      \* bound: versions of our own list
    MaxPending,    \* bound: requests to the parse process
    None, Crash

VARIABLES
    our_filelist,
    browse_list, browse_user, browse_path, browse_path_previous, browsing_myself,
    prompt,
    queued,          \* the users whose list is in the download queue
    files,           \* the lists in listing_dir
    pending_parses,  \* with the data that the parse process has sent
    crashed

browse == <<browse_list, browse_user, browse_path, browse_path_previous, browsing_myself, prompt>>
vars == <<our_filelist, browse, queued, files, pending_parses, crashed>>

Wildcard == {"*", ".*"}
Special == {".", ".."}

-----------------------------------------------------------------------------
(* Nodes and paths *)

Dirs(t) == t.dirs
Nodes(t) == t.dirs \cup t.files
Children(t, node) == {n \in Nodes(t) : n # <<>> /\ Front(n) = node}
Parent(node) == IF node = <<>> THEN node ELSE Front(node)

(* get_child_node.  The children of a file are read from the memory that   *)
(* has its hash.                                                           *)
Child(t, node, name) ==
    CASE name = "." -> node
      [] name = ".." -> Parent(node)
      [] name \notin Special /\ node \in t.files -> Crash
      [] OTHER -> IF Append(node, name) \in Nodes(t) THEN Append(node, name) ELSE None

(* filelist_lookup.                                                        *)
Lookup(t, path) ==
    LET Step(node, name) ==
            IF node \in Dirs(t) THEN Child(t, node, name) ELSE None
    IN  FoldLeft(Step, <<>>, path)

(* filelist_iterator and filelist_get_next: what a wildcard is compared to.*)
Listed(t, node) ==
    {[name |-> ".", node |-> node], [name |-> "..", node |-> Parent(node)]}
        \cup {[name |-> Last(n), node |-> n] : n \in Children(t, node)}

\* fnmatch with FNM_PERIOD.
Matches(pattern, name) == (pattern = "*") # (name \in Hidden \cup Special)

Result(name, node) == {[name |-> name, node |-> node]}

(* concat_filenames; of two empty names it makes ".".                      *)
Concat(base, name) == IF name # "" THEN Append(base, name) ELSE base

(* remote_wildcard_expand: the results for a path below a node, each with  *)
(* its name below base.                                                    *)
RECURSIVE Expand(_, _, _, _)
Expand(t, node, path, base) ==
    LET name == Head(path)
        rest == Tail(path)
        child == Child(t, node, name)
    IN  IF name \in Wildcard
        THEN IF node \in t.files THEN Result(Append(base, name), Crash)
             ELSE UNION {IF rest = <<>> THEN Result(Append(base, l.name), l.node)
                         ELSE IF l.node \in Dirs(t)
                         THEN Expand(t, l.node, rest, Append(base, l.name))
                         ELSE {} : l \in {k \in Listed(t, node) : Matches(name, k.name)}}
        ELSE IF name = "" THEN Result(Concat(base, name), node)
        ELSE IF child = None THEN {}
        ELSE IF child = Crash \/ rest = <<>> THEN Result(Append(base, name), child)
        ELSE Expand(t, child, rest, Append(base, name))

(* remote_wildcard_complete: behind a wildcard the name is taken as it is, *)
(* and otherwise what begins with it.                                      *)
RECURSIVE Complete(_, _, _, _, _)
Complete(t, node, path, base, found) ==
    LET name == Head(path)
        rest == Tail(path)
        child == Child(t, node, name)
        listed == IF name \in Wildcard
                  THEN {l \in Listed(t, node) : Matches(name, l.name)}
                  ELSE {l \in Listed(t, node) :
                           /\ <<name, l.name>> \in Begins
                           /\ (name \in Hidden \cup Special) = (l.name \in Hidden \cup Special)}
        NameOf(n) == IF n = <<>> THEN "" ELSE Last(n)
    IN  IF node \in t.files /\ (name \in Wildcard \/ (rest = <<>> /\ ~found))
        THEN Result(Append(base, name), Crash)
        ELSE IF name \in Wildcard
        THEN UNION {IF rest = <<>> THEN Result(Concat(base, NameOf(l.node)), l.node)
                    ELSE IF l.node \in Dirs(t)
                    THEN Complete(t, l.node, rest, Append(base, l.name), TRUE)
                    ELSE {} : l \in listed}
        ELSE IF rest = <<>> /\ ~found
        THEN UNION {Result(Append(base, l.name), l.node) : l \in listed}
        ELSE IF name = "" THEN Result(base, node)
        ELSE IF child = None THEN {}
        ELSE IF child = Crash \/ rest = <<>> THEN Result(Append(base, name), child)
        ELSE Complete(t, child, rest, Append(base, name), found)

(* What the user types: from the root or from where he is, with a slash at *)
(* the end or not.                                                         *)
Argument ==
    {[root |-> root, path |-> path] :
        root \in BOOLEAN,
        path \in {p \in SeqOf(Component, PathMax) :
                     p # <<>> /\ \A i \in 1..Len(p) - 1 : p[i] # ""}}

From(cwd, arg) == IF arg.root THEN <<>> ELSE cwd
Matched(t, cwd, arg) == Expand(t, From(cwd, arg), arg.path, <<>>)
Completed(t, cwd, arg) == Complete(t, From(cwd, arg), arg.path, <<>>, FALSE)

\* Variant of ApplyCwd: a path from the root is taken below the directory, too.
ApplyCwdAlways(cwd, root, name) == cwd \o name

(* apply_cwd.                                                              *)
ApplyCwd(cwd, root, name) == IF root THEN name ELSE cwd \o name

(* append_download_file: the files that cmd_get puts into the queue for a  *)
(* result, and the directory below which they are put here.                *)
AppendDownloadFile(t, node, base) ==
    {[filename |-> f, base_path |-> base] : f \in {g \in t.files : IsPrefix(node, g)}}

CmdGet(t, cwd, arg) ==
    UNION {AppendDownloadFile(t, Lookup(t, ApplyCwd(cwd, arg.root, r.name)), From(cwd, arg)) :
              r \in {s \in Matched(t, cwd, arg) :
                        Lookup(t, ApplyCwd(cwd, arg.root, s.name)) # None}}

(* cmd_find: the files below the results of a path, and without a path     *)
(* below the directory where the user is, each with the path that is shown *)
(* for it (filelist_list_recursively).                                     *)
FilelistListRecursively(t, node, basepath) ==
    {[name |-> basepath \o SubSeq(f, Len(node) + 1, Len(f)), node |-> f] :
        f \in {g \in t.files : IsPrefix(node, g)}}

CmdFind(t, cwd, arg) ==
    UNION {FilelistListRecursively(t, Lookup(t, ApplyCwd(cwd, arg.root, r.name)), r.name) :
              r \in {s \in Matched(t, cwd, arg) :
                        Lookup(t, ApplyCwd(cwd, arg.root, s.name)) \in Nodes(t)}}
CmdFindHere(t, cwd) == FilelistListRecursively(t, Lookup(t, cwd), <<>>)

(* cmd_ls: what is in the results that are directories, and the others.    *)
CmdLs(t, cwd, arg) ==
    UNION {LET node == Lookup(t, ApplyCwd(cwd, arg.root, r.name))
           IN  IF node \in Dirs(t) THEN Children(t, node) ELSE {node} \cap Nodes(t) :
               r \in Matched(t, cwd, arg)}

-----------------------------------------------------------------------------
(* Browsing *)

Shown(list, user, path, myself) ==
    [nick |-> IF myself THEN Me ELSE user, path |-> IF list = None THEN None ELSE path]

(* update_prompt.                                                          *)
UpdatePrompt == prompt' = Shown(browse_list', browse_user', browse_path', browsing_myself')

Init ==
    /\ our_filelist = None
    /\ browse_list = None /\ browse_user = None
    /\ browse_path = None /\ browse_path_previous = None
    /\ browsing_myself = FALSE
    /\ prompt = Shown(None, None, None, FALSE)
    /\ queued = {} /\ files = {} /\ pending_parses = <<>>
    /\ crashed = FALSE

(* browse_none, and then the user, or oneself, with a list or without.     *)
StartBrowsing(list, user, myself) ==
    /\ browse_list' = list
    /\ browse_user' = user
    /\ browse_path' = IF myself THEN <<>> ELSE IF browse_list = None THEN browse_path ELSE None
    /\ browse_path_previous' =
           IF myself \/ browse_list # None THEN None ELSE browse_path_previous
    /\ browsing_myself' = myself
    /\ UpdatePrompt

CmdBrowseNone ==
    /\ browsing_myself \/ browse_user # None
    /\ StartBrowsing(None, None, FALSE)
    /\ UNCHANGED <<our_filelist, queued, files, pending_parses, crashed>>

CmdBrowseMyself ==
    /\ StartBrowsing(our_filelist, None, TRUE)
    /\ UNCHANGED <<our_filelist, queued, files, pending_parses, crashed>>

(* add_parse_request.                                                      *)
AddParseRequest(user, kind) ==
    /\ Len(pending_parses) < MaxPending
    /\ pending_parses' = Append(pending_parses,
                                [nick |-> user, kind |-> kind, parsed |-> FALSE, data |-> None])

(* cmd_browse, for a user on the hub: a list that was fetched before is    *)
(* removed, if it is a DcLst, and fetched anew; with a list in XML it is   *)
(* the DcLst that is parsed.                                               *)
CmdBrowse(user) ==
    /\ files' = files \ {[nick |-> user, kind |-> "DcLst"]}
    /\ IF [nick |-> user, kind |-> "xml"] \in files
       THEN AddParseRequest(user, "DcLst") /\ UNCHANGED queued
       ELSE queued' = queued \cup {user} /\ UNCHANGED pending_parses
    /\ StartBrowsing(None, user, FALSE)
    /\ UNCHANGED <<our_filelist, crashed>>

(* handle_ended_download for a list, which is parsed if somebody waits.    *)
HandleEndedDownload(user) ==
    /\ user \in queued
    /\ queued' = queued \ {user}
    /\ \/ UNCHANGED <<files, pending_parses>>
       \/ \E kind \in Kind :
              /\ files' = files \cup {[nick |-> user, kind |-> kind]}
              /\ IF browse_user = user /\ browse_list = None
                 THEN AddParseRequest(user, kind)
                 ELSE UNCHANGED pending_parses
    /\ UNCHANGED <<our_filelist, browse, crashed>>

(* parse_main: the next request; there is no list if the file is missing   *)
(* or broken.                                                              *)
Parse ==
    \E i \in 1..Len(pending_parses) :
        LET parse == pending_parses[i]
            Data == IF [nick |-> parse.nick, kind |-> parse.kind] \in files
                    THEN [owner : {parse.nick}, version : {0}, tree : Tree] ELSE {}
        IN  /\ \A j \in 1..Len(pending_parses) : pending_parses[j].parsed <=> j < i
            /\ \E data \in Data \cup {None} :
                  pending_parses' = [pending_parses EXCEPT ![i].parsed = TRUE, ![i].data = data]
            /\ UNCHANGED <<our_filelist, browse, queued, files, crashed>>

\* Variant of BrowseListParsed: whoever is browsed by now.
BrowseListParsedForAny ==
    /\ pending_parses # <<>> /\ Head(pending_parses).parsed
    /\ pending_parses' = Tail(pending_parses)
    /\ IF browse_list = None /\ browse_user # None
       THEN /\ browse_list' = Head(pending_parses).data
            /\ browse_path' = <<>> /\ browse_path_previous' = None
       ELSE UNCHANGED <<browse_list, browse_path, browse_path_previous>>
    /\ UNCHANGED <<our_filelist, browse_user, browsing_myself, queued, files, crashed>>
    /\ UpdatePrompt

(* parse_result_fd_readable and browse_list_parsed.                        *)
BrowseListParsed ==
    /\ pending_parses # <<>> /\ Head(pending_parses).parsed
    /\ pending_parses' = Tail(pending_parses)
    /\ IF browse_list = None /\ browse_user = Head(pending_parses).nick
       THEN /\ browse_list' = Head(pending_parses).data
            /\ browse_path' = <<>> /\ browse_path_previous' = None
       ELSE UNCHANGED <<browse_list, browse_path, browse_path_previous>>
    /\ UNCHANGED <<our_filelist, browse_user, browsing_myself, queued, files, crashed>>
    /\ UpdatePrompt

(* Our own list is replaced by process_new_file_list, and freed.           *)
Replaced(list) == list # None /\ list.owner = Me /\ list # our_filelist

ProcessNewFileList ==
    LET version == IF our_filelist = None THEN 1 ELSE our_filelist.version + 1 IN
    /\ version <= MaxLists
    /\ our_filelist' \in [owner : {Me}, version : {version}, tree : Tree]
    /\ UNCHANGED <<browse, queued, files, pending_parses, crashed>>

(* cmd_cd goes to one of the results, to where it was before, or home.  A  *)
(* list that was freed may look as it did, or not.                         *)
ChangeTo(path) ==
    /\ browse_path' = path
    /\ browse_path_previous' = browse_path
    /\ UNCHANGED <<browse_list, browse_user, browsing_myself>>
    /\ UpdatePrompt

CmdCd ==
    /\ browse_list # None
    /\ LET t == browse_list.tree IN
       \/ ChangeTo(<<>>) /\ UNCHANGED crashed
       \/ /\ browse_path_previous # None
          /\ ChangeTo(browse_path_previous)
          /\ UNCHANGED crashed
       \/ \E arg \in Argument : \E r \in Matched(t, browse_path, arg) :
              LET node == Lookup(t, ApplyCwd(browse_path, arg.root, r.name)) IN
              \/ r.node = Crash /\ crashed' = TRUE /\ UNCHANGED browse
              \/ node \in Dirs(t) /\ ChangeTo(node) /\ UNCHANGED crashed
       \/ Replaced(browse_list) /\ crashed' = TRUE /\ UNCHANGED browse
    /\ UNCHANGED <<our_filelist, queued, files, pending_parses>>

Next ==
    /\ ~crashed
    /\ \/ CmdBrowseNone \/ CmdBrowseMyself \/ CmdCd
       \/ \E user \in User : CmdBrowse(user) \/ HandleEndedDownload(user)
       \/ Parse \/ BrowseListParsed \/ ProcessNewFileList

Spec == Init /\ [][Next]_vars

-----------------------------------------------------------------------------
(* Properties *)

List(owners) == [owner : owners, version : 0..MaxLists, tree : Tree]
Path == UNION {Dirs(t) : t \in Tree}

TypeOK ==
    /\ our_filelist \in List({Me}) \cup {None}
    /\ browse_list \in List(User \cup {Me}) \cup {None}
    /\ browse_user \in User \cup {None}
    /\ browse_path \in Path \cup {None} /\ browse_path_previous \in Path \cup {None}
    /\ browsing_myself \in BOOLEAN /\ crashed \in BOOLEAN
    /\ queued \subseteq User
    /\ files \subseteq [nick : User, kind : Kind]
    /\ pending_parses \in
           Seq([nick : User, kind : Kind, parsed : BOOLEAN, data : List(User) \cup {None}])

(* The list is that of the user who is named, whatever lists were asked    *)
(* for before and come late.                                               *)
ListIsOfUser ==
    browse_list # None =>
        /\ browse_list.owner = IF browsing_myself THEN Me ELSE browse_user
        /\ browsing_myself => browse_user = None

(* Where the user is, and where he was before, is a directory of the list  *)
(* ("At the moment, node cannot be NULL here", command.c:1277).            *)
PathLeads ==
    browse_list # None =>
        /\ browse_path \in Dirs(browse_list.tree)
        /\ browse_path_previous \in Dirs(browse_list.tree) \cup {None}

(* The prompt tells whose list it is and where the user is.                *)
PromptTells == prompt = Shown(browse_list, browse_user, browse_path, browsing_myself)

BrowsingSound == TypeOK /\ ListIsOfUser /\ PathLeads /\ PromptTells

(* What a path matches is found again by the name that is made for it      *)
(* ("Technically, this shouldn't fail", command.c:1244), and what is       *)
(* completed by the name that is offered, wherever the user is; and what   *)
(* is downloaded lies below the directory it is named from (the code skips *)
(* as many characters of its path, fs.c:917).  Not so for a path through a *)
(* file, which may crash the program; a completion with a wildcard for "." *)
(* and ".."; and a download from above the directory where the user is.    *)
(* The path that find shows for a file leads to it, and find and ls miss   *)
(* nothing that is there (command.c:1265-1393).                            *)
ThroughFile(t, path) == \E i \in 1..Len(path) - 1 : Lookup(t, SubSeq(path, 1, i)) \in t.files

FindsAll(t, cwd, arg, node) ==
    /\ \A f \in t.files : IsPrefix(node, f) => \E q \in CmdFind(t, cwd, arg) : q.node = f
    /\ Children(t, node) \subseteq CmdLs(t, cwd, arg)
    /\ node \in t.files => node \in CmdLs(t, cwd, arg)

ResultsAreFound ==
    \A t \in Tree : \A cwd \in Dirs(t), arg \in Argument :
        LET Found(r) ==
                LET path == ApplyCwd(cwd, arg.root, r.name)
                IN  ThroughFile(t, path) \/ Lookup(t, path) = r.node
        IN  /\ \A r \in Matched(t, cwd, arg) : Found(r)
            /\ Last(arg.path) # ".*" => \A r \in Completed(t, cwd, arg) : Found(r)
            /\ \A r \in CmdFind(t, cwd, arg) : Found(r)
            /\ \A r \in CmdFindHere(t, cwd) : Lookup(t, cwd \o r.name) = r.node
            /\ \A r \in Matched(t, cwd, arg) :
                   \/ ThroughFile(t, ApplyCwd(cwd, arg.root, r.name))
                   \/ FindsAll(t, cwd, arg, r.node)
            /\ ToSet(arg.path) \cap {"..", ".*"} = {} =>
                   \A q \in CmdGet(t, cwd, arg) : IsPrefix(q.base_path, q.filename)
=============================================================================
