---------------------------- MODULE SharedFiles -----------------------------
(***************************************************************************)
(* The files that are shared: the update process, which keeps the tree of  *)
(* the shared directory and looks for changes (local_flist.c), the hash    *)
(* process that computes their hashes (hash.c), and the main process,      *)
(* which replaces its own list by the lists it is sent and publishes the   *)
(* list files.  One directory of files is shared or not.  A version of a   *)
(* file stands for its contents, time and size; a file may be put back.    *)
(***************************************************************************)
EXTENDS Integers, Sequences, FiniteSets, Functions, SequencesExt

CONSTANTS
    File,          \* the files of the directory
    Node,          \* the addresses at which the tree's nodes are allocated
    MaxVersion,    \* bound: versions of a file
    MaxChanges,    \* bound: changes of files, and failures to open or read one
    MaxCommands,   \* bound: share and unshare commands
    MaxRestarts,   \* bound: restarts of the program
    MaxResults,    \* bound: lists on the way to main, whose pipe is full then
    None,
    Failed,        \* the text that is answered for the hash of a file that is gone
    Unreadable,    \* the answer for a file that cannot be opened
    Writing        \* a list file that is being written

ASSUME SharedFilesAssumption ==
    /\ MaxVersion \in Nat \ {0}
    /\ MaxChanges \in Nat /\ MaxCommands \in Nat /\ MaxRestarts \in Nat
    /\ MaxResults \in Nat \ {0}
    /\ IsFiniteSet(File) /\ None \notin Node
    /\ \E at \in [File -> Node] : IsInjective(at)     \* there is memory for them

VARIABLES
    disk,           \* version of each file, 0 if it is not there
    shared,         \* the directory is in the tree
    children,       \* the directory's children: files to nodes
    node,           \* mtime and hash (tth) of the nodes
    hash_files,     \* nodes to be hashed
    hashing,        \* the node that is being hashed
    update_hash,    \* there are hashes that main has not been sent
    pc,             \* what the update process does
    job,            \* the file that the hash process was asked for
    digest,         \* what the hash process answered
    filelist,       \* the list kept on disk, read at the start
    new_list,       \* the list file written for main
    list,           \* the list file that other clients are served
    results,        \* lists on the way to main
    our_filelist,   \* main's list
    requests,       \* share and unshare requests on the way from main
    changes, commands, restarts,    \* bounded counters
    disturbed,      \* history: files that changed since the last look while they were hashed
    removed,        \* history: a file was removed while it waited for its hash
    fault           \* history: how the update process was stopped, if it was

tree == <<shared, children, node, hash_files, hashing, update_hash>>
hasher == <<job, digest>>
published == <<new_list, list, results, our_filelist>>
world == <<disk, requests, changes, commands, restarts>>
history == <<disturbed, removed, fault>>
vars == <<tree, pc, hasher, filelist, published, world, history>>

Version == 0..MaxVersion
NoFiles == [f \in {} |-> None]
Listing == UNION {[S -> [mtime : Version, tth : Version \cup {None, Failed}]] : S \in SUBSET File}
Saved == [shared : BOOLEAN, files : Listing]

ASSUME ListingAssumption ==
    None \notin Listing /\ Writing \notin Listing /\ None # Writing

Blank == [mtime |-> 0, tth |-> None]

Snapshot(kids, nodes) == [f \in DOMAIN kids |-> nodes[kids[f]]]
Saving(s, kids, nodes) == [shared |-> s, files |-> Snapshot(kids, nodes)]

(* The program starts with the list that was kept: the tree is read from   *)
(* it and sent to main, and a new directory for the list files is used.    *)
Started(s) ==
    /\ shared' = s.shared
    /\ LET at == CHOOSE at \in [DOMAIN s.files -> Node] : IsInjective(at) IN
           /\ children' = at
           /\ node' = [n \in Node |->
                          IF \E g \in DOMAIN at : at[g] = n
                          THEN s.files[CHOOSE g \in DOMAIN at : at[g] = n]
                          ELSE Blank]
    /\ hash_files' = <<>> /\ hashing' = None /\ update_hash' = FALSE
    /\ pc' = "send" /\ job' = None /\ digest' = None
    /\ new_list' = Writing /\ list' = None
    /\ results' = <<>> /\ our_filelist' = None
    /\ requests' = <<>> /\ removed' = FALSE /\ fault' = "none"

Init ==
    /\ disk \in [File -> {0, 1}]
    /\ shared \in BOOLEAN /\ children = NoFiles
    /\ node = [n \in Node |-> Blank]
    /\ hash_files = <<>> /\ hashing = None /\ update_hash = FALSE
    /\ pc = "send" /\ job = None /\ digest = None
    /\ filelist = [shared |-> shared, files |-> NoFiles]
    /\ new_list = Writing /\ list = None
    /\ results = <<>> /\ our_filelist = None
    /\ requests = <<>>
    /\ changes = 0 /\ commands = 0 /\ restarts = 0
    /\ disturbed = {} /\ removed = FALSE /\ fault = "none"

-----------------------------------------------------------------------------
(* The world: the files change, the user shares and unshares, the program  *)
(* is restarted at any moment                                              *)

FileAt(n) == {f \in DOMAIN children : children[f] = n}

Change(f) ==
    /\ changes < MaxChanges
    /\ \E v \in Version \ {disk[f]} : disk' = [disk EXCEPT ![f] = v]
    /\ changes' = changes + 1
    /\ disturbed' = IF f \in FileAt(hashing) THEN disturbed \cup {f} ELSE disturbed
    /\ UNCHANGED <<tree, pc, hasher, filelist, published, requests, commands, restarts,
                   removed, fault>>

(* cmd_share and cmd_unshare: a request to the update process.             *)
Command(r) ==
    /\ commands < MaxCommands
    /\ our_filelist # None
    /\ commands' = commands + 1
    /\ requests' = Append(requests, r)
    /\ UNCHANGED <<tree, pc, hasher, filelist, published, disk, changes, restarts, history>>

Restart ==
    /\ restarts < MaxRestarts
    /\ restarts' = restarts + 1
    /\ fault # "freed"
    /\ Started(filelist)
    /\ UNCHANGED <<filelist, disk, changes, commands, disturbed>>

-----------------------------------------------------------------------------
(* The hash process *)

(* hash_main: the file is hashed as it is now.  A file that is not there   *)
(* is answered with a text that is no hash, or with none if it goes before *)
(* it is opened.                                                           *)
Hash ==
    /\ job # None
    /\ digest' \in IF disk[job] = 0 THEN {Failed, Unreadable} ELSE {disk[job]}
    /\ job' = None
    /\ UNCHANGED <<tree, pc, filelist, published, world, history>>

(* tth: a file that is there cannot be opened, which is answered with no   *)
(* hash.                                                                   *)
OpenFails(f) ==
    /\ changes < MaxChanges
    /\ job # None /\ job = f /\ disk[f] # 0
    /\ digest' = Unreadable /\ job' = None
    /\ changes' = changes + 1
    /\ UNCHANGED <<tree, pc, filelist, published, disk, requests, commands, restarts, history>>

(* tth: it cannot be read; -1 is a large size_t, the read is repeated for  *)
(* ever and nothing is answered.                                           *)
ReadFails ==
    /\ changes < MaxChanges
    /\ job # None /\ disk[job] # 0
    /\ job' = None
    /\ changes' = changes + 1
    /\ UNCHANGED <<tree, pc, digest, filelist, published, disk, requests, commands, restarts,
                   history>>

-----------------------------------------------------------------------------
(* The update process *)

Ready == pc = "loop" /\ fault = "none"

(* hash_request for the first of the files that wait: its path is taken    *)
(* from its node, which may have been freed.                               *)
HashRequest(kids, nodes, wait) ==
    IF wait = <<>>
    THEN hashing' = None /\ UNCHANGED <<job, disturbed, fault>>
    ELSE LET at == {f \in DOMAIN kids : kids[f] = Head(wait)} IN
         IF at = {}
         THEN fault' = "freed" /\ hashing' = None /\ UNCHANGED <<job, disturbed>>
         ELSE /\ \E f \in at : job' = f
              /\ hashing' = Head(wait)
              /\ disturbed' = disturbed \cup {f \in at : disk[f] # nodes[kids[f]].mtime}
              /\ UNCHANGED fault

(* write_local_file_list and rename: the list is replaced as a whole, or   *)
(* not at all when writing fails.                                          *)
Save(s) == filelist' = s \/ UNCHANGED filelist

(* send_filelist opens the list file that main has not renamed yet anew.   *)
StartSend(next) ==
    /\ pc' = next
    /\ new_list' = Writing
    /\ UNCHANGED <<list, results, our_filelist>>

(* The list file is written, wherever it is now, and main is told.         *)
FinishSend ==
    /\ pc # "loop" /\ fault = "none"
    /\ Len(results) < MaxResults
    /\ LET whole == Snapshot(children, node) IN
       /\ new_list' = IF new_list = Writing THEN whole ELSE new_list
       /\ list' = IF list = Writing THEN whole ELSE list
       /\ results' = Append(results, whole)
    /\ IF pc = "send then hash" /\ hashing = None
       THEN HashRequest(children, node, hash_files) /\ UNCHANGED digest
       ELSE UNCHANGED <<hashing, hasher, disturbed, fault>>
    /\ pc' = "loop"
    /\ UNCHANGED <<shared, children, node, hash_files, update_hash, filelist, our_filelist,
                   world, removed>>

\* Variant of Changed: a file that has its hash is not looked at again.
ChangedUnhashed(f) ==
    disk[f] \notin {0, node[children[f]].mtime} /\ node[children[f]].tth = None

Changed(f) == disk[f] \notin {0, node[children[f]].mtime}
Gone == {f \in DOMAIN children : disk[f] = 0}

\* Variant of Renewed: the hash is kept.
RenewedKeepsHash(f, n) == [mtime |-> disk[f], tth |-> node[n].tth]

(* The node of a file that is new or has changed.                          *)
Renewed(f, n) == [mtime |-> disk[f], tth |-> None]

\* Variant of Waiting: the files that wait are not looked through.
WaitingAgain(nodes, kids) == {kids[f] : f \in {g \in DOMAIN kids : nodes[kids[g]].tth = None}}

(* The nodes that have no hash and do not wait for one.                    *)
Waiting(nodes, kids) ==
    {kids[f] : f \in {g \in DOMAIN kids : nodes[kids[g]].tth = None}} \ Range(hash_files)

(* lookup_filelist_changes: files that are gone are freed, new ones are    *)
(* allocated, and those that have no hash of their version wait for one.   *)
(* The list is sent if there is anything to send but a hash that is due.   *)
LookupChanges(is_shared) ==
    LET kept == Restrict(children, DOMAIN children \ Gone)
        found == {f \in File : is_shared /\ disk[f] # 0 /\ f \notin DOMAIN children}
        lost == {children[f] : f \in Gone} \cap Range(hash_files)
    IN
    /\ \E fresh \in Injection(found, Node \ Range(kept)) :
           LET kids == [f \in DOMAIN kept \cup found |->
                           IF f \in found THEN fresh[f] ELSE kept[f]]
               renew == found \cup {f \in DOMAIN kept : Changed(f)}
               nodes == [n \in Node |->
                            IF \E f \in renew : kids[f] = n
                            THEN Renewed(CHOOSE f \in renew : kids[f] = n, n)
                            ELSE IF n \in Range(kept) THEN node[n] ELSE Blank]
               result == Gone # {} \/ found # {}
                         \/ \E f \in renew : kids[f] \notin Range(hash_files)
           IN  IF Range(fresh) \cap Range(hash_files) # {}
               THEN /\ fault' = "assertion"            \* assert(false)
                    /\ UNCHANGED <<children, node, hash_files, hashing, pc, hasher,
                                   filelist, published, disturbed>>
               ELSE \E more \in SetToSeqs(Waiting(nodes, kids)) :
                    /\ children' = kids
                    /\ node' = nodes
                    /\ hash_files' = hash_files \o more
                    /\ IF result
                       THEN /\ Save(Saving(is_shared, kids, nodes))
                            /\ StartSend("send then hash")
                            /\ UNCHANGED <<hashing, hasher, disturbed, fault>>
                       ELSE /\ IF hashing = None
                               THEN HashRequest(kids, nodes, hash_files \o more)
                               ELSE UNCHANGED <<hashing, job, disturbed, fault>>
                            /\ UNCHANGED <<pc, digest, filelist, published>>
    /\ removed' = (removed \/ lost # {})
    /\ shared' = is_shared
    /\ UNCHANGED update_hash

(* The process has waited for filelist_refresh_timeout.                    *)
Refresh ==
    /\ Ready
    /\ UNCHANGED world
    /\ LookupChanges(shared)

(* A result of the hash process: the first file that waits gets its hash,  *)
(* the next one is asked for, and the list is sent when no file waits or   *)
(* the last list was sent long ago.                                        *)
HandleResult ==
    /\ Ready /\ digest # None
    /\ digest' = None
    /\ IF hashing # None /\ FileAt(hashing) = {}
       THEN /\ fault' = "freed"
            /\ UNCHANGED <<tree, pc, job, filelist, published, disturbed>>
       ELSE LET hashed == hashing # None /\ digest # Unreadable
                wait == IF hashing # None THEN Tail(hash_files) ELSE hash_files
                nodes == IF hashed THEN [node EXCEPT ![hashing].tth = digest] ELSE node
                update == update_hash \/ hashed
            IN  /\ hash_files' = wait
                /\ node' = nodes
                /\ HashRequest(children, nodes, wait)
                /\ \/ /\ update
                      /\ Save(Saving(shared, children, nodes))
                      /\ StartSend("send")
                      /\ update_hash' = FALSE
                   \/ /\ ~update \/ wait # <<>>
                      /\ update_hash' = update
                      /\ UNCHANGED <<pc, filelist, published>>
                /\ UNCHANGED <<shared, children>>
    /\ UNCHANGED <<world, removed>>

\* Variant of Unshare: the files stay in the tree.
UnshareKeepsFiles ==
    /\ shared' = FALSE
    /\ removed' = (removed \/ Range(children) \cap Range(hash_files) # {})
    /\ Save(Saving(FALSE, NoFiles, node))
    /\ StartSend("send")
    /\ UNCHANGED <<children, node>>

(* FILELIST_UPDATE_DEL_DIR_NAME: the nodes are freed.                      *)
Unshare ==
    /\ shared' = FALSE
    /\ children' = NoFiles
    /\ node' = [n \in Node |-> Blank]
    /\ removed' = (removed \/ Range(children) \cap Range(hash_files) # {})
    /\ Save(Saving(FALSE, NoFiles, node))
    /\ StartSend("send")

(* A request of main.  A directory that is shared is looked through at     *)
(* once; one that is shared already, or is not, is refused.                *)
HandleRequest ==
    /\ Ready /\ requests # <<>>
    /\ requests' = Tail(requests)
    /\ \/ /\ Head(requests) = "share" /\ ~shared
          /\ LookupChanges(TRUE)
       \/ /\ Head(requests) = "unshare" /\ shared
          /\ Unshare
          /\ UNCHANGED <<hash_files, hashing, update_hash, hasher, disturbed, fault>>
       \/ /\ (Head(requests) = "share") = shared
          /\ UNCHANGED <<tree, pc, hasher, filelist, published, history>>
    /\ UNCHANGED <<disk, changes, commands, restarts>>

-----------------------------------------------------------------------------
(* The main process *)

\* Variant of NewFileList: a list file that is there is not replaced.
NewFileListOnce ==
    /\ results # <<>>
    /\ our_filelist' = Head(results)
    /\ results' = Tail(results)
    /\ IF new_list = None \/ list # None
       THEN UNCHANGED <<new_list, list>>
       ELSE list' = new_list /\ new_list' = None
    /\ UNCHANGED <<tree, pc, hasher, filelist, world, history>>

(* process_new_file_list: main's list is replaced, and the list file takes *)
(* the place of the one that is served, if it is still there.              *)
NewFileList ==
    /\ results # <<>>
    /\ our_filelist' = Head(results)
    /\ results' = Tail(results)
    /\ IF new_list = None
       THEN UNCHANGED <<new_list, list>>
       ELSE list' = new_list /\ new_list' = None
    /\ UNCHANGED <<tree, pc, hasher, filelist, world, history>>

UpdateStep == FinishSend \/ Refresh \/ HandleResult \/ HandleRequest

Next ==
    \/ \E f \in File : Change(f)
    \/ \E r \in {"share", "unshare"} : Command(r)
    \/ Restart
    \/ Hash \/ ReadFails
    \/ \E f \in File : OpenFails(f)
    \/ UpdateStep
    \/ NewFileList

(* The three processes run.  In what order the update process takes what   *)
(* it finds is left open.                                                  *)
Fairness == WF_vars(Hash) /\ WF_vars(UpdateStep) /\ WF_vars(NewFileList)

Spec == Init /\ [][Next]_vars /\ Fairness

-----------------------------------------------------------------------------
(* Properties *)

NodeVal == [mtime : Version, tth : Version \cup {None, Failed}]

(* The tree has a node of its own for each file, and none unless the       *)
(* directory is shared.                                                    *)
TypeOK ==
    /\ disk \in [File -> Version]
    /\ shared \in BOOLEAN
    /\ DOMAIN children \subseteq (IF shared THEN File ELSE {})
    /\ Range(children) \subseteq Node /\ IsInjective(children)
    /\ node \in [Node -> NodeVal]
    /\ hash_files \in Seq(Node) /\ hashing \in Node \cup {None}
    /\ pc \in {"loop", "send", "send then hash"}
    /\ job \in File \cup {None}
    /\ digest \in Version \cup {None, Unreadable, Failed}
    /\ filelist \in Saved
    /\ new_list \in Listing \cup {None, Writing}
    /\ list \in Listing \cup {None, Writing}
    /\ our_filelist \in Listing \cup {None}
    /\ disturbed \subseteq File
    /\ fault \in {"none", "freed", "assertion"}

(* A hash is that of the version of the file that it is listed for, in the *)
(* tree and in the list that is kept for the next start, once the listed   *)
(* version is the one on disk - unless the file changed between the        *)
(* request and the result (local_flist.c: the result is stored with the    *)
(* time of the last look, and a file that waits is not added again).       *)
TthIsOfFile ==
    \A listing \in {Snapshot(children, node), filelist.files} :
        \A f \in DOMAIN listing \ disturbed :
            listing[f].mtime = disk[f] => listing[f].tth \in {None, disk[f]}

(* The file that is hashed is the first that waits (assert(hashing == h)), *)
(* no file waits twice, and every pointer in the queue is that of a node   *)
(* in the tree as long as no file was removed while it waited.             *)
HashQueueSound ==
    /\ hashing # None => hash_files # <<>> /\ Head(hash_files) = hashing
    /\ IsInjective(hash_files)
    /\ ~removed => fault = "none" /\ Range(hash_files) \subseteq Range(children)

(* When no list is on the way, the list file that other clients are served *)
(* is whole and is the list that main searches, whichever lists main       *)
(* renamed while the next one was being written (local_flist.c:837).       *)
PublishedIsOurs ==
    results = <<>> /\ pc = "loop" /\ our_filelist # None => list = our_filelist

\* A file is being hashed and there will be no answer.
Stuck == hashing # None /\ job = None /\ digest = None

(* Every file that is shared is in main's list with its hash in the end,   *)
(* also one that could not be opened, which is tried again - unless the    *)
(* update process was stopped, the hash process reads for ever, or the     *)
(* file changed while it was hashed.                                       *)
FilesAreHashed ==
    <>[](\/ fault # "none" \/ Stuck
         \/ \A f \in File \ disturbed :
                shared /\ disk[f] # 0 =>
                    /\ our_filelist # None /\ f \in DOMAIN our_filelist
                    /\ our_filelist[f] = [mtime |-> disk[f], tth |-> disk[f]])
=============================================================================
