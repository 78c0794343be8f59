# microdc2 in TLA+

TLA+ specifications of microdc2, a command-line client for the Direct Connect
network, the TLC configurations that check them on small instances, and TLAPS
proofs. Paths are relative to the repository: `src/main.c` below is the file
`src/src/main.c` of `PROJECT.json`.

`PROJECT.json` is the machine-readable index: the components, the runs, the
source lines each definition stands for (`map`), a mutation of the code that
each property catches (`mutants`), the disagreements of code and comments that
were found (`findings`), and the hazards of the code with the properties that
watch them.

    tlasany M.tla                         parse
    tlc -workers 2 -config X.cfg MCX      model-check
    tlapm UploadSlotsProofs.tla           check the proofs
                                          (also SharedFilesProofs, DescriptorsProofs,
                                          HubSessionProofs, DownloadQueueProofs,
                                          UserConnsProofs, PeerProtocolProofs, ScreenProofs)


## 1. The system

microdc2 is a set of processes that share nothing but pipes.

* The **main process** is one thread around `select` (main.c:1291-1350). It owns
  all the shared state and runs one handler at a time: hub messages, messages
  of the child processes, readline commands, timers.
* A **user process** per peer connection (user.c), forked by
  `user_connection_new` (main.c:386-459). It speaks the peer protocol and does the
  file transfers. It decides nothing that concerns other connections: it asks
  the main process and blocks on the answer.
* A **lookup child** (lookup.c), a **parse child** (filelist-in.c), a **file list
  update child** (local_flist.c) with a **hash child** (hash.c): workers that
  take requests from one pipe and write results to another.

The processes fail separately. A user process can die at any moment (assertions,
signals, the idle alarm); the main process can drop a connection at any moment
(`cancel`, `disconnect`, a broken pipe). Since pipe ends are inherited over
`fork`, the end of file of a pipe may come late or never.

| Component | State it keeps | Operations | Hard part | What makes it correct |
|---|---|---|---|---|
| Upload slots (main.c, user.c) | `used_ul_slots`, `used_mini_slots`, `my_ul_slots`, `slot_granted`, `occupied_slot`, `occupied_minislot` | CHECK_UPLOAD, UPLOAD_ENDED, TRANSFER_START, TERMINATING, `user_disconnect`, grantslot, set slots | two processes that fail separately; `$Get` after `$Get` | counters equal the holders; nothing is sent without a slot; every slot comes back |
| Download queue (main.c, command.c, user.c) | `download_queue`, `queue_pos`, `queued_valid`, `transfer_file`, `used_dl_slots`, `dir` | WANT_DOWNLOAD, VALIDATE_DIR, CHECK_DOWNLOAD, DOWNLOAD_ENDED, get, browse, unqueue, cancel | an index kept while the list changes under it | the entry that leaves is the one transferred; only complete files get their final name; one connection per direction |
| Name lookups (lookup.c) | `pending_lookups`, two pipes | add, cancel, result | results matched by position | every callback gets the answer to its own request |
| Hub session (hub.c) | `hub_state`, `hub_socket`, `hub_lookup`, `hub_hostname`, `hub_connected` | connect, disconnect, login, keep-alive, auto-reconnect | late lookup results, failures at every step | socket and state agree; a wanted hub is reached again |
| Hub users and messages (hub.c) | `hub_users`, `pending_userinfo`, reference counts, `active_state` | $Hello, $MyINFO, $NickList, $Quit, $RevConnectToMe, `hub_connect_user` | users that leave and return; writes that disconnect under a handler | counts equal pointers; no freed user is reached; who was asked to connect is waited for |
| User connections and processes (main.c) | `user_conns`, names, `info->conn[]` | new, validate_nick, disconnect, cancel | inherited descriptors; name collisions | the table leads to live connections under their own names; `conn[]` and `info` agree |
| Peer protocol (user.c) | `user_state`, direction, file positions | handshake, direction, $Get, $Send, transfer | ties, resume positions, the alarm | the ends choose opposite directions; data is read as data at its position; nobody waits in vain; both end |
| Message queues (common/msgq.c, byteq.c) | byte buffers, `write_fds` | put, get, partial reads and writes | partial messages, full buffers | the answers come whole, once, in order |
| File list parser (filelist-in.c, xml_flist.c) | `pending_parses`, requests and answers in order | add, result, parse, write | the user browses somebody else meanwhile; formats that other clients write | the list of the browsed user; a list is the same after it was written and read |
| Local file list (local_flist.c, hash.c) | the tree, `hash_files`, `hashing`, the kept list, the list files, `our_filelist` | refresh, share, unshare, hash request and result, send, rename, restart | files that change or go while they are hashed; list files renamed while the next is written | a hash is that of its file; the served list is the one main has; every file gets its hash |
| Search (search.c) | `our_searches`, results with reference counts, the patterns of a query | search, $SR, unsearch, $Search | a result that several searches share; indexes that move; matching that skips ahead | a result goes to the searches it fits, once; a name is found when it has all the words |
| Sockets for other clients (main.c) | `listen_socket`, `search_socket`, `read_fds`, `write_fds`, `is_active` | set active, set listenport, accept, datagrams in and out | sockets replaced in a handler, while select's answer refers to the old numbers | what is watched is what is open; the announced port is the bound one |
| Processes and descriptors (main.c, user.c, command.c) | who holds which pipe end | fork, close, exit of each process | ends that children inherit | everyone sees the end of what it waits for |
| Commands and variables (command.c, variables.c, fs.c) | `browse_list`, `browse_user`, `browse_path`, `browse_path_previous`, `browsing_myself`; aliases; variables | the commands; splitting, aliases, completion; browse, cd, get, wildcards | a list that is replaced under the user; quotes inside aliases; names that look like patterns | the prompt tells what is browsed; what is typed or completed is what is executed |
| Containers (common/) | ptrv, hmap, tmap, range | put, get, remove, iterate | rotations, growth, removal under an iterator | equal to the mathematical object |
| Huffman codec (huffman.c) | the tree, the bits | encode, decode | one character, long codes | decode inverts encode; the code is shortest |
| Tree hash (tth/) | the block in progress, the stack | update, digest | reads that end inside a block | the hash of the tree over the blocks |
| Vectors, strings, options, charsets (common/, charsets.c, util.c) | buffers and their sizes, the converters | append, insert, search, parse, format, set a charset | sizes at a boundary, failures half-way | the same as the text or the list that it stands for; a converter for every pair that is set |
| What crosses a line or a pipe (hub.c, search.c, msgq.c) | messages in bytes | $Search, $SR, $ADCGET, chat, settings, messages between processes | separators inside names, partial texts | what is read is what was meant |
| Screen | `screen_state`, `screen_prompt`, `suspend_msgs`, readline's handler, standard input in `read_fds` | print a message, set the prompt, suspend, wake up, redisplay, read a line, finish | shells, signals and messages in one terminal | messages come once and in order; the prompt stands when input is awaited |

They interact so: a command or a hub message makes the main process fork a user
process; the user process asks by message (`CHECK_UPLOAD`, `CHECK_DOWNLOAD`,
`VALIDATE_*`), the handler in `user_result_fd_readable` (main.c:546-760) reads and
changes the slots, the queue and the user, and puts an answer in the other pipe;
`TERMINATING`, end of file, `EPIPE` and `cancel` all lead to `user_disconnect`.
Lookups are requested by the hub session and the lookup command and return by
callback from the main loop.


## 2. The modules

| Module | Models | Composed with |
|---|---|---|
| `SlotPool` | what the client promises about its slots (abstract) | |
| `UploadSlots` | slots, minislots, grants; the uploading side of user.c; both pipes | implements `SlotPool` (`SlotsArePool`) |
| `UploadSlotsProofs` | the theorems about `UploadSlots` | extends it |
| `DownloadQueue` | queue, directions and the receiving side of user.c, for one remote user | |
| `DownloadQueueProofs` | the theorems about `DownloadQueue` and its compaction | extends it |
| `Lookup` | the lookup list, its pipes and its child; no specification of its own | |
| `HubSession` | hub_state and its callers | extends `Lookup` |
| `HubSessionProofs` | the theorems about `HubSession` and `Lookup` | extends it |
| `UserConns` | the users of the hub, who points to them, the table of connections | |
| `UserConnsProofs` | the theorems about `UserConns` | extends it |
| `PeerProtocol` | two user processes at the two ends of a connection | |
| `PeerProtocolProofs` | the theorems about `PeerProtocol` | extends it |
| `SharedFiles` | the update process, the hash process and main's list; a changing disk; restarts | |
| `SharedFilesProofs` | the theorems about `SharedFiles` | extends it |
| `RequestQueue` | what main relies on when it asks a child (abstract) | |
| `MsgQ` | the message queues over the two pipes of a child | implements `RequestQueue` (`AnswersInOrder`) |
| `Descriptors` | who holds which pipe end, from the start over all forks | |
| `DescriptorsProofs` | the theorems about `Descriptors` and `Sockets` | extends both |
| `Dictionary` | what main expects of a map (abstract) | |
| `TreeMap` | tmap.c: the red-black tree, with its pointers | implements `Dictionary` |
| `HashMap` | hmap.c: the buckets, and the iterator under removal | implements `Dictionary` |
| `Sockets` | the listening socket and the search socket under select | |
| `Search` | our own searches and their results | |
| `TextSearch`, `Ranges`, `Huffman`, `TigerTree` | algorithms, without state | |
| `Strings` | strings, vectors, numbers and columns; without state | |
| `MCParts` | constants, and `Descriptors`, `MsgQ`, the maps, `Sockets`, `Search` and the algorithms in one run | extends `Descriptors` and `Sockets`, instances of the others |
| `Screen` | the terminal under messages, signals, shells and the main loop | |
| `ScreenProofs` | the theorems about `Screen` | extends it |
| `Browsing` | the lists that are browsed and the parser's answers; paths, wildcards, cd, get | |
| `CommandLine` | quoting, words, execution, aliases, completion; without state | |
| `FileLists` | lists as text, as XML and as data, written and read; without state | |
| `Completions` | patterns, and what a completion offers and inserts; without state | extends `CommandLine` |
| `Variables` | what "set" shows and changes; without state | |
| `HubTexts` | what the hub is told and what is read from it; without state | |
| `InboundSearch` | the searches of others, from the query to the file that is opened; without state | extends `TextSearch` |
| `Options` | the options of commands and of main; without state | |
| `Messages` | the bytes of the messages between processes; without state | |
| `Charsets` | the character sets and the converters | |
| `MCClient` | constants, and `PeerProtocol` and the eleven from `Screen` on in one run | extends `PeerProtocol` and `Screen`, instances of the others |
| `MC...` | constants for TLC; `MCDownloadQueue` also has `Ranges` | |

Conventions. One action per handler, with the names of the source. A flag of
the C struct is the set of connections that have it (`occupied_slot` is `slot` in
UploadSlots, `occupied` in DownloadQueue). Outside `MsgQ` a pipe is a sequence of whole
messages, which `MsgQ` justifies; a message that the code puts into a queue and flushes is appended in
the step that puts it. One iteration of a user process from one blocking point
to the next is one step: between them it touches only its own memory and its own pipe.
The exit of a process is the step after which it writes nothing more. A definition
headed "Variant of" is the mutation of the next one that a property must catch.

### UploadSlots

`HandleCheckUpload` is the decision of main.c:694-736: a small file takes a minislot
while there is one, any file a slot while `SlotAvailable`, otherwise the answer is
a denial. `resolve_upload_file` is the choice of its three outcomes (`Resolved`).
`HandleEndedUpload` gives back both kinds; `UserDisconnect` calls it only for a regular
slot (main.c:468) and clears the rest with the structure that is freed.
On the process side `ReceiveGet`, `ReceiveGetBlock` ($UGetBlock, $ADCGET), `ReceiveReply`,
`ReceiveSend`, `FinishUpload`, `FailUpload` and `Terminate` are the handlers of user.c in the
states GET, SEND_GET and DATA_SEND, with all their error returns and the order in which
the messages are sent (`GetMessages`: UPLOAD_ENDED before CHECK_UPLOAD). Where the socket
fails inside a handler TERMINATING is put before UPLOAD_ENDED, and the main process
drops what follows TERMINATING; both are in the model. `Crash` is a process that dies
without a word, `NoticeDisconnect` one that finds its pipe closed.

The alarm is set again by every input and every write (user.c:1200, :1236, :1242, :1329), also by input
that has no effect. So the end of an idle process has three parts: `ReceiveIgnored` is input that changes nothing but is
in time, `Silence` says that nothing more comes (the process is in `silent` until it gets something to do), and `Alarm` is the
`Terminate` of a silent one. `Terminate` itself, for any error, may happen and need not.

$Send without a file (exception 6) reports a transfer without a name: main takes its base name
(main.c:638, :646) and stops. That is `HandleUnnamedStart`: `RestartMain` ends the main process and all it knows, and starts it
again, so that the other steps go on; for `SlotPool` it is `Restart`.

A connection here is one whose direction is "send"; how it gets there is in
`DownloadQueue`, and a user has at most one such connection (`OnePerDirection` there,
the guard of `StartConnection` here).

### DownloadQueue

One remote user and all its connections. A connection passes through
`Connect` (nick validated, main.c:186-221), the direction (`ReceiveDirection`,
`HandleWantDownload`, `ReceiveWant`, `HandleValidateDir`) and, if it receives, the loop
CHECK_DOWNLOAD, $FileLength, data, DOWNLOAD_ENDED of user.c. `Get`, `Browse` and `Unqueue`
change the queue in any state of any connection. `Unqueue` takes an arbitrary set of
positions and performs the three passes of command.c:1566-1596: mark, correct
`queued_valid` and `queue_pos`, compact; `Compact` is the loop of `compact_queue_ptrv`
with its `first_free`. The alarm is that of `UploadSlots`: `ReceiveIgnored`, `Silence`, `Alarm`.
The failure of user.c:442-445 is left out, because `translate_local_to_remote` never returns NULL (fs.c:949-963).

`shifted`, and the file named in a DOWNLOAD_ENDED message, are history variables:
the first records that an entry was prepended during the transfer, the second
which file the process means. Nothing reads them but the properties.

### Lookup and HubSession

`pending` is `pending_lookups`, `requests` and `results` the two pipes; a result carries
a host only so that properties can speak of it, and `ResultForHub`,
`ResultIgnored` and `ResultForNobody` are the three ways of
`lookup_result_fd_readable` (lookup.c:249-310). `ResultForNobody` is the NULL pointer that is
used when the list is empty: the main process stops there (`crashed`).
`HubSession` has the commands connect, disconnect, lookup, set auto_reconnect, set
hub_charset; the login messages; failures of each read and write; and
`check_hub_activity` with its two intervals. `Disconnect` is `hub_disconnect`, used
by all of them with the values the caller has at that point, because `hub_connect` may
fail inside a handler that has already changed `hub_lookup`. `idle` is
the time since `hub_last_activity`, in the three classes the code distinguishes.


### UserConns

One `DCUserInfo` is pointed to from five places: `hub_users`, `pending_userinfo`, the
connections, `browse_user` and the search responses. `infos` and `uconn` are the allocated
structures, so a pointer dangles when it is not in their domain, and
`References` lists the pointers that `refcount` has to count. `UserInfoNew`, `Release`, `Connect`
(`hub_connect_user`) and `Disconnected` (`hub_disconnect`) are operators on the value of `infos`, because handlers
call one after the other: `Browse` connects, ignores the result, and then counts the user it may have lost.
A message that cannot be written disconnects the hub inside the handler (hub.c:282), so `Connect` has two outcomes.
`Named` is what `update_user_connection_name` formats: "nick|", "nick|UL", "nick|DL", or "unknown<n>". `Served(c)`
is membership in the table, which is what the main loop iterates over (main.c:1338-1349).

A state in which `MemorySound` fails has no successor: from there on the C program leaks or uses memory that
is gone, which has no meaning in the model. `past` records the two histories that lead there.
$ConnectToMe only makes a connection and is `UserConnectionNew`; $MyINFO for an unknown nick is `NickList`.

### PeerProtocol

Each side is a `DCUserConnLocal`; its main process is a free choice of answers. `Put` is `user_putf`: the messages are
appended to `user_sendq` and any part of it is written at once; `Flush` and `SendData` are the two
branches of `user_now_writable`, and `writable` is membership in `user_write_fds`, which `user_putf` sets only
when the queue was empty. A unit of data carries its position in the file, so that a receiver that counts
differently from the sender is seen (`misread`). Sizes and positions are unsigned numbers modulo `Width`, and
`Unknown` is `UINT64_MAX`. `Terminate` is every local error and signal at once, `Alarm` the idle time-out of a
process that has nothing to write and nothing to read.
The random numbers are constants of the two ends. `rand` is not seeded in the forked process (user.c:1472): two ends with
the same C library draw the same number, two with different libraries may not, so both are instances. `BothWant` holds when both announced a download, the
only case in which the numbers are compared (user.c:979-991).

$ADCGET and $UGetBlock are left out: microdc answers but never sends them (they are in `UploadSlots`).

### SharedFiles

A version of a file stands for its contents, its time and its size; the hash of a file is its version, so "the hash
belongs to the file" is an equation. `children` and `node` are the tree; the nodes are addresses, and a freed address
may be allocated again. `LookupChanges` is the whole walk over a directory, with the list it writes, the start of
sending and the request for a hash; it is called by `Refresh` and by `HandleRequest` (share sets `selected = 0`).
Sending a list has two steps, since main may rename the list file in between: `StartSend` opens it,
`FinishSend` completes it wherever it is by then and sends the list. `HandleResult` and `HandleRequest` are the two message loops.
`Restart` is a kill of the program at any moment and a start from the kept list.
`fault` is "freed" when the path of a freed node is taken, "assertion" when local_flist.c:326 aborts.
Saving may fail and then leaves the old list. `OpenFails` is a file that is there and cannot be opened by the hash process (tth.c:71), which answers without a hash, so that the file is asked for again;
`ReadFails` an error of read, which `tth_file` takes for a very long piece (tth.c:103): the hash process never answers (`Stuck`).

### RequestQueue and MsgQ

`RequestQueue` has a list of pending requests, of which the first is answered. `MsgQ` has bytes: a header that holds
the size, and a body. `Write` and `Read` move any number of them without blocking, `ChildRead` and `ChildWrite` any
number but wait for more; `Read` is limited by the room of the buffer, which doubles when it is full
(byteq.c:188). `Missing` is the two reads of `msgq_read_complete_msg`. A write of nothing and a read of nothing
are an end of file to the callers and stop the program, so `write_fds` must be cleared exactly when the queue is empty.

### Descriptors

`holds` is the set of descriptors of each process. A fork copies those of the parent; `UserConnectionNew` and `CmdShell` are the forks with the closings
that follow them, and `StartHolds` is what the init functions leave behind in the four workers. Nothing is closed on exec. `born` and `connected`
are history: the order of the forks and the sockets that were the hub's. Nothing in `cmd_shell` prevents a second shell beside the first.

### Dictionary, TreeMap and HashMap

`TreeMap` has nodes in memory, with parent pointers and the sentinel; one action is one call of tmap.c with all its
rotations. `HashMap` has the lists of the buckets, the growth at the threshold, and a `round`: an iteration in which the caller removes the entry it was just given and may
put the value back under another name, as the main loop does (main.c:1338-1349).
Both map to `Dictionary` by the set of their entries.

### Sockets

Descriptors are numbers and a new one gets the lowest that is free. `ready` is what `select` returned; the handlers of one turn are
the steps `at`, so that a readline command that replaces a socket comes between select and the handlers of the sockets.
`ListeningStopped`, `ListeningStarted`, `SearchReplaced`, `SearchUnbound` and `SearchLost` are what the halves of `set_active` (main.c:986-1120) make of
the sockets, as operators on a record of them (`Now`), because the second half starts from what the first one left. `Lowest` is the number that a new socket gets.
Its specification is named `SocketsSpec`, since `MCParts` takes its steps beside those of `Descriptors`; likewise `ScreenSpec` beside `PeerProtocol` in `MCClient`.

### Search, TextSearch, Ranges, Huffman, TigerTree

`Search` has the list of searches with their ages, and the results at addresses with their reference counts. `Fits` says which
result fits which search; how words are found in a name is `TextSearch`: splitting at `$`, the shift table, and the scan.
`TextSearch` is also what `InboundSearch` finds names with.
`Ranges` is the tokenizer and the recursive iteration of range.c with `removed_queued_by_range`, for 32-bit numbers in a small width.
`Huffman` has the tree as counts with the codes below; the bits of a code are kept in `Width` bits. `TigerTree` has the
stack of tigertree.c over a file that is read in pieces of any length; the hash function is taken to be injective.

### Screen

`place` is where main is: the script that is read at the start, the preparation of the screen, select, the handlers of signals and of
standard input, the other handlers, the end. `drawn` is the prompt that stands on the last line of the terminal, `handler` whether
readline's handler is installed, `watched` whether standard input is in `read_fds`. `Flag_putf` prints a message in each of the
five states of the screen; `ScreenSuspend`, `ScreenWakeup`, `ScreenPrepare`, `ScreenRedisplayPrompt`, `UserInput` and `ScreenFinish` are the functions of screen.c,
and `NextIteration` is the turn of the loop of main.c, which redisplays the prompt before every select. A shell is `CmdShell` (command.c), `ShellExit` and
`ReapShell`, the signal handler's message to main. `said`, `shown`, `clobbered` and `suspended` are history.

### Browsing

The path of a node is the node; a list is the set of its directories and of its files. `Child`, `Lookup`, `Expand` and `Complete` are `get_child_node`, `filelist_lookup`,
`remote_wildcard_expand` and the completion of fs.c over such a list, `ApplyCwd`, `CmdGet` and `CmdCd` what the commands make of the results. Each list has
its owner and, our own, a version; `our_filelist` and `browse_list` are two pointers to it, so that the first may be replaced while the second
refers to the old one (`NewFileList`). `pending_parses` is the queue of the parse process with the lists it has sent so far. `crashed` is the use of a list that was freed, or of a member that a node does not have.

### CommandLine

A line is a sequence of characters; the two that are not printed, newline and one above 127, stand with their byte. `QuoteWordFull`,
`DequoteWords` and the functions on words are quoting.c; `CommandExecute` and the expansion of aliases (with the history of those that are being expanded) are command.c; `CompletionWordStart`,
`FillCompletionInfo`, `DefaultCompletionSelector` and `CompletionReadline` are the way of a completion from the position of the cursor to the quoted text that replaces the word.

### FileLists

A list maps the path of every node to its type, size and hash. `FilelistToString` and `ParseLines` are the text form (fs.c, filelist-in.c), with the names of characters;
`WriteXmlFilelistDocument` and the callbacks are the XML form as a sequence of starts and ends of elements; `FilelistToData` and `DataToFilelist` carry a list from
the process that made it to main: the size of a directory is not sent, but summed up by the receiver.

### Completions

`Fnmatch` is the matcher of fnmatch_loop.c for the one flag the client sets; `Means` is what a pattern means, part by part, and the two are compared.
`SkipSlashes`, `HasWildcards` and `DircompToFnmatchStr` are the way of a component as it was typed, with the state of the quotes that is passed from one to the next (fs.c:1077-1150).
`LocalWildcardComplete` walks over a disk of directories, files and links; the generators for programs, users, connections and booleans are the others that
command.c, hub.c, main.c and variables.c install. `Inserted` is what screen.c puts in the place of the word, and `Read` what the command then gets.

### Variables and HubTexts

`CmdSet` is the set command with the setter of each variable; `Shown` is what it prints for one, `DisplayCompletion` what is offered for the displays.
A setter returns the settings as far as it has changed them, with or without an error. The texts that the hub is told are in `HubTexts`: `VarSetNick` and its neighbours decide what is
accepted and tell the hub; `EscapeMessage`, `CmdSay`, `CmdMsg`, `PrepareChatString`, `Public` and `Private` are both ways of chat. `HubInputAvailable` and
`Received` are the splitting of the stream at bars, for every way to cut it into reads. `DecodeLock` is the key for a lock, in bytes.

### InboundSearch

A search is a text from the moment it is made (`Selection`, `SearchMessage`) to the answer that the searching client takes apart (`ParseSearchResponse`), adds to its results (`MatchSelection`) and
follows to a file (`GetResult`, then `ResolveUploadFile` or `OpenUploadFileAdcget` at the other side, by name, by hash or by a part of it).
`HandleSearch` decides who is answered and how often. Names contain every character that separates something in one of these texts.

### Options, Messages, Strings

`Options` has the two parsers, the one of the commands (`NextToken`, `LookForToken`) and the getopt that main uses (`Getopt`, with the `Exchange` of arguments and options), and `Meant`, which says what was given.
`Messages` has the buffer that grows (`Byteq...`), the layout of arguments, addresses as data, and the two conversations with the update process, whose
sender and reader have to agree on the types of each message.
`Strings` has the buffers of strbuf.c cell by cell, so that what is copied from a wrong place, or beyond the end, is seen (`Garbage`, `Beyond`); the vectors of ptrv.c; numbers
modulo their width; and the lines and columns that ls and the transfer list print.

### Charsets

`Start` is main's calls at the start, `Set` the set command, `End` the end; `SetCharset` keeps the converters of every pair of sets that are used, and
`CharsetsSound` compares the ones that are open with the ones that are needed.

### MCParts and MCClient

The parts that share no state with another one are in one model: `part` is chosen at the start, the actions of that part take steps, and everything else stays
as it began. What has no state is evaluated for all small inputs in the initial states of one part: "algorithms" in `MCParts`. `MCClient` does the same
for what the user and the other clients meet: the parts "connection", "screen", "browsing" and "charsets" have steps, "paths", "lines" and "lists" are one state each, in which the modules without state are evaluated.


## 3. The runs

| Run | Instance | States | Shows |
|---|---|---|---|
| `upload_slots` | 2 connections, 2 users, 1 minislot, limit 0 or 1, pipe of 2 messages | 460 864 | accounts, charges, replies, refinement, liveness |
| `download_queue` | 2 connections to one user, one file and the list; texts of 5 characters and queues of 5 for unqueue | 377 064 | accounts, directions, the index, the files renamed, unqueue, liveness |
| `hub_session` | 2 host names, 1 address, 3 lookup records, 3 requests under way | 1 618 800 | lookups, socket, states, liveness |
| `user_conns` | 1 nick, 2 `DCUserInfo`, 3 connections, 1 search response | 1 930 880 | reference counts, `conn[]`, names, who is waited for |
| `client` | 2 processes, files of 0 to 2 units, 2 requests a side, positions modulo 4; 2 shells, 2 prompts, 3 messages; 2 users, 2 lists, 2 versions; 3 names of character sets; see the bounds | 490 813 | directions, data, waiting, end; the terminal; browsing; character sets; what is typed, searched, sent and read |
| `shared_files` (`SharedFiles` itself) | 2 files with 2 versions, 2 nodes, 1 change or failure, 2 commands, 1 restart | 741 598 | hashes, the queue of hashes, the served list, liveness |
| `parts` | see the bounds | 276 530 | descriptors, message queues, maps, sockets, searches, algorithms |
| `minislot_accounting`, `queued_valid`, `lookup_answers`, `input_is_taken`, `hash_is_found` | as the run of their module | | a statement of the source that does not hold |

### What holds

**upload_slots.** `SlotAccounting`: `used_ul_slots` is the number of holders in every
order of requests, ends, deaths and cancels. `OpenFileIsCharged`: an open file is
paid for; and (`SlotIsJustified`, proved) whoever holds a slot has the file open, has the end or the
permission in a pipe, or is dead. These depend on UPLOAD_ENDED being sent before
the next CHECK_UPLOAD. `ReplyOnlyOnRequest` is the rule of microdc.h:337.
`SlotsArePool`: the slots implement `SlotPool`, so a slot is taken only within
the limit or by a granted user, although limit and grants change at any time.
`UploadsGoOn`: slots come back (`ChargeEnds`), unless the peer keeps the alarm from ringing by sending without end what is
ignored (exception 39), and no process blocks for ever (`RequestAnswered`).
(`OneChargePerUpload`, `SlotIsJustified` and `MinislotsNotUndercounted` are proved, see below, and not run.)

**download_queue.** `DownloadsSound`: types; the slots that are counted are those of connections that receive; both sides agree on the
file under transfer. `OnePerDirection` (WANT_DOWNLOAD
and VALIDATE_DIR are separate requests, so two connections can both be told
that we want to download; only the second request decides). `QueuePosTracksTransfer`: through every `unqueue`, before, at or behind
the entry, `queue_pos` follows its entry, as long as nothing was prepended; and
even then there is an entry, so `ptrv_remove` never returns NULL.
`RenamedWasReceived`: a file gets its final name only in the step that handles the report that
this very file was received. `UnqueueRemovesNamed`: for every text the user may type and every queue, what is left is exactly the entries that
the text does not name, in order; a text that is not a list of ranges, or names an entry that is not there, changes nothing.
`DownloadsEnd`: transfers end, with the same exception, and every request is answered.

**hub_session.** `SessionSound`: types; `hub_lookup` points to a lookup of the list that was
not cancelled, and no other lookup will connect the hub; no socket is lost by overwriting it. `ResultsInOrder`: each
lookup has a result to come, and it is its own unless one was removed from the middle.
`SessionGoesOn`: a lookup of the hub ends, and the automatic reconnection is tried.

**user_conns.** `RefcountExact`: as long as no nick gets a second `DCUserInfo` and `browse` does not lose the hub, the count of
a user is the number of pointers to it, in every order of joins, quits, disconnects, requests to connect, browsing, searching,
and connections that come, are refused and die. `ConnsSound`: `conn[]` and `info` agree (`ConnsMatchInfos`), so the assertion of `user_disconnect` (main.c:482) holds. `KeysAreNames`: `user_conns` leads only to live
connections under the name that they have - even after two connections of one nick without a direction collided (below).
`SentIsAwaited`: whoever is in a SENT state, which keeps `hub_connect_user` from asking again, is in `pending_userinfo`, and whoever is
there has room for a connection, so the refusal of a pending user in `validate_nick` (main.c:206) is never reached.

**client.** `DirectionsDiffer`: unless main changed its answer between $Lock and $Direction, one of the two ends sends, and both do exactly when both
announced a download and drew the same number (exception 11). `DataIsData`: whatever is refused, resumed, empty or
abandoned, the receiver takes exactly the data for data and at the position it was sent from, unless the remote file is longer than the queue says;
`SendFindsFile`: the assertion of `upload_file` holds and a file is open when $Send is handled (both are parts of `ExchangeSound`). `NoMutualWait`: the two wait for each other
until the alarm only after such a tie, a changed answer or a grown file, and no byte is left in a send queue that nobody watches. `ConnectionEnds`.
`ScreenSound`: as long as no shell was run, whenever main waits for input the current prompt stands on the last line, readline is installed
and standard input is watched; no message is printed over a prompt and none is left out; at the end readline has given the terminal back. With shells, messages still come once and in order. `BrowsingSound`: the list that is browsed is that of the user who is named, whichever lists arrive in between and whomever the user turns to; the path leads to a
directory of it; the prompt tells both.
`ReadAsMeant`: what is read is what was meant.
A pattern matches the names that it means, also when it was typed with quotes (`FnmatchIsMeant`, `ComponentIsMeant`);
for every list, place and path with wildcards, each match leads back to its node when it is looked up by its name, `get` asks for files of the list
at the right place, and a completion is found by what it completes to (`ResultsAreFound`);
a search of another client, once its words, size and type are read, is answered with the files of the list that have them; from the text of a search to the files, this holds for the words of a search for anything, and
the other types are off by one (finding 5); whoever may be answered is answered and our own searches are not (`SearchesAreAnswered`, `SearchersAreAnswered`);
an answer is taken apart into the name, size, slots and hub that it was made of, whatever characters are in the name, and its file is found when it, or a part of it, is asked for (`AnswersAreRead`, `PartsAreOpened`);
options are those that were given, between and behind arguments and abbreviated (`OptionsAreRead`); messages between the processes are read as the arguments that were put (`MessagesSound`).
`TypedIsMeant`: every sequence of words that is quoted, in either style, and executed comes back as these words, also as two commands, except for the characters above 127 below (`LineRoundTrip`); a
completed word is the argument that the command gets, in the place where it was completed, also in and behind aliases (`CompletionFits`), and it names what was offered: a file, a program, a user, a connection or a value
(`PathsAreCompleted`, `ProgramsAreCompleted`, `NamesAreCompleted`). What "set" shows can be set again and gives the same value, a value that is refused changes nothing, and what is completed is accepted (`ShownCanBeSet`, `ErrorsChangeNothing`, `CompletedChanges`).
The stream of the hub is split into the same messages however it is cut, what one user says another one is shown, the settings that are accepted are read back from what the hub is told, and the key is the one of the
lock (`StreamIsWhole`, `SaidIsShown`, `SettingsAreRead`, `KeyIsOfLock`). After every setting the converters are those of the sets that are set (`CharsetsSound`). `ListsAgree`: a list is the same, with the
sizes of its directories, after it was written as text, as XML or as data and read again, elements that the client does not know make no difference to it, and every text that anybody wrote gives a list whose nodes lie in directories.

**shared_files.** `TthIsOfFile`: in the tree and in the kept list, a hash whose time is that of the file is the hash of that file,
also after a restart, unless the file changed while it was hashed. `HashQueueSound`: the assertion `hashing == h` holds, nobody waits
twice, and no freed node is in the queue unless a file was removed while it waited. `PublishedIsOurs`: when nothing is under way, the list file that other
clients are served is complete and is main's list, although main renames it while the update process may be writing it.
`FilesAreHashed`: in the end every shared file is in main's list with its hash, over restarts and also when it could once not be opened, unless the update process stopped, the hash process is stuck in a read that failed (exception 21), or
the file changed while it was hashed.

**parts.** `PipeEndsSound`, `EndsAreNoticed`: what keeps a process from seeing the end of its pipe is only held by processes that were forked later, so no circle of
processes waits for itself, and each end is noticed in the end. `AnswersInOrder`: bytes over pipes implement `RequestQueue`, with its liveness: no message is
cut, lost or taken twice, no buffer size blocks, and a running program is stopped only by the end of the child.
`MapsSound`: both maps implement `Dictionary` (`IsDictionary` of each), the tree stays linked, ordered and balanced (`TreeIsSound`), and a round over the connections meets
every one that stays, once, whatever is removed and renamed meanwhile (`RoundsAreSound`); the tree is gone through in the order of its keys. `SocketsSound`: what is watched is open, a handler reads the socket it is for, nothing leaks, and the announced port is
the bound one - with the exceptions below. `SearchesSound`: the reference counts of results are exact, a result is listed once by every search it fits and which was still open.
`CodesSound`: the matching with its skips finds a name exactly when it contains every word, whatever the case (`FoundIfContained`); decoding gives back what was encoded, and the
code is a shortest one (`RoundTrip`); the digest is the hash of the tree exactly when every read but the last ends with a block (`DigestIsTree`); a string buffer holds the text that its calls
describe (`StrbufHolds`), binary search finds what is there (`SearchFinds`), numbers are read within their width (`NumbersAreRead`), lines are cut at spaces and fit the terminal (`LinesFit`), paths are joined with one slash
(`PathsAreJoined`), vectors hold their elements (`VectorsHold`), a file is moved to where its directories have been made (`DirectoriesAreMade`), and every entry of a list is shown in the column of its kind (`ColumnsAreShown`).

### What does not hold

Five statements of the source have a run that shows them violated:

1. `MinislotAccounting` (main.c:468): a connection that goes away with a minislot
   never gives it back; after `minislot_count` of them there are none left.
   microdc.h:341 and user.c:676 say otherwise.
2. `QueuedValidMeansTransferred` (command.c:1153): `browse` prepends the list during
   a download without moving `queue_pos`; the end of the download then removes the list
   entry and treats the file as the list (microdc.h:343).
3. `AnswersOwnHost` (lookup.c:288): cancelling a lookup that is not the first removes it from
   the list, though its result will come: connect may get the address of another host, and the last
   result finds an empty list.
4. `InputIsTaken` (screen.c:612): main redisplays the prompt before every select (main.c:1299), also while a shell has the
   terminal, and `screen_redisplay_prompt` then forgets that the screen is suspended. When the shell ends, `screen_wakeup` does nothing
   (screen.c:354 says "Wake up screen after suspension."): no input is taken any more, and the messages that were held are lost.
5. `HashIsFound` (search.c:253): `parse_search_selection` stores the type of a search one too small. A search by hash is taken for one of directories and finds nothing (README.md:104 of the
   repository promises it), one for anything finds no directories, one for audio files finds anything.

The following are exceptions in the properties: each property states the exact condition under which the rest holds.

6. `$Get` that ends the previous upload without opening a file (user.c:1045) leaves SEND_GET, so `$Send` starts a transfer whose slot was given back
   and that has no file (microdc.h:126). Main takes the base name of this transfer, which has no name (main.c:638, :646), and stops.
7. A failed lookup (hub.c:300) leaves `DC_HUB_LOOKUP` although no lookup is under way (microdc.h:99); neither connect nor the reconnection goes on from there.
8. Two `DCUserInfo` for one nick ("returned"). $Hello makes one without asking whether there is one (hub.c:564): the count of the
   replaced one is never given back. After $Quit, a connection keeps the old one, and `user_info_new` (hub.c:214) copies the
   connection into the new one's `conn[]`, where it stays when the connection is freed (main.c:461 removes it from its own user only).
9. `browse` when the hub is lost by the request it sends ("cut off", command.c:1160): the user was freed by `hub_disconnect`, and `browse_user` points to it.
10. Two connections of one nick before either has a direction (main.c:166): the second replaces the first in `user_conns`, although
    microdc.h:329 calls the name the key. The first is never served again and its process waits for its alarm.
11. A tie of the directions (user.c:979 asks "XXX: what if they are equal?" of it): both send, both wait for $Get, until the alarm. `rand` is not seeded (user.c:1472), so this is the normal outcome
    for two clients with the same C library that both want to download; neither of them gets its file over this connection.
12. A remote file that has grown: $FileLength may exceed the known size, the data in excess is read as commands.
13. A file that changes while it is hashed (local_flist.c:296): its time is renewed, but it waits already, so the old hash is stored under the new time and
    kept for ever; a file that is gone gets the text "FAILED" for a hash (hash.c:82) until it is looked at again.
14. A file that is removed, or unshared, while it waits (local_flist.c:262, :653): the queue keeps the freed node. `hash_request` uses it, or a new node gets its address and `assert(false)` (local_flist.c:326) ends the
    update process; main reads the end of file and stops.
15. Results that wait to be sent (main.c:976): when the socket would block, `search_now_writable` returns after it has taken the socket out of `write_fds`, although the list is not empty; the rest waits for the next search. The comment at
    main.c:969 promises the opposite.
16. A `set active` that fails (main.c:1104, variables.c:163) leaves `is_active` true without a listening socket.
17. `unsearch` with several indexes (command.c:1887) removes each search before it reads the next index, so it removes others than the named ones, unless they are given from last to first.
18. `cancel` of a process (main.c:532) relies on the process seeing the end of its pipe: it does not while a process that was forked later lives.
19. `hub_disconnect` (hub.c:381) closes the socket without a shutdown: the hub sees no end of the connection while a process that was forked during it lives.
20. A number that is followed by another character than `-` or `,` is taken and the character is dropped (range.c:128), although range.c:28 calls that a syntax error.
21. The tree hash of a file that is read in pieces (tth.c:103): a read that ends inside a block loses the block in progress. The result of read is kept in an unsigned number: after an error the loop goes on for ever,
    and no other file gets its hash.
22. A character above 127 between double quotes is printed with its sign (quoting.c:89): the eleven digits are read back as another text. Outside of quotes it survives.
23. Lines: the name of an alias directly in front of `;` swallows the text up to the next whitespace (command.c:505); an alias that is typed with quotes, an escape
    or spaces in front shifts the positions of the completion (command.c:377); `#` directly behind `;` begins a comment for the execution, but not for the completion; the arguments of commands with wildcards are dequoted a second time.
24. A path that goes on behind the name of a file reads the children of the file (fs.c:186), which has none; `.*` is completed to the directory itself and its parent; the files of `get ../x` are put at a place that
    is cut off by the length of a base path that is no prefix (fs.c:917, microdc.h:304).
25. `browse` removes only the old list in one of its formats, three times (command.c:1131): with a `.files.xml` left over from before it asks for the parsing of a list that is not there. The prompt keeps the old own nick after `set nick`.
26. `shell` and `exit` in one line lose the messages that were held; a `fork` that fails leaves the screen suspended.
27. Names with `|` or CR do not survive the text form of a list; an XML element without a name is not entered but is left, and what follows it belongs to the directory above.
28. `our_filelist` (local_flist.c:813) is freed when a new list arrives while `browse_list` points to it; command.c:1080 relies on it being "always available".
29. Numbers and buffers: the unsigned parser takes the empty text for 0; `word_wrap` does not end for a width of 0, which a help text gets in a terminal of 9 columns (command.c:696); `ptrv_insort` puts an equal
    element in front, though its comment calls it stable (ptrv.c:160). Wrong but not used: `strbuf_repeat`, `strbuf_reverse_substring`, `byteq_new(0)` (byteq.c:50), units behind the last one.
30. Settings: an address that is not one is refused, but what `inet_aton` left is used (variables.c:641, :685); signs and names of displays mixed give an error and are applied; a display flag without a sign is
    completed to nothing (variables.c:976); a sort order takes any name; a log file is closed before the next one is known to open.
31. A nick with `>` shifts the text of its chat (hub.c:438). The own nick may be offered twice (hub.c:166).
32. Searches: `search " "` frees patterns that were not set (search.c:659); the condition on the size is always "at least" (search.c:240).
33. Options: `ls --long` is announced (command.c:238) but unknown (command.c:1320), `ls -t` also gives the long form; an exact long name is ambiguous when a longer one begins with it; the error of an option uses a
    string that was freed (optparser.c:264).
34. Patterns: an escaped `*` or `?` is a wildcard and a plain one next to it may not be (fs.c:1135); brackets and backslashes in quotes work as patterns as soon as there is a wildcard; an escaped slash stays in its
    component (fs.c:1098); an escaped `]` ends brackets (fnmatch_loop.c:245), and a bracket behind stars does not match a period (fnmatch_loop.c:165).
35. Completion: the quotes of one directory behind a wildcard are taken for those of the next (fs.c:1398); a slash behind a wildcard offers files (fs.c:1422); a link to a program is not completed
    (fs.c:1213, microdc.h:48); a program in two directories of PATH is not closed; the common beginning may cut an octal escape; `fixup_wildcard` (fs.c:1485) may read behind the end for `a/.*`;
    command.c:541 says "[1] Allow completion of dirs relative to CWD always", but the directories are only looked for when no program matches (command.c:615-619), which is what the comment says of
    bash; `ProgramsAreCompleted` is about [2], [3] and the programs, and leaves [1] open.
36. $ADCGET: an unknown type is answered with $Error and then handled as a file (user.c:736); a name that ends in a backslash is misread (user.c:1152), and the loop reads behind the end (user.c:764); a negative
    count other than -1 wraps.
37. Messages: an empty name in a request of an update reads the byte in front of it (local_flist.c:622), "/" becomes an empty one; the refresh interval is sent in the width of int; when no list file can
    be opened, the tree is freed and then used (fs.c:720, local_flist.c:415); an error text lacks its argument (local_flist.c:664).
38. Display: `unalias` warns about its own name (command.c:1957); the columns of ls and of the transfers are measured before names are quoted (fs.c:430, command.c:1705).
39. A peer that keeps sending what is ignored, an empty or an unknown command every three minutes (user.c:1200, :1236), keeps its connection and with it the slot: no time limits a connection as a whole.

### Bounds

* Two connections: every property relates a connection to the counters, or two connections to
  each other, and a third meets the same guards. To one user there are never more than two
  (`DC_USER_MAX_CONN`), so the instance of `DownloadQueue` is complete in this respect.
* `MaxSlots = 1`, `MiniCount = 1`: with two connections the pools are empty, exhausted,
  lowered below their use, and passed by a grant.
* `PipeMax = 2`: enough for the two messages one handler puts; a fuller pipe only makes the process wait.
* One file and the list: queues of 0 to 2 entries, so an entry before, at and behind
  `queue_pos` is removed and prepended. Longer queues are covered by
  `UnqueueRemovesNamed` (`MaxQueue` = 5, `MaxText` = 5: two ranges, or a range and a number).
* One nick in `UserConns`: all its structures are kept by nick, and two nicks share only `is_active` and the state of the hub. Two
  `DCUserInfo` (a predecessor and its successor) and three connections, one more than `DC_USER_MAX_CONN`. The third connection that `user_info_new` writes behind
  `conn[]` (hub.c:225) needs the connections of two predecessors and is not reached here.
* `PeerProtocol`: files of 0, 1 and 2 units with a block of 2, so a transfer takes one or several writes and may be resumed at the start, in the middle
  and at the end; two files a side, so that one request follows another's refusal, end or abandonment; `Width` = 4 makes
  `Unknown` + 1 wrap. Two numbers give less, equal and greater.
* `SharedFiles`: two files make a queue with a second place; one change or failure to open or read, one restart and two commands are the events
  between which the update process runs to any point. With more changes the state space exceeds what a run can hold; a change may go from any version to any other, so it
  includes removal and appearance.
* `MsgQ`: a header of 2 bytes can be cut; a pipe of 3 bytes is smaller than a message and larger than a header; a buffer of 2 must grow. Three requests: one handled, one under way, one being written.
* `TreeMap`: 6 keys give every case of the rebalancing on both sides. `HashMap`: 3 keys in 3 buckets, which grow to 7, under every way to spread or gather the keys.
* `Sockets`: three descriptors, two ports, two results to send. `Search`: three searches of which two share results, results at five addresses.
* `Descriptors`: two connections, one shell and one hub connection, with the four workers.
* `TextSearch`: queries and names of 4 characters over two letters, one of them in both cases. `Huffman`: 6 characters of 4 kinds, so codes of 3 bits, of which `Width` = 2 keeps two. `TigerTree`:
  blocks of 2 bytes, buffers of 3 blocks and files of 14 bytes, in reads of every length.
* `Screen`: two shells, so that one is started behind the other; three messages: printed before, during and after one; two commands on a line. `Browsing`: a list with a directory and one without, two users, two versions of our own
  list and two pending parses, so that a list arrives for a user who is not browsed any more; for the algorithms a tree with names of which one begins with another, a hidden one and a directory in a directory, and paths of three components.
* `CommandLine`: words of 2 and lines of 5 characters over letters, digits and every character with a meaning; aliases with one and two words, a quoted one, and two commands. `FileLists`: names of 2
  characters, texts of 6 over all the separators, lists with a directory in a directory.
* `Completions`: patterns of three parts out of every kind, or of four characters in brackets; components of four characters; two disks with a directory in a directory, a link, and names that need quotes; words of three
  characters over letters, wildcards, quotes, escapes and slashes; seven nicks, with every character that has a meaning in front.
* `HubTexts`: texts of two characters over the separators and the words of the protocol, the settings at their limit of two and above; streams of up to 6 characters, cut at any two places.
* `InboundSearch`: six files and directories in two orders, two without a hash, one with the name of a list; seven queries; limits of 1, 2 and 6 answers. Clients with equal and different nicks, addresses and ports.
* `Options`: three options, whose names are prefixes of each other, and lines of three words of sixteen kinds. `Messages`: three calls, bytes, arguments and messages. `Strings`: texts of three characters, numbers of eight bits at
  both ends, and files whose sizes have one to three digits.
* Three lookup records and requests: the shortest sequences in which a lookup is cancelled
  between two others, with one more to come.

### Fairness, and why the code justifies it

* The main process: `WF(MainStep(c))`, result reading. `select` returns every readable
  pipe and the loop serves all of them.
* User processes: weak fairness of going on with an answer (`ReceiveReply`; nothing else is awaited then), and of `Silence` and `Alarm`: time passes, so a process
  either gets something to do or was silent for `USER_CONN_IDLE_TIMEOUT` seconds, and then its alarm rings (user.c:1329). Errors (`Terminate`, `FailUpload`) and progress
  (`FinishUpload`, `FinishFile`) are not fair: a peer may stop in the middle of a transfer. `ReceiveIgnored` is always possible, so nothing follows for a peer that never stops sending: this is
  the premise of `ChargeEnds` and of its counterpart in `DownloadQueue`.
* Nothing is assumed of remote users, of our own commands, nor of `NoticeDisconnect`: a
  sibling may hold the other end of the pipe, so a dropped process may block for ever.
* HubSession: the lookup child answers (getaddrinfo has time limits), `check_hub_activity` runs
  every second, time passes. Nothing is assumed of the hub.

* PeerProtocol: a process goes on with what it can do (`Step`), and the alarm rings. `Terminate` is not fair: no error has to happen.
* SharedFiles: each of the three processes runs: the hash process (`Hash`), main when its pipe has a list (`NewFileList`), and the update process (`UpdateStep`), which completes what it sends, handles
  what it is sent, and refreshes again and again (`filelist_refresh_timeout`); which of these it does next is not fair. Files, failures, commands and restarts are free, and bounded.
* MsgQ: main serves a pipe that is ready, the child runs; that it dies is possible and not fair.
* Descriptors: a process that can see the end of its pipe sees it, main reads the end of a result pipe, and quits when a worker is gone. `UserConns` states safety only: nothing in it has to happen.

Deadlock is not checked where the system may stop: `HubSession` (`crashed`), `UserConns` (a state in which memory
is not sound), `MCClient` (both processes ended, the program at its end, or a part without steps), `SharedFiles` (the update process stopped, all bounds used) and `MCParts` (the program stopped, all requests answered, or a part without steps).


## 4. The proofs

`UploadSlotsProofs` proves for any finite set of connections, any set of users, and any number of
slots, minislots and messages in a pipe (`ConstantsAssumption` is all that is assumed):

| Theorem | Establishes |
|---|---|
| `InvHolds` | the inductive invariant |
| `TypesHold` | `TypeOK`: among others, no counter goes below zero or above its bound |
| `SlotsAreCounted` | `SlotAccounting`, `MinislotsNotUndercounted` |
| `ChargesMatchFiles` | `OneChargePerUpload`, `OpenFileIsCharged`, `SlotIsJustified` |
| `RepliesAnswerRequests` | `ReplyOnlyOnRequest` |
| `SlotsImplementPool` | `SlotsArePool`: `UploadSlots` implements `SlotPool` |

None of the properties is inductive alone. That a slot is not taken twice needs to know that a
connection that holds one has no CHECK_UPLOAD before the UPLOAD_ENDED in
its pipe, which in turn needs that a process with an open file is in a state in which it reports the end
before it asks again, and that an answer is under way only for a process that
waits for it. `Inv` is therefore `TypeOK`, the two counts and, per connection, `ConnInv`:

* `ProcessInv`: what the state of the process says of its file and of what it waits for;
* `PipesInv`: what a pipe can contain, and in which order;
* `ReplyInv`, `RequestInv`: a waiting process has one request or one reply under way, an idle one none;
* `ChargeInv`: what is open is charged once, what is charged has a reason.

The argument has three layers. Lemmas about messages in a sequence (`HasConcat`, `HasTail`). For
the process side, each action is shown to be an instance of `UserEffect`, what a step adds
to the pipe and to which state it leads; `UserDiscipline` says which effects are legal, and `UserMove`
preserves `ConnInv` for all of them at once. For the main process, `MainStepInv` treats each handler; the counts
follow from `EndedAccounts` and `ChargedAccounts`, one on giving back and one on taking a slot,
with the cardinality facts of the library. `PoolStep` maps every step to `Acquire`, `Release` or a
stutter of `SlotPool`.

`SharedFilesProofs` proves for any finite set of files, any set of addresses that has room for them, and
any bounds (`SharedFilesAssumption`; `ListingAssumption` says that the marks "no list" and "being written" are not lists):

| Theorem | Establishes |
|---|---|
| `TypesHold` | `TypeOK`: among others, each file of the tree has a node of its own, and an unshared directory has none |
| `QueueIsSound` | `HashQueueSound`: the queue holds nodes of the tree, each once, and the one that is hashed is the first, unless a file was removed while it waited |
| `PublishedHolds` | `PublishedIsOurs`: the list file that is served is the list that main has |
| `HashesAreOfFiles` | `TthIsOfFile`: a hash is that of the listed version of its file |

`Inv` adds to the types and the queue what is known of the list files at every moment (`PublishedInv`): while a list is sent,
exactly one of the two files is being written, namely the served one if main has renamed it meanwhile; otherwise both are
complete, and the last list that was sent (`LastList`) is in the new file or, if that was renamed, is served.
`HashedInv` ties the tree to the disk: a node that has a hash has that of its time; the file that is hashed has on disk the
version of its node, and an answer that is there belongs to it (`HashingInv`), each unless the file was disturbed. That
a renewed node is never the one that is hashed, and a new node never one that waits, comes from the queue, which is why
`NextHashed` needs `Inv`. The walk over the directory is treated once: `LookupChangesInv` shows that it keeps `Inv` and has `TreeEffect`, which says
of every file of the new tree where its entry comes from, and `TreeEffectHashed` uses nothing else of it.

`DescriptorsProofs` proves for any finite sets of connections, shells and connections to hubs (`DescriptorsAssumption`):

| Theorem | Establishes |
|---|---|
| `InvHolds` | the inductive invariant |
| `TypesHold` | `TypeOK` |
| `NoCircleOfPipes` | `HeldByLater`: the writing end of a process's pipe is held, beside by its parent, only by processes that were forked later |
| `ExitsAreSeen` | `ExitIsSeen`: when a user process ends, main and the peer see it |
| `PipeEndsHold` | `PipeEndsSound`, the three together |

`HeldByLater` is an order on the forks, so `Inv` has the numbering of the forks (`BornInv`: it is bounded by the number of the processes that were started, hence a new process is the last),
that pipes exist from the fork of their process on (`PipesInv`), and that what a connection writes to is its own (`OwnInv`). The two forks are treated by `ForkedBorn`, everything that only
closes by `CloseInv`.

It also proves for any descriptors and ports of `Sockets` (`SocketsAssumed`):

| Theorem | Establishes |
|---|---|
| `SocketsInvHolds` | the inductive invariant |
| `SocketsAreSound` | `SocketsSound`: what select watches are the two sockets, until one cannot be made; the announced port is theirs; results that wait are watched for |

`SocketsInv` says that the sockets are open, different, and not descriptor 0 (`Kept`); that until a search socket could not be made its number is 1, and nothing else is watched (`First`); that it is bound to the announced port
unless that failed (`Heard`); and what is known between select and the handlers (`Found`). The bits of a closed socket are never cleared, and this is harmless for one reason, which is `LowestIsFirst`: the old
search socket is closed before the new one is opened, all numbers below are taken, so the new one gets the same number. Each half of `set_active` is shown to keep the parts, so that a switch that fails half-way needs no case of its own.

`HubSessionProofs` proves for any hosts and addresses that differ and any finite set of lookup records (`HubAssumption`, `LookupAssumption`):

| Theorem | Establishes |
|---|---|
| `InvHolds` | the inductive invariant |
| `SessionIsSound` | `SessionSound`: `hub_lookup` is a lookup of the list, and the only one that connects the hub; there is a socket in the states that use one |
| `ConnectionIsKept` | `NoSocketLost`, `ResultIsExpected`, as action properties: no connection is overwritten, or made by a result that nobody waits for |
| `LookupsInOrder` | `ResultsInOrder`: every lookup has a result to come, and it is its own unless one was removed from the middle |
| `AnswersMatch` | as many lookups as results to come, then each callback gets the answer to its own host: the exact condition under which `AnswersOwnHost`, which fails, holds |

`Inv` is `TypeOK`, `ListSound(pending, hub_lookup)` (each record is in the list once, and the one that will connect the hub is `hub_lookup`), and what the state says of the socket
(`SocketMatchesState`) and of the lookup (`LookupMatchesState`: one only in LOOKUP). Distinct records are needed because cancelling removes the first record that is found. `Disconnect` is shown to keep all of it from whatever values
its caller has, so every failing handler is one citation. `ResultsInOrder` is proved on top of `Inv`: appending a request, answering it and taking the first result each move all hosts by the same number of places.

`DownloadQueueProofs` proves for any finite set of connections, any set of files and any bounds (`ConstantsAssumption`):

| Theorem | Establishes |
|---|---|
| `InvHolds` | the inductive invariant |
| `CompactProperties` | what `compact_queue_ptrv` leaves: the entries that were not marked, in their order |
| `TransfersAgree` | `DownloadsSound`: the slots that are counted are those that are used, and both processes mean the same file |
| `DirectionsAreTaken` | `OnePerDirection` |
| `EntryIsTracked` | `QueuePosTracksTransfer` |
| `OnlyReceivedIsRenamed` | `RenamedWasReceived`, an action property |

`Inv` has the types, `used_dl_slots` as the cardinality of the connections that occupy one, `OnePerDirection`, `QueueSound`, and `ConnSound` for each connection: which messages its pipe may hold, in which order, for each
state of the process and each thing that main knows of it. None of the properties survives without it: that DOWNLOAD_ENDED gives back one slot and takes out the right entry depends on the report of one download being
handled before the next question is asked. `CompactProperties` is an induction over the places of the queue: the loop moves an entry only to a place that it has already left, so it is
never shifted onto one that is still to be read. From it follows that `queue_pos`, corrected by the number of marked entries before it, names the same entry.

`UserConnsProofs` proves for any finite set of connections, any nicks and any addresses of users (`UserConnsAssumption`; `NameAssumption` says that a nick's key is never the "unknown" name of a connection):

| Theorem | Establishes |
|---|---|
| `InvHolds` | the inductive invariant |
| `NamesAreRight` | `KeysAreNames`: `user_conns` leads to live connections under their own names |
| `CountsAreExact` | `RefcountExact` |
| `AskedAreAwaited` | `SentIsAwaited` |
| `ConnsAreSound` | `ConnsSound`: types, `conn[]` against `info` |

`Inv` has the types, finiteness and `KeysAreNames` always, `ConnsListed` while memory is sound, `Tidy` while no user returned, and exact counts and `Awaited` while `past` is empty. The number of pointers to a
user is a sum over the five tables (`Pointers`, `Held`, `Joined`), and a handler changes each summand by what it does to that table; the functions that handlers have in common (`Connect`, `Disconnected`, `Release`) are treated once, as operators on values,
for all their outcomes. `Awaited` needs that a nick has one user at most, because `pending_userinfo` is kept by nick while the states are kept in the users. The proof is for any number of nicks; the run has one.

`PeerProtocolProofs` proves for two processes, any files, any sizes and block, any random numbers (`PeerAssumption`):

| Theorem | Establishes |
|---|---|
| `InvHolds` | the inductive invariant |
| `ExchangeIsSound` | `ExchangeSound`: data is read as data and at its position (`DataIsData`), a file is open when $Send is handled (`SendFindsFile`) |
| `DirectionsDifferHold` | `DirectionsDiffer`: one of two ends that kept their word sends, and both do exactly after a tie of two that want to download |
| `NobodyWaits` | `NoMutualWait`: two ends that run wait for each other only after a tie, a changed answer or a grown file |

A process may die at any moment with its messages half sent, so `Inv` has a part per process (`Local`: what its state says of its queue, of its watched descriptors and of what it is asking its main process), what was announced and chosen, and a part for the pair.
Of two processes that run, either the handshake is under way, and everything between them is a suffix of the one script that the sender follows (`Linked`), or they have opposite directions and are in one situation of the exchange: a request, a
refusal, a length, the permission, the data or what is left of it is on the way (`Waits`, `Receives`), or the file had grown (`Flooded`). Of a process whose peer is gone, what is still to be read is legal for its state (`Legal`).
`NobodyWaits` is then a case analysis: in every situation something is on the way to somebody who reads.

`ScreenProofs` proves for any prompts and shells and any numbers of messages and commands (`ScreenAssumption`):

| Theorem | Establishes |
|---|---|
| `InvHolds` | the inductive invariant |
| `ScreenIsSound` | `ScreenSound`: until a shell is run, the prompt stands and input is taken whenever main waits, and nothing is lost; with shells, messages still come in order and once |

`Inv` has what each state of the screen says of readline, the prompt and the watched input, and which states are possible at each place of main (`Matched`), as long as nothing was suspended (`Unsuspended`); and, always,
that the messages shown are in order and those kept while the screen is suspended follow them (`Ordered`). The latter needs the state of the screen: what is left in `suspend_msgs` when a
redisplay forgets the suspension (exception 4) would come too late if it were printed; it never is, for the next suspension throws it away.

Only model-checked:

* liveness (fairness and ENABLED are beyond the prover): `UploadsGoOn`, `DownloadsEnd`, `SessionGoesOn`, `ConnectionEnds`, `FilesAreHashed`, `EndsAreNoticed`, and that part of `AnswersInOrder`;
* `UnqueueRemovesNamed`: its compaction is `CompactProperties`, the text that the user types is read by a recursive iteration;
* `MapsSound`, `AnswersInOrder`, `SearchesSound`, `BrowsingSound` and the properties that are evaluated for all small inputs (`ReadAsMeant`, `TypedIsMeant`, `ListsAgree`, `CodesSound`). Their modules describe algorithms by RECURSIVE operators,
  which the SMT backend does not take: `TreeMap`, `TextSearch`, `Search`, `Ranges`, `Huffman`, `TigerTree`, `Browsing`, `CommandLine`, `FileLists`, `HubTexts`, `Strings`, `InboundSearch`, `Options`, `Completions`, `Messages` (`HubTexts` also uses `Bitwise`).
  `MsgQ`, `HashMap` and `Charsets` have none, and no theorem so far.

What is recursive in a module with theorems is written as a recursive function, and what it computes is proved by induction over a set of numbers (`SetInduction` in `DownloadQueueProofs`).


## 5. What is left out

* Abstracted in the modelled components: names and sizes of files (a choice of the outcomes of
  `resolve_upload_file` and of opening a file), the display, and what a process does after its connection was
  dropped, except that it goes on and ends: nobody reads its pipe, so an answer it may still find is left out.
* `delete_files`, read only at exit. The status `DC_QS_DONE`: an entry leaves the queue in the call that sets it.
* Pipe ends that children inherit over `fork` (main.c:532) are in `Descriptors`; the other modules take a dropped connection for gone in the main process, and let its process live on.
* The use of a freed connection within one turn of the main loop (main.c:1344): below the grain of `UserConns`.
* A share request that does not fit into the pipe at once (local_flist.c:936): it is sent with the next one.
* Subdirectories and several shared directories in `SharedFiles`: more of the same walk, with one queue of hashes.
* A local file that is longer than the file to be downloaded is covered by `PeerProtocol` (the size left wraps around, and the alarm ends it).
* The fields of a user that are only displayed, the wording of messages, base 32, and the displays as such: their columns are in `Strings`.
* Of patterns, character classes and collating symbols; of $UGetBlock, the parsing of its numbers. $ADCGET is not in `PeerProtocol` but in `InboundSearch` (what is opened) and `UploadSlots` (what it costs).
* Walks over directories of the disk in `SharedFiles`. Compression (bzip2) and the parser of XML are libraries; vendored code: bzip2, tiger, and gnulib (`lib/`).

The repository counts 45 000 lines, of which 19 000 are the client; the rest is vendored. Of the client, what remains is for
the most part formatting.


## 6. What could come next

1. The state of `Browsing` apart from its recursive paths, and `BrowsingSound` as a theorem about it.
2. The safety part of the refinement of `MsgQ`: it needs a lemma on the bytes of a sequence of messages.
3. `UserConns` model-checked with two nicks and the third connection, if the instance can be made small enough; the theorems cover any number already.
4. A step for the walk over a directory of the disk in several parts, with files that change in between.
