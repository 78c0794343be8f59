------------------------------ MODULE MCParts ------------------------------
(***************************************************************************)
(* The parts of the client that share no state, in one model: a behaviour  *)
(* takes the steps of one of them, which it chooses at the start, while    *)
(* the others stay as they begin.  What has no state, the algorithms on    *)
(* texts, hashes and codes, is evaluated for all small inputs.             *)
(***************************************************************************)
EXTENDS Descriptors, Sockets, Sequences, TLC

CONSTANTS c1, c2, s1, h1, Nil, Freed

MCConn == {c1, c2}
MCShell == {s1}
MCHub == {h1}

(* The search socket, the listening one, and another that may have its     *)
(* number.                                                                 *)
MCFd == 0..2
MCPort == {1, 2}

VARIABLES
    part,         \* the part that takes steps
    tree, tree_size, tree_reply,                                    \* TreeMap
    hash, buckets, size, threshold, reply, round, due, met,         \* HashMap
    request_mq, write_fds, result_mq, result_max, pending, answered, handling, main_runs,
    asked, request_pipe, result_pipe, child_request_mq, child_result_mq, alive,    \* MsgQ
    our_searches, response                                          \* Search

tree_vars == <<tree, tree_size, tree_reply>>
hash_vars == <<hash, buckets, size, threshold, reply, round, due, met>>
queue_vars == <<request_mq, write_fds, result_mq, result_max, pending, answered, handling,
                main_runs, asked, request_pipe, result_pipe, child_request_mq,
                child_result_mq, alive>>
search_vars == <<our_searches, response>>

-----------------------------------------------------------------------------
(* The instances *)

T == INSTANCE TreeMap WITH
         Key <- 1..6, Value <- {"a", "b"},
         size <- tree_size, reply <- tree_reply

(* Three keys in a table of 3 buckets, which grows to 7; hash functions    *)
(* that put the keys into one chain, into different ones, and into chains  *)
(* that the growth separates.                                              *)
HKey == {"a", "b", "c"}
Hashes == {f \in [HKey -> {0, 1, 4}] : f["a"] <= f["b"] /\ f["b"] <= f["c"]}

H == INSTANCE HashMap WITH Key <- HKey, Value <- {"v", "w"}, Hashes <- Hashes, Capacity <- 3

(* Messages with and without a rest, a pipe that holds less than one       *)
(* message, and queues that have to grow.                                  *)
Q == INSTANCE MsgQ WITH
         MaxRequests <- 3, Sizes <- {0, 1, 4}, HeaderSize <- 2, PipeMax <- 3, ByteqSize <- 2,
         running <- main_runs

(* Three searches, of which two fit a result in common.                    *)
R == INSTANCE Search WITH
         Selection <- {"any", "some", "other"}, Answer <- {"x", "y"},
         Fits <- {<<"any", "x">>, <<"any", "y">>, <<"some", "x">>, <<"other", "y">>},
         Address <- 1..5, Threshold <- 2, MaxSearches <- 3

W == INSTANCE TextSearch WITH
         Letter <- {"a", "A", "b"}, Lower <- [l \in {"a", "A", "b"} |-> IF l = "A" THEN "a" ELSE l],
         Dollar <- "$", Nul <- "0", MaxQuery <- 4, MaxName <- 4

(* Codes of up to three bits, of which two are kept.                       *)
C == INSTANCE Huffman WITH Char <- 1..4, MaxData <- 6, Width <- 2, Byte <- 4

(* Blocks of two bytes, buffers of three blocks, files of seven blocks.    *)
G == INSTANCE TigerTree WITH Block <- 2, Buffer <- 3, MaxSize <- 14

(* Strings of up to three characters, numbers of eight bits, and files and *)
(* directories (0) whose sizes have different numbers of digits.           *)
SharedNode(t, n, s) == [type |-> t, name |-> n, size |-> s]

B == INSTANCE Strings WITH
         Letter <- {"a", "b"}, Limit <- 255, TextMax <- 3, SizeMax <- 3,
         Rank <- ("a" :> 1 @@ "A" :> 1 @@ "b" :> 2),
         Node <- {SharedNode(0, <<"b">>, 0), SharedNode(0, <<"A">>, 12),
                  SharedNode(1, <<"a">>, 10), SharedNode(1, <<"a", "b">>, 9),
                  SharedNode(1, <<"A", "b">>, 0), SharedNode(1, <<"b", "b", "b">>, 100)}

-----------------------------------------------------------------------------

PartsInit ==
    /\ part \in {"descriptors", "tree map", "hash map", "queues", "sockets", "searches", "algorithms"}
    /\ Init /\ T!Init /\ H!Init /\ Q!Init /\ SocketsInit /\ R!Init
    /\ part # "hash map" => hash = [k \in HKey |-> 0]

PartsNext ==
    \/ part = "descriptors" /\ Next
       /\ UNCHANGED <<part, tree_vars, hash_vars, queue_vars, sockets_vars, search_vars>>
    \/ part = "tree map" /\ T!Next
       /\ UNCHANGED <<part, vars, hash_vars, queue_vars, sockets_vars, search_vars>>
    \/ part = "hash map" /\ H!Next
       /\ UNCHANGED <<part, vars, tree_vars, queue_vars, sockets_vars, search_vars>>
    \/ part = "queues" /\ Q!Next
       /\ UNCHANGED <<part, vars, tree_vars, hash_vars, sockets_vars, search_vars>>
    \/ part = "sockets" /\ SocketsNext
       /\ UNCHANGED <<part, vars, tree_vars, hash_vars, queue_vars, search_vars>>
    \/ part = "searches" /\ R!Next
       /\ UNCHANGED <<part, vars, tree_vars, hash_vars, queue_vars, sockets_vars>>

PartsSpec ==
    /\ PartsInit
    /\ [][PartsNext]_<<part, vars, tree_vars, hash_vars, queue_vars, sockets_vars, search_vars>>
    /\ Fairness /\ Q!Fairness

-----------------------------------------------------------------------------
(* Properties *)

(* The answers of a child process come in the order of the requests (MsgQ: *)
(* msgq.c over byteq.c implements RequestQueue).                           *)
AnswersInOrder == Q!AnswersInOrder

(* Both maps are dictionaries (tmap.c and hmap.c implement Dictionary).    *)
(* The tree stays a linked and balanced red-black tree, and is iterated in *)
(* the order of its keys (tmap.c); a round over the connections meets      *)
(* every one that stays, while others are removed and renamed (main.c:1338,*)
(* hmap.c).                                                                *)
MapsSound == T!IsDictionary /\ H!IsDictionary /\ []T!TreeIsSound /\ H!RoundsAreSound

(* The results of our searches are counted, not shown twice, and go with   *)
(* the search that is named (search.c:640-790).                            *)
SearchesSound == R!SearchesSound

(* A search finds the names that have all its words (search.c:140-294);   *)
(* decoding gives back what was encoded (huffman.c); the hash of a file is *)
(* that of the tree over its blocks (tth.c); strings, numbers, vectors and *)
(* lines hold what they should (common, util.c); a file is moved to where  *)
(* its directories have been made (util.c); and lists are shown in columns *)
(* in which every entry is found (fs.c, command.c).                        *)
CodesSound ==
    part = "algorithms" =>
        /\ W!FoundIfContained /\ C!RoundTrip /\ G!DigestIsTree
        /\ B!StrbufHolds /\ B!SearchFinds /\ B!NumbersAreRead /\ B!LinesFit /\ B!PathsAreJoined
        /\ B!VectorsHold /\ B!DirectoriesAreMade /\ B!ColumnsAreShown
=============================================================================
