-------------------------- MODULE MCDownloadQueue --------------------------
(***************************************************************************)
(* Two connections to one user, one file that can be queued, and the file  *)
(* list.  For unqueue: queues of up to MaxQueue entries, texts of up to    *)
(* MaxText characters, three digits and numbers of four bits.              *)
(***************************************************************************)
EXTENDS DownloadQueue
CONSTANTS c1, c2, f1, MaxQueue, MaxText

MCConn == {c1, c2}
MCFile == {f1}

R == INSTANCE Ranges WITH Digit <- <<"0", "1", "2">>, Width <- 16

(* unqueue removes the entries that the user named and keeps the others in *)
(* their order: the text is understood as the grammar in range.c says, it  *)
(* reaches nothing outside the queue, and the compaction is a filter       *)
(* (command.c:1500), for queues of any length and gaps of any shape.  It   *)
(* is no matter of the connections, and looked at in the first state.      *)
UnqueueRemovesNamed ==
    Init => \A n \in 0..MaxQueue :
        /\ \A removed \in SUBSET (1..n) :
               LET buf == [i \in 1..n |-> IF i \in removed THEN Null
                                         ELSE [file |-> i, status |-> "QUEUED"]]
               IN  Compact(buf) = SelectSeq(buf, LAMBDA e : e # Null)
        /\ \A text \in R!Text :
               R!InQueue(text, n) /\ R!AsNamed(text, n) /\ R!OthersInvalid(text, n)
=============================================================================
