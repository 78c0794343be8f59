------------------------------ MODULE HashMap -------------------------------
(***************************************************************************)
(* The hash table of common/hmap.c.  A round is an iteration with the      *)
(* iterator, in which the caller may remove the entry that it has just     *)
(* been given, and put the value back under another key: the main loop     *)
(* serves the connections so, which disconnect and change their names      *)
(* meanwhile (main.c:1338-1349).                                           *)
(***************************************************************************)
EXTENDS Integers, FiniteSets, Sequences

S == INSTANCE SequencesExt

CONSTANTS
    Key, Value, None,
    Hashes,       \* the hash functions to be considered
    Capacity      \* the number of buckets of a new table

VARIABLES
    hash,         \* the hash function of this table
    buckets,      \* lists of entries
    size,
    threshold,    \* the size beyond which the table grows
    reply,        \* what the last call returned
    round,        \* the iterator
    due, met      \* history: the keys that a round has to meet, and those it met

vars == <<hash, buckets, size, threshold, reply, round, due, met>>

Length == Len(buckets)
Indexes(b) == 1..Len(b)

Index(b, k) == (hash[k] % Len(b)) + 1
Chain(k) == buckets[Index(buckets, k)]
Keys(b) == {e.key : e \in UNION {S!ToSet(b[i]) : i \in Indexes(b)}}

(* hmap_get_entry: only the chain of the key is searched.                  *)
At(k) ==
    LET found == {e \in S!ToSet(Chain(k)) : e.key = k}
    IN  IF found = {} THEN None ELSE (CHOOSE e \in found : TRUE).value

ThresholdFor(length) == (length * 3) \div 4

Idle == [on |-> FALSE, index |-> 1, entry |-> None, previous |-> None, held |-> None]

Init ==
    /\ hash \in Hashes
    /\ buckets = [i \in 1..Capacity |-> <<>>]
    /\ size = 0
    /\ threshold = ThresholdFor(Capacity)
    /\ reply = None
    /\ round = Idle
    /\ due = {} /\ met = {}

-----------------------------------------------------------------------------
(* The calls *)

\* Variant of Rehashed: the chains are moved as they are.
RehashedWhole(b) ==
    [i \in 1..2 * Len(b) + 1 |-> IF i \in Indexes(b) THEN b[i] ELSE <<>>]

(* hmap_rehash: every entry goes to the end of its new chain.              *)
Rehashed(b) ==
    LET length == 2 * Len(b) + 1
        all == S!FlattenSeq(b)
        Belongs(i) == LET In(e) == (hash[e.key] % length) + 1 = i IN SelectSeq(all, In)
    IN  [i \in 1..length |-> Belongs(i)]

(* hmap_put without the history.                                           *)
PutEntry(k, v) ==
    LET i == Index(buckets, k)
        old == S!SelectInSeq(buckets[i], LAMBDA e : e.key = k)
    IN  /\ reply' = At(k)
        /\ IF old # 0
           THEN buckets' = [buckets EXCEPT ![i][old].value = v] /\ UNCHANGED <<size, threshold>>
           ELSE LET grown == IF size + 1 > threshold THEN Rehashed(buckets) ELSE buckets
                IN  /\ size' = size + 1
                    /\ threshold' = ThresholdFor(Len(grown))
                    /\ buckets' = [grown EXCEPT ![Index(grown, k)] =
                                      <<[key |-> k, value |-> v]>> \o @]

(* hmap_remove without the history.                                        *)
RemoveEntry(k) ==
    LET i == Index(buckets, k)
        others == SelectSeq(buckets[i], LAMBDA e : e.key # k)
    IN  /\ reply' = At(k)
        /\ buckets' = [buckets EXCEPT ![i] = others]
        /\ size' = size - (Len(buckets[i]) - Len(others))
        /\ UNCHANGED threshold

Put(k, v) == ~round.on /\ PutEntry(k, v) /\ UNCHANGED <<hash, round, due, met>>

Remove(k) == ~round.on /\ RemoveEntry(k) /\ UNCHANGED <<hash, round, due, met>>

Get(k) == reply' = At(k) /\ UNCHANGED <<hash, buckets, size, threshold, round, due, met>>

(* hmap_clear: the buckets stay.                                           *)
Clear ==
    /\ ~round.on
    /\ buckets' = [i \in Indexes(buckets) |-> <<>>]
    /\ size' = 0 /\ reply' = None
    /\ UNCHANGED <<hash, threshold, round, due, met>>

-----------------------------------------------------------------------------
(* The iterator *)

(* The first entry from a bucket on, and its bucket.                       *)
FirstFrom(i) ==
    LET used == {j \in i..Length : buckets[j] # <<>>}
    IN  IF used = {} THEN [index |-> Length + 1, entry |-> None]
        ELSE LET j == CHOOSE j \in used : \A o \in used : j <= o
             IN  [index |-> j, entry |-> buckets[j][1].key]

(* hmap_iterator.                                                          *)
Begin ==
    /\ ~round.on
    /\ round' = [Idle EXCEPT !.on = TRUE, !.index = FirstFrom(1).index, !.entry = FirstFrom(1).entry]
    /\ due' = Keys(buckets) /\ met' = {}
    /\ UNCHANGED <<hash, buckets, size, threshold, reply>>

\* Variants of After: the chain is left after its first entry; the bucket is not
\* remembered.
AfterChainHead(r) == FirstFrom(r.index + 1)

AfterForgetsIndex(r) ==
    LET chain == buckets[r.index]
        p == S!SelectInSeq(chain, LAMBDA e : e.key = r.entry)
    IN  [index |-> r.index,
         entry |-> IF p < Len(chain) THEN chain[p + 1].key ELSE FirstFrom(r.index + 1).entry]

(* The entry after the one that is given out: the next of its chain, or    *)
(* the first of a later chain.  It is looked up before the caller does     *)
(* anything with the entry that it is given.                               *)
After(r) ==
    LET chain == buckets[r.index]
        p == S!SelectInSeq(chain, LAMBDA e : e.key = r.entry)
    IN  IF p < Len(chain) THEN [index |-> r.index, entry |-> chain[p + 1].key]
        ELSE FirstFrom(r.index + 1)

(* hmap_iterator_next.                                                     *)
Step ==
    /\ round.on /\ round.entry # None
    /\ round' = [round EXCEPT !.previous = round.entry, !.held = None,
                              !.index = After(round).index, !.entry = After(round).entry]
    /\ met' = met \cup {round.entry}
    /\ UNCHANGED <<hash, buckets, size, threshold, reply, due>>

(* The caller removes the entry that it was given (user_disconnect).       *)
RemoveCurrent ==
    /\ round.on /\ round.previous # None
    /\ RemoveEntry(round.previous)
    /\ round' = [round EXCEPT !.held = At(round.previous), !.previous = None]
    /\ due' = due \ {round.previous}
    /\ UNCHANGED <<hash, met>>

(* It puts the value back under another key (update_user_connection_name). *)
PutBack(k) ==
    /\ round.held # None
    /\ PutEntry(k, round.held)
    /\ round' = [round EXCEPT !.held = None]
    /\ UNCHANGED <<hash, due, met>>

(* hmap_iterator_has_next is false.                                        *)
End ==
    /\ round.on /\ round.entry = None
    /\ round' = Idle /\ due' = {} /\ met' = {}
    /\ UNCHANGED <<hash, buckets, size, threshold, reply>>

Next ==
    \/ \E k \in Key, v \in Value : Put(k, v)
    \/ \E k \in Key : Remove(k) \/ Get(k) \/ PutBack(k)
    \/ Clear \/ Begin \/ Step \/ RemoveCurrent \/ End

Spec == Init /\ [][Next]_vars

-----------------------------------------------------------------------------
(* Properties *)

(* The size is the number of the entries, which have different keys.       *)
TypeOK ==
    /\ \A i \in Indexes(buckets) : \A e \in S!ToSet(buckets[i]) : e.key \in Key /\ e.value \in Value
    /\ size = Len(S!FlattenSeq(buckets)) /\ size = Cardinality(Keys(buckets))
    /\ round.entry \in Key \cup {None}

(* The table is never fuller than it should be.  So the put of a renaming, *)
(* after the remove of the old name, never replaces the buckets under an   *)
(* iterator that counts them.                                              *)
RenamingKeepsBuckets ==
    /\ size <= threshold
    /\ round.held # None => size < threshold

(* The entry that a round comes to next is in the table, whatever the      *)
(* caller did with the one before.                                         *)
NextIsEntry == round.entry # None => round.entry \in Keys(buckets)

(* A round meets every entry that stays, also behind one that disappears   *)
(* or changes its name: no connection is left out.                         *)
RoundMeetsAll == round.on /\ round.entry = None => due \subseteq met

(* An entry that keeps its name is met once.                               *)
MetOnce == [][Step /\ round.entry \in due => round.entry \notin met]_vars

RoundsAreSound == [](TypeOK /\ RenamingKeepsBuckets /\ NextIsEntry /\ RoundMeetsAll) /\ MetOnce

(* The table is a dictionary: in particular, an entry is found after the   *)
(* table has grown.                                                        *)
D == INSTANCE Dictionary WITH dict <- [k \in Keys(buckets) |-> At(k)]

IsDictionary == D!Spec
=============================================================================
