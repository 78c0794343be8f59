------------------------------ MODULE Huffman -------------------------------
(***************************************************************************)
(* The compression of the old file lists (huffman.c).  Data is a sequence  *)
(* of characters, which are numbers in the order of their bytes.           *)
(***************************************************************************)
EXTENDS Integers, Sequences, SequencesExt, FiniteSets, FiniteSetsExt, Functions

CONSTANTS
    Char,      \* characters
    MaxData,   \* bound: characters of data
    Width,     \* bits of a code that are kept (uint32_t)
    Byte       \* bits of a byte

Bytes(bits) == (Len(bits) + Byte - 1) \div Byte
Padded(bits) == bits \o [i \in 1..(Bytes(bits) * Byte - Len(bits)) |-> 0]   \* BYTE_BOUNDARY
Concat(seqs) == FoldLeft(LAMBDA s, t : s \o t, <<>>, seqs)

-----------------------------------------------------------------------------
(* The tree.  A node is its count and the codes of the characters below it *)

LeafNode(c, n) == [count |-> n, leaf |-> TRUE, codes |-> [d \in {c} |-> <<>>]]

Join(l, r) ==
    [count |-> l.count + r.count, leaf |-> FALSE,
     codes |-> [c \in DOMAIN l.codes \cup DOMAIN r.codes |->
                   IF c \in DOMAIN l.codes THEN <<0>> \o l.codes[c] ELSE <<1>> \o r.codes[c]]]

(* compare_encode_node: a leaf comes before what has the same count, a     *)
(* branch behind it.                                                       *)
Before(a, b) == IF a.count # b.count THEN a.count < b.count ELSE a.leaf

(* ptrv_insort                                                             *)
Insort(tree, node) ==
    LET c == SelectInSeq(tree, LAMBDA b : Before(node, b))
    IN  IF c = 0 THEN Append(tree, node) ELSE InsertAt(tree, c, node)

Count(data, c) == Cardinality({i \in 1..Len(data) : data[i] = c})
Distinct(data) == SetToSortSeq(ToSet(data), LAMBDA c, d : c < d)
Leaves(data) == FoldLeft(LAMBDA tree, c : Insort(tree, LeafNode(c, Count(data, c))), <<>>, Distinct(data))

RECURSIVE Joined(_)
Joined(tree) ==
    IF Len(tree) = 1 THEN tree[1]
    ELSE Joined(Insort(SubSeq(tree, 3, Len(tree)), Join(tree[1], tree[2])))

-----------------------------------------------------------------------------
(* huffman_encode *)

(* add_bits: the highest bit first.  A code has lost what is beyond its    *)
(* width (make_huffman_bits), and a shift by more than that takes the rest *)
(* of the number of bits, as the processor does.                           *)
AddBits(code) ==
    LET kept == IF Len(code) > Width THEN SubSeq(code, Len(code) - Width + 1, Len(code)) ELSE code
    IN  [i \in 1..Len(code) |-> kept[Len(kept) - ((Len(code) - i) % Width)]]

(* The characters with the lengths of their codes, the codes, and the data *)
Encoded(data) ==
    IF data = <<>> THEN [size |-> 0, lengths |-> <<>>, bits |-> <<>>]
    ELSE LET codes == Joined(Leaves(data)).codes
         IN  [size |-> Len(data),
              lengths |-> [c \in 1..Len(Distinct(data)) |-> <<Distinct(data)[c], Len(codes[Distinct(data)[c]])>>],
              bits |-> Padded(Concat([c \in 1..Len(Distinct(data)) |-> AddBits(codes[Distinct(data)[c]])]))
                           \o Padded(Concat([i \in 1..Len(data) |-> AddBits(codes[data[i]])]))]

-----------------------------------------------------------------------------
(* huffman_decode *)

(* The tree that the key describes: the nodes are the paths to them, a     *)
(* later character replaces an earlier one at the same node.               *)
KeyTree(e) ==
    LET start(c) == FoldLeft(LAMBDA n, l : n + l[2], 0, SubSeq(e.lengths, 1, c - 1))
        path(c) == SubSeq(e.bits, start(c) + 1, start(c) + e.lengths[c][2])
        leaves == {path(c) : c \in 1..Len(e.lengths)}
    IN  [nodes |-> {<<>>} \cup UNION {{SubSeq(p, 1, k) : k \in 0..Len(p)} : p \in leaves},
         chr |-> [p \in leaves |-> e.lengths[Max({c \in 1..Len(e.lengths) : path(c) = p})][1]],
         end |-> Bytes(SubSeq(e.bits, 1, start(Len(e.lengths) + 1))) * Byte]

Failed == <<"failed">>

(* The way down the tree from a node to a character, and the position      *)
(* behind it; Failed where there is no node or no more data.               *)
RECURSIVE Descend(_, _, _, _)
Descend(e, t, node, pos) ==
    IF node \in DOMAIN t.chr THEN <<t.chr[node], pos>>
    ELSE IF pos >= Len(e.bits) \/ Append(node, e.bits[pos + 1]) \notin t.nodes THEN Failed
    ELSE Descend(e, t, Append(node, e.bits[pos + 1]), pos + 1)

RECURSIVE DecodedFrom(_, _, _, _)
DecodedFrom(e, t, pos, output) ==
    IF Len(output) = e.size THEN output
    ELSE LET step == Descend(e, t, <<>>, pos)
         IN  IF step = Failed THEN Failed ELSE DecodedFrom(e, t, step[2], Append(output, step[1]))

Decoded(e) == IF e.lengths = <<>> THEN <<>> ELSE DecodedFrom(e, KeyTree(e), KeyTree(e).end, <<>>)

-----------------------------------------------------------------------------
(* Properties *)

Code(data, c) == Joined(Leaves(data)).codes[c]
CodesFit(data) == \A c \in ToSet(data) : Len(Code(data, c)) <= Width

RECURSIVE Cheapest(_)
Cheapest(counts) ==
    IF Len(counts) <= 1 THEN 0
    ELSE Min({counts[i] + counts[j]
                 + Cheapest(Append(RemoveAt(RemoveAt(counts, j), i), counts[i] + counts[j])) :
                     <<i, j>> \in {p \in (1..Len(counts)) \X (1..Len(counts)) : p[1] < p[2]}})

Shortest(data) ==
    FoldLeft(LAMBDA n, c : n + Count(data, c) * Len(Code(data, c)), 0, Distinct(data))
        = Cheapest([c \in 1..Len(Distinct(data)) |-> Count(data, Distinct(data)[c])])

(* What is decoded is what was encoded, also when there is no character,   *)
(* or only one, whose code is empty, as long as every code fits into the   *)
(* bits that are kept of it; and no other tree makes the data shorter.     *)
RoundTrip ==
    \A data \in SeqOf(Char, MaxData) :
        /\ CodesFit(data) => Decoded(Encoded(data)) = data
        /\ data # <<>> => Shortest(data)
=============================================================================
