----------------------------- MODULE TigerTree -----------------------------
(***************************************************************************)
(* The hash of a shared file (tth/tth.c, tth/tigertree.c).  The file is    *)
(* read in buffers of several blocks, and the hashes of the blocks are     *)
(* combined on a stack.  tiger() is taken to be injective: a hash is what  *)
(* it was made of, in postfix notation, where a piece of the file is       *)
(* its position and length and a combination a mark.                       *)
(***************************************************************************)
EXTENDS Integers, Sequences, SequencesExt, FiniteSetsExt

CONSTANTS
    Block,     \* BLOCKSIZE
    Buffer,    \* blocks in buf
    MaxSize    \* bound: size of a file

-----------------------------------------------------------------------------
(* tigertree.c *)

Leaf(from, len) == <<[from |-> from, len |-> len]>>
Node(left, right) == left \o right \o <<[from |-> -1, len |-> -1]>>

(* TT_CONTEXT: the blocks hashed, the bytes of the block in progress, where *)
(* it starts, and the stack up to top; and the position of the descriptor. *)
TtInit == [count |-> 0, index |-> 0, leaf |-> 0, stack |-> <<>>, pos |-> 0]

(* tt_compose: the two hashes on top become one.                           *)
Compose(s) ==
    LET n == Len(s)
    IN  Append(SubSeq(s, 1, n - 2), Node(s[n - 1], s[n]))

RECURSIVE ComposeWhileEven(_, _)
ComposeWhileEven(s, b) == IF b % 2 = 0 THEN ComposeWhileEven(Compose(s), b \div 2) ELSE s

RECURSIVE ComposeAll(_)
ComposeAll(s) == IF Len(s) > 1 THEN ComposeAll(Compose(s)) ELSE s

(* tt_block                                                                *)
TtBlock(tt, from, len) ==
    [tt EXCEPT !.count = @ + 1,
               !.stack = ComposeWhileEven(Append(@, Leaf(from, len)), tt.count + 1)]

(* tt_digest with tt_final: the last block is hashed if there is one, or   *)
(* if it is the only one.                                                  *)
TtDigest(tt) ==
    LET final == IF tt.index > 0 \/ tt.stack = <<>> THEN TtBlock(tt, tt.leaf, tt.index) ELSE tt
    IN  ComposeAll(final.stack)[1]

-----------------------------------------------------------------------------
(* tth.c *)

(* One turn of the loop: all whole blocks of what was read are hashed, the *)
(* rest is the block in progress.                                          *)
Read(tt, numbytes) ==
    LET blocks == numbytes \div Block
        hashed == FoldLeft(LAMBDA t, k : TtBlock(t, tt.pos + (k - 1) * Block, Block),
                           tt, [k \in 1..blocks |-> k])
    IN  [hashed EXCEPT !.index = numbytes % Block,
                       !.leaf = tt.pos + blocks * Block,
                       !.pos = tt.pos + numbytes]

(* tth, where reads are the results of read() up to the end of the file.   *)
Tth(reads) == TtDigest(FoldLeft(Read, TtInit, reads))

(* How a file of a size may be read: a full buffer or less at a time.      *)
RECURSIVE ReadsOf(_)
ReadsOf(size) ==
    IF size = 0 THEN {<<>>}
    ELSE UNION {{Append(reads, n) : reads \in ReadsOf(size - n)} :
                    n \in 1..Min({size, Buffer * Block})}

-----------------------------------------------------------------------------
(* Properties *)

(* The tree over the blocks lo to lo + n - 1 for reference: the left half  *)
(* is the largest full tree that leaves something for the right one.       *)
RECURSIVE Tree(_, _, _)
Tree(size, lo, n) ==
    IF n = 1 THEN Leaf(lo * Block, Min({Block, size - lo * Block}))
    ELSE LET half == Max({h \in {2^k : k \in 0..n} : h < n})
         IN  Node(Tree(size, lo, half), Tree(size, lo + half, n - half))

Blocks(size) == Max({1, (size + Block - 1) \div Block})

(* The hash is that of the tree over the blocks of the file, for files of  *)
(* no block, one, many, and a last one that is not full, exactly if every  *)
(* read but the last ends with a block: a shorter one, which a regular     *)
(* file does not give, loses the block in progress.                        *)
DigestIsTree ==
    \A size \in 0..MaxSize : \A reads \in ReadsOf(size) :
        Tth(reads) = Tree(size, 0, Blocks(size))
            <=> \A i \in 1..Len(reads) - 1 : reads[i] % Block = 0
=============================================================================
