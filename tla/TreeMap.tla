------------------------------ MODULE TreeMap -------------------------------
(***************************************************************************)
(* The red-black tree of common/tmap.c, which keeps the commands and       *)
(* aliases.  Nodes are in memory and point to each other; a call is one    *)
(* step.  The mirror images in the code are one definition here, with the  *)
(* side as a parameter.  Between two calls a node is named by its key,     *)
(* since nobody keeps a pointer to a node.                                 *)
(***************************************************************************)
EXTENDS Integers, FiniteSets, Sequences

CONSTANTS
    Key,      \* the keys, numbers in the order of the comparison
    Value,
    None,
    Nil,      \* the sentinel node
    Freed     \* a pointer to memory that was freed

VARIABLES
    tree,     \* the nodes in memory with the sentinel, and the root
    size,
    reply     \* what the last call returned

vars == <<tree, size, reply>>

Other == [left |-> "right", right |-> "left"]

NilNode ==
    [key |-> None, value |-> None, red |-> FALSE, left |-> Nil, right |-> Nil, parent |-> Nil]

Empty == [node |-> [n \in {Nil} |-> NilNode], root |-> Nil]

Init == tree = Empty /\ size = 0 /\ reply = None

Assign(t, n, field, x) == [t EXCEPT !.node[n][field] = x]

-----------------------------------------------------------------------------
(* Finding *)

(* tmap_get_node: Nil if the key is not there.                             *)
RECURSIVE Find(_, _, _)
Find(t, n, k) ==
    IF n = Nil \/ t.node[n].key = k THEN n
    ELSE Find(t, IF k > t.node[n].key THEN t.node[n].right ELSE t.node[n].left, k)

(* The node that is as far as one comes on a side.                         *)
RECURSIVE Furthest(_, _, _)
Furthest(t, n, side) ==
    IF t.node[n][side] = Nil THEN n ELSE Furthest(t, t.node[n][side], side)

(* The node under which tmap_put puts a key that is not there.             *)
RECURSIVE ParentFor(_, _, _, _)
ParentFor(t, n, parent, k) ==
    IF n = Nil THEN parent
    ELSE ParentFor(t, IF k > t.node[n].key THEN t.node[n].right ELSE t.node[n].left, n, k)

-----------------------------------------------------------------------------
(* Rotating *)

(* The child takes the place of n with the parent.                         *)
Hung(t, n, child, parent, side) ==
    IF parent = Nil THEN [t EXCEPT !.root = child]
    ELSE Assign(t, parent, IF n = t.node[parent][side] THEN side ELSE Other[side], child)

(* tmap_rotate_left and tmap_rotate_right.                                 *)
Rotate(t, n, side) ==
    LET child == t.node[n][Other[side]]
        inner == t.node[child][side]
        parent == t.node[n].parent
        given == Assign(IF inner = Nil THEN t ELSE Assign(t, inner, "parent", n),
                        n, Other[side], inner)
        hung == Hung(Assign(given, child, "parent", parent), n, child, parent, side)
    IN  Assign(Assign(hung, child, side, n), n, "parent", child)

-----------------------------------------------------------------------------
(* Putting *)

(* With a black uncle the grandparent is turned away: low is red, and so   *)
(* is its parent.                                                          *)
Straightened(t, low, side) ==
    LET up == t.node[low].parent
        top == t.node[up].parent
    IN  [at |-> low,
         t |-> Rotate(Assign(Assign(t, up, "red", FALSE), top, "red", TRUE), top, Other[side])]

(* One turn of the loop of tmap_insert_rebalance: with a red uncle the     *)
(* trouble is moved to the grandparent, else it is over.                   *)
InsertStep(t, n) ==
    LET parent == t.node[n].parent
        grand == t.node[parent].parent
        side == IF parent = t.node[grand].left THEN "left" ELSE "right"
        uncle == t.node[grand][Other[side]]
        inside == n = t.node[parent][Other[side]]
    IN  IF t.node[uncle].red
        THEN [at |-> grand,
              t |-> Assign(Assign(Assign(t, parent, "red", FALSE), uncle, "red", FALSE),
                           grand, "red", TRUE)]
        ELSE Straightened(IF inside THEN Rotate(t, parent, side) ELSE t,
                          IF inside THEN parent ELSE n, side)

RECURSIVE InsertRebalance(_)
InsertRebalance(s) ==
    LET parent == s.t.node[s.at].parent
    IN  IF s.t.node[parent].red /\ s.t.node[parent].parent # Nil
        THEN InsertRebalance(InsertStep(s.t, s.at))
        ELSE Assign(s.t, s.t.root, "red", FALSE)

(* The tree with a new red node; the first one is black.                   *)
Inserted(t, k, v) ==
    LET parent == ParentFor(t, t.root, Nil, k)
        new == [NilNode EXCEPT !.key = k, !.value = v, !.parent = parent,
                               !.red = (parent # Nil)]
        nodes == [n \in DOMAIN t.node \cup {k} |-> IF n = k THEN new ELSE t.node[n]]
        placed == [t EXCEPT !.node = nodes]
    IN  IF parent = Nil THEN [placed EXCEPT !.root = k]
        ELSE InsertRebalance(
                 [t |-> Assign(placed, parent,
                               IF k > t.node[parent].key THEN "right" ELSE "left", k),
                  at |-> k])

(* tmap_put.                                                               *)
Put(k, v) ==
    LET n == Find(tree, tree.root, k) IN
    IF n = Nil
    THEN tree' = Inserted(tree, k, v) /\ size' = size + 1 /\ reply' = None
    ELSE /\ tree' = Assign(tree, n, "value", v)
         /\ reply' = tree.node[n].value
         /\ UNCHANGED size

-----------------------------------------------------------------------------
(* Removing *)

(* A red sibling is first turned away,                                     *)
Turned(t, parent, side) ==
    LET sibling == t.node[parent][Other[side]]
    IN  IF ~t.node[sibling].red THEN t
        ELSE Rotate(Assign(Assign(t, sibling, "red", FALSE), parent, "red", TRUE), parent, side)

(* then a red child of the sibling is brought to its far side,             *)
Lined(t, sibling, side) ==
    IF t.node[t.node[sibling][Other[side]]].red THEN t
    ELSE Rotate(Assign(Assign(t, t.node[sibling][side], "red", FALSE), sibling, "red", TRUE),
                sibling, Other[side])

(* where it makes up for the black node.                                   *)
MadeUp(t, parent, side) ==
    LET sibling == t.node[parent][Other[side]]
        coloured == Assign(Assign(t, sibling, "red", t.node[parent].red), parent, "red", FALSE)
    IN  Rotate(Assign(coloured, t.node[sibling][Other[side]], "red", FALSE), parent, side)

Short(t, n, parent) == [t |-> t, at |-> n, parent |-> parent]
Ended(t, parent) == Short(t, t.root, parent)

(* One turn of the loop of tmap_delete_rebalance: n is one black node      *)
(* short.                                                                  *)
DeleteStep(t0, n, parent) ==
    LET side == IF n = t0.node[parent].left THEN "left" ELSE "right"
        Step(t) ==
            LET sibling == t.node[parent][Other[side]]
            IN  IF \E s \in {"left", "right"} : t.node[t.node[sibling][s]].red
                THEN Ended(MadeUp(Lined(t, sibling, side), parent, side), parent)
                ELSE Short(Assign(t, sibling, "red", TRUE), parent, t.node[parent].parent)
    IN  Step(Turned(t0, parent, side))

RECURSIVE DeleteRebalance(_)
DeleteRebalance(s) ==
    IF s.at # s.t.root /\ ~s.t.node[s.at].red
    THEN DeleteRebalance(DeleteStep(s.t, s.at, s.parent))
    ELSE Assign(s.t, s.at, "red", FALSE)

(* The memory without a node that is freed, where the node that took over  *)
(* its key has the name of the key; whoever still points to the freed node *)
(* points to freed memory.                                                 *)
Without(t, gone, heir) ==
    LET Name(n) == IF n = gone THEN Freed ELSE IF n = heir THEN t.node[heir].key ELSE n
        live == DOMAIN t.node \ {gone}
        Renamed(r) == [r EXCEPT !.left = Name(r.left), !.right = Name(r.right),
                                !.parent = Name(r.parent)]
    IN  [root |-> Name(t.root),
         node |-> [m \in {Name(n) : n \in live} |->
                      Renamed(t.node[CHOOSE n \in live : Name(n) = m])]]

(* tmap_remove_node: a node with two children takes over the key and the   *)
(* value of its predecessor, which is cut out in its place.                *)
Removed(t, n) ==
    LET node == t.node[n]
        splice == IF node.left = Nil \/ node.right = Nil THEN n
                  ELSE Furthest(t, node.left, "right")
        child == IF node.left = Nil THEN node.right
                 ELSE t.node[splice].left
        parent == t.node[splice].parent
        taken == Assign(Assign(t, n, "key", t.node[splice].key), n, "value", t.node[splice].value)
        Cut(up) == IF parent = Nil THEN [up EXCEPT !.root = child]
                   ELSE Assign(up, parent,
                               IF splice = up.node[parent].left THEN "left" ELSE "right", child)
        Whole(cut) == IF parent = Nil \/ t.node[splice].red THEN cut
                      ELSE DeleteRebalance(Short(cut, child, parent))
    IN  Without(Whole(Cut(IF child = Nil THEN taken ELSE Assign(taken, child, "parent", parent))),
                splice, n)

(* tmap_remove.                                                            *)
Remove(k) ==
    LET n == Find(tree, tree.root, k) IN
    IF n = Nil
    THEN reply' = None /\ UNCHANGED <<tree, size>>
    ELSE tree' = Removed(tree, n) /\ size' = size - 1 /\ reply' = tree.node[n].value

(* tmap_get: the value of the sentinel is NULL.                            *)
Get(k) == reply' = tree.node[Find(tree, tree.root, k)].value /\ UNCHANGED <<tree, size>>

(* tmap_clear.                                                             *)
Clear == tree' = Empty /\ size' = 0 /\ reply' = None

Next ==
    \/ \E k \in Key, v \in Value : Put(k, v)
    \/ \E k \in Key : Remove(k) \/ Get(k)
    \/ Clear

Spec == Init /\ [][Next]_vars

-----------------------------------------------------------------------------
(* Iterating *)

RECURSIVE Climb(_, _)
Climb(t, n) ==
    LET parent == t.node[n].parent IN
    IF n = t.node[parent].right THEN Climb(t, parent) ELSE parent

(* successor: the next node in the order of the keys.                      *)
Successor(t, n) ==
    IF t.node[n].right # Nil THEN Furthest(t, t.node[n].right, "left") ELSE Climb(t, n)

(* tmap_iterator_next until tmap_iterator_has_next is false.               *)
RECURSIVE Iterate(_, _, _)
Iterate(t, from, to) ==
    IF from = Nil THEN <<>>
    ELSE <<t.node[from].key>> \o
         Iterate(t, IF from = to THEN Nil ELSE Successor(t, from), to)

(* tmap_iterator: all nodes.                                               *)
Iteration(t) == Iterate(t, Furthest(t, t.root, "left"), Nil)

(* The last node on the way that matches, going on where others may be.    *)
RECURSIVE Edge(_, _, _, _, _)
Edge(t, best, n, match, side) ==
    IF n = Nil THEN best
    ELSE IF t.node[n].key \in match THEN Edge(t, n, t.node[n][side], match, side)
    ELSE Edge(t, best, t.node[n][Other[side]], match, side)

(* tmap_iterator_partial: the keys that match, which are next to each      *)
(* other in the order (the commands that begin with a word).               *)
PartialIteration(t, lo, hi) ==
    LET RECURSIVE Hit(_)
        Hit(n) == IF n = Nil \/ t.node[n].key \in lo..hi THEN n
                  ELSE Hit(IF lo > t.node[n].key THEN t.node[n].right ELSE t.node[n].left)
        hit == Hit(t.root)
    IN  IF hit = Nil THEN <<>>
        ELSE Iterate(t, Edge(t, hit, t.node[hit].left, lo..hi, "left"),
                        Edge(t, hit, t.node[hit].right, lo..hi, "right"))

(* tmap_foreach_key and tmap_foreach_value: the nodes in the order in      *)
(* which they are handed over, to be freed.                                *)
RECURSIVE Foreach(_, _)
Foreach(t, n) ==
    IF n = Nil THEN <<>> ELSE Foreach(t, t.node[n].left) \o Foreach(t, t.node[n].right) \o <<n>>

-----------------------------------------------------------------------------
(* Properties *)

Nodes == DOMAIN tree.node \ {Nil}

(* Nobody points to freed memory, and the sentinel is never written.       *)
TypeOK ==
    /\ Nodes \subseteq Key
    /\ tree.root \in Nodes \cup {Nil}
    /\ tree.node[Nil] = NilNode
    /\ \A n \in Nodes :
           /\ tree.node[n].key = n /\ tree.node[n].value \in Value
           /\ tree.node[n].red \in BOOLEAN
           /\ {tree.node[n].left, tree.node[n].right, tree.node[n].parent} \subseteq Nodes \cup {Nil}
    /\ size = Cardinality(Nodes)

RECURSIVE BlackHeights(_)
BlackHeights(n) ==
    IF n = Nil THEN {0}
    ELSE {h + (IF tree.node[n].red THEN 0 ELSE 1) :
              h \in BlackHeights(tree.node[n].left) \cup BlackHeights(tree.node[n].right)}

(* After any sequence of puts and removals all ways down have as many      *)
(* black nodes, and no red node has a red child (tmap_verify).             *)
RedBlack ==
    /\ Cardinality(BlackHeights(tree.root)) = 1
    /\ \A n \in Nodes :
           tree.node[n].red =>
               ~tree.node[tree.node[n].left].red /\ ~tree.node[tree.node[n].right].red

(* The parent pointers, which only the iterators and the balancing follow, *)
(* are the inverse of the child pointers.                                  *)
ParentsMatchChildren ==
    /\ tree.root # Nil => tree.node[tree.root].parent = Nil
    /\ \A n \in Nodes \ {tree.root} :
           n \in {tree.node[tree.node[n].parent].left, tree.node[tree.node[n].parent].right}
    /\ \A n \in Nodes : \A c \in {tree.node[n].left, tree.node[n].right} \ {Nil} :
           tree.node[c].parent = n

Increasing(s) == \A i \in 1..Len(s) - 1 : s[i] < s[i + 1]
Elements(s) == {s[i] : i \in 1..Len(s)}

(* An iteration meets every key once and in order, and a partial one the   *)
(* keys that match, whatever the shape of the tree.  When all are handed   *)
(* over, none comes twice, and none before those that are reached by it.   *)
IterationsInOrder ==
    /\ LET all == Iteration(tree) IN Increasing(all) /\ Elements(all) = Nodes
    /\ \A lo, hi \in Key :
           lo <= hi => LET some == PartialIteration(tree, lo, hi) IN
                       Increasing(some) /\ Elements(some) = Nodes \cap lo..hi
    /\ LET all == Foreach(tree, tree.root)
           Place(n) == CHOOSE i \in 1..Len(all) : all[i] = n
       IN  /\ Elements(all) = Nodes /\ Len(all) = size
           /\ \A n \in Nodes \ {tree.root} : Place(n) < Place(tree.node[n].parent)

TreeIsSound == TypeOK /\ RedBlack /\ ParentsMatchChildren /\ IterationsInOrder

(* The tree is a dictionary.                                               *)
D == INSTANCE Dictionary WITH
         dict <- [k \in {tree.node[n].key : n \in Nodes} |->
                     tree.node[Find(tree, tree.root, k)].value]

IsDictionary == D!Spec
=============================================================================
