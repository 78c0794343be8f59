---------------------------- MODULE MCUserConns ----------------------------
(* Users, structures and connections, few of each.                         *)
EXTENDS UserConns, TLC
CONSTANTS n1, c1, c2, c3, i1, i2

MCNick == {n1}
MCConn == {c1, c2, c3}
MCInfo == {i1, i2}
Symmetric == Permutations(MCConn) \cup Permutations(MCInfo)
=============================================================================
