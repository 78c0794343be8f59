------------------------- MODULE SharedFilesProofs --------------------------
(***************************************************************************)
(* Proofs about SharedFiles, for any files, addresses and bounds: the      *)
(* types, the queue of files to be hashed, and that the list file that     *)
(* other clients are served is the list that main has.                     *)
(***************************************************************************)
EXTENDS SharedFiles, FiniteSetTheorems, SequenceTheorems, TLAPS

(* What is kept for the next start has no files unless the directory is    *)
(* shared; otherwise the tree would have them.                             *)
SavedInv == ~filelist.shared => DOMAIN filelist.files = {}

ResultsType == results \in Seq(Listing)

(* The list that main has when it has read its pipe.                       *)
LastList == IF results = <<>> THEN our_filelist ELSE results[Len(results)]

(* While a list is sent, exactly one of the two list files is being        *)
(* written: the served one, if main has renamed it meanwhile.  Otherwise   *)
(* both are complete, and the last list sent is in the new list file, or   *)
(* served if that one has been renamed.                                    *)
PublishedInv ==
    IF pc = "loop"
    THEN /\ new_list # Writing /\ list # Writing
         /\ IF new_list = None THEN list = LastList
            ELSE results # <<>> /\ new_list = LastList
    ELSE \/ new_list = Writing /\ list # Writing
         \/ new_list = None /\ list = Writing

Inv == TypeOK /\ ResultsType /\ SavedInv /\ HashQueueSound /\ PublishedInv

-----------------------------------------------------------------------------
(* Sequences without repetitions *)

LEMMA ElementsOfSeq ==
    ASSUME NEW S, NEW s \in Seq(S)
    PROVE  /\ Range(s) \subseteq S
           /\ s # <<>> => Head(s) \in Range(s) /\ Head(s) \in S
  <1>1. \A i \in DOMAIN s : s[i] \in S
    OBVIOUS
  <1>2. s # <<>> => 1 \in DOMAIN s /\ Head(s) = s[1]
    OBVIOUS
  <1>3. Range(s) \subseteq S
    BY <1>1 DEF Range
  <1>4. s # <<>> => Head(s) \in Range(s) /\ Head(s) \in S
    BY <1>1, <1>2 DEF Range
  <1> QED BY <1>3, <1>4

LEMMA TailDistinct ==
    ASSUME NEW S, NEW s \in Seq(S), s # <<>>, IsInjective(s)
    PROVE  /\ Tail(s) \in Seq(S)
           /\ IsInjective(Tail(s))
           /\ Range(Tail(s)) \subseteq Range(s)
  <1>1. Tail(s) \in Seq(S) /\ Len(Tail(s)) = Len(s) - 1
    OBVIOUS
  <1>2. \A i \in DOMAIN Tail(s) : i + 1 \in DOMAIN s /\ Tail(s)[i] = s[i + 1]
    OBVIOUS
  <1>3. DOMAIN Tail(s) \subseteq Int
    OBVIOUS
  <1> QED BY <1>1, <1>2, <1>3 DEF IsInjective, Range

LEMMA AppendDistinct ==
    ASSUME NEW S, NEW s \in Seq(S), IsInjective(s),
           NEW W \in SUBSET S, IsFiniteSet(W), W \cap Range(s) = {},
           NEW more \in SetToSeqs(W)
    PROVE  /\ s \o more \in Seq(S)
           /\ IsInjective(s \o more)
           /\ Range(s \o more) \subseteq Range(s) \cup W
           /\ s # <<>> => s \o more # <<>> /\ Head(s \o more) = Head(s)
  <1>1. Cardinality(W) \in Nat
    BY FS_CardinalityType
  <1>2. /\ more \in [1..Cardinality(W) -> W]
        /\ \A i, j \in 1..Cardinality(W) : i # j => more[i] # more[j]
    BY DEF SetToSeqs
  <1>3. more \in Seq(S) /\ Len(more) = Cardinality(W) /\ \A i \in 1..Len(more) : more[i] \in W
    BY <1>1, <1>2
  <1>4. /\ s \o more \in Seq(S)
        /\ Len(s \o more) = Len(s) + Len(more)
        /\ \A i \in 1..(Len(s) + Len(more)) :
               (s \o more)[i] = IF i <= Len(s) THEN s[i] ELSE more[i - Len(s)]
    BY <1>3
  <1>5. \A i \in 1..Len(s) : s[i] \in Range(s)
    BY DEF Range
  <1>6. IsInjective(s \o more)
    <2> SUFFICES ASSUME NEW i \in 1..(Len(s) + Len(more)), NEW j \in 1..(Len(s) + Len(more)),
                        (s \o more)[i] = (s \o more)[j]
                 PROVE  i = j
      BY <1>4 DEF IsInjective
    <2>1. CASE i <= Len(s) /\ j <= Len(s)
      BY <2>1, <1>4 DEF IsInjective
    <2>2. CASE i > Len(s) /\ j > Len(s)
      <3>1. i - Len(s) \in 1..Cardinality(W) /\ j - Len(s) \in 1..Cardinality(W)
        BY <2>2, <1>1, <1>3
      <3>2. more[i - Len(s)] = more[j - Len(s)]
        BY <2>2, <1>4
      <3>3. i - Len(s) = j - Len(s)
        BY <3>1, <3>2, <1>2
      <3> QED BY <3>3
    <2>3. CASE i <= Len(s) /\ j > Len(s)
      <3>1. (s \o more)[i] \in Range(s)
        BY <2>3, <1>4, <1>5
      <3>2. (s \o more)[j] \in W
        BY <2>3, <1>3, <1>4
      <3> QED BY <3>1, <3>2
    <2>4. CASE i > Len(s) /\ j <= Len(s)
      <3>1. (s \o more)[j] \in Range(s)
        BY <2>4, <1>4, <1>5
      <3>2. (s \o more)[i] \in W
        BY <2>4, <1>3, <1>4
      <3> QED BY <3>1, <3>2
    <2> QED BY <2>1, <2>2, <2>3, <2>4
  <1>7. Range(s \o more) \subseteq Range(s) \cup W
    <2> SUFFICES ASSUME NEW i \in 1..(Len(s) + Len(more))
                 PROVE  (s \o more)[i] \in Range(s) \cup W
      BY <1>4 DEF Range
    <2>1. CASE i <= Len(s)
      BY <2>1, <1>4, <1>5
    <2>2. CASE i > Len(s)
      BY <2>2, <1>3, <1>4
    <2> QED BY <2>1, <2>2
  <1>8. s # <<>> => s \o more # <<>> /\ Head(s \o more) = Head(s)
    BY <1>3, <1>4
  <1> QED BY <1>4, <1>6, <1>7, <1>8

-----------------------------------------------------------------------------
(* The parts of the steps *)

LEMMA SnapshotIsListing ==
    ASSUME NEW kids, NEW nodes \in [Node -> NodeVal],
           DOMAIN kids \subseteq File, Range(kids) \subseteq Node
    PROVE  Snapshot(kids, nodes) \in Listing
  <1>1. \A f \in DOMAIN kids : kids[f] \in Node
    BY DEF Range
  <1>2. Snapshot(kids, nodes) \in [DOMAIN kids -> NodeVal]
    BY <1>1 DEF Snapshot
  <1> QED BY <1>2 DEF Listing, NodeVal

(* A tree and what is saved of it.                                         *)
LEMMA SavingIsSaved ==
    ASSUME NEW kids, NEW nodes \in [Node -> NodeVal], NEW s \in BOOLEAN,
           DOMAIN kids \subseteq (IF s THEN File ELSE {}), Range(kids) \subseteq Node,
           filelist \in Saved, SavedInv,
           Save(Saving(s, kids, nodes))
    PROVE  filelist' \in Saved /\ SavedInv'
  <1>1. Snapshot(kids, nodes) \in Listing
    BY SnapshotIsListing
  <1>2. DOMAIN Snapshot(kids, nodes) = DOMAIN kids
    BY DEF Snapshot
  <1>3. CASE filelist' = Saving(s, kids, nodes)
    BY <1>1, <1>2, <1>3 DEF Saving, Saved, SavedInv
  <1>4. CASE UNCHANGED filelist
    BY <1>4 DEF SavedInv
  <1> QED BY <1>3, <1>4 DEF Save

Fault == {"none", "freed", "assertion"}

(* A request for a hash is for the first node that waits, and for a file,  *)
(* unless that node was freed.                                             *)
LEMMA HashRequestEffect ==
    ASSUME NEW kids, NEW nodes, NEW wait \in Seq(Node),
           DOMAIN kids \subseteq File,
           job \in File \cup {None}, disturbed \subseteq File, fault \in Fault,
           HashRequest(kids, nodes, wait)
    PROVE  /\ hashing' \in Node \cup {None}
           /\ hashing' # None => wait # <<>> /\ Head(wait) = hashing'
           /\ job' \in File \cup {None}
           /\ disturbed' \subseteq File
           /\ fault' \in Fault
           /\ Range(wait) \subseteq Range(kids) => fault' = fault
  <1> DEFINE at == {f \in DOMAIN kids : kids[f] = Head(wait)}
  <1>1. CASE wait = <<>>
    BY <1>1 DEF HashRequest
  <1>2. CASE wait # <<>> /\ at = {}
    <2>1. Head(wait) \in Range(wait)
      BY <1>2, ElementsOfSeq
    <2>2. Head(wait) \notin Range(kids)
      BY <1>2 DEF Range
    <2> QED BY <1>2, <2>1, <2>2 DEF HashRequest, Fault
  <1>3. CASE wait # <<>> /\ at # {}
    <2>1. Head(wait) \in Node
      BY <1>3, ElementsOfSeq
    <2>2. /\ \E f \in at : job' = f
          /\ hashing' = Head(wait)
          /\ disturbed' = disturbed \cup {f \in at : disk[f] # nodes[kids[f]].mtime}
          /\ UNCHANGED fault
      BY <1>3 DEF HashRequest
    <2> QED BY <1>3, <2>1, <2>2
  <1> QED BY <1>1, <1>2, <1>3

(* What a look at the directory does to the nodes: that of a file is kept, *)
(* or it is new or its file has changed.                                   *)
TreeEffect(is_shared) ==
    \/ /\ fault' = "assertion"
       /\ UNCHANGED <<children, node, hash_files, hashing, hasher, filelist, disturbed>>
    \/ /\ \A f \in DOMAIN children' :
              \/ /\ f \in DOMAIN children /\ children'[f] = children[f]
                 /\ node'[children'[f]] = node[children[f]]
              \/ /\ node'[children'[f]] = [mtime |-> disk[f], tth |-> None]
                 /\ disk[f] # 0
                 /\ children'[f] \in Range(hash_files) =>
                       f \in DOMAIN children /\ children[f] = children'[f] /\ Changed(f)
       /\ Save(Saving(is_shared, children', node'))
       /\ UNCHANGED digest
       /\ \/ UNCHANGED <<hashing, job, disturbed>>
          \/ hashing = None /\ HashRequest(children', node', hash_files')

(* The directory is looked through.  The nodes of the files that are still *)
(* there are kept and those of new files are others; a node that waits is  *)
(* that of a file unless it was freed while it waited.                     *)
LEMMA LookupChangesInv ==
    ASSUME Inv, Ready, UNCHANGED disk,
           NEW is_shared \in BOOLEAN, shared => is_shared,
           LookupChanges(is_shared)
    PROVE  Inv' /\ TreeEffect(is_shared)
  <1> DEFINE kept == Restrict(children, DOMAIN children \ Gone)
             found == {f \in File : is_shared /\ disk[f] # 0 /\ f \notin DOMAIN children}
             lost == {children[f] : f \in Gone} \cap Range(hash_files)
             Kids(fresh) == [f \in DOMAIN kept \cup found |->
                                IF f \in found THEN fresh[f] ELSE kept[f]]
             renew == found \cup {f \in DOMAIN kept : Changed(f)}
             Nodes(kids) == [n \in Node |->
                                IF \E f \in renew : kids[f] = n
                                THEN Renewed(CHOOSE f \in renew : kids[f] = n, n)
                                ELSE IF n \in Range(kept) THEN node[n] ELSE Blank]
             Result(kids) == Gone # {} \/ found # {}
                             \/ \E f \in renew : kids[f] \notin Range(hash_files)
  <1> USE DEF Inv
  <1>1. PICK fresh \in Injection(found, Node \ Range(kept)) :
           IF Range(fresh) \cap Range(hash_files) # {}
           THEN /\ fault' = "assertion"
                /\ UNCHANGED <<children, node, hash_files, hashing, pc, hasher,
                               filelist, published, disturbed>>
           ELSE \E more \in SetToSeqs(Waiting(Nodes(Kids(fresh)), Kids(fresh))) :
                /\ children' = Kids(fresh)
                /\ node' = Nodes(Kids(fresh))
                /\ hash_files' = hash_files \o more
                /\ IF Result(Kids(fresh))
                   THEN /\ Save(Saving(is_shared, Kids(fresh), Nodes(Kids(fresh))))
                        /\ StartSend("send then hash")
                        /\ UNCHANGED <<hashing, hasher, disturbed, fault>>
                   ELSE /\ IF hashing = None
                           THEN HashRequest(Kids(fresh), Nodes(Kids(fresh)), hash_files \o more)
                           ELSE UNCHANGED <<hashing, job, disturbed, fault>>
                        /\ UNCHANGED <<pc, digest, filelist, published>>
    BY DEF LookupChanges
  <1>2. removed' = (removed \/ lost # {}) /\ shared' = is_shared
    BY DEF LookupChanges
  <1> DEFINE kids == Kids(fresh)
             nodes == Nodes(kids)
  <1>3. /\ DOMAIN kept = DOMAIN children \ Gone
        /\ \A f \in DOMAIN kept : kept[f] = children[f]
    BY DEF Restrict
  <1>4. /\ fresh \in [found -> Node \ Range(kept)] /\ IsInjective(fresh)
        /\ \A f \in found : fresh[f] \in Node /\ fresh[f] \notin Range(kept)
    BY DEF Injection
  <1>5. /\ DOMAIN kids = DOMAIN kept \cup found
        /\ \A f \in found : kids[f] = fresh[f]
        /\ \A f \in DOMAIN kept : kids[f] = children[f] /\ f \notin found
    BY <1>3
  <1>6. DOMAIN kids \subseteq (IF is_shared THEN File ELSE {})
    BY <1>3, <1>5 DEF TypeOK
  <1>7. \A f \in DOMAIN kept : children[f] \in Node /\ children[f] \in Range(kept)
    BY <1>3 DEF TypeOK, Range
  <1>8. Range(kids) \subseteq Node
    <2> SUFFICES ASSUME NEW f \in DOMAIN kids
                 PROVE  kids[f] \in Node
      BY DEF Range
    <2>1. CASE f \in found
      BY <2>1, <1>4, <1>5
    <2>2. CASE f \in DOMAIN kept
      BY <2>2, <1>5, <1>7
    <2> HIDE DEF kids, kept, found
    <2> QED BY <2>1, <2>2, <1>5
  <1>9. IsInjective(kids)
    <2> SUFFICES ASSUME NEW f \in DOMAIN kids, NEW g \in DOMAIN kids, kids[f] = kids[g]
                 PROVE  f = g
      BY DEF IsInjective
    <2>1. CASE f \in found /\ g \in found
      BY <2>1, <1>4, <1>5 DEF IsInjective
    <2>2. CASE f \in DOMAIN kept /\ g \in DOMAIN kept
      BY <2>2, <1>3, <1>5 DEF IsInjective, TypeOK
    <2> HIDE DEF kids, kept, found
    <2>3. CASE f \in found /\ g \in DOMAIN kept
      <3>1. kids[f] \notin Range(kept) /\ kids[g] \in Range(kept)
        BY <2>3, <1>4, <1>5, <1>7
      <3> QED BY <3>1
    <2>4. CASE f \in DOMAIN kept /\ g \in found
      <3>1. kids[f] \in Range(kept) /\ kids[g] \notin Range(kept)
        BY <2>4, <1>4, <1>5, <1>7
      <3> QED BY <3>1
    <2> QED BY <2>1, <2>2, <2>3, <2>4, <1>5
  <1>10. nodes \in [Node -> NodeVal]
    <2> SUFFICES ASSUME NEW n \in Node
                 PROVE  nodes[n] \in NodeVal
      OBVIOUS
    <2>1. CASE \E f \in renew : kids[f] = n
      <3>1. (CHOOSE f \in renew : kids[f] = n) \in File
        BY <2>1, <1>3 DEF TypeOK
      <3>2. nodes[n] = [mtime |-> disk[CHOOSE f \in renew : kids[f] = n], tth |-> None]
        BY <2>1 DEF Renewed
      <3>3. disk[CHOOSE f \in renew : kids[f] = n] \in Version
        BY <3>1 DEF TypeOK
      <3> HIDE DEF kids, renew, kept, found, nodes
      <3> QED BY <3>2, <3>3 DEF NodeVal
    <2>2. CASE ~ \E f \in renew : kids[f] = n
      <3>1. nodes[n] = node[n] \/ nodes[n] = Blank
        BY <2>2
      <3>2. Blank \in NodeVal
        BY SharedFilesAssumption DEF Blank, NodeVal, Version
      <3>3. node[n] \in NodeVal
        BY DEF TypeOK
      <3> HIDE DEF kids, renew, kept, found, nodes
      <3> QED BY <3>1, <3>2, <3>3
    <2> QED BY <2>1, <2>2
  <1>11. ~removed' => Range(hash_files) \subseteq Range(kept)
    <2> SUFFICES ASSUME ~removed, lost = {}, NEW n \in Range(hash_files)
                 PROVE  n \in Range(kept)
      BY <1>2
    <2>1. PICK f \in DOMAIN children : n = children[f]
      BY DEF HashQueueSound, Range
    <2>2. f \notin Gone
      BY <2>1
    <2> QED BY <2>1, <2>2, <1>3, <1>7
  <1>12. fault \in Fault /\ pc = "loop" /\ fault = "none"
    BY DEF Ready, Fault
  <1>13. CASE Range(fresh) \cap Range(hash_files) # {}
    <2>1. fault' = "assertion" /\ UNCHANGED <<children, node, hash_files, hashing, pc, hasher,
                                              filelist, published, disturbed>>
      BY <1>1, <1>13
    <2>2. removed'
      BY <1>4, <1>11, <1>13 DEF Range
    <2>3. TypeOK'
      BY <2>1, <1>2, ZenonT(40) DEF TypeOK, hasher, published
    <2>4. ResultsType' /\ SavedInv'
      <3>1. results' = results /\ filelist' = filelist
        BY <2>1 DEF hasher, published
      <3> QED BY <3>1 DEF ResultsType, SavedInv
    <2>5. HashQueueSound'
      BY <2>1, <2>2 DEF HashQueueSound
    <2>6. PublishedInv'
      BY <2>1 DEF PublishedInv, LastList, hasher, published
    <2> QED BY <2>1, <2>3, <2>4, <2>5, <2>6 DEF TreeEffect
  <1>14. CASE Range(fresh) \cap Range(hash_files) = {}
    <2> DEFINE W == Waiting(nodes, kids)
    <2>1. PICK more \in SetToSeqs(W) :
             /\ children' = kids
             /\ node' = nodes
             /\ hash_files' = hash_files \o more
             /\ IF Result(kids)
                THEN /\ Save(Saving(is_shared, kids, nodes))
                     /\ StartSend("send then hash")
                     /\ UNCHANGED <<hashing, hasher, disturbed, fault>>
                ELSE /\ IF hashing = None
                        THEN HashRequest(kids, nodes, hash_files \o more)
                        ELSE UNCHANGED <<hashing, job, disturbed, fault>>
                     /\ UNCHANGED <<pc, digest, filelist, published>>
      BY <1>1, <1>14
    <2> HIDE DEF kids, nodes
    <2>2. W \subseteq Range(kids) /\ W \cap Range(hash_files) = {}
      BY DEF Waiting, Range
    <2>3. IsFiniteSet(W)
      <3>1. IsFiniteSet(DOMAIN kids)
        BY <1>6, FS_Subset, SharedFilesAssumption, FS_EmptySet
      <3>2. kids \in Surjection(DOMAIN kids, Range(kids))
        BY DEF Surjection, Range, kids
      <3>3. IsFiniteSet(Range(kids))
        BY <3>1, <3>2, FS_Surjection
      <3> QED BY <2>2, <3>3, FS_Subset
    <2>4. /\ hash_files \o more \in Seq(Node)
          /\ IsInjective(hash_files \o more)
          /\ Range(hash_files \o more) \subseteq Range(hash_files) \cup W
          /\ hash_files # <<>> => /\ hash_files \o more # <<>>
                                 /\ Head(hash_files \o more) = Head(hash_files)
      <3> HIDE DEF W
      <3> QED BY <2>2, <2>3, <1>8, AppendDistinct DEF TypeOK, HashQueueSound
    <2>5. ~removed' => Range(hash_files \o more) \subseteq Range(kids)
      <3>1. Range(kept) \subseteq Range(kids)
        BY <1>3, <1>5 DEF Range
      <3> QED BY <3>1, <1>11, <2>2, <2>4
    <2>6. /\ hashing' \in Node \cup {None} /\ job' \in File \cup {None}
          /\ hashing' # None => hash_files' # <<>> /\ Head(hash_files') = hashing'
          /\ disturbed' \subseteq File /\ fault' \in Fault
          /\ ~removed' => fault' = "none"
      <3>1. CASE UNCHANGED <<hashing, job, disturbed, fault>>
        BY <3>1, <1>12, <2>1, <2>4 DEF TypeOK, HashQueueSound
      <3>2. CASE HashRequest(kids, nodes, hash_files \o more)
        <4>1. job \in File \cup {None} /\ disturbed \subseteq File /\ DOMAIN kids \subseteq File
          BY <1>6 DEF TypeOK
        <4> QED BY <3>2, <4>1, <1>12, <2>1, <2>4, <2>5, HashRequestEffect
      <3> QED BY <3>1, <3>2, <2>1 DEF hasher
    <2>7. TypeOK'
      <3>1. filelist' \in Saved /\ SavedInv'
        BY <2>1, <1>6, <1>8, <1>10, SavingIsSaved DEF TypeOK, SavedInv
      <3>2. digest' = digest /\ our_filelist' = our_filelist
        BY <2>1 DEF StartSend, hasher, published
      <3>3. /\ pc' \in {"loop", "send", "send then hash"}
            /\ new_list' \in Listing \cup {None, Writing}
            /\ list' \in Listing \cup {None, Writing}
        BY <2>1 DEF StartSend, published, TypeOK
      <3> QED BY <3>1, <3>2, <3>3, <2>1, <2>4, <2>6, <1>2, <1>6, <1>8, <1>9, <1>10
             DEF TypeOK, Fault
    <2>8. ResultsType' /\ SavedInv'
      BY <2>1, <1>6, <1>8, <1>10, SavingIsSaved
      DEF TypeOK, SavedInv, ResultsType, StartSend, published
    <2>9. HashQueueSound'
      BY <2>1, <2>4, <2>5, <2>6 DEF HashQueueSound
    <2>10. PublishedInv'
      BY <2>1, <1>12 DEF PublishedInv, LastList, StartSend, published
    <2>11. TreeEffect(is_shared)
      <3>1. \A f \in DOMAIN kids :
               \/ /\ f \in DOMAIN children /\ kids[f] = children[f]
                  /\ nodes[kids[f]] = node[children[f]]
               \/ /\ nodes[kids[f]] = [mtime |-> disk[f], tth |-> None]
                  /\ disk[f] # 0
                  /\ kids[f] \in Range(hash_files) =>
                        f \in DOMAIN children /\ children[f] = kids[f] /\ Changed(f)
        <4> TAKE f \in DOMAIN kids
        <4>1. CASE f \in renew
          <5>1. (CHOOSE g \in renew : kids[g] = kids[f]) = f
            BY <4>1, <1>5, <1>9 DEF IsInjective
          <5>2. kids[f] \in Node
            BY <1>8 DEF Range
          <5>3. nodes[kids[f]] = [mtime |-> disk[f], tth |-> None]
            BY <4>1, <5>1, <5>2 DEF nodes, Renewed
          <5>4. disk[f] # 0
            BY <4>1 DEF Changed
          <5>5. f \in found => kids[f] \notin Range(hash_files)
            BY <1>4, <1>5, <1>14 DEF Range
          <5>6. f \notin found => f \in DOMAIN children /\ children[f] = kids[f] /\ Changed(f)
            BY <4>1, <1>3, <1>5
          <5> QED BY <5>3, <5>4, <5>5, <5>6
        <4>2. CASE f \notin renew
          <5>1. f \in DOMAIN kept /\ kids[f] = children[f] /\ f \in DOMAIN children
            BY <4>2, <1>3, <1>5
          <5>2. ~ \E g \in renew : kids[g] = kids[f]
            BY <4>2, <1>5, <1>9 DEF IsInjective
          <5>3. kids[f] \in Node /\ kids[f] \in Range(kept)
            BY <5>1, <1>7
          <5> QED BY <5>1, <5>2, <5>3 DEF nodes
        <4> QED BY <4>1, <4>2
      <3> QED BY <3>1, <2>1 DEF TreeEffect, Save, hasher
    <2> QED BY <2>7, <2>8, <2>9, <2>10, <2>11
  <1> QED BY <1>13, <1>14

-----------------------------------------------------------------------------
(* The steps *)

LEMMA EmptyTree ==
    /\ DOMAIN NoFiles = {} /\ Range(NoFiles) = {} /\ IsInjective(NoFiles)
    /\ Blank \in NodeVal
    /\ NoFiles \in Listing
  <1>1. DOMAIN NoFiles = {} /\ Range(NoFiles) = {} /\ IsInjective(NoFiles)
    BY DEF NoFiles, Range, IsInjective
  <1>2. Blank \in NodeVal
    BY SharedFilesAssumption DEF Blank, NodeVal, Version
  <1>3. NoFiles \in [{} -> NodeVal]
    BY DEF NoFiles
  <1>4. NoFiles \in Listing
    BY <1>3 DEF Listing, NodeVal
  <1> QED BY <1>1, <1>2, <1>4

LEMMA EmptyQueue ==
    /\ <<>> \in Seq(Node) /\ Range(<<>>) = {} /\ IsInjective(<<>>)
    /\ <<>> \in Seq(Listing)
  BY DEF Range, IsInjective

LEMMA InitInv == Init => Inv
  <1> SUFFICES ASSUME Init
               PROVE  Inv
    OBVIOUS
  <1> USE DEF Init
  <1>1. TypeOK
    <2>1. filelist \in Saved
      BY EmptyTree DEF Saved
    <2>2. disk \in [File -> Version]
      BY SharedFilesAssumption DEF Version
    <2>3. node \in [Node -> NodeVal]
      BY EmptyTree
    <2> QED BY <2>1, <2>2, <2>3, EmptyTree, EmptyQueue DEF TypeOK
  <1>2. ResultsType /\ SavedInv
    BY EmptyTree, EmptyQueue DEF ResultsType, SavedInv
  <1>3. HashQueueSound
    BY EmptyTree, EmptyQueue DEF HashQueueSound
  <1>4. PublishedInv
    BY ListingAssumption DEF PublishedInv
  <1> QED BY <1>1, <1>2, <1>3, <1>4 DEF Inv

LEMMA ChangeInv ==
    ASSUME Inv, NEW f \in File, Change(f)
    PROVE  Inv'
  <1> USE DEF Change, Inv, tree, hasher, published
  <1>1. disk' \in [File -> Version]
    BY DEF TypeOK
  <1>2. disturbed' \subseteq File
    BY DEF TypeOK, FileAt
  <1>3. TypeOK'
    BY <1>1, <1>2, ZenonT(40) DEF TypeOK
  <1>4. ResultsType' /\ SavedInv'
    <2>1. results' = results /\ filelist' = filelist
      OBVIOUS
    <2> QED BY <2>1 DEF ResultsType, SavedInv
  <1>5. HashQueueSound'
    BY DEF HashQueueSound
  <1>6. PublishedInv'
    BY DEF PublishedInv, LastList
  <1> QED BY <1>3, <1>4, <1>5, <1>6

(* A step that changes only the requests and the counters.                 *)
LEMMA StutterInv ==
    ASSUME Inv, UNCHANGED <<tree, pc, hasher, filelist, published, disk, history>>
    PROVE  Inv'
  <1> USE DEF Inv, tree, hasher, published, history
  <1>1. TypeOK'
    BY ZenonT(40) DEF TypeOK
  <1>2. ResultsType' /\ SavedInv'
    <2>1. results' = results /\ filelist' = filelist
      OBVIOUS
    <2> QED BY <2>1 DEF ResultsType, SavedInv
  <1>3. HashQueueSound'
    BY DEF HashQueueSound
  <1>4. PublishedInv'
    BY DEF PublishedInv, LastList
  <1> QED BY <1>1, <1>2, <1>3, <1>4

LEMMA HashInv ==
    ASSUME Inv, Hash \/ ReadFails \/ \E f \in File : OpenFails(f)
    PROVE  Inv'
  <1> USE DEF Hash, ReadFails, OpenFails, Inv, tree, published, world, history
  <1>1. digest' \in Version \cup {None, Unreadable, Failed}
    BY DEF TypeOK
  <1>2. TypeOK'
    BY <1>1 DEF TypeOK
  <1>3. (ResultsType /\ SavedInv /\ HashQueueSound /\ PublishedInv)'
    BY DEF ResultsType, SavedInv, HashQueueSound, PublishedInv, LastList
  <1> QED BY <1>2, <1>3

(* The tree of a program that is started has the files of the list that    *)
(* was kept, each with a node of its own.                                  *)
LEMMA RestartTree ==
    ASSUME Inv, Restart
    PROVE  /\ DOMAIN children' = DOMAIN filelist.files
           /\ DOMAIN children' \subseteq (IF shared' THEN File ELSE {})
           /\ Range(children') \subseteq Node /\ IsInjective(children')
           /\ node' \in [Node -> NodeVal]
           /\ \A f \in DOMAIN children' : node'[children'[f]] = filelist.files[f]
  <1> DEFINE S == DOMAIN filelist.files
             at == CHOOSE at \in [S -> Node] : IsInjective(at)
  <1>1. filelist.shared \in BOOLEAN /\ filelist.files \in Listing
    BY DEF Inv, TypeOK, Saved
  <1>2. S \subseteq File /\ \A f \in S : filelist.files[f] \in NodeVal
    BY <1>1 DEF Listing, NodeVal
  <1>3. at \in [S -> Node] /\ IsInjective(at)
    <2>1. PICK all \in [File -> Node] : IsInjective(all)
      BY SharedFilesAssumption
    <2>2. [f \in S |-> all[f]] \in [S -> Node]
      BY <1>2, <2>1
    <2>3. IsInjective([f \in S |-> all[f]])
      BY <1>2, <2>1 DEF IsInjective
    <2> QED BY <2>2, <2>3
  <1>4. /\ children' = at /\ shared' = filelist.shared
        /\ node' = [n \in Node |->
                       IF \E g \in DOMAIN at : at[g] = n
                       THEN filelist.files[CHOOSE g \in DOMAIN at : at[g] = n]
                       ELSE Blank]
    BY DEF Restart, Started
  <1> HIDE DEF at
  <1>5. DOMAIN at = S /\ \A f \in S : at[f] \in Node
    BY <1>3
  <1>6. \A f \in S : (CHOOSE g \in DOMAIN at : at[g] = at[f]) = f
    BY <1>3, <1>5 DEF IsInjective
  <1>7. \A f \in S : node'[at[f]] = filelist.files[f]
    BY <1>4, <1>5, <1>6
  <1>8. node' \in [Node -> NodeVal]
    <2> SUFFICES ASSUME NEW n \in Node
                 PROVE  node'[n] \in NodeVal
      BY <1>4
    <2>1. CASE \E g \in DOMAIN at : at[g] = n
      BY <2>1, <1>2, <1>5, <1>7
    <2>2. CASE ~ \E g \in DOMAIN at : at[g] = n
      BY <2>2, <1>4, EmptyTree
    <2> QED BY <2>1, <2>2
  <1>9. S \subseteq (IF shared' THEN File ELSE {})
    BY <1>1, <1>2, <1>4 DEF Inv, SavedInv
  <1>10. Range(at) \subseteq Node
    BY <1>5 DEF Range
  <1> HIDE DEF S
  <1> QED BY <1>3, <1>4, <1>5, <1>7, <1>8, <1>9, <1>10 DEF S

LEMMA RestartInv ==
    ASSUME Inv, Restart
    PROVE  Inv'
  <1> USE DEF Restart, Started
  <1>1. TypeOK'
    BY RestartTree, EmptyQueue DEF Inv, TypeOK, Saved
  <1>2. ResultsType' /\ SavedInv'
    BY EmptyQueue DEF Inv, SavedInv, ResultsType
  <1>3. HashQueueSound'
    BY EmptyQueue DEF HashQueueSound
  <1>4. PublishedInv'
    BY ListingAssumption DEF PublishedInv
  <1> QED BY <1>1, <1>2, <1>3, <1>4 DEF Inv

(* The list that is sent is written to whichever list file is being        *)
(* written, and is then the last list.                                     *)
LEMMA FinishSendInv ==
    ASSUME Inv, FinishSend
    PROVE  Inv'
  <1> DEFINE whole == Snapshot(children, node)
  <1> USE DEF Inv
  <1>1. whole \in Listing /\ whole # None /\ whole # Writing
    <2>1. /\ node \in [Node -> NodeVal]
          /\ DOMAIN children \subseteq File /\ Range(children) \subseteq Node
      BY DEF TypeOK
    <2> QED BY <2>1, SnapshotIsListing, ListingAssumption
  <1>2. /\ new_list' = IF new_list = Writing THEN whole ELSE new_list
        /\ list' = IF list = Writing THEN whole ELSE list
        /\ results' = Append(results, whole)
        /\ pc # "loop" /\ pc' = "loop" /\ fault = "none"
        /\ UNCHANGED <<shared, children, node, hash_files, update_hash, filelist, our_filelist,
                       world, removed>>
    BY DEF FinishSend
  <1> HIDE DEF whole
  <1>3. /\ hashing' \in Node \cup {None} /\ job' \in File \cup {None}
        /\ hashing' # None => hash_files # <<>> /\ Head(hash_files) = hashing'
        /\ disturbed' \subseteq File /\ fault' \in Fault
        /\ ~removed => fault' = "none"
        /\ UNCHANGED digest
    <2>1. CASE UNCHANGED <<hashing, hasher, disturbed, fault>>
      BY <2>1, <1>2 DEF TypeOK, HashQueueSound, Fault, hasher
    <2>2. CASE HashRequest(children, node, hash_files) /\ UNCHANGED digest
      <3>1. DOMAIN children \subseteq File /\ fault \in Fault
        BY DEF TypeOK, Fault
      <3> QED BY <2>2, <3>1, <1>2, HashRequestEffect DEF TypeOK, HashQueueSound
    <2> QED BY <2>1, <2>2 DEF FinishSend
  <1>4. TypeOK'
    BY <1>1, <1>2, <1>3 DEF TypeOK, Fault, world
  <1>5. ResultsType' /\ SavedInv'
    BY <1>1, <1>2 DEF ResultsType, SavedInv
  <1>6. HashQueueSound'
    BY <1>2, <1>3 DEF HashQueueSound
  <1>7. LastList' = whole /\ results' # <<>>
    BY <1>1, <1>2 DEF ResultsType, LastList
  <1>8. PublishedInv'
    BY <1>1, <1>2, <1>7, ListingAssumption DEF PublishedInv
  <1> QED BY <1>4, <1>5, <1>6, <1>8

LEMMA RefreshInv ==
    ASSUME Inv, Refresh
    PROVE  Inv' /\ TreeEffect(shared)
  <1>1. shared \in BOOLEAN
    BY DEF Inv, TypeOK
  <1> QED BY <1>1, LookupChangesInv DEF Refresh, world

(* The result is stored in the node of the first file that waits.          *)
LEMMA HandleResultInv ==
    ASSUME Inv, HandleResult
    PROVE  Inv'
  <1> DEFINE hashed == hashing # None /\ digest # Unreadable
             wait == IF hashing # None THEN Tail(hash_files) ELSE hash_files
             nodes == IF hashed THEN [node EXCEPT ![hashing].tth = digest] ELSE node
  <1> USE DEF Inv
  <1>1. pc = "loop" /\ fault = "none" /\ digest # None /\ digest' = None
        /\ UNCHANGED <<world, removed>>
    BY DEF HandleResult, Ready
  <1>2. hashing # None => hash_files # <<>> /\ hashing \in Range(hash_files)
    BY ElementsOfSeq DEF TypeOK, HashQueueSound
  <1>3. CASE hashing # None /\ FileAt(hashing) = {}
    <2>1. fault' = "freed" /\ UNCHANGED <<tree, pc, job, filelist, published, disturbed>>
      BY <1>3 DEF HandleResult
    <2>2. hashing \notin Range(children)
      BY <1>3 DEF FileAt, Range
    <2>3. removed'
      BY <1>1, <1>2, <1>3, <2>2 DEF HashQueueSound
    <2>4. TypeOK'
      BY <1>1, <2>1 DEF TypeOK, tree, published, world
    <2>5. (ResultsType /\ SavedInv /\ PublishedInv)'
      BY <2>1 DEF ResultsType, SavedInv, PublishedInv, LastList, published
    <2>6. HashQueueSound'
      BY <2>1, <2>3 DEF HashQueueSound, tree
    <2> QED BY <2>4, <2>5, <2>6
  <1>4. CASE ~(hashing # None /\ FileAt(hashing) = {})
    <2>1. /\ hash_files' = wait /\ node' = nodes
          /\ HashRequest(children, nodes, wait)
          /\ \/ /\ Save(Saving(shared, children, nodes))
                /\ StartSend("send")
             \/ UNCHANGED <<pc, filelist, published>>
          /\ UNCHANGED <<shared, children>>
      BY <1>4 DEF HandleResult
    <2>2. wait \in Seq(Node) /\ IsInjective(wait) /\ Range(wait) \subseteq Range(hash_files)
      BY <1>2, TailDistinct DEF TypeOK, HashQueueSound
    <2>3. nodes \in [Node -> NodeVal]
      <3>1. CASE hashed
        <4>1. hashing \in Node /\ digest \in Version \cup {None, Failed}
          BY <3>1 DEF TypeOK
        <4>2. [node EXCEPT ![hashing].tth = digest] \in [Node -> NodeVal]
          BY <4>1 DEF TypeOK, NodeVal
        <4> QED BY <3>1, <4>2
      <3>2. CASE ~hashed
        BY <3>2 DEF TypeOK
      <3> QED BY <3>1, <3>2
    <2> HIDE DEF wait, nodes
    <2>4. /\ hashing' \in Node \cup {None} /\ job' \in File \cup {None}
          /\ hashing' # None => wait # <<>> /\ Head(wait) = hashing'
          /\ disturbed' \subseteq File /\ fault' \in Fault
          /\ ~removed => fault' = "none"
      <3>1. DOMAIN children \subseteq File /\ fault \in Fault
        BY DEF TypeOK, Fault
      <3> QED BY <3>1, <1>1, <2>1, <2>2, HashRequestEffect DEF TypeOK, HashQueueSound
    <2>5. filelist' \in Saved /\ SavedInv'
      BY <2>1, <2>3, SavingIsSaved DEF TypeOK, SavedInv
    <2>6. TypeOK'
      <3>1. /\ pc' \in {"loop", "send", "send then hash"}
            /\ new_list' \in Listing \cup {None, Writing}
            /\ list' \in Listing \cup {None, Writing}
            /\ our_filelist' \in Listing \cup {None}
        BY <2>1 DEF StartSend, published, TypeOK
      <3> QED BY <3>1, <1>1, <2>1, <2>2, <2>3, <2>4, <2>5 DEF TypeOK, Fault, world
    <2>7. ResultsType'
      BY <2>1 DEF ResultsType, StartSend, published
    <2>8. HashQueueSound'
      BY <1>1, <2>1, <2>2, <2>4 DEF HashQueueSound
    <2>9. PublishedInv'
      BY <1>1, <2>1 DEF PublishedInv, LastList, StartSend, published
    <2> QED BY <2>5, <2>6, <2>7, <2>8, <2>9
  <1> QED BY <1>3, <1>4

LEMMA UnshareInv ==
    ASSUME Inv, Ready, Unshare, UNCHANGED disk,
           UNCHANGED <<hash_files, hashing, update_hash, hasher, disturbed, fault>>
    PROVE  Inv'
  <1> USE DEF Inv, Unshare
  <1>1. node' \in [Node -> NodeVal]
    BY EmptyTree
  <1>2. filelist' \in Saved /\ SavedInv'
    BY EmptyTree, SavingIsSaved DEF TypeOK, SavedInv
  <1>3. TypeOK'
    BY <1>1, <1>2, EmptyTree DEF TypeOK, StartSend, hasher
  <1>4. ResultsType'
    BY DEF ResultsType, StartSend
  <1>5. HashQueueSound'
    BY EmptyTree DEF HashQueueSound
  <1>6. PublishedInv'
    BY DEF Ready, PublishedInv, LastList, StartSend
  <1> QED BY <1>2, <1>3, <1>4, <1>5, <1>6

LEMMA HandleRequestInv ==
    ASSUME Inv, HandleRequest
    PROVE  Inv'
  <1>1. Ready /\ UNCHANGED disk
    BY DEF HandleRequest
  <1>2. CASE ~shared /\ LookupChanges(TRUE)
    BY <1>1, <1>2, LookupChangesInv
  <1>3. CASE Unshare /\ UNCHANGED <<hash_files, hashing, update_hash, hasher, disturbed, fault>>
    BY <1>1, <1>3, UnshareInv
  <1>4. CASE UNCHANGED <<tree, pc, hasher, filelist, published, history>>
    BY <1>1, <1>4, StutterInv
  <1> QED BY <1>2, <1>3, <1>4 DEF HandleRequest

(* Main takes a list, and renames the new list file whether or not it is   *)
(* that list: later lists may be in it.                                    *)
LEMMA NewFileListInv ==
    ASSUME Inv, NewFileList
    PROVE  Inv'
  <1> USE DEF Inv
  <1>1. /\ results # <<>> /\ our_filelist' = Head(results) /\ results' = Tail(results)
        /\ IF new_list = None THEN UNCHANGED <<new_list, list>>
           ELSE list' = new_list /\ new_list' = None
        /\ UNCHANGED <<tree, pc, hasher, filelist, world, history>>
    BY DEF NewFileList
  <1>2. results' \in Seq(Listing) /\ our_filelist' \in Listing
    BY <1>1 DEF ResultsType
  <1>3. TypeOK'
    BY <1>1, <1>2 DEF TypeOK, tree, hasher, world, history
  <1>4. (ResultsType /\ SavedInv /\ HashQueueSound)'
    BY <1>1, <1>2 DEF ResultsType, SavedInv, HashQueueSound, tree, history
  <1>5. LastList' = LastList
    <2>1. Len(Tail(results)) = Len(results) - 1 /\ Len(results) \in Nat \ {0}
      BY <1>1 DEF ResultsType
    <2>2. CASE Len(results) = 1
      BY <1>1, <2>1, <2>2 DEF ResultsType, LastList
    <2>3. CASE Len(results) > 1
      <3>1. Tail(results)[Len(results) - 1] = results[Len(results)]
        BY <1>1, <2>3 DEF ResultsType
      <3>2. Tail(results) # <<>>
        <4>1. Len(Tail(results)) # 0
          BY <2>1, <2>3
        <4> QED BY <1>1, <1>2, <4>1, EmptySeq
      <3>3. results'[Len(results')] = results[Len(results)]
        <4>1. results' = Tail(results)
          BY <1>1
        <4> QED BY <2>1, <3>1, <4>1
      <3>4. results # <<>> /\ results' # <<>>
        BY <1>1, <3>2
      <3> QED BY <3>3, <3>4 DEF LastList
    <2> QED BY <2>1, <2>2, <2>3
  <1>6. PublishedInv'
    BY <1>1, <1>5, ListingAssumption DEF PublishedInv
  <1> QED BY <1>3, <1>4, <1>6

LEMMA NextInv ==
    ASSUME Inv, [Next]_vars
    PROVE  Inv'
  <1>1. CASE \E f \in File : Change(f)
    BY <1>1, ChangeInv
  <1>2. CASE \E r \in {"share", "unshare"} : Command(r)
    BY <1>2, StutterInv DEF Command
  <1>3. CASE Restart
    BY <1>3, RestartInv
  <1>4. CASE Hash \/ ReadFails \/ \E f \in File : OpenFails(f)
    BY <1>4, HashInv
  <1>5. CASE FinishSend
    BY <1>5, FinishSendInv
  <1>6. CASE Refresh
    BY <1>6, RefreshInv
  <1>7. CASE HandleResult
    BY <1>7, HandleResultInv
  <1>8. CASE HandleRequest
    BY <1>8, HandleRequestInv
  <1>9. CASE NewFileList
    BY <1>9, NewFileListInv
  <1>10. CASE UNCHANGED vars
    BY <1>10, StutterInv DEF vars, world
  <1> QED BY <1>1, <1>2, <1>3, <1>4, <1>5, <1>6, <1>7, <1>8, <1>9, <1>10
         DEF Next, UpdateStep

LEMMA InvHolds == Spec => []Inv
  <1>1. Inv /\ [Next]_vars => Inv'
    BY NextInv
  <1> QED BY InitInv, <1>1, PTL DEF Spec

(* The variables keep their types; in particular the tree has a node of    *)
(* its own for each file of the directory and none when it is not shared.  *)
THEOREM TypesHold == Spec => []TypeOK
  <1>1. Inv => TypeOK
    BY DEF Inv
  <1> QED BY InvHolds, <1>1, PTL

(* The files that wait are nodes of the tree, each once, and the one that  *)
(* is hashed is the first, unless a file was removed while it waited       *)
(* (hash_files of local_flist.c).                                          *)
THEOREM QueueIsSound == Spec => []HashQueueSound
  <1>1. Inv => HashQueueSound
    BY DEF Inv
  <1> QED BY InvHolds, <1>1, PTL

(* The list file that is served is the list that main searches, although   *)
(* the update process writes a list file that main may rename meanwhile    *)
(* (send_filelist, process_new_file_list).                                 *)
THEOREM PublishedHolds == Spec => []PublishedIsOurs
  <1>1. Inv => PublishedIsOurs
    BY DEF Inv, PublishedInv, PublishedIsOurs, LastList
  <1> QED BY InvHolds, <1>1, PTL

-----------------------------------------------------------------------------
(* Hashes are those of the files *)

(* What is known of a file: a hash is that of the version that is listed,  *)
(* unless the file was disturbed.                                          *)
OwnHash(entry, f, d) == entry.mtime # 0 /\ (f \notin d => entry.tth \in {None, entry.mtime})

(* The file that is hashed has the version that is listed, and a result    *)
(* that is there is its hash.                                              *)
HashingInv ==
    /\ \A f \in DOMAIN children \ disturbed :
           children[f] = hashing =>
               /\ node[hashing].mtime = disk[f]
               /\ job \in {None, f} /\ digest \in {None, Unreadable, disk[f]}
    /\ job # None => digest = None /\ hashing # None
    /\ digest # None => hashing # None

HashedInv ==
    /\ \A f \in DOMAIN children : OwnHash(node[children[f]], f, disturbed)
    /\ \A f \in DOMAIN filelist.files : OwnHash(filelist.files[f], f, disturbed)
    /\ HashingInv

LEMMA SavingHashed ==
    ASSUME NEW kids, NEW nodes, NEW s, NEW d, disturbed \subseteq d,
           \A f \in DOMAIN kids : OwnHash(nodes[kids[f]], f, d),
           \A f \in DOMAIN filelist.files : OwnHash(filelist.files[f], f, disturbed),
           Save(Saving(s, kids, nodes))
    PROVE  \A f \in DOMAIN filelist'.files : OwnHash(filelist'.files[f], f, d)
  <1>1. CASE filelist' = Saving(s, kids, nodes)
    BY <1>1 DEF Saving, Snapshot
  <1>2. CASE UNCHANGED filelist
    BY <1>2 DEF OwnHash
  <1> QED BY <1>1, <1>2 DEF Save

LEMMA HashRequestHashing ==
    ASSUME NEW kids, NEW nodes, NEW wait, IsInjective(kids), Range(kids) \subseteq Node,
           job = None, digest' = None, UNCHANGED disk,
           HashRequest(kids, nodes, wait)
    PROVE  /\ disturbed \subseteq disturbed'
           /\ \A f \in DOMAIN kids \ disturbed' :
                  kids[f] = hashing' => nodes[hashing'].mtime = disk'[f] /\ job' \in {None, f}
           /\ job' # None => hashing' # None
  <1> DEFINE at == {f \in DOMAIN kids : kids[f] = Head(wait)}
  <1>1. \A f \in DOMAIN kids : kids[f] # None
    BY SharedFilesAssumption DEF Range
  <1>2. CASE hashing' = None /\ UNCHANGED <<job, disturbed>>
    BY <1>1, <1>2
  <1>3. CASE /\ at # {} /\ hashing' = Head(wait)
             /\ \E f \in at : job' = f
             /\ disturbed' = disturbed \cup {f \in at : disk[f] # nodes[kids[f]].mtime}
    <2>1. PICK g \in at : job' = g
      BY <1>3
    <2>2. \A f \in DOMAIN kids : kids[f] = hashing' => f = g
      BY <1>3, <2>1 DEF IsInjective
    <2>3. hashing' # None
      BY <1>1, <1>3, <2>1
    <2> QED BY <1>3, <2>1, <2>2, <2>3
  <1> QED BY <1>2, <1>3 DEF HashRequest

LEMMA TreeEffectHashed ==
    ASSUME Inv, Inv', HashedInv, UNCHANGED disk, NEW s, TreeEffect(s)
    PROVE  HashedInv'
  <1>1. CASE UNCHANGED <<children, node, hash_files, hashing, hasher, filelist, disturbed>>
    BY <1>1 DEF HashedInv, HashingInv, hasher
  <1>2. CASE /\ \A f \in DOMAIN children' :
                   \/ /\ f \in DOMAIN children /\ children'[f] = children[f]
                      /\ node'[children'[f]] = node[children[f]]
                   \/ /\ node'[children'[f]] = [mtime |-> disk[f], tth |-> None]
                      /\ disk[f] # 0
                      /\ children'[f] \in Range(hash_files) =>
                            f \in DOMAIN children /\ children[f] = children'[f] /\ Changed(f)
             /\ Save(Saving(s, children', node'))
             /\ UNCHANGED digest
             /\ \/ UNCHANGED <<hashing, job, disturbed>>
                \/ hashing = None /\ HashRequest(children', node', hash_files')
    <2>1. IsInjective(children') /\ Range(children') \subseteq Node
      BY DEF Inv, TypeOK
    <2>2. hashing = None => job = None /\ digest = None
      BY DEF HashedInv, HashingInv
    <2>3. disturbed \subseteq disturbed'
      BY <1>2, <2>1, <2>2, HashRequestHashing
    <2>4. \A f \in DOMAIN children' : OwnHash(node'[children'[f]], f, disturbed')
      <3> TAKE f \in DOMAIN children'
      <3>1. CASE f \in DOMAIN children /\ node'[children'[f]] = node[children[f]]
        BY <3>1, <2>3 DEF HashedInv, OwnHash
      <3>2. CASE node'[children'[f]] = [mtime |-> disk[f], tth |-> None] /\ disk[f] # 0
        BY <3>2 DEF OwnHash
      <3> QED BY <1>2, <3>1, <3>2
    <2>5. \A f \in DOMAIN filelist'.files : OwnHash(filelist'.files[f], f, disturbed')
      BY <1>2, <2>3, <2>4, SavingHashed DEF HashedInv
    <2>6. HashingInv'
      <3>1. CASE UNCHANGED <<hashing, job, disturbed>>
        <4> SUFFICES ASSUME NEW f \in DOMAIN children' \ disturbed, children'[f] = hashing
                     PROVE  /\ node'[hashing].mtime = disk[f]
                            /\ job \in {None, f} /\ digest \in {None, Unreadable, disk[f]}
          BY <1>2, <3>1 DEF HashedInv, HashingInv
        <4>1. hashing # None
          BY <2>1, SharedFilesAssumption DEF Range
        <4>2. hashing \in Range(hash_files)
          <5>1. hash_files # <<>> /\ Head(hash_files) = hashing /\ hash_files \in Seq(Node)
            BY <4>1 DEF Inv, TypeOK, HashQueueSound
          <5> QED BY <5>1, ElementsOfSeq
        <4>3. ~(f \in DOMAIN children /\ children[f] = hashing /\ Changed(f))
          <5>1. (f \in DOMAIN children /\ children[f] = hashing) => node[hashing].mtime = disk[f]
            BY DEF HashedInv, HashingInv
          <5> QED BY <5>1 DEF Changed
        <4>4. f \in DOMAIN children /\ children[f] = hashing /\ node'[hashing] = node[hashing]
          BY <1>2, <4>2, <4>3
        <4> QED BY <4>4 DEF HashedInv, HashingInv
      <3>2. CASE hashing = None /\ HashRequest(children', node', hash_files')
        BY <1>2, <2>1, <2>2, <3>2, HashRequestHashing DEF HashingInv
      <3> QED BY <1>2, <3>1, <3>2
    <2> QED BY <2>4, <2>5, <2>6 DEF HashedInv
  <1> QED BY <1>1, <1>2 DEF TreeEffect

LEMMA HandleResultHashed ==
    ASSUME Inv, HashedInv, HandleResult
    PROVE  HashedInv'
  <1> DEFINE hashed == hashing # None /\ digest # Unreadable
             wait == IF hashing # None THEN Tail(hash_files) ELSE hash_files
             nodes == IF hashed THEN [node EXCEPT ![hashing].tth = digest] ELSE node
  <1>1. digest # None /\ digest' = None /\ UNCHANGED disk
    BY DEF HandleResult, world
  <1>2. job = None /\ hashing # None
    BY <1>1 DEF HashedInv, HashingInv
  <1>3. CASE FileAt(hashing) = {}
    <2>1. UNCHANGED <<tree, job, filelist, disturbed>>
      BY <1>2, <1>3 DEF HandleResult
    <2> QED BY <1>1, <1>2, <2>1 DEF HashedInv, HashingInv, tree
  <1>4. CASE FileAt(hashing) # {}
    <2>1. /\ node' = nodes /\ UNCHANGED children
          /\ HashRequest(children, nodes, wait)
          /\ Save(Saving(shared, children, nodes))
      BY <1>4 DEF HandleResult, Save
    <2>2. IsInjective(children) /\ Range(children) \subseteq Node /\ node \in [Node -> NodeVal]
      BY DEF Inv, TypeOK
    <2>3. \A f \in DOMAIN children :
             /\ nodes[children[f]].mtime = node[children[f]].mtime
             /\ nodes[children[f]].tth = IF hashed /\ children[f] = hashing
                                         THEN digest ELSE node[children[f]].tth
      <3> TAKE f \in DOMAIN children
      <3>1. children[f] \in Node /\ node[children[f]] \in NodeVal
        BY <2>2 DEF Range
      <3> QED BY <2>2, <3>1 DEF NodeVal
    <2> HIDE DEF nodes, wait
    <2>4. \A f \in DOMAIN children : OwnHash(nodes[children[f]], f, disturbed)
      BY <1>1, <2>3 DEF HashedInv, HashingInv, OwnHash
    <2>5. /\ disturbed \subseteq disturbed'
          /\ \A f \in DOMAIN children \ disturbed' :
                 children[f] = hashing' => nodes[hashing'].mtime = disk'[f] /\ job' \in {None, f}
          /\ job' # None => hashing' # None
      BY <1>1, <1>2, <2>1, <2>2, HashRequestHashing
    <2>6. \A f \in DOMAIN children : OwnHash(nodes[children[f]], f, disturbed')
      BY <2>4, <2>5 DEF OwnHash
    <2>7. \A f \in DOMAIN filelist'.files : OwnHash(filelist'.files[f], f, disturbed')
      BY <2>1, <2>5, <2>6, SavingHashed DEF HashedInv
    <2>8. HashingInv'
      BY <1>1, <2>1, <2>5 DEF HashingInv
    <2> QED BY <2>1, <2>6, <2>7, <2>8 DEF HashedInv
  <1> QED BY <1>3, <1>4

LEMMA FinishSendHashed ==
    ASSUME Inv, HashedInv, FinishSend
    PROVE  HashedInv'
  <1>1. UNCHANGED <<children, node, filelist, disk>>
    BY DEF FinishSend, world
  <1>2. IsInjective(children) /\ Range(children) \subseteq Node
    BY DEF Inv, TypeOK
  <1>3. CASE UNCHANGED <<hashing, hasher, disturbed>>
    BY <1>1, <1>3 DEF HashedInv, HashingInv, hasher
  <1>4. CASE hashing = None /\ HashRequest(children, node, hash_files) /\ UNCHANGED digest
    <2>1. job = None /\ digest = None
      BY <1>4 DEF HashedInv, HashingInv
    <2>2. /\ disturbed \subseteq disturbed'
          /\ \A f \in DOMAIN children \ disturbed' :
                 children[f] = hashing' => node[hashing'].mtime = disk'[f] /\ job' \in {None, f}
          /\ job' # None => hashing' # None
      BY <1>1, <1>2, <1>4, <2>1, HashRequestHashing
    <2>3. HashingInv'
      BY <1>1, <1>4, <2>1, <2>2 DEF HashingInv
    <2> QED BY <1>1, <2>2, <2>3 DEF HashedInv, OwnHash
  <1> QED BY <1>3, <1>4 DEF FinishSend

LEMMA NextHashed ==
    ASSUME Inv, Inv', HashedInv, [Next]_vars
    PROVE  HashedInv'
  <1>1. ASSUME NEW g \in File, Change(g)
        PROVE  HashedInv'
    <2> USE <1>1 DEF Change, tree, hasher, HashedInv
    <2>1. disturbed \subseteq disturbed'
      OBVIOUS
    <2>2. HashingInv'
      <3> SUFFICES ASSUME NEW f \in DOMAIN children \ disturbed', children[f] = hashing
                   PROVE  disk'[f] = disk[f]
        BY <2>1 DEF HashingInv
      <3>1. f # g
        BY DEF FileAt
      <3>2. f \in File
        BY DEF Inv, TypeOK
      <3> QED BY <3>1, <3>2 DEF Inv, TypeOK
    <2> QED BY <2>1, <2>2 DEF OwnHash
  <1>2. CASE UNCHANGED <<tree, hasher, filelist, disk, disturbed>>
    BY <1>2 DEF HashedInv, HashingInv, tree, hasher
  <1>3. CASE Restart
    <2>1. /\ DOMAIN children' = DOMAIN filelist.files /\ Range(children') \subseteq Node
          /\ \A f \in DOMAIN children' : node'[children'[f]] = filelist.files[f]
      BY <1>3, RestartTree
    <2>2. /\ hashing' = None /\ job' = None /\ digest' = None
          /\ UNCHANGED <<filelist, disk, disturbed>>
      BY <1>3 DEF Restart, Started
    <2>3. \A f \in DOMAIN children' : children'[f] # None
      BY <2>1, SharedFilesAssumption DEF Range
    <2> QED BY <2>1, <2>2, <2>3 DEF HashedInv, HashingInv
  <1>4. CASE Hash
    <2> USE <1>4 DEF Hash, tree, world, history, HashedInv
    <2>1. HashingInv'
      <3> SUFFICES ASSUME NEW f \in DOMAIN children \ disturbed, children[f] = hashing
                   PROVE  digest' = disk[f]
        BY DEF HashingInv
      <3>1. job = f /\ disk[f] = node[children[f]].mtime
        BY DEF HashingInv
      <3>2. disk[f] # 0
        BY <3>1 DEF OwnHash
      <3> QED BY <3>1, <3>2
    <2> QED BY <2>1
  <1>12. CASE ReadFails \/ \E f \in File : OpenFails(f)
    <2> USE DEF ReadFails, OpenFails, tree, history
    <2>1. HashingInv'
      BY <1>12 DEF HashedInv, HashingInv
    <2>2. UNCHANGED <<children, node, filelist, disturbed>>
      BY <1>12
    <2> QED BY <2>1, <2>2 DEF HashedInv, OwnHash
  <1>5. CASE FinishSend
    BY <1>5, FinishSendHashed
  <1>6. CASE Refresh
    BY <1>6, RefreshInv, TreeEffectHashed DEF Refresh, world
  <1>7. CASE HandleResult
    BY <1>7, HandleResultHashed
  <1>8. CASE HandleRequest
    <2>1. CASE ~shared /\ LookupChanges(TRUE)
      BY <1>8, <2>1, LookupChangesInv, TreeEffectHashed DEF HandleRequest
    <2>2. CASE Unshare /\ UNCHANGED <<hash_files, hashing, update_hash, hasher, disturbed, fault>>
      <3>1. children' = NoFiles /\ Save(Saving(FALSE, NoFiles, node)) /\ UNCHANGED disk
        BY <1>8, <2>2 DEF Unshare, HandleRequest
      <3>2. \A f \in DOMAIN filelist'.files : OwnHash(filelist'.files[f], f, disturbed)
        BY <3>1, EmptyTree, SavingHashed DEF HashedInv
      <3> QED BY <2>2, <3>1, <3>2, EmptyTree DEF HashedInv, HashingInv, hasher
    <2>3. CASE UNCHANGED <<tree, pc, hasher, filelist, published, history>>
      BY <1>2, <1>8, <2>3 DEF HandleRequest, history
    <2> QED BY <1>8, <2>1, <2>2, <2>3 DEF HandleRequest
  <1>9. CASE NewFileList
    BY <1>2, <1>9 DEF NewFileList, world, history
  <1>10. CASE \E r \in {"share", "unshare"} : Command(r)
    BY <1>2, <1>10 DEF Command, history
  <1>11. CASE UNCHANGED vars
    BY <1>2, <1>11 DEF vars, world, history
  <1> QED BY <1>1, <1>3, <1>4, <1>5, <1>6, <1>7, <1>8, <1>9, <1>10, <1>11, <1>12
         DEF Next, UpdateStep

LEMMA InitHashed == Init => HashedInv
  BY EmptyTree DEF Init, HashedInv, HashingInv

(* A hash in the tree and in the list that is kept is that of the file's   *)
(* version, unless the file changed while it was hashed: the result of the *)
(* hash process is never stored with another file, or with a later version *)
(* (handle_hash_result, lookup_filelist_changes).                          *)
THEOREM HashesAreOfFiles == Spec => []TthIsOfFile
  <1>1. Init => Inv /\ HashedInv
    BY InitInv, InitHashed
  <1>2. Inv /\ HashedInv /\ [Next]_vars => (Inv /\ HashedInv)'
    BY NextInv, NextHashed
  <1>3. HashedInv => TthIsOfFile
    BY DEF HashedInv, OwnHash, TthIsOfFile, Snapshot
  <1> QED BY <1>1, <1>2, <1>3, PTL DEF Spec

=============================================================================
