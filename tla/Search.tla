------------------------------- MODULE Search -------------------------------
(***************************************************************************)
(* Our own searches and their results (search.c, command.c).  A result is  *)
(* one structure that every search it fits shares.  What a search asks for *)
(* and what a result says are abstract; which results fit is Fits.         *)
(***************************************************************************)
EXTENDS Integers, Sequences, FiniteSets, SequencesExt

CONSTANTS
    Selection,    \* what a search can ask for
    Answer,       \* what a result can say: the user, the file, its size
    Fits,         \* the pairs of a selection and an answer that match
    Address,      \* addresses of results, numbers
    Threshold,    \* SEARCH_TIME_THRESHOLD
    MaxSearches   \* bound: searches that are listed

VARIABLES
    our_searches,   \* what they ask, their results, and the time since the issue
    response        \* the results in memory, with their reference counts

vars == <<our_searches, response>>

Init == our_searches = <<>> /\ response = [a \in {} |-> {}]

Live == DOMAIN response
Open(sd) == sd.age < Threshold
Said(sd) == {response[sd.results[i]].answer : i \in 1..Len(sd.results)}

-----------------------------------------------------------------------------
(* Issuing and ageing *)

(* add_search_request_type: the same search is issued again, and open for  *)
(* as long again.                                                          *)
AddSearchRequest(s) ==
    LET c == SelectInSeq(our_searches, LAMBDA sd : sd.selection = s)
    IN  /\ IF c # 0
           THEN our_searches' = [our_searches EXCEPT ![c].age = 0]
           ELSE /\ Len(our_searches) < MaxSearches
                /\ our_searches' = Append(our_searches, [selection |-> s, results |-> <<>>, age |-> 0])
        /\ UNCHANGED response

(* Time passes; an older search is as old as one at the threshold.         *)
Tick ==
    /\ \E c \in 1..Len(our_searches) : Open(our_searches[c])
    /\ our_searches' = [c \in 1..Len(our_searches) |->
           [our_searches[c] EXCEPT !.age = IF @ < Threshold THEN @ + 1 ELSE @]]
    /\ UNCHANGED response

-----------------------------------------------------------------------------
(* Results *)

(* The searches to which an answer is added.                               *)
Takes(sd, answer) == Open(sd) /\ <<sd.selection, answer>> \in Fits /\ answer \notin Said(sd)

\* Variants of HandleSearchResult: a result counts the first search that takes
\* it only; a search takes results whatever its age.
HandleSearchResultUncounted(answer) ==
    LET a == CHOOSE a \in Address \ Live : \A b \in Address \ Live : a <= b
        takers == {c \in 1..Len(our_searches) : Takes(our_searches[c], answer)}
    IN  /\ Address # Live
        /\ our_searches' = [c \in 1..Len(our_searches) |->
               IF c \in takers THEN [our_searches[c] EXCEPT !.results = Append(@, a)]
               ELSE our_searches[c]]
        /\ response' = IF takers = {} THEN response
                       ELSE [b \in Live \cup {a} |->
                                IF b = a THEN [answer |-> answer, refcount |-> 1] ELSE response[b]]

HandleSearchResultAnyAge(answer) ==
    LET a == CHOOSE a \in Address \ Live : \A b \in Address \ Live : a <= b
        takers == {c \in 1..Len(our_searches) :
                      /\ <<our_searches[c].selection, answer>> \in Fits
                      /\ answer \notin Said(our_searches[c])}
    IN  /\ Address # Live
        /\ our_searches' = [c \in 1..Len(our_searches) |->
               IF c \in takers THEN [our_searches[c] EXCEPT !.results = Append(@, a)]
               ELSE our_searches[c]]
        /\ response' = IF takers = {} THEN response
                       ELSE [b \in Live \cup {a} |->
                                IF b = a THEN [answer |-> answer, refcount |-> Cardinality(takers)]
                                ELSE response[b]]

(* handle_search_result with parse_search_response: a new structure, whose *)
(* first reference is given up at the end, so that it is freed if no       *)
(* search takes it.  Any free address would do.                            *)
HandleSearchResult(answer) ==
    LET a == CHOOSE a \in Address \ Live : \A b \in Address \ Live : a <= b
        takers == {c \in 1..Len(our_searches) : Takes(our_searches[c], answer)}
    IN  /\ Address # Live
        /\ our_searches' = [c \in 1..Len(our_searches) |->
               IF c \in takers THEN [our_searches[c] EXCEPT !.results = Append(@, a)]
               ELSE our_searches[c]]
        /\ response' = IF takers = {} THEN response
                       ELSE [b \in Live \cup {a} |->
                                IF b = a THEN [answer |-> answer, refcount |-> Cardinality(takers)]
                                ELSE response[b]]

-----------------------------------------------------------------------------
(* Removing *)

(* free_search_request: every result loses a reference, and is freed with  *)
(* the last.                                                               *)
Released(objects, results) ==
    LET less == [a \in DOMAIN objects |->
                    IF a \in ToSet(results) THEN [objects[a] EXCEPT !.refcount = @ - 1]
                    ELSE objects[a]]
    IN  [a \in {a \in DOMAIN objects : less[a].refcount > 0} |-> less[a]]

\* Variant of Unlisted: the index is taken as counting from zero.
UnlistedFromZero(s, index) ==
    IF index = Len(s.list) THEN s
    ELSE [list |-> RemoveAt(s.list, index + 1),
          objects |-> Released(s.objects, s.list[index + 1].results)]

(* One index of unsearch.                                                  *)
Unlisted(s, index) ==
    [list |-> RemoveAt(s.list, index), objects |-> Released(s.objects, s.list[index].results)]

RECURSIVE UnlistedAll(_, _)
UnlistedAll(s, indexes) ==
    IF indexes = <<>> \/ Head(indexes) \notin 1..Len(s.list) THEN s
    ELSE UnlistedAll(Unlisted(s, Head(indexes)), Tail(indexes))

(* cmd_unsearch: one index after the other, until one is not valid.        *)
Unsearch(indexes) ==
    LET s == UnlistedAll([list |-> our_searches, objects |-> response], indexes)
    IN  our_searches' = s.list /\ response' = s.objects

IndexLists == {<<i>> : i \in 1..MaxSearches} \cup (1..MaxSearches) \X (1..MaxSearches)

Next ==
    \/ \E s \in Selection : AddSearchRequest(s)
    \/ \E answer \in Answer : HandleSearchResult(answer)
    \/ \E indexes \in IndexLists : Unsearch(indexes)
    \/ Tick

Spec == Init /\ [][Next]_vars

-----------------------------------------------------------------------------
(* Properties *)

Holders(a) == {c \in 1..Len(our_searches) : a \in ToSet(our_searches[c].results)}

(* A result in memory is counted once for each search that shows it, and   *)
(* every result that is shown is in memory, however results and searches   *)
(* come and go.                                                            *)
CountIsHolders ==
    /\ \A c \in 1..Len(our_searches) : ToSet(our_searches[c].results) \subseteq Live
    /\ \A a \in Live : response[a].refcount = Cardinality(Holders(a)) /\ Holders(a) # {}

(* A search does not show a result twice, also after it was issued again   *)
(* and everybody answers again; and no search is listed twice.             *)
NothingTwice ==
    /\ \A c \in 1..Len(our_searches) :
           Cardinality(Said(our_searches[c])) = Len(our_searches[c].results)
    /\ \A c, d \in 1..Len(our_searches) :
           our_searches[c].selection = our_searches[d].selection => c = d

(* "Add no more results to searches after this many seconds" (microdc.h:43), *)
(* and add only what they ask for.  The results that a search has keep     *)
(* their numbers, by which getresult is given them.                        *)
OnlyOpenOnesGrow ==
    [][\A c \in 1..Len(our_searches), d \in 1..Len(our_searches') :
           our_searches[c].selection = our_searches'[d].selection =>
               LET old == our_searches[c].results
                   new == our_searches'[d].results
               IN  /\ IsPrefix(old, new)
                   /\ old # new =>
                          /\ Open(our_searches[c])
                          /\ <<our_searches[c].selection, response'[Last(new)].answer>> \in Fits]_vars

NotNamed(list, indexes) ==
    LET kept == SetToSortSeq(1..Len(list) \ ToSet(indexes), LAMBDA i, j : i < j)
    IN  [k \in 1..Len(kept) |-> list[kept[k]].selection]

Asked(list) == [c \in 1..Len(list) |-> list[c].selection]

(* unsearch removes the searches that it names, if it names them from the  *)
(* last to the first.                                                      *)
UnsearchFromTheLast ==
    [][\A i, j \in 1..Len(our_searches) :
           i > j /\ Unsearch(<<i, j>>) => Asked(our_searches') = NotNamed(our_searches, <<i, j>>)]_vars

SearchesSound ==
    [](CountIsHolders /\ NothingTwice) /\ OnlyOpenOnesGrow /\ UnsearchFromTheLast
=============================================================================
