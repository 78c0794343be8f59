----------------------------- MODULE TextSearch -----------------------------
(***************************************************************************)
(* How the words of a search are found in a name (search.c): the query is  *)
(* split at dollar signs, and each word is looked for with Sunday's quick  *)
(* search, which skips ahead by the character behind the window.           *)
(***************************************************************************)
EXTENDS Integers, Sequences, FiniteSets, SequencesExt

CONSTANTS
    Letter,       \* the letters of a name
    Lower,        \* a letter in lower case
    Dollar,       \* separates the words of a query
    Nul,          \* the character that ends a string
    MaxQuery, MaxName     \* bounds: the longest query and the longest name

InLower(s) == [i \in 1..Len(s) |-> Lower[s[i]]]

-----------------------------------------------------------------------------
(* Splitting *)

(* parse_search_strings: the words from a position on.  A dollar sign ends *)
(* a word unless it is the first character or follows another one.         *)
RECURSIVE Words(_, _)
Words(s, from) ==
    LET ends == {i \in from..Len(s) : s[i] = Dollar}
        end == IF ends = {} THEN Len(s) + 1 ELSE CHOOSE i \in ends : \A j \in ends : i <= j
        word == SubSeq(s, from, end - 1)
        rest == IF ends = {} THEN <<>> ELSE Words(s, end + 1)
    IN  IF from > Len(s) THEN <<>>
        ELSE IF ends # {} /\ (end = 1 \/ s[end - 1] = Dollar) THEN rest
        ELSE <<InLower(word)>> \o rest

ParseSearchStrings(s) == Words(s, 1)

-----------------------------------------------------------------------------
(* Searching *)

(* delta of search_string_new: from the last place of a character in the   *)
(* word to behind its end.                                                 *)
Delta(word, c) ==
    LET places == {i \in 1..Len(word) : word[i] = c}
    IN  IF places = {} THEN Len(word) + 1
        ELSE Len(word) + 1 - (CHOOSE i \in places : \A j \in places : j <= i)

(* The character at an offset of a string that Nul ends.                   *)
At(s, offset) == IF offset >= Len(s) THEN Nul ELSE Lower[s[offset + 1]]

\* Variant of Skip: by the last character of the window.
SkipByLast(text, word, t) ==
    Delta(word, IF Len(word) = 0 THEN Nul ELSE At(text, t + Len(word) - 1))

(* How far the window moves: the character behind it decides.              *)
Skip(text, word, t) == Delta(word, At(text, t + Len(word)))

(* The loop of match_search_pattern from an offset on.                     *)
RECURSIVE FoundFrom(_, _, _)
FoundFrom(text, word, t) ==
    /\ t <= Len(text) - Len(word)
    /\ \/ \A i \in 1..Len(word) : word[i] = At(text, t + i - 1)
       \/ FoundFrom(text, word, t + Skip(text, word, t))

MatchSearchPattern(text, word) == FoundFrom(text, word, 0)

(* match_search_patterns: all words are needed.                            *)
MatchSearchPatterns(text, words) == \A i \in 1..Len(words) : MatchSearchPattern(text, words[i])

-----------------------------------------------------------------------------
(* Properties *)

Letters(s) == {s[i] : i \in 1..Len(s)}

(* The runs of letters of the query, one after the other.                  *)
Fields(s) ==
    LET Run(i, j) == /\ Dollar \notin Letters(SubSeq(s, i, j))
                     /\ i = 1 \/ s[i - 1] = Dollar
                     /\ j = Len(s) \/ s[j + 1] = Dollar
        runs == {r \in (1..Len(s)) \X (1..Len(s)) : r[1] <= r[2] /\ Run(r[1], r[2])}
        inOrder == SetToSortSeq(runs, LAMBDA r, q : r[1] < q[1])
    IN  [k \in 1..Len(inOrder) |-> InLower(SubSeq(s, inOrder[k][1], inOrder[k][2]))]

(* A name is found exactly if every field between dollar signs that is not *)
(* empty occurs in it, in whatever case and wherever dollar signs stand:   *)
(* no word is lost or empty, and the window never skips a match.           *)
FoundIfContained ==
    \A query \in SeqOf(Letter \cup {Dollar}, MaxQuery), name \in SeqOf(Letter, MaxName) :
        LET lower == InLower(name)
            Occurs(w) == \E i \in 0..Len(name) - Len(w) : SubSeq(lower, i + 1, i + Len(w)) = w
        IN  MatchSearchPatterns(name, ParseSearchStrings(query))
                <=> \A k \in 1..Len(Fields(query)) : Occurs(Fields(query)[k])
=============================================================================
