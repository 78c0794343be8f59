------------------------------- MODULE Ranges -------------------------------
(***************************************************************************)
(* The ranges of queue positions that unqueue takes (common/range.c,       *)
(* command.c).  Digits are those of a small base, and numbers have the few *)
(* bits of Width.                                                          *)
(***************************************************************************)
EXTENDS Integers, Sequences, SequencesExt

CONSTANTS
    Digit,      \* the digits, characters in their order
    Width,      \* a number is uint32_t: what its values are counted modulo
    MaxText     \* bound: characters

Character == ToSet(Digit) \cup {"-", ",", "x"}
Text == SeqOf(Character, MaxText)

DigitsAt(text, i) ==      \* the digits from position i on
    SelectSeq([k \in 1..Len(text) |-> k],
              LAMBDA k : k >= i /\ \A j \in i..k : text[j] \in ToSet(Digit))
Value(c) == SelectInSeq(Digit, LAMBDA d : d = c) - 1

-----------------------------------------------------------------------------
(* foreach_in_range *)

(* pop_token: a number, a single character, or the end.                    *)
PopToken(text, i) ==
    LET digits == DigitsAt(text, i)
    IN  IF i > Len(text) THEN [type |-> "end", num |-> 0, next |-> i]
        ELSE IF digits = <<>> THEN [type |-> text[i], num |-> 0, next |-> i + 1]
        ELSE [type |-> "#",
              num |-> FoldLeft(LAMBDA n, k : (n * Len(Digit) + Value(text[k])) % Width, 0, digits),
              next |-> Last(digits) + 1]

Invalid == [valid |-> FALSE, ranges |-> <<>>]
Valid(ranges) == [valid |-> TRUE, ranges |-> ranges]

InRange(t, end) == t.type = "#" /\ 1 <= t.num /\ t.num <= end

RECURSIVE Loop(_, _, _, _)
RECURSIVE AfterRange(_, _, _, _)

\* Variants of AfterRange: another character may follow; the rest is left.
AfterRangeAny(text, t, end, ranges) ==
    IF t.type = "end" THEN Valid(ranges) ELSE Loop(text, PopToken(text, t.next), end, ranges)

AfterRangeNone(text, t, end, ranges) ==
    IF t.type \in {"end", ","} THEN Valid(ranges) ELSE Invalid

(* A range is complete, t follows.                                         *)
AfterRange(text, t, end, ranges) ==
    IF t.type = "end" THEN Valid(ranges)
    ELSE IF t.type = "," THEN Loop(text, PopToken(text, t.next), end, ranges)
    ELSE Invalid

(* The iterations; t is the first token of a range.                        *)
Loop(text, t, end, ranges) ==
    LET u == PopToken(text, t.next)
        v == PopToken(text, u.next)
    IN  IF t.type = "-"
        THEN IF InRange(u, end) THEN AfterRange(text, v, end, Append(ranges, <<1, u.num>>)) ELSE Invalid
        ELSE IF ~InRange(t, end) THEN Invalid
        ELSE IF u.type \in {"end", ","} THEN AfterRange(text, u, end, Append(ranges, <<t.num, t.num>>))
        ELSE IF u.type # "-" THEN Loop(text, v, end, ranges)      \* no case for it
        ELSE IF v.type \in {"end", ","} THEN AfterRange(text, v, end, Append(ranges, <<t.num, end>>))
        ELSE IF InRange(v, end) THEN AfterRange(text, PopToken(text, v.next), end, Append(ranges, <<t.num, v.num>>))
        ELSE Invalid

ForeachInRange(text, end) ==
    IF PopToken(text, 1).type = "end" THEN Valid(<<>>) ELSE Loop(text, PopToken(text, 1), end, <<>>)

(* removed_queued_by_range, for all ranges after the first pass has found  *)
(* them valid: the positions that unqueue removes.                         *)
Removed(text, end) == UNION {r[1]..r[2] : r \in ToSet(ForeachInRange(text, end).ranges)}

-----------------------------------------------------------------------------
(* The grammar in the comment of range.c, for reference *)

Commas(text) == SelectSeq([k \in 1..Len(text) |-> k], LAMBDA k : text[k] = ",")
Exprs(text) ==
    LET cuts == <<0>> \o Commas(text) \o <<Len(text) + 1>>
    IN  [e \in 1..(Len(cuts) - 1) |-> SubSeq(text, cuts[e] + 1, cuts[e + 1] - 1)]

Numeral(s) == s # <<>> /\ ToSet(s) \subseteq ToSet(Digit)
Number(s) == FoldLeft(LAMBDA n, c : n * Len(Digit) + Value(c), 0, s)

Dash(e) == SelectInSeq(e, LAMBDA c : c = "-")
Lower(e) == IF Dash(e) = 0 THEN e ELSE SubSeq(e, 1, Dash(e) - 1)
Upper(e) == IF Dash(e) = 0 THEN e ELSE SubSeq(e, Dash(e) + 1, Len(e))
IsExpr(e) ==
    /\ e # <<>> /\ e # <<"-">>
    /\ Lower(e) = <<>> \/ Numeral(Lower(e))
    /\ Upper(e) = <<>> \/ Numeral(Upper(e))

InGrammar(text) == text = <<>> \/ \A e \in ToSet(Exprs(text)) : IsExpr(e)

Numerals(text) == {s \in UNION {{Lower(e), Upper(e)} : e \in ToSet(Exprs(text))} : s # <<>>}
Named(e, end) ==
    (IF Lower(e) = <<>> THEN 1 ELSE Number(Lower(e)))..(IF Upper(e) = <<>> THEN end ELSE Number(Upper(e)))

-----------------------------------------------------------------------------
(* Properties of the positions of one text in a queue *)

(* Nothing outside the queue, which removed_queued_by_range would read     *)
(* behind its end, also with numbers that wrap around and ranges that are  *)
(* the wrong way round.                                                    *)
InQueue(text, end) == \A r \in ToSet(ForeachInRange(text, end).ranges) : r[1] \in 1..end /\ r[2] \in 1..end

(* A text of the grammar whose numbers fit into 32 bits is valid exactly   *)
(* if all its numbers are positions of the queue, and then it names what   *)
(* it says.                                                                *)
AsNamed(text, end) ==
    text # <<>> /\ InGrammar(text) /\ (\A s \in Numerals(text) : Number(s) < Width) =>
        /\ ForeachInRange(text, end).valid <=> \A s \in Numerals(text) : Number(s) \in 1..end
        /\ ForeachInRange(text, end).valid =>
               Removed(text, end) = UNION {Named(e, end) : e \in ToSet(Exprs(text))}

(* What the grammar does not have is not valid, as long as it is made of   *)
(* digits, dashes and commas.  "It implements the following yacc/bison     *)
(* parser" (range.c:28), but a number may also be followed by any other    *)
(* character, which is then dropped with the number.                       *)
OthersInvalid(text, end) ==
    ~InGrammar(text) /\ "x" \notin ToSet(text) => ~ForeachInRange(text, end).valid
=============================================================================
