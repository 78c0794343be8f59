------------------------------ MODULE Strings ------------------------------
(***************************************************************************)
(* The helpers under the rest of the client: strings that grow (strbuf.c), *)
(* pointer vectors (ptrv.c), binary search (bksearch.c), numbers as text   *)
(* (intutil.c) and texts that are joined and split (util.c, screen.c).     *)
(* A text is a sequence of characters; a buffer is a function from its     *)
(* addresses, which is copied cell by cell, so that a write beyond what    *)
(* was allocated is seen.                                                  *)
(***************************************************************************)
EXTENDS Integers, Sequences, SequencesExt, FiniteSets

CONSTANTS
    Letter,       \* characters without a meaning
    Limit,        \* largest value of a number: 255 for uint8_t
    TextMax,      \* bound: characters of a text
    SizeMax,      \* bound: numbers, elements and widths
    Rank,         \* function from letters to their order, for both cases
    Node          \* entries of a directory

Nul == "0"
Garbage == "?"
Beyond == "!"     \* a cell outside the allocation

Cells(text) == [i \in 0..Len(text) |-> IF i = Len(text) THEN Nul ELSE text[i + 1]]

-----------------------------------------------------------------------------
(* strbuf.c *)

\* buf holds capacity cells; broken says that another one was written.
NewWithCapacity(capacity) ==
    [buf |-> [i \in 0..capacity - 1 |-> IF i = 0 THEN Nul ELSE Garbage],
     len |-> 0, capacity |-> capacity, broken |-> FALSE]

(* normalize_strbuf_pos: negative positions count from the end.            *)
NormalizePos(sb, pos) ==
    IF pos >= sb.len THEN sb.len
    ELSE IF pos >= 0 THEN pos
    ELSE IF pos + 1 + sb.len >= 0 THEN pos + 1 + sb.len ELSE 0

(* normalize_str_pos.                                                      *)
NormalizeStrPos(str, pos) ==
    IF pos >= 0 THEN Min({pos, Len(str)})
    ELSE IF pos + 1 + Len(str) >= 0 THEN pos + 1 + Len(str) ELSE 0

(* strbuf_ensure_capacity.                                                 *)
EnsureCapacity(sb, min) ==
    IF min <= sb.capacity THEN sb
    ELSE LET capacity == Max({min, sb.len * 2 + 2})
         IN  [sb EXCEPT !.capacity = capacity,
                        !.buf = [i \in 0..capacity - 1 |->
                                     IF sb.len = 0 /\ i = 0 THEN Nul
                                     ELSE IF i < sb.capacity THEN sb.buf[i] ELSE Garbage]]

(* memmove and memcpy into the buffer, from a function of cells.           *)
Move(sb, to, from, at, count) ==
    [sb EXCEPT
        !.buf = [i \in DOMAIN @ |->
                     IF i \in to..to + count - 1
                     THEN IF at + i - to \in DOMAIN from THEN from[at + i - to] ELSE Beyond
                     ELSE @[i]],
        !.broken = @ \/ to + count > sb.capacity
                     \/ \E i \in at..at + count - 1 : i \notin DOMAIN from]

(* strbuf_replace_data_n.                                                  *)
ReplaceData(sb, sp, ep, times, mem) ==
    LET one == NormalizePos(sb, sp)
        two == NormalizePos(sb, ep)
        start == Min({one, two})
        end == Max({one, two})
        addlen == Len(mem) * times
        grown == EnsureCapacity(sb, sb.len + 1 - (end - start) + addlen)
        moved == IF addlen = end - start THEN sb
                 ELSE [Move(grown, start + addlen, grown.buf, end, sb.len + 1 - end)
                          EXCEPT !.len = @ + addlen - (end - start)]
    IN  FoldLeft(LAMBDA s, k : Move(s, start + (k - 1) * Len(mem), Cells(mem), 0, Len(mem)),
                 moved, [k \in 1..times |-> k])

(* strbuf_replace_substring_n: append, prepend, insert, delete and set are *)
(* macros over it.                                                         *)
ReplaceSubstring(sb, sp, ep, times, substr, subsp, subep) ==
    LET one == NormalizeStrPos(substr, subsp)
        two == NormalizeStrPos(substr, subep)
    IN  ReplaceData(sb, sp, ep, times, SubSeq(substr, Min({one, two}) + 1, Max({one, two})))

(* strbuf_new_from_substring_n and strbuf_new_from_data_n.                 *)
NewFromSubstring(times, substr, subsp, subep) ==
    LET one == NormalizeStrPos(substr, subsp)
        two == NormalizeStrPos(substr, subep)
        mem == SubSeq(substr, Min({one, two}) + 1, Max({one, two}))
        len == Len(mem) * times
        copied == FoldLeft(LAMBDA s, k : Move(s, (k - 1) * Len(mem), Cells(mem), 0, Len(mem)),
                           NewWithCapacity(len + 1), [k \in 1..times |-> k])
    IN  Move([copied EXCEPT !.len = len], len, Cells(<<>>), 0, 1)

(* strbuf_free_to_substring.                                               *)
FreeToSubstring(sb, sp, ep) ==
    LET start == NormalizePos(sb, sp)
        end == NormalizePos(sb, ep)
        moved == IF start = 0 THEN sb ELSE Move(sb, 0, sb.buf, start, end - start)
    IN  Move(moved, end - start, Cells(<<>>), 0, 1)

(* strbuf_substring.                                                       *)
Substring(sb, sp, ep) ==
    LET start == Min({NormalizePos(sb, sp), NormalizePos(sb, ep)})
        end == Max({NormalizePos(sb, sp), NormalizePos(sb, ep)})
        str == Move(NewWithCapacity(end - start + 1), 0, sb.buf, start, end - start + 1)
    IN  Move(str, end - start, Cells(<<>>), 0, 1)

(* strbuf_set_length.                                                      *)
SetLength(sb, length) ==
    [Move(EnsureCapacity(sb, length + 1), length, Cells(<<>>), 0, 1) EXCEPT !.len = length]

\* The string that a buffer holds, up to its first zero.
Text(sb) ==
    LET ends == {i \in DOMAIN sb.buf : sb.buf[i] = Nul}
    IN  [i \in 1..Min(ends) |-> sb.buf[i - 1]]

-----------------------------------------------------------------------------
(* ptrv.c: len is cur, and capacity is max.  A prepended or appended value *)
(* goes into a cell; the rest is moved.                                    *)

PtrvNewWithSize(initial_size) ==
    LET max == Max({1, initial_size})
    IN  [buf |-> [i \in 0..max - 1 |-> Garbage], len |-> 0, capacity |-> max, broken |-> FALSE]

Enlarged(pv, max) ==
    [pv EXCEPT !.capacity = max,
               !.buf = [i \in 0..max - 1 |-> IF i < pv.capacity THEN pv.buf[i] ELSE Garbage]]

(* ptrv_append.                                                            *)
PtrvAppend(pv, value) ==
    LET room == IF pv.len >= pv.capacity THEN Enlarged(pv, Max({1, 2 * pv.capacity})) ELSE pv
    IN  [Move(room, pv.len, Cells(<<value>>), 0, 1) EXCEPT !.len = @ + 1]

(* ptrv_prepend_n.                                                         *)
PtrvPrependN(pv, count, value) ==
    LET need == pv.len + count
        room == IF need > pv.capacity THEN Enlarged(pv, Max({need, 2 * pv.capacity})) ELSE pv
        moved == Move(room, count, room.buf, 0, pv.len)
    IN  [Move(moved, 0, [i \in 0..count - 1 |-> value], 0, count) EXCEPT !.len = need]

(* ptrv_remove_range and ptrv_remove.                                      *)
PtrvRemoveRange(pv, start, end) ==
    LET moved == IF end < pv.len THEN Move(pv, start, pv.buf, end, pv.len - end) ELSE pv
    IN  [moved EXCEPT !.len = @ - (end - start)]
PtrvRemove(pv, pos) ==
    IF pos \notin 0..pv.len - 1 THEN pv
    ELSE [Move(pv, pos, pv.buf, pos + 1, pv.len - 1 - pos) EXCEPT !.len = @ - 1]

(* ptrv_find, by a comparison for equality.                                *)
PtrvFind(pv, element) ==
    LET places == {c \in 0..pv.len - 1 : pv.buf[c] = element}
    IN  IF places = {} THEN -1 ELSE Min(places)

(* What ptrv_foreach and ptrv_sort go through.                             *)
Elements(pv) == [i \in 1..pv.len |-> pv.buf[i - 1]]

(* ptrv_insort.                                                            *)
PtrvInsort(pv, element) ==
    LET places == {c \in 1..Len(pv) : element <= pv[c]}
    IN  IF places = {} THEN Append(pv, element) ELSE InsertAt(pv, Min(places), element)

-----------------------------------------------------------------------------
(* bksearch.c: positions from 0 in an ascending sequence of keys *)

(* bksearch: the position that is found, or Len(keys).                     *)
RECURSIVE BkSearch(_, _, _, _)
BkSearch(key, keys, l, u) ==
    IF l >= u THEN Len(keys)
    ELSE LET idx == (l + u) \div 2
         IN  IF key < keys[idx + 1] THEN BkSearch(key, keys, l, idx)
             ELSE IF key > keys[idx + 1] THEN BkSearch(key, keys, idx + 1, u)
             ELSE idx

(* bksearchpartial and bsearchpartial.                                     *)
RECURSIVE BkSearchPartial(_, _, _, _, _)
BkSearchPartial(key, keys, l, u, matches_above) ==
    IF l >= u THEN IF matches_above THEN l ELSE l - 1
    ELSE LET idx == (l + u) \div 2
         IN  IF (key = keys[idx + 1]) = matches_above
             THEN BkSearchPartial(key, keys, l, idx, matches_above)
             ELSE BkSearchPartial(key, keys, idx + 1, u, matches_above)

(* bksearchrange and bsearchrange.                                         *)
BkSearchRange(key, keys) ==
    LET idx == BkSearch(key, keys, 0, Len(keys))
    IN  IF idx = Len(keys) THEN {}
        ELSE BkSearchPartial(key, keys, 0, idx, TRUE)
                 ..BkSearchPartial(key, keys, idx + 1, Len(keys), FALSE)

-----------------------------------------------------------------------------
(* intutil.c: a text of digits, with 10 for a character that is not one *)

Minus == -1

Wrap(value, width) == value % (width + 1)

(* parse_uint8 and its kin: the value, or -1.  No digits are a zero.       *)
ParseUint(text, max) ==
    FoldLeft(LAMBDA value, c :
                 IF value = -1 \/ c \notin 0..9 THEN -1
                 ELSE IF value > max \div 10 \/ (value = max \div 10 /\ c > max % 10) THEN -1
                 ELSE Wrap(value * 10 + c, max),
             0, text)

(* parse_int8 and its kin, without the sign: down to the least value for   *)
(* a negative one.                                                         *)
ParseInt(text, max) ==
    IF text = <<>> \/ text = <<Minus>> THEN [ok |-> FALSE, value |-> 0]
    ELSE LET negative == text[1] = Minus
             bound == IF negative THEN max + 1 ELSE max
             digits == IF negative THEN Tail(text) ELSE text
             value == FoldLeft(LAMBDA value, c :
                                   IF value = -1 \/ c \notin (0..9) THEN -1
                                   ELSE IF \/ value > bound \div 10
                                           \/ value = bound \div 10 /\ c > bound % 10 THEN -1
                                   ELSE value * 10 + c,
                               0, digits)
         IN  [ok |-> value # -1, value |-> IF negative THEN -value ELSE value]

-----------------------------------------------------------------------------
(* util.c and screen.c *)

(* catfiles.                                                               *)
CatFiles(p1, p2) == p1 \o (IF p1 = <<>> \/ Last(p1) = "/" THEN <<>> ELSE <<"/">>) \o p2

(* get_file_dir_part.                                                      *)
FileDirPart(word) ==
    LET slashes == {i \in 1..Len(word) : word[i] = "/"}
        first == Min({i \in 1..Max(slashes) : \A j \in i..Max(slashes) : word[j] = "/"})
    IN  IF slashes = {} THEN [dir |-> <<>>, file |-> word]
        ELSE [dir |-> SubSeq(word, 1, first), file |-> SubSeq(word, Max(slashes) + 1, Len(word))]

(* join_strings, of at least one string.                                   *)
JoinStrings(strs, mid) ==
    FoldLeft(LAMBDA out, s : out \o <<mid>> \o s, Head(strs), Tail(strs))

(* wordwrap, with lines of one width.                                      *)
RECURSIVE WordWrap(_, _)
WordWrap(str, width) ==
    IF Len(str) <= width THEN IF str = <<>> THEN <<>> ELSE <<str>>
    ELSE LET After(n) == SubSeq(str, n + 1, Len(str))
             NextWord(n) == Min({i \in n..Len(str) : i = Len(str) \/ str[i + 1] # " "})
             c == Max({i \in 0..width : i = 0 \/ str[i] = " "})
             d == Min({i \in width + 1..Len(str) : i = Len(str) \/ str[i + 1] = " "})
         IN  IF str[width + 1] = " "
             THEN <<SubSeq(str, 1, width)>> \o WordWrap(After(NextWord(width + 1)), width)
             ELSE IF d - c <= width
             THEN <<SubSeq(str, 1, c - 1)>> \o WordWrap(After(c), width)
             ELSE <<SubSeq(str, 1, width)>> \o WordWrap(After(width), width)

Names(path, separator) ==
    SelectSeq(FoldLeft(LAMBDA names, c :
                           IF c = separator THEN Append(names, <<>>)
                           ELSE [names EXCEPT ![Len(names)] = Append(@, c)],
                       <<<<>>>>, path),
              LAMBDA name : name # <<>>)

(* mkdirs_for_file and mkdirs_for_temp_file, with the directories and the  *)
(* files that there are, and the directories that may be made.             *)
MkdirsForFile(filename, dirs, files, allowed) ==
    LET parent == Names(SubSeq(filename, 1, Max({0} \cup {i \in 1..Len(filename) : filename[i] = "/"})), "/")
        Step(at, k) ==
            LET path == SubSeq(parent, 1, k)
            IN  IF ~at.ok \/ path \in at.dirs THEN at
                ELSE IF k > 1 /\ Front(path) \notin at.dirs THEN [at EXCEPT !.ok = FALSE]
                ELSE IF path \in files THEN at
                ELSE IF path \in allowed THEN [at EXCEPT !.dirs = @ \cup {path}, !.made = @ \cup {path}]
                ELSE [at EXCEPT !.ok = FALSE]
    IN  FoldLeft(Step, [ok |-> TRUE, dirs |-> dirs, made |-> {}], [k \in 1..Len(parent) |-> k])

-----------------------------------------------------------------------------
(* What is shown in columns (fs.c, command.c) *)

(* ilog10: the number of digits.                                           *)
RECURSIVE Ilog10(_)
Ilog10(c) == IF c = 0 THEN 0 ELSE 1 + Ilog10(c \div 10)
RECURSIVE Digits(_)
Digits(n) == (IF n < 10 THEN <<>> ELSE Digits(n \div 10)) \o <<ToString(n % 10)>>

(* file_node_compare: a node has a type, 0 for a directory, a name and a   *)
(* size.                                                                   *)
FileNodeCompare(f1, f2) ==
    LET differ == {i \in 1..Min({Len(f1.name), Len(f2.name)}) : Rank[f1.name[i]] # Rank[f2.name[i]]}
    IN  IF f1.type # f2.type THEN f1.type - f2.type
        ELSE IF differ # {} THEN Rank[f1.name[Min(differ)]] - Rank[f2.name[Min(differ)]]
        ELSE Len(f1.name) - Len(f2.name)

(* get_sorted_file_list: equal nodes in any order.                         *)
GetSortedFileList(nodes) ==
    {items \in SetToSeqs(nodes) :
        \A i, j \in 1..Len(items) : i < j => FileNodeCompare(items[i], items[j]) <= 0}

Spaces(n) == [i \in 1..Max({0, n}) |-> " "]
Suffix(item) == IF item.type = 0 THEN <<"/">> ELSE <<>>

(* filelist_list: a line for each node, with its size in megabytes; or as  *)
(* many columns as fit.                                                    *)
ListedLong(items) ==
    LET maxsize == Max({items[i].size : i \in 1..Len(items)} \cup {0})
    IN  [i \in 1..Len(items) |->
            Spaces(Ilog10(Max({1, maxsize})) - Len(Digits(items[i].size)))
                \o Digits(items[i].size) \o <<"M", " ">> \o items[i].name \o Suffix(items[i])]
ListedShort(items, cols) ==
    LET count == Len(items)
        Width(item) == Len(item.name \o Suffix(item))
        maxlen == Max({Width(items[i]) : i \in 1..count} \cup {0})
        per_row == Max({1, (cols + 2) \div (maxlen + 2)})
        rows == count \div per_row + (IF count % per_row # 0 THEN 1 ELSE 0)
        Cell(c) == items[c].name \o Suffix(items[c])
                       \o (IF c + rows <= count THEN Spaces(maxlen - Width(items[c]) + 2) ELSE <<>>)
        places(row) == SelectSeq([c \in 1..count |-> c], LAMBDA c : c >= row /\ (c - row) % rows = 0)
    IN  [row \in 1..rows |-> FoldLeft(LAMBDA line, c : line \o Cell(c), <<>>, places(row))]

(* cmd_help: the usage of every command, two of them in a line when both   *)
(* are shorter than half of it.                                            *)
CmdHelp(usages, width) ==
    LET half == width \div 2
        Step(at, usage) ==
            IF Len(usage) < half
            THEN IF at.buf = <<>> THEN [at EXCEPT !.buf = usage \o Spaces(half - Len(usage))]
                 ELSE [buf |-> <<>>, lines |-> Append(at.lines, at.buf \o usage)]
            ELSE [buf |-> <<>>,
                  lines |-> at.lines \o (IF at.buf = <<>> THEN <<>> ELSE <<at.buf>>) \o <<usage>>]
        end == FoldLeft(Step, [buf |-> <<>>, lines |-> <<>>], usages)
    IN  end.lines \o (IF end.buf = <<>> THEN <<>> ELSE <<end.buf>>)

(* elapsed_time_to_string, in days, hours, minutes and seconds: the units  *)
(* that are written, with their counts.                                    *)
ElapsedTime(elapsed) ==
    LET parts == <<<<"d", elapsed \div 86400>>, <<"h", (elapsed % 86400) \div 3600>>,
                   <<"m", (elapsed % 3600) \div 60>>, <<"s", elapsed % 60>>>>
        written == SelectSeq(parts, LAMBDA p : p[2] > 0)
    IN  IF written = <<>> THEN <<<<"s", 0>>>> ELSE written

-----------------------------------------------------------------------------
(* Properties *)

Texts(chars) == SeqOf(chars, TextMax)
Repeat(text, times) == FlattenSeq([k \in 1..times |-> text])
Place(text, pos) == IF pos < 0 THEN Max({0, Len(text) + 1 + pos}) ELSE Min({pos, Len(text)})
Behind(text, i) == SubSeq(text, i + 1, Len(text))
Part(text, sp, ep) ==
    LET places == {Place(text, sp), Place(text, ep)} IN SubSeq(text, Min(places) + 1, Max(places))
Letters(text) == SelectSeq(text, LAMBDA c : c # " ")

(* A buffer that is written at any position, and again at its end, holds   *)
(* the text that it should and no byte outside it is read or written; the  *)
(* copies of its parts are right too (common/strbuf.c:36-340).             *)
StrbufHolds ==
    \A text, piece \in Texts(Letter) : \A sp, ep \in -SizeMax..SizeMax, times \in 0..2 :
        LET start == Min({Place(text, sp), Place(text, ep)})
            end == Max({Place(text, sp), Place(text, ep)})
            made == ReplaceSubstring(NewWithCapacity(1), -1, -1, 1, text, 0, -1)
            sb == ReplaceSubstring(made, sp, ep, times, piece, 0, -1)
            expected == SubSeq(text, 1, start) \o Repeat(piece, times) \o Behind(text, end)
            longer == ReplaceSubstring(sb, -1, -1, times, text, sp, ep)
        IN  /\ ~longer.broken
            /\ Text(sb) = expected /\ sb.len = Len(expected)
            /\ Text(longer) = expected \o Repeat(Part(text, sp, ep), times)
            /\ times > 0 => LET new == NewFromSubstring(times, text, sp, ep)
                            IN  ~new.broken /\ Text(new) = Repeat(Part(text, sp, ep), times)
            /\ LET part == Substring(sb, sp, ep)
                   given == FreeToSubstring(sb, 0, sp)
                   cut == SetLength(sb, Place(expected, sp))
               IN  /\ ~part.broken /\ ~given.broken /\ ~cut.broken
                   /\ Text(part) = Part(expected, sp, ep)
                   /\ Text(given) = Part(expected, 0, sp) /\ Text(cut) = Text(given)

(* A vector into which elements are put in order stays sorted and keeps    *)
(* the others, and the search in it finds exactly the positions of a key   *)
(* (common/ptrv.c:156-180, common/bksearch.c:25-150).                      *)
SearchFinds ==
    \A elements \in SeqOf(1..3, SizeMax + 1) :
        LET pv == FoldLeft(PtrvInsort, <<>>, elements)
        IN  /\ \A i \in 1..Len(pv) - 1 : pv[i] <= pv[i + 1]
            /\ \A key \in 0..4 :
                   /\ Cardinality({i \in 1..Len(pv) : pv[i] = key})
                        = Cardinality({i \in 1..Len(elements) : elements[i] = key})
                   /\ BkSearchRange(key, pv) = {i \in 0..Len(pv) - 1 : pv[i + 1] = key}

(* A number is read if and only if its value can be kept, whatever zeros   *)
(* it begins with (common/intutil.c:85-275).                               *)
NumbersAreRead ==
    \A text \in SeqOf({0, 1, 2, 5, 6, 7, 8, 9}, 4) :
        LET value == FoldLeft(LAMBDA v, c : v * 10 + c, 0, text)
        IN  /\ ParseUint(text, Limit) = IF value <= Limit THEN value ELSE -1
            /\ ParseUint(Append(text, 10), Limit) = -1
            /\ text # <<>> =>
                 /\ ParseInt(text, Limit \div 2).ok = (value <= Limit \div 2)
                 /\ ParseInt(<<Minus>> \o text, Limit \div 2).ok = (value <= Limit \div 2 + 1)
                 /\ value <= Limit \div 2 => ParseInt(<<Minus>> \o text, Limit \div 2).value = -value

(* The lines of a help text have the width they may have, no word is lost  *)
(* and only a word that fits no line is cut (util.c:230-272).              *)
LinesFit ==
    \A text \in SeqOf({" ", "x"}, 2 * SizeMax + 1), width \in 1..SizeMax :
        LET lines == WordWrap(text, width)
            breaks == {Len(Letters(FlattenSeq(SubSeq(lines, 1, k)))) : k \in 1..Len(lines) - 1}
            before == [i \in 1..Len(text) |-> Len(Letters(SubSeq(text, 1, i)))]
            Fits(i) == /\ text[i] # " " /\ text[i + 1] # " "
                       /\ \E c \in 1..i, d \in i + 1..Len(text) :
                              /\ \A k \in c..d : text[k] # " "
                              /\ c = 1 \/ text[c - 1] = " "
                              /\ d = Len(text) \/ text[d + 1] = " "
                              /\ d + 1 - c <= width
        IN  /\ \A k \in 1..Len(lines) : Len(lines[k]) <= width
            /\ Letters(FlattenSeq(lines)) = Letters(text)
            /\ \A i \in 1..Len(text) - 1 : Fits(i) => before[i] \notin breaks

(* A path that is split into its directory and its file is the same path   *)
(* when they are joined, but for repeated slashes (util.c:160-168,         *)
(* screen.c:165-181); words that are joined for a message are its words.   *)
PathsAreJoined ==
    /\ \A word \in SeqOf({"x", "/"}, SizeMax + 2) :
           LET parts == FileDirPart(word)
               Single(path) == \A i \in 1..Len(path) - 1 : path[i] # "/" \/ path[i + 1] # "/"
           IN  /\ "/" \notin ToSet(parts.file)
               /\ parts.dir # <<>> => Last(parts.dir) = "/"
               /\ Single(word) => CatFiles(parts.dir, parts.file) = word
    /\ \A strs \in SeqOf(SeqOf({"x"}, 2), 3) \ {<<>>} :
           Cardinality({i \in 1..Len(JoinStrings(strs, " ")) : JoinStrings(strs, " ")[i] = " "}) = Len(strs) - 1
    /\ \A elapsed \in {s + 60 * m + 3600 * h + 86400 * d : s, m \in {0, 1, 59}, h \in {0, 23}, d \in 0..1} :
           elapsed = FoldLeft(LAMBDA sum, p :
                                  sum + p[2] * (CASE p[1] = "d" -> 86400 [] p[1] = "h" -> 3600
                                                  [] p[1] = "m" -> 60 [] OTHER -> 1),
                              0, ElapsedTime(elapsed))

(* Whatever calls are made, a vector holds what a sequence would, and no   *)
(* cell that was not allocated is read or written (common/ptrv.c:27-157).  *)
VectorsHold ==
    LET Calls == {<<"append", v>> : v \in {1, 2}} \cup {<<"prepend", n>> : n \in 0..2}
                     \cup {<<"remove", k>> : k \in 0..2}
                     \cup {<<"range", k, l>> : k, l \in 0..2}
        Step(at, call) ==
            LET pv == at.pv
                s == at.s
            IN  CASE call[1] = "append" -> [pv |-> PtrvAppend(pv, call[2]), s |-> Append(s, call[2])]
                  [] call[1] = "prepend" -> [pv |-> PtrvPrependN(pv, call[2], 3),
                                             s |-> [i \in 1..call[2] |-> 3] \o s]
                  [] call[1] = "remove" -> [pv |-> PtrvRemove(pv, call[2]),
                                            s |-> IF call[2] < Len(s) THEN RemoveAt(s, call[2] + 1) ELSE s]
                  [] OTHER -> IF call[2] <= call[3] /\ call[3] <= Len(s)
                              THEN [pv |-> PtrvRemoveRange(pv, call[2], call[3]),
                                    s |-> SubSeq(s, 1, call[2]) \o Behind(s, call[3])]
                              ELSE at
    IN  \A calls \in [1..SizeMax -> Calls] : \A first \in 0..2 :
            LET end == FoldLeft(Step, [pv |-> PtrvNewWithSize(first), s |-> <<>>], calls)
            IN  /\ ~end.pv.broken /\ Elements(end.pv) = end.s
                /\ \A v \in 1..3 :
                       LET at == PtrvFind(end.pv, v)
                       IN  IF at = -1 THEN v \notin ToSet(end.s)
                           ELSE end.s[at + 1] = v /\ \A i \in 1..at : end.s[i] # v

(* When the directories for a file could be made, they are there, or a     *)
(* file in the place of the last one; what was made was missing and leads  *)
(* to the file, and nothing is made behind a file (util.c:95-127,          *)
(* fs.c:75-105).                                                           *)
DirectoriesAreMade ==
    \A filename \in SeqOf({"x", "y", "/"}, SizeMax + 2) :
        LET all == Names(filename, "/")
            inside == IF all = <<>> \/ (Last(filename) = "/") THEN all ELSE Front(all)
            above == {SubSeq(inside, 1, k) : k \in 1..Len(inside)}
            Closed(dirs) == \A d \in dirs : Len(d) > 1 => Front(d) \in dirs
        IN  \A dirs \in {d \in SUBSET above : Closed(d)}, files \in SUBSET above, allowed \in SUBSET above :
                (dirs \cap files = {} /\ \A f \in files : (Len(f) = 1 \/ Front(f) \in dirs)) =>
                    \A end \in {MkdirsForFile(filename, dirs, files, allowed)} :
                        /\ end.dirs = dirs \cup end.made /\ end.made \subseteq allowed \ (dirs \cup files)
                        /\ Closed(end.dirs)
                        /\ end.ok <=> \A d \in above : d \in end.dirs \/ (d = inside /\ d \in files)

(* A list shows every node once, directories before files, in the order of *)
(* the columns, which begin below one another; no line is too long but for *)
(* one with a single name; and behind the sizes the names begin in one     *)
(* column (fs.c:333-510).  The help shows every command once, in its order,*)
(* and no line is too long but for a command of its own (command.c:660).   *)
ColumnsAreShown ==
    LET Shown(item) == item.name \o Suffix(item)
    IN  /\ \A nodes \in SUBSET Node : \E items \in GetSortedFileList(nodes) : TRUE
        /\ \A nodes \in SUBSET Node : \A items \in GetSortedFileList(nodes) :
               LET wide == Max({0} \cup {Len(Shown(items[i])) : i \in 1..Len(items)})
                   long == ListedLong(items)
               IN  /\ \A i, j \in 1..Len(items) : i < j => items[i].type <= items[j].type
                   /\ \A cols \in 1..2 * TextMax + 4 :
                          LET lines == ListedShort(items, cols)
                              rows == Len(lines)
                          IN  /\ \A i \in 1..Len(items) :
                                     LET row == ((i - 1) % rows) + 1
                                         column == ((i - 1) \div rows) * (wide + 2)
                                     IN  SubSeq(lines[row], column + 1, column + Len(Shown(items[i])))
                                             = Shown(items[i])
                              /\ \A row \in 1..rows :
                                     /\ Len(lines[row]) <= cols \/ Len(Names(lines[row], " ")) = 1
                                     /\ \A other \in 1..row :
                                            Len(Names(lines[other], " ")) >= Len(Names(lines[row], " "))
                              /\ Len(items) = FoldLeft(LAMBDA n, line : n + Len(Names(line, " ")), 0, lines)
                   /\ \A i \in 1..Len(items) :
                          /\ Len(long[i]) = Len(long[1]) - Len(Shown(items[1])) + Len(Shown(items[i]))
                          /\ Names(long[i], " ")
                                 = <<Append(Digits(items[i].size), "M"), Shown(items[i])>>
    /\ \A lengths \in SeqOf(1..SizeMax, SizeMax + 1), width \in 2..2 * SizeMax + 1 :
           LET usages == [i \in 1..Len(lengths) |-> [j \in 1..lengths[i] |-> ToString(i)]]
               lines == CmdHelp(usages, width)
           IN  /\ FlattenSeq([k \in 1..Len(lines) |-> Names(lines[k], " ")]) = usages
               /\ \A k \in 1..Len(lines) : Len(lines[k]) <= width \/ lines[k] \in ToSet(usages)
=============================================================================
