---------------------------- MODULE SheetTables ----------------------------
(***************************************************************************)
(* What the commands of the sheet viewer compute: the command line it      *)
(* reads, the tables that filter, pivot, where and drill-down produce, and *)
(* the column ranges of compare.  A cell is a sequence of words, a row a   *)
(* sequence of cells and a table a sequence of rows, the first of which is *)
(* the header.  Columns count from 1 in a row, raw rows from 0 in a table. *)
(***************************************************************************)
EXTENDS Process, TLC

CONSTANTS
    ScrFold(_),   \* a word in lower case
    ScrTokens     \* how many words a command line may have

RowNumHeader == <<"Row #">>
Number(n) == <<ToString(n)>>

Folded(text) == [i \in DOMAIN text |-> ScrFold(text[i])]

\* memmem(): text occurs in cell.
Has(cell, text) ==
    \E i \in 0..(Len(cell) - Len(text)) : SubSeq(cell, i + 1, i + Len(text)) = text

\* zsv_get_cell(): a column that the row does not have is blank.
CellOf(row, c) == IF c \in DOMAIN row THEN row[c] ELSE Blank

HasRowNum(t) == CellOf(t[1], 1) = RowNumHeader

NumberedIf(num, r, row) ==
    IF num THEN <<IF r = 0 THEN RowNumHeader ELSE Number(r)>> \o row ELSE row

-----------------------------------------------------------------------------
(* The lexer: words between spaces; a word that starts with a quote runs to *)
(* the next quote that is not escaped.                                      *)

\* The escapes; \n stands for the seven control characters.
EscapedChar == [c \in {"\"", "\\", "n"} |-> IF c = "n" THEN "\n" ELSE c]

LexStart == [mode |-> "space", word |-> <<>>, toks |-> <<>>]
LexToken(l, mode) ==
    IF Len(l.toks) = ScrTokens THEN [l EXCEPT !.mode = "error"]
    ELSE [mode |-> mode, word |-> <<>>, toks |-> Append(l.toks, l.word)]
LexChar(l, c) ==
    CASE l.mode = "space" ->
           IF c = " " THEN l
           ELSE IF c = "\"" THEN [l EXCEPT !.mode = "quoted"]
           ELSE [l EXCEPT !.mode = "word", !.word = <<c>>]
      [] l.mode = "word" ->
           IF c = " " THEN LexToken(l, "space") ELSE [l EXCEPT !.word = Append(@, c)]
      [] l.mode = "quoted" ->
           IF c = "\"" THEN LexToken(l, "space")
           ELSE IF c = "\\" THEN [l EXCEPT !.mode = "escape"]
           ELSE [l EXCEPT !.word = Append(@, c)]
      [] l.mode = "escape" ->
           IF c \in DOMAIN EscapedChar
           THEN [l EXCEPT !.mode = "quoted", !.word = Append(@, EscapedChar[c])]
           ELSE [l EXCEPT !.mode = "error"]
      [] l.mode = "error" -> l

\* The words of a line; none where the lexer fails, which the caller takes
\* the same way.
zsvsheet_lexer_parse(line) ==
    LET scanned == FoldLeft(LexChar, LexStart, line)
        l == IF scanned.mode = "word" THEN LexToken(scanned, "space") ELSE scanned
    IN  IF l.mode = "space" THEN l.toks ELSE <<>>

-----------------------------------------------------------------------------
(* Filters and SQL. *)

\* The header and the rows of a set, in the order of the table.
KeptRows(t, rows) ==
    SelectSeq([i \in DOMAIN t |-> i - 1], LAMBDA r : r = 0 \/ r \in rows)

\* A blank cell passes a filter on its column, and a row of one blank cell
\* every filter.
Passes(row, text, col) ==
    IF col = 0
    THEN row = <<Blank>> \/ \E c \in DOMAIN row : Has(row[c], text)
    ELSE CellOf(row, col) = Blank \/ Has(CellOf(row, col), text)

FilterTable(t, text, col) ==
    LET num == HasRowNum(t)
        at == IF col # 0 /\ num THEN col + 1 ELSE col
        kept == KeptRows(t, {r \in 1..(Len(t) - 1) : Passes(t[r + 1], text, at)})
    IN  [k \in DOMAIN kept |-> NumberedIf(~num, kept[k], t[kept[k] + 1])]

\* "select [rowid as Row #,] * from data where ...": the rows of a set.
SqlRows(t, num, rows) ==
    LET kept == KeptRows(t, rows)
        Full(r) == [c \in DOMAIN t[1] |-> CellOf(t[r + 1], c)]
    IN  [k \in DOMAIN kept |-> NumberedIf(num, kept[k], Full(kept[k]))]

\* The column a name stands for; 0 where there is none, and SQLite takes the
\* name in double quotes for a text.
ColumnNamed(t, name) ==
    LET at == {c \in DOMAIN t[1] : t[1][c] = name}
    IN  IF at = {} THEN 0 ELSE Min(at)
GroupOf(t, name, r) ==
    IF ColumnNamed(t, name) = 0 THEN name ELSE CellOf(t[r + 1], ColumnNamed(t, name))
GroupRows(t, name, value) == {r \in 1..(Len(t) - 1) : GroupOf(t, name, r) = value}

\* "select name, count(1) ... group by name"; groups in the order in which
\* they first appear, where SQLite's would be sorted.
PivotTable(t, name) ==
    LET groups == KeptRows(t, {r \in 1..(Len(t) - 1) :
                                  r = Min(GroupRows(t, name, GroupOf(t, name, r)))})
        Group(r) == <<GroupOf(t, name, r),
                      Number(Cardinality(GroupRows(t, name, GroupOf(t, name, r))))>>
    IN  [k \in DOMAIN groups |->
            IF k = 1 THEN <<name, <<"Count">>>> ELSE Group(groups[k])]

\* The rows behind a line of a pivot table.  The value of a blank group was
\* kept as NULL, which equals nothing.
DrillRows(t, name, value) == IF value = Blank THEN {} ELSE GroupRows(t, name, value)

\* An expression of the user's: the name of a column, alone (to group by) or
\* with a word to look for (to filter by).  Anything else is refused, as
\* constants and what SQLite cannot prepare are.
SqlColumn(t, expr) == IF expr = <<>> THEN 0 ELSE ColumnNamed(t, <<Head(expr)>>)
SqlWhere(t, expr) ==
    {r \in 1..(Len(t) - 1) : Has(CellOf(t[r + 1], SqlColumn(t, expr)), Tail(expr))}

-----------------------------------------------------------------------------
(* compare: two ranges of columns, each a range of numbers, a number or a  *)
(* name; columns from 1.                                                   *)

NoSide == [name |-> Blank, lo |-> 0, hi |-> 0, range |-> FALSE]

\* The first column of that name after a column; 0 if there is none.
ColumnAfter(names, name, after) ==
    LET at == {c \in DOMAIN names : c > after /\ Folded(names[c]) = Folded(name)}
    IN  IF at = {} THEN 0 ELSE Min(at)

\* One side; NoSide if it is no column.
RangeSide(names, side, after) ==
    IF side.name = Blank
    THEN IF side.lo > 0 /\ side.lo <= side.hi THEN side ELSE NoSide
    ELSE LET c == ColumnAfter(names, side.name, after)
         IN  [NoSide EXCEPT !.lo = c, !.hi = c]

\* Two ranges of the same width, at most the distance between them.
RangePair(a, b) ==
    LET gap == Max({a.lo, b.lo}) - Min({a.lo, b.lo})
        wide(x) == IF x.range THEN x.hi - x.lo + 1 ELSE 0
        count == IF a.range \/ b.range THEN Min({gap, Max({wide(a), wide(b)})}) ELSE gap
    IN  IF count = 0 THEN <<>> ELSE <<[a |-> a.lo, b |-> b.lo, n |-> count]>>

\* A side alone stands for its name's first and second column.
RangeAlone(names, side) ==
    LET a == RangeSide(names, side, 0)
        b == IF a.lo \in DOMAIN names THEN ColumnAfter(names, names[a.lo], a.lo) ELSE 0
    IN  IF side.range \/ a.lo = 0 \/ b = 0 \/ names[a.lo] = Blank THEN <<>>
        ELSE RangePair([a EXCEPT !.range = FALSE], [NoSide EXCEPT !.lo = b, !.hi = b])

\* Where "left v right" gives no pair of ranges, the number it starts with is
\* tried alone.
zsv_column_range_parse_ex(names, left, right) ==
    LET a == RangeSide(names, left, 0)
        b == RangeSide(names, right, IF left = right THEN a.lo ELSE 0)
        pair == IF right = NoSide \/ a = NoSide \/ b.lo = 0 \/ a.lo = 0 THEN <<>> ELSE RangePair(a, b)
    IN  IF pair # <<>> THEN pair
        ELSE IF right = NoSide \/ left.name = Blank THEN RangeAlone(names, left)
        ELSE <<>>
=============================================================================
