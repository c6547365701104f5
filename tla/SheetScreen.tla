---------------------------- MODULE SheetScreen ----------------------------
(***************************************************************************)
(* The sheet viewer: a stack of buffers, each with a window of a table in  *)
(* memory and a smaller window of that on the screen, and the keys that    *)
(* move the windows, search, and push and pop buffers.  One action is one  *)
(* turn of the main loop: a key (or the timeout of getch), its handler,    *)
(* the check for the worker's news, the reload of the buffer, the drawing. *)
(* The worker's own steps are SheetBuffer's; here it only ends, at any     *)
(* time.                                                                   *)
(***************************************************************************)
EXTENDS SheetTables

CONSTANTS
    ScrFiles,     \* the files that can be opened, by name
    ScrKeys,      \* the keys pressed
    ScrStarts,    \* the file on the command line, <<>> for none, and the size of the terminal
    ScrTexts,     \* what is typed at the prompt of a procedure; none is <<>>
    ScrLines,     \* the command lines typed, as sequences of characters
    ScrSpecs,     \* the pairs of ranges typed at compare's prompts
    ScrSizes,     \* the sizes the terminal is changed to
    ScrBuffer,    \* rows in a buffer (1024)
    ScrStatic,    \* rows in a static buffer (256)
    ScrMinWidth,  \* ZSVSHEET_CELL_DISPLAY_MIN_WIDTH
    ScrArgs,      \* ZSVSHEET_PROC_MAX_ARGS
    ScrKeysMax,   \* bound on the keys of a behaviour; a command counts for three
    ScrDepth,     \* bound on the buffers on the stack
    ScrNumberMax  \* bound on the number typed before a key

HeaderSpan == 1
FooterSpan == 1

\* A buffer holds many screens.
ASSUME ScrAssumption == \A x \in ScrSizes \cup ScrStarts : ScrBuffer >= 2 * (x.h - HeaderSpan - FooterSpan)

Top(s) == s.bufs[Len(s.bufs)]
WithTop(s, b) == [s EXCEPT !.bufs[Len(s.bufs)] = b]
Reply(s, status) == [s EXCEPT !.status = status]

-----------------------------------------------------------------------------
(* Buffers.  text is the screen buffer; marks are the colours compare gave *)
(* its cells; astray says that a key may have put the window past the rows *)
(* that are loaded (see Regular).                                          *)

BlankBuffer ==
    [kind |-> "blank", data |-> <<>>, avail |-> 0, num |-> FALSE, off |-> 1,
     colCount |-> 0, rowCount |-> 0, used |-> 0, text |-> [r \in 0..(ScrBuffer - 1) |-> <<>>],
     inRow |-> 0, bufRow |-> 0, bufCol |-> 0, curRow |-> 0, curCol |-> 0,
     indexed |-> FALSE, writing |-> FALSE, errs |-> 0, pivot |-> <<>>, marks |-> <<>>,
     astray |-> FALSE]

HasFile(b) == b.kind = "file"

\* zsvsheet_screen_buffer_rows() and _cols(); a buffer's columns are widened
\* together with its table's.
BufferRows(b) == IF b.kind = "static" THEN ScrStatic ELSE ScrBuffer
BufferCols(b) ==
    CASE b.kind = "blank" -> 2
      [] b.kind = "static" -> b.colCount
      [] b.kind = "file" -> IF b.num THEN b.colCount ELSE b.colCount + 1
ViewCols(b) == Min({b.colCount + b.off, BufferCols(b)})

zsvsheet_get_input_raw_row(b) == b.inRow + b.bufRow + b.curRow
SelectedCol(b) == b.curCol + b.bufCol

zsvsheet_screen_buffer_cell_display(b, r, c) ==
    IF r \in DOMAIN b.text THEN CellOf(b.text[r], c + 1) ELSE Blank

\* A row goes into the buffer cell by cell, blank cells left out: what was
\* there before stays.
WriteRow(old, new) ==
    [c \in 1..Max({Len(old), Len(new)}) |->
        IF CellOf(new, c) = Blank THEN CellOf(old, c) ELSE new[c]]

Widen(b, rows) == [b EXCEPT !.colCount = Max({@} \cup {Len(b.data[r + 1]) : r \in rows})]

\* read_data() for a new buffer.
OpenBuffer(data, avail, errs) ==
    LET n == Min({avail, ScrBuffer})
        b == Widen([BlankBuffer EXCEPT
                       !.kind = "file", !.data = data, !.avail = avail, !.errs = errs,
                       !.num = HasRowNum(data), !.rowCount = n, !.used = n, !.curRow = 1],
                   0..(n - 1))
    IN  [b EXCEPT !.text = [r \in DOMAIN @ |->
            IF r < n THEN WriteRow(<<>>, NumberedIf(~b.num, r, data[r + 1])) ELSE @[r]]]

\* read_data() for the rows after inRow.
read_data(b) ==
    LET last == Min({b.avail - 1, b.inRow + ScrBuffer - 1})
        n == Max({1, last - b.inRow + 1})
    IN  [Widen(b, (IF b.indexed THEN b.inRow + 1 ELSE 1)..last) EXCEPT
            !.text = [r \in DOMAIN @ |->
                IF r \in 1..(n - 1)
                THEN WriteRow(@[r], NumberedIf(~b.num, b.inRow + r, b.data[b.inRow + r + 1]))
                ELSE @[r]],
            !.used = Max({@, n}),
            !.rowCount = IF n > b.used THEN n ELSE @]

zsvsheet_buffer_new_static(s, table) ==
    LET b == [BlankBuffer EXCEPT
                 !.kind = "static", !.data = table, !.off = 0, !.colCount = Len(table[1]),
                 !.rowCount = Len(table), !.used = Len(table),
                 !.text = [r \in 0..(Len(table) - 1) |-> table[r + 1]]]
    IN  Reply([s EXCEPT !.bufs = Append(@, b)], "ok")

\* zsvsheet_ui_buffer_open_file_opts(): a table without a row is refused.
OpenTable(s, table, avail, errs, failure) ==
    IF table = <<>> THEN Reply(s, failure)
    ELSE Reply([s EXCEPT !.bufs = Append(@, OpenBuffer(table, avail, errs))], "ok")

OpenFile(s, name, failure) ==
    OpenTable(s, ScrFiles[name].table, Len(ScrFiles[name].table), ScrFiles[name].errs, failure)

\* zsvsheet_ui_buffer_pop(); the blank buffer stays.
zsvsheet_ui_buffer_pop(s) ==
    IF Len(s.bufs) = 1 THEN s ELSE [s EXCEPT !.bufs = Front(@), !.update = TRUE]

-----------------------------------------------------------------------------
(* Compare: the colours of two ranges of columns. *)

ApplyCompare(b, cmp) ==
    LET own == b.off
        At(side, k) == side - 1 + k + own
        Pairs == {k \in 0..(cmp.n - 1) : Max({At(cmp.a, k), At(cmp.b, k)}) < BufferCols(b)}
        Colour(r, k) ==
            IF zsvsheet_screen_buffer_cell_display(b, r, At(cmp.a, k))
                 = zsvsheet_screen_buffer_cell_display(b, r, At(cmp.b, k))
            THEN "match" ELSE "diff"
    IN  [b EXCEPT !.marks = <<[spec |-> cmp, width |-> BufferCols(b), at |->
            UNION {{<<r * BufferCols(b) + At(cmp.a, k), Colour(r, k)>>,
                    <<r * BufferCols(b) + At(cmp.b, k), Colour(r, k)>>} :
                   r \in 1..(b.used - 1), k \in Pairs}]>>]

-----------------------------------------------------------------------------
(* The windows. *)

PageRows(s) == s.h - HeaderSpan - FooterSpan

input_offset_centered(b, target) ==
    LET half == BufferRows(b) \div 2
    IN  IF b.rowCount <= BufferRows(b) \/ target <= half THEN 0
        ELSE IF target + half > b.rowCount THEN b.rowCount - BufferRows(b)
        ELSE target - half

OutsideBuffer(b, row) ==
    \/ row < b.inRow + HeaderSpan
    \/ row + HeaderSpan + 1 > b.inRow + BufferRows(b)

\* Mutant: the window counts from the start of the file.
SetWindowInFile(b, target) == [b EXCEPT !.bufRow = Max({0, target - b.curRow})]

set_window_to_cursor(b, target) ==
    [b EXCEPT !.bufRow = IF target >= b.inRow + b.curRow THEN target - b.inRow - b.curRow ELSE 0]

\* Where the caller leaves the place of the cursor to us.
Anywhere == -1

zsvsheet_goto_input_raw_row(s, target, final) ==
    LET b == Top(s)
        moved == OutsideBuffer(b, target)
        visible == target \in (b.inRow + b.bufRow)..(b.inRow + b.bufRow + s.h + HeaderSpan + FooterSpan)
        wanted == CASE final # Anywhere -> final
                    [] final = Anywhere /\ ~moved /\ visible ->
                         b.curRow + target - zsvsheet_get_input_raw_row(b)
                    [] OTHER -> HeaderSpan
        cursor == Min({Max({wanted, HeaderSpan}), s.h - FooterSpan - 1})
        lowest == Min({target + (s.h - 1 - cursor), b.rowCount})
        reload == moved \/ (cursor < s.h - 1 /\ OutsideBuffer(b, lowest))
        at == IF reload THEN input_offset_centered(b, target) ELSE b.inRow
        to == set_window_to_cursor([b EXCEPT !.inRow = at, !.curRow = cursor], target)
        early == b.rowCount < Len(b.data) /\ to.bufRow + PageRows(s) >= BufferRows(b)
    IN  [WithTop(s, [to EXCEPT !.astray = @ \/ early]) EXCEPT !.update = reload]

zsvsheet_cell_display_width(s, b) ==
    Max({ScrMinWidth, s.w \div (b.colCount + (IF b.off = 1 /\ ~b.num THEN 1 ELSE 0))})
ColsOnScreen(s, b) == s.w \div zsvsheet_cell_display_width(s, b)

cursor_right(s, b) ==
    IF b.curCol + 1 < ColsOnScreen(s, b) /\ SelectedCol(b) + 1 < ViewCols(b)
    THEN [b EXCEPT !.curCol = @ + 1]
    ELSE IF b.bufCol + ColsOnScreen(s, b) < ViewCols(b) THEN [b EXCEPT !.bufCol = @ + 1]
    ELSE b

CursorLeft(b) ==
    IF b.curCol > 0 THEN [b EXCEPT !.curCol = @ - 1]
    ELSE IF b.bufCol > 0 THEN [b EXCEPT !.bufCol = @ - 1]
    ELSE b

zsvsheet_move_hor(s, right) ==
    Reply(WithTop(s, IF right THEN cursor_right(s, Top(s)) ELSE CursorLeft(Top(s))), "ok")

\* As many steps as the column is away.
zsvsheet_move_hor_to(s, col) ==
    LET away == col - SelectedCol(Top(s))
        Step(x, i) == zsvsheet_move_hor(x, away > 0)
    IN  FoldLeft(Step, Reply(s, "ok"), [i \in 1..(IF away < 0 THEN -away ELSE away) |-> i])

zsvsheet_move_ver(s, up) ==
    LET b == Top(s)
        row == zsvsheet_get_input_raw_row(b)
    IN  Reply(CASE up /\ row > HeaderSpan ->
                     zsvsheet_goto_input_raw_row(s, row - 1, Max({b.curRow - 1, 0}))
                [] up /\ row <= HeaderSpan -> WithTop(s, [b EXCEPT !.curRow = Max({@ - 1, 0})])
                \* row_count - 1 wraps around in an empty buffer
                [] ~up /\ b.rowCount > 0 /\ row >= b.rowCount - 1 -> s
                [] OTHER -> zsvsheet_goto_input_raw_row(s, row + 1, b.curRow + 1), "ok")

zsvsheet_move_page(s, up) ==
    LET b == Top(s)
        row == zsvsheet_get_input_raw_row(b)
        page == PageRows(s)
        target == IF up THEN Min({row - page, Max({b.rowCount - 1, 0})}) ELSE row + page
        stay == IF up THEN b.rowCount <= HeaderSpan \/ row <= page + HeaderSpan
                \* row_count - page wraps around in a table shorter than a page
                ELSE b.rowCount >= page /\ row >= b.rowCount - page
        from == WithTop(s, [b EXCEPT !.astray = @ \/ (~up /\ b.rowCount < page)])
    IN  Reply(IF stay THEN s ELSE zsvsheet_goto_input_raw_row(from, target, b.curRow), "ok")

zsvsheet_move_ver_to_row(s, wanted) ==
    LET b == Top(s)
        target == Min({wanted, b.rowCount - 1})
        page == PageRows(s)
        first == b.inRow + b.bufRow + 1
        last == b.inRow + b.bufRow + page
        bottom == s.h - FooterSpan - 1
        cursor ==
            CASE target = first - 1 -> HeaderSpan
              [] target = last + 1 -> bottom
              [] target \notin {first - 1, last + 1} /\ target < page \div 2 -> target
              [] target \notin {first - 1, last + 1} /\ target >= page \div 2
                   /\ b.rowCount - target <= page \div 2 -> bottom - (b.rowCount - 1 - target)
              [] OTHER -> HeaderSpan + page \div 2
    IN  Reply(CASE b.rowCount <= 1 \/ wanted = zsvsheet_get_input_raw_row(b) -> s
                [] target \in first..last -> WithTop(s, [b EXCEPT !.curRow = target - b.inRow - b.bufRow])
                [] OTHER -> zsvsheet_goto_input_raw_row(s, target, Max({cursor, HeaderSpan})), "ok")

-----------------------------------------------------------------------------
(* Find.  A hit is a raw row and a column of the data. *)

CellMatches(cell, f) == IF f.exact THEN cell = f.text ELSE Has(cell, f.text)
HitsIn(row, f, from) ==
    {c \in from..(Len(row) - 1) : f.col \in {0, c + 1} /\ CellMatches(row[c + 1], f)}

\* Mutant: the search starts with the cell under the cursor.
FindInFileFromCell(b, f) ==
    LET from == b.inRow + b.bufRow + HeaderSpan + b.curRow - 1
        start == IF from > 0 THEN from - 1 ELSE 0
        Hits(r) == HitsIn(b.data[r + 1], f, IF r = start + 1 THEN Max({0, SelectedCol(b) - 1}) ELSE 0)
        rows == {r \in (start + 1)..(b.avail - 1) : Hits(r) # {}}
    IN  IF rows = {} THEN <<>> ELSE <<Min(rows), Min(Hits(Min(rows)))>>

\* In a file: read_data() passes over the header and start rows, and the first
\* row it searches is searched from the column after the cursor (the number
\* of the row takes the first column of the screen).
FindInFile(b, f) ==
    LET from == b.inRow + b.bufRow + HeaderSpan + b.curRow - 1
        start == IF from > 0 THEN from - 1 ELSE 0
        Hits(r) == HitsIn(b.data[r + 1], f, IF r = start + 1 THEN SelectedCol(b) ELSE 0)
        rows == {r \in (start + 1)..(b.avail - 1) : Hits(r) # {}}
    IN  IF rows = {} THEN <<>> ELSE <<Min(rows), Min(Hits(Min(rows)))>>

zsvsheet_find_next_in_buffer(b, f) ==
    LET from == Max({zsvsheet_get_input_raw_row(b), HeaderSpan})
        Hits(r) == HitsIn(b.text[r], f, IF r = from THEN SelectedCol(b) + 1 ELSE 0)
        rows == {r \in from..(b.rowCount - 1) : Hits(r) # {}}
    IN  IF rows = {} THEN <<>> ELSE <<Min(rows), Min(Hits(Min(rows)))>>

zsvsheet_find_next(b, f) ==
    IF HasFile(b) THEN FindInFile(b, f) ELSE zsvsheet_find_next_in_buffer(b, f)

\* The rows that the search of a file passes over widen the buffer.
zsvsheet_handle_find_next(s, f) ==
    LET b == Top(s)
        hit == zsvsheet_find_next(b, f)
        first == IF b.indexed THEN Max({zsvsheet_get_input_raw_row(b), 1}) ELSE 1
        searched == IF ~HasFile(b) THEN {}
                    ELSE first..(IF hit = <<>> THEN b.avail - 1 ELSE hit[1])
        seen == WithTop(s, Widen(b, searched))
    IN  IF hit = <<>> THEN seen
        ELSE zsvsheet_move_hor_to(zsvsheet_goto_input_raw_row(seen, hit[1], Anywhere), hit[2] + b.off)

AnyCell(text) == [text |-> text, col |-> 0, exact |-> FALSE]

zsvsheet_find(s, next, text) ==
    LET asked == IF next \/ text = <<>> THEN s ELSE [s EXCEPT !.find = text]
    IN  IF (~next /\ text = <<>>) \/ asked.find = <<>> THEN Reply(s, "ok")
        ELSE Reply(zsvsheet_handle_find_next(asked, AnyCell(asked.find)), "ok")

\* The first column from start on, round the end, whose header has the term.
zsvsheet_find_column_match(b, term, start) ==
    LET n == BufferCols(b)
        hits == {k \in 0..(n - 1) :
                   Has(Folded(zsvsheet_screen_buffer_cell_display(b, 0, (start + k) % n)), Folded(term))}
    IN  IF hits = {} THEN <<>> ELSE <<(start + Min(hits)) % n>>

zsvsheet_goto_column(s, next, text) ==
    LET b == Top(s)
        asked == IF next \/ text = <<>> THEN s ELSE [s EXCEPT !.column = text]
        start == IF next THEN (SelectedCol(b) + 1) % BufferCols(b) ELSE 0
        found == zsvsheet_find_column_match(b, asked.column, start)
    IN  IF ~HasFile(b) \/ (~next /\ text = <<>>) \/ asked.column = <<>> THEN Reply(s, "ok")
        ELSE IF found = <<>> THEN Reply(asked, "ok")
        ELSE zsvsheet_move_hor_to(asked, found[1])

-----------------------------------------------------------------------------
(* Commands that push a buffer. *)

zsvsheet_open_file_handler(s, a) ==
    CASE a.text = <<>> /\ ~a.given -> Reply(s, "ok")
      [] a.text \in DOMAIN ScrFiles -> OpenFile(s, a.text, "ignore")
      [] OTHER -> Reply(s, "ignore")

\* The contents of a static buffer are written to a file first.  a.sofar says
\* how many rows the filter has written when its buffer is opened.
zsvsheet_filter_handler(s, this, a) ==
    LET b == Top(s)
        text == a.text
        source == IF HasFile(b) THEN SubSeq(b.data, 1, b.avail)
                  ELSE [r \in 1..b.used |-> [c \in 1..b.colCount |-> CellOf(b.text[r - 1], c)]]
        table == FilterTable(source, text, IF this THEN SelectedCol(b) ELSE 0)
        avail == Min({a.sofar, Len(table)})
        pushed == OpenTable(s, table, avail, 0, "error")
    IN  CASE b.writing -> Reply(s, "busy")
          [] ~b.writing /\ text = <<>> /\ ~a.given -> Reply(s, "ok")
          [] ~b.writing /\ (text # <<>> \/ a.given) /\ source = <<>> -> Reply(s, "error")
          [] OTHER -> WithTop(pushed, [Top(pushed) EXCEPT !.indexed = (avail = Len(table)),
                                                          !.writing = (avail < Len(table))])

\* zsv_sqlite3_to_csv() and the wait for the index of the new buffer.
PushSql(s, table) ==
    IF Len(table) = 1 THEN Reply(s, "no_data")
    ELSE LET pushed == OpenTable(s, table, Len(table), 0, "error")
         IN  WithTop(pushed, [Top(pushed) EXCEPT !.indexed = TRUE])

zsvsheet_sqlfilter_handler(s, expr) ==
    LET b == Top(s)
    IN  IF ~HasFile(b) \/ SqlColumn(b.data, expr) = 0 THEN Reply(s, "ok")
        ELSE PushSql(s, SqlRows(b.data, ~b.num, SqlWhere(b.data, expr)))

MarkPivot(pushed, pivot) ==
    IF pushed.status # "ok" THEN pushed
    ELSE WithTop(pushed, [Top(pushed) EXCEPT !.pivot = <<pivot>>])

PushPivot(s, name) ==
    MarkPivot(PushSql(s, PivotTable(Top(s).data, name)), [of |-> Top(s).data, name |-> name])

\* The selected value is looked for in the new buffer.
FindGroup(pushed, cell) ==
    IF pushed.status # "ok" \/ cell = Blank THEN pushed
    ELSE Reply(zsvsheet_handle_find_next(
                   WithTop(pushed, [Top(pushed) EXCEPT !.rowCount = Top(pushed).avail]),
                   [text |-> cell, col |-> 1, exact |-> TRUE]), "ok")

\* By the column of the cursor or by an expression.  Only a key may do it.
zsvsheet_pivot_handler(s, key, byExpr, expr) ==
    LET b == Top(s)
        cell == zsvsheet_screen_buffer_cell_display(b, zsvsheet_get_input_raw_row(b), SelectedCol(b))
    IN  CASE ~key -> Reply(s, "error")
          [] key /\ (~HasFile(b) \/ (byExpr /\ SqlColumn(b.data, expr) = 0)) -> Reply(s, "ok")
          [] key /\ HasFile(b) /\ byExpr /\ SqlColumn(b.data, expr) # 0 -> PushPivot(s, <<Head(expr)>>)
          [] OTHER -> FindGroup(PushPivot(s, zsvsheet_screen_buffer_cell_display(b, 0, SelectedCol(b))), cell)

pivot_drill_down(s) ==
    LET b == Top(s)
        of == b.pivot[1].of
        name == b.pivot[1].name
        row == zsvsheet_get_input_raw_row(b)
    IN  IF row \in 0..(b.avail - 1)
        THEN PushSql(s, SqlRows(of, ~b.num, IF row = 0 THEN {} ELSE DrillRows(of, name, b.data[row + 1][1])))
        ELSE s

zsvsheet_newline_handler(s) == Reply(IF Top(s).pivot = <<>> THEN s ELSE pivot_drill_down(s), "ok")

zsvsheet_errors_handler(s, clear) ==
    LET b == Top(s)
    IN  CASE clear -> Reply(WithTop(s, [b EXCEPT !.errs = 0]), "ok")
          [] ~clear /\ b.errs = 0 -> Reply(s, "ok")
          [] OTHER -> zsvsheet_buffer_new_static(s, <<<<<<"Error">>>>>> \o [i \in 1..b.errs |-> <<Number(i)>>])

ColumnNames(b) ==
    [c \in 1..(BufferCols(b) - b.off) |-> zsvsheet_screen_buffer_cell_display(b, 0, c - 1 + b.off)]

\* compare's two prompts: a first answer that is one column only is followed
\* by a second.
PromptedRanges(names, spec) ==
    LET first == zsv_column_range_parse_ex(names, spec.left, spec.right)
    IN  IF first = <<>> /\ spec.right = NoSide /\ RangeSide(names, spec.left, 0).lo # 0
             /\ spec.second # NoSide
        THEN zsv_column_range_parse_ex(names, spec.left, spec.second) ELSE first

SetCompare(s, cmp) ==
    IF cmp = <<>> THEN s ELSE WithTop([s EXCEPT !.cmp = cmp], ApplyCompare(Top(s), cmp[1]))

zsvsheet_compare_handler(s, spec) == Reply(SetCompare(s, PromptedRanges(ColumnNames(Top(s)), spec)), "ok")

-----------------------------------------------------------------------------
(* Keys and procedures. *)

\* zsvsheet_vim_key_bindings, a key of each group of keys that do the same.
Bindings ==
    <<<<"q", "quit">>, <<"esc", "escape">>, <<"resize", "resize">>, <<"^", "first">>, <<"$", "last">>,
      <<"k", "up">>, <<"j", "down">>, <<"h", "left">>, <<"l", "right">>,
      <<"^d", "pagedown">>, <<"^u", "pageup">>, <<"g", "top">>, <<"G", "bottom">>,
      <<"/", "find">>, <<"n", "next">>, <<"|", "gotocolumn">>, <<"\\", "gotocolumnnext">>,
      <<"e", "open">>, <<"f", "filter">>, <<"F", "filtercol">>, <<":", "subcommand">>, <<"?", "help">>,
      <<"enter", "<Enter>">>, <<"v", "pivot">>, <<"V", "pivotexpr">>,
      <<"", "where">>, <<"", "errors">>, <<"", "errors-clear">>, <<"", "compare">>>>

zsvsheet_find_key_binding(ch) ==
    LET at == {i \in DOMAIN Bindings : Bindings[i][1] = ch}
    IN  IF at = {} THEN "" ELSE Bindings[Min(at)][2]

HelpTable ==
    LET shown == SelectSeq(Bindings, LAMBDA x : x[1] # "resize")
    IN  <<<<<<"Key(s)">>, <<"Action">>, <<"Description">>>>>> \o
        [i \in DOMAIN shown |-> <<<<shown[i][1]>>, <<shown[i][2]>>, <<shown[i][2]>>>>]

\* A procedure by its name, from a key or a command line; a is what the user
\* types at its prompt.
zsvsheet_proc_invoke(s, proc, key, a) ==
    LET b == Top(s)
    IN  CASE proc = "quit" -> Reply(s, "exit")
          [] proc = "escape" -> Reply(zsvsheet_ui_buffer_pop(s), "error")
          [] proc = "resize" -> Reply([s EXCEPT !.h = a.size.h, !.w = a.size.w], "error")
          [] proc \in {"up", "down"} -> zsvsheet_move_ver(s, proc = "up")
          [] proc \in {"left", "right"} -> zsvsheet_move_hor(s, proc = "right")
          [] proc \in {"pageup", "pagedown"} -> zsvsheet_move_page(s, proc = "pageup")
          [] proc = "top" -> zsvsheet_move_ver_to_row(s, 1)
          [] proc = "bottom" -> zsvsheet_move_ver_to_row(s, IF s.number > 0 THEN s.number ELSE b.rowCount)
          [] proc = "last" -> Reply(zsvsheet_move_hor_to(s, b.colCount), "ok")
          [] proc = "first" -> Reply(zsvsheet_move_hor_to(s, 0), "ok")
          [] proc \in {"find", "next"} -> zsvsheet_find(s, proc = "next", a.text)
          [] proc \in {"gotocolumn", "gotocolumnnext"} -> zsvsheet_goto_column(s, proc = "gotocolumnnext", a.text)
          [] proc = "open" -> zsvsheet_open_file_handler(s, a)
          [] proc \in {"filter", "filtercol"} -> zsvsheet_filter_handler(s, proc = "filtercol", a)
          [] proc = "where" -> zsvsheet_sqlfilter_handler(s, a.text)
          [] proc = "help" -> zsvsheet_buffer_new_static(s, HelpTable)
          [] proc = "<Enter>" -> zsvsheet_newline_handler(s)
          [] proc \in {"pivot", "pivotexpr"} -> zsvsheet_pivot_handler(s, key, proc = "pivotexpr", a.text)
          [] proc \in {"errors", "errors-clear"} -> zsvsheet_errors_handler(s, proc = "errors-clear")
          [] proc = "compare" -> zsvsheet_compare_handler(s, a.spec)
          \* a command line that asks for another is answered with nothing
          [] proc = "subcommand" -> Reply(s, "ok")
          [] OTHER -> Reply(s, "error")

Procedures == {Bindings[i][2] : i \in DOMAIN Bindings}

\* zsvsheet_subcommand_handler() and zsvsheet_proc_invoke_from_command(): only
\* open and filter look at the words after the first.
zsvsheet_subcommand_handler(s, a) ==
    LET toks == zsvsheet_lexer_parse(a.line)
        proc == toks[1][1]
        given == Len(toks) > 1 /\ proc \in {"open", "filter", "filtercol"}
    IN  CASE a.line = <<>> -> Reply(s, "ok")
          [] a.line # <<>> /\ (toks = <<>> \/ Len(toks) - 1 > ScrArgs) -> Reply(s, "error")
          [] a.line # <<>> /\ toks # <<>> /\ Len(toks) - 1 <= ScrArgs /\ toks[1] \notin {<<x>> : x \in Procedures} ->
               Reply(s, "error")
          [] OTHER -> zsvsheet_proc_invoke([s EXCEPT !.did = proc], proc, FALSE,
                          IF given THEN [a EXCEPT !.text = toks[2], !.given = TRUE] ELSE a)

\* The key's procedure; g waits for a second g.
zsvsheet_key_press(s, ch, a) ==
    LET proc == zsvsheet_find_key_binding(ch)
        t == [s EXCEPT !.did = proc]
    IN  CASE ch = "g" /\ s.prev # "g" -> Reply([s EXCEPT !.did = ""], "ok")
          [] ch # "g" /\ proc = "" -> Reply(t, "error")
          [] ch = ":" -> zsvsheet_subcommand_handler(t, a)
          [] OTHER -> zsvsheet_proc_invoke(t, proc, TRUE, a)

-----------------------------------------------------------------------------
(* The main loop. *)

zsvsheet_check_buffer_worker_updates(s) ==
    LET b == Top(s)
    IN  IF b.indexed /\ b.rowCount # b.avail
        THEN [WithTop(s, [b EXCEPT !.rowCount = b.avail]) EXCEPT !.update = TRUE]
        ELSE s

\* Mutant: the colours stay with the rows of the buffer.
RefreshedUncoloured(s) ==
    LET t == zsvsheet_check_buffer_worker_updates(s)
    IN  IF t.update /\ HasFile(Top(t)) THEN WithTop(t, read_data(Top(t))) ELSE t

Refreshed(s) ==
    LET t == zsvsheet_check_buffer_worker_updates(s)
        b == read_data(Top(t))
    IN  IF t.update /\ HasFile(Top(t))
        THEN WithTop(t, IF t.cmp = <<>> THEN b ELSE ApplyCompare(b, t.cmp[1]))
        ELSE t

\* The colour of a cell is looked up with the buffer's width of now.
CellColour(b, r, c) ==
    IF b.marks = <<>> THEN {}
    ELSE {m[2] : m \in {x \in b.marks[1].at : x[1] = r * BufferCols(b) + c}}

\* What is on the screen, by screen row and column of the buffer.
display_buffer_subtable(s) ==
    LET b == Top(s)
        rows == 1..(Min({b.bufRow + PageRows(s) + 1, b.used}) - 1 - b.bufRow)
        cols == b.bufCol..(Min({b.bufCol + ColsOnScreen(s, b), ViewCols(b)}) - 1)
    IN  [r \in {0} \cup rows |-> [c \in cols |->
            LET at == IF r = 0 THEN 0 ELSE b.bufRow + r
            IN  [cell |-> zsvsheet_screen_buffer_cell_display(b, at, c), colour |-> CellColour(b, at, c)]]]

\* One turn, for a key or without one.  A handler that does not return ok
\* leaves the screen as it is.  The next turn forgets update and status.
Turn(s) ==
    LET Ended(t) == [t EXCEPT !.update = FALSE, !.status = "ok"]
    IN  CASE s.status = "exit" -> st' = Ended([s EXCEPT !.pc = "done", !.shown = FALSE]) /\ out' = <<>>
          [] s.status = "ok" -> st' = Ended([Refreshed(s) EXCEPT !.shown = TRUE])
                                /\ out' = display_buffer_subtable(Refreshed(s))
          [] OTHER -> st' = Ended([s EXCEPT !.shown = FALSE]) /\ UNCHANGED out

Digits == [d \in {"2", "5", "9"} |-> CASE d = "2" -> 2 [] d = "5" -> 5 [] d = "9" -> 9]

\* What may be typed, by the procedure that asks.
Typed(proc) ==
    [text : IF proc \in DOMAIN ScrTexts THEN ScrTexts[proc] ELSE {<<>>},
     given : {FALSE},
     line : IF proc = "subcommand" THEN ScrLines ELSE {<<>>},
     spec : IF proc = "subcommand" THEN ScrSpecs ELSE {CHOOSE x \in ScrSpecs : TRUE},
     sofar : IF proc \in {"filter", "filtercol"} THEN {1, 99} ELSE {99},
     size : IF proc = "resize" THEN ScrSizes ELSE {CHOOSE x \in ScrSizes : TRUE}]

Moves == {"up", "down", "left", "right", "pageup", "pagedown", "top", "bottom", "first", "last",
          "next", "gotocolumnnext"}

\* Of the key before, only whether it was g is ever asked.
SheetKey ==
    /\ cmd = "sheet" /\ st.pc = "sheet"
    /\ \E ch \in ScrKeys \ DOMAIN Digits :
         LET proc == zsvsheet_find_key_binding(ch)
             cost == IF proc \in Moves THEN 1 ELSE 3
         IN  /\ st.keys + cost <= ScrKeysMax
             /\ \E a \in Typed(proc) :
                \E s \in {zsvsheet_key_press([st EXCEPT !.keys = @ + cost], ch, a)} :
                  /\ Len(s.bufs) <= ScrDepth
                  /\ Turn([s EXCEPT !.prev = IF ch = "g" THEN ch ELSE "", !.number = 0])
    /\ UNCHANGED <<cmd, disk>>

SheetDigit ==
    /\ cmd = "sheet" /\ st.pc = "sheet"
    /\ \E d \in ScrKeys \cap DOMAIN Digits :
         /\ st.number * 10 + Digits[d] <= ScrNumberMax /\ st.keys < ScrKeysMax
         /\ st' = [st EXCEPT !.keys = @ + 1, !.number = @ * 10 + Digits[d], !.did = "", !.shown = FALSE]
    /\ UNCHANGED <<cmd, out, disk>>

\* getch() times out.
SheetTimeout ==
    /\ cmd = "sheet" /\ st.pc = "sheet"
    /\ Turn([st EXCEPT !.did = ""])
    /\ UNCHANGED <<cmd, disk>>

\* The worker of a buffer has indexed the file, or written all of it.
SheetWorkerEnds ==
    /\ cmd = "sheet" /\ st.pc \in {"start", "sheet"}
    /\ \E i \in DOMAIN st.bufs :
         /\ HasFile(st.bufs[i]) /\ ~st.bufs[i].indexed
         /\ st' = [st EXCEPT !.bufs[i].indexed = TRUE, !.bufs[i].writing = FALSE, !.did = "",
                              !.bufs[i].avail = Len(st.bufs[i].data), !.shown = FALSE]
    /\ UNCHANGED <<cmd, out, disk>>

\* The command line: a file that cannot be opened ends the program.
SheetStart(h, w, name) ==
    LET s == [pc |-> "start", bufs |-> <<BlankBuffer>>, h |-> h, w |-> w, number |-> 0, prev |-> "",
              find |-> <<>>, column |-> <<>>, cmp |-> <<>>, update |-> FALSE, status |-> "ok",
              shown |-> FALSE, did |-> "", keys |-> 0]
        t == IF name = <<>> THEN s ELSE OpenFile(s, name, "failed")
    IN  IF t.status = "failed" THEN [t EXCEPT !.pc = "done"] ELSE t

SheetInit ==
    /\ cmd = "sheet"
    /\ \E x \in ScrStarts : st = SheetStart(x.h, x.w, x.name)
    /\ out = <<>>
    /\ disk = {}

\* --compare, if it names columns, and the first drawing; what the check for
\* the worker's news asks for is forgotten.
SheetFirst ==
    /\ cmd = "sheet" /\ st.pc = "start"
    /\ \E spec \in ScrSpecs \cup {<<>>} :
       \E cmp \in {IF spec = <<>> THEN <<>>
                   ELSE zsv_column_range_parse_ex(ColumnNames(Top(st)), spec.left, spec.right)} :
         LET s == zsvsheet_check_buffer_worker_updates(SetCompare(st, cmp))
         IN  IF spec # <<>> /\ cmp = <<>>
             THEN st' = [st EXCEPT !.pc = "done"] /\ UNCHANGED out
             ELSE st' = [s EXCEPT !.pc = "sheet", !.shown = TRUE, !.update = FALSE] /\ out' = display_buffer_subtable(s)
    /\ UNCHANGED <<cmd, disk>>

SheetNext == SheetFirst \/ SheetKey \/ SheetDigit \/ SheetTimeout \/ SheetWorkerEnds

-----------------------------------------------------------------------------
(* Properties.  They leave out what four faults of the code do: a page     *)
(* down in a table shorter than a page (sheet.c:441) and a move to the end *)
(* of the buffer before the rows are counted (cursor.c:14) put the window  *)
(* past the rows that are loaded; find in a table that brings its own row  *)
(* numbers stops a column late (sheet.c:603); and nG stops up to half a    *)
(* page late where the rows above n are not in the buffer or n is half a   *)
(* page (cursor.c:49).                                                     *)

Regular(b) == HasFile(b) /\ b.rowCount > 1 /\ ~b.astray
OnScreen(s, b) == b.curRow <= PageRows(s) /\ b.curCol < ColsOnScreen(s, b)

\* The cell of the table behind a row and a column of the view.
TableCell(b, r, c) == CellOf(NumberedIf(~b.num, r, b.data[r + 1]), c + 1)

\* Whatever keys led there, the cursor is on a row of the table, that row is on
\* the screen at the cursor, and the rows around it are its neighbours, cell by
\* cell: the window of the file, the window of the buffer and the buffer's
\* contents agree (zsvsheet_goto_input_raw_row, read_data,
\* display_buffer_subtable).  A blank cell may show what was there before
\* (read-data.c:257).
ScreenShowsTheSelection ==
    cmd = "sheet" /\ st.pc = "sheet" /\ st.shown =>
        LET b == Top(st)
            row == zsvsheet_get_input_raw_row(b)
        IN  Regular(b) /\ OnScreen(st, b) =>
                /\ row < b.rowCount
                /\ SelectedCol(b) \in DOMAIN out[0]
                /\ b.curRow \in DOMAIN out
                /\ \A k \in DOMAIN out \ {0} : \A c \in DOMAIN out[k] :
                     TableCell(b, row - b.curRow + k, c) \in {out[k][c].cell, Blank}

\* Each key does what the help says of it, across windows: up and down one row,
\* nG to row n (or up to half a page below, see above), gg and G to the ends, page down a page, the columns one by one
\* and to the ends, find to the first cell after the cursor that has the text,
\* find column to the next header that has the term (sheet.c:1064-1095).
KeysMoveAsTheHelpSays ==
    [][cmd = "sheet" /\ st.pc = "sheet" /\ Len(st'.bufs) = Len(st.bufs) /\ st'.did # "" =>
        LET b == Top(st)
            to == Top(st')
            row == zsvsheet_get_input_raw_row(b)
            col == SelectedCol(b)
            last == b.rowCount - 1
            at == <<zsvsheet_get_input_raw_row(to), SelectedCol(to)>>
            n == IF st.number = 0 THEN last ELSE Min({st.number, last})
            late == IF st.number = 0 THEN 0 ELSE PageRows(st) \div 2
            cells == {x \in (1..(b.avail - 1)) \X (b.off..b.colCount) :
                        /\ x[1] > row \/ (x[1] = row /\ x[2] > col)
                        /\ Has(TableCell(b, x[1], x[2]), st'.find)}
            heads == {k \in 1..(BufferCols(b)) :
                        \E c \in 0..(BufferCols(b) - 1) : c = (col + k) % BufferCols(b)
                           /\ Has(Folded(TableCell(b, 0, c)), Folded(st'.column))}
        IN  Regular(b) /\ Regular(to) /\ OnScreen(st, b) =>
            CASE st'.did = "down" -> at = <<Min({row + 1, last}), col>>
              [] st'.did = "up" -> at = <<Max({row - 1, 0}), col>>
              [] st'.did = "top" -> at = <<1, col>>
              [] st'.did = "bottom" -> at[1] \in n..(n + late) /\ at[2] = col
              [] st'.did = "pagedown" ->
                   at = <<IF row + PageRows(st) <= last THEN row + PageRows(st) ELSE row, col>>
              [] st'.did = "pageup" -> at[2] = col /\ at[1] \in (row - PageRows(st))..row
              [] st'.did = "left" -> at = <<row, Max({col - 1, 0})>>
              [] st'.did = "right" -> at = <<row, Min({col + 1, ViewCols(b) - 1})>>
              [] st'.did = "first" -> at = <<row, 0>>
              [] st'.did = "last" -> at = <<row, ViewCols(b) - 1>>
              [] (st'.did = "next" \/ st'.find # st.find) /\ ~b.num /\ st'.find # <<>> /\ row > 0 ->
                   at = IF cells = {} THEN <<row, col>>
                        ELSE CHOOSE x \in cells : \A y \in cells : y[1] > x[1] \/ (y[1] = x[1] /\ y[2] >= x[2])
              [] st'.did = "gotocolumnnext" /\ st.column # <<>> ->
                   at = <<row, IF heads = {} THEN col ELSE (col + Min(heads)) % BufferCols(b)>>
              [] OTHER -> TRUE]_procVars

\* The cells that compare has coloured keep the colours of their contents while
\* the view scrolls: green where the two cells agree, red where they differ
\* (zsvsheet_apply_compare_attrs after each read_data).
ColoursFollowTheCells ==
    cmd = "sheet" /\ st.pc = "sheet" /\ st.shown =>
        LET b == Top(st)
        IN  Regular(b) /\ b.marks # <<>> /\ b.marks[1].spec \in {st.cmp[i] : i \in DOMAIN st.cmp} =>
            \A k \in DOMAIN out \ {0} : \A i \in 0..(st.cmp[1].n - 1) :
                LET x == st.cmp[1].a - 1 + i + b.off
                    y == st.cmp[1].b - 1 + i + b.off
                IN  {x, y} \subseteq DOMAIN out[k] =>
                        /\ out[k][x].colour = out[k][y].colour
                        /\ out[k][x].colour = {IF out[k][x].cell = out[k][y].cell THEN "match" ELSE "diff"}
=============================================================================
