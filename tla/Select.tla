------------------------------ MODULE Select -------------------------------
(***************************************************************************)
(* app/select.c (without its chunks) and app/select-pull.c: the header row *)
(* decides the output columns, and each data row is counted, skipped,      *)
(* sampled, searched and written.  One step is one row.                    *)
(*                                                                         *)
(* A cell is [t, q]: its text, a sequence of characters, and whether it    *)
(* was quoted.  A column of the command line is an index selection         *)
(* [kind, lo, hi] with -n and a name (a text) otherwise.                   *)
(***************************************************************************)
EXTENDS Overlay

CONSTANTS
    SelRuns,        \* [opts, table, over]: a command line, its input, its overwrites
    SelLower(_),    \* a name in lower case (zsv_stricmp)
    SelMaxColumns,  \* opts->max_columns
    SelFastColumns  \* the cells a row of the fast path can hold (256)

\* The arguments that choose columns are a list, the ones of -n of numbers.
ColumnArguments(o) ==
    /\ IsList(o.columns)
    /\ o.byIndex => \A a \in DOMAIN o.columns :
         /\ o.columns[a].kind \in {"none", "single", "range", "lower"}
         /\ o.columns[a].lo \in Nat /\ o.columns[a].hi \in Nat

\* A row that the parser hands over has at most opts->max_columns cells.
ASSUME SelAssumption ==
    /\ SelMaxColumns \in Nat /\ SelFastColumns \in Nat
    /\ \A r \in SelRuns :
         /\ r.opts.pull \in BOOLEAN /\ r.opts.file \in BOOLEAN /\ r.opts.badOutput \in BOOLEAN
         /\ r.opts.noHeader \in BOOLEAN /\ r.opts.pct \in BOOLEAN
         /\ r.opts.skip \in Nat /\ r.opts.every \in Nat /\ r.opts.head \in Int
         /\ ColumnArguments(r.opts)
         /\ IsList(r.table) /\ \A n \in DOMAIN r.table :
              /\ IsList(r.table[n]) /\ Len(r.table[n]) <= SelMaxColumns
              /\ \A c \in DOMAIN r.table[n] : IsList(r.table[n][c].t)

SpaceChars == {" "}
WhiteChars == {" ", "\n"}

\* zsv_strtrim
Trim(t) ==
    LET ink == {i \in DOMAIN t : t[i] \notin SpaceChars}
    IN  IF ink = {} THEN <<>> ELSE SubSeq(t, Min(ink), Max(ink))

\* zsv_strwhite: a run of white becomes one character, a newline if it holds
\* one and newlines are kept; a run at the end is dropped.
White(t, noNewline) ==
    FoldLeft(LAMBDA acc, c :
        IF c \notin WhiteChars
        THEN [t |-> acc.t \o acc.gap \o <<c>>, gap |-> <<>>]
        ELSE IF c = "\n" /\ ~noNewline THEN [acc EXCEPT !.gap = <<"\n">>]
        ELSE IF acc.gap = <<>> THEN [acc EXCEPT !.gap = <<" ">>] ELSE acc,
        [t |-> <<>>, gap |-> <<>>], t).t

\* zsv_strunescape_backslash on the escape of a newline.
Unescape(t) == [i \in DOMAIN t |-> IF t[i] = "\\n" THEN "\n" ELSE t[i]]

AnyClean(o) == ~o.noTrim \/ o.white \/ o.lineEnd # "none" \/ (o.unescape /\ ~o.pull)

\* zsv_select_cell_clean; the pull variant has no --unescape.
CellClean(o, c) ==
    LET u == IF o.unescape /\ ~o.pull THEN Unescape(c.t) ELSE c.t
        q == c.q \/ u # c.t
        a == IF o.noTrim THEN u ELSE Trim(u)
        b == IF o.white THEN White(a, o.noNewline) ELSE a
        d == [i \in DOMAIN b |-> IF b[i] = "\n" THEN o.lineEnd ELSE b[i]]
    IN  IF ~(o.lineEnd # "none" /\ q) THEN b
        ELSE IF o.noTrim THEN Trim(d) ELSE d

Cleaned(o, c) == IF AnyClean(o) THEN CellClean(o, c) ELSE c.t

-----------------------------------------------------------------------------
(* Columns *)

SameName(a, b) == SelLower(a) = SelLower(b)

\* zsv_select_column_index_selection, for column i of the input.
Selects(sel, i) ==
    \/ sel.kind = "single" /\ i = sel.lo
    \/ sel.kind = "range" /\ sel.lo <= i /\ i <= sel.hi
    \/ sel.kind = "lower" /\ sel.lo <= i

\* zsv_select_excluded_current_header_name
Excluded(o, names, i) ==
    IF o.byIndex THEN \E x \in Range(o.exclude) : Selects(x, i)
    ELSE i \in DOMAIN names /\ \E x \in Range(o.exclude) : SameName(names[i], x)

\* Two columns with the same name.
Namesakes(names, i, j) == {i, j} \subseteq DOMAIN names /\ SameName(names[i], names[j])

\* zsv_select_find_header among the columns already chosen; 0 if none.
FindHeader(names, cols, i) ==
    LET same == {k \in DOMAIN cols : Namesakes(names, cols[k].ix, i)}
    IN  IF same = {} THEN 0 ELSE Min(same)

\* zsv_select_add_output_col
AddOutputCol(o, names, cols, i) ==
    LET found == FindHeader(names, cols, i)
    IN  IF Len(cols) >= SelMaxColumns THEN cols
        ELSE IF o.distinct # "none" /\ found # 0
        THEN IF o.distinct = "merge" THEN [cols EXCEPT ![found].merge = Append(@, i)] ELSE cols
        ELSE IF Excluded(o, names, i) THEN cols
        ELSE Append(cols, [ix |-> i, merge |-> <<>>])

\* str_array_ifind: a blank name finds the first blank column.
IFind(name, names) ==
    LET at == {i \in DOMAIN names : IF name = <<>> THEN names[i] = <<>>
                                    ELSE names[i] # <<>> /\ SameName(names[i], name)}
    IN  IF at = {} THEN 0 ELSE Min(at)

\* The input columns one argument stands for; 0 is an argument that is none.
Wanted(o, names, arg) ==
    IF ~o.byIndex THEN <<IFind(arg, names)>>
    ELSE CASE arg.kind = "none" -> <<0>>
           [] arg.kind = "single" -> <<arg.lo>>
           [] arg.kind = "range" ->
                [k \in 1..(Min({arg.hi, SelMaxColumns - 1}) - arg.lo + 1) |-> arg.lo + k - 1]
           [] arg.kind = "lower" -> [k \in 1..(Len(names) - arg.lo + 1) |-> arg.lo + k - 1]

\* zsv_select_set_output_columns
WantedColumns(o, names) ==
    IF o.columns = <<>> THEN [i \in DOMAIN names |-> i]
    ELSE FlattenSeq([a \in DOMAIN o.columns |-> Wanted(o, names, o.columns[a])])

OutputColumns(o, names) ==
    LET want == WantedColumns(o, names)
        cols[n \in 0..Len(want)] ==
            IF n = 0 THEN <<>> ELSE AddOutputCol(o, names, cols[n - 1], want[n])
    IN  cols[Len(want)]

\* zsv_select_apply_renames, phase 1: the columns a directive renames.
RenameTargets(names, r) ==
    IF r.index > 0 THEN {r.index} \cap DOMAIN names
    ELSE {i \in DOMAIN names : names[i] # <<>> /\ SameName(names[i], r.name)}

RenamesFail(o, names) ==
    \/ \E k \in DOMAIN o.renames : RenameTargets(names, o.renames[k]) = {}
    \/ \E j, k \in DOMAIN o.renames :
         j < k /\ RenameTargets(names, o.renames[j]) \cap RenameTargets(names, o.renames[k]) # {}

\* Phase 2, for the columns that have a directive.
Renamed(o, names) ==
    [i \in DOMAIN names |->
        LET by == {k \in DOMAIN o.renames : i \in RenameTargets(names, o.renames[k])}
        IN  IF by = {} THEN names[i] ELSE o.renames[Min(by)].new]

-----------------------------------------------------------------------------
(* The command *)

\* The option loop, zsv_select_check_exclusions_are_indexes and the opening of
\* the input.  The pull variant opens the file of -o here.
BadArguments(o) ==
    \/ o.badArg \/ o.badInput
    \/ o.byIndex /\ \E x \in Range(o.exclude) : x.kind = "none"

SelectInit ==
    /\ cmd = "select" /\ out = <<>>
    /\ \E r \in SelRuns :
         LET bad == BadArguments(r.opts)
             opens == r.opts.file /\ r.opts.pull
         IN  /\ st = [pc |-> IF bad THEN "close" ELSE "header", opts |-> r.opts,
                      table |-> r.table, next |-> 1, over |-> r.over, orig |-> r.over,
                      names |-> <<>>, cols |-> <<>>, count |-> 0, skip |-> r.opts.skip,
                      cancelled |-> FALSE, headerFailed |-> FALSE, headerFinished |-> FALSE,
                      stat |-> IF bad THEN "error" ELSE "ok"]
             /\ disk = IF opens THEN "new" ELSE "old"

\* zsv_get_cell: the cursor over the overwrites moves to the cell, and the cell
\* is what stands there; one that the row lacks is blank.
Asked(over, row, cells, i) == IF i \in DOMAIN cells THEN Ahead(over, row, i - 1) ELSE over
CellAt(over, row, cells, i) ==
    IF i \notin DOMAIN cells THEN [t |-> <<>>, q |-> FALSE]
    ELSE IF StandsAt(over, row, i - 1) THEN over[1].val ELSE cells[i]

\* The cells of the columns of seq, asked for one after the other.
Fetch(over, row, cells, seq) ==
    LET cursor[n \in 0..Len(seq)] ==
            IF n = 0 THEN over ELSE Asked(cursor[n - 1], row, cells, seq[n])
    IN  [over |-> cursor[Len(seq)],
         got |-> [n \in 1..Len(seq) |-> CellAt(cursor[n], row, cells, seq[n])]]

\* zsv_select_print_header_row
HeaderRow(o, names, cols) ==
    IF o.noHeader THEN <<>>
    ELSE <<[no |-> 0, cells |-> [k \in DOMAIN cols |->
            IF cols[k].ix \in DOMAIN names THEN o.prepend \o names[cols[k].ix] ELSE o.prepend]]>>

\* Mutant: the file of -o is opened before the header is known to be valid.
OpensOutputFirst(o, fails) == o.file

\* zsv_select_set_up_output, when the header has passed every test.
OpensOutput(o, fails) == o.file /\ ~fails

\* zsv_select_header_row and zsv_select_header_finish.  The file of -o is made
\* once the columns and the renames are valid; the pull variant, which has no
\* renames, made it before and does not report a header that fails.
SelectHeaderRow ==
    /\ st.pc = "header" /\ Len(st.table) > 0
    /\ LET o == st.opts
           row == st.table[1]
           f == Fetch(st.over, 0, row, [i \in DOMAIN row |-> i])
           names == [i \in 1..Min({Len(row), SelMaxColumns}) |-> Cleaned(o, f.got[i])]
           fails == \/ 0 \in Range(WantedColumns(o, names))
                    \/ ~o.pull /\ (RenamesFail(o, names) \/ (o.file /\ o.badOutput))
           final == IF o.pull THEN names ELSE Renamed(o, names)
           cols == OutputColumns(o, names)
       IN  /\ st' = [st EXCEPT !.pc = "data", !.next = 2, !.over = f.over,
                               !.names = final, !.cols = IF fails THEN <<>> ELSE cols,
                               !.cancelled = fails, !.headerFailed = fails /\ ~o.pull,
                               !.headerFinished = ~fails]
           /\ out' = IF fails THEN out ELSE out \o HeaderRow(o, final, cols)
           /\ disk' = IF OpensOutput(o, fails) THEN "new" ELSE disk
    /\ UNCHANGED cmd

\* Mutant: the sample starts one row early.
SkippedFromZero(o, skip, count, drawn) ==
    \/ skip > 0
    \/ (o.every > 0 \/ o.pct) /\ ~(o.every > 0 /\ count % o.every = 0) /\ ~(o.pct /\ drawn)

\* The skip, sample-every and sample-pct tests of zsv_select_data_row.
Skipped(o, skip, count, drawn) ==
    \/ skip > 0
    \/ (o.every > 0 \/ o.pct) /\ ~(o.every > 0 /\ count % o.every = 1) /\ ~(o.pct /\ drawn)

\* zsv_select_row_search_hit: the bytes between the cells are cleared, so that
\* a value is found inside a cell only; the white before the first cell stays.
\* A value is a character.
Searched(o, cells, i) ==
    LET clean == Cleaned(o, cells[i])
        raw == cells[i].t
        ink == {k \in DOMAIN raw : raw[k] \notin SpaceChars}
        lead == {k \in DOMAIN raw : \A j \in ink : k < j}
        keepsLead == i = 1 /\ ~o.pull /\ ~o.noTrim /\ clean # <<>>
    IN  Range(clean) \cup {raw[k] : k \in IF keepsLead THEN lead ELSE {}}

SearchHit(o, cells) ==
    o.search = {} \/ \E i \in DOMAIN cells : Searched(o, cells, i) \cap o.search # {}

\* The cell of one output column: the merged columns are only asked for while
\* the cells before them are empty.
OutputCell(o, acc, row, cells, col) ==
    LET tries == IF o.distinct = "merge" THEN <<col.ix>> \o col.merge ELSE <<col.ix>>
        pick[n \in 0..Len(tries)] ==
            IF n = 0 THEN [over |-> acc.over, text |-> <<>>]
            ELSE IF pick[n - 1].text # <<>> THEN pick[n - 1]
            ELSE LET over == Asked(pick[n - 1].over, row, cells, tries[n])
                 IN  [over |-> over, text |-> Cleaned(o, CellAt(over, row, cells, tries[n]))]
        got == pick[Len(tries)]
    IN  [over |-> got.over, cells |-> Append(acc.cells, got.text)]

\* zsv_select_output_data_row.  The fast path, for which nothing has to be
\* done to a cell, holds SelFastColumns cells; a quoted cell among them sends
\* the row down the slow path.
FastRow(o, f) ==
    /\ ~o.pull /\ ~o.lineNumber /\ ~AnyClean(o) /\ o.distinct # "merge"
    /\ \A k \in DOMAIN f.got : ~f.got[k].q

OutputDataRow(o, over, row, cells, cols) ==
    LET n == Min({Len(cols), SelFastColumns})
        f == Fetch(over, row, cells, [k \in 1..n |-> cols[k].ix])
        tried == IF ~o.pull /\ ~o.lineNumber /\ ~AnyClean(o) /\ o.distinct # "merge"
                 THEN f.over ELSE over
        written[k \in 0..Len(cols)] ==
            IF k = 0 THEN [over |-> tried, cells |-> <<>>]
            ELSE OutputCell(o, written[k - 1], row, cells, cols[k])
    IN  IF FastRow(o, f) THEN [over |-> f.over, cells |-> [k \in 1..n |-> f.got[k].t]]
        ELSE written[Len(cols)]

\* zsv_select_data_row
SelectDataRow ==
    /\ st.pc = "data" /\ st.next <= Len(st.table) /\ ~st.cancelled
    /\ \E drawn \in IF st.opts.pct THEN BOOLEAN ELSE {FALSE} :
         LET o == st.opts
             row == st.table[st.next]
             count == st.count + 1
             whole == [i \in DOMAIN row |-> i]
             searched == IF o.search = {} THEN [over |-> st.over, got |-> row]
                         ELSE Fetch(st.over, st.next - 1, row, whole)
             shown == ~Skipped(o, st.skip, count, drawn) /\ SearchHit(o, searched.got)
             w == OutputDataRow(o, searched.over, st.next - 1, row, st.cols)
             line == [no |-> IF o.lineNumber THEN count ELSE 0, cells |-> w.cells]
         IN  /\ st' = [st EXCEPT !.next = @ + 1, !.count = count,
                                 !.skip = IF @ > 0 THEN @ - 1 ELSE 0,
                                 !.over = IF shown THEN w.over
                                          ELSE IF Skipped(o, st.skip, count, drawn) THEN @
                                          ELSE searched.over,
                                 !.cancelled = shown /\ o.head >= 0 /\ count + 1 >= o.head + 1]
             /\ out' = IF shown THEN Append(out, line) ELSE out
    /\ UNCHANGED <<cmd, disk>>

\* zsv_signal_interrupted stops the loop over the input between two reads; a
\* header that failed is an error all the same.
SelectInterrupt ==
    /\ st.pc \in {"header", "data"} /\ ~st.opts.pull /\ st.opts.interrupts
    /\ st' = [st EXCEPT !.pc = "close", !.stat = IF st.headerFailed THEN "error" ELSE @]
    /\ UNCHANGED <<cmd, out, disk>>

\* The end of the input, or of a command that is cancelled.
SelectEnd ==
    /\ \/ st.pc = "data" /\ (st.cancelled \/ st.next > Len(st.table))
       \/ st.pc = "header" /\ Len(st.table) = 0
    /\ st' = [st EXCEPT !.pc = "close", !.stat = IF st.headerFailed THEN "error" ELSE @]
    /\ UNCHANGED <<cmd, out, disk>>

\* An input without a row still makes the file of -o; then zsv_select_cleanup.
SelectClose ==
    /\ st.pc = "close"
    /\ LET late == /\ st.opts.file /\ ~st.opts.pull /\ st.stat = "ok"
                   /\ ~st.headerFinished /\ ~st.headerFailed
       IN  /\ disk' = IF late /\ ~st.opts.badOutput THEN "new" ELSE disk
           /\ st' = [st EXCEPT !.pc = "done",
                               !.stat = IF late /\ st.opts.badOutput THEN "error" ELSE @]
    /\ UNCHANGED <<cmd, out>>

SelectNext ==
    /\ cmd = "select"
    /\ SelectHeaderRow \/ SelectDataRow \/ SelectInterrupt \/ SelectEnd \/ SelectClose

\* The command alone.
SelSpec == SelectInit /\ [][SelectNext \/ Finished]_procVars

-----------------------------------------------------------------------------

\* The columns the arguments ask for, as places among those wanted: with
\* --distinct and --merge the first of each name, and never one that is excluded.
AskedColumns(o, names) ==
    LET want == WantedColumns(o, names)
        kept == {k \in DOMAIN want : ~Excluded(o, names, want[k])}
    IN  {k \in kept : o.distinct # "none" =>
                         ~\E j \in kept : j < k /\ Namesakes(names, want[j], want[k])}

\* The value of a cell: cleaned, and with --merge the first of the columns of
\* the same name that is not empty.
AskedCell(o, names, row, i) ==
    LET want == WantedColumns(o, names)
        text(c) == Cleaned(o, CellAt(<<>>, 0, row, c))
        full == {k \in DOMAIN want : Namesakes(names, i, want[k]) /\ text(want[k]) # <<>>}
    IN  IF o.distinct # "merge" \/ text(i) # <<>> \/ full = {} THEN text(i)
        ELSE text(want[Min(full)])

\* The data rows the filters ask for.
AskedRows(o, table) ==
    {r \in 2..Len(table) :
        /\ r - 1 > o.skip
        /\ o.every > 0 => (r - 1) % o.every = 1
        /\ o.search # {} =>
             \E c \in DOMAIN table[r] : Range(Cleaned(o, table[r][c])) \cap o.search # {}
        /\ o.head > 0 => r - 1 <= o.head}

\* Not covered: -H together with a filter, which lets one row too many through;
\* -H 0; rows of the fast path with more cells than it holds; more columns than
\* opts->max_columns; a search for a blank; --merge with columns
\* excluded by their numbers.
SelCovered(o, want, cols) ==
    /\ ~o.pct /\ ~o.interrupts
    /\ o.head >= 0 => o.head > 0 /\ o.skip = 0 /\ o.every = 0 /\ o.search = {}
    /\ ~AnyClean(o) => Cardinality(cols) <= SelFastColumns
    /\ Len(want) <= SelMaxColumns /\ o.search \cap SpaceChars = {}
    /\ ~(o.distinct = "merge" /\ o.byIndex /\ o.exclude # <<>>)

\* The place of k in a set of numbers.
PlaceIn(set, k) == Cardinality({j \in set : j <= k})

\* What select.c and select-pull.c write is the sub-table of the input that
\* the command line asks for, row by row and cell by cell, numbered as in the
\* input, below a header with the names of the columns.
SelectedRowsAreThoseAsked ==
    LET o == st.opts
        names == [i \in DOMAIN st.table[1] |-> Cleaned(o, st.table[1][i])]
        want == WantedColumns(o, names)
        cols == AskedColumns(o, names)
        rows == AskedRows(o, st.table)
        header == IF o.noHeader THEN 0 ELSE 1
    IN  cmd = "select" /\ st.pc = "done" /\ st.headerFinished /\ st.orig = <<>>
          /\ SelCovered(o, want, cols) =>
        /\ Len(out) = header + Cardinality(rows)
        /\ \A r \in rows :
             LET line == out[header + PlaceIn(rows, r)]
             IN  /\ line.no = IF o.lineNumber THEN r - 1 ELSE 0
                 /\ Len(line.cells) = Cardinality(cols)
                 /\ \A k \in cols : line.cells[PlaceIn(cols, k)]
                                      = AskedCell(o, names, st.table[r], want[k])
        /\ ~o.noHeader /\ o.renames = <<>> =>
             /\ Len(out[1].cells) = Cardinality(cols)
             /\ \A k \in cols : out[1].cells[PlaceIn(cols, k)] =
                  IF want[k] \in DOMAIN names THEN o.prepend \o names[want[k]] ELSE o.prepend

\* A command that fails before its first row of output leaves the file of -o
\* as it was, and one that succeeds has replaced it (the order of
\* zsv_select_header_finish, and the file of an empty input).
FailedHeaderLeavesTheFile ==
    cmd = "select" /\ st.pc = "done" /\ ~st.opts.pull =>
        /\ st.stat = "error" => disk = "old" /\ out = <<>>
        /\ st.stat = "ok" => (disk = "new" <=> st.opts.file)
=============================================================================
