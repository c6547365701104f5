--------------------------- MODULE ParserControl ---------------------------
(***************************************************************************)
(* What happens to a row between the scanner, which has just found its     *)
(* end, and the caller's row handler: the chain of header handlers of      *)
(* zsv_internal.c, the abort flag, the progress callback, the row limit    *)
(* and the overwrites that zsv_get_cell() lays over the cells.  One step   *)
(* is one row.  Splitting bytes into rows is Scanner's.                    *)
(***************************************************************************)
EXTENDS Overlay

CONSTANTS
    PcTables,       \* the tables read: sequences of rows of cells
    PcOverwrites,   \* sequences of [row, col, val], sorted by row and column
    PcOptions       \* records [ignore, keep, span, fixed, max, interval]

\* A sequence of rows of cells.
IsTable(t) ==
    LET isSeq(s) == s \in Seq(Range(s))
    IN  /\ isSeq(t)
        /\ \A r \in Range(t) : isSeq(r) /\ \A c \in Range(r) : isSeq(c)

\* Overwrites, in the order of their cells: order by row, column.
IsOverwrites(ow) ==
    /\ ow \in Seq(Range(ow))
    /\ \A k \in DOMAIN ow : ow[k].row \in Nat /\ ow[k].col \in Nat
    /\ \A j, k \in DOMAIN ow : j < k =>
         ow[j].row < ow[k].row \/ (ow[j].row = ow[k].row /\ ow[j].col <= ow[k].col)

ASSUME PcAssumption ==
    /\ PcOptions \subseteq [ignore : Nat, keep : BOOLEAN, span : Nat, fixed : BOOLEAN,
                            max : Nat, interval : Nat]
    /\ \A t \in PcTables : IsTable(t)
    /\ \A ow \in PcOverwrites : IsOverwrites(ow)

\* Mutant: the row count goes on from the header rows.
SetCallbacksCountingOn(s) ==
    IF s.ignore > 0
    THEN [s EXCEPT !.handler = "ignore_header_rows"]
    ELSE IF ~s.fixed /\ ~s.keep
    THEN [s EXCEPT !.handler = "skip_to_first_row_w_data"]
    ELSE IF s.span > 1
    THEN [s EXCEPT !.handler = "collate_header_row"]
    ELSE [s EXCEPT !.handler = "caller", !.overwrites = s.have]

\* set_callbacks: which handler the next row goes to.
SetCallbacks(s) ==
    IF s.ignore > 0
    THEN [s EXCEPT !.handler = "ignore_header_rows"]
    ELSE IF ~s.fixed /\ ~s.keep
    THEN [s EXCEPT !.handler = "skip_to_first_row_w_data"]
    ELSE IF s.span > 1
    THEN [s EXCEPT !.handler = "collate_header_row"]
    ELSE [s EXCEPT !.handler = "caller",
                   !.overwrites = s.have,
                   !.dataRow = 0]

\* zsv_scanner_init runs set_callbacks before the overwrites are opened, and
\* zsv_set_fixed_offsets runs it once more.
ScannerInit(o, ow) ==
    LET s0 == [pc |-> "rows", opts |-> o, table |-> <<>>, next |-> 1,
               ignore |-> o.ignore, keep |-> o.keep, span |-> o.span,
               fixed |-> o.fixed, handler |-> "", collate |-> <<>>,
               have |-> FALSE, over |-> ow, orig |-> ow, overwrites |-> FALSE,
               dataRow |-> 0, cum |-> 0, abort |-> FALSE,
               asked |-> 0, stat |-> "ok"]
    IN  [SetCallbacks(s0) EXCEPT !.have = (ow # <<>>)]

ParserInit ==
    /\ cmd = "parser" /\ disk = <<>> /\ out = <<>>
    /\ \E o \in PcOptions, t \in PcTables, ow \in PcOverwrites :
         st = [ScannerInit(o, ow) EXCEPT !.table = t]

-----------------------------------------------------------------------------

\* Mutant: an overwrite is laid over the cell to its right.
GetCellOneOff(s, cells, i) ==
    LET over == Ahead(s.over, s.dataRow, i - 2)
    IN  IF s.overwrites /\ StandsAt(over, s.dataRow, i - 2) THEN over[1].val ELSE cells[i]

\* zsv_get_cell_with_overwrite, for a caller that asks for the cells in order.
GetCell(s, cells, i) ==
    LET over == Ahead(s.over, s.dataRow, i - 1)
    IN  IF s.overwrites /\ StandsAt(over, s.dataRow, i - 1) THEN over[1].val ELSE cells[i]

\* The caller's handler sees the row, moves the overwrite cursor past it and
\* may call zsv_abort().
Caller(s, cells, aborts) ==
    LET over == IF s.overwrites /\ cells # <<>>
                THEN Ahead(s.over, s.dataRow, Len(cells) - 1) ELSE s.over
    IN  [s EXCEPT !.over = over,
                  !.have = s.have /\ over # <<>>,
                  !.overwrites = s.overwrites /\ over # <<>>,
                  !.abort = s.abort \/ aborts,
                  !.asked = IF aborts /\ s.asked = 0 THEN Len(out) + 1
                                                     ELSE s.asked]

CallerSaw(s, cells) ==
    Append(out, [row |-> s.dataRow, cells |-> [i \in DOMAIN cells |-> GetCell(s, cells, i)]])

IsBlank(cells) == \A i \in DOMAIN cells : cells[i] = Blank

\* collate_header_append, after the row has been given the column count of
\* the rows collected so far: each cell is added to the end of its column.
Collate(collate, cells) ==
    IF collate = <<>> THEN <<cells>>
    ELSE <<[i \in DOMAIN collate[1] |->
              collate[1][i] \o (IF i \in DOMAIN cells THEN cells[i] ELSE Blank)]>>

\* The row handlers, each the whole of its C function: the new state of the
\* scanner and what the caller has seen by then.  A handler that ends its part
\* of the header installs the next one (set_callbacks) and, when the row
\* belongs to that one too, calls it (apply_callbacks).
CallCaller(s, cells, aborts) ==
    [s |-> Caller(s, cells, aborts), out |-> CallerSaw(s, cells)]

CollateHeaderRow(s, cells, aborts) ==
    LET s1 == [s EXCEPT !.span = @ - 1, !.collate = Collate(@, cells)]
    IN  IF s1.span > 0 THEN [s |-> s1, out |-> out]
        ELSE CallCaller([SetCallbacks(s1) EXCEPT !.collate = <<>>],
                        s1.collate[1], aborts)

SkipToFirstRowWithData(s, cells, aborts) ==
    LET s1 == SetCallbacks([s EXCEPT !.keep = TRUE])
    IN  IF IsBlank(cells) THEN [s |-> s, out |-> out]
        ELSE IF s1.handler = "collate_header_row"
        THEN CollateHeaderRow(s1, cells, aborts)
        ELSE CallCaller(s1, cells, aborts)

IgnoreHeaderRows(s) ==
    LET s1 == [s EXCEPT !.ignore = @ - 1]
    IN  [s |-> IF s1.ignore = 0 THEN SetCallbacks(s1) ELSE s1, out |-> out]

ParserRowHandler(s, cells, aborts) ==
    CASE s.handler = "ignore_header_rows" -> IgnoreHeaderRows(s)
      [] s.handler = "skip_to_first_row_w_data" -> SkipToFirstRowWithData(s, cells, aborts)
      [] s.handler = "collate_header_row" -> CollateHeaderRow(s, cells, aborts)
      [] s.handler = "caller" -> CallCaller(s, cells, aborts)

-----------------------------------------------------------------------------

\* The progress callback is due on every interval-th row; its result replaces
\* the abort flag, whatever that was.
ProgressCallback(s, cancels) ==
    IF s.opts.interval > 0 /\ s.cum % s.opts.interval = 0
    THEN [s EXCEPT !.abort = cancels] ELSE s

\* Mutant: only the row limit stops the parser.
RowLimitOnly(s) ==
    IF s.opts.max > 0 /\ s.cum = s.opts.max
    THEN [s EXCEPT !.abort = TRUE, !.stat = "max_rows_read"] ELSE s

\* The row limit counts every row scanned, those of the header too.
RowLimit(s) ==
    IF s.opts.max > 0 /\ s.cum = s.opts.max
    THEN [s EXCEPT !.abort = TRUE, !.stat = "max_rows_read"]
    ELSE IF s.abort THEN [s EXCEPT !.stat = "cancelled"] ELSE s

\* row_dl, and the increment of data_row_count that the scan loop makes when
\* row_dl did not stop it.
RowDl(cells, aborts, cancels) ==
    LET h == ParserRowHandler(st, cells, aborts)
        s == RowLimit(ProgressCallback([h.s EXCEPT !.cum = @ + 1], cancels))
    IN  /\ out' = h.out
        /\ st' = [s EXCEPT !.next = @ + 1,
                           !.dataRow = IF s.stat = "ok" THEN @ + 1 ELSE @]

\* row_fx: a fixed-width row is not counted, so that neither the progress
\* callback nor the row limit sees it.
RowFx(cells, aborts) ==
    LET h == ParserRowHandler(st, cells, aborts)
    IN  /\ out' = h.out
        /\ st' = [h.s EXCEPT !.next = @ + 1,
                             !.stat = IF h.s.abort THEN "cancelled" ELSE @]

\* A row that ends in the input: the caller's loop around zsv_parse_more()
\* goes on while the status is ok.
ParseRow ==
    /\ st.pc = "rows" /\ st.stat = "ok" /\ st.next <= Len(st.table)
    /\ \E aborts \in BOOLEAN, cancels \in BOOLEAN :
         IF st.fixed THEN RowFx(st.table[st.next], aborts)
         ELSE RowDl(st.table[st.next], aborts, cancels)
    /\ UNCHANGED <<cmd, disk>>

\* zsv_finish when the loop has ended: an abort makes it report a
\* cancellation; the row the input left open is delivered before it.
ParserFinish ==
    /\ st.pc = "rows"
    /\ st.stat # "ok" \/ st.next > Len(st.table)
    /\ st' = [st EXCEPT !.pc = "done",
                        !.stat = IF st.abort THEN "cancelled" ELSE @]
    /\ UNCHANGED <<cmd, out, disk>>

ParserNext == cmd = "parser" /\ (ParseRow \/ ParserFinish)

ParserSpec == ParserInit /\ [][ParserNext \/ Finished]_procVars

-----------------------------------------------------------------------------

(* What the caller should see, from the options and the table alone.       *)

\* The rows after the ignored ones and, unless they are kept, after the blank
\* ones that follow.
ParserBody(o, t) ==
    LET rest == SubSeq(t, o.ignore + 1, Len(t))
        data == {i \in DOMAIN rest : ~IsBlank(rest[i])}
    IN  IF o.keep \/ o.fixed THEN rest
        ELSE IF data = {} THEN <<>> ELSE SubSeq(rest, Min(data), Len(rest))

\* The first span rows of the body make one header, of the first one's width.
ParserExpected(o, t) ==
    LET body == ParserBody(o, t)
        n == IF o.span > 1 THEN o.span ELSE 1
        column(i) == FlattenSeq([k \in 1..n |->
                        IF i \in DOMAIN body[k] THEN body[k][i] ELSE Blank])
    IN  IF Len(body) < n THEN <<>>
        ELSE <<[i \in DOMAIN body[1] |-> column(i)]>> \o SubSeq(body, n + 1, Len(body))

\* The rows that the row limit lets through.
Within(o, t) == IF o.max = 0 \/ o.fixed THEN t ELSE SubSeq(t, 1, Min({o.max, Len(t)}))

\* The cells with the overwrites laid over them; the header is row 0.
Overlaid(rows, ow) ==
    [r \in DOMAIN rows |-> [i \in DOMAIN rows[r] |->
       LET here == {k \in DOMAIN ow : ow[k].row = r - 1 /\ ow[k].col = i - 1}
       IN  IF here = {} THEN rows[r][i] ELSE ow[Min(here)].val]]

ParserRuns == cmd = "parser"

\* The caller sees the rows of the table in order and none twice, the header
\* rows as one and with its overwrites in the cells they name, and all of them
\* when nothing stopped the parse: set_callbacks, collate_header_row,
\* zsv_get_cell_with_overwrite.  (Overwrites with keep_empty_header_rows or in
\* fixed mode are the subject of a hazard and not of this property.)
CallerSeesTheTable == ParserRuns =>
    LET rows == ParserExpected(st.opts, Within(st.opts, st.table))
        want == IF st.opts.keep \/ st.opts.fixed THEN rows ELSE Overlaid(rows, st.orig)
        seen == [k \in DOMAIN out |-> out[k].cells]
        same(k) == \/ seen[k] = want[k]
                   \/ st.orig # <<>> /\ (st.opts.keep \/ st.opts.fixed)
    IN  /\ Len(seen) <= Len(want)
        /\ \A k \in DOMAIN seen : same(k)
        /\ st.pc = "done" /\ st.stat = "ok" => Len(seen) = Len(want)

\* The header is row 0 and every row is numbered one more than the row before
\* it, which is what the overwrites of a row are found by (data_row_count).
RowsAreNumbered ==
    ParserRuns /\ ~st.opts.fixed /\ ~(st.opts.keep /\ st.opts.ignore > 0 /\ st.opts.span < 2) =>
        \A k \in DOMAIN out : out[k].row = k - 1

\* After zsv_abort() no row reaches the caller, if no progress callback can
\* take the abort back.
AbortIsFinal ==
    ParserRuns /\ st.asked # 0 /\ (st.opts.interval = 0 \/ st.fixed) =>
        Len(out) = st.asked /\ (st.pc = "done" => st.stat = "cancelled")
=============================================================================
