---------------------------- MODULE FastScanner ----------------------------
(***************************************************************************)
(* src/zsv_scan_delim_fast.c, the engine of --parser fast: blocks of       *)
(* FastBlock bytes whose delimiters are found at once, the quotes of the   *)
(* block deciding by their parity which of them count, and a scalar loop   *)
(* for the bytes of the buffer after its last whole block.  With           *)
(* skip_cells, which count sets once it has seen the header, rows are only *)
(* counted.  One step is one block or one byte.                            *)
(***************************************************************************)
EXTENDS Process, Csv

CONSTANTS
    FastDocs,       \* the documents read
    FastBlock,      \* the bytes of a block (64)
    FastBuffers     \* the sizes of the scanner's buffer

\* The caller sets skip_cells at its first row if counts is TRUE, and clears
\* it again at row stopAt (0 for never), as count does at the end of a chunk.
FastInit ==
    /\ cmd = "fast" /\ out = <<>> /\ disk = <<>>
    /\ \E d \in FastDocs, size \in FastBuffers, counts \in BOOLEAN, stopAt \in {0, 2} :
         /\ stopAt > 0 => counts
         /\ st = [pc |-> "read", doc |-> d, pos |-> 0, size |-> size, buff |-> <<>>, i |-> 0,
                  cellStart |-> 0, rowStart |-> 0, row |-> <<>>, haveCell |-> FALSE, inside |-> FALSE,
                  unclosed |-> FALSE, last |-> NUL, counts |-> counts, stopAt |-> stopAt,
                  skipCells |-> FALSE, skipping |-> FALSE, stat |-> "ok"]

\* scanner_pre_parse and zsv_parse_more: the row that has begun moves to the
\* front of the buffer, and the rest of the buffer is filled.
FastRead ==
    /\ st.pc = "read"
    /\ LET keep == SubSeq(st.buff, st.rowStart + 1, Len(st.buff))
           capacity == st.size - Len(keep)
           bytes == SubSeq(st.doc, st.pos + 1, Min({st.pos + capacity, Len(st.doc)}))
       IN  st' = [st EXCEPT
             !.pc = IF capacity = 0 THEN "done" ELSE IF bytes = <<>> THEN "finish" ELSE "scan",
             !.stat = IF capacity = 0 THEN "truncated" ELSE @,
             !.last = IF st.buff = <<>> THEN NUL ELSE Last(st.buff),
             !.buff = keep \o bytes, !.pos = @ + Len(bytes), !.i = Len(keep),
             !.cellStart = IF keep = <<>> THEN 0 ELSE @ - st.rowStart,
             !.rowStart = 0,
             !.inside = st.unclosed,
             !.skipping = IF bytes = <<>> THEN @ ELSE st.skipCells]
    /\ UNCHANGED <<cmd, out, disk>>

-----------------------------------------------------------------------------

\* Mutant: the last byte of the buffer before is forgotten.
BeforeInBuffer(s, k) == IF k = 0 THEN NUL ELSE s.buff[k]

\* The byte before position k of the buffer, its last one of the read before.
Before(s, k) == IF k = 0 THEN s.last ELSE s.buff[k]
ByteAt(s, k) == s.buff[k + 1]
DocOffset(s, k) == s.pos - Len(s.buff) + k

\* The row handler: what it is given and what it does to skip_cells.
RowHandler(s, o, cells, at) ==
    LET n == Len(o) + 1
    IN  [st |-> [s EXCEPT !.skipCells = s.counts /\ (s.stopAt = 0 \/ n < s.stopAt)],
         out |-> Append(o, [cells |-> cells, at |-> DocOffset(s, at), counted |-> s.skipping])]

RawCell(s, k) == SubSeq(s.buff, s.cellStart + 1, k)

\* fast_store_cell and fast_store_cell_cached: the raw bytes, quotes included.
StoreCell(s, k) == IF Len(s.row) < MaxCols THEN Append(s.row, RawCell(s, k)) ELSE s.row

\* The delimiters that end a cell or a row; FAST_ROWEND_NOQUOTE passes over
\* the line feed of a CR LF.
Delimiter(acc, k) ==
    LET s == acc.st
        c == ByteAt(s, k)
        next == [s EXCEPT !.cellStart = k + 1]
    IN  IF c = Delim
        THEN [acc EXCEPT !.st = [next EXCEPT !.row = StoreCell(s, k), !.haveCell = TRUE]]
        ELSE IF c = LF /\ Before(s, k) = CR
        THEN [acc EXCEPT !.st = [next EXCEPT !.rowStart = k + 1]]
        ELSE RowHandler([next EXCEPT !.rowStart = k + 1, !.row = <<>>, !.haveCell = FALSE],
                        acc.out, StoreCell(s, k), k)

\* The masks of a block: fast_prefix_xor of the quotes, turned over if the
\* block begins inside of a quote.
BlockBytes(s, C) == {k \in s.i..(s.i + FastBlock - 1) : ByteAt(s, k) \in C}
InsideAt(s, k) ==
    LET odd == Cardinality({q \in BlockBytes(s, {Quote}) : q <= k}) % 2 = 1
    IN  s.inside # odd

Delims == {Delim, CR, LF}

\* An opening quote that is neither at the start of a cell nor after a
\* delimiter or a quote.
Nonstandard(s) ==
    \E k \in BlockBytes(s, {Quote}) :
        /\ InsideAt(s, k)
        /\ Before(s, k) \notin Delims \cup {Quote}
        /\ k # s.cellStart

Blocks == st.pc = "scan" /\ st.i + FastBlock <= Len(st.buff)

\* One block of normal parsing: nothing of it is stored if it is not standard.
\* A block with a delimiter leaves have_cell set, even if it ended a row.
FastNormalBlock ==
    /\ Blocks /\ ~st.skipping
    /\ LET valid == {k \in BlockBytes(st, Delims) : ~InsideAt(st, k)}
           done == FoldLeft(Delimiter, [st |-> st, out |-> out], SetToSortSeq(valid, <))
       IN  IF Nonstandard(st)
           THEN st' = [st EXCEPT !.pc = "done", !.stat = "nonstandard"] /\ UNCHANGED out
           ELSE /\ st' = [done.st EXCEPT !.i = @ + FastBlock, !.haveCell = @ \/ valid # {},
                                         !.inside = InsideAt(st, st.i + FastBlock - 1)]
                /\ out' = done.out
    /\ UNCHANGED <<cmd, disk>>

\* One block of skip_cells: a line feed right after a carriage return of the
\* same block is no row end.  The line feed stays at the front of the next row.
SkipRowEnds(s) ==
    LET valid(C) == {k \in BlockBytes(s, C) : ~InsideAt(s, k)}
    IN  valid({CR}) \cup {k \in valid({LF}) : k - 1 \notin valid({CR})}

FastSkipBlock ==
    /\ Blocks /\ st.skipping
    /\ LET count(acc, k) ==
             RowHandler([acc.st EXCEPT !.rowStart = k + 1, !.cellStart = k + 1, !.row = <<>>,
                                       !.haveCell = FALSE], acc.out, <<>>, k)
           done == FoldLeft(count, [st |-> st, out |-> out], SetToSortSeq(SkipRowEnds(st), <))
       IN  /\ st' = [done.st EXCEPT !.i = @ + FastBlock,
                                    !.inside = InsideAt(st, st.i + FastBlock - 1),
                                    !.skipping = done.st.skipCells]
           /\ out' = done.out
    /\ UNCHANGED <<cmd, disk>>

Tail1 == st.pc = "scan" /\ st.i < Len(st.buff) /\ st.i + FastBlock > Len(st.buff)

\* A quote of the scalar loops.  A doubled quote is passed over at once unless
\* the buffer ends between the two.
FastTailQuote ==
    /\ Tail1 /\ ByteAt(st, st.i) = Quote
    /\ LET doubled == st.i + 1 < Len(st.buff) /\ ByteAt(st, st.i + 1) = Quote
           odd == /\ ~st.skipping /\ ~st.inside /\ st.i # st.cellStart
                  /\ Before(st, st.i) \notin Delims \cup {Quote}
       IN  st' = IF odd THEN [st EXCEPT !.pc = "done", !.stat = "nonstandard"]
                 ELSE IF st.inside /\ doubled THEN [st EXCEPT !.i = @ + 2]
                 ELSE [st EXCEPT !.i = @ + 1, !.inside = ~@]
    /\ UNCHANGED <<cmd, out, disk>>

FastTailByte ==
    /\ Tail1 /\ ByteAt(st, st.i) # Quote
    /\ LET c == ByteAt(st, st.i)
           plain == st.inside \/ c \notin Delims \/ (st.skipping /\ c = Delim)
           done == IF plain THEN [st |-> st, out |-> out]
                   ELSE Delimiter([st |-> [st EXCEPT !.row = IF st.skipping THEN <<>> ELSE @],
                                   out |-> out], st.i)
       IN  /\ st' = [done.st EXCEPT !.i = @ + 1, !.skipping = st.skipping /\ done.st.skipCells]
           /\ out' = done.out
    /\ UNCHANGED <<cmd, disk>>

\* The end of the buffer: an open quote is carried over if the cell began with
\* one; when rows are only counted it is always carried.
FastEndOfBuffer ==
    /\ st.pc = "scan" /\ st.i >= Len(st.buff)
    /\ st' = [st EXCEPT !.pc = "read",
         !.unclosed = st.inside /\ (st.skipping \/ (st.cellStart < Len(st.buff)
                                                    /\ ByteAt(st, st.cellStart) = Quote))]
    /\ UNCHANGED <<cmd, out, disk>>

\* zsv_finish: what is left of the last row is a row, and so is a cell that is
\* still marked as there.
FastFinish ==
    /\ st.pc = "finish"
    /\ st' = [st EXCEPT !.pc = "done"]
    /\ LET cells == IF st.buff = <<>> THEN st.row ELSE StoreCell(st, Len(st.buff))
           last == [st EXCEPT !.skipping = @ /\ st.buff # <<>>]
       IN  out' = IF st.buff = <<>> /\ ~st.haveCell THEN out
                  ELSE RowHandler(last, out, cells, Len(st.buff)).out
    /\ UNCHANGED <<cmd, disk>>

FastNext ==
    /\ cmd = "fast"
    /\ \/ FastRead \/ FastNormalBlock \/ FastSkipBlock \/ FastTailQuote \/ FastTailByte
       \/ FastEndOfBuffer \/ FastFinish

-----------------------------------------------------------------------------

\* Standard quoting: a quote opens at the start of a cell and closes at its end.
Standard(d) ==
    LET quotes == {k \in DOMAIN d : d[k] = Quote}
        opens(k) == Cardinality({q \in quotes : q < k}) % 2 = 0
    IN  /\ Cardinality(quotes) % 2 = 0
        /\ \A k \in quotes :
             IF opens(k) THEN k = 1 \/ d[k - 1] \in Delims \cup {Quote}
             ELSE k = Len(d) \/ d[k + 1] \in Delims \cup {Quote}

HasCrLf(d) == \E k \in 2..Len(d) : d[k - 1] = CR /\ d[k] = LF

\* Without the row of no cells that follows the last one when the input ends
\* with the block its last row end is in (have_cell stays set, see FastFinish).
WithCells(o) == SelectSeq(o, LAMBDA r : r.counted \/ r.cells # <<>>)

\* The rows a document has, as far as the engine has delivered them: the same
\* row ends and, unless cells are skipped, the same cells.
RowsAgree(rows, o) ==
    /\ Len(o) <= Len(rows)
    /\ \A k \in DOMAIN o :
         /\ o[k].at = rows[k].at
         /\ ~o[k].counted /\ st.stopAt = 0 =>
              [c \in DOMAIN o[k].cells |-> RefValue(o[k].cells[c])] = rows[k].cells

\* The fast engine splits standard input into the rows and cells of the
\* document, wherever its blocks and buffers end, and delivers nothing else
\* before it gives up on input that is not standard.  (Rows that are only
\* counted and end in CR LF are the subject of SkippedRowsAreCounted; a row
\* longer than the buffer is Scanner's subject and stops this model.)
FastSplitsAsTheDocument ==
    cmd = "fast" /\ st.pc = "done" /\ ~(st.counts /\ HasCrLf(st.doc)) =>
        LET rows == RefRows(st.doc)
        IN  /\ Standard(st.doc) => st.stat # "nonstandard"
            /\ Standard(st.doc) \/ st.stat = "nonstandard" => RowsAgree(rows, WithCells(out))
            /\ Standard(st.doc) /\ st.stat = "ok" => Len(WithCells(out)) = Len(rows)

\* zsv_set_skip_cells: the row handler is still called for each row.
SkippedRowsAreCounted ==
    cmd = "fast" /\ st.pc = "done" /\ st.stat = "ok" /\ Standard(st.doc) =>
        Len(WithCells(out)) = Len(RefRows(st.doc))
=============================================================================
