------------------------------ MODULE Scanner ------------------------------
(***************************************************************************)
(* The delimited-text scanner of the zsv library: src/zsv.c (buffering,    *)
(* end of input, the three ways of feeding it), src/zsv_internal.c (cell   *)
(* and row completion) and src/zsv_scan_delim.c (the scan loop).           *)
(*                                                                         *)
(* One behaviour parses one document.  The document reaches the scanner in *)
(* pieces of any size (short reads of a pipe, pushed chunks), through a    *)
(* buffer of BuffSize bytes in which the row that is still incomplete is   *)
(* carried to the front before the next piece is appended.  Everything the *)
(* scanner remembers between two pieces (row_start, cell_start, quoted,    *)
(* quote_close_position, last ...) is a variable; positions are 0-based    *)
(* buffer offsets, as in the code.                                         *)
(*                                                                         *)
(* The SIMD search for the next special byte is left out: it only skips    *)
(* bytes for which the loop body does nothing (ScanOther).                 *)
(***************************************************************************)
EXTENDS Csv

CONSTANTS
    Docs,       \* the documents: sequences over Byte
    BuffSize,   \* scanner->buff.size
    Apis,       \* how the caller feeds it: subset of {"more","bytes","pull"}
    InputEnds   \* bytes an input that is not the last may end in; {} if
                \* the caller chains no inputs with zsv_set_input()

Flags == {"UNCLOSED", "CLOSED", "NEEDED", "EMBEDDED", "PENDING", "PENDING_LF"}

ASSUME BuffSizeAssumption == BuffSize \in Nat \ {0}
ASSUME MaxColsAssumption == MaxCols \in Nat \ {0}
ASSUME DocsAssumption == Docs \subseteq Seq(Byte)
ASSUME OptionsAssumption ==
    /\ OnlyCrlf \in BOOLEAN
    /\ InputEnds \subseteq Byte
    /\ Apis \subseteq {"more", "bytes", "pull"}

VARIABLES
    doc, pos,               \* the whole input, and how much of it was delivered
    api,                    \* parse_more, parse_bytes or next_row
    pc,                     \* where control is
    buf,                    \* the bytes buff[0 .. buffer_end-1]
    i, skip_next_delim,     \* registers of the scan loop
    cell_start, row_start,
    quoted, quote_close_position,
    row,                    \* the cells of the current row, by value
    scanned_length, cum_scanned_length, partial_row_length, old_bytes_read,
    last,
    buffer_exceeded,        \* also: opts.row_handler = zsv_throwaway_row
    data_row_count,
    pull_now, pulled,       \* pull.now, and the cells zsv_pull_row() saw
    out                     \* every row handed to the caller

input  == <<doc, api>>
regs   == <<buf, i, skip_next_delim>>
cellv  == <<cell_start, row_start, quoted, quote_close_position>>
count  == <<scanned_length, cum_scanned_length, partial_row_length,
            old_bytes_read, last>>
rowv   == <<row, buffer_exceeded, data_row_count, pull_now, pulled, out>>
vars   == <<input, pos, pc, regs, cellv, count, rowv>>
-----------------------------------------------------------------------------
(* Cell completion: cell_dl() *)

Garbage == <<"?">>      \* a cell completed while buffer_exceeded

\* What cell_dl(s, n) makes of the n raw bytes at buff + start.  At end of
\* input n may count one virtual closing quote more than the buffer holds.
CellValue(b, start, n, q, qcp) ==
    LET raw == SubSeq(b, start + 1, IF start + n <= Len(b) THEN start + n ELSE Len(b))
        emb == "EMBEDDED" \in q
    IN  CASE q = {} -> raw
          [] q # {} /\ qcp + 1 = n /\ ~emb -> SubSeq(raw, 2, n - 1)
          [] q # {} /\ qcp + 1 = n /\ emb ->
               LET t == DeDouble(SubSeq(raw, 2, Len(raw))) IN SubSeq(t, 1, Len(t) - 1)
          [] q # {} /\ qcp + 1 # n /\ qcp > 0 ->
               LET t == SubSeq(SubSeq(raw, 2, qcp) \o SubSeq(raw, qcp + 2, Len(raw)),
                               1, n - 2)
               IN  IF emb THEN DeDouble(t) ELSE t
          [] OTHER -> raw

\* The row after cell_dl() has stored a cell of n bytes (or dropped it).
WithCell(n) ==
    LET c == IF buffer_exceeded
             THEN Garbage
             ELSE CellValue(buf, cell_start, n, quoted, quote_close_position)
    IN  IF Len(row) < MaxCols THEN Append(row, c) ELSE row
-----------------------------------------------------------------------------
(* Row completion: row_dl() and the handler it calls *)

Base == pos - Len(buf)  \* offset in the document of buff[0]

\* zsv_cum_scanned_length() and zsv_row_length_raw_bytes() inside the handler
CumScannedStale(scanned, finished) == cum_scanned_length + row_start
CumScanned(scanned, finished) ==
    cum_scanned_length + (IF finished THEN 0 ELSE scanned)

Delivered(cells, kind, scanned, cum) ==
    [cells |-> cells, kind |-> kind, num |-> data_row_count,
     raw |-> scanned - row_start, end |-> cum,
     at |-> Base + scanned]         \* where the row really ends (history)

\* row_dl(): calls the caller's row handler or zsv_pull_row() - or, after a
\* truncated row, zsv_throwaway_row(), which the caller does not see.
CallRowHandler(r, delivered) ==
    IF buffer_exceeded
    THEN UNCHANGED <<pull_now, pulled, out>>
    ELSE IF api = "pull"
    THEN pull_now' = TRUE /\ pulled' = r /\ UNCHANGED out
    ELSE out' = Append(out, delivered) /\ UNCHANGED <<pull_now, pulled>>

\* zsv_throwaway_row() re-installs the handlers: set_callbacks() restarts
\* the row count.
RowCountAlwaysReset == 0
RowCountAfterHandler == IF buffer_exceeded THEN 0 ELSE data_row_count

\* A pull parser sets row.used back to pull.row_used, over whatever has been
\* written into row.cells since zsv_pull_row() saved it.
PulledRow(r) ==
    LET saved == IF buffer_exceeded THEN pulled ELSE r
    IN  [k \in 1..Len(saved) |-> IF k <= Len(r) THEN r[k] ELSE saved[k]]

\* A row is complete at buff[i], its last cell having n bytes.  A push
\* parser goes on; a pull parser returns zsv_status_row and keeps its
\* registers until the next call of zsv_next_row().
RowEnd(n) ==
    LET r == WithCell(n)
        kind == IF buffer_exceeded THEN "truncated" ELSE "row"
        delivered(cells) == Delivered(cells, kind, i, CumScanned(i, FALSE))
    IN
    /\ scanned_length' = i
    /\ quoted' = {}
    /\ row' = <<>>
    /\ buffer_exceeded' = FALSE
    /\ IF api # "pull"
       THEN /\ CallRowHandler(r, delivered(r))
            /\ cell_start' = i + 1
            /\ row_start' = i + 1
            /\ data_row_count' = RowCountAfterHandler + 1
            /\ i' = i + 1
            /\ UNCHANGED pc
       ELSE /\ out' = Append(out, delivered(PulledRow(r)))
            /\ data_row_count' = RowCountAfterHandler
            /\ pull_now' = FALSE
            /\ pulled' = <<>>
            /\ pc' = "row"
            /\ UNCHANGED <<cell_start, row_start, i>>
    /\ UNCHANGED <<input, pos, buf, skip_next_delim, quote_close_position,
                   cum_scanned_length, partial_row_length, old_bytes_read, last>>

\* zsv_next_row() after a row: zsv_scan_delim_pull() restores its registers.
NextRow ==
    /\ pc = "row"
    /\ pc' = "scan"
    /\ cell_start' = i + 1
    /\ row_start' = i + 1
    /\ data_row_count' = data_row_count + 1
    /\ i' = i + 1
    /\ UNCHANGED <<input, pos, buf, skip_next_delim, quoted, quote_close_position,
                   count, row, buffer_exceeded, pull_now, pulled, out>>
-----------------------------------------------------------------------------
(* Between two pieces of input: scanner_pre_parse() *)

PartialLenWholeBuffer == IF old_bytes_read > 0 THEN old_bytes_read ELSE partial_row_length

\* the length of the incomplete row that is moved to the front of the buffer
PartialLen == IF old_bytes_read > 0 /\ row_start < old_bytes_read
              THEN old_bytes_read - row_start
              ELSE partial_row_length

\* as Shift, but cell_start is left where it was
ShiftBytesOnly ==
    /\ buf' = IF old_bytes_read = 0 THEN SubSeq(buf, 1, partial_row_length)
                                    ELSE SubSeq(buf, row_start + 1, old_bytes_read)
    /\ row_start' = 0 /\ old_bytes_read' = 0
    /\ last' = IF old_bytes_read > 0 THEN buf[old_bytes_read] ELSE NUL
    /\ cum_scanned_length' = cum_scanned_length + scanned_length - PartialLen
    /\ UNCHANGED <<cell_start, quoted>>

\* offsets move with the row; if none is pending they restart at 0
Shift ==
    /\ IF old_bytes_read = 0
       THEN buf' = SubSeq(buf, 1, partial_row_length)
            /\ cell_start' = cell_start - row_start
            /\ UNCHANGED quoted
       ELSE IF row_start < old_bytes_read
       THEN buf' = SubSeq(buf, row_start + 1, old_bytes_read)
            /\ cell_start' = cell_start - row_start
            /\ UNCHANGED quoted
       ELSE buf' = <<>> /\ cell_start' = 0 /\ quoted' = {}
    /\ row_start' = 0
    /\ old_bytes_read' = 0
    /\ last' = IF old_bytes_read > 0 THEN buf[old_bytes_read] ELSE NUL
    /\ cum_scanned_length' = cum_scanned_length + scanned_length - PartialLen

PreParse ==
    /\ pc = "ready"
    /\ api = "bytes" => pos < Len(doc)      \* while (len && ...)
    /\ PartialLen < BuffSize
    /\ Shift
    /\ partial_row_length' = PartialLen
    /\ pc' = "read"
    /\ UNCHANGED <<input, pos, i, skip_next_delim, quote_close_position,
                   scanned_length, rowv>>

\* The buffer holds nothing but one incomplete row: hand over the cells that
\* are complete, drop the bytes, and ignore what follows up to the row end.
PreParseTruncate ==
    /\ pc = "ready"
    /\ api = "bytes" => pos < Len(doc)
    /\ PartialLen = BuffSize
    /\ buf' = <<>>
    /\ cell_start' = cell_start - row_start
    /\ row_start' = 0
    /\ old_bytes_read' = 0
    /\ last' = IF old_bytes_read > 0 THEN buf[old_bytes_read] ELSE NUL
    /\ LET cum == cum_scanned_length + scanned_length - PartialLen IN
       /\ cum_scanned_length' = cum
       /\ CallRowHandler(row,
            [cells |-> row, kind |-> "truncated", num |-> data_row_count,
             raw |-> scanned_length, end |-> cum + scanned_length, at |-> pos])
    /\ row' = <<>>
    /\ data_row_count' = RowCountAfterHandler
    /\ buffer_exceeded' = TRUE
    /\ partial_row_length' = 0
    /\ pc' = "read"
    /\ UNCHANGED <<input, pos, i, skip_next_delim, quoted, quote_close_position,
                   scanned_length>>
-----------------------------------------------------------------------------
(* The scan loop of zsv_scan_delim() *)

\* A lone quote ended the last piece; the first new byte tells what it was.
ResolvePending(b, at) ==
    IF "PENDING" \notin quoted
    THEN i' = at /\ UNCHANGED <<quoted, quote_close_position>>
    ELSE IF b[at + 1] # Quote
    THEN /\ quoted' = (quoted \cup {"CLOSED"}) \ {"PENDING", "UNCLOSED"}
         /\ quote_close_position' = at - cell_start - 1
         /\ i' = at
    ELSE /\ quoted' = (quoted \cup {"NEEDED", "EMBEDDED"}) \ {"PENDING"}
         /\ i' = at + 1
         /\ UNCHANGED quote_close_position

\* room behind the incomplete row
CapacityOfEmptyBuffer == BuffSize
Capacity == BuffSize - partial_row_length

\* k more bytes arrive and zsv_scan() starts on them
Read(k) ==
    /\ pc = "read"
    /\ pos + k <= Len(doc)
    /\ k <= Capacity
    /\ buf' = buf \o SubSeq(doc, pos + 1, pos + k)
    /\ pos' = pos + k
    /\ ResolvePending(buf', partial_row_length)
    /\ skip_next_delim' = FALSE
    /\ partial_row_length' = 0
    /\ pc' = "scan"
    /\ UNCHANGED <<input, cell_start, row_start, scanned_length,
                   cum_scanned_length, old_bytes_read, last, rowv>>

\* as ReadEof, but an empty read is taken for an empty piece
ReadNothing ==
    /\ pc = "read" /\ api # "bytes" /\ pos = Len(doc)
    /\ scanned_length' = partial_row_length
    /\ pc' = "ready"
    /\ UNCHANGED <<input, pos, regs, cellv, cum_scanned_length,
                   partial_row_length, old_bytes_read, last, rowv>>

\* read() returns 0: zsv_parse_more() returns zsv_status_no_more_input.  It
\* may be the end of an input that is chained to others (last # NUL: of one
\* that was not empty).
ReadEof ==
    /\ pc = "read"
    /\ api # "bytes"
    /\ \/ pos = Len(doc)
       \/ api = "more" /\ last # NUL /\ doc[pos] \in InputEnds
    /\ scanned_length' = partial_row_length
    /\ pc' = "eof"
    /\ UNCHANGED <<input, pos, regs, cellv, cum_scanned_length,
                   partial_row_length, old_bytes_read, last, rowv>>

\* zsv_set_input() after zsv_status_no_more_input, then zsv_parse_more()
SetInput ==
    /\ pc = "eof"
    /\ pos < Len(doc)
    /\ pc' = "ready"
    /\ UNCHANGED <<input, pos, regs, cellv, count, rowv>>

Byte0 == buf[i + 1]
OpenUntilNeeded == "UNCLOSED" \in quoted /\ "NEEDED" \notin quoted
Open  == "UNCLOSED" \in quoted
scanner_last_in_piece == IF i > 0 THEN buf[i] ELSE NUL
scanner_last == IF i > 0 THEN buf[i] ELSE last

AtByte(c) == pc = "scan" /\ i < Len(buf) /\ ~skip_next_delim /\ Byte0 = c

\* loop control only: go to the next byte with these quote flags
Advance(q) ==
    /\ i' = i + 1
    /\ quoted' = q
    /\ UNCHANGED <<input, pos, pc, buf, cell_start, row_start, count, rowv>>

ScanOther ==
    /\ AtByte("a")
    /\ Advance(quoted)
    /\ UNCHANGED <<skip_next_delim, quote_close_position>>

\* the second of two doubled quotes
ScanSkipped ==
    /\ pc = "scan" /\ i < Len(buf) /\ skip_next_delim
    /\ skip_next_delim' = FALSE
    /\ Advance(quoted)
    /\ UNCHANGED quote_close_position

ScanDelim ==
    /\ AtByte(Delim)
    /\ ~Open
    /\ scanned_length' = i
    /\ row' = WithCell(i - cell_start)
    /\ quoted' = {}
    /\ cell_start' = i + 1
    /\ i' = i + 1
    /\ UNCHANGED <<input, pos, pc, buf, skip_next_delim, row_start,
                   quote_close_position, cum_scanned_length, partial_row_length,
                   old_bytes_read, last, buffer_exceeded, data_row_count,
                   pull_now, pulled, out>>

\* a special byte inside an open quote is content
ScanQuotedSpecial ==
    /\ \E c \in {Delim, LF} \cup (IF OnlyCrlf THEN {} ELSE {CR}) : AtByte(c)
    /\ Open
    /\ Advance(quoted \cup {"NEEDED"})
    /\ UNCHANGED <<skip_next_delim, quote_close_position>>

ScanCR ==
    /\ AtByte(CR)
    /\ ~OnlyCrlf /\ ~Open
    /\ RowEnd(i - cell_start)

ScanCRonlyCrlf ==
    /\ AtByte(CR)
    /\ OnlyCrlf
    /\ Advance(quoted \cup (IF "PENDING_LF" \in quoted
                            THEN {"NEEDED"} ELSE {"PENDING_LF"}))
    /\ UNCHANGED <<skip_next_delim, quote_close_position>>

ScanLF ==
    /\ AtByte(LF)
    /\ ~OnlyCrlf /\ ~Open
    /\ scanner_last # CR
    /\ RowEnd(i - cell_start)

\* the carriage return has ended the row already
ScanLFofCRLF ==
    /\ AtByte(LF)
    /\ ~OnlyCrlf /\ ~Open
    /\ scanner_last = CR
    /\ cell_start' = i + 1
    /\ row_start' = i + 1
    /\ i' = i + 1
    /\ UNCHANGED <<input, pos, pc, buf, skip_next_delim, quoted,
                   quote_close_position, count, rowv>>

ScanLFonlyCrlf ==
    /\ AtByte(LF)
    /\ OnlyCrlf /\ ~Open
    /\ IF scanner_last = CR
       THEN RowEnd(i - cell_start - 1)
       ELSE Advance(quoted \cup {"NEEDED"})
            /\ UNCHANGED <<skip_next_delim, quote_close_position>>

ScanQuoteOpen ==
    /\ AtByte(Quote)
    /\ i = cell_start /\ ~buffer_exceeded
    /\ Advance({"UNCLOSED"})
    /\ quote_close_position' = 0
    /\ UNCHANGED skip_next_delim

AtInnerQuote == AtByte(Quote) /\ ~(i = cell_start /\ ~buffer_exceeded) /\ Open

ScanQuoteClose ==
    /\ AtInnerQuote
    /\ i + 1 < Len(buf) /\ buf[i + 2] # Quote
    /\ Advance((quoted \cup {"CLOSED"}) \ {"UNCLOSED"})
    /\ quote_close_position' = IF quote_close_position = 0
                               THEN i - cell_start ELSE quote_close_position
    /\ UNCHANGED skip_next_delim

ScanQuoteDoubled ==
    /\ AtInnerQuote
    /\ i + 1 < Len(buf) /\ buf[i + 2] = Quote
    /\ Advance(quoted \cup {"NEEDED", "EMBEDDED"})
    /\ skip_next_delim' = TRUE
    /\ UNCHANGED quote_close_position

\* the piece ends here: decide when the next byte is known
ScanQuotePending ==
    /\ AtInnerQuote
    /\ i + 1 = Len(buf)
    /\ Advance(quoted \cup {"PENDING"})
    /\ UNCHANGED <<skip_next_delim, quote_close_position>>

ScanQuoteMidCell ==
    /\ AtByte(Quote)
    /\ ~(i = cell_start /\ ~buffer_exceeded) /\ ~Open
    /\ Advance(quoted \cup {"EMBEDDED"})
    /\ quote_close_position' = IF "CLOSED" \in quoted THEN quote_close_position ELSE 0
    /\ UNCHANGED skip_next_delim

\* the piece is used up; zsv_scan() returns zsv_status_ok
EndOfChunk ==
    /\ pc = "scan" /\ i >= Len(buf)
    /\ scanned_length' = i
    /\ old_bytes_read' = Len(buf)
    /\ pc' = "ready"
    /\ UNCHANGED <<input, pos, regs, cellv, cum_scanned_length,
                   partial_row_length, last, rowv>>

Scan ==
    \/ ScanOther \/ ScanSkipped \/ ScanDelim \/ ScanQuotedSpecial
    \/ ScanCR \/ ScanCRonlyCrlf \/ ScanLF \/ ScanLFofCRLF \/ ScanLFonlyCrlf
    \/ ScanQuoteOpen \/ ScanQuoteClose \/ ScanQuoteDoubled
    \/ ScanQuotePending \/ ScanQuoteMidCell
    \/ EndOfChunk
-----------------------------------------------------------------------------
(* End of input: zsv_finish() *)

\* the caller finishes after no_more_input, or after its last pushed piece
CallsFinish == \/ pc = "eof" /\ pos = Len(doc)
               \/ pc = "ready" /\ api = "bytes" /\ pos = Len(doc)

\* length of the cell that is still open when the input ends
PendingLen ==
    CASE partial_row_length > cell_start -> partial_row_length - cell_start
      [] partial_row_length <= cell_start /\ scanned_length > cell_start
           -> scanned_length - cell_start
      [] OTHER -> 0

\* EOF fix-up: virtually close a quoted cell the input leaves open
FinishFixup ==
    /\ CallsFinish
    /\ IF ~Open \/ PendingLen = 0
       THEN UNCHANGED <<buf, quoted, quote_close_position, scanned_length>>
       ELSE IF PendingLen = 1
       THEN quoted' = {} /\ UNCHANGED <<buf, quote_close_position, scanned_length>>
       ELSE IF "EMBEDDED" \in quoted
       THEN LET inner == DeDouble(SubSeq(buf, cell_start + 2, cell_start + PendingLen))
            IN  /\ buf' = SubSeq(buf, 1, cell_start + 1) \o inner
                /\ scanned_length' = cell_start + 2 + Len(inner)
                /\ quote_close_position' = 1 + Len(inner)
                /\ quoted' = (quoted \cup {"CLOSED", "NEEDED"})
                             \ {"UNCLOSED", "PENDING", "EMBEDDED"}
       ELSE /\ quoted' = (quoted \cup {"CLOSED"}) \ {"UNCLOSED"}
            /\ quote_close_position' = PendingLen
            /\ scanned_length' = IF last # Quote THEN scanned_length + 1
                                                 ELSE scanned_length
            /\ UNCHANGED buf
    /\ pc' = "fixed"
    /\ UNCHANGED <<input, pos, i, skip_next_delim, cell_start, row_start,
                   cum_scanned_length, partial_row_length, old_bytes_read, last, rowv>>

VirtualQuoteFits ==
    ~(quoted # {} /\ quote_close_position > 0
      /\ cell_start + quote_close_position >= BuffSize)

Put(b, at, c) == [k \in 1..at+1 |-> IF k = at + 1 THEN c
                                    ELSE IF k <= Len(b) THEN b[k] ELSE NUL]

\* no room for the closing quote: cut the cell, or shift the row first
FinishNoRoom ==
    /\ pc = "fixed"
    /\ ~VirtualQuoteFits
    /\ LET room    == row_start > 0
           new_end == IF room THEN BuffSize - row_start ELSE BuffSize - 1
           start   == IF room THEN cell_start - row_start ELSE cell_start
           kept    == IF room THEN SubSeq(buf, row_start + 1, Len(buf)) ELSE buf
       IN  /\ buf' = Put(kept, new_end, Quote)
           /\ cell_start' = start
           /\ quote_close_position' = new_end - start
           /\ scanned_length' = IF scanned_length > new_end + 1
                                THEN new_end + 1 ELSE scanned_length
           /\ IF room
              THEN /\ row_start' = 0 /\ old_bytes_read' = 0
                   /\ partial_row_length' = PartialLen
                   /\ cum_scanned_length' =
                        cum_scanned_length + scanned_length - PartialLen
                   /\ last' = buf[old_bytes_read]
              ELSE UNCHANGED <<row_start, old_bytes_read, partial_row_length,
                               cum_scanned_length, last>>
    /\ pc' = "closing"
    /\ UNCHANGED <<input, pos, i, skip_next_delim, quoted, rowv>>

HaveLastCell == scanned_length > 0 /\ scanned_length >= cell_start

\* the last row, if no row end completed it
FinishLast ==
    /\ \/ pc = "fixed" /\ VirtualQuoteFits
       \/ pc = "closing"
    /\ LET r == IF HaveLastCell THEN WithCell(scanned_length - cell_start) ELSE row
           d == [Delivered(r, "final", scanned_length,
                           CumScanned(scanned_length, TRUE)) EXCEPT !.at = Len(doc)]
       IN  IF r # <<>>                                     \* have_cell
           THEN /\ out' = IF buffer_exceeded THEN out ELSE Append(out, d)
                /\ data_row_count' = RowCountAfterHandler
                /\ buffer_exceeded' = FALSE
           ELSE UNCHANGED <<out, data_row_count, buffer_exceeded>>
    /\ row' = <<>>
    /\ quoted' = IF HaveLastCell THEN {} ELSE quoted
    /\ pull_now' = FALSE /\ pulled' = <<>>
    /\ pc' = "done"
    /\ UNCHANGED <<input, pos, regs, cell_start, row_start, quote_close_position, count>>

Done == pc = "done" /\ UNCHANGED vars
-----------------------------------------------------------------------------
Init ==
    /\ doc \in Docs
    /\ api \in Apis
    /\ pos = 0 /\ pc = "ready"
    /\ buf = <<>> /\ i = 0 /\ skip_next_delim = FALSE
    /\ cell_start = 0 /\ row_start = 0 /\ quoted = {} /\ quote_close_position = 0
    /\ row = <<>>
    /\ scanned_length = 0 /\ cum_scanned_length = 0
    /\ partial_row_length = 0 /\ old_bytes_read = 0 /\ last = NUL
    /\ buffer_exceeded = FALSE /\ data_row_count = 0
    /\ pull_now = FALSE /\ pulled = <<>>
    /\ out = <<>>

Next ==
    \/ PreParse \/ PreParseTruncate
    \/ \E k \in 1..BuffSize : Read(k)
    \/ ReadEof \/ SetInput
    \/ Scan \/ NextRow
    \/ FinishFixup \/ FinishNoRoom \/ FinishLast
    \/ Done

Spec == Init /\ [][Next]_vars

\* The caller keeps calling: every loop in app/ and examples/ does so until
\* the parser reports the end of the input.
FairSpec == Spec /\ WF_vars(Next /\ pc # "done")
-----------------------------------------------------------------------------
\* The offsets and counters of struct zsv_scanner stay inside the buffer (the
\* scanned length may count one virtual closing quote more), also while a row
\* that is too long is thrown away.
TypeOK ==
    /\ doc \in Docs /\ api \in Apis
    /\ pos \in 0..Len(doc)
    /\ pc \in {"ready", "read", "scan", "row", "eof", "fixed", "closing", "done"}
    /\ buf \in Seq(Byte \cup {NUL}) /\ Len(buf) <= BuffSize
    /\ i \in 0..BuffSize /\ skip_next_delim \in BOOLEAN
    /\ row_start \in 0..BuffSize /\ cell_start \in 0..BuffSize
    /\ quoted \subseteq Flags
    /\ scanned_length \in 0..BuffSize + 1 /\ cum_scanned_length \in Nat
    /\ partial_row_length \in 0..BuffSize /\ old_bytes_read \in 0..BuffSize
    /\ last \in Byte \cup {NUL}
    /\ buffer_exceeded \in BOOLEAN /\ pull_now \in BOOLEAN
    /\ data_row_count \in Nat

NoneTruncated == ~buffer_exceeded /\ \A k \in DOMAIN out : out[k].kind # "truncated"

\* Up to the first truncated row, the offset zsv_cum_scanned_length()
\* reports in a row handler is where the row ends in the input, however
\* often the buffer has been shifted since the start: cum_scanned_length has
\* counted every byte that left the buffer, and none twice.
CumIsExact ==
    \A k \in DOMAIN out :
        /\ out[k].kind = "row"
        /\ \A j \in 1..k : out[j].kind # "truncated"
        => out[k].end = out[k].at

\* data_row_count in the handler of the k-th row is k - 1, up to the first
\* truncated row: overwrites are looked up by it, and zsv_internal.c says of it
\* "0 = in header row; 1 = first data row".  (zsv_throwaway_row() restarts it.)
RowNumbersAreSequential ==
    \A k \in DOMAIN out :
        (\A j \in 1..k : out[j].kind # "truncated") => out[k].num = k - 1

\* The length passed to cell_dl(), a size_t, is never the difference of two
\* offsets in the wrong order: not after a shift, nor when a cell is empty at
\* the end of a piece, nor for the CR that --only-crlf takes off a cell.
CellLengthsNonNegative ==
    pc = "scan" /\ ~buffer_exceeded /\ i < Len(buf) =>
        /\ cell_start <= i
        /\ OnlyCrlf /\ Byte0 = LF /\ scanner_last = CR => cell_start <= i - 1
-----------------------------------------------------------------------------
(* The inductive invariant behind the last three *)

Scanning == pc \in {"ready", "read", "scan", "row", "eof"}

\* how the counters describe the buffer at each point of the parse
BufferShape ==
    /\ 0 <= row_start /\ row_start <= cell_start
    /\ pc = "ready" =>
         /\ row_start <= Len(buf)
         /\ \/ old_bytes_read = 0 /\ row_start = 0
               /\ partial_row_length = Len(buf) /\ scanned_length = Len(buf)
            \/ old_bytes_read = Len(buf) /\ old_bytes_read > 0
               /\ partial_row_length = 0 /\ scanned_length = Len(buf)
    /\ pc \in {"read", "eof"} =>
         /\ partial_row_length = Len(buf) /\ old_bytes_read = 0 /\ row_start = 0
    /\ pc = "eof" => scanned_length = Len(buf)
    /\ pc \in {"scan", "row"} =>
         /\ partial_row_length = 0 /\ old_bytes_read = 0
         /\ 0 <= i /\ i <= Len(buf) /\ 0 < Len(buf) /\ row_start <= i
    /\ pc = "row" => i < Len(buf) /\ ~buffer_exceeded /\ ~skip_next_delim
    /\ pc = "scan" /\ skip_next_delim => i < Len(buf)

\* the cell that is being read starts inside the buffer, not right after a CR
CellShape ==
    ~buffer_exceeded =>
        /\ pc = "scan" => cell_start <= i
        /\ pc \in {"ready", "read", "eof"} => cell_start <= Len(buf)
        /\ OnlyCrlf =>
             /\ IF pc = "row" THEN buf[i + 1] # CR
                ELSE cell_start > 0 => buf[cell_start] # CR
             /\ pc = "read" /\ Len(buf) = 0 => last # CR
             /\ pc = "scan" /\ i = 0 => last # CR

TruncationIsRecorded ==
    buffer_exceeded /\ api # "pull" => \E k \in DOMAIN out : out[k].kind = "truncated"

CumIsBase == NoneTruncated => cum_scanned_length = pos - Len(buf)

Numbers ==
    /\ pos \in Nat /\ i \in Int /\ row_start \in Int /\ cell_start \in Int
    /\ scanned_length \in Int /\ cum_scanned_length \in Int
    /\ partial_row_length \in Int /\ old_bytes_read \in Int

OutIsSequence == Len(out) \in Nat /\ out = [k \in 1..Len(out) |-> out[k]]

WhileScanning ==
    /\ Numbers /\ buf \in Seq(Byte) /\ doc \in Seq(Byte)
    /\ BufferShape /\ CellShape /\ TruncationIsRecorded /\ CumIsBase

\* The invariant from which scanner_pre_parse(), the scan loop and the reads
\* keep CumIsExact and CellLengthsNonNegative.
IInv == (Scanning => WhileScanning) /\ OutIsSequence /\ CumIsExact
=============================================================================
