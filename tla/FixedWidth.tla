----------------------------- MODULE FixedWidth -----------------------------
(***************************************************************************)
(* Fixed-width input: app/select/fixed.c finds the offsets of the columns  *)
(* from a preview of the input, and src/zsv_scan_fixed.c cuts the lines at *)
(* them while the input arrives in pieces of any size.  Bytes are "x", " " *)
(* and the two line ends; one step is one read.                            *)
(***************************************************************************)
EXTENDS Process

CONSTANTS
    FxInputs,   \* byte sequences
    FxGiven,    \* the offsets of --fixed; <<>> stands for --fixed-auto
    FxPreview,  \* the bytes the detection reads (256k)
    FxBuffer,   \* the size of the scanner's buffer
    FxMargin    \* added to the last offset (50)

LineEnds == {"\r", "\n"}
FxBytes == {"x", " "} \cup LineEnds

ASSUME FxAssumption ==
    /\ FxInputs \subseteq Seq(FxBytes) /\ FxGiven \subseteq Seq(Nat)
    /\ FxPreview \in Nat /\ FxBuffer \in Nat \ {0} /\ FxMargin \in Nat

\* The last of the first n bytes that is a line end; 0 without one.
LastEnd(text, n) == Max({0} \cup {j \in 1..n : text[j] \in LineEnds})

\* The position in its line of each byte, from 0.
LineCursor(text, i) == i - 1 - LastEnd(text, i - 1)

\* What the detection looks at: with a limit, up to that many line ends, one
\* of which must end a line that is not empty.
Previewed(input, maxLines) ==
    LET all == SubSeq(input, 1, Min({FxPreview, Len(input)}))
        ends == {i \in DOMAIN all : all[i] \in LineEnds}
        enough == {i \in ends :
            LET upTo == {j \in ends : j <= i}
            IN  Cardinality(upTo) >= maxLines /\ \E j \in upTo : LineCursor(all, j) > 0}
    IN  IF maxLines = 0 \/ enough = {} THEN all ELSE SubSeq(all, 1, Min(enough))

\* The length of the longest line that has an end.
LineEnd(text) ==
    Max({0} \cup {LineCursor(text, i) : i \in {j \in DOMAIN text : text[j] \in LineEnds}})

\* All lines laid over each other: the positions that are not white in any.
Inked(text) == {LineCursor(text, i) : i \in {j \in DOMAIN text : text[j] = "x"}}

\* Where a column begins: ink after white.
Starts(ink) == {p \in ink : p = 0 \/ (p - 1) \notin ink}

\* The columns counted up to the first end of a line that is not empty; room is
\* made for that many offsets.
Counted(text) ==
    LET full == {i \in DOMAIN text : text[i] \in LineEnds /\ LineCursor(text, i) > 0}
        line == IF full = {} THEN text ELSE SubSeq(text, 1, Min(full))
    IN  Cardinality({i \in DOMAIN line :
            line[i] = "x" /\ (i = 1 \/ line[i - 1] # "x")})

\* auto_detect_fixed_column_sizes: a column ends where the next begins.
Offsets(text) ==
    LET end == LineEnd(text)
        starts == Starts({p \in Inked(text) : p < end})
        found[n \in 0..end] ==
            IF n = 0 THEN <<>>
            ELSE IF n - 1 \in starts \ {Min(starts)} THEN Append(found[n - 1], n - 1)
            ELSE found[n - 1]
    IN  IF starts = {} THEN <<>> ELSE Append(found[end], end + FxMargin)

FixedInit ==
    /\ cmd = "fixed" /\ out = <<>> /\ disk = <<>>
    /\ \E input \in FxInputs, given \in FxGiven, maxLines \in 0..1 :
         st = [pc |-> "detect", input |-> input, given |-> given, maxLines |-> maxLines,
               offsets |-> <<>>, read |-> 0, buff |-> <<>>, last |-> "none",
               throwaway |-> FALSE, stat |-> "ok"]

\* zsv_set_fixed_offsets refuses offsets that fall, or that lie beyond the
\* buffer; select then reads nothing.
OffsetsFit(offsets) ==
    /\ \A c \in 2..Len(offsets) : offsets[c - 1] <= offsets[c]
    /\ Last(offsets) <= FxBuffer

\* Detection fails without a line end.  More offsets than were counted do not
\* fit into their array, and without any the input is taken for delimited.
FixedDetect ==
    /\ st.pc = "detect"
    /\ LET text == Previewed(st.input, st.maxLines)
           auto == st.given = <<>>
           offsets == IF auto THEN Offsets(text) ELSE st.given
           stat == IF auto /\ LineEnd(text) = 0 THEN "error"
                   ELSE IF auto /\ Len(offsets) > Counted(text) THEN "overrun"
                   ELSE IF offsets = <<>> THEN "delimited"
                   ELSE IF ~OffsetsFit(offsets) THEN "cancelled" ELSE "ok"
       IN  st' = [st EXCEPT !.pc = IF stat = "ok" THEN "read" ELSE "done",
                            !.offsets = offsets, !.stat = stat]
    /\ UNCHANGED <<cmd, out, disk>>

\* row_fx: the bytes of a row between the offsets, as far as the row goes.
RowCells(offsets, row) ==
    [c \in DOMAIN offsets |->
        SubSeq(row, (IF c = 1 THEN 0 ELSE offsets[c - 1]) + 1, Min({offsets[c], Len(row)}))]

\* Mutant: the last byte of the read before is forgotten.
EndsCrLfInBuffer(buff, last, i) == i > 1 /\ buff[i] = "\n" /\ buff[i - 1] = "\r"

\* A line feed after a carriage return, which may have come with the last read.
EndsCrLf(buff, last, i) ==
    buff[i] = "\n" /\ (IF i = 1 THEN last ELSE buff[i - 1]) = "\r"

\* One byte of a scan: the rows so far, and where the next one begins.  A line
\* feed after a carriage return only moves the start of the row.
ScanByte(buff, last, i, s) ==
    IF buff[i] \notin LineEnds THEN s
    ELSE IF EndsCrLf(buff, last, i) THEN [s EXCEPT !.from = i + 1]
    ELSE [rows |-> Append(s.rows, SubSeq(buff, s.from, i - 1)), from |-> i + 1]

\* The rows of one scan and what is left.
ScanFixed(buff, last) ==
    LET scan[i \in 0..Len(buff)] ==
            IF i = 0 THEN [rows |-> <<>>, from |-> 1] ELSE ScanByte(buff, last, i, scan[i - 1])
        end == scan[Len(buff)]
    IN  [rows |-> end.rows, rest |-> SubSeq(buff, end.from, Len(buff))]

\* A row delivered to the handler; the first row after a row that did not fit
\* into the buffer is thrown away.
Deliver(offsets, rows, throwaway) ==
    LET kept == IF throwaway /\ rows # <<>> THEN Tail(rows) ELSE rows
    IN  [n \in DOMAIN kept |-> RowCells(offsets, kept[n])]

\* scanner_pre_parse and zsv_scan_fixed: a full buffer without a line end is
\* cut off as a row of its own before more is read.
FixedRead ==
    /\ st.pc = "read" /\ st.read < Len(st.input)
    /\ LET full == Len(st.buff) = FxBuffer
           base == IF full THEN <<>> ELSE st.buff
           cut == IF full THEN Deliver(st.offsets, <<st.buff>>, st.throwaway) ELSE <<>>
           thrown == full \/ st.throwaway
       IN  \E n \in 1..Min({FxBuffer - Len(base), Len(st.input) - st.read}) :
             LET s == ScanFixed(base \o SubSeq(st.input, st.read + 1, st.read + n), st.last)
             IN  /\ st' = [st EXCEPT !.read = @ + n, !.buff = s.rest,
                                     !.last = st.input[st.read + n],
                                     !.throwaway = thrown /\ s.rows = <<>>]
                 /\ out' = out \o cut \o Deliver(st.offsets, s.rows, thrown)
    /\ UNCHANGED <<cmd, disk>>

\* The last read finds nothing, and zsv_finish delivers a last line that has
\* no end.
FixedFinish ==
    /\ st.pc = "read" /\ st.read = Len(st.input)
    /\ st' = [st EXCEPT !.pc = "done"]
    /\ out' = IF st.buff = <<>> THEN out
              ELSE out \o Deliver(st.offsets, <<st.buff>>, st.throwaway)
    /\ UNCHANGED <<cmd, disk>>

FixedNext ==
    /\ cmd = "fixed"
    /\ FixedDetect \/ FixedRead \/ FixedFinish

FixedSpec == FixedInit /\ [][FixedNext \/ Finished]_procVars

-----------------------------------------------------------------------------

\* A line ends with CR, LF or CR LF; the last one may have no end.
EndsLine(input, e) ==
    input[e] \in LineEnds /\ ~(input[e] = "\n" /\ e > 1 /\ input[e - 1] = "\r")
LinesEnd(input) ==
    {e \in 1..Len(input) : EndsLine(input, e)}
        \cup {e \in {Len(input) + 1} : LineCursor(input, e) > 0}
LineBefore(input, e) == SubSeq(input, e - LineCursor(input, e), e - 1)

\* The cells of a line; of one longer than the buffer, what the buffer holds.
LineCells(offsets, line) == RowCells(offsets, SubSeq(line, 1, Min({FxBuffer, Len(line)})))

\* No word is cut in two between this cell and the next.
CutsNoWord(cells, c) ==
    c < Len(cells) /\ cells[c] # <<>> /\ cells[c + 1] # <<>> =>
        ~(Last(cells[c]) = "x" /\ Head(cells[c + 1]) = "x")

\* The rows are the lines of the input, cut at the offsets, in whatever pieces
\* the input was read; a line longer than the buffer keeps what the buffer
\* holds.  No word of a line that the detection has seen whole is cut in
\* two (zsv_scan_fixed, scanner_pre_parse, auto_detect_fixed_column_sizes).
FixedRowsAreTheLines ==
    LET ends == LinesEnd(st.input)
        cells(e) == LineCells(st.offsets, LineBefore(st.input, e))
        seen == Len(Previewed(st.input, st.maxLines))
    IN  cmd = "fixed" /\ st.pc = "done" /\ st.stat = "ok" =>
        /\ Len(out) = Cardinality(ends)
        /\ \A e \in ends : out[Cardinality({f \in ends : f <= e})] = cells(e)
        /\ st.given = <<>> => \A e \in ends : e - 1 <= seen =>
             \A c \in DOMAIN cells(e) : CutsNoWord(cells(e), c)
=============================================================================
