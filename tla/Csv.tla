-------------------------------- MODULE Csv --------------------------------
(***************************************************************************)
(* What a document means: its rows and the text of their cells, defined on *)
(* the whole document, without buffers, pieces or saved flags.  The        *)
(* scanner is compared with it (ScannerRef), and the parallel commands use *)
(* it for what a parser started at some offset of a file reads.            *)
(***************************************************************************)
EXTENDS Integers, Sequences, FiniteSets

CONSTANTS
    MaxCols,    \* scanner->row.allocated
    OnlyCrlf    \* opts.only_crlf_rowend

Delim == ","
Quote == "q"
CR    == "r"
LF    == "n"
Byte  == {Delim, Quote, CR, LF, "a"}
NUL   == "0"            \* scanner->last before any byte is known

\* The loops of cell_dl() and zsv_finish() that collapse each doubled quote.
DeDouble(s) ==
    LET suffix[k \in 0..Len(s)] ==
          LET j == Len(s) - k + 1 IN
          CASE k = 0 -> <<>>
            [] k >= 2 /\ s[j] = Quote /\ s[j+1] = Quote
                 -> <<Quote>> \o suffix[k-2]
            [] OTHER -> <<s[j]>> \o suffix[k-1]
    IN  suffix[Len(s)]
-----------------------------------------------------------------------------
QuotesIn(raw, p) == Cardinality({k \in 1..p : raw[k] = Quote})

\* positions of a closing quote: an even number of quotes so far, and the
\* next byte is not a quote
Closers(raw) == {p \in 2..Len(raw) :
                    /\ raw[p] = Quote
                    /\ QuotesIn(raw, p) % 2 = 0
                    /\ p = Len(raw) \/ raw[p + 1] # Quote}

OpenCell(raw) == raw # <<>> /\ raw[1] = Quote /\ Closers(raw) = {}

\* the text a cell stands for, from its raw bytes
RefValue(raw) ==
    IF raw = <<>> \/ raw[1] # Quote \/ Len(raw) = 1
    THEN raw
    ELSE IF Closers(raw) = {}
    THEN DeDouble(Tail(raw))
    ELSE LET p == CHOOSE p \in Closers(raw) : \A p2 \in Closers(raw) : p <= p2
         IN  DeDouble(SubSeq(raw, 2, p - 1)) \o DeDouble(SubSeq(raw, p + 1, Len(raw)))

\* the state of a left-to-right reading of d: where the cell and the row
\* began, the cells of the row so far, the rows so far
RefAddCell(s, d, to) ==
    IF Len(s.row) < MaxCols
    THEN Append(s.row, RefValue(SubSeq(d, s.cell + 1, to))) ELSE s.row

RefStep(s, d, k) ==
    LET open     == OpenCell(SubSeq(d, s.cell + 1, k - 1))
        afterCR  == k > 1 /\ d[k - 1] = CR
        rowEnd(to) == [cell |-> k, start |-> k, row |-> <<>>,
                       rows |-> Append(s.rows, [cells |-> RefAddCell(s, d, to),
                                                start |-> s.start, at |-> k - 1])]
    IN  CASE ~open /\ d[k] = Delim ->
               [s EXCEPT !.cell = k, !.row = RefAddCell(s, d, k - 1)]
          [] ~open /\ d[k] = LF /\ OnlyCrlf /\ afterCR -> rowEnd(k - 2)
          [] ~open /\ d[k] = LF /\ ~OnlyCrlf /\ afterCR ->
               [s EXCEPT !.cell = k, !.start = k]
          [] ~open /\ ~OnlyCrlf /\ (d[k] = CR \/ (d[k] = LF /\ ~afterCR)) -> rowEnd(k - 1)
          [] OTHER -> s

\* the states of the reading of d, by how many bytes have been read (the
\* singleton set makes TLC evaluate the state before k only once)
RefStates(d) ==
    LET st[k \in 0..Len(d)] ==
          IF k = 0 THEN [cell |-> 0, start |-> 0, row |-> <<>>, rows |-> <<>>]
                   ELSE CHOOSE t \in {RefStep(s, d, k) : s \in {st[k - 1]}} : TRUE
    IN  st

RefState(d) == RefStates(d)[Len(d)]

\* the rows of document d
RefRows(d) ==
    LET end == RefState(d)
    IN  IF end.start = Len(d) THEN end.rows
        ELSE Append(end.rows, [cells |-> RefAddCell(end, d, Len(d)),
                               start |-> end.start, at |-> Len(d)])

\* the document ends, without a row end, in a closed cell that holds a
\* doubled quote
EndsInEscapedCell(d) ==
    LET end == RefState(d)
        raw == SubSeq(d, end.cell + 1, Len(d))
    IN  raw # <<>> /\ raw[1] = Quote /\ Len(raw) \in Closers(raw)
        /\ QuotesIn(raw, Len(raw)) > 2
=============================================================================
